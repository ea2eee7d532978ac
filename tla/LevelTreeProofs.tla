-------------------------- MODULE LevelTreeProofs --------------------------
(***************************************************************************)
(* Theorems about LevelTree, for any keys, depth and bounds: what is read  *)
(* is what was written last, before the snapshot, wherever flushes, moves, *)
(* merges and restarts have put it.                                        *)
(*                                                                         *)
(* They are about WholeMerges.  The app takes no snapshots and never calls *)
(* CompactRange, so they hold of it whatever its keys, and wherever an     *)
(* output file ends.                                                       *)
(***************************************************************************)
EXTENDS LevelTree, FiniteSetTheorems, WellFoundedInduction, TLAPS

-----------------------------------------------------------------------------
(* The least and the greatest of a set of numbers.                         *)

(* A set of numbers that is not empty has a least one.                     *)
LEMMA LeastThere ==
    ASSUME NEW S, S \subseteq Nat, S # {}
    PROVE  Min(S) \in S /\ \A y \in S : Min(S) <= y
<1> DEFINE Less == {p \in Nat \X Nat : p[1] < p[2]}
<1>1. Less = OpToRel(<, Nat)
  BY Zenon DEF OpToRel
<1>2. IsWellFoundedOn(Less, Nat)
  BY <1>1, NatLessThanWellFounded, Zenon
<1>3. \A x, y \in Nat : x < y => <<x, y>> \in Less
  OBVIOUS
<1> HIDE DEF Less
<1>4. PICK x \in S : \A y \in S : ~ (<<y, x>> \in Less)
  BY <1>2, WFMin, Zenon
<1>5. \A y \in S : y \in Nat
  OBVIOUS
<1>6. \A y \in S : ~ (y < x)
  BY <1>3, <1>4, <1>5
<1>7. \A y \in S : x <= y
  BY <1>5, <1>6
<1>8. QED
  BY <1>7 DEF Min

(* A set of numbers that is not empty and has a bound has a greatest one.  *)
LEMMA GreatestThere ==
    ASSUME NEW S, S \subseteq Nat, S # {}, NEW B \in Nat, \A y \in S : y <= B
    PROVE  Max(S) \in S /\ \A y \in S : y <= Max(S)
<1> DEFINE T == {B - y : y \in S}
<1>1. T \subseteq Nat /\ T # {}
  <2>1. \A y \in S : B - y \in Nat
    OBVIOUS
  <2> QED
    BY <2>1
<1> DEFINE m == Min(T)
<1>2. m \in T /\ \A t \in T : m <= t
  BY <1>1, LeastThere
<1>3. PICK x \in S : m = B - x
  BY <1>2
<1>4. \A y \in S : x >= y
  <2> TAKE y \in S
  <2>1. B - y \in T
    OBVIOUS
  <2>2. B - x <= B - y
    BY <2>1, <1>2, <1>3
  <2> QED
    BY <2>2
<1>5. Max(S) \in S /\ \A y \in S : Max(S) >= y
  BY <1>4, Zenon DEF Max
<1>6. \A y \in S : y \in Nat
  OBVIOUS
<1>7. QED
  BY <1>5, <1>6

-----------------------------------------------------------------------------
(* Files and ranges of keys.                                               *)

\* A file: entries, of keys that have a bound.
File(f) ==
    /\ f # {} /\ f \subseteq Entries
    /\ \E B \in Nat : \A e \in f : e.key <= B

(* The smallest and the largest key of a file.                             *)
LEMMA Ends ==
    ASSUME NEW f, File(f)
    PROVE  /\ Lo(f) \in Keys /\ Hi(f) \in Keys /\ Lo(f) \in Nat /\ Hi(f) \in Nat
           /\ \A e \in f : Lo(f) <= e.key /\ e.key <= Hi(f)
           /\ \E e \in f : e.key = Lo(f)
           /\ \E e \in f : e.key = Hi(f)
<1> DEFINE S == {e.key : e \in f}
<1>1. PICK B \in Nat : \A e \in f : e.key <= B
  BY DEF File
<1>2. f # {} /\ \A e \in f : e.key \in Keys
  BY DEF File, Entries
<1>3. \A e \in f : e.key \in Nat
  BY <1>2, LevelTreeAssumption
<1>4. S \subseteq Nat /\ S # {} /\ \A y \in S : y <= B
  BY <1>1, <1>2, <1>3
<1>5. Min(S) \in S /\ \A y \in S : Min(S) <= y
  BY <1>4, LeastThere
<1>6. Max(S) \in S /\ \A y \in S : y <= Max(S)
  BY <1>4, GreatestThere
<1>7. Lo(f) = Min(S) /\ Hi(f) = Max(S)
  BY DEF Lo, Hi
<1> HIDE DEF S
<1>8. /\ \A e \in f : e.key \in S
      /\ \A y \in S : \E e \in f : e.key = y
  BY DEF S
<1> QED
  BY <1>2, <1>3, <1>5, <1>6, <1>7, <1>8

(* Lo <= Hi.                                                               *)
LEMMA LoBelowHi ==
    ASSUME NEW f, File(f)
    PROVE  Lo(f) <= Hi(f)
<1>1. PICK e \in f : e.key = Lo(f)
  BY Ends
<1> QED
  BY <1>1, Ends

\* No key in common.
Apart(f, g) == \A a \in f, b \in g : a.key # b.key

(* Files that do not overlap: one is before the other.                     *)
LEMMA Beside ==
    ASSUME NEW f, NEW g, File(f), File(g), ~Overlaps(f, Lo(g), Hi(g))
    PROVE  ~Overlaps(g, Lo(f), Hi(f)) /\ Apart(f, g) /\ Apart(g, f)
<1>1. Hi(f) < Lo(g) \/ Hi(g) < Lo(f)
  BY DEF Overlaps
<1>2. ~Overlaps(g, Lo(f), Hi(f))
  BY <1>1 DEF Overlaps
<1>3. ASSUME NEW a \in f, NEW b \in g
      PROVE  a.key # b.key
  <2>1. a.key <= Hi(f) /\ Lo(f) <= a.key /\ Lo(f) \in Nat /\ Hi(f) \in Nat
    BY Ends
  <2>2. b.key <= Hi(g) /\ Lo(g) <= b.key /\ Lo(g) \in Nat /\ Hi(g) \in Nat
    BY Ends
  <2>3. a.key \in Nat /\ b.key \in Nat
    BY LevelTreeAssumption DEF File, Entries
  <2> QED
    BY <1>1, <2>1, <2>2, <2>3
<1> QED
  BY <1>2, <1>3 DEF Apart

(* The range of several files.                                             *)
LEMMA RangeOfAll ==
    ASSUME NEW S, S # {}, \A f \in S : File(f), File(UNION S)
    PROVE  /\ \A f \in S : Lo(UNION S) <= Lo(f) /\ Hi(f) <= Hi(UNION S)
           /\ \E f \in S : Lo(f) = Lo(UNION S)
           /\ \E f \in S : Hi(f) = Hi(UNION S)
<1> DEFINE u == UNION S
<1>1. /\ Lo(u) \in Nat /\ Hi(u) \in Nat
      /\ \A e \in u : Lo(u) <= e.key /\ e.key <= Hi(u)
  BY Ends
<1>2. \A f \in S : f \subseteq u
  OBVIOUS
<1>3. ASSUME NEW f \in S
      PROVE  Lo(u) <= Lo(f) /\ Hi(f) <= Hi(u) /\ Lo(f) \in Nat /\ Hi(f) \in Nat
  <2>1. /\ Lo(f) \in Nat /\ Hi(f) \in Nat
        /\ \E e \in f : e.key = Lo(f)
        /\ \E e \in f : e.key = Hi(f)
    BY Ends
  <2> HIDE DEF u
  <2> QED
    BY <1>1, <1>2, <2>1
<1>4. PICK a \in u : a.key = Lo(u)
  BY Ends
<1>5. PICK b \in u : b.key = Hi(u)
  BY Ends
<1>6. PICK f \in S : a \in f
  BY <1>4
<1>7. PICK g \in S : b \in g
  BY <1>5
<1>8. Lo(f) <= a.key /\ b.key <= Hi(g)
  BY <1>6, <1>7, Ends
<1>9. Lo(f) = Lo(u)
  <2> HIDE DEF u
  <2> QED BY <1>1, <1>3, <1>4, <1>8
<1>10. Hi(g) = Hi(u)
  <2> HIDE DEF u
  <2> QED BY <1>1, <1>3, <1>5, <1>8
<1> QED
  BY <1>3, <1>9, <1>10

\* Without files that overlap the range from a to b, all are before it or all behind it.
Gapless(S) ==
    \A a, b \in Keys : a <= b /\ (\A f \in S : ~Overlaps(f, a, b)) =>
        \/ \A f \in S : Hi(f) < a
        \/ \A f \in S : b < Lo(f)

(* With two keys there is no gap to be in.                                 *)
LEMMA TwoKeysGapless ==
    ASSUME NEW S, \A f \in S : File(f),
           \A a, b, c \in Keys : ~(a < b /\ b < c)
    PROVE  Gapless(S)
<1> SUFFICES ASSUME NEW a \in Keys, NEW b \in Keys, a <= b,
                    \A f \in S : ~Overlaps(f, a, b),
                    NEW f \in S, ~(Hi(f) < a), NEW g \in S, ~(b < Lo(g))
             PROVE  FALSE
  BY DEF Gapless
<1>1. a \in Nat /\ b \in Nat
  BY LevelTreeAssumption
<1>2. Lo(f) \in Keys /\ Hi(f) \in Nat /\ Lo(f) \in Nat
  BY Ends
<1>3. Hi(g) \in Keys /\ Hi(g) \in Nat /\ Lo(g) \in Nat
  BY Ends
<1>4. b < Lo(f) /\ Hi(g) < a
  BY <1>1, <1>2, <1>3 DEF Overlaps
<1>5. Hi(g) < a /\ a < Lo(f)
  BY <1>1, <1>2, <1>3, <1>4
<1> QED
  BY <1>2, <1>3, <1>5

(* A single file has no gap.                                               *)
LEMMA OneGapless ==
    ASSUME NEW f, File(f)
    PROVE  Gapless({f})
  BY Ends DEF Gapless, Overlaps

-----------------------------------------------------------------------------
(* The inputs of a merge.                                                  *)

\* The ranges of GetOverlappingInputs at level 0.
Closed(lo, hi) ==
    {r \in Keys \X Keys :
        /\ r[1] <= lo /\ hi <= r[2]
        /\ \A f \in FilesAt(0) : Overlaps(f, r[1], r[2]) => r[1] <= Lo(f) /\ Hi(f) <= r[2]}

(* What GetOverlappingInputs takes, with that name.                        *)
LEMMA Chosen ==
    ASSUME NEW lo, NEW hi
    PROVE  /\ GetOverlappingInputs(0, lo, hi) =
                 {f \in FilesAt(0) : \A r \in Closed(lo, hi) : Overlaps(f, r[1], r[2])}
           /\ \A l : l # 0 => GetOverlappingInputs(l, lo, hi) =
                 {f \in FilesAt(l) : Overlaps(f, lo, hi)}
           /\ \A l : GetOverlappingInputs(l, lo, hi) \subseteq FilesAt(l)
  BY Zenon DEF GetOverlappingInputs, Closed

(* At level 0, what is not taken has no key in common with what is.        *)
LEMMA OthersApart ==
    ASSUME \A f \in FilesAt(0) : File(f), NEW lo, NEW hi,
           NEW f \in GetOverlappingInputs(0, lo, hi),
           NEW g \in FilesAt(0) \ GetOverlappingInputs(0, lo, hi)
    PROVE  Apart(g, f)
<1>1. PICK r \in Closed(lo, hi) : ~Overlaps(g, r[1], r[2])
  BY Chosen
<1>2. f \in FilesAt(0) /\ Overlaps(f, r[1], r[2])
  BY Chosen
<1>3. r[1] <= Lo(f) /\ Hi(f) <= r[2] /\ r[1] \in Keys /\ r[2] \in Keys
  BY <1>1, <1>2 DEF Closed
<1>4. r[1] \in Nat /\ r[2] \in Nat
  BY <1>3, LevelTreeAssumption
<1>5. Hi(g) < r[1] \/ r[2] < Lo(g)
  BY <1>1 DEF Overlaps
<1>6. Lo(f) \in Nat /\ Hi(f) \in Nat /\ Lo(g) \in Nat /\ Hi(g) \in Nat
  BY <1>2, Ends
<1>7. ~Overlaps(f, Lo(g), Hi(g))
  BY <1>3, <1>4, <1>5, <1>6 DEF Overlaps
<1> QED
  BY <1>2, <1>7, Beside

(* Every file that overlaps the range is taken.                            *)
LEMMA OverlapsTaken ==
    ASSUME \A f \in FilesAt(0) : File(f), NEW l, NEW lo \in Nat, NEW hi \in Nat,
           NEW f \in FilesAt(l), File(f), Overlaps(f, lo, hi)
    PROVE  f \in GetOverlappingInputs(l, lo, hi)
<1>1. CASE l # 0
  BY <1>1 DEF GetOverlappingInputs
<1>2. CASE l = 0
  <2>1. ASSUME NEW r \in Closed(lo, hi)
        PROVE  Overlaps(f, r[1], r[2])
    <3>1. r[1] <= lo /\ hi <= r[2] /\ r[1] \in Nat /\ r[2] \in Nat
      BY LevelTreeAssumption DEF Closed
    <3>2. Lo(f) \in Nat /\ Hi(f) \in Nat
      BY Ends
    <3> QED
      BY <3>1, <3>2 DEF Overlaps
  <2> QED
    BY <1>2, <2>1, Chosen
<1> QED
  BY <1>1, <1>2

(* Two ranges that are closed meet in one that is.                         *)
LEMMA ClosedMeet ==
    ASSUME \A f \in FilesAt(0) : File(f), NEW lo \in Nat, NEW hi \in Nat, lo <= hi,
           NEW r \in Closed(lo, hi), NEW q \in Closed(lo, hi)
    PROVE  <<r[1], q[2]>> \in Closed(lo, hi)
<1>1. /\ r[1] <= lo /\ hi <= r[2] /\ r[1] \in Keys /\ r[2] \in Keys
      /\ q[1] <= lo /\ hi <= q[2] /\ q[1] \in Keys /\ q[2] \in Keys
  BY DEF Closed
<1>2. r[1] \in Nat /\ r[2] \in Nat /\ q[1] \in Nat /\ q[2] \in Nat
  BY <1>1, LevelTreeAssumption
<1>3. ASSUME NEW f \in FilesAt(0), Overlaps(f, r[1], q[2])
      PROVE  r[1] <= Lo(f) /\ Hi(f) <= q[2]
  <2>1. /\ Overlaps(f, r[1], r[2]) => r[1] <= Lo(f) /\ Hi(f) <= r[2]
        /\ Overlaps(f, q[1], q[2]) => q[1] <= Lo(f) /\ Hi(f) <= q[2]
    BY DEF Closed
  <2>2. Lo(f) \in Nat /\ Hi(f) \in Nat /\ Lo(f) <= Hi(f)
    BY Ends, LoBelowHi
  <2>3. CASE Overlaps(f, r[1], r[2])
    <3>1. CASE Overlaps(f, q[1], q[2])
      BY <2>1, <2>3, <3>1
    <3>2. CASE ~Overlaps(f, q[1], q[2])
      BY <1>1, <1>2, <1>3, <2>1, <2>2, <2>3, <3>2 DEF Overlaps
    <3> QED
      BY <3>1, <3>2
  <2>4. CASE ~Overlaps(f, r[1], r[2])
    BY <1>1, <1>2, <1>3, <2>1, <2>2, <2>4 DEF Overlaps
  <2> QED
    BY <2>3, <2>4
<1> QED
  BY <1>1, <1>3 DEF Closed

(* There is a closed range.                                                *)
LEMMA ClosedThere ==
    ASSUME \A f \in FilesAt(0) : File(f), NEW lo \in Keys, NEW hi \in Keys,
           NEW B \in Nat, \A f \in FilesAt(0) : Hi(f) <= B
    PROVE  Closed(lo, hi) # {}
<1> DEFINE L == {lo} \cup {Lo(f) : f \in FilesAt(0)}
           H == {hi} \cup {Hi(f) : f \in FilesAt(0)}
<1>1. \A f \in FilesAt(0) : Lo(f) \in Keys /\ Hi(f) \in Keys
  BY Ends
<1>2. L \subseteq Keys /\ H \subseteq Keys
  BY <1>1
<1>3. L \subseteq Nat /\ H \subseteq Nat /\ lo \in Nat /\ hi \in Nat
  BY <1>2, LevelTreeAssumption
<1>4. PICK A \in Nat : A >= B /\ A >= hi
  BY <1>3
<1>5. \A y \in H : y <= A
  BY <1>1, <1>3, <1>4, LevelTreeAssumption
<1>6. L # {} /\ H # {} /\ lo \in L /\ hi \in H
  OBVIOUS
<1>7. /\ \A f \in FilesAt(0) : Lo(f) \in L
      /\ \A f \in FilesAt(0) : Hi(f) \in H
  OBVIOUS
<1> HIDE DEF L, H
<1>8. Min(L) \in L /\ \A y \in L : Min(L) <= y
  BY <1>3, <1>6, LeastThere
<1>9. Max(H) \in H /\ \A y \in H : y <= Max(H)
  BY <1>3, <1>5, <1>6, GreatestThere
<1>10. <<Min(L), Max(H)>> \in Closed(lo, hi)
  BY <1>2, <1>6, <1>7, <1>8, <1>9 DEF Closed
<1> QED
  BY <1>10

(* There is a least one: its files are those taken.                        *)
LEMMA LeastClosed ==
    ASSUME \A f \in FilesAt(0) : File(f), NEW lo \in Keys, NEW hi \in Keys, lo <= hi,
           NEW B \in Nat, \A f \in FilesAt(0) : Hi(f) <= B
    PROVE  \E r \in Closed(lo, hi) :
              \A f \in FilesAt(0) :
                 Overlaps(f, r[1], r[2]) => f \in GetOverlappingInputs(0, lo, hi)
<1> DEFINE L == {lo - r[1] : r \in Closed(lo, hi)}
           H == {r[2] - hi : r \in Closed(lo, hi)}
<1>1. Closed(lo, hi) # {} /\ lo \in Nat /\ hi \in Nat
  BY ClosedThere, LevelTreeAssumption
<1>2. \A r \in Closed(lo, hi) :
         r[1] \in Nat /\ r[2] \in Nat /\ r[1] <= lo /\ hi <= r[2]
  BY LevelTreeAssumption DEF Closed
<1>3. \A r \in Closed(lo, hi) : lo - r[1] \in Nat /\ r[2] - hi \in Nat
  BY <1>1, <1>2
<1>4. L \subseteq Nat /\ L # {} /\ H \subseteq Nat /\ H # {}
  BY <1>1, <1>3
<1> DEFINE l == Min(L)
           h == Min(H)
<1>5. l \in L /\ \A y \in L : l <= y
  BY <1>4, LeastThere
<1>6. h \in H /\ \A y \in H : h <= y
  BY <1>4, LeastThere
<1> HIDE DEF l, h
<1>7. PICK p \in Closed(lo, hi) : l = lo - p[1]
  BY <1>5
<1>8. PICK q \in Closed(lo, hi) : h = q[2] - hi
  BY <1>6
<1>9. ASSUME NEW r \in Closed(lo, hi)
      PROVE  r[1] <= p[1] /\ q[2] <= r[2]
  <2>1. lo - r[1] \in L /\ r[2] - hi \in H
    OBVIOUS
  <2>2. l <= lo - r[1] /\ h <= r[2] - hi
    BY <1>5, <1>6, <2>1, Zenon
  <2> QED
    BY <1>1, <1>2, <1>7, <1>8, <2>2
<1>10. <<p[1], q[2]>> \in Closed(lo, hi)
  BY <1>1, ClosedMeet
<1>11. ASSUME NEW f \in FilesAt(0), Overlaps(f, p[1], q[2])
       PROVE  f \in GetOverlappingInputs(0, lo, hi)
  <2>1. ASSUME NEW r \in Closed(lo, hi)
        PROVE  Overlaps(f, r[1], r[2])
    <3>1. Lo(f) \in Nat /\ Hi(f) \in Nat
      BY Ends
    <3>2. /\ r[1] \in Nat /\ r[2] \in Nat /\ p[1] \in Nat /\ q[2] \in Nat
          /\ r[1] <= p[1] /\ q[2] <= r[2]
      BY <1>2, <1>9
    <3> QED
      BY <1>11, <3>1, <3>2 DEF Overlaps
  <2> QED
    BY <2>1, Chosen
<1> WITNESS <<p[1], q[2]>> \in Closed(lo, hi)
<1> QED
  BY <1>11

(* Files that are taken but for a gap are on the same side of it as the    *)
(* range is.                                                               *)
LEMMA BeforeGap ==
    ASSUME \A f \in FilesAt(0) : File(f), NEW l, \A f \in FilesAt(l) : File(f),
           NEW lo \in Keys, NEW hi \in Keys, lo <= hi,
           NEW B \in Nat, \A f \in FilesAt(0) : Hi(f) <= B,
           NEW a \in Keys, NEW b \in Keys, a <= b, hi < a,
           \A f \in GetOverlappingInputs(l, lo, hi) : ~Overlaps(f, a, b)
    PROVE  \A f \in GetOverlappingInputs(l, lo, hi) : Hi(f) < a
<1> DEFINE G == GetOverlappingInputs(l, lo, hi)
<1>1. a \in Nat /\ b \in Nat /\ lo \in Nat /\ hi \in Nat
  BY LevelTreeAssumption
<1>2. \A f \in G : f \in FilesAt(l)
  BY Chosen
<1>3. \A f \in G : Lo(f) \in Nat /\ Hi(f) \in Nat /\ Hi(f) \in Keys /\ Lo(f) <= Hi(f)
  BY <1>2, Ends, LoBelowHi
<1>4. CASE l # 0
  <2>1. \A f \in G : Overlaps(f, lo, hi)
    BY <1>4 DEF GetOverlappingInputs
  <2> QED
    BY <1>1, <1>3, <2>1 DEF Overlaps
<1>5. CASE l = 0
  <2>1. PICK R \in Closed(lo, hi) :
           \A f \in FilesAt(0) : Overlaps(f, R[1], R[2]) => f \in G
    BY <1>5, LeastClosed
  <2>2. /\ R[1] \in Keys /\ R[2] \in Keys /\ R[1] \in Nat /\ R[2] \in Nat
        /\ R[1] <= lo /\ hi <= R[2]
        /\ \A f \in FilesAt(0) : Overlaps(f, R[1], R[2]) => R[1] <= Lo(f) /\ Hi(f) <= R[2]
    BY LevelTreeAssumption DEF Closed
  <2>3. \A f \in G : R[1] <= Lo(f) /\ Hi(f) <= R[2]
    BY <1>5, <2>2, Chosen
  <2> DEFINE X == {hi} \cup {Hi(f) : f \in {g \in G : Hi(g) < a}}
             x == Max(X)
  <2>4. X \subseteq Nat /\ X # {} /\ \A y \in X : y <= a
    BY <1>1, <1>3
  <2>5. x \in X /\ \A y \in X : y <= x
    BY <1>1, <2>4, GreatestThere
  <2>6. /\ hi \in X
        /\ \A f \in G : Hi(f) < a => Hi(f) \in X
        /\ \A y \in X : y \in Keys /\ y \in Nat /\ y < a /\ y <= R[2]
    BY <1>1, <1>3, <2>2, <2>3
  <2> HIDE DEF G, X, x
  <2>7. ASSUME NEW f \in FilesAt(0), Overlaps(f, R[1], x)
        PROVE  R[1] <= Lo(f) /\ Hi(f) <= x
    <3>1. Lo(f) \in Nat /\ Hi(f) \in Nat /\ x \in Nat /\ x <= R[2] /\ x < a
      BY <2>5, <2>6, Ends
    <3>2. Overlaps(f, R[1], R[2])
      BY <2>2, <2>7, <3>1 DEF Overlaps
    <3>3. f \in G /\ R[1] <= Lo(f)
      BY <2>1, <2>2, <3>2
    <3>4. ~Overlaps(f, a, b)
      BY <3>3 DEF G
    <3>5. Hi(f) < a
      BY <1>1, <2>2, <2>7, <3>1, <3>4 DEF Overlaps
    <3> QED
      BY <2>5, <2>6, <3>3, <3>5
  <2>8. x \in Keys /\ hi <= x
    BY <2>5, <2>6
  <2>9. <<R[1], x>> \in Closed(lo, hi)
    BY <2>2, <2>7, <2>8 DEF Closed
  <2>10. ASSUME NEW f \in G
         PROVE  Hi(f) < a
    <3>1. f \in FilesAt(0) /\ Overlaps(f, R[1], x)
      BY <1>5, <2>9, Chosen DEF G
    <3>2. Hi(f) <= x
      BY <2>7, <3>1
    <3> QED
      BY <1>1, <1>3, <2>5, <2>6, <3>2
  <2> QED
    BY <2>10 DEF G
<1> QED
  BY <1>4, <1>5

(* The same on the other side.                                             *)
LEMMA BehindGap ==
    ASSUME \A f \in FilesAt(0) : File(f), NEW l, \A f \in FilesAt(l) : File(f),
           NEW lo \in Keys, NEW hi \in Keys, lo <= hi,
           NEW B \in Nat, \A f \in FilesAt(0) : Hi(f) <= B,
           NEW a \in Keys, NEW b \in Keys, a <= b, b < lo,
           \A f \in GetOverlappingInputs(l, lo, hi) : ~Overlaps(f, a, b)
    PROVE  \A f \in GetOverlappingInputs(l, lo, hi) : b < Lo(f)
<1> DEFINE G == GetOverlappingInputs(l, lo, hi)
<1>1. a \in Nat /\ b \in Nat /\ lo \in Nat /\ hi \in Nat
  BY LevelTreeAssumption
<1>2. \A f \in G : f \in FilesAt(l)
  BY Chosen
<1>3. \A f \in G : Lo(f) \in Nat /\ Hi(f) \in Nat /\ Lo(f) \in Keys /\ Lo(f) <= Hi(f)
  BY <1>2, Ends, LoBelowHi
<1>4. CASE l # 0
  <2>1. \A f \in G : Overlaps(f, lo, hi)
    BY <1>4 DEF GetOverlappingInputs
  <2> QED
    BY <1>1, <1>3, <2>1 DEF Overlaps
<1>5. CASE l = 0
  <2>1. PICK R \in Closed(lo, hi) :
           \A f \in FilesAt(0) : Overlaps(f, R[1], R[2]) => f \in G
    BY <1>5, LeastClosed
  <2>2. /\ R[1] \in Keys /\ R[2] \in Keys /\ R[1] \in Nat /\ R[2] \in Nat
        /\ R[1] <= lo /\ hi <= R[2]
        /\ \A f \in FilesAt(0) : Overlaps(f, R[1], R[2]) => R[1] <= Lo(f) /\ Hi(f) <= R[2]
    BY LevelTreeAssumption DEF Closed
  <2>3. \A f \in G : R[1] <= Lo(f) /\ Hi(f) <= R[2]
    BY <1>5, <2>2, Chosen
  <2> DEFINE X == {lo} \cup {Lo(f) : f \in {g \in G : b < Lo(g)}}
             x == Min(X)
  <2>4. X \subseteq Nat /\ X # {}
    BY <1>1, <1>3
  <2>5. x \in X /\ \A y \in X : x <= y
    BY <2>4, LeastThere
  <2>6. /\ lo \in X
        /\ \A f \in G : b < Lo(f) => Lo(f) \in X
        /\ \A y \in X : y \in Keys /\ y \in Nat /\ b < y /\ R[1] <= y
    BY <1>1, <1>3, <2>2, <2>3
  <2> HIDE DEF G, X, x
  <2>7. ASSUME NEW f \in FilesAt(0), Overlaps(f, x, R[2])
        PROVE  x <= Lo(f) /\ Hi(f) <= R[2]
    <3>1. Lo(f) \in Nat /\ Hi(f) \in Nat /\ x \in Nat /\ R[1] <= x /\ b < x
      BY <2>5, <2>6, Ends
    <3>2. Overlaps(f, R[1], R[2])
      BY <2>2, <2>7, <3>1 DEF Overlaps
    <3>3. f \in G /\ Hi(f) <= R[2]
      BY <2>1, <2>2, <3>2
    <3>4. ~Overlaps(f, a, b)
      BY <3>3 DEF G
    <3>5. b < Lo(f)
      BY <1>1, <2>2, <2>7, <3>1, <3>4 DEF Overlaps
    <3> QED
      BY <2>5, <2>6, <3>3, <3>5
  <2>8. x \in Keys /\ x <= lo
    BY <2>5, <2>6
  <2>9. <<x, R[2]>> \in Closed(lo, hi)
    BY <2>2, <2>7, <2>8 DEF Closed
  <2>10. ASSUME NEW f \in G
         PROVE  b < Lo(f)
    <3>1. f \in FilesAt(0) /\ Overlaps(f, x, R[2])
      BY <1>5, <2>9, Chosen DEF G
    <3>2. x <= Lo(f)
      BY <2>7, <3>1
    <3> QED
      BY <1>1, <1>3, <2>5, <2>6, <3>2
  <2> QED
    BY <2>10 DEF G
<1> QED
  BY <1>4, <1>5

-----------------------------------------------------------------------------
(* What a merge begins with.                                               *)

\* The files are made of entries that were written, of keys that have a bound.
Formed ==
    /\ log \subseteq Entries
    /\ \E B \in Nat : \A e \in log : e.key <= B
    /\ mem \subseteq log /\ imm \subseteq log
    /\ \A l \in 0 .. Depth : \A f \in FilesAt(l) : f # {} /\ f \subseteq log

(* Whatever is made of such entries is a file.                             *)
LEMMA FilesFormed ==
    ASSUME Formed
    PROVE  /\ \A f : f # {} /\ f \subseteq log => File(f)
           /\ \A l \in 0 .. Depth : \A f \in FilesAt(l) : File(f)
           /\ \A f \in FilesAt(0) : File(f)
           /\ \E B \in Nat : \A f \in FilesAt(0) : Hi(f) <= B
<1>1. PICK B \in Nat : \A e \in log : e.key <= B
  BY DEF Formed
<1>2. ASSUME NEW f, f # {}, f \subseteq log
      PROVE  File(f)
  BY <1>1, <1>2 DEF Formed, File
<1>3. \A l \in 0 .. Depth : \A f \in FilesAt(l) : f # {} /\ f \subseteq log
  BY DEF Formed
<1>4. 0 \in 0 .. Depth
  BY LevelTreeAssumption
<1>5. ASSUME NEW f \in FilesAt(0)
      PROVE  Hi(f) <= B
  <2>1. File(f) /\ f \subseteq log
    BY <1>2, <1>3, <1>4
  <2>2. PICK e \in f : e.key = Hi(f)
    BY <2>1, Ends
  <2> QED
    BY <1>1, <2>1, <2>2
<1> QED
  BY <1>2, <1>3, <1>4, <1>5

\* Files of one level, and of the next.
OfLevels(S, l) == S # {} /\ \A f \in S : f \in FilesAt(l) \/ f \in FilesAt(l + 1)

(* Their range.                                                            *)
LEMMA RangeOfLevels ==
    ASSUME Formed, NEW l \in 0 .. Depth - 1, NEW S, OfLevels(S, l)
    PROVE  /\ File(UNION S) /\ \A f \in S : File(f)
           /\ \A f \in S : Lo(UNION S) <= Lo(f) /\ Hi(f) <= Hi(UNION S)
           /\ \E f \in S : Lo(f) = Lo(UNION S)
           /\ \E f \in S : Hi(f) = Hi(UNION S)
           /\ Lo(UNION S) \in Keys /\ Hi(UNION S) \in Keys
           /\ Lo(UNION S) \in Nat /\ Hi(UNION S) \in Nat
           /\ Lo(UNION S) <= Hi(UNION S)
<1>1. l \in 0 .. Depth /\ l + 1 \in 0 .. Depth
  BY LevelTreeAssumption
<1>2. ASSUME NEW f \in S
      PROVE  f # {} /\ f \subseteq log
  BY <1>1 DEF Formed, OfLevels
<1>3. UNION S # {} /\ UNION S \subseteq log /\ S # {}
  BY <1>2 DEF OfLevels
<1>4. File(UNION S) /\ \A f \in S : File(f)
  <2>1. \A f \in S : File(f)
    BY <1>2, FilesFormed
  <2>2. File(UNION S)
    BY <1>3, FilesFormed
  <2> QED
    BY <2>1, <2>2
<1>5. /\ \A f \in S : Lo(UNION S) <= Lo(f) /\ Hi(f) <= Hi(UNION S)
      /\ \E f \in S : Lo(f) = Lo(UNION S)
      /\ \E f \in S : Hi(f) = Hi(UNION S)
  BY <1>3, <1>4, RangeOfAll
<1>6. /\ Lo(UNION S) \in Keys /\ Hi(UNION S) \in Keys
      /\ Lo(UNION S) \in Nat /\ Hi(UNION S) \in Nat
  BY <1>4, Ends
<1>7. Lo(UNION S) <= Hi(UNION S)
  BY <1>4, LoBelowHi
<1> QED
  BY <1>4, <1>5, <1>6, <1>7

(* What is on one side of some files is on that side of all that overlap   *)
(* their range.                                                            *)
LEMMA SameSide ==
    ASSUME Formed, NEW l \in 0 .. Depth - 1, NEW S, OfLevels(S, l), NEW m \in 0 .. Depth,
           NEW a \in Keys, NEW b \in Keys, a <= b,
           \A f \in GetOverlappingInputs(m, Lo(UNION S), Hi(UNION S)) : ~Overlaps(f, a, b)
    PROVE  /\ (\A f \in S : Hi(f) < a) =>
                 \A f \in GetOverlappingInputs(m, Lo(UNION S), Hi(UNION S)) : Hi(f) < a
           /\ (\A f \in S : b < Lo(f)) =>
                 \A f \in GetOverlappingInputs(m, Lo(UNION S), Hi(UNION S)) : b < Lo(f)
<1> DEFINE lo == Lo(UNION S)
           hi == Hi(UNION S)
<1>1. /\ \E f \in S : Lo(f) = lo
      /\ \E f \in S : Hi(f) = hi
      /\ lo \in Keys /\ hi \in Keys /\ lo <= hi
  BY RangeOfLevels
<1>2. \A f \in FilesAt(m) : File(f)
  BY FilesFormed
<1>3. \A f \in FilesAt(0) : File(f)
  BY FilesFormed
<1>4. PICK B \in Nat : \A f \in FilesAt(0) : Hi(f) <= B
  BY FilesFormed
<1> HIDE DEF lo, hi
<1>5. ASSUME \A f \in S : Hi(f) < a,
             \A f \in GetOverlappingInputs(m, lo, hi) : ~Overlaps(f, a, b)
      PROVE  \A f \in GetOverlappingInputs(m, lo, hi) : Hi(f) < a
  <2>1. hi < a
    BY <1>1, <1>5
  <2> QED
    BY <1>1, <1>2, <1>3, <1>4, <1>5, <2>1, BeforeGap
<1>6. ASSUME \A f \in S : b < Lo(f),
             \A f \in GetOverlappingInputs(m, lo, hi) : ~Overlaps(f, a, b)
      PROVE  \A f \in GetOverlappingInputs(m, lo, hi) : b < Lo(f)
  <2>1. b < lo
    BY <1>1, <1>6
  <2> QED
    BY <1>1, <1>2, <1>3, <1>4, <1>6, <2>1, BehindGap
<1> QED
  BY <1>5, <1>6 DEF lo, hi

\* What is asked of the files chosen on a level: those left there share no key with them.
Separate(l, S) ==
    /\ S # {} /\ S \subseteq FilesAt(l)
    /\ \A g \in FilesAt(l) \ S, f \in S : Apart(g, f)

\* A merge of S, on level l, and P, on the next one: nothing left on the next level
\* overlaps them, and they leave no gap.
Together(l, S, P) ==
    /\ P \subseteq FilesAt(l + 1)
    /\ \A g \in FilesAt(l + 1) \ P, h \in S \cup P : ~Overlaps(g, Lo(h), Hi(h))
    /\ Gapless(S \cup P)

(* The files of one level but the first are separate, whichever are taken. *)
LEMMA DeepSeparate ==
    ASSUME Formed, LevelsDisjoint, NEW l \in Levels, NEW S, S # {}, S \subseteq FilesAt(l)
    PROVE  Separate(l, S)
<1>1. FilesAt(l) = files[l] /\ l \in 0 .. Depth
  BY DEF FilesAt, Levels
<1>2. \A f \in FilesAt(l) : File(f)
  BY <1>1, FilesFormed
<1>3. ASSUME NEW g \in FilesAt(l) \ S, NEW f \in S
      PROVE  Apart(g, f)
  <2>1. g # f /\ f \in FilesAt(l)
    OBVIOUS
  <2>2. ~Overlaps(g, Lo(f), Hi(f))
    BY <1>1, <2>1 DEF LevelsDisjoint
  <2> QED
    BY <1>2, <2>1, <2>2, Beside
<1> QED
  BY <1>3 DEF Separate

(* What GetOverlappingInputs leaves at level 0 is apart from what it takes.*)
LEMMA FirstSeparate ==
    ASSUME Formed, NEW lo, NEW hi, GetOverlappingInputs(0, lo, hi) # {}
    PROVE  Separate(0, GetOverlappingInputs(0, lo, hi))
<1>1. \A f \in FilesAt(0) : File(f)
  BY FilesFormed
<1> QED
  BY <1>1, Chosen, OthersApart DEF Separate

(* The files of the next level in the range of S.                          *)
LEMMA NextTogether ==
    ASSUME Formed, LevelsDisjoint, NEW l \in 0 .. Depth - 1,
           NEW S, S # {}, S \subseteq FilesAt(l),
           NEW P, P = GetOverlappingInputs(l + 1, Lo(UNION S), Hi(UNION S)),
           Gapless(S \cup P)
    PROVE  Together(l, S, P)
<1>1. OfLevels(S, l) /\ l + 1 \in 0 .. Depth /\ l + 1 \in Levels /\ l + 1 # 0
  BY LevelTreeAssumption DEF OfLevels, Levels
<1>2. FilesAt(l + 1) = files[l + 1]
  BY <1>1 DEF FilesAt
<1>3. P \subseteq FilesAt(l + 1)
  BY Chosen
<1>4. /\ \A f \in S : Lo(UNION S) <= Lo(f) /\ Hi(f) <= Hi(UNION S)
      /\ Lo(UNION S) \in Nat /\ Hi(UNION S) \in Nat
      /\ \A f \in S : File(f)
  BY <1>1, RangeOfLevels
<1>5. \A f \in FilesAt(l + 1) : File(f)
  BY <1>1, FilesFormed
<1>6. ASSUME NEW g \in FilesAt(l + 1) \ P, NEW h \in S
      PROVE  ~Overlaps(g, Lo(h), Hi(h))
  <2>1. ~Overlaps(g, Lo(UNION S), Hi(UNION S))
    BY <1>1 DEF GetOverlappingInputs
  <2>2. Lo(g) \in Nat /\ Hi(g) \in Nat /\ Lo(h) \in Nat /\ Hi(h) \in Nat
    BY <1>4, <1>5, Ends
  <2>3. Lo(UNION S) <= Lo(h) /\ Hi(h) <= Hi(UNION S)
    BY <1>4
  <2>4. Hi(g) < Lo(UNION S) \/ Hi(UNION S) < Lo(g)
    BY <2>1 DEF Overlaps
  <2>5. Hi(g) < Lo(h) \/ Hi(h) < Lo(g)
    BY <1>4, <2>2, <2>3, <2>4
  <2> QED
    BY <2>5 DEF Overlaps
<1>7. ASSUME NEW g \in FilesAt(l + 1) \ P, NEW h \in P
      PROVE  ~Overlaps(g, Lo(h), Hi(h))
  <2>1. g # h /\ g \in files[l + 1] /\ h \in files[l + 1]
    BY <1>2, <1>3
  <2> QED
    BY <1>1, <2>1 DEF LevelsDisjoint
<1> QED
  BY <1>3, <1>6, <1>7 DEF Together

(* With the files of the next level in the range of S there is no gap.     *)
LEMMA NextGapless ==
    ASSUME Formed, NEW l \in 0 .. Depth - 1,
           NEW S, S # {}, S \subseteq FilesAt(l), Gapless(S),
           NEW P, P = GetOverlappingInputs(l + 1, Lo(UNION S), Hi(UNION S))
    PROVE  Gapless(S \cup P)
<1>1. OfLevels(S, l) /\ l + 1 \in 0 .. Depth
  BY LevelTreeAssumption DEF OfLevels
<1> SUFFICES ASSUME NEW a \in Keys, NEW b \in Keys, a <= b,
                    \A f \in S \cup P : ~Overlaps(f, a, b)
             PROVE  \/ \A f \in S \cup P : Hi(f) < a
                    \/ \A f \in S \cup P : b < Lo(f)
  BY DEF Gapless
<1>2. \/ \A f \in S : Hi(f) < a
      \/ \A f \in S : b < Lo(f)
  BY DEF Gapless
<1>3. \A f \in P : ~Overlaps(f, a, b)
  OBVIOUS
<1>4. /\ (\A f \in S : Hi(f) < a) => \A f \in P : Hi(f) < a
      /\ (\A f \in S : b < Lo(f)) => \A f \in P : b < Lo(f)
  BY <1>1, <1>3, SameSide
<1> QED
  BY <1>2, <1>4

(* A set of inputs that was widened has the one it was made of, and no gap *)
(* either.                                                                 *)
LEMMA WidenedGapless ==
    ASSUME Formed, NEW l \in 0 .. Depth - 1,
           NEW S, S # {}, S \subseteq FilesAt(l), Gapless(S),
           NEW P, P = GetOverlappingInputs(l + 1, Lo(UNION S), Hi(UNION S)),
           NEW W, W = GetOverlappingInputs(l, Lo(UNION (S \cup P)), Hi(UNION (S \cup P))),
           NEW Q, Q = GetOverlappingInputs(l + 1, Lo(UNION W), Hi(UNION W))
    PROVE  W # {} /\ W \subseteq FilesAt(l) /\ Gapless(W \cup Q)
<1>1. l \in 0 .. Depth /\ l + 1 \in 0 .. Depth /\ l + 1 # 0
  BY LevelTreeAssumption
<1>2. P \subseteq FilesAt(l + 1) /\ W \subseteq FilesAt(l)
  BY Chosen
<1> DEFINE A == S \cup P
<1>3. OfLevels(S, l) /\ OfLevels(A, l)
  BY <1>2 DEF OfLevels
<1>4. \A f \in FilesAt(0) : File(f)
  BY FilesFormed
<1>5. S \subseteq W
  <2>1. /\ \A f \in A : Lo(UNION A) <= Lo(f) /\ Hi(f) <= Hi(UNION A)
        /\ Lo(UNION A) \in Nat /\ Hi(UNION A) \in Nat
        /\ \A f \in A : File(f)
    BY <1>3, RangeOfLevels
  <2>2. ASSUME NEW f \in S
        PROVE  f \in W
    <3>1. File(f) /\ Lo(UNION A) <= Lo(f) /\ Hi(f) <= Hi(UNION A) /\ f \in FilesAt(l)
      BY <2>1
    <3>2. Lo(f) \in Nat /\ Hi(f) \in Nat /\ Lo(f) <= Hi(f)
      BY <3>1, Ends, LoBelowHi
    <3>3. Overlaps(f, Lo(UNION A), Hi(UNION A))
      BY <2>1, <3>1, <3>2 DEF Overlaps
    <3> QED
      BY <1>4, <2>1, <3>1, <3>3, OverlapsTaken
  <2> QED
    BY <2>2
<1>6. OfLevels(W, l)
  BY <1>2, <1>5 DEF OfLevels
<1>7. P \subseteq Q
  <2>1. /\ \A f \in S : Lo(UNION S) <= Lo(f) /\ Hi(f) <= Hi(UNION S)
        /\ \E f \in S : Lo(f) = Lo(UNION S)
        /\ \E f \in S : Hi(f) = Hi(UNION S)
        /\ Lo(UNION S) \in Nat /\ Hi(UNION S) \in Nat
    BY <1>3, RangeOfLevels
  <2>2. /\ \A f \in W : Lo(UNION W) <= Lo(f) /\ Hi(f) <= Hi(UNION W)
        /\ Lo(UNION W) \in Nat /\ Hi(UNION W) \in Nat
    BY <1>6, RangeOfLevels
  <2>3. Lo(UNION W) <= Lo(UNION S) /\ Hi(UNION S) <= Hi(UNION W)
    BY <1>5, <2>1, <2>2
  <2>4. ASSUME NEW f \in P
        PROVE  f \in Q
    <3>1. f \in FilesAt(l + 1) /\ Overlaps(f, Lo(UNION S), Hi(UNION S))
      BY <1>1 DEF GetOverlappingInputs
    <3>2. File(f) /\ Lo(f) \in Nat /\ Hi(f) \in Nat
      BY <1>1, <3>1, FilesFormed, Ends
    <3>3. Overlaps(f, Lo(UNION W), Hi(UNION W))
      BY <2>1, <2>2, <2>3, <3>1, <3>2 DEF Overlaps
    <3> QED
      BY <1>4, <2>2, <3>1, <3>2, <3>3, OverlapsTaken
  <2> QED
    BY <2>4
<1>8. Gapless(A)
  BY NextGapless
<1>9. ASSUME NEW a \in Keys, NEW b \in Keys, a <= b,
             \A f \in W \cup Q : ~Overlaps(f, a, b)
      PROVE  \/ \A f \in W \cup Q : Hi(f) < a
             \/ \A f \in W \cup Q : b < Lo(f)
  <2>1. \A f \in A : ~Overlaps(f, a, b)
    BY <1>5, <1>7, <1>9
  <2>2. \/ \A f \in A : Hi(f) < a
        \/ \A f \in A : b < Lo(f)
    BY <1>8, <1>9, <2>1 DEF Gapless
  <2>3. \A f \in W : ~Overlaps(f, a, b)
    BY <1>9
  <2>4. \A f \in Q : ~Overlaps(f, a, b)
    BY <1>9
  <2> HIDE DEF A
  <2>5. W = GetOverlappingInputs(l, Lo(UNION A), Hi(UNION A))
    BY DEF A
  <2>6. /\ (\A f \in A : Hi(f) < a) => \A f \in W : Hi(f) < a
        /\ (\A f \in A : b < Lo(f)) => \A f \in W : b < Lo(f)
    BY <1>1, <1>3, <1>9, <2>3, <2>5, SameSide
  <2>7. /\ (\A f \in W : Hi(f) < a) => \A f \in Q : Hi(f) < a
        /\ (\A f \in W : b < Lo(f)) => \A f \in Q : b < Lo(f)
    BY <1>1, <1>6, <1>9, <2>4, SameSide
  <2> QED
    BY <2>2, <2>6, <2>7
<1>10. W # {}
  BY <1>5
<1> QED
  BY <1>2, <1>9, <1>10 DEF Gapless

\* No key is between two others.
FewKeys == \A a, b, c \in Keys : ~(a < b /\ b < c)

(* However far SetupOtherInputs lets the inputs grow.                      *)
LEMMA SetupTakes ==
    ASSUME Formed, LevelsDisjoint, NEW l \in 0 .. Depth - 1, NEW S, Separate(l, S),
           Gapless(S) \/ FewKeys, NEW in \in SetupOtherInputs(l, S)
    PROVE  Separate(l, in[1]) /\ Together(l, in[1], in[2])
<1> DEFINE P == GetOverlappingInputs(l + 1, Lo(UNION S), Hi(UNION S))
           W == GetOverlappingInputs(l, Lo(UNION (S \cup P)), Hi(UNION (S \cup P)))
           Q == GetOverlappingInputs(l + 1, Lo(UNION W), Hi(UNION W))
           Expandable == /\ P # {} /\ Cardinality(W) > Cardinality(S)
                         /\ Cardinality(Q) = Cardinality(P)
<1>1. in = <<S, P>> \/ in = <<W, Q>>
  <2>1. SetupOtherInputs(l, S) = {<<S, P>>} \cup IF Expandable THEN {<<W, Q>>} ELSE {}
    BY Zenon DEF SetupOtherInputs
  <2> HIDE DEF P, W, Q, Expandable
  <2> QED
    BY <2>1
<1>2. S # {} /\ S \subseteq FilesAt(l) /\ l \in 0 .. Depth
  BY LevelTreeAssumption DEF Separate
<1>3. Gapless(S)
  <2>1. \A f \in S : File(f)
    BY <1>2, FilesFormed
  <2> QED
    BY <2>1, TwoKeysGapless DEF FewKeys
<1>4. Gapless(S \cup P)
  BY <1>2, <1>3, NextGapless
<1>5. Together(l, S, P)
  BY <1>2, <1>4, NextTogether
<1>6. W # {} /\ W \subseteq FilesAt(l) /\ Gapless(W \cup Q)
  BY <1>2, <1>3, WidenedGapless
<1>7. Together(l, W, Q)
  BY <1>6, NextTogether
<1>8. Separate(l, W)
  <2>1. CASE l = 0
    BY <1>6, <2>1, FirstSeparate
  <2>2. CASE l # 0
    <3>1. l \in Levels
      BY <2>2, LevelTreeAssumption DEF Levels
    <3> HIDE DEF W
    <3> QED
      BY <1>6, <3>1, DeepSeparate
  <2> QED
    BY <2>1, <2>2
<1> HIDE DEF P, W, Q
<1> QED
  BY <1>1, <1>5, <1>7, <1>8

-----------------------------------------------------------------------------
(* What a merge ends with.                                                 *)

(* The outputs are what is kept.                                           *)
LEMMA OutputsMade ==
    ASSUME NEW K, NEW Cuts
    PROVE  /\ \A f \in Outputs(K, Cuts) : f # {} /\ f \subseteq K
           /\ \A e \in K : \E f \in Outputs(K, Cuts) : e \in f
<1> DEFINE Ended(e) == {c \in Cuts : Before(c, e)}
           Out(e) == {o \in K : Ended(o) = Ended(e)}
<1>1. Outputs(K, Cuts) = {Out(e) : e \in K}
  BY DEF Outputs
<1>2. \A e \in K : e \in Out(e) /\ Out(e) \subseteq K
  OBVIOUS
<1> HIDE DEF Out
<1> QED
  BY <1>1, <1>2

(* An output that ends with the last entry of a key does not overlap those *)
(* after it.                                                               *)
LEMMA OutputsBeside ==
    ASSUME NEW K, NEW Cuts, Cuts \subseteq K, K \subseteq Entries,
           \A c \in Cuts : LastOfKey(K, c),
           NEW f \in Outputs(K, Cuts), NEW g \in Outputs(K, Cuts), f # g, File(f), File(g)
    PROVE  ~Overlaps(f, Lo(g), Hi(g))
<1> DEFINE Ended(e) == {c \in Cuts : Before(c, e)}
           Out(e) == {o \in K : Ended(o) = Ended(e)}
<1>1. Outputs(K, Cuts) = {Out(e) : e \in K}
  BY Zenon DEF Outputs
<1>2. \A e \in K : e.key \in Nat
  BY LevelTreeAssumption DEF Entries
<1>3. ASSUME NEW x \in K, NEW y \in K, File(Out(x)), File(Out(y)),
             NEW c \in Ended(y), c \notin Ended(x)
      PROVE  Hi(Out(x)) < Lo(Out(y))
  <2>1. c \in Cuts /\ c \in K /\ c.key \in Nat
    BY <1>2
  <2>2. ASSUME NEW o \in Out(x)
        PROVE  o.key <= c.key
    <3>1. o \in K /\ Ended(o) = Ended(x)
      OBVIOUS
    <3>2. c \notin Ended(o)
      BY <1>3, <3>1, Zenon
    <3>3. ~Before(c, o)
      BY <2>1, <3>2
    <3> QED
      BY <1>2, <2>1, <3>1, <3>3 DEF Before
  <2>3. ASSUME NEW o \in Out(y)
        PROVE  c.key < o.key
    <3>1. o \in K /\ Ended(o) = Ended(y)
      OBVIOUS
    <3>4. c \in Ended(o)
      BY <1>3, <3>1, Zenon
    <3>2. Before(c, o)
      BY <3>4
    <3>3. o.key = c.key => ~Before(c, o)
      BY <2>1, <3>1 DEF LastOfKey
    <3> QED
      BY <1>2, <2>1, <3>1, <3>2, <3>3 DEF Before
  <2> HIDE DEF Out
  <2>4. PICK o \in Out(x) : o.key = Hi(Out(x))
    BY <1>3, Ends
  <2>5. PICK p \in Out(y) : p.key = Lo(Out(y))
    BY <1>3, Ends
  <2>6. Hi(Out(x)) \in Nat /\ Lo(Out(y)) \in Nat
    BY <1>3, Ends
  <2> QED
    BY <2>1, <2>2, <2>3, <2>4, <2>5, <2>6
<1>4. PICK x \in K : f = Out(x)
  BY <1>1
<1>5. PICK y \in K : g = Out(y)
  BY <1>1
<1>6. Ended(x) # Ended(y)
  BY <1>4, <1>5
<1>7. \E c \in Cuts : \/ (c \in Ended(y) /\ c \notin Ended(x))
                       \/ (c \in Ended(x) /\ c \notin Ended(y))
  BY <1>6
<1> HIDE DEF Out, Ended
<1>8. Hi(f) < Lo(g) \/ Hi(g) < Lo(f)
  BY <1>3, <1>4, <1>5, <1>7
<1> QED
  BY <1>8 DEF Overlaps

-----------------------------------------------------------------------------
(* The inductive invariant.                                                *)

\* Of one key, every entry of A is newer than those of B.
Newer(A, B) == \A a \in A, b \in B : a.key = b.key => a.seq > b.seq

Types ==
    /\ lastSequence \in 0 .. MaxSeq /\ snapshots \subseteq 0 .. MaxSeq
    /\ DOMAIN l0 \subseteq Nat \ {0} /\ l0 = [n \in DOMAIN l0 |-> l0[n]]
    /\ \E B \in Nat : \A n \in DOMAIN l0 : n <= B
    /\ files \in [Levels -> SUBSET SUBSET Entries]

\* A sequence number is given out once, the last one to the last write.
Numbered ==
    /\ \A a, b \in log : a.seq = b.seq => a = b
    /\ \A a \in log : a.seq <= lastSequence
    /\ \A s \in snapshots : s <= lastSequence
    /\ Snapshots \/ snapshots = {}

\* The places an entry may be in, from the newest to the oldest.
Ordered ==
    /\ Newer(mem, imm)
    /\ \A l \in 0 .. Depth : \A f \in FilesAt(l) : Newer(mem, f) /\ Newer(imm, f)
    /\ \A m, n \in DOMAIN l0 : n < m => Newer(l0[m], l0[n])
    /\ \A l, d \in 0 .. Depth : l < d =>
          \A f \in FilesAt(l), g \in FilesAt(d) : Newer(f, g)

\* A merge under way.  What is left on its level is newer than what it has taken from there.
Above ==
    LET l == compaction.level
        S == compaction.inputs
    IN  /\ l \in 0 .. Depth - 1
        /\ S # {} /\ S \subseteq FilesAt(l)
        /\ \A g \in FilesAt(l) \ S, h \in S : Newer(g, h)

\* Nothing left on the next level overlaps its inputs, and they leave no gap.
Beneath == Together(compaction.level, compaction.inputs, compaction.parents)

\* A level further down has what it had when the merge began, but for files that do not
\* overlap the inputs.
Deeper ==
    /\ DOMAIN compaction.deeper = compaction.level + 2 .. Depth
    /\ \A d \in compaction.level + 2 .. Depth : \A g \in FilesAt(d) :
          \/ g \in compaction.deeper[d]
          \/ \A h \in compaction.inputs \cup compaction.parents : ~Overlaps(g, Lo(h), Hi(h))

\* It has looked for snapshots older than all there are now.
Oldest ==
    /\ compaction.smallestSnapshot \in 0 .. MaxSeq
    /\ \A s \in Readable : compaction.smallestSnapshot <= s
    /\ Snapshots \/ \A e \in Inputs(compaction) : e.seq <= compaction.smallestSnapshot

Merging == Above /\ Beneath /\ Deeper /\ Oldest

MergeInv == compaction = NoCompaction \/ Merging

TreeInv ==
    /\ Types /\ Formed /\ Numbered /\ Ordered
    /\ LevelsDisjoint /\ MergeInv /\ ScansTrue

\* What the theorems are about: merges that leave no gap between their inputs, and outputs
\* that do not end between two entries of one key.
WholeMerges == (Manual => FewKeys) /\ (Tear => ~Snapshots)

(* What is stored.                                                         *)
LEMMA StoredIs ==
    ASSUME NEW e
    PROVE  e \in Stored <=> \/ e \in mem \/ e \in imm
                            \/ \E l \in 0 .. Depth : \E f \in FilesAt(l) : e \in f
  BY DEF Stored

(* Steps that leave the files alone.                                       *)
LEMMA FilesSame ==
    ASSUME UNCHANGED <<l0, files>>
    PROVE  \A l : FilesAt(l)' = FilesAt(l)
  BY DEF FilesAt

(* A merge under way goes on as before: only newer entries and newer       *)
(* snapshots may have come.                                                *)
LEMMA MergingKept ==
    ASSUME MergeInv, UNCHANGED <<l0, files, compaction>>,
           \A s \in Readable' : s \in Readable \/ (s \in Nat /\ lastSequence <= s),
           lastSequence \in Nat
    PROVE  MergeInv'
<1>1. CASE compaction = NoCompaction
  BY <1>1 DEF MergeInv, NoCompaction
<1>2. CASE Merging
  <2>1. \A l : FilesAt(l)' = FilesAt(l)
    BY FilesSame
  <2>2. lastSequence \in Readable
    BY DEF Readable
  <2>3. /\ compaction.smallestSnapshot \in Nat
        /\ \A s \in Readable : compaction.smallestSnapshot <= s
    BY <1>2, LevelTreeAssumption DEF Merging, Oldest
  <2>4. \A s \in Readable' : compaction.smallestSnapshot <= s
    BY <2>2, <2>3, LevelTreeAssumption DEF Readable
  <2>5. Above'
    BY <1>2, <2>1 DEF Merging, Above
  <2>6. Beneath'
    BY <1>2, <2>1 DEF Merging, Beneath, Together
  <2>7. Deeper'
    BY <1>2, <2>1 DEF Merging, Deeper
  <2>8. Oldest'
    BY <1>2, <2>4 DEF Merging, Oldest, Inputs
  <2> QED
    BY <2>5, <2>6, <2>7, <2>8 DEF Merging, MergeInv
<1> QED
  BY <1>1, <1>2 DEF MergeInv

(* Steps that change neither files nor log: what is stored, and readable,  *)
(* is as it was.                                                           *)
LEMMA ScansKept ==
    ASSUME ScansTrue, UNCHANGED log, Readable' \subseteq Readable,
           \A e : e \in Stored' <=> e \in Stored
    PROVE  ScansTrue'
<1>1. Stored' = Stored
  OBVIOUS
<1> QED
  BY <1>1 DEF ScansTrue, Scan, Visible, Value, Newest

-----------------------------------------------------------------------------
(* Writes and snapshots.                                                   *)

(* A switch of memtables moves entries on to the next place.               *)
LEMMA SwitchKeeps ==
    ASSUME TreeInv, SwitchMemTable
    PROVE  TreeInv'
<1> USE DEF TreeInv
<1>1. /\ imm' = mem /\ mem' = {} /\ imm = {}
      /\ UNCHANGED <<lastSequence, l0, files, snapshots, compaction, log>>
  BY DEF SwitchMemTable
<1>2. \A l : FilesAt(l)' = FilesAt(l)
  BY <1>1, FilesSame
<1>3. Types' /\ Numbered' /\ LevelsDisjoint'
  BY <1>1 DEF Types, Numbered, LevelsDisjoint
<1>4. Formed'
  BY <1>1, <1>2 DEF Formed
<1>5. Ordered'
  BY <1>1, <1>2 DEF Ordered, Newer
<1>6. Readable' = Readable
  BY <1>1 DEF Readable
<1>7. MergeInv'
  BY <1>1, <1>6, MergingKept DEF Types
<1>8. \A e : e \in Stored' <=> e \in Stored
  BY <1>1, <1>2 DEF Stored
<1>9. ScansTrue'
  BY <1>1, <1>6, <1>8, ScansKept
<1> QED
  BY <1>3, <1>4, <1>5, <1>7, <1>9

(* Snapshots change what is readable only.                                 *)
LEMMA SnapshotsKeep ==
    ASSUME TreeInv, GetSnapshot \/ \E s \in snapshots : ReleaseSnapshot(s)
    PROVE  TreeInv'
<1> USE DEF TreeInv
<1>1. /\ UNCHANGED <<lastSequence, mem, imm, l0, files, compaction, log>>
      /\ snapshots' \subseteq snapshots \cup {lastSequence}
      /\ Snapshots \/ snapshots' \subseteq snapshots
  BY DEF GetSnapshot, ReleaseSnapshot
<1>2. \A l : FilesAt(l)' = FilesAt(l)
  BY <1>1, FilesSame
<1>3. Types' /\ Numbered' /\ LevelsDisjoint'
  BY <1>1 DEF Types, Numbered, LevelsDisjoint
<1>4. Formed'
  BY <1>1, <1>2 DEF Formed
<1>5. Ordered'
  BY <1>1, <1>2 DEF Ordered
<1>6. Readable' \subseteq Readable
  BY <1>1 DEF Readable
<1>7. MergeInv'
  BY <1>1, <1>6, MergingKept DEF Types
<1>8. \A e : e \in Stored' <=> e \in Stored
  BY <1>1, <1>2 DEF Stored
<1>9. ScansTrue'
  BY <1>1, <1>6, <1>8, ScansKept
<1> QED
  BY <1>3, <1>4, <1>5, <1>7, <1>9

(* A write is newer than everything.                                       *)
LEMMA WriteKeeps ==
    ASSUME TreeInv, NEW k \in Keys, NEW deletion \in Deletions, Write(k, deletion)
    PROVE  TreeInv'
<1> USE DEF TreeInv
<1> DEFINE e == [key |-> k, seq |-> lastSequence + 1, del |-> deletion]
<1>1. /\ lastSequence < MaxSeq /\ lastSequence' = lastSequence + 1
      /\ mem' = mem \cup {e} /\ log' = log \cup {e}
      /\ UNCHANGED <<imm, l0, files, snapshots, compaction>>
  BY DEF Write
<1>2. \A l : FilesAt(l)' = FilesAt(l)
  BY <1>1, FilesSame
<1>3. lastSequence \in Nat /\ MaxSeq \in Nat /\ lastSequence \in 0 .. MaxSeq
  BY LevelTreeAssumption DEF Types
<1>4. /\ e \in Entries /\ e.key = k /\ e.seq = lastSequence + 1 /\ k \in Nat
  BY <1>1, <1>3, LevelTreeAssumption DEF Entries
<1> HIDE DEF e
<1>5. \A a \in log : a.seq < e.seq /\ a.seq \in Nat
  BY <1>3, <1>4 DEF Numbered, Formed, Entries
<1>6. Types' /\ LevelsDisjoint'
  BY <1>1, <1>3 DEF Types, LevelsDisjoint
<1>7. Numbered'
  <2>1. \A a \in log' : a.seq <= lastSequence'
    BY <1>1, <1>3, <1>4, <1>5 DEF Numbered
  <2>2. \A a, b \in log' : a.seq = b.seq => a = b
    BY <1>1, <1>5 DEF Numbered
  <2>3. \A s \in snapshots' : s <= lastSequence'
    BY <1>1, <1>3 DEF Numbered, Types
  <2> QED
    BY <1>1, <2>1, <2>2, <2>3 DEF Numbered
<1>8. Formed'
  <2>1. PICK B \in Nat : \A a \in log : a.key <= B
    BY DEF Formed
  <2>2. \A a \in log : a.key \in Nat
    BY LevelTreeAssumption DEF Formed, Entries
  <2>3. (\A a \in log' : a.key <= B + k) /\ B + k \in Nat
    BY <1>1, <1>4, <2>1, <2>2
  <2>4. \E C \in Nat : \A a \in log' : a.key <= C
    BY <2>3
  <2> QED
    BY <1>1, <1>2, <1>4, <2>4 DEF Formed
<1>9. Ordered'
  <2>1. \A f : f \subseteq log => Newer({e}, f)
    BY <1>5 DEF Newer
  <2>2. imm \subseteq log /\ \A l \in 0 .. Depth : \A f \in FilesAt(l) : f \subseteq log
    BY DEF Formed
  <2>3. \A f : Newer(mem, f) /\ Newer({e}, f) => Newer(mem \cup {e}, f)
    BY DEF Newer
  <2> QED
    BY <1>1, <1>2, <2>1, <2>2, <2>3 DEF Ordered
<1>10. MergeInv'
  <2>1. \A s \in Readable' : s \in Readable \/ (s \in Nat /\ lastSequence <= s)
    BY <1>1, <1>3 DEF Readable
  <2> QED
    BY <1>1, <1>3, <2>1, MergingKept
<1>11. ScansTrue'
  <2> SUFFICES ASSUME NEW q \in Keys, NEW s \in Readable'
               PROVE  Scan(Stored', q, s) = Scan(log', q, s)
    BY <1>1 DEF ScansTrue
  <2>1. Stored' = Stored \cup {e}
    <3>1. \A x : x \in Stored' <=> x \in Stored \/ x = e
      BY <1>1, <1>2 DEF Stored
    <3> QED
      BY <3>1
  <2>2. Stored \subseteq log
    BY StoredIs DEF Formed
  <2>3. s \in Readable \/ s = lastSequence + 1
    BY <1>1 DEF Readable
  <2>4. \A r \in Readable : r \in Nat /\ r <= lastSequence
    BY <1>3 DEF Readable, Numbered, Types
  <2>5. CASE s \in Readable
    <3>1. Visible(Stored', q, s) = Visible(Stored, q, s) /\ Visible(log', q, s) = Visible(log, q, s)
      BY <1>1, <1>3, <1>4, <2>1, <2>4, <2>5 DEF Visible
    <3>2. Scan(Stored, q, s) = Scan(log, q, s)
      BY <2>5 DEF ScansTrue
    <3> QED
      BY <3>1, <3>2 DEF Scan
  <2>6. CASE s = lastSequence + 1 /\ q # k
    <3>1. \A a \in log : a.seq <= s <=> a.seq <= lastSequence
      BY <1>3, <1>4, <1>5, <2>6
    <3>2. /\ Visible(Stored', q, s) = Visible(Stored, q, lastSequence)
          /\ Visible(log', q, s) = Visible(log, q, lastSequence)
      BY <1>1, <1>4, <2>1, <2>2, <2>6, <3>1 DEF Visible
    <3>3. Scan(Stored, q, lastSequence) = Scan(log, q, lastSequence)
      BY DEF ScansTrue, Readable
    <3> QED
      BY <3>2, <3>3 DEF Scan
  <2>7. CASE s = lastSequence + 1 /\ q = k
    <3>1. Newest(Visible(Stored', q, s)) = {e}
      BY <1>3, <1>4, <1>5, <2>1, <2>2, <2>7 DEF Visible, Newest
    <3>2. Newest(Visible(log', q, s)) = {e}
      BY <1>1, <1>3, <1>4, <1>5, <2>7 DEF Visible, Newest
    <3> QED
      BY <3>1, <3>2 DEF Scan, Value
  <2> QED
    BY <2>3, <2>5, <2>6, <2>7
<1> QED
  BY <1>6, <1>7, <1>8, <1>9, <1>10, <1>11

-----------------------------------------------------------------------------
(* Memtables become files.                                                 *)

(* A new file has a number above all others.                               *)
LEMMA NewNumber ==
    ASSUME Types
    PROVE  /\ NewFileNumber \in Nat \ {0}
           /\ \A n \in DOMAIN l0 : n \in Nat \ {0} /\ n < NewFileNumber
<1> DEFINE S == {0} \cup DOMAIN l0
<1>1. PICK B \in Nat : \A n \in DOMAIN l0 : n <= B
  BY DEF Types
<1>2. S \subseteq Nat /\ S # {} /\ \A y \in S : y <= B
  BY <1>1 DEF Types
<1>3. Max(S) \in S /\ \A y \in S : y <= Max(S)
  BY <1>2, GreatestThere
<1>4. NewFileNumber = Max(S) + 1
  BY DEF NewFileNumber
<1>5. \A n \in DOMAIN l0 : n \in S /\ n \in Nat \ {0}
  BY DEF Types
<1> HIDE DEF S
<1>6. Max(S) \in Nat
  BY <1>2, <1>3
<1>7. \A n \in DOMAIN l0 : n <= Max(S)
  BY <1>3, <1>5
<1> HIDE DEF NewFileNumber
<1>8. NewFileNumber \in Nat \ {0} /\ \A m \in Nat : m <= Max(S) => m < NewFileNumber
  BY <1>4, <1>6
<1> QED
  BY <1>5, <1>7, <1>8

\* The number the memtable would get.
MemNumber == IF imm = {} THEN NewFileNumber ELSE NewFileNumber + 1

(* Level 0 with the memtables written out to it.                           *)
LEMMA Written ==
    ASSUME Types
    PROVE  /\ DOMAIN WrittenOut = DOMAIN l0 \cup {NewFileNumber, MemNumber}
           /\ \A n \in DOMAIN l0 : WrittenOut[n] = l0[n] /\ n < MemNumber
           /\ imm # {} => WrittenOut[NewFileNumber] = imm /\ NewFileNumber < MemNumber
           /\ imm = {} => NewFileNumber = MemNumber
           /\ WrittenOut[MemNumber] = mem
           /\ MemNumber \in Nat \ {0}
<1>1. WrittenOut = [n \in DOMAIN l0 \cup {NewFileNumber, MemNumber} |->
                       IF n = MemNumber THEN mem ELSE IF n = NewFileNumber THEN imm ELSE l0[n]]
  BY Zenon DEF WrittenOut, MemNumber
<1>2. /\ NewFileNumber \in Nat \ {0}
      /\ \A n \in DOMAIN l0 : n \in Nat \ {0} /\ n < NewFileNumber
  BY NewNumber
<1>3. MemNumber \in Nat \ {0} /\ (MemNumber = NewFileNumber \/ MemNumber = NewFileNumber + 1)
  BY <1>2 DEF MemNumber
<1>4. imm # {} => MemNumber = NewFileNumber + 1
  BY DEF MemNumber
<1>5. imm = {} => MemNumber = NewFileNumber
  BY DEF MemNumber
<1>6. \A n \in DOMAIN l0 : n < MemNumber /\ n # MemNumber /\ n # NewFileNumber
  BY <1>2, <1>3
<1>7. imm # {} => NewFileNumber # MemNumber /\ NewFileNumber < MemNumber
  BY <1>2, <1>4
<1>8. DOMAIN WrittenOut = DOMAIN l0 \cup {NewFileNumber, MemNumber}
  BY <1>1
<1>9. \A n \in DOMAIN l0 : WrittenOut[n] = l0[n]
  BY <1>1, <1>6
<1>10. WrittenOut[MemNumber] = mem
  BY <1>1
<1>11. imm # {} => WrittenOut[NewFileNumber] = imm
  BY <1>1, <1>7
<1> QED
  BY <1>3, <1>5, <1>6, <1>7, <1>8, <1>9, <1>10, <1>11

(* A restart writes both memtables out.                                    *)
LEMMA ReopenKeeps ==
    ASSUME TreeInv, Reopen
    PROVE  TreeInv'
<1> USE DEF TreeInv
<1> DEFINE N == {w \in DOMAIN WrittenOut : WrittenOut[w] # {}}
           W == WrittenOut
<1>1. /\ l0' = [n \in N |-> W[n]]
      /\ mem' = {} /\ imm' = {} /\ snapshots' = {} /\ compaction' = NoCompaction
      /\ UNCHANGED <<lastSequence, files, log>>
  BY Zenon DEF Reopen
<1>2. /\ DOMAIN W = DOMAIN l0 \cup {NewFileNumber, MemNumber}
      /\ \A n \in DOMAIN l0 : W[n] = l0[n] /\ n < MemNumber
      /\ imm # {} => W[NewFileNumber] = imm /\ NewFileNumber < MemNumber
      /\ imm = {} => NewFileNumber = MemNumber
      /\ W[MemNumber] = mem
      /\ MemNumber \in Nat \ {0}
  BY Written
<1>3. /\ NewFileNumber \in Nat \ {0}
      /\ \A n \in DOMAIN l0 : n \in Nat \ {0} /\ n < NewFileNumber
  BY NewNumber
<1>4. \A f \in FilesAt(0) : f # {}
  BY LevelTreeAssumption DEF Formed
<1>5. FilesAt(0) = {l0[n] : n \in DOMAIN l0}
  BY DEF FilesAt
<1>6. /\ N \subseteq DOMAIN W
      /\ \A n \in N : W[n] # {}
      /\ \A n \in DOMAIN W : W[n] # {} => n \in N
  OBVIOUS
<1> HIDE DEF W, N
<1>7. DOMAIN l0' = N /\ \A n \in N : l0'[n] = W[n]
  BY <1>1
<1>8. FilesAt(0)' = {l0'[n] : n \in DOMAIN l0'}
  BY DEF FilesAt
<1>9. \A l : l # 0 => FilesAt(l)' = FilesAt(l)
  BY <1>1 DEF FilesAt
<1>10. \A f : f \in FilesAt(0)' <=> f # {} /\ (f \in FilesAt(0) \/ f = imm \/ f = mem)
  <2>1. \A f : f \in FilesAt(0)' <=> \E n \in N : f = W[n]
    BY <1>7, <1>8
  <2>2. \A n \in N : W[n] # {} /\ (W[n] \in FilesAt(0) \/ W[n] = imm \/ W[n] = mem)
    BY <1>2, <1>5, <1>6
  <2>3. \A f \in FilesAt(0) : \E n \in N : f = W[n]
    BY <1>2, <1>4, <1>5, <1>6
  <2>4. (imm # {} => \E n \in N : imm = W[n]) /\ (mem # {} => \E n \in N : mem = W[n])
    BY <1>2, <1>6
  <2> QED
    BY <2>1, <2>2, <2>3, <2>4
<1>11. Types'
  <2>1. N \subseteq Nat \ {0}
    BY <1>2, <1>3, <1>6
  <2>2. \A n \in N : n <= MemNumber
    BY <1>2, <1>3, <1>6
  <2>3. \E B \in Nat : \A n \in DOMAIN l0' : n <= B
    BY <1>2, <1>7, <2>2
  <2>4. l0' = [n \in DOMAIN l0' |-> l0'[n]]
    BY <1>1, <1>7
  <2> QED
    BY <1>1, <1>7, <2>1, <2>3, <2>4 DEF Types
<1>12. Numbered' /\ LevelsDisjoint' /\ MergeInv'
  BY <1>1 DEF Numbered, LevelsDisjoint, MergeInv
<1>13. Formed'
  BY <1>1, <1>9, <1>10 DEF Formed
<1>14. Ordered'
  <2>1. Newer(mem, imm)' /\ \A l \in 0 .. Depth :
                               \A f \in FilesAt(l)' : Newer(mem, f)' /\ Newer(imm, f)'
    BY <1>1 DEF Newer
  <2>2. ASSUME NEW m \in DOMAIN l0', NEW n \in DOMAIN l0', n < m
        PROVE  Newer(l0'[m], l0'[n])
    <3>1. /\ m \in N /\ n \in N /\ l0'[m] = W[m] /\ l0'[n] = W[n]
          /\ m \in DOMAIN W /\ n \in DOMAIN W
      BY <1>6, <1>7
    <3>2. CASE m = MemNumber
      <4>1. n \in DOMAIN l0 \/ (n = NewFileNumber /\ imm # {})
        BY <1>2, <2>2, <3>1, <3>2
      <4>2. W[n] \in FilesAt(0) \/ W[n] = imm
        BY <1>2, <1>5, <4>1
      <4> QED
        BY <1>2, <3>1, <3>2, <4>2, LevelTreeAssumption DEF Ordered
    <3>3. CASE m # MemNumber /\ m = NewFileNumber
      <4>1. W[m] = imm /\ n \in DOMAIN l0
        BY <1>2, <1>3, <2>2, <3>1, <3>3
      <4>2. W[n] \in FilesAt(0)
        BY <1>2, <1>5, <4>1
      <4> QED
        BY <3>1, <4>1, <4>2, LevelTreeAssumption DEF Ordered
    <3>4. CASE m # MemNumber /\ m # NewFileNumber
      <4>1. m \in DOMAIN l0 /\ n \in DOMAIN l0
        BY <1>2, <1>3, <2>2, <3>1, <3>4
      <4> QED
        BY <1>2, <2>2, <3>1, <4>1 DEF Ordered
    <3> QED
      BY <3>2, <3>3, <3>4
  <2>3. ASSUME NEW l \in 0 .. Depth, NEW d \in 0 .. Depth, l < d,
               NEW f \in FilesAt(l)', NEW g \in FilesAt(d)'
        PROVE  Newer(f, g)
    <3>1. d # 0 /\ g \in FilesAt(d)
      BY <1>9, <2>3
    <3>2. f \in FilesAt(l) \/ f = imm \/ f = mem
      BY <1>9, <1>10
    <3> QED
      BY <2>3, <3>1, <3>2 DEF Ordered
  <2> QED
    BY <2>1, <2>2, <2>3 DEF Ordered, Newer
<1>15. Readable' \subseteq Readable
  BY <1>1 DEF Readable
<1>16. \A e : e \in Stored' <=> e \in Stored
  <2>1. 0 \in 0 .. Depth
    BY LevelTreeAssumption
  <2>2. ASSUME NEW e
        PROVE  e \in Stored' <=> \E l \in 0 .. Depth : \E f \in FilesAt(l)' : e \in f
    BY <1>1 DEF Stored
  <2>3. ASSUME NEW e, e \in Stored
        PROVE  e \in Stored'
    BY <1>9, <1>10, <2>1, <2>2, <2>3, StoredIs
  <2>4. ASSUME NEW e, e \in Stored'
        PROVE  e \in Stored
    <3>3. PICK l \in 0 .. Depth : \E f \in FilesAt(l)' : e \in f
      BY <2>2, <2>4
    <3>1. PICK f \in FilesAt(l)' : e \in f
      BY <3>3
    <3>2. f \in FilesAt(l) \/ f = imm \/ f = mem
      BY <1>9, <1>10
    <3> QED
      BY <3>1, <3>2, StoredIs
  <2> QED
    BY <2>3, <2>4
<1>17. ScansTrue'
  BY <1>1, <1>15, <1>16, ScansKept
<1> QED
  BY <1>11, <1>12, <1>13, <1>14, <1>17

\* The table made of the old memtable is put into level L, as far as anything but the
\* numbers of level 0 goes.
PutInto(L) ==
    /\ L \in 0 .. Depth /\ imm # {} /\ imm' = {}
    /\ UNCHANGED <<lastSequence, mem, snapshots, compaction, log>>
    /\ \A f : f \in FilesAt(L)' <=> f \in FilesAt(L) \/ f = imm
    /\ \A l \in 0 .. Depth : l # L => FilesAt(l)' = FilesAt(l)
    /\ \A k \in 0 .. L : \A g \in FilesAt(k) : L = 0 \/ ~Overlaps(imm, Lo(g), Hi(g))

(* The old memtable becomes a file above everything it overlaps.           *)
LEMMA FlushPuts ==
    ASSUME TreeInv, CompactMemTable
    PROVE  \E L \in 0 .. Depth :
              /\ PutInto(L) /\ Types'
              /\ \A m, n \in DOMAIN l0' : n < m => Newer(l0'[m], l0'[n])
<1> USE DEF TreeInv
<1>1. PICK L \in PickLevelForMemTableOutput(Lo(imm), Hi(imm)) :
         IF L = 0 THEN /\ l0' = [n \in DOMAIN l0 \cup {NewFileNumber} |-> WrittenOut[n]]
                       /\ UNCHANGED files
                  ELSE files' = [files EXCEPT ![L] = @ \cup {imm}] /\ UNCHANGED l0
  BY DEF CompactMemTable
<1>2. /\ imm # {} /\ imm' = {}
      /\ UNCHANGED <<lastSequence, mem, snapshots, compaction, log>>
  BY DEF CompactMemTable
<1>3. /\ L \in 0 .. Depth
      /\ L # 0 => L \in Levels /\ \A k \in 0 .. L : ~OverlapInLevel(k, Lo(imm), Hi(imm))
  BY <1>1, LevelTreeAssumption DEF PickLevelForMemTableOutput, Levels
<1>4. imm \subseteq log /\ log \subseteq Entries /\ File(imm)
  BY <1>2, FilesFormed DEF Formed
<1>5. ASSUME NEW k \in 0 .. L, NEW g \in FilesAt(k), L # 0
      PROVE  ~Overlaps(imm, Lo(g), Hi(g))
  <2>1. ~Overlaps(g, Lo(imm), Hi(imm))
    BY <1>3, <1>5 DEF OverlapInLevel
  <2>2. k \in 0 .. Depth
    BY <1>3, LevelTreeAssumption
  <2>3. File(g)
    BY <2>2, FilesFormed
  <2> QED
    BY <1>4, <2>1, <2>3, Beside
<1>6. CASE L = 0
  <2> DEFINE N == NewFileNumber
             W == WrittenOut
  <2>1. l0' = [n \in DOMAIN l0 \cup {N} |-> W[n]] /\ files' = files
    BY <1>1, <1>6
  <2>2. /\ N \in Nat \ {0} /\ W[N] = imm
        /\ \A n \in DOMAIN l0 : n < N /\ n \in Nat \ {0} /\ W[n] = l0[n]
    BY <1>2, Written, NewNumber
  <2> HIDE DEF N, W
  <2>3. DOMAIN l0' = DOMAIN l0 \cup {N} /\ l0'[N] = imm /\ \A n \in DOMAIN l0 : l0'[n] = l0[n]
    BY <2>1, <2>2
  <2>4. FilesAt(0)' = {l0'[n] : n \in DOMAIN l0'} /\ FilesAt(0) = {l0[n] : n \in DOMAIN l0}
    BY DEF FilesAt
  <2>5. \A f : f \in FilesAt(0)' <=> f \in FilesAt(0) \/ f = imm
    BY <2>3, <2>4
  <2>6. \A l \in 0 .. Depth : l # 0 => FilesAt(l)' = FilesAt(l)
    BY <2>1 DEF FilesAt
  <2>7. PutInto(L)
    BY <1>2, <1>3, <1>6, <2>5, <2>6 DEF PutInto
  <2>8. ASSUME NEW m \in DOMAIN l0', NEW n \in DOMAIN l0', n < m
        PROVE  Newer(l0'[m], l0'[n])
    <3>1. n \in DOMAIN l0
      BY <2>2, <2>3, <2>8
    <3>2. CASE m = N
      <4>1. l0'[n] \in FilesAt(0)
        BY <2>3, <2>4, <3>1
      <4> QED
        BY <2>3, <3>2, <4>1, LevelTreeAssumption DEF Ordered
    <3>3. CASE m # N
      BY <2>3, <2>8, <3>1, <3>3 DEF Ordered
    <3> QED
      BY <3>2, <3>3
  <2>9. Types'
    <3>1. \A n \in DOMAIN l0' : n <= N /\ n \in Nat \ {0}
      BY <2>2, <2>3
    <3>2. l0' = [n \in DOMAIN l0' |-> l0'[n]]
      BY <2>1, <2>3
    <3>3. \E B \in Nat : \A n \in DOMAIN l0' : n <= B
      BY <2>2, <3>1
    <3> QED
      BY <1>2, <2>1, <3>1, <3>2, <3>3 DEF Types
  <2> QED
    BY <1>3, <2>7, <2>8, <2>9
<1>7. CASE L # 0
  <2>1. files' = [files EXCEPT ![L] = @ \cup {imm}] /\ l0' = l0 /\ L \in Levels
    BY <1>1, <1>3, <1>7
  <2>2. files \in [Levels -> SUBSET SUBSET Entries] /\ imm \in SUBSET Entries
    BY <1>4 DEF Types
  <2>3. files'[L] = files[L] \cup {imm} /\ \A l \in Levels : l # L => files'[l] = files[l]
    BY <2>1, <2>2
  <2>4. files' \in [Levels -> SUBSET SUBSET Entries]
    BY <2>1, <2>2
  <2>5. FilesAt(L)' = FilesAt(L) \cup {imm}
    BY <1>7, <2>3 DEF FilesAt
  <2>7. \A l \in 0 .. Depth : l # L => FilesAt(l)' = FilesAt(l)
    BY <2>1, <2>3 DEF FilesAt, Levels
  <2>8. PutInto(L)
    BY <1>2, <1>3, <1>5, <1>7, <2>5, <2>7 DEF PutInto
  <2>9. Types' /\ \A m, n \in DOMAIN l0' : n < m => Newer(l0'[m], l0'[n])
    BY <1>2, <2>1, <2>4 DEF Types, Ordered
  <2> QED
    BY <1>3, <2>8, <2>9
<1> QED
  BY <1>6, <1>7

(* The table of a memtable is newer than all below the level it is put on, *)
(* and overlaps none of that level and those above it.                     *)
LEMMA FlushKeepsOrder ==
    ASSUME Formed, Ordered, LevelsDisjoint, NEW L, PutInto(L),
           \A m, n \in DOMAIN l0' : n < m => Newer(l0'[m], l0'[n])
    PROVE  Formed' /\ Ordered' /\ LevelsDisjoint'
<1>1. /\ L \in 0 .. Depth /\ imm # {} /\ imm' = {}
      /\ UNCHANGED <<mem, log>> /\ mem' = mem /\ log' = log
  BY DEF PutInto
<1>2. /\ \A f : f \in FilesAt(L)' <=> f \in FilesAt(L) \/ f = imm
      /\ \A l \in 0 .. Depth : l # L => FilesAt(l)' = FilesAt(l)
  BY DEF PutInto
<1>3. \A k \in 0 .. L : \A g \in FilesAt(k) : L = 0 \/ ~Overlaps(imm, Lo(g), Hi(g))
  BY DEF PutInto
<1>4. imm \subseteq log /\ File(imm) /\ \A l \in 0 .. Depth : \A f \in FilesAt(l) : File(f)
  BY <1>1, FilesFormed DEF Formed
<1>5. Formed'
  <2>1. \A l \in 0 .. Depth : \A f \in FilesAt(l)' : f # {} /\ f \subseteq log
    BY <1>1, <1>2, <1>4 DEF Formed
  <2> QED
    BY <1>1, <2>1 DEF Formed
<1>6. Ordered'
  <2>1. Newer(mem, imm)' /\ \A l \in 0 .. Depth :
                               \A f \in FilesAt(l)' : Newer(mem, f)' /\ Newer(imm, f)'
    BY <1>1, <1>2 DEF Newer, Ordered
  <2>2. ASSUME NEW l \in 0 .. Depth, NEW d \in 0 .. Depth, l < d,
               NEW f \in FilesAt(l)', NEW g \in FilesAt(d)'
        PROVE  Newer(f, g)
    <3>1. CASE f \in FilesAt(l) /\ g \in FilesAt(d)
      BY <2>2, <3>1 DEF Ordered
    <3>2. CASE f = imm /\ g \in FilesAt(d)
      BY <3>2 DEF Ordered
    <3>3. CASE l # L /\ d = L /\ g = imm
      <4>1. f \in FilesAt(l) /\ l \in 0 .. L /\ L # 0
        BY <1>2, <2>2, <3>3
      <4>2. ~Overlaps(imm, Lo(f), Hi(f))
        BY <1>3, <4>1
      <4>3. Apart(f, imm)
        BY <1>4, <4>1, <4>2, Beside
      <4> QED
        BY <3>3, <4>3 DEF Apart, Newer
    <3> QED
      BY <1>2, <2>2, <3>1, <3>2, <3>3
  <2> QED
    BY <2>1, <2>2 DEF Ordered, Newer
<1>7. LevelsDisjoint'
  <2> SUFFICES ASSUME NEW l \in Levels, NEW f \in files'[l], NEW g \in files'[l], f # g
               PROVE  ~Overlaps(f, Lo(g), Hi(g))
    BY DEF LevelsDisjoint
  <2>1. /\ l \in 0 .. Depth /\ l # 0 /\ FilesAt(l)' = files'[l] /\ FilesAt(l) = files[l]
    BY LevelTreeAssumption DEF FilesAt, Levels
  <2>2. CASE f \in files[l] /\ g \in files[l]
    BY <2>2 DEF LevelsDisjoint
  <2>3. CASE l = L /\ f = imm
    <3>1. g \in FilesAt(l) /\ l \in 0 .. L
      BY <1>1, <1>2, <2>1, <2>3
    <3> QED
      BY <1>3, <2>1, <2>3, <3>1
  <2>4. CASE l = L /\ g = imm
    <3>1. f \in FilesAt(l) /\ l \in 0 .. L
      BY <1>1, <1>2, <2>1, <2>4
    <3>2. ~Overlaps(imm, Lo(f), Hi(f))
      BY <1>3, <2>1, <2>4, <3>1
    <3>3. File(f)
      BY <1>4, <2>1, <3>1
    <3> QED
      BY <1>4, <2>4, <3>2, <3>3, Beside
  <2> QED
    BY <1>2, <2>1, <2>2, <2>3, <2>4
<1> QED
  BY <1>5, <1>6, <1>7

(* A file put among the inputs of a merge overlaps none of them.           *)
LEMMA FlushKeepsMerge ==
    ASSUME Formed, Ordered, MergeInv, NEW L, PutInto(L)
    PROVE  MergeInv'
<1>1. /\ L \in 0 .. Depth /\ imm # {}
      /\ compaction' = compaction /\ lastSequence' = lastSequence /\ snapshots' = snapshots
  BY DEF PutInto
<1>2. /\ \A f : f \in FilesAt(L)' <=> f \in FilesAt(L) \/ f = imm
      /\ \A l \in 0 .. Depth : l # L => FilesAt(l)' = FilesAt(l)
  BY DEF PutInto
<1>3. \A k \in 0 .. L : \A g \in FilesAt(k) : L = 0 \/ ~Overlaps(imm, Lo(g), Hi(g))
  BY DEF PutInto
<1>4. File(imm) /\ \A l \in 0 .. Depth : \A f \in FilesAt(l) : File(f)
  BY <1>1, FilesFormed DEF Formed
<1>5. CASE compaction = NoCompaction
  BY <1>1, <1>5 DEF MergeInv, NoCompaction
<1>6. CASE Merging
  <2>0. PICK l, S, P : l = compaction.level /\ S = compaction.inputs /\ P = compaction.parents
    OBVIOUS
  <2>1. /\ l \in 0 .. Depth - 1 /\ S # {} /\ S \subseteq FilesAt(l)
        /\ \A g \in FilesAt(l) \ S, h \in S : Newer(g, h)
    BY <1>6, <2>0 DEF Merging, Above
  <2>2. /\ P \subseteq FilesAt(l + 1)
        /\ \A g \in FilesAt(l + 1) \ P, h \in S \cup P : ~Overlaps(g, Lo(h), Hi(h))
        /\ Gapless(S \cup P)
    BY <1>6, <2>0 DEF Merging, Beneath, Together
  <2>3. l \in 0 .. Depth /\ l + 1 \in 0 .. Depth /\ l \in Nat
    BY <2>1, LevelTreeAssumption
  <2>4. l = compaction'.level /\ S = compaction'.inputs /\ P = compaction'.parents
    BY <1>1, <2>0
  <2>5. \A k \in 0 .. Depth : /\ FilesAt(k) \subseteq FilesAt(k)'
                             /\ FilesAt(k)' \subseteq FilesAt(k) \cup {imm}
    BY <1>1, <1>2
  <2>6. ASSUME NEW d \in 0 .. Depth, d > l, imm \in FilesAt(d)',
               imm \notin FilesAt(d), NEW h \in S \cup P
        PROVE  ~Overlaps(imm, Lo(h), Hi(h))
    <3>1. d = L
      BY <1>2, <2>6
    <3>2. h \in FilesAt(l) \/ h \in FilesAt(l + 1)
      BY <2>1, <2>2
    <3>3. l \in 0 .. L /\ l + 1 \in 0 .. L /\ L # 0
      BY <2>3, <2>6, <3>1
    <3> QED
      BY <1>3, <3>2, <3>3
  <2>7. /\ S # {} /\ S \subseteq FilesAt(l)'
        /\ \A g \in FilesAt(l)' \ S, h \in S : Newer(g, h)
    <3>1. S # {} /\ S \subseteq FilesAt(l)'
      BY <2>1, <2>3, <2>5
    <3>2. ASSUME NEW g \in FilesAt(l)' \ S, NEW h \in S
          PROVE  Newer(g, h)
      <4>1. CASE g \in FilesAt(l)
        BY <2>1, <3>2, <4>1
      <4>2. CASE g = imm
        <5>1. h \in FilesAt(l)
          BY <2>1
        <5> QED
          BY <2>3, <4>2, <5>1 DEF Ordered
      <4> QED
        BY <2>3, <2>5, <4>1, <4>2
    <3> QED
      BY <3>1, <3>2
  <2>8. Above'
    BY <2>1, <2>4, <2>7 DEF Above, Newer
  <2>9. Beneath'
    <3>1. P \subseteq FilesAt(l + 1)'
      BY <2>2, <2>3, <2>5
    <3>2. ASSUME NEW g \in FilesAt(l + 1)' \ P, NEW h \in S \cup P
          PROVE  ~Overlaps(g, Lo(h), Hi(h))
      <4>1. CASE g \in FilesAt(l + 1)
        BY <2>2, <3>2, <4>1
      <4>2. CASE g = imm /\ g \notin FilesAt(l + 1)
        BY <2>3, <2>6, <3>2, <4>2
      <4> QED
        BY <2>3, <2>5, <4>1, <4>2
    <3> QED
      BY <2>2, <2>4, <3>1, <3>2 DEF Beneath, Together
  <2>10. Deeper'
    <3>1. ASSUME NEW d \in l + 2 .. Depth, NEW g \in FilesAt(d)'
          PROVE  g \in compaction.deeper[d] \/ \A h \in S \cup P : ~Overlaps(g, Lo(h), Hi(h))
      <4>1. d \in 0 .. Depth /\ d > l
        BY <2>3
      <4>2. CASE g \in FilesAt(d)
        BY <1>6, <2>0, <4>2 DEF Merging, Deeper
      <4>3. CASE g = imm /\ g \notin FilesAt(d)
        BY <2>6, <3>1, <4>1, <4>3
      <4> QED
        BY <2>5, <4>1, <4>2, <4>3
    <3>2. DOMAIN compaction.deeper = l + 2 .. Depth
      BY <1>6, <2>0 DEF Merging, Deeper
    <3> QED
      BY <1>1, <2>4, <3>1, <3>2 DEF Deeper
  <2>11. Oldest'
    BY <1>1, <1>6 DEF Merging, Oldest, Readable, Inputs
  <2> QED
    BY <2>8, <2>9, <2>10, <2>11 DEF MergeInv, Merging
<1> QED
  BY <1>5, <1>6 DEF MergeInv

(* A flush keeps the invariant, in the middle of a merge too.              *)
LEMMA FlushKeeps ==
    ASSUME TreeInv, CompactMemTable
    PROVE  TreeInv'
<1> USE DEF TreeInv
<1>1. PICK L \in 0 .. Depth :
         /\ PutInto(L) /\ Types'
         /\ \A m, n \in DOMAIN l0' : n < m => Newer(l0'[m], l0'[n])
  BY FlushPuts
<1>2. Formed' /\ Ordered' /\ LevelsDisjoint' /\ MergeInv'
  BY <1>1, FlushKeepsOrder, FlushKeepsMerge
<1>3. /\ imm' = {} /\ UNCHANGED <<lastSequence, mem, snapshots, log>>
      /\ \A f : f \in FilesAt(L)' <=> f \in FilesAt(L) \/ f = imm
      /\ \A l \in 0 .. Depth : l # L => FilesAt(l)' = FilesAt(l)
  BY <1>1 DEF PutInto
<1>4. Numbered' /\ Readable' \subseteq Readable
  BY <1>3 DEF Numbered, Readable
<1>5. \A e : e \in Stored' <=> e \in Stored
  BY <1>3, StoredIs DEF Stored
<1>6. ScansTrue'
  BY <1>3, <1>4, <1>5, ScansKept
<1> QED
  BY <1>1, <1>2, <1>4, <1>6

-----------------------------------------------------------------------------
(* A merge begins.                                                         *)

(* The files of level 0 that overlap one of them leave no gap.             *)
LEMMA FirstGapless ==
    ASSUME Formed, NEW f \in FilesAt(0)
    PROVE  /\ f \in GetOverlappingInputs(0, Lo(f), Hi(f))
           /\ Gapless(GetOverlappingInputs(0, Lo(f), Hi(f)))
<1> DEFINE G == GetOverlappingInputs(0, Lo(f), Hi(f))
<1>1. \A g \in FilesAt(0) : File(g)
  BY FilesFormed
<1>2. PICK B \in Nat : \A g \in FilesAt(0) : Hi(g) <= B
  BY FilesFormed
<1>3. Lo(f) \in Nat /\ Hi(f) \in Nat /\ Lo(f) \in Keys /\ Hi(f) \in Keys /\ Lo(f) <= Hi(f)
  BY <1>1, Ends, LoBelowHi
<1>4. Overlaps(f, Lo(f), Hi(f))
  BY <1>3 DEF Overlaps
<1>5. f \in G
  BY <1>1, <1>3, <1>4, OverlapsTaken
<1>6. ASSUME NEW a \in Keys, NEW b \in Keys, a <= b, \A g \in G : ~Overlaps(g, a, b)
      PROVE  (\A g \in G : Hi(g) < a) \/ (\A g \in G : b < Lo(g))
  <2>1. Hi(f) < a \/ b < Lo(f)
    BY <1>5, <1>6 DEF Overlaps
  <2>2. CASE Hi(f) < a
    BY <1>1, <1>2, <1>3, <1>6, <2>2, BeforeGap
  <2>3. CASE b < Lo(f)
    BY <1>1, <1>2, <1>3, <1>6, <2>3, BehindGap
  <2> QED
    BY <2>1, <2>2, <2>3
<1> QED
  BY <1>5, <1>6 DEF Gapless

(* A merge that begins with separate files is as it should be.             *)
LEMMA BeginMerges ==
    ASSUME TreeInv, NEW l \in 0 .. Depth - 1, NEW S, Separate(l, S),
           Gapless(S) \/ FewKeys, Begin(l, S),
           UNCHANGED <<lastSequence, mem, imm, l0, files, snapshots, log>>
    PROVE  TreeInv'
<1> USE DEF TreeInv
<1> DEFINE oldest == IF snapshots = {} THEN lastSequence ELSE Min(snapshots)
<1>1. PICK in \in SetupOtherInputs(l, S) :
         compaction' = [level |-> l, inputs |-> in[1], parents |-> in[2],
                        smallestSnapshot |-> oldest,
                        deeper |-> [d \in l + 2 .. Depth |-> files[d]]]
  BY DEF Begin
<1>2. Separate(l, in[1]) /\ Together(l, in[1], in[2])
  BY SetupTakes
<1>3. PICK I, P : I = in[1] /\ P = in[2]
  OBVIOUS
<1>4. /\ compaction'.level = l /\ compaction'.inputs = I /\ compaction'.parents = P
      /\ compaction'.smallestSnapshot = oldest
      /\ compaction'.deeper = [d \in l + 2 .. Depth |-> files[d]]
  BY <1>1, <1>3
<1>5. \A k : FilesAt(k)' = FilesAt(k)
  BY FilesSame
<1>6. /\ lastSequence \in 0 .. MaxSeq /\ snapshots \subseteq 0 .. MaxSeq /\ MaxSeq \in Nat
      /\ \A s \in snapshots : s <= lastSequence
  BY LevelTreeAssumption DEF Types, Numbered
<1>7. oldest \in 0 .. MaxSeq /\ \A s \in Readable : oldest <= s
  <2>1. CASE snapshots = {}
    BY <1>6, <2>1 DEF Readable
  <2>2. CASE snapshots # {}
    <3>1. snapshots \subseteq Nat
      BY <1>6
    <3>2. Min(snapshots) \in snapshots /\ \A s \in snapshots : Min(snapshots) <= s
      BY <2>2, <3>1, LeastThere
    <3> QED
      BY <1>6, <2>2, <3>2 DEF Readable
  <2> QED
    BY <2>1, <2>2
<1>8. snapshots = {} => oldest = lastSequence
  OBVIOUS
<1> HIDE DEF oldest
<1>9. Above'
  <2>1. I # {} /\ I \subseteq FilesAt(l) /\ \A g \in FilesAt(l) \ I, h \in I : Apart(g, h)
    BY <1>2, <1>3 DEF Separate
  <2>2. \A g \in FilesAt(l) \ I, h \in I : Newer(g, h)
    BY <2>1 DEF Apart, Newer
  <2> QED
    BY <1>4, <1>5, <2>1, <2>2 DEF Above, Newer
<1>10. /\ P \subseteq FilesAt(l + 1)
       /\ \A g \in FilesAt(l + 1) \ P, h \in I \cup P : ~Overlaps(g, Lo(h), Hi(h))
       /\ Gapless(I \cup P)
  BY <1>2, <1>3 DEF Together
<1>11. Beneath'
  BY <1>4, <1>5, <1>10 DEF Beneath, Together
<1>12. Deeper'
  <2>1. \A d \in l + 2 .. Depth : compaction'.deeper[d] = FilesAt(d)
    BY <1>4 DEF FilesAt
  <2>2. DOMAIN compaction'.deeper = l + 2 .. Depth
    BY <1>4
  <2> QED
    BY <1>4, <1>5, <2>1, <2>2 DEF Deeper
<1>13. Oldest'
  <2>1. Readable' = Readable
    BY DEF Readable
  <2>2. ASSUME ~Snapshots, NEW e \in UNION (I \cup P)
        PROVE  e.seq <= oldest
    <3>1. \E h \in I \cup P : e \in h
      OBVIOUS
    <3>2. \A h \in I \cup P : h \in FilesAt(l) \/ h \in FilesAt(l + 1)
      BY <1>2, <1>3, <1>10 DEF Separate
    <3>3. l \in 0 .. Depth /\ l + 1 \in 0 .. Depth
      BY LevelTreeAssumption
    <3>4. e \in log
      BY <3>1, <3>2, <3>3 DEF Formed
    <3> QED
      BY <1>8, <2>2, <3>4 DEF Numbered
  <2>3. Inputs(compaction)' = UNION (I \cup P)
    BY <1>4 DEF Inputs
  <2> QED
    BY <1>4, <1>7, <2>1, <2>2, <2>3, LevelTreeAssumption DEF Oldest
<1>14. MergeInv'
  BY <1>9, <1>11, <1>12, <1>13 DEF MergeInv, Merging
<1>15. Types' /\ Numbered' /\ LevelsDisjoint'
  BY DEF Types, Numbered, LevelsDisjoint
<1>16. Formed' /\ Ordered'
  BY <1>5 DEF Formed, Ordered
<1>17. \A e : e \in Stored' <=> e \in Stored
  BY <1>5 DEF Stored
<1>18. Readable' \subseteq Readable
  BY DEF Readable
<1>19. ScansTrue'
  BY <1>17, <1>18, ScansKept
<1> QED
  BY <1>14, <1>15, <1>16, <1>19

(* A merge begins with separate files.                                     *)
LEMMA PickKeeps ==
    ASSUME TreeInv, WholeMerges, NEW l \in 0 .. Depth - 1,
           \/ \E f \in FilesAt(l) : PickCompaction(l, f)
           \/ \E lo, hi \in Keys : CompactRange(l, lo, hi)
    PROVE  TreeInv'
<1> USE DEF TreeInv
<1>1. ASSUME NEW f \in FilesAt(l), PickCompaction(l, f)
      PROVE  TreeInv'
  <2>1. UNCHANGED <<lastSequence, mem, imm, l0, files, snapshots, log>>
    BY <1>1 DEF PickCompaction
  <2>2. CASE l = 0
    <3>1. Begin(l, GetOverlappingInputs(0, Lo(f), Hi(f)))
      BY <1>1, <2>2 DEF PickCompaction
    <3>2. /\ f \in GetOverlappingInputs(0, Lo(f), Hi(f))
          /\ Gapless(GetOverlappingInputs(0, Lo(f), Hi(f)))
      BY <2>2, FirstGapless
    <3>3. Separate(0, GetOverlappingInputs(0, Lo(f), Hi(f)))
      BY <3>2, FirstSeparate
    <3> QED
      BY <2>1, <2>2, <3>1, <3>2, <3>3, BeginMerges
  <2>3. CASE l # 0
    <3>1. Begin(l, {f})
      BY <1>1, <2>3 DEF PickCompaction
    <3>2. l \in Levels /\ l \in 0 .. Depth
      BY <2>3, LevelTreeAssumption DEF Levels
    <3>3. Separate(l, {f})
      BY <3>2, DeepSeparate
    <3>4. Gapless({f})
      BY <3>2, FilesFormed, OneGapless
    <3> QED
      BY <2>1, <3>1, <3>3, <3>4, BeginMerges
  <2> QED
    BY <2>2, <2>3
<1>2. ASSUME NEW lo \in Keys, NEW hi \in Keys, CompactRange(l, lo, hi)
      PROVE  TreeInv'
  <2> DEFINE G == GetOverlappingInputs(l, lo, hi)
             First(k) == {f \in G : l = 0 \/ Lo(f) <= k}
  <2>1. UNCHANGED <<lastSequence, mem, imm, l0, files, snapshots, log>> /\ Manual
    BY <1>2 DEF CompactRange
  <2>2. FewKeys
    BY <2>1 DEF WholeMerges
  <2>3. PICK k \in Keys : First(k) # {} /\ Begin(l, First(k))
    BY <1>2 DEF CompactRange
  <2>4. Separate(l, First(k))
    <3>1. CASE l = 0
      <4>1. First(k) = G
        BY <3>1
      <4>2. Separate(0, G)
        BY <2>3, <3>1, <4>1, FirstSeparate
      <4> QED
        BY <3>1, <4>1, <4>2
    <3>2. CASE l # 0
      <4>1. l \in Levels
        BY <3>2, LevelTreeAssumption DEF Levels
      <4>2. First(k) \subseteq FilesAt(l)
        BY Chosen
      <4> HIDE DEF First
      <4> QED
        BY <2>3, <4>1, <4>2, DeepSeparate
    <3> QED
      BY <3>1, <3>2
  <2> HIDE DEF First
  <2> QED
    BY <2>1, <2>2, <2>3, <2>4, BeginMerges
<1> QED
  BY <1>1, <1>2

-----------------------------------------------------------------------------
(* Files are replaced by others on the next level.                         *)

\* S, on level l, and P, on the next one, make way for Out.
Replaced(l, S, P, Out) ==
    /\ l0' = Removed(l, S)
    /\ files' = [d \in Levels |-> IF d = l THEN files[d] \ S
                                  ELSE IF d = l + 1 THEN (files[d] \ P) \cup Out
                                  ELSE files[d]]

(* The levels, and the order of level 0, afterwards.                       *)
LEMMA ReplacedFiles ==
    ASSUME Types, Ordered, NEW l \in 0 .. Depth - 1, NEW S, NEW P, NEW Out,
           Out \subseteq SUBSET Entries, Replaced(l, S, P, Out)
    PROVE  /\ FilesAt(l)' = FilesAt(l) \ S
           /\ FilesAt(l + 1)' = (FilesAt(l + 1) \ P) \cup Out
           /\ \A d \in 0 .. Depth : d # l /\ d # l + 1 => FilesAt(d)' = FilesAt(d)
           /\ \A m, n \in DOMAIN l0' : n < m => Newer(l0'[m], l0'[n])
           /\ DOMAIN l0' \subseteq Nat \ {0} /\ l0' = [n \in DOMAIN l0' |-> l0'[n]]
           /\ \E B \in Nat : \A n \in DOMAIN l0' : n <= B
           /\ files' \in [Levels -> SUBSET SUBSET Entries]
<1>1. /\ l0' = Removed(l, S)
      /\ files' = [d \in Levels |-> IF d = l THEN files[d] \ S
                                    ELSE IF d = l + 1 THEN (files[d] \ P) \cup Out
                                    ELSE files[d]]
  BY DEF Replaced
<1>2. l \in Nat /\ l + 1 \in Levels /\ l + 1 # 0 /\ l # l + 1 /\ (l # 0 => l \in Levels)
  BY LevelTreeAssumption DEF Levels
<1>3. /\ l # 0 => files'[l] = files[l] \ S
      /\ files'[l + 1] = (files[l + 1] \ P) \cup Out
      /\ \A d \in Levels : d # l /\ d # l + 1 => files'[d] = files[d]
  BY <1>1, <1>2
<1>4. files' \in [Levels -> SUBSET SUBSET Entries]
  <2>1. ASSUME NEW d \in Levels
        PROVE  files'[d] \in SUBSET SUBSET Entries
    <3>1. files[d] \subseteq SUBSET Entries
      BY DEF Types
    <3>2. CASE d = l
      <4>1. l # 0
        BY <3>2, LevelTreeAssumption DEF Levels
      <4>2. files'[d] = files[d] \ S
        BY <1>3, <3>2, <4>1
      <4> QED
        BY <3>1, <4>2
    <3>3. CASE d = l + 1
      <4>1. files'[d] = (files[d] \ P) \cup Out
        BY <1>3, <3>3
      <4> QED
        BY <3>1, <4>1
    <3>4. CASE d # l /\ d # l + 1
      BY <1>3, <3>1, <3>4
    <3> QED
      BY <3>2, <3>3, <3>4
  <2>2. files' = [d \in Levels |-> files'[d]]
    BY <1>1
  <2> QED
    BY <2>1, <2>2
<1>5. /\ DOMAIN l0' \subseteq DOMAIN l0
      /\ \A n \in DOMAIN l0' : l0'[n] = l0[n]
      /\ l0' = [n \in DOMAIN l0' |-> l0'[n]]
      /\ l = 0 => \A n \in DOMAIN l0 : n \in DOMAIN l0' <=> l0[n] \notin S
      /\ l # 0 => l0' = l0
  <2>1. CASE l = 0
    <3>1. l0' = [n \in {w \in DOMAIN l0 : l0[w] \notin S} |-> l0[n]]
      BY <1>1, <2>1 DEF Removed
    <3> QED
      BY <2>1, <3>1
  <2>2. CASE l # 0
    BY <1>1, <2>2 DEF Removed, Types
  <2> QED
    BY <2>1, <2>2
<1>6. FilesAt(0) = {l0[n] : n \in DOMAIN l0} /\ FilesAt(0)' = {l0'[n] : n \in DOMAIN l0'}
  BY DEF FilesAt
<1>7. l = 0 => FilesAt(0)' = FilesAt(0) \ S
  BY <1>5, <1>6
<1>8. l # 0 => FilesAt(0)' = FilesAt(0)
  BY <1>5, <1>6
<1>9. FilesAt(l)' = FilesAt(l) \ S
  <2>1. CASE l = 0
    BY <1>7, <2>1
  <2>2. CASE l # 0
    BY <1>3, <2>2 DEF FilesAt
  <2> QED
    BY <2>1, <2>2
<1>10. FilesAt(l + 1)' = (FilesAt(l + 1) \ P) \cup Out
  BY <1>2, <1>3 DEF FilesAt
<1>11. ASSUME NEW d \in 0 .. Depth, d # l, d # l + 1
       PROVE  FilesAt(d)' = FilesAt(d)
  <2>1. CASE d = 0
    BY <1>8, <1>11, <2>1
  <2>2. CASE d # 0
    <3>1. d \in Levels
      BY <2>2 DEF Levels
    <3>2. files'[d] = files[d]
      BY <1>3, <1>11, <3>1
    <3> QED
      BY <2>2, <3>2 DEF FilesAt
  <2> QED
    BY <2>1, <2>2
<1>12. \A m, n \in DOMAIN l0' : n < m => Newer(l0'[m], l0'[n])
  BY <1>5 DEF Ordered
<1>13. DOMAIN l0' \subseteq Nat \ {0} /\ \E B \in Nat : \A n \in DOMAIN l0' : n <= B
  BY <1>5 DEF Types
<1> QED
  BY <1>4, <1>5, <1>9, <1>10, <1>11, <1>12, <1>13

(* Outputs that are made of the inputs and overlap nothing keep the order. *)
LEMMA ReplaceKeeps ==
    ASSUME Types, Formed, Ordered, LevelsDisjoint,
           NEW l \in 0 .. Depth - 1, NEW S, NEW P, NEW Out, Replaced(l, S, P, Out),
           UNCHANGED <<lastSequence, mem, imm, snapshots, log>>,
           S \subseteq FilesAt(l), P \subseteq FilesAt(l + 1),
           \A g \in FilesAt(l) \ S, h \in S : Newer(g, h),
           \A o \in Out : o # {} /\ o \subseteq UNION (S \cup P),
           \A o, p \in Out : o # p => ~Overlaps(o, Lo(p), Hi(p)),
           \A g \in FilesAt(l + 1) \ P, o \in Out : ~Overlaps(g, Lo(o), Hi(o))
    PROVE  Types' /\ Formed' /\ Ordered' /\ LevelsDisjoint'
<1>1. l \in 0 .. Depth /\ l + 1 \in 0 .. Depth /\ l + 1 # 0 /\ l \in Nat /\ l < l + 1
  BY LevelTreeAssumption
<1>2. \A h \in S \cup P : h \in FilesAt(l) \/ h \in FilesAt(l + 1)
  OBVIOUS
<1>3. ASSUME NEW o \in Out
      PROVE  o # {} /\ o \subseteq log /\ \A a \in o : \E h \in S \cup P : a \in h
  <2>1. \A h \in S \cup P : h \subseteq log
    BY <1>1, <1>2 DEF Formed
  <2> QED
    BY <2>1
<1>4. Out \subseteq SUBSET Entries
  BY <1>3 DEF Formed
<1>5. /\ FilesAt(l)' = FilesAt(l) \ S
      /\ FilesAt(l + 1)' = (FilesAt(l + 1) \ P) \cup Out
      /\ \A d \in 0 .. Depth : d # l /\ d # l + 1 => FilesAt(d)' = FilesAt(d)
  BY <1>4, ReplacedFiles
<1>6. \A m, n \in DOMAIN l0' : n < m => Newer(l0'[m], l0'[n])
  BY <1>4, ReplacedFiles
<1>7. Types'
  <2>1. /\ DOMAIN l0' \subseteq Nat \ {0} /\ l0' = [n \in DOMAIN l0' |-> l0'[n]]
        /\ \E B \in Nat : \A n \in DOMAIN l0' : n <= B
        /\ files' \in [Levels -> SUBSET SUBSET Entries]
    BY <1>4, ReplacedFiles
  <2> QED
    BY <2>1 DEF Types
<1>8. ASSUME NEW d \in 0 .. Depth, NEW f \in FilesAt(d)'
      PROVE  (f \in FilesAt(d) /\ ~(d = l /\ f \in S)) \/ (d = l + 1 /\ f \in Out)
  BY <1>1, <1>5
<1>9. Formed'
  <2>1. \A d \in 0 .. Depth : \A f \in FilesAt(d)' : f # {} /\ f \subseteq log
    BY <1>3, <1>8 DEF Formed
  <2> QED
    BY <2>1 DEF Formed
<1>10. Ordered'
  <2>1. ASSUME NEW d \in 0 .. Depth, NEW f \in FilesAt(d)'
        PROVE  Newer(mem, f) /\ Newer(imm, f)
    <3>1. CASE f \in FilesAt(d)
      BY <3>1 DEF Ordered
    <3>2. CASE f \in Out
      <4>1. \A h \in S \cup P : Newer(mem, h) /\ Newer(imm, h)
        BY <1>1, <1>2 DEF Ordered
      <4> QED
        BY <1>3, <3>2, <4>1 DEF Newer
    <3> QED
      BY <1>8, <3>1, <3>2
  <2>2. ASSUME NEW k \in 0 .. Depth, NEW d \in 0 .. Depth, k < d,
               NEW f \in FilesAt(k)', NEW g \in FilesAt(d)'
        PROVE  Newer(f, g)
    <3>1. CASE f \in FilesAt(k) /\ g \in FilesAt(d)
      BY <2>2, <3>1 DEF Ordered
    <3>2. CASE k = l + 1 /\ f \in Out /\ g \in FilesAt(d)
      <4>1. \A h \in S \cup P : Newer(h, g)
        <5>1. l < d /\ l + 1 < d
          BY <1>1, <2>2, <3>2
        <5> QED
          BY <1>1, <1>2, <3>2, <5>1 DEF Ordered
      <4> QED
        BY <1>3, <3>2, <4>1 DEF Newer
    <3>3. CASE d = l + 1 /\ g \in Out /\ f \in FilesAt(k) /\ ~(k = l /\ f \in S)
      <4>1. k < l + 1 /\ (k = l \/ k < l)
        BY <1>1, <2>2, <3>3
      <4>2. \A h \in P : Newer(f, h)
        BY <1>1, <3>3, <4>1 DEF Ordered
      <4>3. \A h \in S : Newer(f, h)
        <5>1. CASE k = l
          BY <3>3, <5>1
        <5>2. CASE k < l
          BY <1>1, <3>3, <5>2 DEF Ordered
        <5> QED
          BY <4>1, <5>1, <5>2
      <4> QED
        BY <1>3, <3>3, <4>2, <4>3 DEF Newer
    <3> QED
      BY <1>1, <1>8, <2>2, <3>1, <3>2, <3>3
  <2>3. Newer(mem, imm)
    BY DEF Ordered
  <2> QED
    BY <1>6, <2>1, <2>2, <2>3 DEF Ordered
<1>11. LevelsDisjoint'
  <2> SUFFICES ASSUME NEW d \in Levels, NEW f \in files'[d], NEW g \in files'[d], f # g
               PROVE  ~Overlaps(f, Lo(g), Hi(g))
    BY DEF LevelsDisjoint
  <2>1. d \in 0 .. Depth /\ d # 0 /\ FilesAt(d)' = files'[d] /\ FilesAt(d) = files[d]
    BY LevelTreeAssumption DEF FilesAt, Levels
  <2>2. CASE f \in FilesAt(d) /\ g \in FilesAt(d)
    BY <2>1, <2>2 DEF LevelsDisjoint
  <2>3. CASE d = l + 1 /\ f \in Out /\ g \in Out
    BY <2>3
  <2>4. \A o \in Out : File(o)
    BY <1>3, FilesFormed
  <2>5. CASE d = l + 1 /\ f \in Out /\ g \notin Out
    <3>1. g \in FilesAt(l + 1) \ P /\ File(g)
      BY <1>1, <1>5, <2>1, <2>5, FilesFormed
    <3>2. ~Overlaps(g, Lo(f), Hi(f))
      BY <2>5, <3>1
    <3> QED
      BY <2>4, <2>5, <3>1, <3>2, Beside
  <2>6. CASE d = l + 1 /\ g \in Out /\ f \notin Out
    <3>1. f \in FilesAt(l + 1) \ P
      BY <1>1, <1>5, <2>1, <2>6
    <3> QED
      BY <2>6, <3>1
  <2> QED
    BY <1>8, <2>1, <2>2, <2>3, <2>5, <2>6
<1> QED
  BY <1>7, <1>9, <1>10, <1>11

(* A trivial move.                                                         *)
LEMMA MoveKeeps ==
    ASSUME TreeInv, NEW l \in 0 .. Depth - 1, NEW f \in FilesAt(l), TrivialMove(l, f)
    PROVE  TreeInv'
<1> USE DEF TreeInv
<1>1. /\ compaction = NoCompaction
      /\ UNCHANGED <<lastSequence, mem, imm, snapshots, compaction, log>>
      /\ l = 0 => GetOverlappingInputs(0, Lo(f), Hi(f)) = {f}
      /\ ~OverlapInLevel(l + 1, Lo(f), Hi(f))
  BY DEF TrivialMove
<1>2. Replaced(l, {f}, {}, {f})
  <2>1. /\ l0' = Removed(l, {f})
        /\ files' = [d \in Levels |-> IF d = l THEN files[d] \ {f}
                                      ELSE IF d = l + 1 THEN files[d] \cup {f} ELSE files[d]]
    BY DEF TrivialMove
  <2>2. \A d : (files[d] \ {}) \cup {f} = files[d] \cup {f}
    OBVIOUS
  <2> QED
    BY <2>1, <2>2 DEF Replaced
<1>3. l \in 0 .. Depth /\ l + 1 \in 0 .. Depth /\ l # l + 1
  BY LevelTreeAssumption
<1>4. Separate(l, {f})
  <2>1. CASE l = 0
    BY <1>1, <2>1, FirstSeparate
  <2>2. CASE l # 0
    BY <1>3, <2>2, DeepSeparate DEF Levels
  <2> QED
    BY <2>1, <2>2
<1>5. \A g \in FilesAt(l) \ {f}, h \in {f} : Newer(g, h)
  BY <1>4 DEF Separate, Apart, Newer
<1>6. \A g \in FilesAt(l + 1) \ {}, o \in {f} : ~Overlaps(g, Lo(o), Hi(o))
  BY <1>1 DEF OverlapInLevel
<1>7. f # {} /\ f \subseteq log /\ log \subseteq Entries
  BY <1>3 DEF Formed
<1>8. /\ \A o \in {f} : o # {} /\ o \subseteq UNION ({f} \cup {})
      /\ \A o, p \in {f} : o # p => ~Overlaps(o, Lo(p), Hi(p))
      /\ {f} \subseteq FilesAt(l) /\ {} \subseteq FilesAt(l + 1) /\ {f} \subseteq SUBSET Entries
  BY <1>7
<1>9. Types' /\ Formed' /\ Ordered' /\ LevelsDisjoint'
  BY <1>1, <1>2, <1>5, <1>6, <1>8, ReplaceKeeps
<1>10. /\ FilesAt(l)' = FilesAt(l) \ {f}
       /\ FilesAt(l + 1)' = (FilesAt(l + 1) \ {}) \cup {f}
       /\ \A d \in 0 .. Depth : d # l /\ d # l + 1 => FilesAt(d)' = FilesAt(d)
  BY <1>2, <1>8, ReplacedFiles
<1>11. \A e : e \in Stored' <=> e \in Stored
  <2>1. \A e : (\E d \in 0 .. Depth : \E g \in FilesAt(d)' : e \in g) <=>
               (\E d \in 0 .. Depth : \E g \in FilesAt(d) : e \in g)
    BY <1>3, <1>10
  <2> QED
    BY <1>1, <2>1 DEF Stored
<1>12. Numbered' /\ MergeInv' /\ Readable' \subseteq Readable
  BY <1>1 DEF Numbered, MergeInv, Readable
<1>13. ScansTrue'
  BY <1>1, <1>11, <1>12, ScansKept
<1> QED
  BY <1>9, <1>12, <1>13

-----------------------------------------------------------------------------
(* A merge ends.                                                           *)

\* The inputs of a merge are files of two levels.
Taken(l, S, P) ==
    /\ l \in 0 .. Depth - 1 /\ l \in 0 .. Depth /\ l + 1 \in 0 .. Depth
    /\ S # {} /\ S \subseteq FilesAt(l) /\ P \subseteq FilesAt(l + 1)
    /\ \A g \in FilesAt(l) \ S, h \in S : Newer(g, h)
    /\ \A g \in FilesAt(l + 1) \ P, h \in S \cup P : ~Overlaps(g, Lo(h), Hi(h))
    /\ Gapless(S \cup P)
    /\ \A h \in S \cup P : File(h) /\ h \subseteq log
    /\ \A e : e \in Inputs(compaction) <=> \E h \in S \cup P : e \in h

(* They are, and what they hold is stored.                                 *)
LEMMA InputsAre ==
    ASSUME Formed, Merging, NEW l, NEW S, NEW P, l = compaction.level,
           S = compaction.inputs, P = compaction.parents
    PROVE  /\ Taken(l, S, P)
           /\ \A e \in Inputs(compaction) :
                 e \in log /\ e \in Entries /\ e.seq \in Nat /\ e \in Stored
           /\ compaction.smallestSnapshot \in Nat
<1>1. /\ l \in 0 .. Depth - 1 /\ S # {} /\ S \subseteq FilesAt(l)
      /\ \A g \in FilesAt(l) \ S, h \in S : Newer(g, h)
  BY DEF Merging, Above
<1>2. /\ P \subseteq FilesAt(l + 1)
      /\ \A g \in FilesAt(l + 1) \ P, h \in S \cup P : ~Overlaps(g, Lo(h), Hi(h))
      /\ Gapless(S \cup P)
  BY DEF Merging, Beneath, Together
<1>3. l \in 0 .. Depth /\ l + 1 \in 0 .. Depth
  BY <1>1, LevelTreeAssumption
<1>4. \A h \in S \cup P : \E d \in 0 .. Depth : h \in FilesAt(d)
  BY <1>1, <1>2, <1>3
<1>5. \A h \in S \cup P : File(h) /\ h \subseteq log
  BY <1>4, FilesFormed DEF Formed
<1>6. \A e : e \in Inputs(compaction) <=> \E h \in S \cup P : e \in h
  BY DEF Inputs
<1>7. \A e \in Inputs(compaction) : e \in log /\ e \in Stored
  BY <1>4, <1>5, <1>6, StoredIs
<1>8. \A e \in log : e \in Entries /\ e.seq \in Nat
  BY LevelTreeAssumption DEF Formed, Entries
<1>9. compaction.smallestSnapshot \in Nat
  BY LevelTreeAssumption DEF Merging, Oldest
<1> QED
  BY <1>1, <1>2, <1>3, <1>5, <1>6, <1>7, <1>8, <1>9 DEF Taken

(* Without snapshots one entry of a key is kept, so that an output ends    *)
(* between two keys however it is cut.                                     *)
LEMMA CutsWhole ==
    ASSUME Formed, Numbered, Merging, WholeMerges,
           NEW Cuts, Cuts \subseteq {e \in Kept(compaction) : Tear \/ LastOfKey(Kept(compaction), e)}
    PROVE  \A c \in Cuts : LastOfKey(Kept(compaction), c)
<1> SUFFICES ASSUME NEW c \in Cuts, Tear,
                    NEW o \in Kept(compaction), o.key = c.key, Before(c, o)
             PROVE  FALSE
  BY DEF LastOfKey
<1>1. /\ c \in Inputs(compaction) /\ o \in Inputs(compaction) /\ ~Drop(compaction, o)
      /\ \A e \in Inputs(compaction) : e \in Entries
  BY InputsAre DEF Kept
<1>2. c.key \in Nat /\ o.key \in Nat
  BY <1>1, LevelTreeAssumption DEF Entries
<1>3. c.seq > o.seq
  BY <1>2 DEF Before
<1>4. c.seq <= compaction.smallestSnapshot
  BY <1>1 DEF WholeMerges, Merging, Oldest
<1> QED
  BY <1>1, <1>3, <1>4 DEF Drop

(* What it puts in the place of its inputs.                                *)
LEMMA Installed ==
    ASSUME TreeInv, WholeMerges, InstallCompactionResults,
           NEW l, NEW S, NEW P, l = compaction.level,
           S = compaction.inputs, P = compaction.parents
    PROVE  \E Out :
              /\ Replaced(l, S, P, Out)
              /\ \A o \in Out : o # {} /\ o \subseteq Kept(compaction)
              /\ \A e \in Kept(compaction) : \E o \in Out : e \in o
              /\ \A o, p \in Out : o # p => ~Overlaps(o, Lo(p), Hi(p))
              /\ \A g \in FilesAt(l + 1) \ P, o \in Out : ~Overlaps(g, Lo(o), Hi(o))
<1> USE DEF TreeInv
<1>1. Merging
  BY DEF InstallCompactionResults, MergeInv
<1>2. PICK K : K = Kept(compaction)
  OBVIOUS
<1>3. PICK Cuts \in SUBSET {e \in K : Tear \/ LastOfKey(K, e)} :
         Replaced(l, S, P, Outputs(K, Cuts))
  <2>1. \E Cuts \in SUBSET {e \in Kept(compaction) : Tear \/ LastOfKey(Kept(compaction), e)} :
           Replaced(compaction.level, compaction.inputs, compaction.parents,
                    Outputs(Kept(compaction), Cuts))
    BY Zenon DEF InstallCompactionResults, Replaced
  <2> QED
    BY <1>2, <2>1
<1>4. PICK Out : Out = Outputs(K, Cuts)
  OBVIOUS
<1>5. \A c \in Cuts : LastOfKey(K, c)
  BY <1>1, <1>2, CutsWhole
<1>6. /\ \A o \in Out : o # {} /\ o \subseteq K
      /\ \A e \in K : \E o \in Out : e \in o
  BY <1>4, OutputsMade
<1>7. K \subseteq Inputs(compaction) /\ K \subseteq Entries /\ K \subseteq log
  BY <1>1, <1>2, InputsAre DEF Kept
<1>8. \A o \in Out : File(o)
  BY <1>6, <1>7, FilesFormed
<1>9. \A o, p \in Out : o # p => ~Overlaps(o, Lo(p), Hi(p))
  BY <1>4, <1>5, <1>7, <1>8, OutputsBeside
<1>10. ASSUME NEW g \in FilesAt(l + 1) \ P, NEW o \in Out
       PROVE  ~Overlaps(g, Lo(o), Hi(o))
  <2> Taken(l, S, P)
    BY <1>1, InputsAre
  <2>1. l + 1 \in 0 .. Depth /\ \A h \in S \cup P : File(h) /\ ~Overlaps(g, Lo(h), Hi(h))
    BY DEF Taken
  <2>2. File(g)
    BY <2>1, FilesFormed
  <2>3. /\ Lo(g) \in Keys /\ Hi(g) \in Keys /\ Lo(g) \in Nat /\ Hi(g) \in Nat
        /\ Lo(g) <= Hi(g)
    BY <2>2, Ends, LoBelowHi
  <2>4. \A h \in S \cup P : ~Overlaps(h, Lo(g), Hi(g))
    BY <2>1, <2>2, Beside
  <2>5. Gapless(S \cup P)
    BY DEF Taken
  <2>6. (\A h \in S \cup P : Hi(h) < Lo(g)) \/ (\A h \in S \cup P : Hi(g) < Lo(h))
    BY <2>3, <2>4, <2>5 DEF Gapless
  <2>7. \A e \in o : \E h \in S \cup P : e \in h
    BY <1>6, <1>7 DEF Taken
  <2>8. PICK a \in o : a.key = Lo(o)
    BY <1>8, Ends
  <2>9. PICK b \in o : b.key = Hi(o)
    BY <1>8, Ends
  <2>10. PICK h \in S \cup P : a \in h
    BY <2>7
  <2>11. PICK i \in S \cup P : b \in i
    BY <2>7
  <2>12. Lo(h) <= Lo(o) /\ Hi(o) <= Hi(i) /\ Lo(h) \in Nat /\ Hi(i) \in Nat
    BY <2>1, <2>8, <2>9, <2>10, <2>11, Ends
  <2>13. Lo(o) \in Nat /\ Hi(o) \in Nat
    BY <1>8, Ends
  <2>14. Hi(o) < Lo(g) \/ Hi(g) < Lo(o)
    BY <2>3, <2>6, <2>12, <2>13
  <2> QED
    BY <2>14 DEF Overlaps
<1> QED
  BY <1>2, <1>3, <1>4, <1>6, <1>9, <1>10

(* A deletion that is dropped with nothing left to hide: what is left of   *)
(* its key is newer.                                                       *)
LEMMA NothingHidden ==
    ASSUME TreeInv, Merging, NEW l, NEW S, NEW P, NEW Out, l = compaction.level,
           S = compaction.inputs, P = compaction.parents, Replaced(l, S, P, Out),
           UNCHANGED <<mem, imm>>,
           Out \subseteq SUBSET Kept(compaction),
           NEW n \in Inputs(compaction), n.del, n.seq <= compaction.smallestSnapshot,
           IsBaseLevelForKey(compaction, n.key),
           NEW e \in Stored', e.key = n.key
    PROVE  e.seq > n.seq
<1> USE DEF TreeInv
<1>1. /\ l \in 0 .. Depth - 1 /\ l \in 0 .. Depth /\ l + 1 \in 0 .. Depth
      /\ S \subseteq FilesAt(l) /\ P \subseteq FilesAt(l + 1)
      /\ \A g \in FilesAt(l) \ S, h \in S : Newer(g, h)
      /\ \A g \in FilesAt(l + 1) \ P, h \in S \cup P : ~Overlaps(g, Lo(h), Hi(h))
      /\ \A h \in S \cup P : File(h)
      /\ \A x : x \in Inputs(compaction) <=> \E h \in S \cup P : x \in h
  <2>1. Taken(l, S, P)
    BY InputsAre
  <2> QED
    BY <2>1 DEF Taken
<1>2. PICK h \in S \cup P : n \in h
  BY <1>1
<1>3. \A x \in Inputs(compaction) : x \in log /\ x \in Entries /\ x.seq \in Nat
  BY InputsAre
<1>4. Out \subseteq SUBSET Entries
  BY <1>3 DEF Kept
<1>5. /\ FilesAt(l)' = FilesAt(l) \ S
      /\ FilesAt(l + 1)' = (FilesAt(l + 1) \ P) \cup Out
      /\ \A d \in 0 .. Depth : d # l /\ d # l + 1 => FilesAt(d)' = FilesAt(d)
  BY <1>1, <1>4, ReplacedFiles
<1>6. \A g : Newer(g, h) /\ e \in g => e.seq > n.seq
  BY <1>2 DEF Newer
<1>7. \A g : File(g) /\ ~Overlaps(g, Lo(h), Hi(h)) => e \notin g
  <2> TAKE g
  <2>1. HAVE File(g) /\ ~Overlaps(g, Lo(h), Hi(h))
  <2>2. Apart(g, h)
    BY <1>1, <2>1, Beside
  <2> QED
    BY <1>2, <2>2 DEF Apart
<1>8. \E d \in 0 .. Depth : h \in FilesAt(d)
  BY <1>1
<1>9. CASE e \in mem \/ e \in imm
  BY <1>6, <1>8, <1>9 DEF Ordered
<1>10. ASSUME NEW d \in 0 .. Depth, NEW f \in FilesAt(d)', e \in f
       PROVE  e.seq > n.seq
  <2>1. CASE d = l
    <3>1. f \in FilesAt(l) \ S
      BY <1>5, <2>1
    <3>2. l < l + 1
      BY <1>1
    <3>3. Newer(f, h)
      BY <1>1, <3>1, <3>2 DEF Ordered
    <3> QED
      BY <1>6, <1>10, <3>3
  <2>2. CASE d < l
    <3>1. f \in FilesAt(d) /\ d < l + 1 /\ d # l /\ d # l + 1
      BY <1>1, <1>5, <2>2
    <3>2. Newer(f, h)
      BY <1>1, <2>2, <3>1 DEF Ordered
    <3> QED
      BY <1>6, <1>10, <3>2
  <2>3. CASE d = l + 1 /\ f \in FilesAt(l + 1) \ P
    <3>1. File(f) /\ ~Overlaps(f, Lo(h), Hi(h))
      BY <1>1, <2>3, FilesFormed
    <3> QED
      BY <1>7, <1>10, <3>1
  <2>4. CASE d = l + 1 /\ f \in Out
    <3>1. e \in Inputs(compaction) /\ ~Drop(compaction, e)
      BY <1>10, <2>4 DEF Kept
    <3>2. e \in log /\ n \in log /\ e.seq \in Nat /\ n.seq \in Nat
      BY <1>3, <3>1
    <3>3. ~(n.seq > e.seq)
      BY <3>1 DEF Drop
    <3>4. e # n
      BY <3>1 DEF Drop
    <3>5. e.seq # n.seq
      BY <3>2, <3>4 DEF Numbered
    <3> QED
      BY <3>2, <3>3, <3>5
  <2>5. CASE d > l + 1
    <3>1. d \in l + 2 .. Depth /\ f \in FilesAt(d)
      BY <1>1, <1>5, <2>5
    <3>2. File(f)
      BY <3>1, FilesFormed
    <3>3. \/ f \in compaction.deeper[d]
          \/ ~Overlaps(f, Lo(h), Hi(h))
      BY <3>1 DEF Merging, Deeper
    <3>4. d \in DOMAIN compaction.deeper
      BY <3>1 DEF Merging, Deeper
    <3>5. CASE f \in compaction.deeper[d]
      <4>1. ~Overlaps(f, n.key, n.key)
        BY <3>4, <3>5 DEF IsBaseLevelForKey
      <4>2. Lo(f) <= e.key /\ e.key <= Hi(f) /\ Lo(f) \in Nat /\ Hi(f) \in Nat
        BY <1>10, <3>2, Ends
      <4>3. e.key \in Nat
        BY <1>2, <1>3, LevelTreeAssumption DEF Entries
      <4> QED
        BY <4>1, <4>2, <4>3 DEF Overlaps
    <3> QED
      BY <1>7, <1>10, <3>2, <3>3, <3>5
  <2> QED
    BY <1>1, <1>5, <2>1, <2>2, <2>3, <2>4, <2>5
<1>11. \/ e \in mem \/ e \in imm
       \/ \E d \in 0 .. Depth : \E f \in FilesAt(d)' : e \in f
  BY DEF Stored
<1> QED
  BY <1>9, <1>10, <1>11

(* What a merge leaves of what is stored.                                  *)
LEMMA StoredAfter ==
    ASSUME TreeInv, Merging, NEW l, NEW S, NEW P, NEW Out, l = compaction.level,
           S = compaction.inputs, P = compaction.parents, Replaced(l, S, P, Out),
           UNCHANGED <<mem, imm>>,
           Out \subseteq SUBSET Kept(compaction),
           \A e \in Kept(compaction) : \E o \in Out : e \in o
    PROVE  /\ Stored' \subseteq Stored
           /\ \A e \in Stored \ Stored' : e \in Inputs(compaction) /\ Drop(compaction, e)
<1> USE DEF TreeInv
<1>1. /\ l \in 0 .. Depth - 1 /\ l \in 0 .. Depth /\ l + 1 \in 0 .. Depth /\ l # l + 1
      /\ S \subseteq FilesAt(l) /\ P \subseteq FilesAt(l + 1)
      /\ \A e : e \in Inputs(compaction) <=> \E h \in S \cup P : e \in h
      /\ \A e \in Inputs(compaction) : e \in Entries /\ e \in Stored
  <2>1. Taken(l, S, P) /\ \A e \in Inputs(compaction) : e \in Entries /\ e \in Stored
    BY InputsAre
  <2> QED
    BY <2>1, LevelTreeAssumption DEF Taken
<1>2. Out \subseteq SUBSET Entries
  BY <1>1 DEF Kept
<1>3. /\ FilesAt(l)' = FilesAt(l) \ S
      /\ FilesAt(l + 1)' = (FilesAt(l + 1) \ P) \cup Out
      /\ \A d \in 0 .. Depth : d # l /\ d # l + 1 => FilesAt(d)' = FilesAt(d)
  BY <1>1, <1>2, ReplacedFiles
<1>4. \A e : e \in Stored' <=> \/ e \in mem \/ e \in imm
                               \/ \E d \in 0 .. Depth : \E f \in FilesAt(d)' : e \in f
  BY DEF Stored
<1>5. ASSUME NEW e \in Stored'
      PROVE  e \in Stored
  <2>1. ASSUME NEW d \in 0 .. Depth, NEW f \in FilesAt(d)', e \in f
        PROVE  e \in Stored
    <3>1. f \in FilesAt(d) \/ f \in Out
      BY <1>1, <1>3
    <3>2. CASE f \in Out
      BY <1>1, <2>1, <3>2 DEF Kept
    <3> QED
      BY <2>1, <3>1, <3>2, StoredIs
  <2> QED
    BY <1>4, <2>1, StoredIs
<1>6. ASSUME NEW e \in Stored, e \notin Stored'
      PROVE  e \in Inputs(compaction) /\ Drop(compaction, e)
  <2>1. PICK d \in 0 .. Depth : \E f \in FilesAt(d) : e \in f
    BY <1>4, <1>6, StoredIs
  <2>2. PICK f \in FilesAt(d) : e \in f
    BY <2>1
  <2>3. f \notin FilesAt(d)'
    BY <1>4, <1>6, <2>2
  <2>4. f \in S \cup P
    BY <1>1, <1>3, <2>2, <2>3
  <2>5. e \in Inputs(compaction)
    BY <1>1, <2>2, <2>4
  <2>6. e \notin Kept(compaction)
    BY <1>1, <1>3, <1>4, <1>6
  <2> QED
    BY <2>5, <2>6 DEF Kept
<1> QED
  BY <1>5, <1>6

(* What anybody may still read is kept.                                    *)
LEMMA ScansInstalled ==
    ASSUME TreeInv, Merging, NEW l, NEW S, NEW P, NEW Out, l = compaction.level,
           S = compaction.inputs, P = compaction.parents, Replaced(l, S, P, Out),
           UNCHANGED <<mem, imm, log, snapshots, lastSequence>>,
           Out \subseteq SUBSET Kept(compaction),
           \A e \in Kept(compaction) : \E o \in Out : e \in o
    PROVE  ScansTrue'
<1> USE DEF TreeInv
<1>1. PICK A, B : A = Stored /\ B = Stored'
  OBVIOUS
<1>2. B \subseteq A /\ \A e \in A \ B : e \in Inputs(compaction) /\ Drop(compaction, e)
  BY <1>1, StoredAfter
<1>3. ASSUME NEW n \in Inputs(compaction), n.del, n.seq <= compaction.smallestSnapshot,
             IsBaseLevelForKey(compaction, n.key), NEW e \in B, e.key = n.key
      PROVE  e.seq > n.seq
  BY <1>1, <1>3, NothingHidden
<1>4. \A e \in A : e \in log
  <2>1. \A e \in Stored : e \in log
    BY StoredIs DEF Formed
  <2> QED
    BY <1>1, <2>1
<1>5. \A e \in A : e.seq \in Nat
  BY <1>4, LevelTreeAssumption DEF Formed, Entries
<1>6. /\ \A e \in Inputs(compaction) : e \in A
      /\ compaction.smallestSnapshot \in Nat
  BY <1>1, InputsAre
<1>7. \A s \in Readable : s \in Nat /\ compaction.smallestSnapshot <= s
  BY LevelTreeAssumption DEF Merging, Oldest, Readable, Types
<1>8. ASSUME NEW k \in Keys, NEW s \in Readable
      PROVE  Scan(B, k, s) = Scan(A, k, s)
  <2> DEFINE V == Visible(A, k, s)
             W == Visible(B, k, s)
  <2>1. s \in Nat /\ compaction.smallestSnapshot <= s
    BY <1>7
  <2>2. W \subseteq V /\ V \subseteq A /\ \A x \in V : x.key = k /\ x.seq <= s
    BY <1>2 DEF Visible
  <2>3. \A x \in V \ W : x \in A \ B
    BY DEF Visible
  <2>4. \A x \in W : x \in B
    BY DEF Visible
  <2>5. \A x \in Inputs(compaction) :
           x.key = k /\ x.seq <= compaction.smallestSnapshot => x \in V
    BY <1>5, <1>6, <2>1 DEF Visible
  <2> HIDE DEF V, W
  <2>6. ASSUME NEW x \in V \ W
        PROVE  /\ x \in Inputs(compaction)
               /\ \/ \E n \in V : n.seq > x.seq
                  \/ /\ x.del /\ x.seq <= compaction.smallestSnapshot
                     /\ IsBaseLevelForKey(compaction, x.key)
    <3>1. x \in Inputs(compaction) /\ Drop(compaction, x) /\ x.key = k
      BY <1>2, <2>2, <2>3
    <3> QED
      BY <2>5, <3>1 DEF Drop
  <2>7. ASSUME NEW n \in Newest(V), ~n.del
        PROVE  n \in Newest(W)
    <3>1. n \in V /\ \A o \in V : o.seq <= n.seq
      BY DEF Newest
    <3>2. n.seq \in Nat /\ \A o \in V : o.seq \in Nat
      BY <1>5, <2>2, <3>1
    <3>3. n \in W
      BY <2>6, <2>7, <3>1, <3>2
    <3> QED
      BY <2>2, <3>1, <3>3 DEF Newest
  <2>8. ASSUME NEW e \in Newest(W)
        PROVE  e \in Newest(V)
    <3>1. e \in W /\ (\A o \in W : o.seq <= e.seq) /\ e \in V /\ e \in B /\ e.key = k
      BY <2>2, <2>4 DEF Newest
    <3>2. \A x \in V : x.seq \in Nat
      BY <1>5, <2>2
    <3>3. ASSUME NEW o \in V, ~(o.seq <= e.seq)
          PROVE  FALSE
      <4> DEFINE T == {x.seq : x \in {y \in V : ~(y.seq <= e.seq)}}
      <4>1. T \subseteq Nat /\ T # {} /\ \A t \in T : t <= s
        BY <2>2, <3>2, <3>3
      <4>2. Max(T) \in T /\ \A t \in T : t <= Max(T)
        BY <2>1, <4>1, GreatestThere
      <4>3. PICK n \in V : ~(n.seq <= e.seq) /\ n.seq = Max(T)
        BY <4>2
      <4>4. \A x \in V : x.seq <= n.seq
        <5> SUFFICES ASSUME NEW x \in V
                     PROVE  x.seq <= n.seq
          OBVIOUS
        <5>1. CASE x.seq <= e.seq
          BY <3>1, <3>2, <4>3, <5>1
        <5>2. CASE ~(x.seq <= e.seq)
          <6>1. x.seq \in T
            BY <5>2
          <6> QED
            BY <4>2, <4>3, <6>1
        <5> QED
          BY <5>1, <5>2
      <4>5. n \in V \ W
        BY <3>1, <4>3
      <4>6. ~\E x \in V : x.seq > n.seq
        BY <3>2, <4>3, <4>4
      <4>7. /\ n \in Inputs(compaction) /\ n.del
            /\ n.seq <= compaction.smallestSnapshot /\ IsBaseLevelForKey(compaction, n.key)
        BY <2>6, <4>5, <4>6
      <4>8. e.key = n.key
        BY <2>2, <3>1, <4>3
      <4>9. e.seq > n.seq
        BY <1>3, <3>1, <4>7, <4>8
      <4> QED
        BY <3>1, <3>2, <4>3, <4>9
    <3> QED
      BY <3>1, <3>3 DEF Newest
  <2>9. {n \in Newest(W) : ~n.del} = {n \in Newest(V) : ~n.del}
    BY <2>7, <2>8
  <2>10. Value(W) = Value(V)
    BY <2>9, Zenon DEF Value
  <2> QED
    BY <2>10 DEF Scan, V, W
<1>9. \A k \in Keys, s \in Readable : Scan(A, k, s) = Scan(log, k, s)
  BY <1>1 DEF ScansTrue
<1>10. \A k \in Keys, s \in Readable : Scan(B, k, s) = Scan(log, k, s)
  BY <1>8, <1>9
<1>11. Readable' = Readable
  BY DEF Readable
<1>12. \A k, s : Scan(Stored, k, s)' = Scan(B, k, s) /\ Scan(log, k, s)' = Scan(log, k, s)
  BY <1>1 DEF Scan, Value, Newest, Visible
<1> QED
  BY <1>10, <1>11, <1>12 DEF ScansTrue

(* The end of a merge keeps the invariant.                                 *)
LEMMA InstallKeeps ==
    ASSUME TreeInv, WholeMerges, InstallCompactionResults
    PROVE  TreeInv'
<1> USE DEF TreeInv
<1>1. /\ compaction # NoCompaction /\ compaction' = NoCompaction
      /\ UNCHANGED <<lastSequence, mem, imm, snapshots, log>>
  BY DEF InstallCompactionResults
<1>2. Merging
  BY <1>1 DEF MergeInv
<1>3. PICK l, S, P : l = compaction.level /\ S = compaction.inputs /\ P = compaction.parents
  OBVIOUS
<1>4. PICK Out :
         /\ Replaced(l, S, P, Out)
         /\ \A o \in Out : o # {} /\ o \subseteq Kept(compaction)
         /\ \A e \in Kept(compaction) : \E o \in Out : e \in o
         /\ \A o, p \in Out : o # p => ~Overlaps(o, Lo(p), Hi(p))
         /\ \A g \in FilesAt(l + 1) \ P, o \in Out : ~Overlaps(g, Lo(o), Hi(o))
  BY <1>3, Installed
<1>5. /\ l \in 0 .. Depth - 1
      /\ S \subseteq FilesAt(l) /\ P \subseteq FilesAt(l + 1)
      /\ \A g \in FilesAt(l) \ S, h \in S : Newer(g, h)
      /\ \A e : e \in Inputs(compaction) <=> \E h \in S \cup P : e \in h
  <2>1. Taken(l, S, P)
    BY <1>2, <1>3, InputsAre
  <2> QED
    BY <2>1 DEF Taken
<1>6. \A o \in Out : o # {} /\ o \subseteq UNION (S \cup P)
  <2>1. \A e \in Kept(compaction) : e \in UNION (S \cup P)
    BY <1>5 DEF Kept
  <2> QED
    BY <1>4, <2>1
<1>7. Types' /\ Formed' /\ Ordered' /\ LevelsDisjoint'
  BY <1>1, <1>4, <1>5, <1>6, ReplaceKeeps
<1>8. Numbered' /\ MergeInv'
  BY <1>1 DEF Numbered, MergeInv, NoCompaction
<1>9. ScansTrue'
  BY <1>1, <1>2, <1>3, <1>4, ScansInstalled
<1> QED
  BY <1>7, <1>8, <1>9

-----------------------------------------------------------------------------
(* The invariant holds, and what it says.                                  *)

(* At first there is nothing.                                              *)
LEMMA TreeBegins ==
    ASSUME Init
    PROVE  TreeInv
<1>1. /\ lastSequence = 0 /\ mem = {} /\ imm = {} /\ l0 = [n \in {} |-> {}]
      /\ files = [l \in Levels |-> {}] /\ snapshots = {} /\ compaction = NoCompaction
      /\ log = {}
  BY DEF Init
<1>2. 0 \in 0 .. MaxSeq /\ 0 \in Nat
  BY LevelTreeAssumption
<1>3. \A l \in 0 .. Depth : FilesAt(l) = {}
  BY <1>1 DEF FilesAt, Levels
<1>4. Types
  <2>1. DOMAIN l0 = {} /\ l0 = [n \in DOMAIN l0 |-> l0[n]]
    BY <1>1
  <2>2. \E B \in Nat : \A n \in DOMAIN l0 : n <= B
    BY <1>2, <2>1
  <2> QED
    BY <1>1, <1>2, <2>1, <2>2 DEF Types
<1>5. Formed
  <2>1. \E B \in Nat : \A e \in log : e.key <= B
    BY <1>1, <1>2
  <2> QED
    BY <1>1, <1>3, <2>1 DEF Formed
<1>6. Numbered /\ LevelsDisjoint /\ MergeInv
  BY <1>1 DEF Numbered, LevelsDisjoint, MergeInv
<1>7. Ordered
  BY <1>1, <1>3 DEF Ordered, Newer
<1>8. ScansTrue
  <2>1. \A e : e \notin Stored
    BY <1>1, <1>3, StoredIs
  <2>2. Stored = log
    BY <1>1, <2>1
  <2> QED
    BY <2>2 DEF ScansTrue
<1> QED
  BY <1>4, <1>5, <1>6, <1>7, <1>8 DEF TreeInv

(* Every step keeps it.                                                    *)
LEMMA TreeKept ==
    ASSUME TreeInv, WholeMerges, [Next]_vars
    PROVE  TreeInv'
<1>1. CASE \E k \in Keys, deletion \in Deletions : Write(k, deletion)
  BY <1>1, WriteKeeps
<1>2. CASE SwitchMemTable
  BY <1>2, SwitchKeeps
<1>3. CASE GetSnapshot \/ \E s \in snapshots : ReleaseSnapshot(s)
  BY <1>3, SnapshotsKeep
<1>4. CASE Reopen
  BY <1>4, ReopenKeeps
<1>5. CASE CompactMemTable
  BY <1>5, FlushKeeps
<1>6. ASSUME NEW l \in 0 .. Depth - 1,
             \/ \E f \in FilesAt(l) : PickCompaction(l, f)
             \/ \E lo, hi \in Keys : CompactRange(l, lo, hi)
      PROVE  TreeInv'
  BY <1>6, PickKeeps
<1>7. ASSUME NEW l \in 0 .. Depth - 1, NEW f \in FilesAt(l), TrivialMove(l, f)
      PROVE  TreeInv'
  BY <1>7, MoveKeeps
<1>8. CASE InstallCompactionResults
  BY <1>8, InstallKeeps
<1>9. CASE UNCHANGED vars
  <2> USE DEF TreeInv
  <2>1. UNCHANGED <<lastSequence, mem, imm, l0, files, snapshots, compaction, log>>
    BY <1>9 DEF vars
  <2>2. \A l : FilesAt(l)' = FilesAt(l)
    BY <2>1, FilesSame
  <2>3. Types' /\ Numbered' /\ LevelsDisjoint'
    BY <2>1 DEF Types, Numbered, LevelsDisjoint
  <2>4. Formed' /\ Ordered'
    BY <2>1, <2>2 DEF Formed, Ordered
  <2>5. Readable' = Readable
    BY <2>1 DEF Readable
  <2>6. MergeInv'
    BY <2>1, <2>5, MergingKept DEF Types
  <2>7. \A e : e \in Stored' <=> e \in Stored
    BY <2>1, <2>2 DEF Stored
  <2>8. ScansTrue'
    BY <2>1, <2>5, <2>7, ScansKept
  <2> QED
    BY <2>3, <2>4, <2>6, <2>8
<1> QED
  BY <1>1, <1>2, <1>3, <1>4, <1>5, <1>6, <1>7, <1>8, <1>9 DEF Next

(* What may be found earlier is newer.                                     *)
LEMMA OrderedPlaces ==
    ASSUME TreeInv
    PROVE  NewerAbove
<1> USE DEF TreeInv
<1> DEFINE tables == WrittenOut
           places == Places
<1>1. places = [p \in {-n : n \in DOMAIN tables} \cup Levels |->
                   IF p < 0 THEN tables[-p] ELSE UNION files[p]]
  BY DEF Places
<1>2. /\ DOMAIN tables = DOMAIN l0 \cup {NewFileNumber, MemNumber}
      /\ \A n \in DOMAIN l0 : tables[n] = l0[n] /\ n < MemNumber
      /\ imm # {} => tables[NewFileNumber] = imm /\ NewFileNumber < MemNumber
      /\ imm = {} => NewFileNumber = MemNumber
      /\ tables[MemNumber] = mem
      /\ MemNumber \in Nat \ {0}
  BY Written
<1>3. /\ NewFileNumber \in Nat \ {0}
      /\ \A n \in DOMAIN l0 : n \in Nat \ {0} /\ n < NewFileNumber
  BY NewNumber
<1>4. \A n \in DOMAIN tables : n \in Nat \ {0}
  BY <1>2, <1>3
<1> HIDE DEF tables, places
<1>5. /\ \A m \in DOMAIN tables : -m \in DOMAIN places /\ places[-m] = tables[m]
      /\ \A l \in Levels : l \in DOMAIN places /\ places[l] = UNION FilesAt(l)
      /\ \A p \in DOMAIN places : (\E m \in DOMAIN tables : p = -m) \/ p \in Levels
  <2>1. ASSUME NEW m \in DOMAIN tables
        PROVE  -m \in DOMAIN places /\ places[-m] = tables[m]
    <3>1. -m < 0 /\ -(-m) = m
      BY <1>4
    <3> QED
      BY <1>1, <3>1
  <2>2. ASSUME NEW l \in Levels
        PROVE  l \in DOMAIN places /\ places[l] = UNION FilesAt(l)
    <3>1. ~(l < 0) /\ l # 0
      BY LevelTreeAssumption DEF Levels
    <3>2. FilesAt(l) = files[l]
      BY <3>1 DEF FilesAt
    <3> QED
      BY <1>1, <3>1, <3>2
  <2>3. \A p \in DOMAIN places : (\E m \in DOMAIN tables : p = -m) \/ p \in Levels
    BY <1>1
  <2> QED
    BY <2>1, <2>2, <2>3
<1>6. ASSUME NEW m \in DOMAIN tables
      PROVE  \/ tables[m] = mem /\ m = MemNumber
             \/ tables[m] = imm /\ m = NewFileNumber
             \/ m \in DOMAIN l0 /\ tables[m] \in FilesAt(0) /\ tables[m] = l0[m]
  BY <1>2 DEF FilesAt
<1>7. ASSUME NEW m \in DOMAIN tables, NEW n \in DOMAIN tables, n < m
      PROVE  Newer(tables[m], tables[n])
  <2>1. 0 \in 0 .. Depth
    BY LevelTreeAssumption
  <2>2. CASE tables[m] = mem
    <3>1. tables[n] = imm \/ tables[n] \in FilesAt(0) \/ n = MemNumber
      BY <1>6
    <3>2. CASE tables[n] = mem /\ n = MemNumber
      <4>1. m = MemNumber \/ m = NewFileNumber \/ m \in DOMAIN l0
        BY <1>2
      <4>2. m <= MemNumber
        BY <1>2, <1>3, <4>1
      <4> QED
        BY <1>2, <1>3, <1>4, <1>7, <3>2, <4>2
    <3> QED
      BY <1>2, <2>1, <2>2, <3>1, <3>2 DEF Ordered
  <2>3. CASE tables[m] = imm /\ m = NewFileNumber
    <3>1. n \in DOMAIN l0
      BY <1>2, <1>3, <1>7, <2>3
    <3>2. tables[n] \in FilesAt(0)
      BY <1>2, <3>1 DEF FilesAt
    <3> QED
      BY <2>1, <2>3, <3>2 DEF Ordered
  <2>4. CASE m \in DOMAIN l0 /\ tables[m] = l0[m]
    <3>1. n \in DOMAIN l0 /\ tables[n] = l0[n]
      BY <1>2, <1>3, <1>7, <2>4
    <3> QED
      BY <1>7, <2>4, <3>1 DEF Ordered
  <2> QED
    BY <1>6, <2>2, <2>3, <2>4
<1>8. ASSUME NEW m \in DOMAIN tables, NEW l \in Levels, NEW f \in FilesAt(l)
      PROVE  Newer(tables[m], f)
  <2>1. 0 \in 0 .. Depth /\ l \in 0 .. Depth /\ 0 < l
    BY LevelTreeAssumption DEF Levels
  <2> QED
    BY <1>6, <2>1 DEF Ordered
<1>9. ASSUME NEW l \in Levels, NEW d \in Levels, l < d,
             NEW f \in FilesAt(l), NEW g \in FilesAt(d)
      PROVE  Newer(f, g)
  <2>1. l \in 0 .. Depth /\ d \in 0 .. Depth
    BY LevelTreeAssumption DEF Levels
  <2> QED
    BY <1>9, <2>1 DEF Ordered
<1>10. ASSUME NEW i \in DOMAIN places, NEW j \in DOMAIN places, i < j,
              NEW a \in places[i], NEW b \in places[j], a.key = b.key
       PROVE  a.seq > b.seq
  <2>1. CASE \E m, n \in DOMAIN tables : i = -m /\ j = -n
    <3>1. PICK m, n \in DOMAIN tables : i = -m /\ j = -n
      BY <2>1
    <3>2. n < m
      BY <1>4, <1>10, <3>1
    <3> QED
      BY <1>5, <1>7, <1>10, <3>1, <3>2 DEF Newer
  <2>2. CASE (\E m \in DOMAIN tables : i = -m) /\ j \in Levels
    <3>1. PICK m \in DOMAIN tables : i = -m
      BY <2>2
    <3>2. PICK f \in FilesAt(j) : b \in f
      BY <1>5, <2>2
    <3> QED
      BY <1>5, <1>8, <1>10, <2>2, <3>1, <3>2 DEF Newer
  <2>3. CASE i \in Levels /\ j \in Levels
    <3>1. PICK f \in FilesAt(i) : a \in f
      BY <1>5, <2>3
    <3>2. PICK g \in FilesAt(j) : b \in g
      BY <1>5, <2>3
    <3> QED
      BY <1>9, <1>10, <2>3, <3>1, <3>2 DEF Newer
  <2>4. ~(i \in Levels /\ \E n \in DOMAIN tables : j = -n)
    BY <1>4, <1>10, LevelTreeAssumption DEF Levels
  <2> QED
    BY <1>5, <2>1, <2>2, <2>3, <2>4
<1> QED
  BY <1>10, Zenon DEF NewerAbove, places

(* The types of the variables.                                             *)
LEMMA TreeTypes ==
    ASSUME TreeInv
    PROVE  TypeOK
<1> USE DEF TreeInv
<1>1. mem \subseteq Entries /\ imm \subseteq Entries /\ log \subseteq Entries
  BY DEF Formed
<1>2. l0 \in [DOMAIN l0 -> SUBSET Entries]
  <2>1. \A n \in DOMAIN l0 : l0[n] \in FilesAt(0)
    BY DEF FilesAt
  <2>2. 0 \in 0 .. Depth
    BY LevelTreeAssumption
  <2>3. \A n \in DOMAIN l0 : l0[n] \in SUBSET Entries
    BY <2>1, <2>2 DEF Formed
  <2>4. l0 = [n \in DOMAIN l0 |-> l0[n]]
    BY DEF Types
  <2> QED
    BY <2>3, <2>4
<1>3. CASE Merging
  <2>1. PICK l, S, P : l = compaction.level /\ S = compaction.inputs /\ P = compaction.parents
    OBVIOUS
  <2> Taken(l, S, P)
    BY <1>3, <2>1, InputsAre
  <2>2. \A h \in S \cup P : h \subseteq log
    BY DEF Taken
  <2>3. l \in 0 .. Depth - 1
    BY DEF Taken
  <2>4. compaction.smallestSnapshot \in 0 .. MaxSeq
    BY <1>3 DEF Merging, Oldest
  <2>5. S \subseteq SUBSET Entries /\ P \subseteq SUBSET Entries
    BY <1>1, <2>2
  <2> QED
    BY <1>1, <1>2, <2>1, <2>3, <2>4, <2>5 DEF Types, TypeOK
<1>4. CASE compaction = NoCompaction
  BY <1>1, <1>2, <1>4 DEF Types, TypeOK
<1> QED
  BY <1>3, <1>4 DEF MergeInv

(* The levels are what Get and the iterators rely on (db/db_impl.cc,        *)
(* db/version_set.cc): whatever is written, flushed, moved and merged, a    *)
(* scan sees what was written last before its snapshot, of one key what is  *)
(* found earlier is newer, and the files of a level do not overlap.         *)
THEOREM LevelsStayTrue ==
    ASSUME WholeMerges
    PROVE  Spec => []LevelsTrue
<1>1. Init => TreeInv
  BY TreeBegins
<1>2. TreeInv /\ [Next]_vars => TreeInv'
  BY TreeKept
<1>3. TreeInv => LevelsTrue
  BY OrderedPlaces, TreeTypes DEF TreeInv, LevelsTrue
<1> QED
  BY <1>1, <1>2, <1>3, PTL DEF Spec

-----------------------------------------------------------------------------
(* What is read is what was written.                                       *)

(* A place with an entry newer than all found elsewhere decides.           *)
LEMMA NewestOf ==
    ASSUME NEW R, NEW V, R \subseteq V, \A e \in V : e.seq \in Nat,
           V # {} => R # {}, \A a \in R, b \in V \ R : a.seq > b.seq
    PROVE  Value(R) = Value(V)
<1>1. ASSUME NEW n \in Newest(R)
      PROVE  n \in Newest(V)
  <2>1. n \in R /\ \A o \in R : o.seq <= n.seq
    BY DEF Newest
  <2>2. \A o \in V : o.seq <= n.seq
    BY <2>1
  <2> QED
    BY <2>1, <2>2 DEF Newest
<1>2. ASSUME NEW n \in Newest(V)
      PROVE  n \in Newest(R)
  <2>1. n \in V /\ \A o \in V : o.seq <= n.seq
    BY DEF Newest
  <2>2. PICK r \in R : TRUE
    BY <2>1
  <2>3. n \in R
    BY <2>1, <2>2
  <2> QED
    BY <2>1, <2>3 DEF Newest
<1>3. {n \in Newest(R) : ~n.del} = {n \in Newest(V) : ~n.del}
  BY <1>1, <1>2
<1> QED
  BY <1>3, Zenon DEF Value

(* A file has a first entry.                                               *)
LEMMA FirstEntry ==
    ASSUME NEW f, File(f)
    PROVE  \E x \in f : \A o \in f : ~Before(o, x)
<1> DEFINE T == {e.seq : e \in {e \in f : e.key = Lo(f)}}
<1>1. ASSUME NEW e \in f
      PROVE  e.key \in Nat /\ e.seq \in Nat /\ e.seq <= MaxSeq
  <2>1. e \in Entries
    BY DEF File
  <2>2. e.key \in Keys /\ e.seq \in 1 .. MaxSeq
    BY <2>1 DEF Entries
  <2>3. MaxSeq \in Nat /\ e.key \in Nat
    BY <2>2, LevelTreeAssumption
  <2> HIDE DEF T
  <2> QED
    BY <2>2, <2>3
<1>2. T # {} /\ T \subseteq Nat /\ \A t \in T : t <= MaxSeq
  BY <1>1, Ends
<1>3. MaxSeq \in Nat
  BY LevelTreeAssumption
<1>4. Max(T) \in T /\ \A t \in T : t <= Max(T)
  BY <1>2, <1>3, GreatestThere
<1>5. PICK x \in f : x.key = Lo(f) /\ x.seq = Max(T)
  BY <1>4
<1>6. ASSUME NEW o \in f
      PROVE  ~Before(o, x)
  <2>1. Lo(f) <= o.key
    BY Ends
  <2>2. o.key = Lo(f) => o.seq \in T
    OBVIOUS
  <2> HIDE DEF T
  <2> QED
    BY <1>1, <1>4, <1>5, <2>1, <2>2 DEF Before
<1> QED
  BY <1>6

(* The one file of a level that is looked into has what the level has.     *)
LEMMA CandidateFinds ==
    ASSUME Formed, LevelsDisjoint, NEW l \in Levels, NEW k \in Keys, NEW s \in Nat
    PROVE  Visible(Candidate(l, k, s), k, s) = Visible(UNION files[l], k, s)
<1> DEFINE target == [key |-> k, seq |-> s]
           Ahead(f) == \E e \in f : ~Before(e, target)
           First(f) == \A g \in files[l] : Ahead(g) => \E e \in f : \A o \in g : ~Before(o, e)
<1>1. Candidate(l, k, s) = UNION {f \in files[l] : Ahead(f) /\ First(f)}
  BY Zenon DEF Candidate
<1>2. /\ l \in 0 .. Depth /\ FilesAt(l) = files[l]
  BY LevelTreeAssumption DEF Levels, FilesAt
<1>3. \A f \in files[l] : File(f)
  BY <1>2, FilesFormed
<1>4. k \in Nat
  BY LevelTreeAssumption
<1>5. target.key = k /\ target.seq = s
  OBVIOUS
<1> HIDE DEF target
<1>6. ASSUME NEW f \in files[l], NEW e \in f, e.key = k, e.seq <= s
      PROVE  Ahead(f) /\ First(f)
  <2>1. e.seq \in Nat
    BY <1>3, LevelTreeAssumption DEF File, Entries
  <2>2. ~Before(e, target)
    BY <1>4, <1>5, <1>6, <2>1 DEF Before
  <2>3. ASSUME NEW g \in files[l], Ahead(g)
        PROVE  \E x \in f : \A o \in g : ~Before(o, x)
    <3>1. CASE g = f
      BY <1>3, <3>1, FirstEntry
    <3>2. CASE g # f
      <4>1. Apart(f, g) /\ (Hi(f) < Lo(g) \/ Hi(g) < Lo(f))
        <5>1. ~Overlaps(f, Lo(g), Hi(g))
          BY <3>2 DEF LevelsDisjoint
        <5> QED
          BY <1>3, <5>1, Beside DEF Overlaps
      <4>2. PICK y \in g : ~Before(y, target)
        BY <2>3
      <4>3. y.key \in Nat
        BY <1>3, LevelTreeAssumption DEF File, Entries
      <4>4. y.key # k
        BY <1>6, <4>1 DEF Apart
      <4>5. k < y.key
        BY <1>4, <1>5, <4>2, <4>3, <4>4 DEF Before
      <4>6. /\ Lo(f) <= k /\ k <= Hi(f) /\ y.key <= Hi(g)
            /\ Lo(f) \in Nat /\ Hi(f) \in Nat /\ Lo(g) \in Nat /\ Hi(g) \in Nat
        BY <1>3, <1>6, Ends
      <4>7. Hi(f) < Lo(g)
        BY <1>4, <4>1, <4>3, <4>5, <4>6
      <4>8. \A o \in g : Lo(g) <= o.key /\ o.key \in Nat
        BY <1>3, Ends, LevelTreeAssumption DEF File, Entries
      <4>9. \A o \in g : ~Before(o, e)
        BY <1>4, <1>6, <4>6, <4>7, <4>8 DEF Before
      <4> QED
        BY <4>9
    <3> QED
      BY <3>1, <3>2
  <2> QED
    BY <2>2, <2>3
<1> HIDE DEF Ahead, First
<1> QED
  BY <1>1, <1>6 DEF Visible

(* Get stops at the first place that has something, and finds the newest.  *)
LEMMA GetFinds ==
    ASSUME TreeInv, NEW k \in Keys, NEW s \in Nat
    PROVE  Get(k, s) = Scan(Stored, k, s)
<1> USE DEF TreeInv
<1> DEFINE In(S)  == Visible(S, k, s)
           At(l)  == In(Candidate(l, k, s))
           Recent == UNION {In(l0[n]) : n \in {n \in DOMAIN l0 :
                                \A m \in DOMAIN l0 : m > n => In(l0[m]) = {}}}
           Lower  == UNION {At(l) : l \in {l \in Levels : \A d \in 1 .. l - 1 : At(d) = {}}}
           V      == In(Stored)
<1>1. Get(k, s) = Value(IF In(mem) # {} THEN In(mem) ELSE IF In(imm) # {} THEN In(imm)
                        ELSE IF Recent # {} THEN Recent ELSE Lower)
  BY Zenon DEF Get
<1>2. Scan(Stored, k, s) = Value(V)
  BY Zenon DEF Scan
<1>3. \A S, e : e \in In(S) <=> e \in S /\ e.key = k /\ e.seq <= s
  BY DEF Visible
<1>4. ASSUME NEW l \in Levels
      PROVE  /\ l \in 0 .. Depth /\ 0 < l /\ FilesAt(l) = files[l]
             /\ \A e : e \in At(l) <=> \E f \in FilesAt(l) : e \in In(f)
  <2>1. l \in 0 .. Depth /\ 0 < l /\ FilesAt(l) = files[l]
    BY LevelTreeAssumption DEF Levels, FilesAt
  <2>2. At(l) = In(UNION files[l])
    BY CandidateFinds
  <2> HIDE DEF At, In
  <2> QED
    BY <1>3, <2>1, <2>2
<1>5. 0 \in 0 .. Depth /\ Depth \in Nat /\ Levels = 1 .. Depth
  BY LevelTreeAssumption DEF Levels
<1>6. \A e : e \in V <=> \/ e \in In(mem) \/ e \in In(imm)
                         \/ \E f \in FilesAt(0) : e \in In(f)
                         \/ \E l \in Levels : \E f \in FilesAt(l) : e \in In(f)
  <2>1. \A l : l \in 0 .. Depth <=> l = 0 \/ l \in Levels
    BY <1>5
  <2> HIDE DEF In
  <2> QED
    BY <1>3, <2>1, StoredIs
<1>7. \A e \in V : e.seq \in Nat
  <2>1. \A e \in Stored : e \in log
    BY StoredIs DEF Formed
  <2>2. \A e \in log : e.seq \in Nat
    BY LevelTreeAssumption DEF Formed, Entries
  <2> HIDE DEF In
  <2> QED
    BY <1>3, <2>1, <2>2
<1>8. \A f, g : Newer(f, g) => \A a \in In(f), b \in In(g) : a.seq > b.seq
  BY <1>3 DEF Newer
<1>9. \A n \in DOMAIN l0 : l0[n] \in FilesAt(0) /\ n \in Nat
  BY DEF FilesAt, Types
<1>10. \A f \in FilesAt(0) : \E n \in DOMAIN l0 : f = l0[n]
  BY DEF FilesAt
<1>11. /\ \A a \in In(mem), b \in In(imm) : a.seq > b.seq
       /\ \A l \in 0 .. Depth : \A f \in FilesAt(l) :
             /\ \A a \in In(mem), b \in In(f) : a.seq > b.seq
             /\ \A a \in In(imm), b \in In(f) : a.seq > b.seq
       /\ \A m, n \in DOMAIN l0 : n < m => \A a \in In(l0[m]), b \in In(l0[n]) : a.seq > b.seq
       /\ \A l, d \in 0 .. Depth : l < d => \A f \in FilesAt(l), g \in FilesAt(d) :
             \A a \in In(f), b \in In(g) : a.seq > b.seq
  <2> HIDE DEF In
  <2> QED
    BY <1>8 DEF Ordered
<1> HIDE DEF In, V
<1>12. CASE In(mem) # {}
  <2>1. In(mem) \subseteq V
    BY <1>6
  <2>2. \A a \in In(mem), b \in V \ In(mem) : a.seq > b.seq
    BY <1>4, <1>5, <1>6, <1>11
  <2>3. Value(In(mem)) = Value(V)
    BY <1>7, <1>12, <2>1, <2>2, NewestOf
  <2> QED
    BY <1>1, <1>2, <1>12, <2>3
<1>13. CASE In(mem) = {} /\ In(imm) # {}
  <2>1. In(imm) \subseteq V
    BY <1>6
  <2>2. \A a \in In(imm), b \in V \ In(imm) : a.seq > b.seq
    BY <1>4, <1>5, <1>6, <1>11, <1>13
  <2>3. Value(In(imm)) = Value(V)
    BY <1>7, <1>13, <2>1, <2>2, NewestOf
  <2> QED
    BY <1>1, <1>2, <1>13, <2>3
<1>14. \A e : e \in Recent <=>
          \E n \in DOMAIN l0 : e \in In(l0[n]) /\ \A m \in DOMAIN l0 : m > n => In(l0[m]) = {}
  OBVIOUS
<1> HIDE DEF Recent
<1>15. CASE In(mem) = {} /\ In(imm) = {} /\ Recent # {}
  <2>1. Recent \subseteq V
    BY <1>6, <1>9, <1>14
  <2>2. ASSUME NEW a \in Recent, NEW b \in V \ Recent
        PROVE  a.seq > b.seq
    <3>1. PICK n \in DOMAIN l0 : a \in In(l0[n]) /\ \A m \in DOMAIN l0 : m > n => In(l0[m]) = {}
      BY <1>14
    <3>2. CASE \E f \in FilesAt(0) : b \in In(f)
      <4>1. PICK m \in DOMAIN l0 : b \in In(l0[m])
        BY <1>10, <3>2
      <4>2. ~(m > n) /\ m # n
        BY <1>14, <3>1, <4>1
      <4>3. m < n
        BY <1>9, <4>2
      <4> QED
        BY <1>11, <3>1, <4>1, <4>3
    <3>3. CASE \E l \in Levels : \E f \in FilesAt(l) : b \in In(f)
      BY <1>4, <1>5, <1>9, <1>11, <3>1, <3>3
    <3> QED
      BY <1>6, <1>15, <3>2, <3>3
  <2>3. Value(Recent) = Value(V)
    BY <1>7, <1>15, <2>1, <2>2, NewestOf
  <2> QED
    BY <1>1, <1>2, <1>15, <2>3
<1>16. Recent = {} => \A n \in DOMAIN l0 : In(l0[n]) = {}
  <2> SUFFICES ASSUME NEW n \in DOMAIN l0, In(l0[n]) # {}
               PROVE  Recent # {}
    OBVIOUS
  <2> DEFINE T == {m \in DOMAIN l0 : In(l0[m]) # {}}
  <2>1. PICK B \in Nat : \A m \in DOMAIN l0 : m <= B
    BY DEF Types
  <2>2. T \subseteq Nat /\ T # {} /\ \A t \in T : t <= B
    BY <1>9, <2>1
  <2>3. Max(T) \in T /\ \A t \in T : t <= Max(T)
    BY <2>2, GreatestThere
  <2>4. PICK m \in DOMAIN l0 : In(l0[m]) # {} /\ \A t \in T : t <= m
    BY <2>3
  <2>5. \A o \in DOMAIN l0 : o > m => In(l0[o]) = {}
    BY <1>9, <2>4
  <2> QED
    BY <1>14, <2>4, <2>5
<1>17. \A e : e \in Lower <=>
          \E l \in Levels : e \in At(l) /\ \A d \in 1 .. l - 1 : At(d) = {}
  OBVIOUS
<1> HIDE DEF Lower, At
<1>18. CASE In(mem) = {} /\ In(imm) = {} /\ Recent = {}
  <2>1. \A e : e \in V <=> \E l \in Levels : e \in At(l)
    BY <1>4, <1>6, <1>10, <1>16, <1>18
  <2>2. Lower \subseteq V
    BY <1>17, <2>1
  <2>3. V # {} => Lower # {}
    <3> SUFFICES ASSUME V # {}
                 PROVE  Lower # {}
      OBVIOUS
    <3> DEFINE T == {l \in Levels : At(l) # {}}
    <3>1. T \subseteq Nat /\ T # {}
      BY <1>5, <2>1
    <3>2. Min(T) \in T /\ \A t \in T : Min(T) <= t
      BY <3>1, LeastThere
    <3>3. PICK l \in Levels : At(l) # {} /\ \A t \in T : l <= t
      BY <3>2
    <3>4. \A d \in 1 .. l - 1 : At(d) = {}
      BY <1>5, <3>3
    <3> QED
      BY <1>17, <3>3, <3>4
  <2>4. ASSUME NEW a \in Lower, NEW b \in V \ Lower
        PROVE  a.seq > b.seq
    <3>1. PICK l \in Levels : a \in At(l) /\ \A d \in 1 .. l - 1 : At(d) = {}
      BY <1>17
    <3>2. PICK d \in Levels : b \in At(d)
      BY <2>1
    <3>3. d # l
      BY <1>17, <3>1, <3>2
    <3>4. ~(d < l)
      BY <1>5, <3>1, <3>2
    <3>5. l < d
      BY <1>5, <3>3, <3>4
    <3>6. PICK f \in FilesAt(l) : a \in In(f)
      BY <1>4, <3>1
    <3>7. PICK g \in FilesAt(d) : b \in In(g)
      BY <1>4, <3>2
    <3> QED
      BY <1>4, <1>11, <3>5, <3>6, <3>7
  <2>5. Value(Lower) = Value(V)
    BY <1>7, <2>2, <2>3, <2>4, NewestOf
  <2> QED
    BY <1>1, <1>2, <1>18, <2>5
<1> QED
  BY <1>12, <1>13, <1>15, <1>18

-----------------------------------------------------------------------------
(* The store implements the map.                                           *)

\* What was written, as of the sequence number s.
History(L, s) == [k \in Keys |-> Scan(L, k, s)]

\* What the map and its copies are, in terms of what was written.
ReadsTrue ==
    /\ Reads(lastSequence) = History(log, lastSequence)
    /\ {<<s, Reads(s)>> : s \in snapshots} = {<<s, History(log, s)>> : s \in snapshots}

(* What is read is what was written last, before the snapshot.             *)
LEMMA ReadsKnown ==
    ASSUME TreeInv
    PROVE  ReadsTrue
<1> USE DEF TreeInv
<1>1. ASSUME NEW s \in Readable
      PROVE  Reads(s) = History(log, s)
  <2>1. s \in Nat
    BY LevelTreeAssumption DEF Readable, Types
  <2>2. ASSUME NEW k \in Keys
        PROVE  Get(k, s) = Scan(log, k, s)
    <3>1. Get(k, s) = Scan(Stored, k, s)
      BY <2>1, GetFinds
    <3>2. Scan(Stored, k, s) = Scan(log, k, s)
      BY DEF ScansTrue
    <3> QED
      BY <3>1, <3>2
  <2> QED
    BY <2>2, Zenon DEF Reads, History
<1>2. lastSequence \in Readable /\ snapshots \subseteq Readable
  BY DEF Readable
<1> QED
  BY <1>1, <1>2 DEF ReadsTrue

(* A write gives one key its value or none, and changes nothing of what    *)
(* was written before.                                                     *)
LEMMA WriteShows ==
    ASSUME TreeInv, NEW k \in Keys, NEW deletion \in Deletions, Write(k, deletion)
    PROVE  /\ \A o \in Keys \ {k} :
                 Scan(log', o, lastSequence') = Scan(log, o, lastSequence)
           /\ Scan(log', k, lastSequence') \in {{}, {lastSequence + 1}}
           /\ \A s \in snapshots : History(log', s) = History(log, s)
<1> USE DEF TreeInv
<1>1. PICK e : /\ e.key = k /\ e.seq = lastSequence + 1 /\ log' = log \cup {e}
               /\ lastSequence' = lastSequence + 1
  BY Zenon DEF Write
<1>2. lastSequence \in Nat /\ snapshots \subseteq Nat /\ \A s \in snapshots : s <= lastSequence
  BY LevelTreeAssumption DEF Types, Numbered
<1>3. \A a \in log : a.seq <= lastSequence /\ a.seq \in Nat
  BY LevelTreeAssumption DEF Numbered, Formed, Entries
<1>4. ASSUME NEW o \in Keys, o # k
      PROVE  Scan(log', o, lastSequence') = Scan(log, o, lastSequence)
  <2>1. Visible(log', o, lastSequence') = Visible(log, o, lastSequence)
    BY <1>1, <1>2, <1>3, <1>4 DEF Visible
  <2> QED
    BY <2>1 DEF Scan
<1>5. ASSUME NEW s \in snapshots
      PROVE  History(log', s) = History(log, s)
  <2>1. s < lastSequence + 1
    BY <1>2
  <2>2. \A o : Visible(log', o, s) = Visible(log, o, s)
    BY <1>1, <1>2, <2>1 DEF Visible
  <2> QED
    BY <2>2 DEF History, Scan
<1>6. Scan(log', k, lastSequence') \in {{}, {lastSequence + 1}}
  <2> DEFINE V == Visible(log', k, lastSequence')
  <2>1. e \in V /\ \A o \in V : o = e \/ o.seq < e.seq
    BY <1>1, <1>2, <1>3 DEF Visible
  <2> HIDE DEF V
  <2>2. \A o \in V : o.seq \in Nat
    BY <1>1, <1>2, <1>3 DEF V, Visible
  <2>3. Newest(V) = {e}
    BY <1>1, <1>2, <2>1, <2>2 DEF Newest
  <2>4. Value(V) \in {{}, {e.seq}}
    BY <2>3 DEF Value
  <2> QED
    BY <1>1, <2>4 DEF Scan, V
<1> QED
  BY <1>4, <1>5, <1>6

\* Steps of the background thread and of memtables: nothing that is read changes.
Unseen == UNCHANGED <<lastSequence, snapshots, log>>

(* Every step is one of the map, or none.                                  *)
LEMMA MapStep ==
    ASSUME TreeInv, ReadsTrue, ReadsTrue', [Next]_vars
    PROVE  [Map!Write \/ Map!Copy]_Map!vars
<1> DEFINE held == {<<s, Reads(s)>> : s \in snapshots}
<1>1. /\ Reads(lastSequence) = History(log, lastSequence)
      /\ held = {<<s, History(log, s)>> : s \in snapshots}
      /\ Reads(lastSequence)' = History(log', lastSequence')
      /\ held' = {<<s, History(log', s)>> : s \in snapshots'}
  BY DEF ReadsTrue
<1> HIDE DEF held
<1>2. CASE Unseen
  <2>1. Reads(lastSequence)' = Reads(lastSequence) /\ held' = held
    BY <1>1, <1>2 DEF Unseen
  <2> QED
    BY <1>2, <2>1 DEF Unseen, Map!vars, held
<1>3. ASSUME NEW k \in Keys, NEW deletion \in Deletions, Write(k, deletion)
      PROVE  Map!Write
  <2>1. snapshots' = snapshots
    BY <1>3 DEF Write
  <2>2. held' = held
    BY <1>1, <1>3, <2>1, WriteShows
  <2>3. PICK v \in {{}, {lastSequence + 1}} : Scan(log', k, lastSequence') = v
    BY <1>3, WriteShows
  <2>4. History(log', lastSequence') = [History(log, lastSequence) EXCEPT ![k] = v]
    <3>1. \A o \in Keys \ {k} : Scan(log', o, lastSequence') = Scan(log, o, lastSequence)
      BY <1>3, WriteShows
    <3> QED
      BY <2>3, <3>1 DEF History
  <2>5. /\ lastSequence' = lastSequence + 1 /\ lastSequence + 1 \in 1 .. MaxSeq
        /\ [n \in 1 .. MaxSeq |-> {n}][lastSequence + 1] = {lastSequence + 1}
    BY <1>3, LevelTreeAssumption DEF Write, TreeInv, Types
  <2> QED
    BY <1>1, <2>2, <2>3, <2>4, <2>5, Zenon DEF Map!Write, held
<1>4. CASE GetSnapshot
  <2>1. /\ UNCHANGED <<lastSequence, log>> /\ snapshots' = snapshots \cup {lastSequence}
        /\ lastSequence \in 0 .. MaxSeq
    BY <1>4 DEF GetSnapshot, TreeInv, Types
  <2>2. Reads(lastSequence)' = Reads(lastSequence)
    BY <1>1, <2>1
  <2>3. held' = held \cup {<<lastSequence, Reads(lastSequence)>>}
    BY <1>1, <2>1
  <2> QED
    BY <2>1, <2>2, <2>3 DEF Map!Copy, held
<1>5. CASE \E s \in snapshots : ReleaseSnapshot(s)
  <2>1. PICK s \in snapshots : snapshots' = snapshots \ {s} /\ UNCHANGED <<lastSequence, log>>
    BY <1>5 DEF ReleaseSnapshot
  <2>2. Reads(lastSequence)' = Reads(lastSequence)
    BY <1>1, <2>1
  <2>3. PICK c : c = <<s, History(log, s)>>
    OBVIOUS
  <2>4. c \in held /\ held' = held \ {c}
    BY <1>1, <2>1, <2>3
  <2> QED
    BY <2>1, <2>2, <2>4 DEF Map!Copy, held
<1>6. CASE Reopen
  <2>1. snapshots' = {} /\ UNCHANGED <<lastSequence, log>>
    BY <1>6 DEF Reopen
  <2>2. Reads(lastSequence)' = Reads(lastSequence) /\ held' = {}
    BY <1>1, <2>1
  <2> QED
    BY <2>1, <2>2 DEF Map!Copy, held
<1>7. CASE SwitchMemTable \/ CompactMemTable \/ InstallCompactionResults \/ UNCHANGED vars
  BY <1>2, <1>7 DEF Unseen, SwitchMemTable, CompactMemTable, InstallCompactionResults, vars
<1>8. ASSUME NEW l \in 0 .. Depth - 1,
             \/ \E f \in FilesAt(l) : PickCompaction(l, f) \/ TrivialMove(l, f)
             \/ \E lo, hi \in Keys : CompactRange(l, lo, hi)
      PROVE  [Map!Write \/ Map!Copy]_Map!vars
  <2>1. Unseen
    BY <1>8 DEF Unseen, PickCompaction, TrivialMove, CompactRange
  <2> QED
    BY <1>2, <2>1
<1> QED
  BY <1>3, <1>4, <1>5, <1>6, <1>7, <1>8 DEF Next

(* An empty store is an empty map.                                         *)
LEMMA MapBegins ==
    ASSUME Init, ReadsTrue
    PROVE  Map!Init
<1>1. lastSequence = 0 /\ log = {} /\ snapshots = {}
  BY DEF Init
<1>2. \A k, s : Scan({}, k, s) = {}
  <2>1. \A k, s : Visible({}, k, s) = {}
    BY DEF Visible
  <2>2. Value({}) = {}
    BY DEF Value, Newest
  <2> QED
    BY <2>1, <2>2 DEF Scan
<1>3. Reads(lastSequence) = [k \in Keys |-> {}]
  BY <1>1, <1>2 DEF ReadsTrue, History
<1>4. {<<s, Reads(s)>> : s \in snapshots} = {}
  BY <1>1
<1> QED
  BY <1>1, <1>3, <1>4 DEF Map!Init

(* LevelDB as the app's users see it (DBImpl::Get, GetSnapshot,            *)
(* ReleaseSnapshot): memtables, levels and merges implement a map with     *)
(* copies that nothing changes, whichever place Get stops at.              *)
THEOREM MapIsKept ==
    ASSUME WholeMerges
    PROVE  Spec => ImplementsMap
<1>1. Init => TreeInv
  BY TreeBegins
<1>2. TreeInv /\ [Next]_vars => TreeInv'
  BY TreeKept
<1>3. TreeInv => ReadsTrue
  BY ReadsKnown
<1>4. Init /\ ReadsTrue => Map!Init
  BY MapBegins
<1>5. TreeInv /\ ReadsTrue /\ ReadsTrue' /\ [Next]_vars => [Map!Write \/ Map!Copy]_Map!vars
  BY MapStep
<1> QED
  BY <1>1, <1>2, <1>3, <1>4, <1>5, PTL DEF Spec, ImplementsMap, Map!Spec
=============================================================================
