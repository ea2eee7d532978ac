------------------------- MODULE DurableStoreProofs -------------------------
(***************************************************************************)
(* Theorems about DurableStore, for every set of disks, any bounds of the  *)
(* batches and files, and any number of stops: a store that has once been  *)
(* open can be opened again, whatever stops or fails; no number is given   *)
(* out twice and no file in use deleted; and on a disk that keeps names in *)
(* order the store implements DurableMap.                                  *)
(*                                                                         *)
(* The invariant, StoreInv, is about every state to which a power failure  *)
(* may still take the directory, and of each about all that may be left of *)
(* the manifest its CURRENT names (Views).  ContentInv is what StoreInv    *)
(* leaves out: which batches the files hold, wherever a power failure takes*)
(* the store; it needs the disk to be Orderly.                             *)
(***************************************************************************)
EXTENDS DurableStore, SequenceTheorems, WellFoundedInduction, TLAPS

(* The least and the greatest of a set of numbers.                         *)

(* A set of numbers that is not empty has a least one.                     *)
LEMMA LeastThere ==
    ASSUME NEW S, S \subseteq Nat, S # {}
    PROVE  Min(S) \in S /\ \A y \in S : Min(S) <= y
<1> DEFINE Less == {p \in Nat \X Nat : p[1] < p[2]}
<1>1. Less = OpToRel(<, Nat)
  BY Zenon DEF OpToRel
<1>2. IsWellFoundedOn(Less, Nat)
  BY <1>1, NatLessThanWellFounded, Zenon
<1>3. \A x, y \in Nat : x < y => <<x, y>> \in Less
  OBVIOUS
<1> HIDE DEF Less
<1>4. PICK x \in S : \A y \in S : ~ (<<y, x>> \in Less)
  BY <1>2, WFMin, Zenon
<1>5. \A y \in S : y \in Nat
  OBVIOUS
<1>6. \A y \in S : ~ (y < x)
  BY <1>3, <1>4, <1>5
<1>7. \A y \in S : x <= y
  BY <1>5, <1>6
<1>8. QED
  BY <1>7 DEF Min

(* A set of numbers that is not empty and has a bound has a greatest one.  *)
LEMMA GreatestThere ==
    ASSUME NEW S, S \subseteq Nat, S # {}, NEW B \in Nat, \A y \in S : y <= B
    PROVE  Max(S) \in S /\ \A y \in S : y <= Max(S)
<1> DEFINE T == {B - y : y \in S}
<1>1. T \subseteq Nat /\ T # {}
  <2>1. \A y \in S : B - y \in Nat
    OBVIOUS
  <2> QED
    BY <2>1
<1> DEFINE m == Min(T)
<1>2. m \in T /\ \A t \in T : m <= t
  BY <1>1, LeastThere
<1>3. PICK x \in S : m = B - x
  BY <1>2
<1>4. \A y \in S : x >= y
  <2> TAKE y \in S
  <2>1. B - y \in T
    OBVIOUS
  <2>2. B - x <= B - y
    BY <2>1, <1>2, <1>3
  <2> QED
    BY <2>2
<1>5. Max(S) \in S /\ \A y \in S : Max(S) >= y
  BY <1>4, Zenon DEF Max
<1>6. \A y \in S : y \in Nat
  OBVIOUS
<1>7. QED
  BY <1>5, <1>6
-----------------------------------------------------------------------------
(* Records and views.                                                      *)

Torn(s) == \E i \in 1 .. Len(s) : s[i] = Tear

(* The records of a whole file are all there is; those of a torn one end   *)
(* before the first tear.                                                  *)
LEMMA RecordsAre ==
    ASSUME NEW S, Tear \notin S, NEW s \in Seq(S \cup {Tear})
    PROVE  /\ Records(s) \in Seq(S)
           /\ ~Torn(s) => Records(s) = s
           /\ Torn(s) => \E m \in 1 .. Len(s) :
                 /\ s[m] = Tear /\ \A i \in 1 .. Len(s) : s[i] = Tear => m <= i
                 /\ Records(s) = SubSeq(s, 1, m - 1)
<1>1. DOMAIN s = 1 .. Len(s) /\ Len(s) \in Nat
  OBVIOUS
<1>2. CASE ~Torn(s)
  <2>1. Records(s) = s
    BY <1>1, <1>2 DEF Records, Torn
  <2>2. \A i \in 1 .. Len(s) : s[i] \in S
    BY <1>2 DEF Torn
  <2>3. s \in Seq(S)
    BY <1>1, <2>2
  <2> QED
    BY <1>2, <2>1, <2>3
<1>3. CASE Torn(s)
  <2> DEFINE T == {i \in DOMAIN s : s[i] = Tear}
             m == Min(T)
  <2>1. T \subseteq Nat /\ T # {}
    BY <1>1, <1>3 DEF Torn
  <2>2. m \in T /\ \A i \in T : m <= i
    BY <2>1, LeastThere
  <2>3. Records(s) = SubSeq(s, 1, m - 1)
    BY <1>1, <1>3 DEF Records, Torn
  <2>4. m \in 1 .. Len(s) /\ s[m] = Tear
    BY <1>1, <2>2
  <2>5. \A i \in 1 .. Len(s) : s[i] = Tear => m <= i
    BY <1>1, <2>2
  <2> HIDE DEF m, T
  <2>6. \A i \in 1 .. m - 1 : s[i] \in S
    BY <2>4, <2>5
  <2>7. SubSeq(s, 1, m - 1) \in Seq(S)
    BY <2>4, <2>6
  <2> QED
    BY <1>3, <2>3, <2>4, <2>5, <2>7
<1> QED
  BY <1>2, <1>3

(* The first tear is one place only.                                       *)
LEMMA RecordsEnd ==
    ASSUME NEW S, Tear \notin S, NEW s \in Seq(S \cup {Tear}),
           NEW m \in 1 .. Len(s), s[m] = Tear, \A i \in 1 .. m - 1 : s[i] # Tear
    PROVE  Torn(s) /\ Records(s) = SubSeq(s, 1, m - 1)
<1>1. Torn(s)
  BY DEF Torn
<1>2. PICK k \in 1 .. Len(s) :
         /\ s[k] = Tear /\ \A i \in 1 .. Len(s) : s[i] = Tear => k <= i
         /\ Records(s) = SubSeq(s, 1, k - 1)
  BY <1>1, RecordsAre
<1>3. k <= m /\ ~(k \in 1 .. m - 1)
  BY <1>2
<1>4. k = m
  BY <1>3
<1> QED
  BY <1>1, <1>2, <1>4

(* What is added after a tear is not read, and a tear adds nothing.        *)
LEMMA RecordsAppend ==
    ASSUME NEW S, Tear \notin S, NEW s \in Seq(S \cup {Tear}), NEW x \in S \cup {Tear}
    PROVE  /\ Append(s, x) \in Seq(S \cup {Tear})
           /\ Torn(Append(s, x)) <=> Torn(s) \/ x = Tear
           /\ Torn(s) \/ x = Tear => Records(Append(s, x)) = Records(s)
           /\ ~Torn(s) /\ x # Tear => Records(Append(s, x)) = Append(s, x)
<1> DEFINE t == Append(s, x)
<1>1. /\ t \in Seq(S \cup {Tear}) /\ Len(t) = Len(s) + 1 /\ Len(s) \in Nat
      /\ \A i \in 1 .. Len(s) : t[i] = s[i]
      /\ t[Len(s) + 1] = x
  OBVIOUS
<1> HIDE DEF t
<1>2. Torn(t) <=> Torn(s) \/ x = Tear
  <2>1. ASSUME Torn(t) PROVE Torn(s) \/ x = Tear
    <3>1. PICK i \in 1 .. Len(t) : t[i] = Tear
      BY <2>1 DEF Torn
    <3>2. i \in 1 .. Len(s) \/ i = Len(s) + 1
      BY <1>1
    <3> QED
      BY <1>1, <3>1, <3>2 DEF Torn
  <2>2. ASSUME Torn(s) PROVE Torn(t)
    <3>1. PICK i \in 1 .. Len(s) : s[i] = Tear
      BY <2>2 DEF Torn
    <3>2. i \in 1 .. Len(t) /\ t[i] = Tear
      BY <1>1, <3>1
    <3> QED
      BY <3>2 DEF Torn
  <2>3. ASSUME x = Tear PROVE Torn(t)
    <3>1. Len(s) + 1 \in 1 .. Len(t) /\ t[Len(s) + 1] = Tear
      BY <1>1, <2>3
    <3> QED
      BY <3>1 DEF Torn
  <2> QED
    BY <2>1, <2>2, <2>3
<1>3. ASSUME Torn(s) PROVE Records(t) = Records(s)
  <2>1. PICK m \in 1 .. Len(s) :
           /\ s[m] = Tear /\ \A i \in 1 .. Len(s) : s[i] = Tear => m <= i
           /\ Records(s) = SubSeq(s, 1, m - 1)
    BY <1>3, RecordsAre
  <2>2. m \in 1 .. Len(t) /\ t[m] = Tear /\ \A i \in 1 .. m - 1 : t[i] # Tear
    <3>1. m \in 1 .. Len(t) /\ t[m] = Tear
      BY <1>1, <2>1
    <3>2. ASSUME NEW i \in 1 .. m - 1 PROVE t[i] # Tear
      <4>1. i \in 1 .. Len(s) /\ ~(m <= i)
        BY <1>1
      <4> QED
        BY <4>1, <1>1, <2>1
    <3> QED
      BY <3>1, <3>2
  <2>3. Records(t) = SubSeq(t, 1, m - 1)
    BY <1>1, <2>2, RecordsEnd
  <2>4. SubSeq(t, 1, m - 1) = SubSeq(s, 1, m - 1)
    <3>1. /\ Len(SubSeq(t, 1, m - 1)) = m - 1 /\ Len(SubSeq(s, 1, m - 1)) = m - 1
          /\ SubSeq(t, 1, m - 1) \in Seq(S \cup {Tear})
          /\ SubSeq(s, 1, m - 1) \in Seq(S \cup {Tear})
      BY <1>1
    <3>2. \A i \in 1 .. m - 1 : SubSeq(t, 1, m - 1)[i] = SubSeq(s, 1, m - 1)[i]
      BY <1>1
    <3> QED
      BY <3>1, <3>2, SeqEqual
  <2> QED
    BY <2>1, <2>3, <2>4
<1>4. ASSUME ~Torn(s), x = Tear PROVE Records(t) = Records(s)
  <2>1. Records(s) = s
    BY <1>4, RecordsAre
  <2>2. /\ Len(s) + 1 \in 1 .. Len(t) /\ t[Len(s) + 1] = Tear
        /\ \A i \in 1 .. (Len(s) + 1) - 1 : t[i] # Tear
    <3>1. \A i \in 1 .. Len(s) : t[i] # Tear
      BY <1>1, <1>4 DEF Torn
    <3> QED
      BY <1>1, <1>4, <3>1
  <2>3. Records(t) = SubSeq(t, 1, (Len(s) + 1) - 1)
    BY <1>1, <2>2, RecordsEnd
  <2>4. SubSeq(t, 1, (Len(s) + 1) - 1) = s
    <3>1. /\ Len(SubSeq(t, 1, (Len(s) + 1) - 1)) = Len(s)
          /\ SubSeq(t, 1, (Len(s) + 1) - 1) \in Seq(S \cup {Tear})
      BY <1>1
    <3>2. \A i \in 1 .. Len(s) : SubSeq(t, 1, (Len(s) + 1) - 1)[i] = s[i]
      BY <1>1
    <3> QED
      BY <3>1, <3>2, SeqEqual
  <2> QED
    BY <2>1, <2>3, <2>4
<1>5. ASSUME ~Torn(s), x # Tear PROVE Records(t) = t
  BY <1>1, <1>2, <1>5, RecordsAre
<1> QED
  BY <1>1, <1>2, <1>3, <1>4, <1>5 DEF t

\* The tables, the log and the numbers an edit e leaves of a view v.
After(v, e) == [tables |-> (v.tables \ e.del) \cup (e.add \ e.del),
                log |-> e.log, next |-> e.next, last |-> e.last]
ViewTypes == [tables : SUBSET Nat, log : Nat, next : Nat, last : Nat]

(* Replaying edits one by one.                                             *)
LEMMA ReplayAre ==
    /\ Replay(<<>>) = [tables |-> {}, log |-> 0, next |-> 0, last |-> 0]
    /\ \A s \in Seq(Edits) : Replay(s) \in ViewTypes
    /\ \A s \in Seq(Edits), e \in Edits : Replay(Append(s, e)) = After(Replay(s), e)
<1>1. Replay(<<>>) = [tables |-> {}, log |-> 0, next |-> 0, last |-> 0]
  BY DEF Replay, At, Edit
<1>2. ASSUME NEW s \in Seq(Edits) PROVE Replay(s) \in ViewTypes
  <2>1. /\ DOMAIN s = 1 .. Len(s) /\ Len(s) \in Nat
        /\ \A i \in 1 .. Len(s) : s[i] \in Edits
    OBVIOUS
  <2>2. At(s) \in [add : SUBSET Nat, del : SUBSET Nat, log : Nat, next : Nat, last : Nat]
    <3>1. CASE s = <<>>
      BY <3>1 DEF At, Edit
    <3>2. CASE s # <<>>
      <4>1. At(s) = s[Len(s)] /\ Len(s) \in 1 .. Len(s)
        BY <2>1, <3>2 DEF At
      <4> QED
        BY <2>1, <4>1 DEF Edits
    <3> QED
      BY <3>1, <3>2
  <2>3. Replay(s).tables \subseteq Nat
    <3>1. \A i \in 1 .. Len(s) : s[i].add \subseteq Nat
      BY <2>1 DEF Edits
    <3> QED
      BY <2>1, <3>1 DEF Replay
  <2> QED
    BY <2>2, <2>3 DEF Replay, ViewTypes
<1>3. ASSUME NEW s \in Seq(Edits), NEW e \in Edits
      PROVE  Replay(Append(s, e)) = After(Replay(s), e)
  <2> DEFINE t == Append(s, e)
             n == Len(s)
  <2>1. /\ n \in Nat /\ DOMAIN s = 1 .. n /\ DOMAIN t = 1 .. n + 1 /\ Len(t) = n + 1
        /\ \A i \in 1 .. n : t[i] = s[i]
        /\ t[n + 1] = e /\ t # <<>>
    OBVIOUS
  <2> HIDE DEF t, n
  <2>2. At(t) = e
    BY <2>1 DEF At
  <2> DEFINE In(q, u) == \E i \in DOMAIN q : /\ u \in q[i].add
                                            /\ \A j \in i .. Len(q) : u \notin q[j].del
  <2>3. \A q, u : u \in Replay(q).tables <=> In(q, u)
    BY DEF Replay
  <2>4. ASSUME NEW u PROVE In(t, u) <=> u \notin e.del /\ (In(s, u) \/ u \in e.add)
    <3>1. ASSUME In(t, u) PROVE u \notin e.del /\ (In(s, u) \/ u \in e.add)
      <4>1. PICK i \in 1 .. n + 1 : u \in t[i].add /\ \A j \in i .. n + 1 : u \notin t[j].del
        BY <2>1, <3>1
      <4>2. u \notin e.del
        BY <2>1, <4>1
      <4>3. CASE i = n + 1
        BY <2>1, <4>1, <4>2, <4>3
      <4>4. CASE i \in 1 .. n
        <5>1. u \in s[i].add /\ \A j \in i .. n : u \notin s[j].del
          BY <2>1, <4>1, <4>4
        <5> QED
          BY <2>1, <4>2, <4>4, <5>1 DEF n
      <4> QED
        BY <2>1, <4>3, <4>4
    <3>2. ASSUME u \notin e.del, In(s, u) PROVE In(t, u)
      <4>1. PICK i \in 1 .. n : u \in s[i].add /\ \A j \in i .. n : u \notin s[j].del
        BY <2>1, <3>2 DEF n
      <4>2. i \in 1 .. n + 1 /\ u \in t[i].add
        BY <2>1, <4>1
      <4>3. ASSUME NEW j \in i .. n + 1 PROVE u \notin t[j].del
        <5>1. j = n + 1 \/ j \in i .. n
          BY <2>1
        <5> QED
          BY <2>1, <3>2, <4>1, <5>1
      <4> QED
        BY <2>1, <4>2, <4>3
    <3>3. ASSUME u \notin e.del, u \in e.add PROVE In(t, u)
      <4>1. n + 1 \in DOMAIN t /\ u \in t[n + 1].add
        BY <2>1, <3>3
      <4>2. \A j \in n + 1 .. Len(t) : u \notin t[j].del
        BY <2>1, <3>3
      <4> QED
        BY <4>1, <4>2
    <3> QED
      BY <3>1, <3>2, <3>3
  <2> HIDE DEF In
  <2>5. Replay(t).tables = (Replay(s).tables \ e.del) \cup (e.add \ e.del)
    BY <2>3, <2>4
  <2> QED
    BY <2>2, <2>5 DEF Replay, After, t
<1> QED
  BY <1>1, <1>2, <1>3

(* A manifest with two edits.                                              *)
LEMMA ReplayTwo ==
    ASSUME NEW e \in Edits, NEW f \in Edits
    PROVE  /\ <<e, f>> \in Seq(Edits) /\ Len(<<e, f>>) = 2
           /\ Replay(<<e, f>>) = After(After(Replay(<<>>), e), f)
           /\ Replay(<<e>>) = After(Replay(<<>>), e)
<1>1. /\ <<>> \in Seq(Edits) /\ <<e>> \in Seq(Edits) /\ <<e, f>> \in Seq(Edits)
      /\ Len(<<e, f>>) = 2
  OBVIOUS
<1>2. Append(<<>>, e) = <<e>>
  <2>1. Append(<<>>, e) \in Seq(Edits) /\ Len(Append(<<>>, e)) = 1 /\ Append(<<>>, e)[1] = e
    <3>1. Len(<<>>) = 0
      OBVIOUS
    <3> QED
      BY <1>1, <3>1, AppendProperties
  <2>2. Len(<<e>>) = 1 /\ <<e>>[1] = e
    OBVIOUS
  <2> QED
    BY <1>1, <2>1, <2>2, SeqEqual
<1>3. Append(<<e>>, f) = <<e, f>>
  <2>1. /\ Append(<<e>>, f) \in Seq(Edits) /\ Len(Append(<<e>>, f)) = 2
        /\ Append(<<e>>, f)[1] = e /\ Append(<<e>>, f)[2] = f
    BY <1>1
  <2>2. Len(<<e, f>>) = 2 /\ <<e, f>>[1] = e /\ <<e, f>>[2] = f
    OBVIOUS
  <2>3. \A i \in 1 .. 2 : Append(<<e>>, f)[i] = <<e, f>>[i]
    BY <2>1, <2>2
  <2> QED
    BY <1>1, <2>1, <2>3, SeqEqual, Zenon
<1> QED
  BY <1>1, <1>2, <1>3, ReplayAre
\* A file that is a manifest, what is read of it, and what may be read after a power failure
\* (of all of it, or of what is synced).
IsManifest(g) == /\ g = [data |-> g.data, synced |-> g.synced]
                 /\ g.data \in Seq(Edits \cup {Tear}) /\ g.synced \in 0 .. Len(g.data)
ViewOf(g) == Replay(Records(g.data))
Cuts(g, all) == {k \in g.synced .. Len(g.data) : all \/ k = g.synced}
ViewsOf(g, all) == {Replay(Records(SubSeq(g.data, 1, k))) : k \in Cuts(g, all)}

(* Prefixes.                                                               *)
LEMMA Prefixes ==
    ASSUME NEW S, NEW s \in Seq(S), NEW k \in 0 .. Len(s)
    PROVE  /\ SubSeq(s, 1, k) \in Seq(S) /\ Len(SubSeq(s, 1, k)) = k
           /\ SubSeq(s, 1, Len(s)) = s
           /\ \A j \in 0 .. k : SubSeq(SubSeq(s, 1, k), 1, j) = SubSeq(s, 1, j)
           /\ \A x \in S : SubSeq(Append(s, x), 1, k) = SubSeq(s, 1, k)
<1> DEFINE p(j) == SubSeq(s, 1, j)
<1>1. ASSUME NEW t \in Seq(S), NEW j \in 0 .. Len(t)
      PROVE  /\ SubSeq(t, 1, j) \in Seq(S) /\ Len(SubSeq(t, 1, j)) = j
             /\ \A i \in 1 .. j : SubSeq(t, 1, j)[i] = t[i]
  OBVIOUS
<1>2. p(Len(s)) = s
  <2>1. Len(s) \in 0 .. Len(s)
    OBVIOUS
  <2> QED
    BY <1>1, <2>1, SeqEqual
<1>3. ASSUME NEW j \in 0 .. k PROVE SubSeq(p(k), 1, j) = p(j)
  <2>1. /\ p(k) \in Seq(S) /\ Len(p(k)) = k /\ j \in 0 .. Len(s)
        /\ \A i \in 1 .. k : p(k)[i] = s[i]
    BY <1>1
  <2>2. /\ SubSeq(p(k), 1, j) \in Seq(S) /\ Len(SubSeq(p(k), 1, j)) = j
        /\ \A i \in 1 .. j : SubSeq(p(k), 1, j)[i] = p(k)[i]
    BY <1>1, <2>1
  <2>3. /\ p(j) \in Seq(S) /\ Len(p(j)) = j /\ \A i \in 1 .. j : p(j)[i] = s[i]
    BY <1>1, <2>1
  <2>4. \A i \in 1 .. j : SubSeq(p(k), 1, j)[i] = p(j)[i]
    BY <2>1, <2>2, <2>3
  <2> QED
    BY <2>2, <2>3, <2>4, SeqEqual
<1>4. ASSUME NEW x \in S PROVE SubSeq(Append(s, x), 1, k) = p(k)
  <2>1. /\ Append(s, x) \in Seq(S) /\ Len(Append(s, x)) = Len(s) + 1
        /\ \A i \in 1 .. Len(s) : Append(s, x)[i] = s[i]
    OBVIOUS
  <2>2. k \in 0 .. Len(Append(s, x)) /\ Len(s) \in Nat
    BY <2>1
  <2>3. /\ SubSeq(Append(s, x), 1, k) \in Seq(S) /\ Len(SubSeq(Append(s, x), 1, k)) = k
        /\ \A i \in 1 .. k : SubSeq(Append(s, x), 1, k)[i] = Append(s, x)[i]
    BY <1>1, <2>1, <2>2
  <2>4. /\ p(k) \in Seq(S) /\ Len(p(k)) = k /\ \A i \in 1 .. k : p(k)[i] = s[i]
    BY <1>1
  <2>5. \A i \in 1 .. k : SubSeq(Append(s, x), 1, k)[i] = p(k)[i]
    BY <2>1, <2>3, <2>4
  <2> QED
    BY <2>3, <2>4, <2>5, SeqEqual
<1> QED
  BY <1>1, <1>2, <1>3, <1>4

(* What may be read of a manifest, and that all of it may.                 *)
LEMMA ViewsAre ==
    ASSUME DurableStoreNone, NEW g, IsManifest(g)
    PROVE  /\ ViewOf(g) \in ViewTypes /\ ViewOf(g) \in ViewsOf(g, TRUE)
           /\ \A a \in BOOLEAN : ViewsOf(g, a) \subseteq ViewTypes
           /\ ViewsOf(g, FALSE) \subseteq ViewsOf(g, TRUE)
           /\ g.synced = Len(g.data) => \A a \in BOOLEAN : ViewsOf(g, a) = {ViewOf(g)}
<1>1. ASSUME NEW s \in Seq(Edits \cup {Tear}) PROVE Replay(Records(s)) \in ViewTypes
  <2>1. Tear \notin Edits
    BY DEF DurableStoreNone
  <2>2. Records(s) \in Seq(Edits)
    BY <2>1, RecordsAre
  <2> QED
    BY <2>2, ReplayAre
<1>2. /\ g.data \in Seq(Edits \cup {Tear}) /\ Len(g.data) \in Nat
      /\ g.synced \in 0 .. Len(g.data) /\ SubSeq(g.data, 1, Len(g.data)) = g.data
  <2>1. Len(g.data) \in 0 .. Len(g.data) /\ g.data \in Seq(Edits \cup {Tear})
    BY DEF IsManifest
  <2> QED
    BY <2>1, Prefixes DEF IsManifest
<1>3. ViewOf(g) \in ViewsOf(g, TRUE)
  <2>1. Len(g.data) \in Cuts(g, TRUE)
    BY <1>2 DEF Cuts
  <2> QED
    BY <1>2, <2>1 DEF ViewsOf, ViewOf
<1>4. ASSUME NEW a \in BOOLEAN PROVE ViewsOf(g, a) \subseteq ViewTypes
  <2>1. ASSUME NEW k \in Cuts(g, a) PROVE Replay(Records(SubSeq(g.data, 1, k))) \in ViewTypes
    <3>1. k \in 0 .. Len(g.data)
      BY <1>2 DEF Cuts
    <3>2. SubSeq(g.data, 1, k) \in Seq(Edits \cup {Tear})
      BY <1>2, <3>1, Prefixes
    <3> QED
      BY <1>1, <3>2
  <2> QED
    BY <2>1 DEF ViewsOf
<1>5. ViewsOf(g, FALSE) \subseteq ViewsOf(g, TRUE)
  BY DEF ViewsOf, Cuts
<1>6. ASSUME g.synced = Len(g.data), NEW a \in BOOLEAN PROVE ViewsOf(g, a) = {ViewOf(g)}
  <2>1. Cuts(g, a) = {Len(g.data)}
    BY <1>2, <1>6 DEF Cuts
  <2> QED
    BY <1>2, <2>1 DEF ViewsOf, ViewOf
<1> QED
  BY <1>1, <1>2, <1>3, <1>4, <1>5, <1>6 DEF ViewOf

(* A record is added: only all of the manifest can be read in a new way.   *)
LEMMA ViewsAppended ==
    ASSUME DurableStoreNone, NEW g, IsManifest(g), NEW x \in Edits \cup {Tear}, NEW h,
           h = [data |-> Append(g.data, x), synced |-> g.synced]
    PROVE  /\ IsManifest(h)
           /\ Torn(h.data) <=> Torn(g.data) \/ x = Tear
           /\ x = Tear \/ Torn(g.data) => ViewOf(h) = ViewOf(g)
           /\ x # Tear /\ ~Torn(g.data) => ViewOf(h) = After(ViewOf(g), x)
           /\ ViewsOf(h, TRUE) \subseteq ViewsOf(g, TRUE) \cup {ViewOf(h)}
           /\ ViewsOf(h, FALSE) = ViewsOf(g, FALSE)
<1>1. /\ g.data \in Seq(Edits \cup {Tear}) /\ Len(g.data) \in Nat
      /\ g.synced \in 0 .. Len(g.data) /\ Tear \notin Edits
  BY DEF IsManifest, DurableStoreNone
<1>2. /\ h.data = Append(g.data, x) /\ h.synced = g.synced
      /\ h.data \in Seq(Edits \cup {Tear}) /\ Len(h.data) = Len(g.data) + 1
  BY <1>1
<1>3. IsManifest(h)
  BY <1>1, <1>2 DEF IsManifest
<1>4. /\ Torn(h.data) <=> Torn(g.data) \/ x = Tear
      /\ Torn(g.data) \/ x = Tear => Records(h.data) = Records(g.data)
      /\ ~Torn(g.data) /\ x # Tear => Records(h.data) = Append(g.data, x)
  BY <1>1, <1>2, RecordsAppend
<1>5. ASSUME x # Tear, ~Torn(g.data) PROVE ViewOf(h) = After(ViewOf(g), x)
  <2>1. Records(g.data) = g.data /\ Records(g.data) \in Seq(Edits) /\ x \in Edits
    BY <1>1, <1>5, RecordsAre
  <2> QED
    BY <1>4, <1>5, <2>1, ReplayAre DEF ViewOf
<1>6. \A k \in 0 .. Len(g.data) : SubSeq(h.data, 1, k) = SubSeq(g.data, 1, k)
  BY <1>1, <1>2, Prefixes
<1>7. ViewsOf(h, TRUE) \subseteq ViewsOf(g, TRUE) \cup {ViewOf(h)}
  <2>1. ASSUME NEW k \in Cuts(h, TRUE)
        PROVE  Replay(Records(SubSeq(h.data, 1, k))) \in ViewsOf(g, TRUE) \cup {ViewOf(h)}
    <3>1. CASE k = Len(h.data)
      <4>1. Len(h.data) \in 0 .. Len(h.data)
        BY <1>1, <1>2
      <4>2. SubSeq(h.data, 1, k) = h.data
        BY <1>2, <3>1, <4>1, Prefixes
      <4> QED
        BY <4>2 DEF ViewOf
    <3>2. CASE k # Len(h.data)
      <4>1. k \in Cuts(g, TRUE) /\ k \in 0 .. Len(g.data)
        BY <1>1, <1>2, <3>2 DEF Cuts
      <4> QED
        BY <1>6, <4>1 DEF ViewsOf
    <3> QED
      BY <3>1, <3>2
  <2> QED
    BY <2>1 DEF ViewsOf
<1>8. ViewsOf(h, FALSE) = ViewsOf(g, FALSE)
  <2>1. Cuts(h, FALSE) = {g.synced} /\ Cuts(g, FALSE) = {g.synced}
    BY <1>1, <1>2 DEF Cuts
  <2> QED
    BY <1>1, <1>6, <2>1 DEF ViewsOf
<1> QED
  BY <1>3, <1>4, <1>5, <1>7, <1>8 DEF ViewOf

(* A manifest that is synced, or cut, can be read in one way.              *)
LEMMA ViewsCut ==
    ASSUME DurableStoreNone, NEW g, IsManifest(g), NEW a \in BOOLEAN, NEW k \in Cuts(g, a), NEW h,
           h = [data |-> SubSeq(g.data, 1, k), synced |-> k]
    PROVE  /\ IsManifest(h) /\ ViewOf(h) \in ViewsOf(g, a)
           /\ \A b \in BOOLEAN : ViewsOf(h, b) = {ViewOf(h)}
           /\ k = Len(g.data) => ViewOf(h) = ViewOf(g)
<1>1. /\ g.data \in Seq(Edits \cup {Tear}) /\ Len(g.data) \in Nat
      /\ g.synced \in 0 .. Len(g.data) /\ k \in 0 .. Len(g.data)
  BY DEF IsManifest, Cuts
<1>2. /\ h.data = SubSeq(g.data, 1, k) /\ h.data \in Seq(Edits \cup {Tear})
      /\ Len(h.data) = k /\ h.synced = k
  BY <1>1, Prefixes
<1>3. IsManifest(h)
  BY <1>1, <1>2 DEF IsManifest
<1>4. ViewOf(h) \in ViewsOf(g, a)
  BY <1>2 DEF ViewOf, ViewsOf
<1>5. \A b \in BOOLEAN : ViewsOf(h, b) = {ViewOf(h)}
  BY <1>2, <1>3, ViewsAre
<1>6. k = Len(g.data) => ViewOf(h) = ViewOf(g)
  BY <1>1, <1>2, Prefixes DEF ViewOf
<1> QED
  BY <1>3, <1>4, <1>5, <1>6
-----------------------------------------------------------------------------
(* Tables and logs.                                                        *)

(* What tables hold.                                                       *)
LEMMA InTablesAre ==
    ASSUME NEW ts, NEW fs, NEW n
    PROVE  n \in InTables(ts, fs) <=>
              \E t \in ts : Table(t) \in DOMAIN fs /\ n \in fs[Table(t)].data[1]
  BY DEF InTables

(* Tables that are there before and after and stay what they are.          *)
LEMMA InTablesSame ==
    ASSUME NEW ts, NEW fs, NEW gs,
           \A t \in ts : /\ Table(t) \in DOMAIN fs /\ Table(t) \in DOMAIN gs
                         /\ gs[Table(t)] = fs[Table(t)]
    PROVE  InTables(ts, gs) = InTables(ts, fs)
<1>1. ASSUME NEW n PROVE n \in InTables(ts, gs) <=> n \in InTables(ts, fs)
  BY InTablesAre
<1> QED
  BY <1>1

(* Of two sets of tables together, of fewer, of none and of one.           *)
LEMMA InTablesUnion ==
    ASSUME NEW fs
    PROVE  /\ \A ts, us : InTables(ts \cup us, fs) = InTables(ts, fs) \cup InTables(us, fs)
           /\ \A ts, us : ts \subseteq us => InTables(ts, fs) \subseteq InTables(us, fs)
           /\ InTables({}, fs) = {}
           /\ \A t : Table(t) \in DOMAIN fs => InTables({t}, fs) = fs[Table(t)].data[1]
<1>1. ASSUME NEW ts, NEW us
      PROVE  InTables(ts \cup us, fs) = InTables(ts, fs) \cup InTables(us, fs)
  <2>1. ASSUME NEW n
        PROVE  n \in InTables(ts \cup us, fs) <=> n \in InTables(ts, fs) \cup InTables(us, fs)
    BY InTablesAre
  <2> QED
    BY <2>1
<1>2. ASSUME NEW ts, NEW us, ts \subseteq us
      PROVE  InTables(ts, fs) \subseteq InTables(us, fs)
  <2>1. ASSUME NEW n PROVE n \in InTables(ts, fs) => n \in InTables(us, fs)
    BY <1>2, InTablesAre
  <2> QED
    BY <2>1
<1>3. InTables({}, fs) = {}
  <2>1. ASSUME NEW n PROVE n \notin InTables({}, fs)
    BY InTablesAre
  <2> QED
    BY <2>1
<1>4. ASSUME NEW t, Table(t) \in DOMAIN fs PROVE InTables({t}, fs) = fs[Table(t)].data[1]
  <2>1. ASSUME NEW n PROVE n \in InTables({t}, fs) <=> n \in fs[Table(t)].data[1]
    BY <1>4, InTablesAre
  <2> QED
    BY <2>1
<1> QED
  BY <1>1, <1>2, <1>3, <1>4

\* A file that is a log, or a table.
IsLog(g) == /\ g = [data |-> g.data, synced |-> g.synced]
            /\ g.data \in Seq(Batches \cup {Tear}) /\ g.synced \in 0 .. Len(g.data)
IsTable(g) == \E b \in SUBSET Batches : g = [data |-> <<b>>, synced |-> 1]

\* The batches that are read from a log, and those of them that are synced.
ReadOf(g) == {Records(g.data)[i] : i \in DOMAIN Records(g.data)}
SyncedOf(g) == {g.data[i] : i \in 1 .. g.synced}

(* What is read of a log that is empty, or to which something is added.    *)
LEMMA ReadsAre ==
    ASSUME DurableStoreAssumption, DurableStoreNone, NEW g, IsLog(g)
    PROVE  /\ ReadOf(g) \subseteq Batches
           /\ ~Torn(g.data) => /\ ReadOf(g) = {g.data[i] : i \in 1 .. Len(g.data)}
                               /\ SyncedOf(g) \subseteq ReadOf(g)
           /\ g.data = <<>> => ReadOf(g) = {} /\ SyncedOf(g) = {} /\ ~Torn(g.data)
<1>1. /\ g.data \in Seq(Batches \cup {Tear}) /\ Len(g.data) \in Nat
      /\ g.synced \in 0 .. Len(g.data) /\ Tear \notin Batches
  BY DEF IsLog, DurableStoreNone, DurableStoreAssumption, Batches
<1>2. /\ Records(g.data) \in Seq(Batches) /\ (~Torn(g.data) => Records(g.data) = g.data)
  BY <1>1, RecordsAre
<1>3. ReadOf(g) \subseteq Batches
  <2>1. \A i \in DOMAIN Records(g.data) : Records(g.data)[i] \in Batches
    BY <1>2
  <2> QED
    BY <2>1 DEF ReadOf
<1>4. ASSUME ~Torn(g.data)
      PROVE  /\ ReadOf(g) = {g.data[i] : i \in 1 .. Len(g.data)}
             /\ SyncedOf(g) \subseteq ReadOf(g)
  <2>1. ReadOf(g) = {g.data[i] : i \in 1 .. Len(g.data)}
    BY <1>1, <1>2, <1>4 DEF ReadOf
  <2>2. \A i \in 1 .. g.synced : i \in 1 .. Len(g.data)
    BY <1>1
  <2> QED
    BY <2>1, <2>2 DEF SyncedOf
<1>5. ASSUME g.data = <<>> PROVE ReadOf(g) = {} /\ SyncedOf(g) = {} /\ ~Torn(g.data)
  <2>1. Len(g.data) = 0 /\ 1 .. Len(g.data) = {}
    BY <1>5
  <2>2. ~Torn(g.data)
    BY <2>1 DEF Torn
  <2> QED
    BY <1>4, <2>1, <2>2
<1> QED
  BY <1>3, <1>4, <1>5

\* Nothing but x is read in addition, unless it is a tear, and it is if the file is whole;
\* nothing is less safe.
Gains(g, h, x) ==
    /\ ReadOf(h) \subseteq ReadOf(g) \cup ({x} \ {Tear})
    /\ ~Torn(h.data) => ReadOf(h) = ReadOf(g) \cup {x}
    /\ SyncedOf(g) \subseteq SyncedOf(h)

(* A record is added to a log: it is read unless there is a tear, and safe *)
(* if the log is synced.                                                   *)
LEMMA ReadsAppended ==
    ASSUME DurableStoreAssumption, DurableStoreNone, NEW g, IsLog(g),
           NEW x \in Batches \cup {Tear}, NEW s, s \in {g.synced, Len(g.data) + 1}, NEW h,
           h = [data |-> Append(g.data, x), synced |-> s]
    PROVE  /\ IsLog(h)
           /\ Gains(g, h, x)
           /\ Torn(h.data) <=> Torn(g.data) \/ x = Tear
           /\ s = Len(g.data) + 1 => x \in SyncedOf(h)
<1>1. /\ g.data \in Seq(Batches \cup {Tear}) /\ Len(g.data) \in Nat
      /\ g.synced \in 0 .. Len(g.data) /\ Tear \notin Batches
  BY DEF IsLog, DurableStoreNone, DurableStoreAssumption, Batches
<1>2. /\ h.data = Append(g.data, x) /\ h.synced = s
      /\ h.data \in Seq(Batches \cup {Tear}) /\ Len(h.data) = Len(g.data) + 1
      /\ \A i \in 1 .. Len(g.data) : h.data[i] = g.data[i]
      /\ h.data[Len(g.data) + 1] = x
  BY <1>1
<1>3. IsLog(h)
  BY <1>1, <1>2 DEF IsLog
<1>4. /\ Torn(h.data) <=> Torn(g.data) \/ x = Tear
      /\ Torn(g.data) \/ x = Tear => Records(h.data) = Records(g.data)
  BY <1>1, <1>2, RecordsAppend
<1>5. ASSUME ~Torn(h.data) PROVE ReadOf(h) = ReadOf(g) \cup {x}
  <2>1. /\ ReadOf(g) = {g.data[i] : i \in 1 .. Len(g.data)}
        /\ ReadOf(h) = {h.data[i] : i \in 1 .. Len(h.data)}
    BY <1>3, <1>4, <1>5, ReadsAre
  <2>2. ReadOf(h) \subseteq ReadOf(g) \cup {x}
    <3> SUFFICES ASSUME NEW y \in ReadOf(h) PROVE y \in ReadOf(g) \/ y = x
      OBVIOUS
    <3>1. PICK i \in 1 .. Len(h.data) : y = h.data[i]
      BY <2>1
    <3>2. i \in 1 .. Len(g.data) \/ i = Len(g.data) + 1
      BY <1>1, <1>2
    <3>3. CASE i \in 1 .. Len(g.data)
      <4>1. y = g.data[i]
        BY <1>2, <3>1, <3>3
      <4> QED
        BY <2>1, <3>3, <4>1
    <3>4. CASE i = Len(g.data) + 1
      BY <1>2, <3>1, <3>4
    <3> QED
      BY <3>2, <3>3, <3>4
  <2>3. ReadOf(g) \cup {x} \subseteq ReadOf(h)
    <3>1. /\ \A i \in 1 .. Len(g.data) : i \in 1 .. Len(h.data)
          /\ Len(g.data) + 1 \in 1 .. Len(h.data)
      BY <1>1, <1>2
    <3>2. x \in ReadOf(h)
      <4>1. x = h.data[Len(g.data) + 1]
        BY <1>2
      <4> QED
        BY <2>1, <3>1, <4>1
    <3>3. ASSUME NEW y \in ReadOf(g) PROVE y \in ReadOf(h)
      <4>1. PICK i \in 1 .. Len(g.data) : y = g.data[i]
        BY <2>1
      <4>2. y = h.data[i] /\ i \in 1 .. Len(h.data)
        BY <1>2, <3>1, <4>1
      <4> QED
        BY <2>1, <4>2
    <3> QED
      BY <3>2, <3>3
  <2> QED
    BY <2>2, <2>3
<1>6. ReadOf(h) \subseteq ReadOf(g) \cup ({x} \ {Tear})
  <2>1. CASE Torn(h.data)
    BY <1>4, <2>1 DEF ReadOf
  <2>2. CASE ~Torn(h.data)
    BY <1>4, <1>5, <2>2
  <2> QED
    BY <2>1, <2>2
<1>7. SyncedOf(g) \subseteq SyncedOf(h)
  <2>1. \A i \in 1 .. g.synced : i \in 1 .. h.synced /\ h.data[i] = g.data[i]
    BY <1>1, <1>2
  <2> QED
    BY <2>1 DEF SyncedOf
<1>8. s = Len(g.data) + 1 => x \in SyncedOf(h)
  BY <1>1, <1>2 DEF SyncedOf
<1> QED
  BY <1>3, <1>4, <1>5, <1>6, <1>7, <1>8 DEF Gains

(* A whole log that is cut: less is read, and all that is, is safe.        *)
LEMMA ReadsCut ==
    ASSUME DurableStoreAssumption, DurableStoreNone, NEW g, IsLog(g),
           NEW k \in g.synced .. Len(g.data), NEW h,
           h = [data |-> SubSeq(g.data, 1, k), synced |-> k]
    PROVE  /\ IsLog(h)
           /\ ~Torn(g.data) => /\ ~Torn(h.data) /\ ReadOf(h) \subseteq ReadOf(g)
                               /\ SyncedOf(g) \subseteq SyncedOf(h) /\ SyncedOf(h) = ReadOf(h)
<1>1. /\ g.data \in Seq(Batches \cup {Tear}) /\ Len(g.data) \in Nat
      /\ g.synced \in 0 .. Len(g.data) /\ k \in 0 .. Len(g.data)
  BY DEF IsLog
<1>2. /\ h.data = SubSeq(g.data, 1, k) /\ h.synced = k
      /\ h.data \in Seq(Batches \cup {Tear}) /\ Len(h.data) = k
      /\ \A i \in 1 .. k : h.data[i] = g.data[i]
  BY <1>1
<1>3. IsLog(h)
  BY <1>1, <1>2 DEF IsLog
<1>4. ASSUME ~Torn(g.data)
      PROVE  /\ ~Torn(h.data) /\ ReadOf(h) \subseteq ReadOf(g)
             /\ SyncedOf(g) \subseteq SyncedOf(h) /\ SyncedOf(h) = ReadOf(h)
  <2>1. ~Torn(h.data)
    BY <1>1, <1>2, <1>4 DEF Torn
  <2>2. /\ ReadOf(g) = {g.data[i] : i \in 1 .. Len(g.data)}
        /\ ReadOf(h) = {h.data[i] : i \in 1 .. Len(h.data)}
    BY <1>3, <1>4, <2>1, ReadsAre
  <2>3. ReadOf(h) \subseteq ReadOf(g)
    <3>1. \A i \in 1 .. Len(h.data) : i \in 1 .. Len(g.data) /\ i \in 1 .. k
      BY <1>1, <1>2
    <3> QED
      BY <1>2, <2>2, <3>1
  <2>4. SyncedOf(h) = ReadOf(h)
    BY <1>2, <2>2 DEF SyncedOf
  <2>5. \A i \in 1 .. g.synced : i \in 1 .. k /\ h.data[i] = g.data[i]
    BY <1>1, <1>2
  <2>6. SyncedOf(g) \subseteq SyncedOf(h)
    BY <1>2, <2>5 DEF SyncedOf
  <2> QED
    BY <2>1, <2>3, <2>4, <2>6
<1> QED
  BY <1>3, <1>4

(* Files by their kind and number.                                         *)
LEMMA NumbersAre ==
    ASSUME NEW d, d.names \subseteq Files
    PROVE  /\ \A l : l \in Numbers("log", d) <=> Log(l) \in d.names
           /\ \A m : m \in Numbers("manifest", d) <=> Manifest(m) \in d.names
           /\ Numbers("log", d) \subseteq Nat /\ Numbers("manifest", d) \subseteq Nat
           /\ \A t : Table(t) \in d.names => t \in Nat
<1>1. \A f \in d.names : f = <<f[1], f[2]>> /\ f[2] \in Nat
  BY DEF Files
<1>2. ASSUME NEW kind PROVE \A n : n \in Numbers(kind, d) <=> <<kind, n>> \in d.names
  <2>1. ASSUME NEW n, n \in Numbers(kind, d) PROVE <<kind, n>> \in d.names
    BY <1>1, <2>1 DEF Numbers
  <2>2. ASSUME NEW n, <<kind, n>> \in d.names PROVE n \in Numbers(kind, d)
    BY <2>2 DEF Numbers
  <2> QED
    BY <2>1, <2>2
<1>3. ASSUME NEW kind PROVE Numbers(kind, d) \subseteq Nat
  BY <1>1 DEF Numbers
<1>4. \A t : Table(t) \in d.names => t \in Nat
  BY <1>1 DEF Table
<1> QED
  BY <1>2, <1>3, <1>4 DEF Log, Manifest
-----------------------------------------------------------------------------
(* The invariant that lets every store be opened again.                    *)

Dirs == earlier \cup {dir}
Current(d) == files[Manifest(d.current)]
Views(d) == ViewsOf(Current(d), d = dir \/ Journaled)
Latest == ViewOf(Current(dir))
Logs(d) == Numbers("log", d)
Manifests(d) == Numbers("manifest", d)

Directories == [names : SUBSET Files, current : Nat]
Stores ==
    [phase : {"closed", "logs", "manifest", "current", "up"},
     mem : SUBSET Batches, imm : SUBSET Batches, logfile : Nat, logNumber : Nat,
     version : SUBSET Nat, nextFile : Nat, manifest : Nat, lastSequence : Nat,
     bgError : BOOLEAN, pending : SUBSET Nat, held : SUBSET SUBSET Nat,
     writer : {None} \cup Writers, flush : Nat, merge : {None} \cup Merges,
     edit : {None} \cup Jobs, left : SUBSET Nat, found : SUBSET Nat]

\* Files are what their names say, and there for every state of the directory; the first
\* manifest is what NewDB makes, or nothing of it.
FileOf(kind, g) ==
    /\ kind = "log" => IsLog(g) /\ ("tear" \in LogFaults \/ ~Torn(g.data))
    /\ kind = "manifest" => IsManifest(g) /\ ("tear" \in JobFaults \/ ~Torn(g.data))
    /\ kind = "table" => IsTable(g)
FirstOf(g) == g.data \in {<<>>, <<Edit({}, {}, 0, 2, 0)>>}
FileTypes ==
    /\ disk \in Disks
    /\ DOMAIN files \subseteq Files
    /\ files = [f \in DOMAIN files |-> files[f]]
    /\ \A f \in DOMAIN files : FileOf(f[1], files[f])
    /\ Dirs \subseteq Directories
    /\ \A d \in Dirs : d.names \subseteq DOMAIN files
    /\ PowerFails \/ earlier = {}
    /\ Manifest(1) \in DOMAIN files => FirstOf(files[Manifest(1)])

\* The fields of the store, and those that mean nothing before it is open.
StoreTypes ==
    /\ db \in Stores
    /\ acked \subseteq Batches /\ safe \subseteq Batches /\ stops \in 0 .. MaxStops
    /\ db.mem \cap db.imm = {}
    /\ db.writer # None => db.writer.n \in Batches /\ db.writer.n = db.lastSequence + 1
    /\ db.pending \subseteq (IF db.edit = None THEN {db.flush} \ {0} ELSE {})
                      \cup (IF db.merge = None THEN {} ELSE {db.merge.out})
    /\ db.flush # 0 => db.imm # {}
    /\ IF Up THEN /\ db.left = {} /\ db.found = {}
                  /\ db.edit # None => \/ db.edit.for = "flush" /\ db.flush # 0
                                       \/ /\ db.edit.for = "merge" /\ db.merge # None
                                          /\ db.flush = 0
       ELSE /\ db.mem = {} /\ db.imm = {} /\ db.held = {} /\ db.pending = {}
            /\ db.writer = None /\ db.flush = 0 /\ db.merge = None /\ ~db.bgError
    /\ db.phase = "closed" => db = Closed
    /\ db.phase = "logs" => db.edit = None

\* What may be read of the manifest of directory d fits it: its tables are there, its
\* numbers are below those it gives out next, which are not beyond the latest.
Fits(d, v) ==
    /\ v.next = 0 => d.current = 1 /\ v.tables = {} /\ v.log = 0
    /\ v.next > 0 => d.current < v.next /\ v.log < v.next
    /\ v.next <= Latest.next
    /\ \A t \in v.tables : t < v.next /\ Table(t) \in d.names
    /\ \A n \in InTables(v.tables, files) : n <= v.last

\* A manifest beyond the current one was made together with a log that is later still.
NamedAt(d) ==
    IF d.current = 0 THEN d.names \subseteq {Manifest(1)}
    ELSE /\ Manifest(d.current) \in d.names
         /\ \A v \in Views(d) : Fits(d, v)
         /\ Latest.next > 0 => d.current < Latest.next
         /\ \A m \in Manifests(d) : m <= d.current \/ \E l \in Logs(d) : m < l
Named ==
    /\ \A d \in Dirs : NamedAt(d)
    /\ dir.current = 0 => earlier = {} /\ db.phase = "closed"
    /\ db.phase # "closed" => Latest.next > 0

\* A store that is being opened has numbers beyond those of the latest view.
Opening ==
    db.phase \in {"logs", "manifest", "current"} =>
       /\ db.manifest = Latest.next /\ db.logNumber = Latest.log
       /\ db.version = Latest.tables
       /\ Latest.next < db.nextFile /\ Latest.last <= db.lastSequence
       /\ \A t \in db.found : Latest.next < t /\ t < db.nextFile /\ Table(t) \in dir.names
       /\ \A n \in InTables(db.found, files) : n <= db.lastSequence
       /\ \A l \in Logs(dir) : l < db.nextFile \/ l \in db.left
       /\ db.left \subseteq LogsFrom(db.logNumber, dir)

\* Its new manifest and log are made.
Made ==
    db.phase \in {"manifest", "current"} =>
       /\ db.left = {} /\ db.nextFile = db.logfile + 1 /\ db.manifest < db.logfile
       /\ Log(db.logfile) \in dir.names /\ Manifest(db.manifest) \in dir.names
       /\ files[Manifest(db.manifest)].data =
             <<Edit(db.version, {}, 0, 0, 0),
               Edit(db.found, {}, db.logfile, db.nextFile, db.lastSequence)>>
       /\ files[Log(db.logfile)].data = <<>>
       /\ db.phase = "current" => files[Manifest(db.manifest)].synced = 2 /\ earlier = {}

\* Numbers that were given to tables which are not built yet.
Unbuilt ==
    (IF db.edit = None THEN {db.flush} \ {0} ELSE {})
      \cup (IF db.merge = None \/ (db.edit # None /\ db.edit.for = "merge") THEN {}
            ELSE {db.merge.out})

\* An open store is ahead of all that is in its directory, and what it uses is there.
Open ==
    Up =>
       /\ dir.current = db.manifest /\ 1 < db.manifest
       /\ Latest.next <= db.nextFile /\ Latest.last <= db.lastSequence
       /\ Log(db.logfile) \in dir.names
       /\ db.manifest < db.logfile /\ db.logNumber <= db.logfile /\ db.logfile < db.nextFile
       /\ \A l \in Logs(dir) : l <= db.logfile
       /\ \A m \in Manifests(dir) : m < db.logfile
       /\ \A t \in Version(db) : t < db.nextFile /\ Table(t) \in dir.names
       /\ \A n \in InTables(db.version, files) \cup db.mem \cup db.imm : n <= db.lastSequence
       /\ \A l \in Logs(dir) : \A n \in ReadOf(files[Log(l)]) :
             n <= db.lastSequence \/ (db.writer # None /\ n = db.writer.n)

\* What it has begun will not get into the way of what is there.
Working ==
    Up =>
       /\ \A t \in Unbuilt :
             /\ t < db.nextFile /\ t \notin Version(db)
             /\ \A d \in Dirs : d.current > 0 => \A v \in Views(d) : t \notin v.tables
       /\ db.merge # None => /\ db.merge.inputs \subseteq db.version
                             /\ \A t \in db.merge.inputs : t < db.merge.out
                             /\ 0 < db.merge.out /\ db.merge.out < db.nextFile
                             /\ db.merge.out # db.flush

\* The edit of the job that is done.
Editing ==
    Up /\ db.edit # None =>
       LET e == db.edit.is
       IN  /\ IF db.edit.for = "flush"
              THEN e.add = {db.flush} /\ e.del = {} /\ e.log = db.logfile
              ELSE e.add = {db.merge.out} /\ e.del = db.merge.inputs /\ e.log = db.logNumber
           /\ e.next <= db.nextFile /\ e.last <= db.lastSequence
           /\ e.log < e.next /\ db.manifest < e.next
           /\ \A t \in e.add : t < e.next /\ Table(t) \in dir.names
           /\ \A n \in InTables(e.add, files) : n <= e.last
           /\ ~db.edit.written =>
                 /\ Latest.next <= e.next /\ Latest.last <= e.last
                 /\ Journaled => \A d \in Dirs : \A t \in e.add :
                       d.current = db.manifest => Table(t) \in d.names

\* Unless there was an error, the manifest is whole and describes the version.
Exact ==
    Up /\ ~db.bgError =>
       /\ ~Torn(Current(dir).data)
       /\ Latest.tables = IF db.edit # None /\ db.edit.written
                          THEN (db.version \ db.edit.is.del) \cup db.edit.is.add
                          ELSE db.version

StoreInv ==
    /\ FileTypes /\ StoreTypes /\ Named /\ Opening /\ Made /\ Open /\ Working
    /\ Editing /\ Exact

-----------------------------------------------------------------------------
(* What follows from it.                                                   *)

(* The manifests that CURRENT may name are manifests.                      *)
LEMMA ViewsThere ==
    ASSUME DurableStoreNone, FileTypes, Named
    PROVE  /\ \A d \in Dirs : /\ d \in Directories /\ d.names \subseteq Files
                              /\ d.names \subseteq DOMAIN files
           /\ \A d \in Dirs : d.current > 0 =>
                 /\ Manifest(d.current) \in d.names /\ IsManifest(Current(d))
                 /\ Views(d) \subseteq ViewTypes
           /\ dir \in Dirs
           /\ dir.current > 0 => Latest \in ViewTypes /\ Latest \in Views(dir)
<1>1. \A d \in Dirs : /\ d \in Directories /\ d.names \subseteq Files
                      /\ d.names \subseteq DOMAIN files
  BY DEF FileTypes
<1>2. ASSUME NEW d \in Dirs, d.current > 0
      PROVE  /\ Manifest(d.current) \in d.names /\ IsManifest(Current(d))
             /\ Views(d) \subseteq ViewTypes
  <2>1. Manifest(d.current) \in d.names
    BY <1>1, <1>2 DEF Named, NamedAt, Directories
  <2>2. FileOf("manifest", Current(d))
    BY <1>1, <2>1 DEF FileTypes, Manifest, Current
  <2>3. IsManifest(Current(d))
    BY <2>2 DEF FileOf
  <2>4. Views(d) \subseteq ViewTypes
    BY <2>3, ViewsAre DEF Views
  <2> QED
    BY <2>1, <2>3, <2>4
<1>3. dir \in Dirs
  BY DEF Dirs
<1>4. dir.current > 0 => Latest \in ViewTypes /\ Latest \in Views(dir)
  <2>1. (dir = dir \/ Journaled) = TRUE
    OBVIOUS
  <2> QED
    BY <1>2, <1>3, <2>1, ViewsAre DEF Views, Latest
<1> QED
  BY <1>1, <1>2, <1>3, <1>4

(* A store that has once been open opens again.                            *)
LEMMA InvOpens ==
    ASSUME DurableStoreNone, StoreInv
    PROVE  StoreOpens
<1> USE DEF StoreInv
<1>1. CASE ~(db.phase = "closed" /\ dir.current > 1)
  BY <1>1 DEF StoreOpens, OpensUnlessGarbled, Openable
<1>2. CASE db.phase = "closed" /\ dir.current > 1
  <2>1. dir \in Dirs /\ dir \in Directories /\ dir.current > 0
    BY <1>2, ViewsThere DEF Directories
  <2>2. /\ Manifest(dir.current) \in dir.names /\ IsManifest(Current(dir))
        /\ Latest \in ViewTypes /\ Fits(dir, Latest)
    <3>1. Latest \in Views(dir) /\ Manifest(dir.current) \in dir.names
      BY <2>1, ViewsThere
    <3>2. \A v \in Views(dir) : Fits(dir, v)
      BY <2>1 DEF Named, NamedAt
    <3> QED
      BY <2>1, <3>1, <3>2, ViewsThere
  <2>3. Latest.next # 0 /\ \A t \in Latest.tables : Table(t) \in dir.names
    BY <1>2, <2>2 DEF Fits
  <2>4. Records(Current(dir).data) # <<>>
    <3>1. Replay(<<>>).next = 0
      BY ReplayAre
    <3> QED
      BY <2>3, <3>1 DEF Latest, ViewOf
  <2>5. ~Garbled(Current(dir).data) => ~Corrupt(files, dir)
    BY <2>2, <2>3, <2>4 DEF Corrupt, Latest, ViewOf, Current
  <2>6. "tear" \in JobFaults \/ ~Torn(Current(dir).data)
    <3>1. FileOf("manifest", Current(dir))
      BY <2>1, <2>2 DEF FileTypes, Manifest, Current
    <3> QED
      BY <3>1 DEF FileOf
  <2>7. Garbled(Current(dir).data) => Torn(Current(dir).data)
    <3>1. Len(Current(dir).data) \in Nat
      BY <2>2 DEF IsManifest
    <3> QED
      BY <3>1 DEF Garbled, Torn
  <2> QED
    BY <1>2, <2>2, <2>5, <2>6, <2>7 DEF StoreOpens, OpensUnlessGarbled, Openable, Current
<1> QED
  BY <1>1, <1>2

(* The types.                                                              *)
LEMMA InvTypes ==
    ASSUME StoreInv
    PROVE  TypeOK
<1> USE DEF StoreInv
<1>1. disk \in Disks /\ DOMAIN files \subseteq Files
  BY DEF FileTypes
<1>2. ASSUME NEW f \in DOMAIN files PROVE files[f].synced \in 0 .. Len(files[f].data)
  <2>1. f[1] \in {"log", "table", "manifest"} /\ FileOf(f[1], files[f])
    BY <1>1 DEF FileTypes, Files
  <2>2. CASE f[1] = "table"
    <3>1. PICK b \in SUBSET Batches : files[f] = [data |-> <<b>>, synced |-> 1]
      BY <2>1, <2>2 DEF FileOf, IsTable
    <3> QED
      BY <3>1
  <2>3. CASE f[1] # "table"
    BY <2>1, <2>3 DEF FileOf, IsLog, IsManifest
  <2> QED
    BY <2>2, <2>3
<1>3. \A d \in earlier \cup {dir} : d.names \subseteq DOMAIN files /\ d.current \in Nat
  BY DEF FileTypes, Dirs, Directories
<1>4. /\ db.phase \in {"closed", "logs", "manifest", "current", "up"}
      /\ db.mem \cup db.imm \cup acked \cup safe \subseteq Batches
      /\ db.mem \cap db.imm = {}
      /\ db.pending \subseteq {db.flush} \cup (IF db.merge = None THEN {} ELSE {db.merge.out})
      /\ stops \in 0 .. MaxStops
  BY DEF StoreTypes, Stores
<1>5. Up => dir.current = db.manifest
  BY DEF Open
<1> QED
  BY <1>1, <1>2, <1>3, <1>4, <1>5 DEF TypeOK

(* It holds in the beginning.                                              *)
LEMMA InvInit ==
    ASSUME DurableStoreAssumption, DurableStoreNone, Init
    PROVE  StoreInv
<1>1. /\ disk \in Disks /\ files = [f \in {} |-> None] /\ dir = [names |-> {}, current |-> 0]
      /\ earlier = {} /\ db = Closed /\ acked = {} /\ safe = {} /\ stops = 0
  BY DEF Init
<1>2. Dirs = {dir} /\ dir.current = 0 /\ dir.names = {} /\ DOMAIN files = {}
  BY <1>1 DEF Dirs
<1>3. db.phase = "closed" /\ ~Up
  BY <1>1 DEF Closed, Up
<1>4. FileTypes
  BY <1>1, <1>2 DEF FileTypes, Directories
<1>5. StoreTypes
  <2>1. db \in Stores
    BY <1>1 DEF Stores, Closed
  <2>2. 0 \in 0 .. MaxStops
    BY <1>1 DEF DurableStoreAssumption, MaxStops
  <2> QED
    BY <1>1, <1>3, <2>1, <2>2 DEF StoreTypes, Closed
<1>6. Named
  BY <1>2, <1>1, <1>3 DEF Named, NamedAt
<1> QED
  BY <1>3, <1>4, <1>5, <1>6 DEF StoreInv, Opening, Made, Open, Working, Editing, Exact

(* Tables and logs hold batches.                                           *)
LEMMA BatchesOnly ==
    ASSUME DurableStoreAssumption, DurableStoreNone, FileTypes
    PROVE  /\ \A ts : InTables(ts, files) \subseteq Batches
           /\ \A d \in Dirs : \A l \in Logs(d) :
                 /\ l \in Nat /\ Log(l) \in d.names /\ IsLog(files[Log(l)])
                 /\ Log(l) \in DOMAIN files
                 /\ ReadOf(files[Log(l)]) \subseteq Batches
                 /\ "tear" \in LogFaults \/ ~Torn(files[Log(l)].data)
           /\ Batches \subseteq Nat
<1>1. ASSUME NEW ts, NEW n \in InTables(ts, files) PROVE n \in Batches
  <2>1. PICK t \in ts : Table(t) \in DOMAIN files /\ n \in files[Table(t)].data[1]
    BY InTablesAre
  <2>2. IsTable(files[Table(t)])
    BY <2>1 DEF FileTypes, FileOf, Table
  <2>3. PICK b \in SUBSET Batches : files[Table(t)] = [data |-> <<b>>, synced |-> 1]
    BY <2>2 DEF IsTable
  <2>4. files[Table(t)].data[1] = b
    BY <2>3
  <2> QED
    BY <2>1, <2>4
<1>2. ASSUME NEW d \in Dirs, NEW l \in Logs(d)
      PROVE  /\ l \in Nat /\ Log(l) \in d.names /\ IsLog(files[Log(l)])
             /\ Log(l) \in DOMAIN files
             /\ ReadOf(files[Log(l)]) \subseteq Batches
             /\ "tear" \in LogFaults \/ ~Torn(files[Log(l)].data)
  <2>1. d.names \subseteq Files /\ d.names \subseteq DOMAIN files
    BY DEF FileTypes
  <2>2. l \in Nat /\ Log(l) \in d.names
    BY <2>1, NumbersAre DEF Logs
  <2>3. FileOf("log", files[Log(l)])
    BY <2>1, <2>2 DEF FileTypes, Log
  <2> QED
    BY <2>1, <2>2, <2>3, ReadsAre DEF FileOf
<1>3. Batches \subseteq Nat
  BY DEF Batches, DurableStoreAssumption
<1> QED
  BY <1>1, <1>2, <1>3

(* No number is given out twice.                                           *)
LEMMA InvAhead ==
    ASSUME DurableStoreAssumption, DurableStoreNone, StoreInv
    PROVE  NumbersAhead
<1> USE DEF StoreInv
<1>1. ASSUME db.phase \in {"logs", "manifest"} PROVE db.manifest # dir.current
  <2>1. db.manifest = Latest.next /\ Latest.next > 0
    <3>1. dir.current # 0
      BY <1>1 DEF Named
    <3>2. dir.current > 0
      BY <3>1, ViewsThere DEF Directories
    <3>3. Latest \in ViewTypes
      BY <3>2, ViewsThere
    <3> QED
      BY <1>1, <3>3 DEF Opening, Named, ViewTypes
  <2>2. dir.current < Latest.next
    <3>1. NamedAt(dir) /\ dir.current # 0
      BY <1>1, ViewsThere DEF Named
    <3> QED
      BY <2>1, <3>1 DEF NamedAt
  <2>3. dir.current \in Nat /\ Latest.next \in Nat
    <3>1. dir.current \in Nat /\ dir.current # 0
      BY <1>1, ViewsThere DEF Named, Directories
    <3> QED
      BY <3>1, ViewsThere DEF ViewTypes
  <2> QED
    BY <2>1, <2>2, <2>3
<1>2. ASSUME Up PROVE \A f \in dir.names :
                         f[2] >= db.nextFile => f[1] = "table" /\ f[2] \notin Version(db)
  <2> TAKE f \in dir.names
  <2>1. /\ f = <<f[1], f[2]>> /\ f[1] \in {"log", "table", "manifest"} /\ f[2] \in Nat
        /\ dir.names \subseteq Files
    BY ViewsThere DEF Files
  <2>2. /\ db.logfile < db.nextFile /\ db.logfile \in Nat /\ db.nextFile \in Nat
        /\ \A l \in Logs(dir) : l <= db.logfile
        /\ \A m \in Manifests(dir) : m < db.logfile
        /\ \A t \in Version(db) : t < db.nextFile
    BY <1>2 DEF Open, StoreTypes, Stores
  <2>3. CASE f[1] = "log"
    <3>1. f[2] \in Logs(dir)
      BY <2>1, <2>3, NumbersAre DEF Log, Logs
    <3> QED
      BY <2>1, <2>2, <3>1
  <2>4. CASE f[1] = "manifest"
    <3>1. f[2] \in Manifests(dir)
      BY <2>1, <2>4, NumbersAre DEF Manifest, Manifests
    <3> QED
      BY <2>1, <2>2, <3>1
  <2> QED
    BY <2>1, <2>2, <2>3, <2>4
<1>3. ASSUME Up, NEW n \in Visible \cup Recoverable
      PROVE  n <= db.lastSequence \/ (db.writer # None /\ n = db.writer.n)
  <2>1. CASE n \in Visible
    BY <1>3, <2>1 DEF Visible, Open
  <2>2. CASE n \in Recoverable
    <3>1. dir.current > 0 /\ dir \in Dirs
      BY <1>3, ViewsThere DEF Open, Directories
    <3>2. Latest \in Views(dir) /\ Fits(dir, Latest)
      BY <3>1, ViewsThere DEF Named, NamedAt
    <3>3. n \in InTables(Latest.tables, files)
             \/ \E l \in LogsFrom(Latest.log, dir) : n \in InLog(l, files)
      BY <2>2 DEF Recoverable, Latest, ViewOf, Current, Replay
    <3>4. CASE n \in InTables(Latest.tables, files)
      <4>1. n <= Latest.last /\ Latest.last <= db.lastSequence /\ Latest \in ViewTypes
        BY <1>3, <3>1, <3>2, <3>4, ViewsThere DEF Fits, Open
      <4>2. n \in Nat
        BY <3>4, BatchesOnly
      <4> QED
        BY <4>1, <4>2 DEF ViewTypes, StoreTypes, Stores
    <3>5. CASE \E l \in LogsFrom(Latest.log, dir) : n \in InLog(l, files)
      <4>1. PICK l \in Logs(dir) : n \in ReadOf(files[Log(l)])
        BY <3>5 DEF LogsFrom, InLog, ReadOf, Logs
      <4> QED
        BY <1>3, <4>1 DEF Open
    <3> QED
      BY <3>3, <3>4, <3>5
  <2> QED
    BY <1>3, <2>1, <2>2
<1> QED
  BY <1>1, <1>2, <1>3 DEF NumbersAhead

-----------------------------------------------------------------------------
(* Steps that leave the disk alone.                                        *)

(* Nothing changes in what may be read.                                    *)
LEMMA SameDisk ==
    ASSUME UNCHANGED <<disk, files, dir, earlier>>
    PROVE  /\ Dirs' = Dirs /\ Latest' = Latest /\ Current(dir)' = Current(dir)
           /\ \A d : Views(d)' = Views(d) /\ Current(d)' = Current(d)
           /\ \A d : Logs(d)' = Logs(d) /\ Manifests(d)' = Manifests(d)
           /\ FileTypes => FileTypes'
           /\ \A d : NamedAt(d) => NamedAt(d)'
           /\ Journaled' = Journaled /\ PowerFails' = PowerFails
           /\ LogFaults' = LogFaults /\ JobFaults' = JobFaults /\ MaxStops' = MaxStops
<1>1. /\ Journaled' = Journaled /\ PowerFails' = PowerFails
      /\ LogFaults' = LogFaults /\ JobFaults' = JobFaults /\ MaxStops' = MaxStops
  BY DEF Journaled, PowerFails, LogFaults, JobFaults, MaxStops
<1>2. Dirs' = Dirs /\ Latest' = Latest /\ Current(dir)' = Current(dir)
  BY DEF Dirs, Latest, Current
<1>3. \A d : Current(d)' = Current(d) /\ Logs(d)' = Logs(d) /\ Manifests(d)' = Manifests(d)
  BY DEF Current, Logs, Manifests
<1>4. \A d : Views(d)' = Views(d)
  BY <1>1, <1>3 DEF Views
<1>5. FileTypes => FileTypes'
  BY <1>1, <1>2 DEF FileTypes, FileOf
<1>6. ASSUME NEW d, NamedAt(d) PROVE NamedAt(d)'
  BY <1>2, <1>3, <1>4, <1>6 DEF NamedAt, Fits
<1> QED
  BY <1>1, <1>2, <1>3, <1>4, <1>5, <1>6

(* InsertInto.                                                             *)
LEMMA InsertIntoInv ==
    ASSUME DurableStoreAssumption, DurableStoreNone, StoreInv, UNCHANGED disk, InsertInto
    PROVE  StoreInv'
<1> USE DEF StoreInv
<1> DEFINE w == db.writer
<1>1. /\ Up /\ w # None /\ UNCHANGED <<disk, files, dir, earlier, stops>>
      /\ db' = [db EXCEPT !.writer = None, !.lastSequence = w.n,
                          !.mem = IF w.status = "ok" THEN @ \cup {w.n} ELSE @,
                          !.bgError = @ \/ w.status = "unsynced"]
      /\ acked' \subseteq acked \cup {w.n} /\ safe' \subseteq safe \cup {w.n}
  BY DEF InsertInto
<1>2. /\ db \in Stores /\ w \in Writers /\ w.n \in Batches /\ w.n = db.lastSequence + 1
      /\ w.n \in Nat /\ db.lastSequence \in Nat
  BY <1>1 DEF StoreTypes, Stores, Writers
<1>3. /\ db'.phase = db.phase /\ db'.imm = db.imm /\ db'.logfile = db.logfile
      /\ db'.logNumber = db.logNumber /\ db'.version = db.version
      /\ db'.nextFile = db.nextFile /\ db'.manifest = db.manifest
      /\ db'.lastSequence = w.n /\ db'.pending = db.pending /\ db'.held = db.held
      /\ db'.writer = None /\ db'.flush = db.flush /\ db'.merge = db.merge
      /\ db'.edit = db.edit /\ db'.left = db.left /\ db'.found = db.found
      /\ db'.mem \subseteq db.mem \cup {w.n} /\ (~db'.bgError => ~db.bgError)
  BY <1>1, <1>2 DEF Stores
<1>4. db' \in Stores
  <2>1. (IF w.status = "ok" THEN db.mem \cup {w.n} ELSE db.mem) \in SUBSET Batches
    BY <1>2 DEF Stores
  <2>2. \A m \in SUBSET Batches, q \in Nat, b \in BOOLEAN :
           [db EXCEPT !.writer = None, !.lastSequence = q, !.mem = m, !.bgError = b] \in Stores
    BY <1>2 DEF Stores
  <2>3. (db.bgError \/ w.status = "unsynced") \in BOOLEAN
    BY <1>2 DEF Stores
  <2> QED
    BY <1>1, <1>2, <2>1, <2>2, <2>3
<1>5. Up' /\ Version(db') = Version(db) /\ Unbuilt' = Unbuilt
  BY <1>1, <1>3 DEF Up, Version, Unbuilt
<1>6. FileTypes' /\ Named'
  BY <1>1, <1>3, SameDisk DEF Named
<1>7. w.n \notin db.imm
  BY <1>1, <1>2 DEF Open
<1>8. StoreTypes'
  <2>1. acked' \subseteq Batches' /\ safe' \subseteq Batches' /\ stops' \in 0 .. MaxStops'
    BY <1>1, <1>2, SameDisk DEF StoreTypes, Batches
  <2>2. db'.mem \cap db'.imm = {}
    BY <1>3, <1>7 DEF StoreTypes
  <2>3. /\ db'.pending \subseteq (IF db'.edit = None THEN {db'.flush} \ {0} ELSE {})
                           \cup (IF db'.merge = None THEN {} ELSE {db'.merge.out})
        /\ db'.flush # 0 => db'.imm # {}
        /\ db'.left = {} /\ db'.found = {}
        /\ db'.edit # None => \/ db'.edit.for = "flush" /\ db'.flush # 0
                              \/ /\ db'.edit.for = "merge" /\ db'.merge # None
                                 /\ db'.flush = 0
    BY <1>1, <1>3 DEF StoreTypes
  <2>4. db'.phase # "closed" /\ db'.phase # "logs"
    BY <1>5 DEF Up
  <2> QED
    BY <1>3, <1>4, <1>5, <2>1, <2>2, <2>3, <2>4 DEF StoreTypes
<1>9. Opening' /\ Made'
  BY <1>5 DEF Opening, Made, Up
<1>10. Open'
  <2>1. \A n \in InTables(db.version, files) \cup db'.mem \cup db.imm : n <= w.n
    <3>1. /\ InTables(db.version, files) \subseteq Nat /\ db.mem \subseteq Nat /\ db.imm \subseteq Nat
          /\ \A n \in InTables(db.version, files) \cup db.mem \cup db.imm : n <= db.lastSequence
      BY <1>1, <1>2, BatchesOnly DEF Open, Stores
    <3> QED
      BY <1>2, <1>3, <3>1
  <2>2. ASSUME NEW l \in Logs(dir), NEW n \in ReadOf(files[Log(l)]) PROVE n <= w.n
    <3>1. n <= db.lastSequence \/ n = w.n
      BY <1>1 DEF Open
    <3>2. n \in Nat
      BY BatchesOnly, ViewsThere
    <3> QED
      BY <1>2, <3>1, <3>2
  <2>3. Latest.last <= w.n
    <3>1. Latest \in ViewTypes /\ Latest.last <= db.lastSequence
      BY <1>1, ViewsThere DEF Open, Directories
    <3> QED
      BY <1>2, <3>1 DEF ViewTypes
  <2> QED
    BY <1>1, <1>3, <1>5, <2>1, <2>2, <2>3, SameDisk DEF Open
<1>11. Working'
  BY <1>1, <1>2, <1>3, <1>5, SameDisk DEF Working
<1>12. Editing'
  <2>1. \A e \in Edits : e.last <= db.lastSequence => e.last <= w.n
    BY <1>2 DEF Edits
  <2>2. db.edit # None => db.edit.is \in Edits
    BY <1>2 DEF Stores, Jobs
  <2> QED
    BY <1>1, <1>3, <1>5, <2>1, <2>2, SameDisk DEF Editing
<1>13. Exact'
  BY <1>1, <1>3, <1>5, SameDisk DEF Exact
<1> QED
  BY <1>6, <1>8, <1>9, <1>10, <1>11, <1>12, <1>13

(* The tables that are in use are numbers.                                 *)
LEMMA VersionsAre ==
    ASSUME StoreTypes
    PROVE  Version(db) \subseteq Nat
<1>1. db \in Stores
  BY DEF StoreTypes
<1> DEFINE base == IF db.merge = None THEN {} ELSE db.merge.base
           held == UNION db.held
           version == db.version
<1>2. version \subseteq Nat /\ held \subseteq Nat
  BY <1>1 DEF Stores
<1>3. base \subseteq Nat
  BY <1>1 DEF Stores, Merges
<1>4. Version(db) = version \cup held \cup base
  BY Zenon DEF Version
<1> HIDE DEF base, held, version
<1> QED
  BY <1>2, <1>3, <1>4

(* Readers take and return versions: nothing else changes.                 *)
LEMMA HeldInv ==
    ASSUME DurableStoreAssumption, DurableStoreNone, StoreInv,
           UNCHANGED <<disk, files, dir, earlier, acked, safe, stops>>,
           Up, NEW h \in SUBSET {db.version}, db' = [db EXCEPT !.held = h]
    PROVE  StoreInv'
<1> USE DEF StoreInv
<1>1. db \in Stores
  BY DEF StoreTypes
<1>2. h \in SUBSET SUBSET Nat
  BY <1>1 DEF Stores
<1>3. /\ db'.phase = db.phase /\ db'.imm = db.imm /\ db'.logfile = db.logfile
      /\ db'.logNumber = db.logNumber /\ db'.version = db.version
      /\ db'.nextFile = db.nextFile /\ db'.manifest = db.manifest
      /\ db'.lastSequence = db.lastSequence /\ db'.pending = db.pending /\ db'.held = h
      /\ db'.writer = db.writer /\ db'.flush = db.flush /\ db'.merge = db.merge
      /\ db'.edit = db.edit /\ db'.left = db.left /\ db'.found = db.found
      /\ db'.mem = db.mem /\ db'.bgError = db.bgError
  BY <1>1 DEF Stores
<1>4. db' \in Stores
  BY <1>1, <1>2 DEF Stores
<1>5. Up' /\ Version(db') \subseteq Version(db) /\ Unbuilt' = Unbuilt
  <2>1. UNION h \subseteq db.version
    OBVIOUS
  <2> QED
    BY <1>3, <2>1 DEF Up, Version, Unbuilt
<1>6. FileTypes' /\ Named'
  BY <1>3, SameDisk DEF Named
<1>7. StoreTypes'
  BY <1>3, <1>4, <1>5, SameDisk DEF StoreTypes, Batches, Up
<1>8. Opening' /\ Made'
  BY <1>5 DEF Opening, Made, Up
<1>9. Open'
  BY <1>3, <1>5, SameDisk DEF Open
<1>10. Working'
  BY <1>3, <1>5, SameDisk DEF Working
<1>11. Editing'
  BY <1>3, <1>5, SameDisk DEF Editing
<1>12. Exact'
  BY <1>3, <1>5, SameDisk DEF Exact
<1> QED
  BY <1>6, <1>7, <1>8, <1>9, <1>10, <1>11, <1>12

(* NewIterator and CleanupIteratorState.                                   *)
LEMMA IteratorInv ==
    ASSUME DurableStoreAssumption, DurableStoreNone, StoreInv, UNCHANGED disk,
           NewIterator \/ CleanupIteratorState
    PROVE  StoreInv'
<1>1. /\ UNCHANGED <<disk, files, dir, earlier, acked, safe, stops>> /\ Up
      /\ \/ db' = [db EXCEPT !.held = {db.version}]
         \/ db' = [db EXCEPT !.held = {}]
  BY DEF NewIterator, CleanupIteratorState, Unchanged
<1>2. {} \in SUBSET {db.version} /\ {db.version} \in SUBSET {db.version}
  OBVIOUS
<1> QED
  BY <1>1, <1>2, HeldInv

(* The process stops: what is on the disk is left as it is.                *)
LEMMA ProcessStopsInv ==
    ASSUME DurableStoreAssumption, DurableStoreNone, StoreInv, UNCHANGED disk, ProcessStops
    PROVE  StoreInv'
<1> USE DEF StoreInv
<1>1. /\ UNCHANGED <<disk, files, dir, earlier, acked, safe>> /\ db' = Closed
      /\ stops' = stops + 1 /\ stops < MaxStops
  BY DEF ProcessStops
<1>2. db'.phase = "closed" /\ ~Up'
  BY <1>1 DEF Closed, Up
<1>3. FileTypes' /\ Named'
  BY <1>1, <1>2, SameDisk DEF Named
<1>4. StoreTypes'
  <2>1. Closed \in Stores
    BY DEF Stores, Closed
  <2>2. stops' \in 0 .. MaxStops
    BY <1>1 DEF StoreTypes, FileTypes, DurableStoreAssumption, MaxStops
  <2> QED
    BY <1>1, <1>2, <2>1, <2>2, SameDisk DEF StoreTypes, Closed, Batches
<1> QED
  BY <1>2, <1>3, <1>4 DEF Opening, Made, Open, Working, Editing, Exact

(* The numbers in view: a file that is made next is none of them.          *)
LEMMA NextIsNew ==
    ASSUME DurableStoreAssumption, DurableStoreNone, StoreInv, Up
    PROVE  /\ db.nextFile \notin Version(db)
           /\ \A d \in Dirs : d.current > 0 => \A v \in Views(d) : db.nextFile \notin v.tables
<1> USE DEF StoreInv
<1>1. db.nextFile \in Nat /\ Version(db) \subseteq Nat
  BY VersionsAre DEF StoreTypes, Stores
<1>2. db.nextFile \notin Version(db)
  BY <1>1 DEF Open
<1>3. ASSUME NEW d \in Dirs, d.current > 0, NEW v \in Views(d) PROVE db.nextFile \notin v.tables
  <2>1. v \in ViewTypes /\ Fits(d, v)
    BY <1>3, ViewsThere DEF Named, NamedAt
  <2>2. Latest \in ViewTypes /\ Latest.next <= db.nextFile
    <3>1. dir.current > 0
      BY ViewsThere DEF Open, Directories
    <3> QED
      BY <3>1, ViewsThere DEF Open
  <2> QED
    BY <1>1, <2>1, <2>2 DEF Fits, ViewTypes
<1> QED
  BY <1>2, <1>3

(* BeginFlush.                                                             *)
LEMMA BeginFlushInv ==
    ASSUME DurableStoreAssumption, DurableStoreNone, StoreInv, UNCHANGED disk, BeginFlush
    PROVE  StoreInv'
<1> USE DEF StoreInv
<1> DEFINE t == db.nextFile
<1>1. /\ Up /\ db.imm # {} /\ db.flush = 0 /\ db.edit = None
      /\ UNCHANGED <<disk, files, dir, earlier, acked, safe, stops>>
      /\ db' = [db EXCEPT !.flush = t, !.nextFile = @ + 1, !.pending = @ \cup {t}]
  BY DEF BeginFlush, Unchanged
<1>2. db \in Stores /\ t \in Nat
  BY DEF StoreTypes, Stores
<1>3. /\ db'.phase = db.phase /\ db'.imm = db.imm /\ db'.logfile = db.logfile
      /\ db'.logNumber = db.logNumber /\ db'.version = db.version
      /\ db'.nextFile = t + 1 /\ db'.manifest = db.manifest
      /\ db'.lastSequence = db.lastSequence /\ db'.pending = db.pending \cup {t}
      /\ db'.held = db.held
      /\ db'.writer = db.writer /\ db'.flush = t /\ db'.merge = db.merge
      /\ db'.edit = db.edit /\ db'.left = db.left /\ db'.found = db.found
      /\ db'.mem = db.mem /\ db'.bgError = db.bgError
  BY <1>1, <1>2 DEF Stores
<1>4. db' \in Stores
  <2>1. t + 1 \in Nat /\ db.pending \cup {t} \in SUBSET Nat
    BY <1>2 DEF Stores
  <2>2. \A f \in Nat, n \in Nat, p \in SUBSET Nat :
           [db EXCEPT !.flush = f, !.nextFile = n, !.pending = p] \in Stores
    BY <1>2 DEF Stores
  <2>3. [db EXCEPT !.flush = t, !.nextFile = t + 1, !.pending = db.pending \cup {t}] \in Stores
    BY <1>2, <2>1, <2>2
  <2> QED
    BY <1>1, <2>3
<1>5. Up' /\ Version(db') = Version(db) /\ Unbuilt' \subseteq Unbuilt \cup {t}
  BY <1>1, <1>3 DEF Up, Version, Unbuilt
<1>6. FileTypes' /\ Named'
  BY <1>1, <1>3, SameDisk DEF Named
<1>7. StoreTypes'
  <2>1. acked' \subseteq Batches' /\ safe' \subseteq Batches' /\ stops' \in 0 .. MaxStops'
    BY <1>1, SameDisk DEF StoreTypes, Batches
  <2>2. db'.pending \subseteq (IF db'.edit = None THEN {db'.flush} \ {0} ELSE {})
                           \cup (IF db'.merge = None THEN {} ELSE {db'.merge.out})
    <3>1. db.pending \subseteq IF db.merge = None THEN {} ELSE {db.merge.out}
      BY <1>1 DEF StoreTypes
    <3>2. t # 0
      BY <1>1, <1>2 DEF Open, Stores
    <3> QED
      BY <1>1, <1>3, <3>1, <3>2
  <2> QED
    BY <1>1, <1>3, <1>4, <1>5, <2>1, <2>2 DEF StoreTypes, Up
<1>8. Opening' /\ Made'
  BY <1>5 DEF Opening, Made, Up
<1>9. Open'
  <2>1. Latest \in ViewTypes /\ db.logfile \in Nat /\ Version(db) \subseteq Nat
    BY <1>1, <1>2, VersionsAre, ViewsThere DEF Open, Directories, Stores
  <2>2. Latest.next <= t + 1 /\ db.logfile < t + 1 /\ \A u \in Version(db) : u < t + 1
    BY <1>1, <1>2, <2>1 DEF Open, ViewTypes
  <2> QED
    BY <1>1, <1>3, <1>5, <2>2, SameDisk DEF Open
<1>10. Working'
  <2>1. ASSUME NEW u \in Unbuilt'
        PROVE  /\ u < t + 1 /\ u \notin Version(db)
               /\ \A d \in Dirs : d.current > 0 => \A v \in Views(d) : u \notin v.tables
    <3>1. CASE u = t
      BY <1>1, <1>2, <3>1, NextIsNew
    <3>2. CASE u \in Unbuilt
      <4>1. u \in Nat
        BY <1>2, <3>2 DEF Unbuilt, Stores, Merges
      <4> QED
        BY <1>1, <1>2, <3>2, <4>1 DEF Working
    <3> QED
      BY <1>5, <3>1, <3>2
  <2>2. db.merge # None => /\ db.merge.inputs \subseteq db.version
                           /\ \A u \in db.merge.inputs : u < db.merge.out
                           /\ 0 < db.merge.out
                           /\ db.merge.out < t + 1 /\ db.merge.out # t
    <3>1. db.merge # None => db.merge.out \in Nat
      BY <1>2 DEF Stores, Merges
    <3> QED
      BY <1>1, <1>2, <3>1 DEF Working
  <2> QED
    BY <1>1, <1>3, <1>5, <2>1, <2>2, SameDisk DEF Working
<1>11. Editing'
  BY <1>1, <1>3 DEF Editing
<1>12. Exact'
  BY <1>1, <1>3, <1>5, SameDisk DEF Exact
<1> QED
  BY <1>6, <1>7, <1>8, <1>9, <1>10, <1>11, <1>12

(* BeginMerge.                                                             *)
LEMMA BeginMergeInv ==
    ASSUME DurableStoreAssumption, DurableStoreNone, StoreInv, UNCHANGED disk, BeginMerge
    PROVE  StoreInv'
<1> USE DEF StoreInv
<1> DEFINE t == db.nextFile
<1>1. PICK inputs \in SUBSET db.version :
         db' = [db EXCEPT !.merge = [inputs |-> inputs, base |-> db.version, out |-> t],
                          !.nextFile = @ + 1, !.pending = @ \cup {t}]
  BY DEF BeginMerge
<1> DEFINE m == [inputs |-> inputs, base |-> db.version, out |-> t]
<1>2. /\ Up /\ db.imm = {} /\ db.flush = 0 /\ db.edit = None /\ db.merge = None
      /\ UNCHANGED <<disk, files, dir, earlier, acked, safe, stops>>
  BY DEF BeginMerge, Unchanged
<1>3. db \in Stores /\ t \in Nat
  BY DEF StoreTypes, Stores
<1>4. m \in Merges /\ m # None /\ m.inputs = inputs /\ m.base = db.version /\ m.out = t
  BY <1>3 DEF Merges, Stores, DurableStoreNone
<1>5. /\ db'.phase = db.phase /\ db'.imm = db.imm /\ db'.logfile = db.logfile
      /\ db'.logNumber = db.logNumber /\ db'.version = db.version
      /\ db'.nextFile = t + 1 /\ db'.manifest = db.manifest
      /\ db'.lastSequence = db.lastSequence /\ db'.pending = db.pending \cup {t}
      /\ db'.held = db.held
      /\ db'.writer = db.writer /\ db'.flush = db.flush /\ db'.merge = m
      /\ db'.edit = db.edit /\ db'.left = db.left /\ db'.found = db.found
      /\ db'.mem = db.mem /\ db'.bgError = db.bgError
  BY <1>1, <1>3 DEF Stores
<1>6. db' \in Stores
  <2> HIDE DEF m
  <2>1. db' = [db EXCEPT !.merge = m, !.nextFile = @ + 1, !.pending = @ \cup {t}]
    BY <1>1 DEF m
  <2>2. t + 1 \in Nat /\ db.pending \cup {t} \in SUBSET Nat
    BY <1>3 DEF Stores
  <2> QED
    BY <1>3, <1>4, <2>1, <2>2 DEF Stores
<1> HIDE DEF m
<1>7. Up' /\ Version(db') = Version(db) /\ Unbuilt' \subseteq {t}
  <2>1. Version(db') = db.version \cup (UNION db.held) \cup m.base
    BY <1>4, <1>5 DEF Version
  <2>2. Version(db) = db.version \cup (UNION db.held)
    BY <1>2 DEF Version
  <2>3. Unbuilt' \subseteq {t}
    BY <1>2, <1>4, <1>5 DEF Unbuilt
  <2> QED
    BY <1>2, <1>4, <1>5, <2>1, <2>2, <2>3 DEF Up
<1>8. FileTypes' /\ Named'
  BY <1>2, <1>5, SameDisk DEF Named
<1>9. StoreTypes'
  <2>1. acked' \subseteq Batches' /\ safe' \subseteq Batches' /\ stops' \in 0 .. MaxStops'
    BY <1>2, SameDisk DEF StoreTypes, Batches
  <2>2. db'.pending \subseteq (IF db'.edit = None THEN {db'.flush} \ {0} ELSE {})
                           \cup (IF db'.merge = None THEN {} ELSE {db'.merge.out})
    <3>1. db.pending = {}
      BY <1>2 DEF StoreTypes
    <3> QED
      BY <1>4, <1>5, <3>1
  <2> QED
    BY <1>2, <1>5, <1>6, <1>7, <2>1, <2>2 DEF StoreTypes, Up
<1>10. Opening' /\ Made'
  BY <1>7 DEF Opening, Made, Up
<1>11. Open'
  <2>1. Latest \in ViewTypes /\ db.logfile \in Nat /\ Version(db) \subseteq Nat
    BY <1>2, <1>3, VersionsAre, ViewsThere DEF Open, Directories, Stores
  <2>2. Latest.next <= t + 1 /\ db.logfile < t + 1 /\ \A u \in Version(db) : u < t + 1
    BY <1>2, <1>3, <2>1 DEF Open, ViewTypes
  <2> QED
    BY <1>2, <1>5, <1>7, <2>2, SameDisk DEF Open
<1>12. Working'
  <2>1. ASSUME NEW u \in Unbuilt'
        PROVE  /\ u < t + 1 /\ u \notin Version(db)
               /\ \A d \in Dirs : d.current > 0 => \A v \in Views(d) : u \notin v.tables
    BY <1>2, <1>3, <1>7, NextIsNew
  <2>2. /\ inputs \subseteq db.version /\ \A u \in inputs : u < t
        /\ 0 < t /\ t < t + 1 /\ t # db.flush
    <3>1. inputs \subseteq Version(db)
      BY DEF Version
    <3>2. 1 < t
      BY <1>2, <1>3 DEF Open, Stores
    <3> QED
      BY <1>2, <1>3, <3>1, <3>2 DEF Open
  <2> QED
    BY <1>2, <1>4, <1>5, <1>7, <2>1, <2>2, SameDisk DEF Working
<1>13. Editing'
  BY <1>2, <1>5 DEF Editing
<1>14. Exact'
  BY <1>2, <1>5, <1>7, SameDisk DEF Exact
<1> QED
  BY <1>8, <1>9, <1>10, <1>11, <1>12, <1>13, <1>14

-----------------------------------------------------------------------------
(* Steps that write files.                                                 *)

(* What may be read of a manifest that is not written stays what it was, or*)
(* becomes less when its directory is no longer the one in use.            *)
LEMMA Carried ==
    ASSUME UNCHANGED disk, NEW d, NEW d0, d.current = d0.current,
           files'[Manifest(d.current)] = files[Manifest(d.current)],
           d = dir' => d0 = dir
    PROVE  Views(d)' \subseteq Views(d0)
<1>1. Journaled' = Journaled
  BY DEF Journaled
<1>2. Current(d)' = Current(d0)
  BY DEF Current
<1> DEFINE g == Current(d0)
<1>3. /\ Views(d)' = ViewsOf(g, d = dir' \/ Journaled)
      /\ Views(d0) = ViewsOf(g, d0 = dir \/ Journaled)
  BY <1>1, <1>2 DEF Views
<1>4. (d = dir' \/ Journaled) => (d0 = dir \/ Journaled)
  OBVIOUS
<1>5. \A a, b : (a => b) => ViewsOf(g, a) \subseteq ViewsOf(g, b)
  BY DEF ViewsOf, Cuts
<1> QED
  BY <1>3, <1>4, <1>5

(* A directory is as fit as the one it came from.                          *)
LEMMA StillNamed ==
    ASSUME NEW d, NEW d0, NamedAt(d0), d0.current \in Nat, d0.current > 0,
           d.current = d0.current,
           Manifest(d.current) \in d.names,
           Views(d)' \subseteq Views(d0), Views(d0) \subseteq ViewTypes,
           Latest.next \in Nat, Latest'.next \in Nat, Latest.next <= Latest'.next,
           \A v \in Views(d0) : \A t \in v.tables :
              Table(t) \in d.names /\ files'[Table(t)] = files[Table(t)],
           \A v \in Views(d0) : \A t \in v.tables :
              Table(t) \in DOMAIN files /\ Table(t) \in DOMAIN files',
           Latest'.next > 0 => d.current < Latest'.next,
           \A m \in Manifests(d) : m <= d.current \/ \E l \in Logs(d) : m < l
    PROVE  NamedAt(d)'
<1>1. ASSUME NEW v \in Views(d)' PROVE Fits(d, v)'
  <2>1. v \in Views(d0) /\ v \in ViewTypes /\ Fits(d0, v)
    BY DEF NamedAt
  <2>2. InTables(v.tables, files') = InTables(v.tables, files)
    BY <2>1, InTablesSame
  <2> QED
    BY <2>1, <2>2 DEF Fits, ViewTypes
<1> QED
  BY <1>1 DEF NamedAt, Manifests, Logs

\* The step changes nothing of what may be read, but for tables `new' that nothing names yet.
Carries(new) ==
    /\ UNCHANGED disk /\ FileTypes' /\ \A d \in Dirs' : NamedAt(d)'
    /\ dir'.current = dir.current /\ Latest' = Latest /\ dir.names \subseteq dir'.names
    /\ Logs(dir)' = Logs(dir) /\ Manifests(dir)' = Manifests(dir)
    /\ \A l \in Logs(dir) : files'[Log(l)] = files[Log(l)]
    /\ \A d \in Dirs' : \E d0 \in Dirs :
          /\ d.current = d0.current /\ d0.names \subseteq d.names
          /\ d.current > 0 => Views(d)' \subseteq Views(d0)
    /\ \A t : t \notin new /\ Table(t) \in dir.names => files'[Table(t)] = files[Table(t)]

(* A step that leaves the disk alone is one.                               *)
LEMMA AloneCarries ==
    ASSUME UNCHANGED <<disk, files, dir, earlier>>, StoreInv
    PROVE  Carries({})
<1>1. /\ Dirs' = Dirs /\ Latest' = Latest /\ FileTypes' /\ Logs(dir)' = Logs(dir)
      /\ Manifests(dir)' = Manifests(dir) /\ \A d : Views(d)' = Views(d)
  BY SameDisk DEF StoreInv, Logs, Manifests
<1>2. \A d \in Dirs' : NamedAt(d)'
  BY <1>1, SameDisk DEF StoreInv, Named
<1> QED
  BY <1>1, <1>2 DEF Carries

(* One file is written: the others are what they were.                     *)
LEMMA WithOne ==
    ASSUME NEW f, NEW data, NEW synced, FileTypes, UNCHANGED disk,
           files' = With(f, data, synced), f \in Files,
           FileOf(f[1], [data |-> data, synced |-> synced]),
           f = Manifest(1) => FirstOf([data |-> data, synced |-> synced]),
           Dirs' \subseteq Directories,
           \A d \in Dirs' : d.names \subseteq DOMAIN files \cup {f},
           PowerFails \/ earlier' = {}
    PROVE  /\ FileTypes' /\ DOMAIN files' = DOMAIN files \cup {f}
           /\ files'[f] = [data |-> data, synced |-> synced]
           /\ \A g \in DOMAIN files : g # f => files'[g] = files[g]
<1>1. /\ DOMAIN files' = DOMAIN files \cup {f}
      /\ files'[f] = [data |-> data, synced |-> synced]
      /\ \A g \in DOMAIN files : g # f => files'[g] = files[g]
      /\ files' = [g \in DOMAIN files' |-> files'[g]]
  BY DEF With
<1>2. \A g \in DOMAIN files' : FileOf(g[1], files'[g])
  BY <1>1 DEF FileTypes
<1>3. \A k, g : FileOf(k, g)' = FileOf(k, g)
  BY DEF FileOf, LogFaults, JobFaults, IsLog, IsManifest, IsTable, Batches, Torn
<1>4. DOMAIN files' \subseteq Files /\ disk' \in Disks /\ PowerFails' = PowerFails
  BY <1>1 DEF FileTypes, PowerFails
<1>5. \A g \in DOMAIN files' : FileOf(g[1], files[g])'
  BY <1>2 DEF FileOf, LogFaults, JobFaults, IsLog, IsManifest, IsTable, Batches, Torn
<1>6. Directories' = Directories /\ Files' = Files
  BY DEF Directories, Files
<1>7. Manifest(1) \in DOMAIN files' => FirstOf(files[Manifest(1)])'
  <2>1. Manifest(1) \in DOMAIN files' => FirstOf(files'[Manifest(1)])
    BY <1>1 DEF FileTypes
  <2> QED
    BY <2>1 DEF FirstOf, Edit, Manifest
<1> QED
  BY <1>1, <1>4, <1>5, <1>6, <1>7 DEF FileTypes

(* A table is built.                                                       *)
LEMMA NewTableCarries ==
    ASSUME DurableStoreAssumption, DurableStoreNone, StoreInv, UNCHANGED disk,
           NEW t \in Nat, NEW b \in SUBSET Batches, NewTable(t, b), dir.current > 0,
           \A d \in Dirs : d.current > 0 => \A v \in Views(d) : t \notin v.tables
    PROVE  /\ Carries({t}) /\ Table(t) \in dir'.names
           /\ files'[Table(t)] = [data |-> <<b>>, synced |-> 1]
           /\ Table(t) \in DOMAIN files'
           /\ Journaled => Dirs' = {dir'}
           /\ Current(dir)' = Current(dir)
<1> USE DEF StoreInv
<1>1. /\ files' = With(Table(t), <<b>>, 1)
      /\ dir' = [dir EXCEPT !.names = @ \cup {Table(t)}]
      /\ Past(IF Journaled THEN {} ELSE earlier \cup {dir})
  BY DEF NewTable
<1>2. /\ dir \in Directories /\ Dirs \subseteq Directories
      /\ \A d \in Dirs : d.names \subseteq DOMAIN files
  BY DEF FileTypes, Dirs
<1>3. /\ dir'.names = dir.names \cup {Table(t)} /\ dir'.current = dir.current
      /\ dir' \in Directories
  BY <1>1, <1>2 DEF Directories, Files, Table
<1>4. /\ earlier' \subseteq Dirs /\ dir' \notin earlier' /\ (PowerFails \/ earlier' = {})
      /\ Journaled => earlier' = {}
  BY <1>1 DEF Past, Dirs
<1>5. /\ Dirs' \subseteq Directories /\ \A d \in Dirs' : d.names \subseteq DOMAIN files \cup {Table(t)}
      /\ Journaled => Dirs' = {dir'}
      /\ \A d \in Dirs' : d = dir' \/ d \in Dirs
  BY <1>2, <1>3, <1>4 DEF Dirs
<1>6. FileOf("table", [data |-> <<b>>, synced |-> 1])
  BY DEF FileOf, IsTable
<1>7. /\ FileTypes' /\ DOMAIN files' = DOMAIN files \cup {Table(t)}
      /\ files'[Table(t)] = [data |-> <<b>>, synced |-> 1]
      /\ \A g \in DOMAIN files : g # Table(t) => files'[g] = files[g]
  <2>1. Table(t) \in Files /\ Table(t)[1] = "table" /\ Table(t) # Manifest(1)
    BY DEF Table, Files, Manifest
  <2>2. FileOf(Table(t)[1], [data |-> <<b>>, synced |-> 1])
    BY <1>6, <2>1
  <2>3. FileTypes /\ UNCHANGED disk
    OBVIOUS
  <2> QED
    BY <1>1, <1>4, <1>5, <2>1, <2>2, <2>3, WithOne, Zenon
<1>8. /\ \A n : Manifest(n) # Table(t) /\ Log(n) # Table(t)
      /\ \A u : Table(u) = Table(t) => u = t
  BY DEF Manifest, Log, Table
<1>9. Current(dir)' = Current(dir) /\ Latest' = Latest
  BY <1>2, <1>3, <1>7, <1>8, ViewsThere DEF Current, Latest
<1>10. Logs(dir)' = Logs(dir) /\ Manifests(dir)' = Manifests(dir)
  BY <1>3 DEF Logs, Manifests, Numbers, Table
<1>11. \A l \in Logs(dir) : files'[Log(l)] = files[Log(l)]
  BY <1>7, <1>8, BatchesOnly, ViewsThere
<1>12. \A u : u \notin {t} /\ Table(u) \in dir.names => files'[Table(u)] = files[Table(u)]
  BY <1>2, <1>7, <1>8, ViewsThere
<1>13. ASSUME NEW d \in Dirs'
       PROVE  /\ NamedAt(d)'
              /\ \E d0 \in Dirs : /\ d.current = d0.current /\ d0.names \subseteq d.names
                                  /\ d.current > 0 => Views(d)' \subseteq Views(d0)
  <2>1. PICK d0 \in Dirs : /\ d.current = d0.current /\ d0.names \subseteq d.names
                           /\ d.names \subseteq d0.names \cup {Table(t)}
                           /\ d = dir' => d0 = dir
                           /\ d # dir' => d = d0
    BY <1>3, <1>5, ViewsThere
  <2>2. d0.current \in Nat /\ NamedAt(d0)
    BY <1>2 DEF Directories, Named
  <2>3. CASE d.current = 0
    <3>1. d # dir' /\ d = d0
      BY <1>3, <2>1, <2>3
    <3>2. d.names \subseteq {Manifest(1)}
      BY <2>2, <2>3, <3>1 DEF NamedAt
    <3>3. NamedAt(d)'
      BY <2>3, <3>2 DEF NamedAt
    <3>4. ~(d.current > 0)
      BY <2>3
    <3> QED
      BY <2>1, <3>3, <3>4
  <2>4. CASE d.current # 0
    <3>1. d0.current > 0 /\ d.current > 0 /\ Manifest(d0.current) \in d0.names
      BY <2>1, <2>2, <2>4, ViewsThere
    <3>2. files'[Manifest(d.current)] = files[Manifest(d.current)]
      BY <1>2, <1>7, <1>8, <2>1, <3>1
    <3>3. Views(d)' \subseteq Views(d0) /\ Views(d0) \subseteq ViewTypes
      BY <2>1, <3>1, <3>2, Carried, ViewsThere
    <3>4. \A v \in Views(d0) : \A u \in v.tables :
             /\ Table(u) \in d.names /\ files'[Table(u)] = files[Table(u)]
             /\ Table(u) \in DOMAIN files /\ Table(u) \in DOMAIN files'
      <4> TAKE v \in Views(d0)
      <4> TAKE u \in v.tables
      <4>1. Table(u) \in d0.names /\ u # t
        BY <2>2, <3>1 DEF NamedAt, Fits
      <4> QED
        BY <1>2, <1>7, <1>8, <2>1, <4>1
    <3>5. \A m \in Manifests(d) : m <= d.current \/ \E l \in Logs(d) : m < l
      <4>1. Manifests(d) = Manifests(d0) /\ Logs(d) = Logs(d0)
        BY <2>1 DEF Manifests, Logs, Numbers, Table
      <4> QED
        BY <2>1, <2>2, <3>1, <4>1 DEF NamedAt
    <3>6. Latest.next \in Nat /\ Latest'.next = Latest.next
      BY <1>9, ViewsThere DEF ViewTypes
    <3>7. Latest'.next > 0 => d.current < Latest'.next
      BY <2>1, <2>2, <3>1, <3>6 DEF NamedAt
    <3>8. NamedAt(d)'
      BY <2>1, <2>2, <3>1, <3>3, <3>4, <3>5, <3>6, <3>7, StillNamed
    <3> QED
      BY <2>1, <3>3, <3>8
  <2> QED
    BY <2>3, <2>4
<1>14. Carries({t})
  <2>1. dir.names \subseteq dir'.names
    BY <1>3
  <2>2. \A d \in Dirs' : NamedAt(d)'
    BY <1>13, Zenon
  <2>3. ASSUME NEW d \in Dirs'
        PROVE  \E d0 \in Dirs : /\ d.current = d0.current /\ d0.names \subseteq d.names
                                /\ d.current > 0 => Views(d)' \subseteq Views(d0)
    BY <1>13
  <2> QED
    BY <1>3, <1>7, <1>9, <1>10, <1>11, <1>12, <2>1, <2>2, <2>3 DEF Carries
<1> QED
  BY <1>3, <1>5, <1>7, <1>9, <1>14

(* A record is added to the manifest of an open store.                     *)
LEMMA ManifestAppended ==
    ASSUME DurableStoreAssumption, DurableStoreNone, StoreInv, Up,
           UNCHANGED <<disk, dir, earlier>>, NEW x \in Edits \cup {Tear},
           x = Tear => "tear" \in JobFaults,
           files' = Appended(Manifest(db.manifest), x)
    PROVE  /\ FileTypes' /\ Dirs' = Dirs /\ DOMAIN files' = DOMAIN files
           /\ \A f \in DOMAIN files : f # Manifest(db.manifest) => files'[f] = files[f]
           /\ x = Tear \/ Torn(Current(dir).data) => Latest' = Latest
           /\ x # Tear /\ ~Torn(Current(dir).data) => Latest' = After(Latest, x)
           /\ Torn(Current(dir).data)' <=> Torn(Current(dir).data) \/ x = Tear
           /\ \A d \in Dirs : d.current > 0 =>
                 \/ Views(d)' \subseteq Views(d)
                 \/ /\ d.current = db.manifest /\ (d = dir \/ Journaled)
                    /\ Views(d)' \subseteq Views(d) \cup {Latest'}
<1> USE DEF StoreInv
<1> DEFINE f == Manifest(db.manifest)
           g == files[f]
           h == [data |-> Append(g.data, x), synced |-> g.synced]
<1>1. /\ dir.current = db.manifest /\ dir.current > 0 /\ f \in dir.names
      /\ f \in DOMAIN files /\ IsManifest(g) /\ g = Current(dir) /\ Latest = ViewOf(g)
  <2>1. dir.current = db.manifest /\ dir.current > 0
    BY ViewsThere DEF Open, Directories
  <2> QED
    BY <2>1, ViewsThere DEF Current, Latest
<1>2. /\ IsManifest(h)
      /\ Torn(h.data) <=> Torn(g.data) \/ x = Tear
      /\ x = Tear \/ Torn(g.data) => ViewOf(h) = ViewOf(g)
      /\ x # Tear /\ ~Torn(g.data) => ViewOf(h) = After(ViewOf(g), x)
      /\ ViewsOf(h, TRUE) \subseteq ViewsOf(g, TRUE) \cup {ViewOf(h)}
      /\ ViewsOf(h, FALSE) = ViewsOf(g, FALSE)
  <2>1. /\ DurableStoreNone /\ IsManifest(g) /\ x \in Edits \cup {Tear}
        /\ h = [data |-> Append(g.data, x), synced |-> g.synced]
    BY <1>1
  <2> HIDE DEF g, h
  <2> QED
    BY ONLY <2>1, ViewsAppended
<1>3. Dirs' = Dirs
  BY DEF Dirs
<1>4. /\ FileTypes' /\ DOMAIN files' = DOMAIN files /\ files'[f] = h
      /\ \A e \in DOMAIN files : e # f => files'[e] = files[e]
  <2>1. f \in Files /\ f[1] = "manifest" /\ f # Manifest(1)
    BY <1>1, ViewsThere DEF Manifest, Open
  <2>2. "tear" \in JobFaults \/ ~Torn(g.data)
    BY <1>1, <2>1 DEF FileTypes, FileOf
  <2>3. FileOf(f[1], h)
    BY <1>2, <2>1, <2>2 DEF FileOf
  <2>4. files' = With(f, Append(g.data, x), g.synced)
    BY DEF Appended
  <2>5. /\ Dirs' \subseteq Directories /\ \A d \in Dirs' : d.names \subseteq DOMAIN files \cup {f}
        /\ PowerFails \/ earlier' = {}
    BY <1>3 DEF FileTypes
  <2>6. FileTypes /\ UNCHANGED disk
    OBVIOUS
  <2> DEFINE data == Append(g.data, x)
             synced == g.synced
  <2>7. /\ files' = With(f, data, synced) /\ f \in Files
        /\ FileOf(f[1], [data |-> data, synced |-> synced])
        /\ f = Manifest(1) => FirstOf([data |-> data, synced |-> synced])
    BY <2>1, <2>3, <2>4
  <2> HIDE DEF f, g, data, synced
  <2>8. /\ FileTypes' /\ DOMAIN files' = DOMAIN files \cup {f}
        /\ files'[f] = [data |-> data, synced |-> synced]
        /\ \A e \in DOMAIN files : e # f => files'[e] = files[e]
    BY <2>5, <2>6, <2>7, WithOne
  <2> QED
    BY <1>1, <2>8 DEF data, synced
<1>5. Current(dir)' = h /\ Latest' = ViewOf(h)
  BY <1>1, <1>4 DEF Current, Latest
<1>6. ASSUME NEW d \in Dirs, d.current > 0
      PROVE  \/ Views(d)' \subseteq Views(d)
             \/ /\ d.current = db.manifest /\ (d = dir \/ Journaled)
                /\ Views(d)' \subseteq Views(d) \cup {Latest'}
  <2>1. CASE d.current # db.manifest
    <3>1. Manifest(d.current) # f
      BY <2>1 DEF Manifest
    <3>2. files'[Manifest(d.current)] = files[Manifest(d.current)]
      BY <1>4, <1>6, <3>1, ViewsThere
    <3> QED
      BY <1>6, <3>2, Carried
  <2>2. CASE d.current = db.manifest
    <3>1. Current(d) = g /\ Current(d)' = h /\ Journaled' = Journaled
      BY <1>4, <2>2 DEF Current, Journaled
    <3>2. CASE d = dir \/ Journaled
      <4>1. Views(d) = ViewsOf(g, TRUE) /\ Views(d)' = ViewsOf(h, TRUE)
        BY <3>1, <3>2 DEF Views
      <4> QED
        BY <1>2, <1>5, <2>2, <3>2, <4>1
    <3>3. CASE ~(d = dir \/ Journaled)
      <4>1. Views(d) = ViewsOf(g, FALSE) /\ Views(d)' = ViewsOf(h, FALSE)
        BY <3>1, <3>3 DEF Views
      <4> QED
        BY <1>2, <4>1
    <3> QED
      BY <3>2, <3>3
  <2> QED
    BY <2>1, <2>2
<1> QED
  BY <1>1, <1>2, <1>3, <1>4, <1>5, <1>6

(* A torn record at its end changes nothing of what is read of it.         *)
LEMMA TearCarries ==
    ASSUME DurableStoreAssumption, DurableStoreNone, StoreInv, Up,
           UNCHANGED <<disk, dir, earlier>>, "tear" \in JobFaults,
           files' = Appended(Manifest(db.manifest), Tear)
    PROVE  Carries({})
<1> USE DEF StoreInv
<1> DEFINE x == Tear
<1>1. /\ FileTypes' /\ Dirs' = Dirs /\ DOMAIN files' = DOMAIN files
      /\ \A f \in DOMAIN files : f # Manifest(db.manifest) => files'[f] = files[f]
      /\ Latest' = Latest
      /\ \A d \in Dirs : d.current > 0 =>
            \/ Views(d)' \subseteq Views(d)
            \/ /\ d.current = db.manifest /\ (d = dir \/ Journaled)
               /\ Views(d)' \subseteq Views(d) \cup {Latest'}
  BY ManifestAppended
<1>2. ASSUME NEW d \in Dirs, d.current > 0 PROVE Views(d)' \subseteq Views(d)
  <2>1. CASE d.current = db.manifest /\ (d = dir \/ Journaled)
    <3>1. Current(d) = Current(dir) /\ dir.current > 0
      BY <1>2, <2>1 DEF Current, Open
    <3>2. Views(d) = Views(dir)
      BY <2>1, <3>1 DEF Views
    <3> QED
      BY <1>1, <1>2, <3>1, <3>2, ViewsThere
  <2>2. CASE ~(d.current = db.manifest /\ (d = dir \/ Journaled))
    BY <1>1, <1>2, <2>2
  <2> QED
    BY <2>1, <2>2
<1>3. \A u, n : Table(u) # Manifest(n) /\ Log(u) # Manifest(n)
  BY DEF Table, Log, Manifest
<1>4. /\ \A u : Table(u) \in dir.names => files'[Table(u)] = files[Table(u)]
      /\ \A l \in Logs(dir) : files'[Log(l)] = files[Log(l)]
  BY <1>1, <1>3, ViewsThere, BatchesOnly
<1>5. ASSUME NEW d \in Dirs PROVE NamedAt(d)'
  <2>1. NamedAt(d) /\ d.current \in Nat
    BY ViewsThere DEF Named, Directories
  <2>2. CASE d.current = 0
    BY <2>1, <2>2 DEF NamedAt
  <2>3. CASE d.current # 0
    <3>1. d.current > 0 /\ Manifest(d.current) \in d.names /\ Views(d) \subseteq ViewTypes
      BY <2>1, <2>3, ViewsThere
    <3>2. Latest.next \in Nat /\ Latest'.next = Latest.next /\ dir.current > 0
      <4>1. dir.current > 0
        BY ViewsThere DEF Open, Directories
      <4> QED
        BY <1>1, <4>1, ViewsThere DEF ViewTypes
    <3>3. \A v \in Views(d) : \A u \in v.tables :
             /\ Table(u) \in d.names /\ files'[Table(u)] = files[Table(u)]
             /\ Table(u) \in DOMAIN files /\ Table(u) \in DOMAIN files'
      <4> TAKE v \in Views(d)
      <4> TAKE u \in v.tables
      <4>1. Table(u) \in d.names
        BY <2>1, <3>1 DEF NamedAt, Fits
      <4> QED
        BY <1>1, <1>3, <4>1, ViewsThere
    <3>4. \A m \in Manifests(d) : m <= d.current \/ \E l \in Logs(d) : m < l
      BY <2>1, <3>1 DEF NamedAt
    <3>5. Latest'.next > 0 => d.current < Latest'.next
      BY <2>1, <3>1, <3>2 DEF NamedAt
    <3> QED
      BY <1>2, <2>1, <3>1, <3>2, <3>3, <3>4, <3>5, StillNamed
  <2> QED
    BY <2>2, <2>3
<1>6. Logs(dir)' = Logs(dir) /\ Manifests(dir)' = Manifests(dir)
  BY DEF Logs, Manifests
<1> QED
  BY <1>1, <1>2, <1>4, <1>5, <1>6 DEF Carries

(* Tables that are there hold what they held.                              *)
LEMMA CarriesTables ==
    ASSUME FileTypes, NEW new, Carries(new), NEW ts, ts \cap new = {},
           \A t \in ts : Table(t) \in dir.names
    PROVE  InTables(ts, files') = InTables(ts, files)
<1>1. dir.names \subseteq DOMAIN files /\ dir'.names \subseteq DOMAIN files'
  <2>1. dir \in Dirs /\ dir' \in Dirs'
    BY DEF Dirs
  <2> QED
    BY <2>1 DEF FileTypes, Carries
<1>2. \A t \in ts : /\ Table(t) \in DOMAIN files /\ Table(t) \in DOMAIN files'
                    /\ files'[Table(t)] = files[Table(t)]
  BY <1>1 DEF Carries
<1> QED
  BY <1>2, InTablesSame

(* The store stays ahead of what is on the disk.                           *)
LEMMA CarriesOpen ==
    ASSUME DurableStoreAssumption, DurableStoreNone, StoreInv, Up,
           NEW new \in SUBSET Unbuilt, Carries(new),
           db'.phase = db.phase, db'.mem = db.mem, db'.imm = db.imm,
           db'.logfile = db.logfile, db'.logNumber = db.logNumber,
           db'.version = db.version, db'.nextFile = db.nextFile,
           db'.manifest = db.manifest, db'.lastSequence = db.lastSequence,
           db'.writer = db.writer, Version(db') \subseteq Version(db)
    PROVE  Open'
<1> USE DEF StoreInv
<1>1. FileTypes' /\ UNCHANGED disk /\ dir'.current = dir.current /\ Latest' = Latest
  BY DEF Carries
<1>2. InTables(db'.version, files') = InTables(db.version, files)
  <2>1. db.version \subseteq Version(db) /\ \A t \in Version(db) : Table(t) \in dir.names
    BY DEF Version, Open
  <2>2. db.version \cap new = {}
    BY <2>1 DEF Working
  <2> QED
    BY <2>1, <2>2, CarriesTables
<1>3. \A l \in Logs(dir)' : l \in Logs(dir) /\ files'[Log(l)] = files[Log(l)]
  BY DEF Carries
<1>4. Manifests(dir)' = Manifests(dir) /\ dir.names \subseteq dir'.names
  BY DEF Carries
<1>5. \A l \in Logs(dir)' : \A n \in ReadOf(files[Log(l)])' :
         n <= db'.lastSequence \/ (db'.writer # None /\ n = db'.writer.n)
  BY <1>3 DEF Open, Log
<1> QED
  BY <1>1, <1>2, <1>3, <1>4, <1>5 DEF Open, Log

(* What it has begun still does not get into its way.                      *)
LEMMA CarriesWorking ==
    ASSUME StoreInv, Up, NEW new, Carries(new),
           db'.version = db.version, db'.nextFile = db.nextFile,
           Version(db') \subseteq Version(db), Unbuilt' \subseteq Unbuilt,
           db'.merge = db.merge \/ db'.merge = None,
           db'.flush = db.flush \/ db'.flush = 0
    PROVE  Working'
<1> USE DEF StoreInv
<1>1. ASSUME NEW t \in Unbuilt'
      PROVE  /\ t < db'.nextFile /\ t \notin Version(db')
             /\ \A d \in Dirs' : d.current > 0 => \A v \in Views(d)' : t \notin v.tables
  <2>1. /\ t < db.nextFile /\ t \notin Version(db)
        /\ \A d \in Dirs : d.current > 0 => \A v \in Views(d) : t \notin v.tables
    BY DEF Working
  <2>2. \A d \in Dirs' : \E d0 \in Dirs :
           d.current = d0.current /\ (d.current > 0 => Views(d)' \subseteq Views(d0))
    BY DEF Carries
  <2> QED
    BY <2>1, <2>2
<1>2. db'.merge # None => /\ db'.merge = db.merge /\ db.merge.inputs \subseteq db.version
                          /\ \A t \in db.merge.inputs : t < db.merge.out
                          /\ 0 < db.merge.out /\ db.merge.out < db.nextFile
                          /\ db.merge.out # db'.flush
  <2>1. db.merge # None => db.merge.out \in Nat
    BY DEF Stores, Merges, StoreTypes
  <2> QED
    BY <2>1 DEF Working
<1> QED
  BY <1>1, <1>2 DEF Working

(* A job that fails leaves a store that has an error.                      *)
LEMMA GivesUpInv ==
    ASSUME DurableStoreAssumption, DurableStoreNone, StoreInv, Up,
           UNCHANGED <<acked, safe, stops>>,
           NEW new \in SUBSET Unbuilt, Carries(new),
           db' \in Stores,
           db'.phase = db.phase, db'.mem = db.mem, db'.imm = db.imm,
           db'.logfile = db.logfile, db'.logNumber = db.logNumber,
           db'.version = db.version, db'.nextFile = db.nextFile,
           db'.manifest = db.manifest, db'.lastSequence = db.lastSequence,
           db'.held = db.held, db'.writer = db.writer, db'.left = db.left,
           db'.found = db.found, db'.edit = None, db'.flush = 0, db'.bgError,
           db'.merge = db.merge \/ db'.merge = None,
           db'.merge # None => ~(db.edit # None /\ db.edit.for = "merge"),
           db'.pending \subseteq IF db'.merge = None THEN {} ELSE {db'.merge.out}
    PROVE  StoreInv'
<1> USE DEF StoreInv
<1>1. db \in Stores /\ dir.current > 0 /\ Version(db) \subseteq Nat
  BY VersionsAre, ViewsThere DEF StoreTypes, Open, Directories
<1>2. Up' /\ Version(db') \subseteq Version(db)
  BY DEF Up, Version
<1>3. Unbuilt' \subseteq Unbuilt
  BY DEF Unbuilt
<1>4. FileTypes' /\ UNCHANGED disk /\ dir'.current = dir.current /\ Latest' = Latest
  BY DEF Carries
<1>5. Named'
  <2>1. \A d \in Dirs' : NamedAt(d)'
    BY DEF Carries
  <2> QED
    BY <1>1, <1>2, <1>4, <2>1 DEF Named, Up
<1>6. StoreTypes'
  <2>1. acked' \subseteq Batches' /\ safe' \subseteq Batches' /\ stops' \in 0 .. MaxStops'
    BY <1>4 DEF StoreTypes, Batches, MaxStops
  <2>2. db'.phase # "closed" /\ db'.phase # "logs" /\ db'.phase = "up"
    BY DEF Up
  <2> QED
    BY <1>2, <2>1, <2>2 DEF StoreTypes
<1>7. Opening' /\ Made'
  BY <1>2 DEF Opening, Made, Up
<1>8. Open'
  BY <1>2, CarriesOpen
<1>9. Working'
  BY <1>2, <1>3, CarriesWorking
<1>10. Editing' /\ Exact'
  BY DEF Editing, Exact
<1> QED
  BY <1>5, <1>4, <1>6, <1>7, <1>8, <1>9, <1>10

(* An edit that fails, whatever it has left of itself in the manifest.     *)
LEMMA EditFailsInv ==
    ASSUME DurableStoreAssumption, DurableStoreNone, StoreInv, Up,
           UNCHANGED <<acked, safe, stops>>, Carries({}),
           db.edit # None, EditFails
    PROVE  StoreInv'
<1> USE DEF StoreInv
<1> DEFINE merge == IF db.edit.for = "merge" THEN None ELSE db.merge
           pending == IF db.edit.for = "merge" THEN db.pending \ {db.merge.out}
                      ELSE db.pending
<1>1. db \in Stores /\ merge \in {None} \cup Merges /\ pending \in SUBSET Nat
  BY DEF StoreTypes, Stores
<1>2. db' = [db EXCEPT !.edit = None, !.flush = 0, !.merge = merge, !.pending = pending,
                       !.bgError = TRUE]
  BY <1>1 DEF EditFails, Over, Stores
<1>3. pending \subseteq IF merge = None THEN {} ELSE {merge.out}
  BY DEF StoreTypes
<1>4. (merge = db.merge \/ merge = None) /\ (merge # None => db.edit.for # "merge")
  OBVIOUS
<1> HIDE DEF merge, pending
<1>5. db' \in Stores
  BY <1>1, <1>2 DEF Stores
<1>6. /\ db'.phase = db.phase /\ db'.mem = db.mem /\ db'.imm = db.imm
      /\ db'.logfile = db.logfile /\ db'.logNumber = db.logNumber
      /\ db'.version = db.version /\ db'.nextFile = db.nextFile
      /\ db'.manifest = db.manifest /\ db'.lastSequence = db.lastSequence
      /\ db'.held = db.held /\ db'.writer = db.writer /\ db'.left = db.left
      /\ db'.found = db.found /\ db'.edit = None /\ db'.flush = 0 /\ db'.bgError
      /\ db'.merge = merge /\ db'.pending = pending
  BY <1>1, <1>2 DEF Stores
<1>7. {} \in SUBSET Unbuilt
  OBVIOUS
<1> QED
  BY <1>3, <1>4, <1>5, <1>6, <1>7, GivesUpInv

(* A table is built and its edit is made.                                  *)
LEMMA BuiltInv ==
    ASSUME DurableStoreAssumption, DurableStoreNone, StoreInv, Up, UNCHANGED disk,
           UNCHANGED <<acked, safe, stops>>, db.edit = None,
           NEW t \in Unbuilt, NEW b \in SUBSET Batches, NewTable(t, b),
           \A n \in b : n <= db.lastSequence,
           NEW job \in {"flush", "merge"}, NEW e \in Edits, NEW p \in SUBSET Nat,
           db' = [db EXCEPT !.pending = p, !.edit = Edited(job, e)],
           p \subseteq IF db.merge = None THEN {} ELSE {db.merge.out},
           e.add = {t}, e.next = db.nextFile, e.last = db.lastSequence,
           IF job = "flush" THEN t = db.flush /\ e.del = {} /\ e.log = db.logfile
           ELSE /\ db.merge # None /\ db.flush = 0 /\ t = db.merge.out
                /\ e.del = db.merge.inputs /\ e.log = db.logNumber
    PROVE  StoreInv'
<1> USE DEF StoreInv
<1> DEFINE j == Edited(job, e)
<1>1. db \in Stores /\ dir.current > 0 /\ Version(db) \subseteq Nat
  BY VersionsAre, ViewsThere DEF StoreTypes, Open, Directories
<1>2. /\ j \in Jobs /\ j # None /\ j.for = job /\ j.is = e /\ ~j.written
  <2>1. j \in Jobs /\ j.for = job /\ j.is = e /\ ~j.written
    BY DEF Edited, Jobs
  <2> HIDE DEF j
  <2> QED
    BY <2>1 DEF DurableStoreNone
<1> HIDE DEF j
<1>3. db' = [db EXCEPT !.pending = p, !.edit = j]
  BY DEF j
<1>4. /\ db'.phase = db.phase /\ db'.mem = db.mem /\ db'.imm = db.imm
      /\ db'.logfile = db.logfile /\ db'.logNumber = db.logNumber
      /\ db'.version = db.version /\ db'.nextFile = db.nextFile
      /\ db'.manifest = db.manifest /\ db'.lastSequence = db.lastSequence
      /\ db'.held = db.held /\ db'.writer = db.writer /\ db'.left = db.left
      /\ db'.found = db.found /\ db'.edit = j /\ db'.flush = db.flush
      /\ db'.merge = db.merge /\ db'.pending = p /\ db'.bgError = db.bgError
  <2>1. db \in Stores /\ db' = [db EXCEPT !.pending = p, !.edit = j]
    BY <1>1, <1>3
  <2> QED
    BY ONLY <2>1 DEF Stores
<1>5. db' \in Stores
  <2>1. j \in {None} \cup Jobs
    BY <1>2
  <2>2. \A q \in SUBSET Nat, k \in {None} \cup Jobs :
           [db EXCEPT !.pending = q, !.edit = k] \in Stores
    <3>1. db \in Stores
      BY <1>1
    <3> QED
      BY ONLY <3>1 DEF Stores
  <2>3. Edited(job, e) \in {None} \cup Jobs
    BY <2>1 DEF j
  <2> QED
    BY <2>2, <2>3
<1>6. Up' /\ Version(db') = Version(db) /\ Unbuilt' \subseteq Unbuilt
  BY <1>2, <1>4 DEF Up, Version, Unbuilt
<1>7. t \in Nat /\ t < db.nextFile
  BY <1>1 DEF Unbuilt, Stores, Merges, Working
<1>8. /\ Carries({t}) /\ Table(t) \in dir'.names /\ Table(t) \in DOMAIN files'
      /\ files'[Table(t)] = [data |-> <<b>>, synced |-> 1]
      /\ Journaled => Dirs' = {dir'}
      /\ Current(dir)' = Current(dir)
  <2>1. \A d \in Dirs : d.current > 0 => \A v \in Views(d) : t \notin v.tables
    BY DEF Working
  <2> QED
    BY <1>1, <1>7, <2>1, NewTableCarries
<1>9. FileTypes' /\ dir'.current = dir.current /\ Latest' = Latest /\ {t} \in SUBSET Unbuilt
  BY <1>8 DEF Carries
<1>10. Named'
  <2>1. \A d \in Dirs' : NamedAt(d)'
    BY <1>8 DEF Carries
  <2> QED
    BY <1>1, <1>6, <1>9, <2>1 DEF Named, Up
<1>11. StoreTypes'
  <2>1. acked' \subseteq Batches' /\ safe' \subseteq Batches' /\ stops' \in 0 .. MaxStops'
    BY DEF StoreTypes, Batches, MaxStops
  <2>2. db'.phase # "closed" /\ db'.phase # "logs"
    BY <1>6 DEF Up
  <2>3. db.left = {} /\ db.found = {}
    BY DEF StoreTypes
  <2>4. \/ j.for = "flush" /\ db.flush # 0
        \/ j.for = "merge" /\ db.merge # None /\ db.flush = 0
    <3>1. CASE job = "flush"
      BY <1>2, <3>1 DEF Unbuilt, Working, Stores, Merges
    <3>2. CASE job # "flush"
      BY <1>2, <3>2
    <3> QED
      BY <3>1, <3>2
  <2>5. /\ db.mem \cap db.imm = {} /\ db.flush # 0 => db.imm # {}
        /\ db.writer # None => db.writer.n \in Batches /\ db.writer.n = db.lastSequence + 1
    BY DEF StoreTypes
  <2>6. Batches' = Batches
    BY DEF Batches
  <2>7. db'.pending \subseteq (IF db'.edit = None THEN {db'.flush} \ {0} ELSE {})
                           \cup (IF db'.merge = None THEN {} ELSE {db'.merge.out})
    BY <1>2, <1>4
  <2> QED
    BY <1>4, <1>5, <1>6, <2>1, <2>2, <2>3, <2>4, <2>5, <2>6, <2>7 DEF StoreTypes
<1>12. Opening' /\ Made'
  BY <1>6 DEF Opening, Made, Up
<1>13. Open'
  BY <1>4, <1>6, <1>8, <1>9, CarriesOpen
<1>14. Working'
  BY <1>4, <1>6, <1>8, CarriesWorking
<1>15. Editing'
  <2>1. InTables(e.add, files') = b
    BY <1>8, InTablesUnion
  <2>2. /\ Latest.next <= e.next /\ Latest.last <= e.last /\ e.log < e.next
        /\ db.manifest < e.next /\ e.next <= db.nextFile /\ e.last <= db.lastSequence
    BY <1>1, VersionsAre DEF Open, Stores
  <2>3. Journaled' => \A d \in Dirs' : \A u \in e.add : Table(u) \in d.names
    BY <1>8 DEF Journaled
  <2>4. IF job = "flush"
        THEN e.add = {db.flush} /\ e.del = {} /\ e.log = db.logfile
        ELSE e.add = {db.merge.out} /\ e.del = db.merge.inputs /\ e.log = db.logNumber
    OBVIOUS
  <2>5. \A u \in e.add : u < e.next /\ Table(u) \in dir'.names
    BY <1>7, <1>8
  <2>6. /\ IF j.for = "flush"
           THEN e.add = {db'.flush} /\ e.del = {} /\ e.log = db'.logfile
           ELSE e.add = {db'.merge.out} /\ e.del = db'.merge.inputs /\ e.log = db'.logNumber
        /\ e.next <= db'.nextFile /\ e.last <= db'.lastSequence /\ db'.manifest < e.next
    BY <1>2, <1>4, <2>2, <2>4
  <2>7. /\ \A n \in InTables(e.add, files') : n <= e.last
        /\ Latest'.next <= e.next /\ Latest'.last <= e.last /\ e.log < e.next
    BY <1>9, <2>1, <2>2
  <2>8. db'.edit = j /\ j.is = e
    BY <1>2, <1>4
  <2> QED
    BY <2>3, <2>5, <2>6, <2>7, <2>8 DEF Editing
<1>16. Exact'
  BY <1>2, <1>4, <1>6, <1>8, <1>9 DEF Exact
<1> QED
  BY <1>9, <1>10, <1>11, <1>12, <1>13, <1>14, <1>15, <1>16

(* WriteLevel0Table.                                                       *)
LEMMA WriteLevel0TableInv ==
    ASSUME DurableStoreAssumption, DurableStoreNone, StoreInv, UNCHANGED disk,
           WriteLevel0Table
    PROVE  StoreInv'
<1> USE DEF StoreInv
<1> DEFINE t == db.flush
           p == db.pending \ {t}
           e == Edit({t}, {}, db.logfile, db.nextFile, db.lastSequence)
<1>1. /\ Up /\ t # 0 /\ db.edit = None /\ UNCHANGED <<acked, safe, stops>>
      /\ \/ db' = [[db EXCEPT !.pending = p] EXCEPT !.edit = Edited("flush", e)]
            /\ NewTable(t, db.imm)
         \/ /\ db' = [[db EXCEPT !.pending = p] EXCEPT !.flush = 0, !.bgError = TRUE]
            /\ UNCHANGED <<files, dir, earlier>>
  BY DEF WriteLevel0Table, Unchanged
<1>2. db \in Stores /\ p \in SUBSET Nat /\ t \in Unbuilt
  BY <1>1 DEF StoreTypes, Stores, Unbuilt
<1>3. p \subseteq IF db.merge = None THEN {} ELSE {db.merge.out}
  BY <1>1 DEF StoreTypes
<1>4. CASE db' = [[db EXCEPT !.pending = p] EXCEPT !.edit = Edited("flush", e)]
           /\ NewTable(t, db.imm)
  <2>1. /\ e \in Edits /\ e.add = {t} /\ e.next = db.nextFile /\ e.last = db.lastSequence
        /\ e.del = {} /\ e.log = db.logfile
    BY <1>2 DEF Stores, Edits, Edit
  <2>2. db.imm \in SUBSET Batches /\ \A n \in db.imm : n <= db.lastSequence
    BY <1>1, <1>2 DEF Stores, Open
  <2>3. db' = [db EXCEPT !.pending = p, !.edit = Edited("flush", e)]
    BY <1>4
  <2> HIDE DEF e, p
  <2> QED
    BY <1>1, <1>2, <1>3, <1>4, <2>1, <2>2, <2>3, BuiltInv
<1>5. CASE /\ db' = [[db EXCEPT !.pending = p] EXCEPT !.flush = 0, !.bgError = TRUE]
           /\ UNCHANGED <<files, dir, earlier>>
  <2>1. db' = [db EXCEPT !.pending = p, !.flush = 0, !.bgError = TRUE]
    BY <1>5
  <2> HIDE DEF p
  <2>2. db' \in Stores
    BY <1>2, <2>1 DEF Stores
  <2>3. /\ db'.phase = db.phase /\ db'.mem = db.mem /\ db'.imm = db.imm
        /\ db'.logfile = db.logfile /\ db'.logNumber = db.logNumber
        /\ db'.version = db.version /\ db'.nextFile = db.nextFile
        /\ db'.manifest = db.manifest /\ db'.lastSequence = db.lastSequence
        /\ db'.held = db.held /\ db'.writer = db.writer /\ db'.left = db.left
        /\ db'.found = db.found /\ db'.edit = None /\ db'.flush = 0 /\ db'.bgError
        /\ db'.merge = db.merge /\ db'.pending = p
    BY <1>1, <1>2, <2>1 DEF Stores
  <2>4. Carries({}) /\ {} \in SUBSET Unbuilt
    BY <1>5, AloneCarries
  <2> QED
    BY <1>1, <1>3, <2>2, <2>3, <2>4, GivesUpInv
<1> QED
  BY <1>1, <1>4, <1>5

(* FinishMerge.                                                            *)
LEMMA FinishMergeInv ==
    ASSUME DurableStoreAssumption, DurableStoreNone, StoreInv, UNCHANGED disk, FinishMerge
    PROVE  StoreInv'
<1> USE DEF StoreInv
<1> DEFINE m == db.merge
           t == m.out
           p == db.pending \ {t}
           e == Edit({t}, m.inputs, db.logNumber, db.nextFile, db.lastSequence)
           b == InTables(m.inputs, files)
<1>1. /\ Up /\ m # None /\ db.flush = 0 /\ db.edit = None /\ UNCHANGED <<acked, safe, stops>>
      /\ \/ db' = [db EXCEPT !.edit = Edited("merge", e)] /\ NewTable(t, b)
         \/ /\ db' = [db EXCEPT !.merge = None, !.pending = p, !.bgError = TRUE]
            /\ NewTable(t, {})
  BY DEF FinishMerge, Unchanged
<1>2. /\ db \in Stores /\ t \in Unbuilt /\ t \in Nat /\ m \in Merges /\ dir.current > 0
      /\ p \in SUBSET Nat /\ db.pending \in SUBSET Nat
  BY <1>1, ViewsThere DEF StoreTypes, Stores, Unbuilt, Merges, Open, Directories
<1>3. db.pending \subseteq {t}
  BY <1>1 DEF StoreTypes
<1>4. CASE db' = [db EXCEPT !.edit = Edited("merge", e)] /\ NewTable(t, b)
  <2>1. /\ e \in Edits /\ e.add = {t} /\ e.next = db.nextFile /\ e.last = db.lastSequence
        /\ e.del = m.inputs /\ e.log = db.logNumber
    BY <1>2 DEF Stores, Edits, Edit, Merges
  <2>2. b \in SUBSET Batches /\ \A n \in b : n <= db.lastSequence
    <3>1. m.inputs \subseteq db.version
      BY <1>1 DEF Working
    <3>2. b \subseteq InTables(db.version, files)
      BY <3>1, InTablesUnion
    <3> QED
      BY <1>1, <3>2, BatchesOnly DEF Open
  <2>3. db' = [db EXCEPT !.pending = db.pending, !.edit = Edited("merge", e)]
    BY <1>2, <1>4 DEF Stores
  <2>4. db.pending \subseteq IF db.merge = None THEN {} ELSE {db.merge.out}
    BY <1>1, <1>3
  <2>5. IF "merge" = "flush" THEN t = db.flush /\ e.del = {} /\ e.log = db.logfile
        ELSE /\ db.merge # None /\ db.flush = 0 /\ t = db.merge.out
             /\ e.del = db.merge.inputs /\ e.log = db.logNumber
    BY <1>1, <2>1
  <2> HIDE DEF e, b, p, t
  <2> QED
    BY <1>1, <1>2, <1>4, <2>1, <2>2, <2>3, <2>4, <2>5, BuiltInv
<1>5. CASE /\ db' = [db EXCEPT !.merge = None, !.pending = p, !.bgError = TRUE]
           /\ NewTable(t, {})
  <2> HIDE DEF p, e, b
  <2>1. db' \in Stores
    BY <1>2, <1>5 DEF Stores
  <2>2. /\ db'.phase = db.phase /\ db'.mem = db.mem /\ db'.imm = db.imm
        /\ db'.logfile = db.logfile /\ db'.logNumber = db.logNumber
        /\ db'.version = db.version /\ db'.nextFile = db.nextFile
        /\ db'.manifest = db.manifest /\ db'.lastSequence = db.lastSequence
        /\ db'.held = db.held /\ db'.writer = db.writer /\ db'.left = db.left
        /\ db'.found = db.found /\ db'.edit = None /\ db'.flush = 0 /\ db'.bgError
        /\ db'.merge = None /\ db'.pending = p
    BY <1>1, <1>2, <1>5 DEF Stores
  <2>3. Carries({t}) /\ {t} \in SUBSET Unbuilt
    <3>1. \A d \in Dirs : d.current > 0 => \A v \in Views(d) : t \notin v.tables
      BY <1>1, <1>2 DEF Working
    <3>2. {} \in SUBSET Batches
      OBVIOUS
    <3> HIDE DEF t
    <3> QED
      BY <1>2, <1>5, <3>1, <3>2, NewTableCarries
  <2>4. p = {}
    BY <1>3 DEF p
  <2> QED
    BY <1>1, <2>1, <2>2, <2>3, <2>4, GivesUpInv
<1> QED
  BY <1>1, <1>4, <1>5

(* AddEdit, when the record is written.                                    *)
LEMMA EditAddedInv ==
    ASSUME DurableStoreAssumption, DurableStoreNone, StoreInv, Up, UNCHANGED disk,
           UNCHANGED <<dir, earlier, acked, safe, stops>>,
           db.edit # None, ~db.edit.written,
           files' = Appended(Manifest(db.manifest), db.edit.is),
           db' = [db EXCEPT !.edit.written = TRUE]
    PROVE  StoreInv'
<1> USE DEF StoreInv
<1> DEFINE e == db.edit.is
           job == [for |-> db.edit.for, is |-> e, written |-> TRUE]
           torn == Torn(Current(dir).data)
<1>1. /\ db \in Stores /\ db.edit \in Jobs /\ e \in Edits /\ dir.current > 0 /\ dir \in Dirs
      /\ dir.current = db.manifest /\ Latest \in ViewTypes /\ Latest \in Views(dir)
      /\ Version(db) \subseteq Nat
  <2>1. db \in Stores /\ dir.current > 0 /\ dir.current = db.manifest
    BY ViewsThere DEF StoreTypes, Open, Directories
  <2>2. db.edit \in Jobs
    BY <2>1 DEF Stores
  <2> QED
    BY <2>1, <2>2, ViewsThere, VersionsAre DEF Jobs
<1>2. e # Tear /\ e \in Edits \cup {Tear}
  BY <1>1 DEF DurableStoreNone
<1>3. /\ FileTypes' /\ Dirs' = Dirs /\ DOMAIN files' = DOMAIN files
      /\ \A f \in DOMAIN files : f # Manifest(db.manifest) => files'[f] = files[f]
      /\ torn => Latest' = Latest
      /\ ~torn => Latest' = After(Latest, e)
      /\ Torn(Current(dir).data)' <=> torn
      /\ \A d \in Dirs : d.current > 0 =>
            \/ Views(d)' \subseteq Views(d)
            \/ /\ d.current = db.manifest /\ (d = dir \/ Journaled)
               /\ Views(d)' \subseteq Views(d) \cup {Latest'}
  BY <1>2, ManifestAppended
<1>4. job \in Jobs /\ job # None /\ job.for = db.edit.for /\ job.is = e /\ job.written
  <2>1. job \in Jobs /\ job.for = db.edit.for /\ job.is = e /\ job.written
    BY <1>1 DEF Jobs
  <2> HIDE DEF job
  <2> QED
    BY <2>1 DEF DurableStoreNone
<1>5. /\ db'.phase = db.phase /\ db'.mem = db.mem /\ db'.imm = db.imm
      /\ db'.logfile = db.logfile /\ db'.logNumber = db.logNumber
      /\ db'.version = db.version /\ db'.nextFile = db.nextFile
      /\ db'.manifest = db.manifest /\ db'.lastSequence = db.lastSequence
      /\ db'.held = db.held /\ db'.writer = db.writer /\ db'.left = db.left
      /\ db'.found = db.found /\ db'.edit = job /\ db'.flush = db.flush
      /\ db'.merge = db.merge /\ db'.pending = db.pending /\ db'.bgError = db.bgError
  BY <1>1 DEF Stores, Jobs
<1>6. db' \in Stores
  BY <1>1 DEF Stores, Jobs
<1>7. Up' /\ Version(db') = Version(db) /\ Unbuilt' = Unbuilt
  BY <1>4, <1>5 DEF Up, Version, Unbuilt
<1>8. /\ \A d \in Dirs : \A u : Table(u) \in d.names =>
            /\ Table(u) \in DOMAIN files /\ Table(u) \in DOMAIN files'
            /\ files'[Table(u)] = files[Table(u)]
      /\ \A l \in Logs(dir) : files'[Log(l)] = files[Log(l)]
  <2>1. \A u, n : Table(u) # Manifest(n) /\ Log(u) # Manifest(n)
    BY DEF Table, Log, Manifest
  <2>2. \A d \in Dirs : d.names \subseteq DOMAIN files
    BY ViewsThere
  <2>3. \A l \in Logs(dir) : Log(l) \in DOMAIN files
    BY <1>1, BatchesOnly
  <2> QED
    BY <1>3, <2>1, <2>2, <2>3
<1>9. /\ IF db.edit.for = "flush"
         THEN e.add = {db.flush} /\ e.del = {} /\ e.log = db.logfile
         ELSE e.add = {db.merge.out} /\ e.del = db.merge.inputs /\ e.log = db.logNumber
      /\ e.next <= db.nextFile /\ e.last <= db.lastSequence
      /\ e.log < e.next /\ db.manifest < e.next
      /\ \A t \in e.add : t < e.next /\ Table(t) \in dir.names
      /\ \A n \in InTables(e.add, files) : n <= e.last
      /\ Latest.next <= e.next /\ Latest.last <= e.last
      /\ Journaled => \A d \in Dirs : \A t \in e.add :
            d.current = db.manifest => Table(t) \in d.names
  BY DEF Editing
<1>10. e.add \cap e.del = {} /\ e.add \cap Unbuilt = {}
  <2>1. CASE db.edit.for = "flush"
    <3>1. \A u \in Unbuilt : u # db.flush
      BY <2>1 DEF Unbuilt, Working
    <3> QED
      BY <1>9, <2>1, <3>1
  <2>2. CASE db.edit.for # "flush"
    <3>1. db.edit.for = "merge" /\ db.merge # None
      BY <2>2 DEF StoreTypes
    <3>2. Unbuilt = {}
      BY <3>1 DEF Unbuilt
    <3>3. db.merge.out \in Nat /\ \A t \in db.merge.inputs : t < db.merge.out
      BY <1>1, <3>1 DEF Working, Stores, Merges
    <3> QED
      BY <1>9, <2>2, <3>2, <3>3
  <2> QED
    BY <2>1, <2>2
<1> HIDE DEF e, job, torn
<1>11. /\ Latest' \in ViewTypes /\ Latest.next <= Latest'.next
       /\ Latest'.next <= db.nextFile /\ Latest'.last <= db.lastSequence
       /\ Latest'.next > 0
       /\ Latest'.tables \subseteq Latest.tables \cup e.add
  <2>1. Latest.next > 0 /\ Latest.next <= db.nextFile /\ Latest.last <= db.lastSequence
    BY DEF Named, Open, Up
  <2>2. CASE torn
    BY <1>1, <1>3, <2>1, <2>2 DEF ViewTypes
  <2>3. CASE ~torn
    BY <1>1, <1>3, <1>9, <2>1, <2>3 DEF ViewTypes, After, Edits
  <2> QED
    BY <2>2, <2>3
<1>12. ASSUME NEW d \in Dirs, d.current > 0, d.current = db.manifest, d = dir \/ Journaled
       PROVE  /\ Latest \in Views(d) /\ Fits(d, Latest)
              /\ \A v : v = Latest' => Fits(d, v)'
  <2>1. Current(d) = Current(dir)
    BY <1>1, <1>12 DEF Current
  <2>2. Latest \in Views(d)
    BY <1>1, <1>12, <2>1 DEF Views
  <2>3. Fits(d, Latest)
    BY <1>12, <2>2 DEF Named, NamedAt
  <2>4. ASSUME NEW v, v = Latest' PROVE Fits(d, v)'
    <3>1. \A t \in Latest.tables : t \in Nat /\ t < Latest.next /\ Table(t) \in d.names
      BY <1>1, <2>3 DEF Fits, ViewTypes
    <3>2. \A n \in InTables(Latest.tables, files) : n \in Nat /\ n <= Latest.last
      BY <2>3, BatchesOnly DEF Fits
    <3>3. CASE torn
      <4>1. v = Latest
        BY <1>3, <2>4, <3>3
      <4>2. InTables(v.tables, files') = InTables(v.tables, files)
        <5>1. \A t \in v.tables : /\ Table(t) \in DOMAIN files /\ Table(t) \in DOMAIN files'
                                  /\ files'[Table(t)] = files[Table(t)]
          BY <1>8, <3>1, <4>1
        <5> QED
          BY <5>1, InTablesSame
      <4> QED
        BY <1>1, <1>3, <2>3, <3>3, <4>1, <4>2 DEF Fits
    <3>4. CASE ~torn
      <4>1. v = After(Latest, e)
        BY <1>3, <2>4, <3>4
      <4>2. /\ v.next = e.next /\ v.log = e.log /\ v.last = e.last /\ Latest'.next = e.next
            /\ v.tables \subseteq Latest.tables \cup e.add /\ e \in Edits
        BY <1>1, <2>4, <4>1 DEF After
      <4>3. \A t \in e.add : t \in Nat /\ Table(t) \in d.names
        BY <1>1, <1>9, <1>12 DEF Edits
      <4>4. \A t \in v.tables : t < v.next /\ Table(t) \in d.names
        BY <1>1, <1>9, <3>1, <4>2, <4>3 DEF ViewTypes, Edits
      <4>5. InTables(v.tables, files') = InTables(v.tables, files)
        <5>1. \A t \in v.tables : /\ Table(t) \in DOMAIN files /\ Table(t) \in DOMAIN files'
                                  /\ files'[Table(t)] = files[Table(t)]
          BY <1>8, <4>4
        <5> QED
          BY <5>1, InTablesSame
      <4>6. ASSUME NEW n \in InTables(v.tables, files) PROVE n <= v.last
        <5>1. n \in InTables(Latest.tables, files) \/ n \in InTables(e.add, files)
          <6>1. n \in InTables(Latest.tables \cup e.add, files)
            BY <4>2, InTablesUnion
          <6> QED
            BY <6>1, InTablesUnion
        <5> QED
          BY <1>1, <1>9, <3>2, <4>2, <5>1 DEF ViewTypes, Edits
      <4>7. v.next > 0 /\ d.current < v.next /\ v.log < v.next /\ v.next <= Latest'.next
        BY <1>1, <1>9, <1>12, <4>2 DEF Edits, Stores
      <4>8. v.next # 0
        BY <4>2, <4>7 DEF Edits
      <4> QED
        BY <4>4, <4>5, <4>6, <4>7, <4>8 DEF Fits
    <3> QED
      BY <3>3, <3>4
  <2> QED
    BY <2>2, <2>3, <2>4
<1>13. ASSUME NEW d \in Dirs PROVE NamedAt(d)'
  <2>1. NamedAt(d) /\ d.current \in Nat
    BY ViewsThere DEF Named, Directories
  <2>2. CASE d.current = 0
    BY <2>1, <2>2 DEF NamedAt
  <2>3. CASE d.current # 0
    <3>1. d.current > 0 /\ Manifest(d.current) \in d.names /\ Views(d) \subseteq ViewTypes
      BY <2>1, <2>3, ViewsThere
    <3>2. ASSUME NEW v \in Views(d) PROVE Fits(d, v)'
      <4>1. Fits(d, v) /\ v \in ViewTypes
        BY <2>1, <3>1 DEF NamedAt
      <4>2. InTables(v.tables, files') = InTables(v.tables, files)
        <5>1. \A t \in v.tables : /\ Table(t) \in DOMAIN files /\ Table(t) \in DOMAIN files'
                                  /\ files'[Table(t)] = files[Table(t)]
          BY <1>8, <4>1 DEF Fits
        <5> QED
          BY <5>1, InTablesSame
      <4>3. v.next <= Latest'.next
        BY <1>1, <1>11, <4>1 DEF Fits, ViewTypes
      <4> QED
        BY <4>1, <4>2, <4>3 DEF Fits
    <3>3. \A v \in Views(d)' : Fits(d, v)'
      <4> TAKE v \in Views(d)'
      <4>1. CASE v \in Views(d)
        BY <3>2, <4>1
      <4>2. CASE v \notin Views(d)
        <5>1. d.current = db.manifest /\ (d = dir \/ Journaled) /\ v = Latest'
          BY <1>3, <3>1, <4>2
        <5> QED
          BY <1>12, <3>1, <5>1
      <4> QED
        BY <4>1, <4>2
    <3>4. d.current < Latest'.next
      <4>1. Latest.next > 0
        BY DEF Named, Up
      <4>2. d.current < Latest.next
        BY <2>1, <3>1, <4>1 DEF NamedAt
      <4> QED
        BY <1>1, <1>11, <2>1, <4>2 DEF ViewTypes
    <3>5. \A m \in Manifests(d) : m <= d.current \/ \E l \in Logs(d) : m < l
      BY <2>1, <3>1 DEF NamedAt
    <3> QED
      BY <2>3, <3>1, <3>3, <3>4, <3>5 DEF NamedAt, Manifests, Logs
  <2> QED
    BY <2>2, <2>3
<1>14. Named'
  BY <1>1, <1>3, <1>5, <1>11, <1>13 DEF Named
<1>15. StoreTypes'
  <2>1. acked' \subseteq Batches' /\ safe' \subseteq Batches' /\ stops' \in 0 .. MaxStops'
    BY DEF StoreTypes, Batches, MaxStops
  <2>2. Batches' = Batches /\ db'.phase = "up"
    BY <1>5 DEF Batches, Up
  <2>3. /\ db.mem \cap db.imm = {} /\ db.flush # 0 => db.imm # {}
        /\ db.writer # None => db.writer.n \in Batches /\ db.writer.n = db.lastSequence + 1
        /\ db.left = {} /\ db.found = {}
        /\ \/ job.for = "flush" /\ db.flush # 0
           \/ job.for = "merge" /\ db.merge # None /\ db.flush = 0
    BY <1>4 DEF StoreTypes
  <2>4. db'.pending \subseteq (IF db'.edit = None THEN {db'.flush} \ {0} ELSE {})
                           \cup (IF db'.merge = None THEN {} ELSE {db'.merge.out})
    <3>1. db.pending \subseteq IF db.merge = None THEN {} ELSE {db.merge.out}
      BY DEF StoreTypes
    <3> QED
      BY <1>5, <3>1
  <2> QED
    BY <1>5, <1>6, <1>7, <2>1, <2>2, <2>3, <2>4 DEF StoreTypes
<1>16. Opening' /\ Made'
  BY <1>7 DEF Opening, Made, Up
<1>17. Open'
  <2>1. InTables(db.version, files') = InTables(db.version, files)
    <3>1. \A t \in db.version : /\ Table(t) \in DOMAIN files /\ Table(t) \in DOMAIN files'
                                /\ files'[Table(t)] = files[Table(t)]
      BY <1>1, <1>8 DEF Open, Version
    <3> QED
      BY <3>1, InTablesSame
  <2>2. Logs(dir)' = Logs(dir) /\ Manifests(dir)' = Manifests(dir)
    BY DEF Logs, Manifests
  <2>3. \A l \in Logs(dir)' : \A n \in ReadOf(files[Log(l)])' :
           n <= db'.lastSequence \/ (db'.writer # None /\ n = db'.writer.n)
    BY <1>5, <1>8, <2>2 DEF Open, Log
  <2> QED
    BY <1>5, <1>7, <1>11, <2>1, <2>2, <2>3 DEF Open, Log
<1>18. Working'
  <2>1. ASSUME NEW t \in Unbuilt, NEW d \in Dirs, d.current > 0, NEW v \in Views(d)'
        PROVE  t \notin v.tables
    <3>1. \A w \in Views(d) : t \notin w.tables
      BY <2>1 DEF Working
    <3>2. CASE v \in Views(d)
      BY <3>1, <3>2
    <3>3. CASE v \notin Views(d)
      <4>1. d.current = db.manifest /\ (d = dir \/ Journaled) /\ v = Latest'
        BY <1>3, <2>1, <3>3
      <4>2. Latest \in Views(d)
        BY <1>12, <2>1, <4>1
      <4> QED
        BY <1>10, <1>11, <3>1, <4>1, <4>2
    <3> QED
      BY <3>2, <3>3
  <2> QED
    BY <1>3, <1>5, <1>7, <2>1 DEF Working
<1>19. Editing'
  <2>1. InTables(e.add, files') = InTables(e.add, files)
    <3>1. \A t \in e.add : /\ Table(t) \in DOMAIN files /\ Table(t) \in DOMAIN files'
                           /\ files'[Table(t)] = files[Table(t)]
      BY <1>1, <1>8, <1>9
    <3> QED
      BY <3>1, InTablesSame
  <2>2. db'.edit = job /\ job.is = e /\ job.written
    BY <1>4, <1>5
  <2>3. /\ IF job.for = "flush"
           THEN e.add = {db'.flush} /\ e.del = {} /\ e.log = db'.logfile
           ELSE e.add = {db'.merge.out} /\ e.del = db'.merge.inputs /\ e.log = db'.logNumber
        /\ e.next <= db'.nextFile /\ e.last <= db'.lastSequence /\ db'.manifest < e.next
    BY <1>4, <1>5, <1>9
  <2>4. /\ e.log < e.next /\ \A n \in InTables(e.add, files') : n <= e.last
        /\ \A t \in e.add : t < e.next /\ Table(t) \in dir'.names
    BY <1>9, <2>1
  <2> QED
    BY <2>2, <2>3, <2>4 DEF Editing
<1>20. Exact'
  <2>1. ASSUME ~db.bgError
        PROVE  ~torn /\ Latest'.tables = (db.version \ e.del) \cup e.add
    <3>1. ~torn /\ Latest.tables = db.version
      BY <2>1 DEF Exact, torn
    <3> QED
      BY <1>3, <1>10, <3>1 DEF After
  <2> QED
    BY <1>3, <1>4, <1>5, <2>1 DEF Exact
<1> QED
  BY <1>3, <1>14, <1>15, <1>16, <1>17, <1>18, <1>19, <1>20

(* AddEdit.                                                                *)
LEMMA AddEditInv ==
    ASSUME DurableStoreAssumption, DurableStoreNone, StoreInv, UNCHANGED disk, AddEdit
    PROVE  StoreInv'
<1>1. /\ Up /\ db.edit # None /\ ~db.edit.written
      /\ UNCHANGED <<dir, earlier, acked, safe, stops>>
      /\ \/ /\ files' = Appended(Manifest(db.manifest), db.edit.is)
            /\ db' = [db EXCEPT !.edit.written = TRUE]
         \/ EditFails /\ UNCHANGED files
         \/ "tear" \in JobFaults /\ EditFails /\ files' = Appended(Manifest(db.manifest), Tear)
  BY DEF AddEdit, Unchanged
<1>2. CASE /\ files' = Appended(Manifest(db.manifest), db.edit.is)
           /\ db' = [db EXCEPT !.edit.written = TRUE]
  BY <1>1, <1>2, EditAddedInv
<1>3. CASE EditFails /\ UNCHANGED files
  <2>1. Carries({})
    BY <1>1, <1>3, AloneCarries
  <2> QED
    BY <1>1, <1>3, <2>1, EditFailsInv
<1>4. CASE "tear" \in JobFaults /\ EditFails /\ files' = Appended(Manifest(db.manifest), Tear)
  <2>1. Carries({})
    BY <1>1, <1>4, TearCarries
  <2> QED
    BY <1>1, <1>4, <2>1, EditFailsInv
<1> QED
  BY <1>1, <1>2, <1>3, <1>4

-----------------------------------------------------------------------------
(* Opening.                                                                *)

(* A manifest whose records can be read has given out numbers.             *)
LEMMA ReadableIsAhead ==
    ASSUME DurableStoreNone, StoreInv, dir.current # 0, ~Corrupt(files, dir)
    PROVE  Latest.next > 0 /\ dir.current > 0 /\ Latest \in ViewTypes /\ Fits(dir, Latest)
<1> USE DEF StoreInv
<1>1. /\ dir.current > 0 /\ dir.current \in Nat /\ Manifest(dir.current) \in DOMAIN files
      /\ Latest \in ViewTypes /\ Latest \in Views(dir) /\ dir \in Dirs
      /\ IsManifest(Current(dir))
  BY ViewsThere DEF Directories
<1>2. Fits(dir, Latest)
  BY <1>1 DEF Named, NamedAt
<1>3. Records(Current(dir).data) # <<>>
  BY DEF Corrupt, Current
<1>4. CASE dir.current # 1
  BY <1>1, <1>2, <1>4 DEF Fits, ViewTypes
<1>5. CASE dir.current = 1
  <2> DEFINE e == Edit({}, {}, 0, 2, 0)
  <2>1. Current(dir).data \in {<<>>, <<e>>}
    BY <1>1, <1>5 DEF FileTypes, FirstOf, Current
  <2>2. e \in Edits /\ e.next = 2
    BY DEF Edit, Edits
  <2> HIDE DEF e
  <2>3. /\ <<>> \in Seq(Edits \cup {Tear}) /\ <<e>> \in Seq(Edits \cup {Tear})
        /\ Len(<<e>>) = 1 /\ <<e>>[1] = e /\ Tear \notin Edits /\ e # Tear
    BY <2>2 DEF DurableStoreNone
  <2>4. ~Torn(<<>>) /\ ~Torn(<<e>>)
    BY <2>3 DEF Torn
  <2>5. Records(<<>>) = <<>> /\ Records(<<e>>) = <<e>>
    BY <2>3, <2>4, RecordsAre
  <2>6. Latest = Replay(<<e>>)
    BY <1>3, <2>1, <2>5 DEF Latest, ViewOf
  <2>7. Replay(<<e>>) = After(Replay(<<>>), e)
    BY <2>2, ReplayTwo
  <2> QED
    BY <1>1, <1>2, <2>2, <2>6, <2>7 DEF After
<1> QED
  BY <1>1, <1>2, <1>4, <1>5

(* Recover.                                                                *)
LEMMA RecoverInv ==
    ASSUME DurableStoreAssumption, DurableStoreNone, StoreInv, UNCHANGED disk, Recover
    PROVE  StoreInv'
<1> USE DEF StoreInv
<1> DEFINE v == Latest
<1>1. /\ db.phase = "closed" /\ UNCHANGED <<disk, files, dir, earlier, acked, safe, stops>>
      /\ dir.current # 0 /\ ~Corrupt(files, dir)
      /\ db' = [Closed EXCEPT !.phase = "logs", !.version = v.tables, !.logNumber = v.log,
                              !.manifest = v.next, !.nextFile = v.next + 1,
                              !.lastSequence = v.last, !.left = LogsFrom(v.log, dir)]
  BY DEF Recover, Unchanged, Latest, ViewOf, Current
<1>2. Latest.next > 0 /\ dir.current > 0 /\ v \in ViewTypes /\ Fits(dir, v)
  BY <1>1, ReadableIsAhead
<1>3. /\ db'.phase = "logs" /\ db'.mem = {} /\ db'.imm = {} /\ db'.logfile = 0
      /\ db'.logNumber = v.log /\ db'.version = v.tables /\ db'.nextFile = v.next + 1
      /\ db'.manifest = v.next /\ db'.lastSequence = v.last /\ db'.bgError = FALSE
      /\ db'.pending = {} /\ db'.held = {} /\ db'.writer = None /\ db'.flush = 0
      /\ db'.merge = None /\ db'.edit = None /\ db'.left = LogsFrom(v.log, dir)
      /\ db'.found = {}
  BY <1>1 DEF Closed
<1>4. Logs(dir) \subseteq Nat /\ LogsFrom(v.log, dir) \subseteq Nat
  BY ViewsThere, NumbersAre DEF Logs, LogsFrom
<1> HIDE DEF v
<1>5. db' \in Stores
  <2>1. /\ v.tables \in SUBSET Nat /\ v.log \in Nat /\ v.next \in Nat /\ v.next + 1 \in Nat
        /\ v.last \in Nat
    BY <1>2 DEF ViewTypes
  <2>2. Closed \in Stores
    BY DEF Stores, Closed
  <2> HIDE DEF Closed
  <2> QED
    BY <1>1, <1>4, <2>1, <2>2 DEF Stores
<1>6. FileTypes' /\ Latest' = v
  BY <1>1, SameDisk DEF v
<1>7. Named'
  BY <1>1, <1>2, <1>6, SameDisk DEF Named, v
<1>8. ~Up' /\ db'.phase # "closed" /\ db'.phase = "logs"
  BY <1>3 DEF Up
<1>9. StoreTypes'
  <2>1. acked' \subseteq Batches' /\ safe' \subseteq Batches' /\ stops' \in 0 .. MaxStops'
    BY <1>1 DEF StoreTypes, Batches, MaxStops
  <2> QED
    BY <1>3, <1>5, <1>8, <2>1 DEF StoreTypes
<1>10. Opening'
  <2>1. v.next < v.next + 1 /\ v.last <= v.last
    BY <1>2 DEF ViewTypes
  <2>2. InTables({}, files) = {}
    BY InTablesUnion
  <2>3. \A l \in Logs(dir) : l < v.next + 1 \/ l \in LogsFrom(v.log, dir)
    BY <1>2, <1>4 DEF Fits, ViewTypes, LogsFrom, Logs, v
  <2>4. Logs(dir)' = Logs(dir) /\ InTables(db'.found, files') = {}
    BY <1>1, <1>3, <2>2 DEF Logs
  <2>5. db'.left \subseteq LogsFrom(db'.logNumber, dir')
    BY <1>1, <1>3
  <2> QED
    BY <1>3, <1>6, <2>1, <2>3, <2>4, <2>5 DEF Opening
<1>11. Made' /\ Open' /\ Working' /\ Editing' /\ Exact'
  BY <1>8 DEF Made, Open, Working, Editing, Exact
<1> QED
  BY <1>6, <1>7, <1>9, <1>10, <1>11

(* RecoverLogFile.                                                         *)
LEMMA RecoverLogFileInv ==
    ASSUME DurableStoreAssumption, DurableStoreNone, StoreInv, UNCHANGED disk,
           RecoverLogFile
    PROVE  StoreInv'
<1> USE DEF StoreInv
<1> DEFINE l == Min(db.left)
           b == InLog(l, files)
           t == db.nextFile
           used == IF b = {} THEN t ELSE t + 1
           next == Max({used, l + 1})
           last == Max(b \cup {db.lastSequence})
           new == IF b = {} THEN {} ELSE {t}
<1>1. /\ db.phase = "logs" /\ db.left # {} /\ UNCHANGED <<acked, safe, stops>>
      /\ db' = [db EXCEPT !.left = @ \ {l}, !.found = IF b = {} THEN @ ELSE @ \cup {t},
                          !.nextFile = next, !.lastSequence = last]
      /\ IF b = {} THEN UNCHANGED <<files, dir, earlier>> ELSE NewTable(t, b)
  BY DEF RecoverLogFile, Unchanged
<1>2. /\ db \in Stores /\ t \in Nat /\ db.lastSequence \in Nat /\ db.left \subseteq Nat
      /\ db.edit = None /\ ~Up /\ db.phase # "closed"
  BY <1>1 DEF StoreTypes, Stores, Up
<1>3. l \in db.left /\ l \in Nat
  BY <1>1, <1>2, LeastThere
<1>4. l \in Logs(dir) /\ b = ReadOf(files[Log(l)]) /\ b \in SUBSET Batches
  <2>1. l \in Logs(dir)
    BY <1>1, <1>3 DEF Opening, LogsFrom, Logs
  <2>2. b = ReadOf(files[Log(l)])
    BY DEF InLog, ReadOf
  <2> QED
    BY <2>1, <2>2, BatchesOnly, ViewsThere
<1> HIDE DEF l, b
<1>5. next \in Nat /\ t <= next /\ l < next /\ (b # {} => t < next)
  <2>1. used \in Nat /\ l + 1 \in Nat /\ t <= used /\ (b # {} => t < used)
    BY <1>2, <1>3
  <2> HIDE DEF used
  <2>2. next \in {used, l + 1} /\ \A y \in {used, l + 1} : y <= next
    <3>1. \A y \in {used, l + 1} : y <= used + (l + 1)
      BY <2>1
    <3>2. {used, l + 1} \subseteq Nat /\ {used, l + 1} # {} /\ used + (l + 1) \in Nat
      BY <2>1
    <3> QED
      BY <3>1, <3>2, GreatestThere
  <2> QED
    BY <1>2, <1>3, <2>1, <2>2
<1>6. last \in Nat /\ db.lastSequence <= last /\ \A n \in b : n <= last
  <2> DEFINE S == b \cup {db.lastSequence}
  <2>1. S \subseteq Nat /\ S # {} /\ \A n \in S : n <= MaxSequence + db.lastSequence
    BY <1>2, <1>4 DEF Batches, DurableStoreAssumption
  <2>2. MaxSequence + db.lastSequence \in Nat
    BY <1>2 DEF DurableStoreAssumption
  <2>3. last \in S /\ \A n \in S : n <= last
    BY <2>1, <2>2, GreatestThere
  <2> QED
    BY <2>1, <2>3
<1> HIDE DEF next, last
<1>7. /\ db'.phase = "logs" /\ db'.mem = db.mem /\ db'.imm = db.imm
      /\ db'.logfile = db.logfile /\ db'.logNumber = db.logNumber
      /\ db'.version = db.version /\ db'.nextFile = next
      /\ db'.manifest = db.manifest /\ db'.lastSequence = last
      /\ db'.held = db.held /\ db'.writer = db.writer /\ db'.left = db.left \ {l}
      /\ db'.found = db.found \cup new /\ db'.edit = db.edit /\ db'.flush = db.flush
      /\ db'.merge = db.merge /\ db'.pending = db.pending /\ db'.bgError = db.bgError
  BY <1>1, <1>2 DEF Stores
<1>8. db' \in Stores
  <2>1. \A n \in Nat, q \in Nat, f \in SUBSET Nat, k \in SUBSET Nat :
           [db EXCEPT !.left = k, !.found = f, !.nextFile = n, !.lastSequence = q] \in Stores
    <3>1. \A s \in Stores : \A f \in SUBSET Nat, k \in SUBSET Nat :
             [s EXCEPT !.left = k, !.found = f] \in Stores
      BY ONLY DEF Stores
    <3>2. \A s \in Stores : \A n \in Nat, q \in Nat :
             [s EXCEPT !.nextFile = n, !.lastSequence = q] \in Stores
      BY ONLY DEF Stores
    <3>3. \A s \in Stores : \A n, q, f, k :
             [s EXCEPT !.left = k, !.found = f, !.nextFile = n, !.lastSequence = q]
                 = [[s EXCEPT !.left = k, !.found = f] EXCEPT !.nextFile = n, !.lastSequence = q]
      BY ONLY DEF Stores
    <3> QED
      BY <1>2, <3>1, <3>2, <3>3
  <2>2. db.left \ {l} \in SUBSET Nat /\ db.found \cup new \in SUBSET Nat
    BY <1>2 DEF Stores
  <2> QED
    BY <1>1, <1>5, <1>6, <2>1, <2>2
<1>9. /\ dir.current > 0 /\ Latest \in ViewTypes /\ Latest.next < t
      /\ Latest.last <= db.lastSequence
  BY <1>1, ViewsThere DEF Named, Directories, Opening
<1>10. \A d \in Dirs : d.current > 0 => \A v \in Views(d) : t \notin v.tables
  <2> TAKE d \in Dirs
  <2>1. ASSUME d.current > 0, NEW v \in Views(d) PROVE t \notin v.tables
    <3>1. v \in ViewTypes /\ Fits(d, v)
      BY <2>1, ViewsThere DEF Named, NamedAt
    <3> QED
      BY <1>2, <1>9, <3>1 DEF Fits, ViewTypes
  <2> QED
    BY <2>1
<1>11. /\ Carries(new) /\ \A u \in new : Table(u) \in dir'.names
       /\ InTables(new, files') = b
  <2>1. CASE b = {}
    <3>1. InTables({}, files') = {}
      BY InTablesUnion
    <3> QED
      BY <1>1, <2>1, <3>1, AloneCarries
  <2>2. CASE b # {}
    <3>1. NewTable(t, b)
      BY <1>1, <2>2
    <3>2. /\ Carries({t}) /\ Table(t) \in dir'.names /\ Table(t) \in DOMAIN files'
          /\ files'[Table(t)] = [data |-> <<b>>, synced |-> 1]
      BY <1>2, <1>4, <1>9, <1>10, <3>1, NewTableCarries
    <3>3. InTables({t}, files') = b
      BY <3>2, InTablesUnion
    <3> QED
      BY <2>2, <3>2, <3>3
  <2> QED
    BY <2>1, <2>2
<1>12. new \subseteq {t}
  OBVIOUS
<1> HIDE DEF new
<1>13. FileTypes' /\ dir'.current = dir.current /\ Latest' = Latest
       /\ dir.names \subseteq dir'.names /\ Logs(dir)' = Logs(dir)
  BY <1>11 DEF Carries
<1>14. Named'
  <2>1. \A d \in Dirs' : NamedAt(d)'
    BY <1>11 DEF Carries
  <2> QED
    BY <1>1, <1>7, <1>9, <1>13, <2>1 DEF Named
<1>15. ~Up' /\ db'.phase # "closed"
  BY <1>7 DEF Up
<1>16. StoreTypes'
  <2>1. acked' \subseteq Batches' /\ safe' \subseteq Batches' /\ stops' \in 0 .. MaxStops'
    BY <1>1 DEF StoreTypes, Batches, MaxStops
  <2>2. Batches' = Batches
    BY DEF Batches
  <2> QED
    BY <1>2, <1>7, <1>8, <1>15, <2>1, <2>2 DEF StoreTypes
<1>17. Opening'
  <2>1. /\ db.manifest = Latest.next /\ db.logNumber = Latest.log /\ db.version = Latest.tables
        /\ \A u \in db.found : Latest.next < u /\ u < t /\ Table(u) \in dir.names
        /\ \A n \in InTables(db.found, files) : n <= db.lastSequence
        /\ \A k \in Logs(dir) : k < t \/ k \in db.left
        /\ db.left \subseteq LogsFrom(db.logNumber, dir)
    BY <1>1 DEF Opening
  <2>2. db.found \subseteq Nat /\ db.found \cap new = {} /\ Logs(dir) \subseteq Nat
    BY <1>2, <1>12, <2>1, ViewsThere, NumbersAre DEF Stores, Logs
  <2>3. InTables(db.found, files') = InTables(db.found, files)
    BY <1>11, <2>1, <2>2, CarriesTables
  <2>4. \A n \in InTables(db.found \cup new, files') : n <= last
    <3>1. InTables(db.found \cup new, files') = InTables(db.found, files) \cup b
      BY <1>11, <2>3, InTablesUnion
    <3>2. \A n \in InTables(db.found, files) : n \in Nat /\ n <= db.lastSequence
      BY <2>1, BatchesOnly
    <3> QED
      BY <1>2, <1>6, <3>1, <3>2
  <2>5. \A u \in db.found \cup new : Latest.next < u /\ u < next /\ Table(u) \in dir'.names
    <3>1. ASSUME NEW u \in new PROVE Latest.next < u /\ u < next /\ Table(u) \in dir'.names
      <4>1. u = t /\ b # {}
        BY <1>12 DEF new
      <4> QED
        BY <1>5, <1>9, <1>11, <4>1
    <3>2. ASSUME NEW u \in db.found
          PROVE  Latest.next < u /\ u < next /\ Table(u) \in dir'.names
      BY <1>2, <1>5, <1>13, <2>1, <2>2
    <3> QED
      BY <3>1, <3>2
  <2>6. \A k \in Logs(dir) : k < next \/ k \in db.left \ {l}
    BY <1>2, <1>5, <2>1, <2>2
  <2>7. Latest.next < next /\ Latest.last <= last
    BY <1>2, <1>5, <1>6, <1>9 DEF ViewTypes
  <2>8. db.left \ {l} \subseteq LogsFrom(db.logNumber, dir')
    BY <1>13, <2>1 DEF LogsFrom, Logs
  <2> QED
    BY <1>7, <1>13, <2>1, <2>4, <2>5, <2>6, <2>7, <2>8 DEF Opening
<1>18. Made' /\ Open' /\ Working' /\ Editing' /\ Exact'
  BY <1>7, <1>15 DEF Made, Open, Working, Editing, Exact
<1> QED
  BY <1>13, <1>14, <1>16, <1>17, <1>18

(* NewDB.                                                                  *)
LEMMA NewDBInv ==
    ASSUME DurableStoreAssumption, DurableStoreNone, StoreInv, UNCHANGED disk, NewDB
    PROVE  StoreInv'
<1> USE DEF StoreInv
<1> DEFINE f == Manifest(1)
           e == Edit({}, {}, 0, 2, 0)
           h == [data |-> <<e>>, synced |-> 0]
           named == [dir EXCEPT !.names = @ \cup {f}]
<1>1. /\ db.phase = "closed" /\ dir.current = 0 /\ files' = With(f, <<e>>, 0)
      /\ dir' = [named EXCEPT !.current = 1]
      /\ Past((IF Journaled THEN {} ELSE earlier \cup {dir}) \cup {named})
      /\ UNCHANGED <<db, acked, safe, stops>>
  BY DEF NewDB, Unchanged
<1>2. earlier = {} /\ dir \in Directories /\ dir.names \subseteq {f} /\ dir \in Dirs
  BY <1>1, ViewsThere DEF Named, NamedAt
<1>3. /\ dir'.names = {f} /\ dir'.current = 1 /\ dir' \in Directories
      /\ named \in Directories /\ named.names = {f} /\ named.current = 0
  <2>1. f \in Files /\ dir.names \in SUBSET Files /\ dir.current = 0
    BY <1>1, <1>2 DEF Directories, Files, Manifest
  <2>2. dir = [names |-> dir.names, current |-> 0]
    BY <1>1, <1>2 DEF Directories
  <2>3. named = [names |-> {f}, current |-> 0]
    BY <1>2, <2>2
  <2>4. dir' = [names |-> {f}, current |-> 1]
    BY <1>1, <2>3
  <2> HIDE DEF f, named
  <2> QED
    BY <2>1, <2>3, <2>4 DEF Directories
<1> HIDE DEF named
<1>4. earlier' \subseteq {dir, named} /\ (PowerFails \/ earlier' = {})
  BY <1>1, <1>2 DEF Past
<1>5. /\ Dirs' \subseteq Directories /\ \A d \in Dirs' : d.names \subseteq {f}
      /\ \A d \in Dirs' : d = dir' \/ d.current = 0
  BY <1>1, <1>2, <1>3, <1>4 DEF Dirs
<1>6. e \in Edits /\ e.next = 2 /\ e.add = {} /\ e.del = {} /\ e.log = 0 /\ e.last = 0
  BY DEF Edit, Edits
<1>7. FirstOf(h)
  BY DEF FirstOf
<1> HIDE DEF e
<1>8. /\ <<e>> \in Seq(Edits \cup {Tear}) /\ Len(<<e>>) = 1 /\ e # Tear
      /\ <<e>>[1] = e
  BY <1>6 DEF DurableStoreNone
<1>9. IsManifest(h) /\ ~Torn(<<e>>)
  BY <1>8 DEF IsManifest, Torn
<1>10. /\ FileTypes' /\ files'[f] = h
  <2>1. f \in Files /\ f[1] = "manifest"
    BY DEF Manifest, Files
  <2>2. FileOf(f[1], h)
    BY <1>9, <2>1 DEF FileOf
  <2>3. FileTypes /\ UNCHANGED disk
    OBVIOUS
  <2>4. \A d \in Dirs' : d.names \subseteq DOMAIN files \cup {f}
    BY <1>5
  <2> DEFINE data == <<e>>
  <2>5. /\ files' = With(f, data, 0) /\ FileOf(f[1], [data |-> data, synced |-> 0])
        /\ f = Manifest(1) => FirstOf([data |-> data, synced |-> 0])
    BY <1>1, <1>7, <2>2
  <2>6. Dirs' \subseteq Directories /\ (PowerFails \/ earlier' = {}) /\ f \in Files
    BY <1>4, <1>5, <2>1
  <2> HIDE DEF data, f
  <2>7. FileTypes' /\ files'[f] = [data |-> data, synced |-> 0]
    BY <2>3, <2>4, <2>5, <2>6, WithOne
  <2> QED
    BY <2>7 DEF data
<1>11. /\ Replay(<<>>) = [tables |-> {}, log |-> 0, next |-> 0, last |-> 0]
       /\ Replay(<<e>>) = [tables |-> {}, log |-> 0, next |-> 2, last |-> 0]
  <2>1. Replay(<<e>>) = After(Replay(<<>>), e)
    BY <1>6, ReplayTwo
  <2>2. Replay(<<>>) = [tables |-> {}, log |-> 0, next |-> 0, last |-> 0]
    BY ReplayAre
  <2> DEFINE tables == (Replay(<<>>).tables \ e.del) \cup (e.add \ e.del)
  <2>3. tables = {}
    BY <1>6, <2>2
  <2>4. Replay(<<e>>) = [tables |-> tables, log |-> e.log, next |-> e.next, last |-> e.last]
    BY <2>1 DEF After
  <2> HIDE DEF tables
  <2> QED
    BY <1>6, <2>2, <2>3, <2>4
<1>12. ASSUME NEW a \in BOOLEAN, NEW v \in ViewsOf(h, a)
       PROVE  v \in {Replay(<<>>), Replay(<<e>>)}
  <2>1. PICK k \in Cuts(h, a) : v = Replay(Records(SubSeq(<<e>>, 1, k)))
    BY DEF ViewsOf
  <2>2. k = 0 \/ k = 1
    BY <1>8 DEF Cuts
  <2>3. /\ SubSeq(<<e>>, 1, 1) = <<e>> /\ Len(SubSeq(<<e>>, 1, 0)) = 0
        /\ SubSeq(<<e>>, 1, 0) \in Seq(Edits \cup {Tear})
    <3> DEFINE s == <<e>>
    <3>1. s \in Seq(Edits \cup {Tear}) /\ Len(s) = 1 /\ 0 \in 0 .. Len(s)
      BY <1>8
    <3> HIDE DEF s
    <3>2. /\ SubSeq(s, 1, Len(s)) = s /\ Len(SubSeq(s, 1, 0)) = 0
          /\ SubSeq(s, 1, 0) \in Seq(Edits \cup {Tear})
      BY <3>1, Prefixes
    <3>3. SubSeq(s, 1, 1) = s
      BY <3>1, <3>2
    <3> QED
      BY <3>2, <3>3 DEF s
  <2>4. SubSeq(<<e>>, 1, 0) = <<>>
    BY <2>3, EmptySeq
  <2>5. ~Torn(<<>>) /\ <<>> \in Seq(Edits \cup {Tear}) /\ Tear \notin Edits
    BY DEF Torn, DurableStoreNone
  <2>6. Records(<<>>) = <<>> /\ Records(<<e>>) = <<e>>
    BY <1>8, <1>9, <2>5, RecordsAre
  <2> QED
    BY <2>1, <2>2, <2>3, <2>4, <2>6
<1>13. Latest'.next = 2
  <2>1. Latest' = ViewOf(h)
    BY <1>3, <1>10 DEF Latest, Current
  <2>2. ViewOf(h) \in ViewsOf(h, TRUE)
    BY <1>9, ViewsAre
  <2>3. ViewOf(h) = Replay(<<e>>)
    <3>1. Tear \notin Edits
      BY DEF DurableStoreNone
    <3>2. Records(<<e>>) = <<e>>
      BY <1>8, <1>9, <3>1, RecordsAre
    <3> QED
      BY <3>2 DEF ViewOf
  <2> QED
    BY <1>11, <2>1, <2>3
<1>14. ASSUME NEW d \in Dirs' PROVE NamedAt(d)'
  <2>1. CASE d.current = 0
    BY <1>5, <2>1 DEF NamedAt
  <2>2. CASE d = dir'
    <3>1. d.current = 1 /\ d.names = {f} /\ f \in d.names
      BY <1>3, <2>2
    <3>2. Current(d)' = h
      BY <1>10, <3>1 DEF Current
    <3>3. ASSUME NEW v \in Views(d)' PROVE Fits(d, v)'
      <4>1. PICK a \in BOOLEAN : v \in ViewsOf(h, a)
        BY <3>2 DEF Views
      <4>2. v.tables = {} /\ v.log = 0 /\ (v.next = 0 \/ v.next = 2)
        BY <1>11, <1>12, <4>1
      <4>3. InTables(v.tables, files') = {}
        BY <4>2, InTablesUnion
      <4> QED
        BY <1>13, <3>1, <4>2, <4>3 DEF Fits
    <3>4. \A m \in Manifests(d) : m <= d.current
      BY <3>1 DEF Manifests, Numbers, Manifest
    <3> QED
      BY <1>13, <3>1, <3>3, <3>4 DEF NamedAt, Manifests
  <2> QED
    BY <1>5, <2>1, <2>2
<1>15. Named'
  BY <1>1, <1>3, <1>14 DEF Named
<1>16. StoreTypes'
  <2>1. acked' \subseteq Batches' /\ safe' \subseteq Batches' /\ stops' \in 0 .. MaxStops'
    BY <1>1 DEF StoreTypes, Batches, MaxStops
  <2>2. db' = Closed /\ Closed \in Stores
    BY <1>1 DEF StoreTypes, Stores, Closed
  <2>3. ~Up'
    BY <1>1 DEF Up
  <2> QED
    BY <2>1, <2>2, <2>3 DEF StoreTypes, Closed
<1>17. Opening' /\ Made' /\ Open' /\ Working' /\ Editing' /\ Exact'
  BY <1>1 DEF Opening, Made, Open, Working, Editing, Exact, Up
<1> QED
  BY <1>10, <1>15, <1>16, <1>17

(* NewManifest.                                                            *)
LEMMA NewManifestInv ==
    ASSUME DurableStoreAssumption, DurableStoreNone, StoreInv, UNCHANGED disk, NewManifest
    PROVE  StoreInv'
<1> USE DEF StoreInv
<1> DEFINE l == db.nextFile
           m == db.manifest
           snapshot == Edit(db.version, {}, 0, 0, 0)
           edit == Edit(db.found, {}, l, l + 1, db.lastSequence)
           job == [for |-> "open", is |-> edit, written |-> TRUE]
           log == [data |-> <<>>, synced |-> 0]
           man == [data |-> <<snapshot, edit>>, synced |-> 0]
           named == [dir EXCEPT !.names = @ \cup {Log(l)}]
<1>1. /\ db.phase = "logs" /\ db.left = {} /\ UNCHANGED <<acked, safe, stops>>
      /\ db' = [db EXCEPT !.phase = "manifest", !.logfile = l, !.nextFile = l + 1,
                          !.edit = job]
      /\ files' = [f \in DOMAIN files \cup {Log(l), Manifest(m)} |->
                     IF f = Log(l) THEN log ELSE IF f = Manifest(m) THEN man ELSE files[f]]
      /\ dir' = [named EXCEPT !.names = @ \cup {Manifest(m)}]
      /\ Past(earlier \cup {dir, named})
  BY DEF NewManifest, Unchanged
<1>2. db \in Stores /\ l \in Nat /\ m \in Nat /\ db.edit = None /\ ~Up
  BY <1>1 DEF StoreTypes, Stores, Up
<1>3. snapshot \in Edits /\ edit \in Edits
  BY <1>2 DEF Stores, Edits, Edit
<1> HIDE DEF snapshot, edit
<1>4. job \in Jobs
  BY <1>3 DEF Jobs
<1>5. /\ db'.phase = "manifest" /\ db'.mem = db.mem /\ db'.imm = db.imm
      /\ db'.logfile = l /\ db'.logNumber = db.logNumber
      /\ db'.version = db.version /\ db'.nextFile = l + 1
      /\ db'.manifest = m /\ db'.lastSequence = db.lastSequence
      /\ db'.held = db.held /\ db'.writer = db.writer /\ db'.left = {}
      /\ db'.found = db.found /\ db'.flush = db.flush
      /\ db'.merge = db.merge /\ db'.pending = db.pending /\ db'.bgError = db.bgError
  BY <1>1, <1>2 DEF Stores
<1>6. db' \in Stores
  <2>1. job \in {None} \cup Jobs /\ l + 1 \in Nat
    BY <1>2, <1>4
  <2> HIDE DEF job
  <2> QED
    BY <1>1, <1>2, <2>1 DEF Stores
<1>7. /\ dir.current > 0 /\ dir.current \in Nat /\ Latest \in ViewTypes /\ Latest.next = m
      /\ Latest.next < l /\ dir \in Dirs /\ m > 1 /\ Dirs \subseteq Directories
      /\ \A d \in Dirs : d.names \subseteq Files /\ d.names \subseteq DOMAIN files
  <2>1. dir.current > 0 /\ dir.current \in Nat /\ Latest \in ViewTypes /\ Latest.next = m
        /\ Latest.next < l /\ dir \in Dirs /\ Latest.next > 0
    BY <1>1, ViewsThere DEF Named, Directories, Opening
  <2>2. dir.current < Latest.next
    BY <2>1 DEF Named, NamedAt
  <2>3. Dirs \subseteq Directories /\ \A d \in Dirs : d.names \subseteq Files
        /\ d.names \subseteq DOMAIN files
    BY ViewsThere
  <2> QED
    BY <2>1, <2>2, <2>3 DEF ViewTypes
<1>8. /\ dir \in Directories /\ named \in Directories /\ dir' \in Directories
      /\ named.names = dir.names \cup {Log(l)} /\ named.current = dir.current
      /\ dir'.names = dir.names \cup {Log(l), Manifest(m)} /\ dir'.current = dir.current
  <2>1. Log(l) \in Files /\ Manifest(m) \in Files /\ dir \in Directories
    BY <1>2, <1>7 DEF Files, Log, Manifest
  <2>2. dir = [names |-> dir.names, current |-> dir.current] /\ dir.names \in SUBSET Files
        /\ dir.current \in Nat
    BY <2>1 DEF Directories
  <2>3. named = [names |-> dir.names \cup {Log(l)}, current |-> dir.current]
    BY <2>2
  <2>4. dir' = [names |-> dir.names \cup {Log(l), Manifest(m)}, current |-> dir.current]
    <3>1. (dir.names \cup {Log(l)}) \cup {Manifest(m)} = dir.names \cup {Log(l), Manifest(m)}
      OBVIOUS
    <3> QED
      BY <1>1, <2>3, <3>1
  <2>5. dir.names \cup {Log(l)} \in SUBSET Files
        /\ dir.names \cup {Log(l), Manifest(m)} \in SUBSET Files
    BY <2>1, <2>2
  <2> HIDE DEF named
  <2> QED
    BY <2>1, <2>2, <2>3, <2>4, <2>5 DEF Directories
<1> HIDE DEF named, log, man
<1>9. earlier' \subseteq Dirs \cup {named} /\ dir' \notin earlier' /\ (PowerFails \/ earlier' = {})
  BY <1>1 DEF Past, Dirs
<1>10. \A d \in Dirs' : d = dir' \/ d = named \/ d \in Dirs
  BY <1>9 DEF Dirs
<1>11. /\ DOMAIN files' = DOMAIN files \cup {Log(l), Manifest(m)}
       /\ files'[Log(l)] = log /\ files'[Manifest(m)] = man
       /\ \A f \in DOMAIN files : f # Log(l) /\ f # Manifest(m) => files'[f] = files[f]
       /\ files' = [f \in DOMAIN files' |-> files'[f]]
  <2>1. Log(l) # Manifest(m)
    BY DEF Log, Manifest
  <2> QED
    BY <1>1, <2>1
<1>12. IsLog(log) /\ ~Torn(log.data) /\ IsManifest(man) /\ ~Torn(man.data)
  <2> USE DEF log, man
  <2>1. /\ <<>> \in Seq(Batches \cup {Tear}) /\ Len(<<>>) = 0
    OBVIOUS
  <2>2. /\ <<snapshot, edit>> \in Seq(Edits \cup {Tear}) /\ Len(<<snapshot, edit>>) = 2
        /\ <<snapshot, edit>>[1] # Tear /\ <<snapshot, edit>>[2] # Tear
    BY <1>3 DEF DurableStoreNone
  <2>3. ~Torn(<<>>) /\ ~Torn(<<snapshot, edit>>)
    BY <2>1, <2>2 DEF Torn
  <2> QED
    BY <2>1, <2>2, <2>3 DEF IsLog, IsManifest
<1>13. FileTypes'
  <2>1. ASSUME NEW f \in DOMAIN files' PROVE FileOf(f[1], files'[f])
    <3>1. CASE f = Log(l)
      BY <1>11, <1>12, <3>1 DEF FileOf, Log
    <3>2. CASE f = Manifest(m)
      BY <1>11, <1>12, <3>2 DEF FileOf, Manifest
    <3>3. CASE f # Log(l) /\ f # Manifest(m)
      BY <1>11, <3>3 DEF FileTypes
    <3> QED
      BY <3>1, <3>2, <3>3
  <2>2. \A f \in DOMAIN files' : FileOf(f[1], files[f])'
    BY <2>1 DEF FileOf, LogFaults, JobFaults, IsLog, IsManifest, IsTable, Batches, Torn
  <2>3. DOMAIN files' \subseteq Files
    BY <1>2, <1>11 DEF FileTypes, Files, Log, Manifest
  <2>4. \A d \in Dirs' : d \in Directories /\ d.names \subseteq DOMAIN files'
    BY <1>7, <1>8, <1>10, <1>11
  <2>5. Manifest(1) \in DOMAIN files' => FirstOf(files[Manifest(1)])'
    <3>1. Manifest(1) # Manifest(m) /\ Manifest(1) # Log(l)
      BY <1>7 DEF Manifest, Log
    <3>2. Manifest(1) \in DOMAIN files' => FirstOf(files'[Manifest(1)])
      BY <1>11, <3>1 DEF FileTypes
    <3> QED
      BY <3>2 DEF FirstOf, Edit, Manifest
  <2>6. disk' \in Disks /\ PowerFails' = PowerFails /\ Files' = Files /\ Directories' = Directories
    BY DEF FileTypes, PowerFails, Files, Directories
  <2> QED
    BY <1>9, <1>11, <2>2, <2>3, <2>4, <2>5, <2>6 DEF FileTypes
<1>14. /\ \A n : n # m => Manifest(n) # Manifest(m)
       /\ \A n : Manifest(n) # Log(l) /\ Table(n) # Log(l) /\ Table(n) # Manifest(m)
  BY DEF Manifest, Log, Table
<1>15. Current(dir)' = Current(dir) /\ Latest' = Latest
  <2>1. dir.current # m /\ Manifest(dir.current) \in DOMAIN files
    <3>1. dir.current < Latest.next
      <4>1. NamedAt(dir) /\ dir.current # 0 /\ Latest.next > 0
        BY <1>2, <1>7 DEF Named
      <4> QED
        BY <4>1 DEF NamedAt
    <3> QED
      BY <1>7, <3>1, ViewsThere DEF ViewTypes
  <2>2. files'[Manifest(dir.current)] = files[Manifest(dir.current)]
    BY <1>11, <1>14, <2>1
  <2> QED
    BY <1>8, <2>2 DEF Current, Latest
<1>16. \A d \in Dirs : \A u : Table(u) \in d.names =>
          /\ Table(u) \in DOMAIN files /\ Table(u) \in DOMAIN files'
          /\ files'[Table(u)] = files[Table(u)]
  BY <1>7, <1>11, <1>14
<1>17. ASSUME NEW d \in Dirs' PROVE NamedAt(d)'
  <2>1. PICK d0 \in Dirs : /\ d.current = d0.current /\ d0.names \subseteq d.names
                           /\ d = dir' => d0 = dir
                           /\ \/ d = d0
                              \/ d.names = d0.names \cup {Log(l)}
                              \/ d.names = d0.names \cup {Log(l), Manifest(m)}
    BY <1>7, <1>8, <1>10
  <2>2. NamedAt(d0) /\ d0.current \in Nat
    BY <1>7 DEF Named, Directories
  <2>3. CASE d0.current = 0
    <3>1. d = d0
      <4>1. d # dir'
        BY <1>7, <1>8, <2>1, <2>3
      <4>2. d # named
        BY <1>7, <1>8, <2>1, <2>3
      <4>3. d \in Dirs
        BY <1>10, <4>1, <4>2
      <4>4. d.names \subseteq {Manifest(1)}
        BY <2>1, <2>3, <4>3 DEF Named, NamedAt
      <4>5. Log(l) # Manifest(1)
        BY DEF Log, Manifest
      <4> QED
        BY <2>1, <4>4, <4>5
    <3> QED
      BY <2>2, <2>3, <3>1 DEF NamedAt
  <2>4. CASE d0.current # 0
    <3>1. d0.current > 0 /\ Manifest(d0.current) \in d0.names /\ Views(d0) \subseteq ViewTypes
      BY <2>2, <2>4, ViewsThere
    <3>2. d0.current < m
      <4>1. Latest.next > 0 /\ Latest.next = m
        BY <1>2, <1>7
      <4> QED
        BY <2>2, <2>4, <4>1 DEF NamedAt
    <3>3. files'[Manifest(d.current)] = files[Manifest(d.current)]
      <4>1. d.current # m
        BY <1>2, <2>1, <2>2, <3>2
      <4>2. Manifest(d.current) \in DOMAIN files
        BY <1>7, <2>1, <3>1
      <4> QED
        BY <1>11, <1>14, <4>1, <4>2
    <3>4. Views(d)' \subseteq Views(d0)
      BY <2>1, <3>3, Carried
    <3>5. \A v \in Views(d0) : \A u \in v.tables :
             /\ Table(u) \in d.names /\ files'[Table(u)] = files[Table(u)]
             /\ Table(u) \in DOMAIN files /\ Table(u) \in DOMAIN files'
      <4> TAKE v \in Views(d0)
      <4> TAKE u \in v.tables
      <4>1. Table(u) \in d0.names
        BY <2>2, <3>1 DEF NamedAt, Fits
      <4> QED
        BY <1>16, <2>1, <4>1
    <3>6. \A k \in Manifests(d) : k <= d.current \/ \E n \in Logs(d) : k < n
      <4> TAKE k \in Manifests(d)
      <4>1. Manifests(d) \subseteq Manifests(d0) \cup {m} /\ Logs(d0) \subseteq Logs(d)
        BY <2>1 DEF Manifests, Logs, Numbers, Log, Manifest
      <4>2. CASE k \in Manifests(d0)
        <5>1. k <= d0.current \/ \E n \in Logs(d0) : k < n
          BY <2>2, <3>1, <4>2 DEF NamedAt
        <5> QED
          BY <2>1, <4>1, <5>1
      <4>3. CASE k \notin Manifests(d0)
        <5>1. k = m /\ d.names = d0.names \cup {Log(l), Manifest(m)}
          BY <2>1, <4>1, <4>3 DEF Manifests, Numbers, Log
        <5>2. l \in Logs(d)
          <6>1. Log(l) \in d.names /\ Log(l)[1] = "log" /\ Log(l)[2] = l
            BY <5>1 DEF Log
          <6> QED
            BY <6>1 DEF Logs, Numbers
        <5> QED
          BY <1>7, <5>1, <5>2
      <4> QED
        BY <4>2, <4>3
    <3>7. Latest.next \in Nat /\ Latest'.next = Latest.next
      BY <1>7, <1>15 DEF ViewTypes
    <3>8. Latest'.next > 0 => d.current < Latest'.next
      BY <1>7, <2>1, <3>2, <3>7
    <3> QED
      BY <2>1, <2>2, <3>1, <3>4, <3>5, <3>6, <3>7, <3>8, StillNamed
  <2> QED
    BY <2>3, <2>4
<1>18. Named'
  BY <1>1, <1>5, <1>7, <1>8, <1>15, <1>17 DEF Named
<1>19. ~Up' /\ db'.phase = "manifest"
  BY <1>5 DEF Up
<1>20. StoreTypes'
  <2>1. acked' \subseteq Batches' /\ safe' \subseteq Batches' /\ stops' \in 0 .. MaxStops'
    BY <1>1 DEF StoreTypes, Batches, MaxStops
  <2>2. Batches' = Batches
    BY DEF Batches
  <2>3. /\ db.mem = {} /\ db.imm = {} /\ db.held = {} /\ db.pending = {}
        /\ db.writer = None /\ db.flush = 0 /\ db.merge = None /\ ~db.bgError
    BY <1>2 DEF StoreTypes
  <2> QED
    BY <1>5, <1>6, <1>19, <2>1, <2>2, <2>3 DEF StoreTypes
<1>21. Opening' /\ Made'
  <2>1. /\ m = Latest.next /\ db.logNumber = Latest.log /\ db.version = Latest.tables
        /\ \A u \in db.found : Latest.next < u /\ u < l /\ Table(u) \in dir.names
        /\ \A n \in InTables(db.found, files) : n <= db.lastSequence
        /\ \A k \in Logs(dir) : k < l
        /\ Latest.last <= db.lastSequence
    BY <1>1 DEF Opening
  <2>2. InTables(db.found, files') = InTables(db.found, files)
    BY <1>7, <1>16, <2>1, InTablesSame
  <2>3. \A k \in Logs(dir)' : k < l + 1
    <3>1. Logs(dir)' \subseteq Logs(dir) \cup {l} /\ Logs(dir) \subseteq Nat
      BY <1>7, <1>8, NumbersAre DEF Logs, Numbers, Log, Manifest
    <3> QED
      BY <1>2, <2>1, <3>1
  <2>4. \A u \in db.found : Latest.next < u /\ u < l + 1 /\ Table(u) \in dir'.names
    BY <1>2, <1>8, <2>1 DEF Stores
  <2>5. Latest.next < l + 1 /\ l < l + 1
    BY <1>2, <1>7 DEF ViewTypes
  <2>6. Opening'
    BY <1>5, <1>15, <2>1, <2>2, <2>3, <2>4, <2>5 DEF Opening
  <2>7. Made'
    <3>1. files'[Log(l)].data = <<>> /\ files'[Manifest(m)].data = <<snapshot, edit>>
      BY <1>11 DEF log, man
    <3>2. files'[Manifest(m)].data =
             <<Edit(db'.version, {}, 0, 0, 0),
               Edit(db'.found, {}, db'.logfile, db'.nextFile, db'.lastSequence)>>
      BY <1>5, <3>1 DEF snapshot, edit
    <3>3. (Log(l) \in dir'.names) /\ (Manifest(m) \in dir'.names) /\ m < l
      BY <1>7, <1>8
    <3>4. db'.phase # "current"
      BY <1>5
    <3> QED
      BY <1>5, <3>1, <3>2, <3>3, <3>4 DEF Made, Log, Manifest, Edit
  <2> QED
    BY <2>6, <2>7
<1>22. Open' /\ Working' /\ Editing' /\ Exact'
  BY <1>19 DEF Open, Working, Editing, Exact
<1> QED
  BY <1>13, <1>18, <1>20, <1>21, <1>22

(* A file is synced.                                                       *)
LEMMA SyncedIs ==
    ASSUME FileTypes, NEW f \in DOMAIN files, IsManifest(files[f])
    PROVE  /\ Synced(f, files) = With(f, files[f].data, Len(files[f].data))
           /\ DOMAIN Synced(f, files) = DOMAIN files
           /\ Synced(f, files)[f] = [data |-> files[f].data, synced |-> Len(files[f].data)]
           /\ \A g \in DOMAIN files : g # f => Synced(f, files)[g] = files[g]
<1> DEFINE g == files[f]
           s == Synced(f, files)
           w == With(f, g.data, Len(g.data))
<1>1. g = [data |-> g.data, synced |-> g.synced]
  BY DEF IsManifest
<1>2. s = [files EXCEPT ![f] = [g EXCEPT !.synced = Len(g.data)]]
  BY DEF Synced
<1>3. [g EXCEPT !.synced = Len(g.data)] = [data |-> g.data, synced |-> Len(g.data)]
  BY <1>1
<1>4. files = [e \in DOMAIN files |-> files[e]]
  BY DEF FileTypes
<1>5. s = [e \in DOMAIN files |-> IF e = f THEN [data |-> g.data, synced |-> Len(g.data)]
                                  ELSE files[e]]
  BY <1>2, <1>3, <1>4
<1>6. w = [e \in DOMAIN files |-> IF e = f THEN [data |-> g.data, synced |-> Len(g.data)]
                                  ELSE files[e]]
  <2>1. DOMAIN files \cup {f} = DOMAIN files
    OBVIOUS
  <2> QED
    BY <2>1 DEF With
<1> HIDE DEF s, w
<1> QED
  BY <1>5, <1>6 DEF s, w

(* SyncManifest.                                                           *)
LEMMA SyncManifestInv ==
    ASSUME DurableStoreAssumption, DurableStoreNone, StoreInv, UNCHANGED disk, SyncManifest
    PROVE  StoreInv'
<1> USE DEF StoreInv
<1> DEFINE m == db.manifest
           f == Manifest(m)
           g == files[f]
           h == [data |-> g.data, synced |-> Len(g.data)]
<1>1. /\ db.phase = "manifest" /\ db' = [db EXCEPT !.phase = "current"]
      /\ files' = Synced(f, files) /\ UNCHANGED <<dir, acked, safe, stops>>
      /\ earlier' = {}
  BY DEF SyncManifest, Unchanged, Past, AfterSync
<1>2. /\ db \in Stores /\ m \in Nat /\ ~Up
      /\ dir.current > 0 /\ dir.current \in Nat /\ Latest \in ViewTypes /\ Latest.next = m
      /\ dir.current < m /\ dir \in Dirs /\ Dirs \subseteq Directories
      /\ NamedAt(dir) /\ Views(dir) \subseteq ViewTypes
      /\ Manifest(dir.current) \in dir.names
      /\ dir.names \subseteq Files /\ dir.names \subseteq DOMAIN files
  <2>1. dir.current > 0 /\ dir.current \in Nat /\ Latest \in ViewTypes /\ Latest.next = m
        /\ dir \in Dirs /\ Latest.next > 0
    BY <1>1, ViewsThere DEF Named, Directories, Opening
  <2>2. NamedAt(dir)
    BY <2>1 DEF Named
  <2>3. dir.current < Latest.next
    BY <2>1, <2>2 DEF NamedAt
  <2> QED
    BY <1>1, <2>1, <2>2, <2>3, ViewsThere DEF StoreTypes, Stores, Up
<1>3. /\ f \in dir.names /\ f \in DOMAIN files /\ FileOf("manifest", g) /\ IsManifest(g)
      /\ Len(g.data) = 2
  <2>1. f \in dir.names /\ Len(g.data) = 2
    BY <1>1 DEF Made
  <2>2. f \in DOMAIN files /\ f[1] = "manifest"
    BY <1>2, <2>1 DEF Manifest
  <2> QED
    BY <2>1, <2>2 DEF FileTypes, FileOf
<1>4. /\ files' = With(f, g.data, Len(g.data)) /\ DOMAIN files' = DOMAIN files
      /\ files'[f] = h
      /\ \A e \in DOMAIN files : e # f => files'[e] = files[e]
  BY <1>1, <1>3, SyncedIs
<1>5. Dirs' = {dir} /\ dir' = dir
  BY <1>1 DEF Dirs
<1>6. FileTypes'
  <2>1. f \in Files /\ f[1] = "manifest" /\ f # Manifest(1)
    BY <1>2, <1>3 DEF Manifest
  <2>2. FileOf("manifest", h)
    BY <1>3 DEF FileOf, IsManifest
  <2> DEFINE data == g.data
             synced == Len(g.data)
  <2>3. /\ files' = With(f, data, synced) /\ f \in Files
        /\ FileOf(f[1], [data |-> data, synced |-> synced])
        /\ f = Manifest(1) => FirstOf([data |-> data, synced |-> synced])
    BY <1>4, <2>1, <2>2
  <2>4. FileTypes /\ UNCHANGED disk
    OBVIOUS
  <2>5. /\ Dirs' \subseteq Directories /\ (PowerFails \/ earlier' = {})
        /\ \A d \in Dirs' : d.names \subseteq DOMAIN files \cup {f}
    BY <1>1, <1>2, <1>5
  <2> HIDE DEF f, data, synced
  <2> QED
    BY <2>3, <2>4, <2>5, WithOne
<1>7. /\ \A n : n # m => Manifest(n) # f
      /\ \A n : Table(n) # f /\ Log(n) # f
  BY DEF Manifest, Table, Log
<1>8. Current(dir)' = Current(dir) /\ Latest' = Latest
  <2>1. files'[Manifest(dir.current)] = files[Manifest(dir.current)]
    BY <1>2, <1>4, <1>7
  <2> QED
    BY <1>5, <2>1 DEF Current, Latest
<1>9. \A u : Table(u) \in dir.names =>
         /\ Table(u) \in DOMAIN files /\ Table(u) \in DOMAIN files'
         /\ files'[Table(u)] = files[Table(u)]
  BY <1>2, <1>4, <1>7
<1>10. ASSUME NEW d, d = dir PROVE NamedAt(d)'
  <2>1. d.current = dir.current /\ d.names = dir.names
    BY <1>10
  <2>2. Views(d)' \subseteq Views(d)
    <3>1. files'[Manifest(d.current)] = files[Manifest(d.current)]
      BY <1>2, <1>4, <1>7, <2>1
    <3> QED
      BY <1>5, <1>10, <3>1, Carried
  <2>3. NamedAt(d) /\ Views(d) \subseteq ViewTypes
    BY <1>2, <1>10
  <2>4. \A v \in Views(d) : \A u \in v.tables :
           /\ Table(u) \in d.names /\ files'[Table(u)] = files[Table(u)]
           /\ Table(u) \in DOMAIN files /\ Table(u) \in DOMAIN files'
    <3>1. \A v \in Views(d) : Fits(d, v)
      BY <1>2, <2>1, <2>3 DEF NamedAt
    <3> QED
      BY <1>9, <2>1, <3>1 DEF Fits
  <2>5. \A k \in Manifests(d) : k <= d.current \/ \E n \in Logs(d) : k < n
    BY <1>2, <2>1, <2>3 DEF NamedAt
  <2>6. Latest.next \in Nat /\ Latest'.next = Latest.next
    BY <1>2, <1>8
  <2>7. /\ d.current \in Nat /\ d.current > 0 /\ d.current < Latest'.next
        /\ Manifest(d.current) \in d.names
    BY <1>2, <2>1, <2>6
  <2> QED
    BY <2>2, <2>3, <2>4, <2>5, <2>6, <2>7, StillNamed
<1>11. /\ db'.phase = "current" /\ db'.mem = db.mem /\ db'.imm = db.imm
       /\ db'.logfile = db.logfile /\ db'.logNumber = db.logNumber
       /\ db'.version = db.version /\ db'.nextFile = db.nextFile
       /\ db'.manifest = m /\ db'.lastSequence = db.lastSequence
       /\ db'.held = db.held /\ db'.writer = db.writer /\ db'.left = db.left
       /\ db'.found = db.found /\ db'.flush = db.flush /\ db'.edit = db.edit
       /\ db'.merge = db.merge /\ db'.pending = db.pending /\ db'.bgError = db.bgError
  BY <1>1, <1>2 DEF Stores
<1>12. db' \in Stores /\ ~Up' /\ db'.phase # "closed" /\ db'.phase # "logs"
  BY <1>1, <1>2, <1>11 DEF Stores, Up
<1>13. Named'
  <2>1. \A d \in Dirs' : NamedAt(d)'
    BY <1>5, <1>10
  <2> QED
    BY <1>2, <1>5, <1>8, <2>1 DEF Named
<1>14. StoreTypes'
  <2>1. acked' \subseteq Batches' /\ safe' \subseteq Batches' /\ stops' \in 0 .. MaxStops'
    BY <1>1 DEF StoreTypes, Batches, MaxStops
  <2>2. Batches' = Batches
    BY DEF Batches
  <2> QED
    BY <1>2, <1>11, <1>12, <2>1, <2>2 DEF StoreTypes
<1>15. Opening'
  <2>1. \A u \in db.found : Table(u) \in dir.names
    BY <1>1 DEF Opening
  <2>2. InTables(db.found, files') = InTables(db.found, files)
    BY <1>9, <2>1, InTablesSame
  <2>3. Logs(dir)' = Logs(dir)
    BY <1>5 DEF Logs
  <2> QED
    BY <1>1, <1>5, <1>8, <1>11, <2>2, <2>3 DEF Opening
<1>16. Made'
  <2>1. files'[Log(db.logfile)] = files[Log(db.logfile)]
    <3>1. Log(db.logfile) \in DOMAIN files
      BY <1>1, <1>2 DEF Made
    <3> QED
      BY <1>4, <1>7, <3>1
  <2>2. files'[f].data = g.data /\ files'[f].synced = 2
    BY <1>3, <1>4
  <2> QED
    BY <1>1, <1>5, <1>11, <2>1, <2>2 DEF Made, Log, Manifest, Edit
<1>17. Open' /\ Working' /\ Editing' /\ Exact'
  BY <1>12 DEF Open, Working, Editing, Exact
<1> QED
  BY <1>6, <1>13, <1>14, <1>15, <1>16, <1>17

-----------------------------------------------------------------------------
(* A version is installed.                                                 *)

(* Of the files only those stay that some state of the directory names.    *)
LEMMA InstalledFiles ==
    ASSUME FileTypes, UNCHANGED disk, dir \in Directories, NEW N \in SUBSET dir.names,
           NEW c \in Nat, dir' = [names |-> N, current |-> c], NEW fs,
           earlier' \subseteq {dir, [dir EXCEPT !.current = c]}, PowerFails \/ earlier' = {},
           files' = [f \in UNION {e.names : e \in earlier' \cup {dir'}} |-> fs[f]],
           \A f \in dir.names : FileOf(f[1], fs[f]),
           Manifest(1) \in dir.names => FirstOf(fs[Manifest(1)])
    PROVE  /\ FileTypes'
           /\ \A d \in Dirs' : \A f \in d.names : f \in DOMAIN files' /\ files'[f] = fs[f]
           /\ \A d \in Dirs' : \/ d = dir' /\ d.names = N /\ d.current = c
                               \/ d = dir
                               \/ d.names = dir.names /\ d.current = c
<1> DEFINE other == [dir EXCEPT !.current = c]
<1>1. /\ dir'.names = N /\ dir'.current = c /\ dir.names \subseteq Files
      /\ other \in Directories /\ other.names = dir.names /\ other.current = c
      /\ dir' \in Directories
  BY DEF Directories
<1> HIDE DEF other
<1>2. Dirs' = earlier' \cup {dir'}
  BY DEF Dirs
<1>3. \A d \in Dirs' : d = dir' \/ d = dir \/ d = other
  BY <1>2 DEF other
<1>4. \A d \in Dirs' : d.names \subseteq dir.names /\ d \in Directories
  BY <1>1, <1>3
<1>5. DOMAIN files' = UNION {d.names : d \in Dirs'} /\ files' = [f \in DOMAIN files' |-> fs[f]]
  BY <1>2
<1>6. \A d \in Dirs' : \A f \in d.names : f \in DOMAIN files' /\ files'[f] = fs[f]
  BY <1>5
<1>7. ASSUME NEW f \in DOMAIN files' PROVE f \in dir.names /\ files'[f] = fs[f]
  BY <1>4, <1>5
<1>8. FileTypes'
  <2>1. \A f \in DOMAIN files' : FileOf(f[1], files'[f])
    BY <1>7
  <2>2. \A f \in DOMAIN files' : FileOf(f[1], files[f])'
    BY <2>1 DEF FileOf, LogFaults, JobFaults, IsLog, IsManifest, IsTable, Batches, Torn
  <2>3. Manifest(1) \in DOMAIN files' => FirstOf(files[Manifest(1)])'
    <3>1. Manifest(1) \in DOMAIN files' => FirstOf(files'[Manifest(1)])
      BY <1>7
    <3> QED
      BY <3>1 DEF FirstOf, Edit, Manifest
  <2>4. disk' \in Disks /\ PowerFails' = PowerFails /\ Files' = Files /\ Directories' = Directories
    BY DEF FileTypes, PowerFails, Files, Directories
  <2>5. DOMAIN files' \subseteq Files /\ files' = [f \in DOMAIN files' |-> files'[f]]
    BY <1>1, <1>5, <1>7
  <2>6. \A d \in Dirs' : d.names \subseteq DOMAIN files'
    BY <1>6
  <2> QED
    BY <1>4, <2>2, <2>3, <2>4, <2>5, <2>6 DEF FileTypes
<1> QED
  BY <1>1, <1>3, <1>6, <1>8

(* The manifest that is made when a store is opened can be read in one way.*)
LEMMA MadeView ==
    ASSUME DurableStoreNone, StoreInv, db.phase = "current", NEW man,
           man = files[Manifest(db.manifest)]
    PROVE  /\ IsManifest(man) /\ man.synced = Len(man.data) /\ ~Torn(man.data)
           /\ ViewOf(man).tables = db.version \cup db.found /\ ViewOf(man).next = db.nextFile
           /\ ViewOf(man).log = db.logfile /\ ViewOf(man).last = db.lastSequence
           /\ \A a \in BOOLEAN : ViewsOf(man, a) = {ViewOf(man)}
<1> DEFINE snapshot == Edit(db.version, {}, 0, 0, 0)
           edit == Edit(db.found, {}, db.logfile, db.nextFile, db.lastSequence)
<1>1. /\ Manifest(db.manifest) \in dir.names /\ man.data = <<snapshot, edit>> /\ man.synced = 2
      /\ dir.names \subseteq DOMAIN files /\ db \in Stores
  BY ViewsThere DEF StoreInv, Made, StoreTypes
<1>2. /\ snapshot \in Edits /\ edit \in Edits /\ edit.next = db.nextFile /\ edit.log = db.logfile
      /\ edit.last = db.lastSequence /\ edit.add = db.found /\ edit.del = {}
      /\ snapshot.add = db.version /\ snapshot.del = {}
  BY <1>1 DEF Stores, Edits, Edit
<1> HIDE DEF snapshot, edit
<1>3. IsManifest(man)
  <2>1. Manifest(db.manifest) \in DOMAIN files /\ Manifest(db.manifest)[1] = "manifest"
    BY <1>1 DEF Manifest
  <2> QED
    BY <2>1 DEF StoreInv, FileTypes, FileOf
<1>4. /\ <<snapshot, edit>> \in Seq(Edits \cup {Tear}) /\ Len(<<snapshot, edit>>) = 2
      /\ snapshot # Tear /\ edit # Tear /\ Tear \notin Edits
      /\ <<snapshot, edit>>[1] = snapshot /\ <<snapshot, edit>>[2] = edit
  BY <1>2 DEF DurableStoreNone
<1>5. ~Torn(<<snapshot, edit>>)
  BY <1>4 DEF Torn
<1>6. Records(<<snapshot, edit>>) = <<snapshot, edit>>
  BY <1>4, <1>5, RecordsAre
<1>7. ViewOf(man) = After(After(Replay(<<>>), snapshot), edit)
  BY <1>1, <1>2, <1>6, ReplayTwo DEF ViewOf
<1>8. After(Replay(<<>>), snapshot).tables = db.version
  BY <1>2, ReplayAre DEF After
<1>9. After(After(Replay(<<>>), snapshot), edit).tables = db.version \cup db.found
  BY <1>2, <1>8 DEF After
<1>10. /\ ViewOf(man).next = db.nextFile /\ ViewOf(man).log = db.logfile
       /\ ViewOf(man).last = db.lastSequence
  BY <1>2, <1>7 DEF After
<1>11. man.synced = Len(man.data) /\ ~Torn(man.data)
  BY <1>1, <1>4, <1>5
<1>12. \A a \in BOOLEAN : ViewsOf(man, a) = {ViewOf(man)}
  BY <1>3, <1>11, ViewsAre
<1> QED
  BY <1>3, <1>7, <1>9, <1>10, <1>11, <1>12

(* SetCurrentFile.                                                         *)
LEMMA SetCurrentFileInv ==
    ASSUME DurableStoreAssumption, DurableStoreNone, StoreInv, UNCHANGED disk,
           SetCurrentFile
    PROVE  StoreInv'
<1> USE DEF StoreInv
<1> DEFINE m == db.manifest
           l == db.logfile
           version == db.version \cup db.found
           up == [db EXCEPT !.phase = "up", !.version = @ \cup db.found, !.found = {},
                            !.logNumber = l, !.edit = None]
           other == [dir EXCEPT !.current = m]
           man == files[Manifest(m)]
<1>1. db.phase = "current" /\ UNCHANGED <<acked, safe, stops>>
      /\ Installed(up, m, AfterSync(FALSE), files)
  BY DEF SetCurrentFile, Unchanged
<1>2. /\ earlier = {} /\ db.left = {} /\ db.nextFile = l + 1 /\ m < l
      /\ Log(l) \in dir.names /\ Manifest(m) \in dir.names
      /\ files[Log(l)].data = <<>>
      /\ m = Latest.next /\ db.version = Latest.tables /\ Latest.next < db.nextFile
      /\ Latest.last <= db.lastSequence
      /\ \A t \in db.found : Latest.next < t /\ t < db.nextFile /\ Table(t) \in dir.names
      /\ \A n \in InTables(db.found, files) : n <= db.lastSequence
      /\ \A k \in Logs(dir) : k < db.nextFile
  BY <1>1 DEF Made, Opening
<1> HIDE DEF version
<1>3. /\ db \in Stores /\ m \in Nat /\ l \in Nat /\ dir.current > 0 /\ dir.current \in Nat
      /\ dir.current < m /\ dir \in Dirs /\ dir \in Directories /\ Latest \in ViewTypes
      /\ NamedAt(dir) /\ Fits(dir, Latest) /\ dir.names \subseteq DOMAIN files
      /\ dir.names \subseteq Files /\ Logs(dir) \subseteq Nat /\ Manifests(dir) \subseteq Nat
      /\ Views(dir) \subseteq ViewTypes /\ Manifest(dir.current) \in dir.names
      /\ ~Up
  <2>1. dir.current > 0 /\ dir.current \in Nat /\ Latest \in ViewTypes /\ Latest.next > 0
        /\ Latest \in Views(dir) /\ dir \in Dirs /\ dir \in Directories
        /\ Views(dir) \subseteq ViewTypes
        /\ dir.names \subseteq DOMAIN files /\ dir.names \subseteq Files
        /\ Manifest(dir.current) \in dir.names
    BY <1>1, ViewsThere DEF Named, Directories
  <2>2. NamedAt(dir)
    BY <2>1 DEF Named
  <2>3. dir.current < Latest.next /\ Fits(dir, Latest)
    BY <2>1, <2>2 DEF NamedAt
  <2>4. Logs(dir) \subseteq Nat /\ Manifests(dir) \subseteq Nat
    BY <2>1, NumbersAre DEF Logs, Manifests
  <2> QED
    BY <1>1, <1>2, <2>1, <2>2, <2>3, <2>4 DEF StoreTypes, Stores, Up
<1>4. /\ db.mem = {} /\ db.imm = {} /\ db.held = {} /\ db.pending = {} /\ db.writer = None
      /\ db.flush = 0 /\ db.merge = None /\ ~db.bgError
  BY <1>3 DEF StoreTypes
<1>5. /\ db' = up /\ dir' = [names |-> Kept(up), current |-> m]
      /\ earlier' \subseteq {dir, other} /\ (PowerFails \/ earlier' = {})
      /\ files' = [f \in UNION {e.names : e \in earlier' \cup {dir'}} |-> files[f]]
  BY <1>1, <1>2 DEF Installed, Past, AfterSync
<1>6. /\ up.phase = "up" /\ up.mem = db.mem /\ up.imm = db.imm
      /\ up.logfile = l /\ up.logNumber = l
      /\ up.version = version /\ up.nextFile = db.nextFile
      /\ up.manifest = m /\ up.lastSequence = db.lastSequence
      /\ up.held = db.held /\ up.writer = db.writer /\ up.left = db.left
      /\ up.found = {} /\ up.flush = db.flush /\ up.edit = None
      /\ up.merge = db.merge /\ up.pending = db.pending /\ up.bgError = db.bgError
  BY <1>3 DEF Stores, version
<1>7. up \in Stores
  <2>1. version \in SUBSET Nat
    BY <1>3 DEF Stores, version
  <2> QED
    BY <1>3, <2>1 DEF Stores, version
<1> HIDE DEF up
<1>8. Version(up) = version
  BY <1>4, <1>6 DEF Version
<1>9. /\ Kept(up) \subseteq dir.names /\ Log(l) \in Kept(up) /\ Manifest(m) \in Kept(up)
      /\ \A t \in version : Table(t) \in dir.names => Table(t) \in Kept(up)
      /\ \A k : Log(k) \in Kept(up) => k >= l
  <2>1. Kept(up) = {f \in dir.names :
                      \/ f[1] = "log" /\ f[2] >= l
                      \/ f[1] = "manifest" /\ f[2] >= m
                      \/ f[1] = "table" /\ f[2] \in version}
    BY <1>4, <1>6, <1>8 DEF Kept
  <2> QED
    BY <1>2, <1>3, <2>1 DEF Log, Manifest, Table
<1>10. /\ FileTypes'
       /\ \A d \in Dirs' : \A f \in d.names : f \in DOMAIN files' /\ files'[f] = files[f]
       /\ \A d \in Dirs' : \/ d = dir' /\ d.names = Kept(up) /\ d.current = m
                           \/ d = dir
                           \/ d.names = dir.names /\ d.current = m
  <2>1. \A f \in dir.names : FileOf(f[1], files[f])
    BY <1>3 DEF FileTypes
  <2>2. Manifest(1) \in dir.names => FirstOf(files[Manifest(1)])
    BY <1>3 DEF FileTypes
  <2>3. Kept(up) \in SUBSET dir.names /\ FileTypes
    BY <1>9
  <2> HIDE DEF m
  <2> QED
    BY <1>3, <1>5, <2>1, <2>2, <2>3, InstalledFiles
<1>11. /\ dir' \in Dirs' /\ dir'.names = Kept(up) /\ dir'.current = m
  BY <1>5 DEF Dirs
<1>12. /\ IsManifest(man) /\ man.synced = Len(man.data) /\ ~Torn(man.data)
       /\ ViewOf(man).tables = version /\ ViewOf(man).next = db.nextFile
       /\ ViewOf(man).log = l /\ ViewOf(man).last = db.lastSequence
       /\ \A a \in BOOLEAN : ViewsOf(man, a) = {ViewOf(man)}
  <2>1. StoreInv /\ db.phase = "current" /\ man = files[Manifest(db.manifest)]
    BY <1>1
  <2> HIDE DEF StoreInv, man
  <2> QED
    BY <2>1, MadeView, DurableStoreNone DEF version
<1> HIDE DEF man
<1>13. Latest' = ViewOf(man) /\ Current(dir)' = man
  <2>1. files'[Manifest(m)] = files[Manifest(m)]
    BY <1>9, <1>10, <1>11
  <2> QED
    BY <1>11, <2>1 DEF Latest, Current, man
<1>14. /\ \A t \in version : t < db.nextFile /\ Table(t) \in dir.names /\ Table(t) \in Kept(up)
       /\ \A n \in InTables(version, files) : n <= db.lastSequence
  <2>1. \A t \in db.version : t < db.nextFile /\ Table(t) \in dir.names
    <3>1. \A t \in db.version : t \in Nat /\ t < Latest.next /\ Table(t) \in dir.names
      BY <1>2, <1>3 DEF Fits, ViewTypes
    <3>2. Latest.next \in Nat /\ db.nextFile \in Nat
      BY <1>3 DEF ViewTypes, Stores
    <3> QED
      BY <1>2, <3>1, <3>2
  <2>2. ASSUME NEW n \in InTables(db.version, files) PROVE n <= db.lastSequence
    <3>1. n \in Nat
      <4>1. PICK t \in db.version : Table(t) \in DOMAIN files /\ n \in files[Table(t)].data[1]
        BY <2>2, InTablesAre
      <4> QED
        BY <4>1, BatchesOnly DEF Batches
    <3>2. n <= Latest.last
      BY <1>2, <1>3 DEF Fits
    <3>3. Latest.last \in Nat /\ db.lastSequence \in Nat
      BY <1>3 DEF ViewTypes, Stores
    <3> QED
      BY <1>2, <3>1, <3>2, <3>3
  <2>3. InTables(version, files) = InTables(db.version, files) \cup InTables(db.found, files)
    BY InTablesUnion DEF version
  <2>4. \A t \in version : t < db.nextFile /\ Table(t) \in dir.names
    BY <1>2, <2>1 DEF version
  <2>5. \A n \in InTables(version, files) : n <= db.lastSequence
    BY <1>2, <2>2, <2>3
  <2> QED
    BY <1>9, <2>4, <2>5
<1>15. \A k \in Logs(dir) : k <= l
  BY <1>2, <1>3
<1>16. \A k \in Manifests(dir) : k < l
  <2> TAKE k \in Manifests(dir)
  <2>1. k <= dir.current \/ \E n \in Logs(dir) : k < n
    BY <1>3 DEF NamedAt
  <2> QED
    BY <1>2, <1>3, <1>15, <2>1
<1>17. ASSUME NEW d \in Dirs', d.current = m, d.names \subseteq dir.names,
              Log(l) \in d.names, Manifest(m) \in d.names,
              \A t \in version : Table(t) \in d.names
       PROVE  NamedAt(d)'
  <2>1. Current(d)' = man
    BY <1>10, <1>17 DEF Current, man
  <2>2. Views(d)' = {ViewOf(man)}
    BY <1>12, <2>1 DEF Views
  <2>3. ASSUME NEW v, v = ViewOf(man) PROVE Fits(d, v)'
    <3>1. InTables(v.tables, files') = InTables(v.tables, files)
      <4>1. \A t \in v.tables : /\ Table(t) \in DOMAIN files /\ Table(t) \in DOMAIN files'
                                /\ files'[Table(t)] = files[Table(t)]
        BY <1>3, <1>10, <1>12, <1>17, <2>3
      <4> QED
        BY <4>1, InTablesSame
    <3>2. /\ v.tables = version /\ v.next = db.nextFile /\ v.log = l
          /\ v.last = db.lastSequence /\ Latest'.next = v.next
      BY <1>12, <1>13, <2>3
    <3>3. v.next # 0 /\ d.current < v.next /\ v.log < v.next /\ v.next <= Latest'.next
      BY <1>2, <1>3, <1>17, <3>2
    <3> QED
      BY <1>14, <1>17, <3>1, <3>2, <3>3 DEF Fits
  <2>4. \A k \in Manifests(d) : k <= d.current \/ \E n \in Logs(d) : k < n
    <3>1. l \in Logs(d)
      <4>1. Log(l)[1] = "log" /\ Log(l)[2] = l
        BY DEF Log
      <4> QED
        BY <1>17, <4>1 DEF Logs, Numbers
    <3>2. Manifests(d) \subseteq Manifests(dir)
      BY <1>17 DEF Manifests, Numbers
    <3> QED
      BY <1>16, <3>1, <3>2
  <2>5. d.current < Latest'.next /\ d.current # 0
    BY <1>2, <1>3, <1>12, <1>13, <1>17
  <2> QED
    BY <1>17, <2>2, <2>3, <2>4, <2>5 DEF NamedAt, Manifests, Logs
<1>18. ASSUME NEW d \in Dirs', d = dir, d.current # m PROVE NamedAt(d)'
  <2>1. \A f \in d.names : f \in DOMAIN files' /\ files'[f] = files[f]
    BY <1>10, <1>18
  <2>2. Views(d)' \subseteq Views(dir)
    <3>1. files'[Manifest(d.current)] = files[Manifest(d.current)]
      BY <1>3, <1>18, <2>1
    <3> QED
      BY <1>18, <3>1, Carried
  <2>3. \A v \in Views(dir) : \A u \in v.tables :
           /\ Table(u) \in d.names /\ files'[Table(u)] = files[Table(u)]
           /\ Table(u) \in DOMAIN files /\ Table(u) \in DOMAIN files'
    <3>1. \A v \in Views(dir) : Fits(dir, v)
      BY <1>3 DEF NamedAt
    <3> QED
      BY <1>3, <1>18, <2>1, <3>1 DEF Fits
  <2>4. \A k \in Manifests(d) : k <= d.current \/ \E n \in Logs(d) : k < n
    BY <1>3, <1>18 DEF NamedAt
  <2>5. /\ Latest.next \in Nat /\ Latest'.next \in Nat /\ Latest.next <= Latest'.next
        /\ d.current < Latest'.next
    BY <1>2, <1>3, <1>12, <1>13, <1>18
  <2> QED
    BY <1>3, <1>18, <2>2, <2>3, <2>4, <2>5, StillNamed
<1>19. Named'
  <2>1. ASSUME NEW d \in Dirs' PROVE NamedAt(d)'
    <3>1. CASE d = dir /\ d.current # m
      BY <1>18, <3>1
    <3>2. CASE d = dir' /\ d.names = Kept(up) /\ d.current = m
      BY <1>9, <1>14, <1>17, <3>2
    <3>3. CASE d.names = dir.names /\ d.current = m
      BY <1>2, <1>14, <1>17, <3>3
    <3> QED
      BY <1>10, <3>1, <3>2, <3>3
  <2>2. dir'.current # 0 /\ Latest'.next > 0
    BY <1>2, <1>3, <1>11, <1>12, <1>13
  <2> QED
    BY <2>1, <2>2 DEF Named
<1>20. Up' /\ Version(db') = version
  BY <1>5, <1>6, <1>8 DEF Up
<1>21. StoreTypes'
  <2>1. acked' \subseteq Batches' /\ safe' \subseteq Batches' /\ stops' \in 0 .. MaxStops'
    BY <1>1 DEF StoreTypes, Batches, MaxStops
  <2>2. db'.phase # "closed" /\ db'.phase # "logs"
    BY <1>5, <1>6
  <2> QED
    BY <1>2, <1>4, <1>5, <1>6, <1>7, <1>20, <2>1, <2>2 DEF StoreTypes
<1>22. Open'
  <2>1. InTables(version, files') = InTables(version, files)
    <3>1. \A t \in version : /\ Table(t) \in DOMAIN files /\ Table(t) \in DOMAIN files'
                             /\ files'[Table(t)] = files[Table(t)]
      BY <1>3, <1>10, <1>11, <1>14
    <3> QED
      BY <3>1, InTablesSame
  <2>2. \A k \in Logs(dir)' : k = l
    <3>1. \A k \in Logs(dir)' : Log(k) \in Kept(up) /\ k \in Logs(dir)
      <4>1. Kept(up) \subseteq Files
        BY <1>3, <1>9
      <4>2. Logs(dir)' = Numbers("log", dir')
        BY DEF Logs
      <4>3. \A k \in Numbers("log", dir') : Log(k) \in dir'.names
        BY <1>11, <4>1, NumbersAre
      <4>4. \A k : Log(k) \in dir.names => k \in Logs(dir)
        BY <1>3, NumbersAre DEF Logs
      <4> QED
        BY <1>9, <1>11, <4>2, <4>3, <4>4
    <3> QED
      BY <1>3, <1>9, <1>15, <3>1
  <2>3. \A k \in Manifests(dir)' : k < l
    <3>1. Manifests(dir)' \subseteq Manifests(dir)
      BY <1>9, <1>11 DEF Manifests, Numbers
    <3> QED
      BY <1>16, <3>1
  <2>4. ReadOf(files'[Log(l)]) = {}
    <3>1. IsLog(files[Log(l)])
      <4>1. Log(l)[1] = "log"
        BY DEF Log
      <4> QED
        BY <1>2, <1>3, <4>1 DEF FileTypes, FileOf
    <3>2. files'[Log(l)] = files[Log(l)]
      BY <1>9, <1>10, <1>11
    <3> QED
      BY <1>2, <3>1, <3>2, ReadsAre
  <2>5. \A k \in Logs(dir)' : \A n \in ReadOf(files[Log(k)])' : FALSE
    BY <2>2, <2>4 DEF Log
  <2>6. l < db.nextFile /\ l <= l /\ 1 < m /\ db.nextFile <= db.nextFile
        /\ db.lastSequence <= db.lastSequence
    BY <1>2, <1>3 DEF Stores
  <2>7. \A n \in InTables(version, files') \cup db.mem \cup db.imm : n <= db.lastSequence
    BY <1>4, <1>14, <2>1
  <2> QED
    BY <1>2, <1>5, <1>6, <1>9, <1>11, <1>12, <1>13, <1>14, <1>15, <1>20, <2>2, <2>3, <2>5,
       <2>6, <2>7 DEF Open, Log
<1>23. Working'
  BY <1>4, <1>5, <1>6 DEF Working, Unbuilt
<1>24. Exact'
  BY <1>5, <1>6, <1>12, <1>13 DEF Exact
<1>25. Opening' /\ Made' /\ Editing'
  BY <1>5, <1>6 DEF Opening, Made, Editing
<1> QED
  BY <1>10, <1>19, <1>21, <1>22, <1>23, <1>24, <1>25

(* The store when its edit is over.                                        *)
LEMMA OverAre ==
    ASSUME NEW s \in Stores
    PROVE  /\ Over(s) \in Stores
           /\ Over(s).phase = s.phase /\ Over(s).mem = s.mem /\ Over(s).imm = s.imm
           /\ Over(s).logfile = s.logfile /\ Over(s).logNumber = s.logNumber
           /\ Over(s).version = s.version /\ Over(s).nextFile = s.nextFile
           /\ Over(s).manifest = s.manifest /\ Over(s).lastSequence = s.lastSequence
           /\ Over(s).held = s.held /\ Over(s).writer = s.writer
           /\ Over(s).left = s.left /\ Over(s).found = s.found /\ Over(s).edit = None
           /\ Over(s).flush = 0
           /\ Over(s).merge = (IF s.edit.for = "merge" THEN None ELSE s.merge)
           /\ Over(s).pending = (IF s.edit.for = "merge" THEN s.pending \ {s.merge.out} ELSE s.pending)
           /\ Over(s).bgError = s.bgError
<1> DEFINE j == IF s.edit.for = "merge" THEN None ELSE s.merge
           p == IF s.edit.for = "merge" THEN s.pending \ {s.merge.out} ELSE s.pending
<1>1. Over(s) = [s EXCEPT !.edit = None, !.flush = 0, !.merge = j, !.pending = p]
  BY DEF Over, Stores
<1>2. j \in {None} \cup Merges /\ p \in SUBSET Nat
  BY DEF Stores
<1> HIDE DEF j, p
<1>3. [s EXCEPT !.edit = None, !.flush = 0, !.merge = j, !.pending = p] \in Stores
  BY <1>2 DEF Stores
<1>4. /\ Over(s).phase = s.phase /\ Over(s).mem = s.mem /\ Over(s).imm = s.imm
      /\ Over(s).logfile = s.logfile /\ Over(s).logNumber = s.logNumber
      /\ Over(s).version = s.version /\ Over(s).nextFile = s.nextFile
      /\ Over(s).manifest = s.manifest /\ Over(s).lastSequence = s.lastSequence
      /\ Over(s).held = s.held /\ Over(s).writer = s.writer /\ Over(s).left = s.left
      /\ Over(s).found = s.found /\ Over(s).edit = None /\ Over(s).flush = 0
      /\ Over(s).merge = j /\ Over(s).pending = p /\ Over(s).bgError = s.bgError
  BY <1>1 DEF Stores
<1> QED
  BY <1>1, <1>3, <1>4 DEF j, p

\* The store with version v, its logs from k on and immutable memtable i.
WithVersion(o, v, k, i) == [o EXCEPT !.version = v, !.logNumber = k, !.imm = i]

(* A version is installed.                                                 *)
LEMMA InstalledAre ==
    ASSUME NEW o \in Stores, NEW v \in SUBSET Nat, NEW k \in Nat, NEW i \in SUBSET Batches
    PROVE  /\ WithVersion(o, v, k, i) \in Stores
           /\ WithVersion(o, v, k, i).phase = o.phase
           /\ WithVersion(o, v, k, i).mem = o.mem /\ WithVersion(o, v, k, i).imm = i
           /\ WithVersion(o, v, k, i).logfile = o.logfile
           /\ WithVersion(o, v, k, i).logNumber = k
           /\ WithVersion(o, v, k, i).version = v
           /\ WithVersion(o, v, k, i).nextFile = o.nextFile
           /\ WithVersion(o, v, k, i).manifest = o.manifest
           /\ WithVersion(o, v, k, i).lastSequence = o.lastSequence
           /\ WithVersion(o, v, k, i).held = o.held
           /\ WithVersion(o, v, k, i).writer = o.writer
           /\ WithVersion(o, v, k, i).left = o.left
           /\ WithVersion(o, v, k, i).found = o.found
           /\ WithVersion(o, v, k, i).edit = o.edit
           /\ WithVersion(o, v, k, i).flush = o.flush
           /\ WithVersion(o, v, k, i).merge = o.merge
           /\ WithVersion(o, v, k, i).pending = o.pending
           /\ WithVersion(o, v, k, i).bgError = o.bgError
<1>1. [o EXCEPT !.version = v, !.logNumber = k, !.imm = i] \in Stores
  BY DEF Stores
<1> QED
  BY <1>1 DEF Stores, WithVersion

(* LogAndApply, when the version is installed.                             *)
LEMMA VersionInstalledInv ==
    ASSUME DurableStoreAssumption, DurableStoreNone, StoreInv, Up, UNCHANGED disk,
           UNCHANGED <<acked, safe, stops>>, db.edit # None, db.edit.written,
           NEW done,
           done = [Over(db) EXCEPT !.version = (@ \ db.edit.is.del) \cup db.edit.is.add,
                                   !.logNumber = db.edit.is.log,
                                   !.imm = IF db.edit.for = "flush" THEN {} ELSE @],
           Installed(done, dir.current, AfterSync(TRUE), Synced(Manifest(db.manifest), files))
    PROVE  StoreInv'
<1> USE DEF StoreInv
<1> DEFINE m == db.manifest
           l == db.logfile
           e == db.edit.is
           man == files[Manifest(m)]
           h == [data |-> man.data, synced |-> Len(man.data)]
           fs == Synced(Manifest(m), files)
           version == (db.version \ e.del) \cup e.add
           imm == IF db.edit.for = "flush" THEN {} ELSE db.imm
           merge == IF db.edit.for = "merge" THEN None ELSE db.merge
           pending == IF db.edit.for = "merge" THEN db.pending \ {db.merge.out}
                      ELSE db.pending
           N == Kept(done)
<1>1. /\ db \in Stores /\ db.edit \in Jobs /\ e \in Edits /\ dir.current > 0 /\ dir \in Dirs
      /\ dir.current = m /\ Latest \in ViewTypes /\ Latest \in Views(dir) /\ m \in Nat
      /\ l \in Nat /\ dir \in Directories /\ dir.names \subseteq DOMAIN files
      /\ dir.names \subseteq Files /\ Version(db) \subseteq Nat
      /\ Manifest(m) \in dir.names /\ IsManifest(man) /\ 1 < m
      /\ merge \in {None} \cup Merges /\ pending \in SUBSET Nat
      /\ version \in SUBSET Nat /\ imm \in SUBSET Batches /\ e.log \in Nat
  <2>1. db \in Stores /\ dir.current > 0 /\ dir.current = m /\ 1 < m
    BY ViewsThere DEF StoreTypes, Open, Directories
  <2>2. db.edit \in Jobs
    BY <2>1 DEF Stores
  <2>3. e \in Edits
    BY <2>2 DEF Jobs
  <2>4. Manifest(m) \in dir.names /\ IsManifest(man)
    BY <2>1, ViewsThere DEF Current
  <2>5. merge \in {None} \cup Merges /\ pending \in SUBSET Nat
    BY <2>1 DEF Stores
  <2>6. version \in SUBSET Nat /\ e.log \in Nat
    BY <2>1, <2>3 DEF Stores, Edits
  <2>7. imm \in SUBSET Batches
    BY <2>1 DEF Stores
  <2> QED
    BY <2>1, <2>2, <2>3, <2>4, <2>5, <2>6, <2>7, ViewsThere, VersionsAre DEF Stores
<1>2. /\ IF db.edit.for = "flush"
         THEN e.add = {db.flush} /\ e.del = {} /\ e.log = l
         ELSE e.add = {db.merge.out} /\ e.del = db.merge.inputs /\ e.log = db.logNumber
      /\ e.next <= db.nextFile /\ e.last <= db.lastSequence
      /\ \A t \in e.add : t < e.next /\ Table(t) \in dir.names
      /\ \A n \in InTables(e.add, files) : n <= e.last
  BY DEF Editing
<1>3. /\ Latest.next <= db.nextFile /\ Latest.last <= db.lastSequence
      /\ Log(l) \in dir.names /\ m < l /\ db.logNumber <= l /\ l < db.nextFile
      /\ \A k \in Logs(dir) : k <= l
      /\ \A k \in Manifests(dir) : k < l
      /\ \A t \in Version(db) : t < db.nextFile /\ Table(t) \in dir.names
      /\ \A n \in InTables(db.version, files) \cup db.mem \cup db.imm : n <= db.lastSequence
      /\ \A k \in Logs(dir) : \A n \in ReadOf(files[Log(k)]) :
            n <= db.lastSequence \/ (db.writer # None /\ n = db.writer.n)
  BY DEF Open
<1>4. done = WithVersion(Over(db), version, e.log, imm)
  BY <1>1, OverAre DEF WithVersion
<1>5. /\ (db.edit.for = "flush" /\ db.flush # 0 /\ merge = db.merge /\ imm = {})
           \/ (db.edit.for = "merge" /\ db.merge # None /\ db.flush = 0 /\ merge = None
                 /\ imm = db.imm)
      /\ pending \subseteq IF merge = None THEN {} ELSE {merge.out}
      /\ imm \subseteq db.imm /\ e.log <= l
  <2>1. \/ db.edit.for = "flush" /\ db.flush # 0
        \/ db.edit.for = "merge" /\ db.merge # None /\ db.flush = 0
    BY DEF StoreTypes
  <2>2. db.pending \subseteq IF db.merge = None THEN {} ELSE {db.merge.out}
    BY DEF StoreTypes
  <2> QED
    BY <1>1, <1>2, <1>3, <2>1, <2>2
<1>6. /\ Over(db) \in Stores /\ Over(db).merge = merge /\ Over(db).pending = pending
  BY <1>1, OverAre
<1> HIDE DEF merge, pending, version, imm
<1>7. /\ done \in Stores
      /\ done.phase = "up" /\ done.mem = db.mem /\ done.imm = imm
      /\ done.logfile = l /\ done.logNumber = e.log
      /\ done.version = version /\ done.nextFile = db.nextFile
      /\ done.manifest = m /\ done.lastSequence = db.lastSequence
      /\ done.held = db.held /\ done.writer = db.writer /\ done.left = db.left
      /\ done.found = db.found /\ done.flush = 0 /\ done.edit = None
      /\ done.merge = merge /\ done.pending = pending /\ done.bgError = db.bgError
  <2> HIDE DEF e
  <2>1. /\ done \in Stores /\ done.imm = imm /\ done.logNumber = e.log /\ done.version = version
        /\ done.phase = Over(db).phase /\ done.mem = Over(db).mem
        /\ done.logfile = Over(db).logfile /\ done.nextFile = Over(db).nextFile
        /\ done.manifest = Over(db).manifest /\ done.lastSequence = Over(db).lastSequence
        /\ done.held = Over(db).held /\ done.writer = Over(db).writer
        /\ done.left = Over(db).left /\ done.found = Over(db).found
        /\ done.flush = Over(db).flush /\ done.edit = Over(db).edit
        /\ done.merge = Over(db).merge /\ done.pending = Over(db).pending
        /\ done.bgError = Over(db).bgError
    <3>1. /\ Over(db) \in Stores /\ version \in SUBSET Nat /\ e.log \in Nat
          /\ imm \in SUBSET Batches /\ done = WithVersion(Over(db), version, e.log, imm)
      BY <1>1, <1>4, <1>6
    <3> QED
      BY ONLY <3>1, InstalledAre
  <2>2. /\ Over(db).phase = db.phase /\ Over(db).mem = db.mem
        /\ Over(db).logfile = db.logfile /\ Over(db).nextFile = db.nextFile
        /\ Over(db).manifest = db.manifest /\ Over(db).lastSequence = db.lastSequence
        /\ Over(db).held = db.held /\ Over(db).writer = db.writer
        /\ Over(db).left = db.left /\ Over(db).found = db.found
        /\ Over(db).flush = 0 /\ Over(db).edit = None /\ Over(db).bgError = db.bgError
    BY <1>1, OverAre
  <2>3. db.phase = "up"
    BY DEF Up
  <2> QED
    BY <1>6, <2>1, <2>2, <2>3
<1>8. /\ Version(done) \subseteq Version(db) \cup e.add /\ version \subseteq Version(done)
  BY <1>5, <1>7 DEF Version, version
<1>9. /\ N \subseteq dir.names /\ Log(l) \in N /\ Manifest(m) \in N
      /\ \A t \in Version(done) : Table(t) \in dir.names => Table(t) \in N
      /\ \A t : db.bgError /\ Table(t) \in dir.names => Table(t) \in N
  <2>1. CASE db.bgError
    BY <1>1, <1>3, <1>7, <2>1 DEF Kept
  <2>2. CASE ~db.bgError
    <3>1. N = {f \in dir.names :
                 \/ f[1] = "log" /\ f[2] >= e.log
                 \/ f[1] = "manifest" /\ f[2] >= m
                 \/ f[1] = "table" /\ f[2] \in pending \cup Version(done)}
      BY <1>7, <2>2 DEF Kept
    <3> HIDE DEF N
    <3>2. \A n : /\ Log(n)[1] = "log" /\ Log(n)[2] = n
                /\ Manifest(n)[1] = "manifest" /\ Manifest(n)[2] = n
                /\ Table(n)[1] = "table" /\ Table(n)[2] = n
      BY DEF Log, Manifest, Table
    <3>3. Log(l) \in N
      BY <1>1, <1>3, <1>5, <3>1, <3>2
    <3>4. Manifest(m) \in N
      BY <1>1, <3>1, <3>2
    <3>5. \A t \in Version(done) : Table(t) \in dir.names => Table(t) \in N
      BY <3>1, <3>2
    <3> QED
      BY <2>2, <3>1, <3>3, <3>4, <3>5
  <2> QED
    BY <2>1, <2>2
<1> HIDE DEF N
<1>10. /\ db' = done /\ dir' = [names |-> N, current |-> m]
       /\ earlier' \subseteq {dir, [dir EXCEPT !.current = m]} /\ (PowerFails \/ earlier' = {})
       /\ files' = [f \in UNION {d.names : d \in earlier' \cup {dir'}} |-> fs[f]]
  BY <1>1 DEF Installed, Past, AfterSync, N
<1>11. /\ fs[Manifest(m)] = h
       /\ \A f \in dir.names : f # Manifest(m) => fs[f] = files[f]
  BY <1>1, SyncedIs
<1> HIDE DEF fs
<1>12. /\ IsManifest(h) /\ ViewOf(h) = Latest
       /\ (Torn(h.data) <=> Torn(Current(dir).data))
       /\ \A a \in BOOLEAN : ViewsOf(h, a) = {Latest}
  <2>1. IsManifest(h)
    BY <1>1 DEF IsManifest
  <2>2. h.data = Current(dir).data /\ h.synced = Len(h.data)
    BY <1>1 DEF Current
  <2> HIDE DEF h
  <2>3. ViewOf(h) = Latest
    BY <2>2 DEF ViewOf, Latest
  <2> QED
    BY <2>1, <2>2, <2>3, ViewsAre
<1>13. /\ FileTypes'
       /\ \A d \in Dirs' : \A f \in d.names : f \in DOMAIN files' /\ files'[f] = fs[f]
       /\ \A d \in Dirs' : \/ d = dir' /\ d.names = N /\ d.current = m
                           \/ d = dir
                           \/ d.names = dir.names /\ d.current = m
  <2>1. ASSUME NEW f \in dir.names PROVE FileOf(f[1], fs[f])
    <3>1. FileOf(f[1], files[f])
      BY <1>1 DEF FileTypes
    <3>2. CASE f = Manifest(m)
      <4>1. f[1] = "manifest" /\ man = files[f] /\ h.data = man.data
        BY <3>2 DEF Manifest
      <4>2. "tear" \in JobFaults \/ ~Torn(h.data)
        BY <3>1, <4>1 DEF FileOf
      <4> HIDE DEF h
      <4> QED
        BY <1>11, <1>12, <3>2, <4>1, <4>2 DEF FileOf
    <3>3. CASE f # Manifest(m)
      BY <1>11, <3>1, <3>3
    <3> QED
      BY <3>2, <3>3
  <2>2. Manifest(1) \in dir.names => FirstOf(fs[Manifest(1)])
    <3>1. Manifest(1) # Manifest(m)
      BY <1>1 DEF Manifest
    <3> QED
      BY <1>1, <1>11, <3>1 DEF FileTypes
  <2>3. N \in SUBSET dir.names /\ FileTypes
    BY <1>9
  <2> HIDE DEF m
  <2> QED
    BY <1>1, <1>10, <2>1, <2>2, <2>3, InstalledFiles
<1> HIDE DEF h
<1>14. /\ dir' \in Dirs' /\ dir'.names = N /\ dir'.current = m
  BY <1>10 DEF Dirs
<1>15. \A d \in Dirs' : d.current = m /\ N \subseteq d.names /\ d.names \subseteq dir.names
  BY <1>1, <1>9, <1>13
<1>16. /\ \A d \in Dirs' : Current(d)' = h /\ Views(d)' = {Latest}
       /\ Current(dir)' = h /\ Latest' = Latest
  <2>1. ASSUME NEW d \in Dirs' PROVE Current(d)' = h /\ Views(d)' = {Latest}
    <3>1. Current(d)' = h
      BY <1>9, <1>11, <1>13, <1>15 DEF Current
    <3> QED
      BY <1>12, <3>1 DEF Views
  <2>2. Current(dir)' = h
    BY <1>9, <1>11, <1>13, <1>14 DEF Current
  <2> QED
    BY <1>12, <2>1, <2>2 DEF Latest
<1>17. \A t : t \in Latest.tables => Table(t) \in N
  <2> TAKE t
  <2> HAVE t \in Latest.tables
  <2>1. Table(t) \in dir.names
    BY <1>1 DEF Named, NamedAt, Fits
  <2>2. CASE db.bgError
    BY <1>9, <2>1, <2>2
  <2>3. CASE ~db.bgError
    <3>1. t \in version
      BY <2>3 DEF Exact, version
    <3> QED
      BY <1>8, <1>9, <2>1, <3>1
  <2> QED
    BY <2>2, <2>3
<1>18. \A ts : (\A t \in ts : Table(t) \in N) => InTables(ts, files') = InTables(ts, files)
  <2> TAKE ts
  <2> HAVE \A t \in ts : Table(t) \in N
  <2>1. \A t : Table(t) # Manifest(m)
    BY DEF Table, Manifest
  <2>2. \A t \in ts : /\ Table(t) \in DOMAIN files /\ Table(t) \in DOMAIN files'
                      /\ files'[Table(t)] = files[Table(t)]
    BY <1>1, <1>9, <1>11, <1>13, <1>14, <2>1
  <2> QED
    BY <2>2, InTablesSame
<1>19. ASSUME NEW d \in Dirs' PROVE NamedAt(d)'
  <2>1. Fits(dir, Latest) /\ Latest.next > 0
    BY <1>1 DEF Named, NamedAt, Up
  <2>2. ASSUME NEW v, v = Latest PROVE Fits(d, v)'
    <3>1. InTables(v.tables, files') = InTables(v.tables, files)
      BY <1>17, <1>18, <2>2
    <3> QED
      BY <1>1, <1>15, <1>16, <1>17, <2>1, <2>2, <3>1 DEF Fits
  <2>3. \A k \in Manifests(d) : k <= d.current \/ \E n \in Logs(d) : k < n
    <3>1. l \in Logs(d)
      <4>1. Log(l)[1] = "log" /\ Log(l)[2] = l
        BY DEF Log
      <4> QED
        BY <1>9, <1>15, <4>1 DEF Logs, Numbers
    <3>2. Manifests(d) \subseteq Manifests(dir)
      BY <1>15 DEF Manifests, Numbers
    <3> QED
      BY <1>3, <3>1, <3>2
  <2>4. d.current < Latest'.next /\ d.current # 0 /\ Manifest(d.current) \in d.names
    BY <1>1, <1>9, <1>15, <1>16, <2>1 DEF Fits
  <2> QED
    BY <1>16, <2>2, <2>3, <2>4 DEF NamedAt, Manifests, Logs
<1>20. Named'
  <2>1. Latest'.next > 0 /\ dir'.current # 0
    BY <1>1, <1>14, <1>16 DEF Named, Up
  <2> QED
    BY <1>19, <2>1 DEF Named
<1>21. Up' /\ Version(db') = Version(done)
  BY <1>7, <1>10 DEF Up
<1>22. StoreTypes'
  <2>1. acked' \subseteq Batches' /\ safe' \subseteq Batches' /\ stops' \in 0 .. MaxStops'
    BY DEF StoreTypes, Batches, MaxStops
  <2>2. /\ db.mem \cap imm = {} /\ db.left = {} /\ db.found = {}
        /\ db.writer # None => db.writer.n \in Batches /\ db.writer.n = db.lastSequence + 1
    BY <1>5 DEF StoreTypes
  <2>3. done.phase # "closed" /\ done.phase # "logs" /\ Batches' = Batches
    BY <1>7 DEF Batches
  <2> QED
    BY <1>5, <1>7, <1>10, <1>21, <2>1, <2>2, <2>3 DEF StoreTypes
<1>23. Open'
  <2>1. ASSUME NEW t \in Version(done)
        PROVE  t < db.nextFile /\ Table(t) \in N
    <3>1. t \in Version(db) \/ t \in e.add
      BY <1>8
    <3>2. t \in e.add => t \in Nat /\ t < db.nextFile /\ Table(t) \in dir.names
      BY <1>1, <1>2 DEF Edits, Stores
    <3> QED
      BY <1>3, <1>9, <3>1, <3>2
  <2>2. ASSUME NEW n \in InTables(version, files') PROVE n <= db.lastSequence
    <3>1. InTables(version, files') = InTables(version, files)
      BY <1>8, <1>18, <2>1
    <3>2. InTables(version, files) \subseteq InTables(db.version \cup e.add, files)
      BY InTablesUnion DEF version
    <3>3. n \in InTables(db.version, files) \/ n \in InTables(e.add, files)
      BY <2>2, <3>1, <3>2, InTablesUnion
    <3>4. n \in Nat
      BY <2>2, <3>1, BatchesOnly
    <3>5. e.last \in Nat /\ db.lastSequence \in Nat
      BY <1>1 DEF Edits, Stores
    <3> QED
      BY <1>2, <1>3, <3>3, <3>4, <3>5
  <2>3. Logs(dir)' \subseteq Logs(dir) /\ Manifests(dir)' \subseteq Manifests(dir)
    BY <1>9, <1>14 DEF Logs, Manifests, Numbers
  <2>4. ASSUME NEW k \in Logs(dir)' PROVE files'[Log(k)] = files[Log(k)]
    <3>1. Log(k) \in dir'.names
      <4>1. dir'.names \subseteq Files
        BY <1>1, <1>9, <1>14
      <4> QED
        BY <4>1, NumbersAre DEF Logs
    <3>2. Log(k) # Manifest(m)
      BY DEF Log, Manifest
    <3> QED
      BY <1>9, <1>11, <1>13, <1>14, <3>1, <3>2
  <2>5. \A k \in Logs(dir)' : \A n \in ReadOf(files[Log(k)])' :
           n <= db'.lastSequence \/ (db'.writer # None /\ n = db'.writer.n)
    <3>1. db'.lastSequence = db.lastSequence /\ db'.writer = db.writer
      BY <1>7, <1>10
    <3> QED
      BY <1>3, <2>3, <2>4, <3>1 DEF Log
  <2>6. \A n \in InTables(version, files') \cup db.mem \cup imm : n <= db.lastSequence
    BY <1>3, <1>5, <2>2
  <2> QED
    BY <1>1, <1>3, <1>5, <1>7, <1>9, <1>10, <1>14, <1>16, <1>21, <2>1, <2>3, <2>5, <2>6
       DEF Open, Log
<1>24. Working'
  <2>1. Unbuilt' \subseteq Unbuilt /\ \A t \in Unbuilt' : t \notin e.add
    <3>1. CASE merge = None
      <4>1. Unbuilt' = {}
        BY <1>7, <1>10, <3>1 DEF Unbuilt
      <4> QED
        BY <4>1
    <3>2. CASE merge # None
      <4>1. merge = db.merge /\ db.edit.for = "flush" /\ db.merge # None
        BY <1>5, <3>2
      <4>2. Unbuilt' = {db.merge.out}
        BY <1>7, <1>10, <3>2, <4>1 DEF Unbuilt
      <4>3. db.merge.out \in Unbuilt /\ db.merge.out # db.flush
        BY <4>1 DEF Unbuilt, Working
      <4> QED
        BY <1>2, <4>1, <4>2, <4>3
    <3> QED
      BY <3>1, <3>2
  <2>2. \A t \in Unbuilt : /\ t < db.nextFile /\ t \notin Version(db) /\ t \notin Latest.tables
    BY <1>1 DEF Working
  <2>3. merge # None =>
           /\ merge.inputs \subseteq version /\ \A t \in merge.inputs : t < merge.out
           /\ 0 < merge.out /\ merge.out < db.nextFile /\ merge.out # 0
    <3>1. ASSUME merge # None
          PROVE  merge = db.merge /\ e.del = {} /\ db.merge.out \in Nat
      <4>1. merge = db.merge /\ e.del = {}
        BY <1>2, <1>5, <3>1
      <4>2. db.merge \in Merges
        BY <1>1, <3>1, <4>1
      <4> QED
        BY <4>1, <4>2 DEF Merges
    <3>2. e.del = {} => db.version \subseteq version
      BY DEF version
    <3> QED
      BY <3>1, <3>2 DEF Working
  <2>4. \A t \in Unbuilt' :
           /\ t < db'.nextFile /\ t \notin Version(db')
           /\ \A d \in Dirs' : d.current > 0 => \A v \in Views(d)' : t \notin v.tables
    BY <1>7, <1>8, <1>10, <1>16, <1>21, <2>1, <2>2
  <2> QED
    BY <1>7, <1>10, <2>3, <2>4 DEF Working
<1>25. Exact'
  <2>1. ~db.bgError => ~Torn(h.data) /\ Latest.tables = version
    BY <1>12 DEF Exact, version
  <2> QED
    BY <1>7, <1>10, <1>16, <2>1 DEF Exact
<1>26. Opening' /\ Made' /\ Editing'
  BY <1>7, <1>10, <1>21 DEF Opening, Made, Editing, Up
<1> QED
  BY <1>13, <1>20, <1>22, <1>23, <1>24, <1>25, <1>26

(* LogAndApply.                                                            *)
LEMMA LogAndApplyInv ==
    ASSUME DurableStoreAssumption, DurableStoreNone, StoreInv, UNCHANGED disk, LogAndApply
    PROVE  StoreInv'
<1> DEFINE done == [Over(db) EXCEPT !.version = (@ \ db.edit.is.del) \cup db.edit.is.add,
                                    !.logNumber = db.edit.is.log,
                                    !.imm = IF db.edit.for = "flush" THEN {} ELSE @]
           fs == Synced(Manifest(db.manifest), files)
<1>1. /\ Up /\ db.edit # None /\ db.edit.written /\ UNCHANGED <<acked, safe, stops>>
      /\ \/ Installed(done, dir.current, AfterSync(TRUE), fs)
         \/ EditFails /\ UNCHANGED <<files, dir, earlier>>
  BY DEF LogAndApply, Unchanged
<1>2. CASE Installed(done, dir.current, AfterSync(TRUE), fs)
  BY <1>1, <1>2, VersionInstalledInv
<1>3. CASE EditFails /\ UNCHANGED <<files, dir, earlier>>
  <2>1. Carries({})
    BY <1>3, AloneCarries
  <2> QED
    BY <1>1, <1>3, <2>1, EditFailsInv
<1> QED
  BY <1>1, <1>2, <1>3

-----------------------------------------------------------------------------
(* The store is removed; the machine stops.                                *)

(* A store that was removed is as good as new.                             *)
LEMMA PurgeDatabaseInv ==
    ASSUME DurableStoreAssumption, DurableStoreNone, StoreInv, UNCHANGED disk, PurgeDatabase
    PROVE  StoreInv'
<1> USE DEF StoreInv
<1>1. /\ db.phase = "closed" /\ files' = [f \in {} |-> None]
      /\ dir' = [names |-> {}, current |-> 0] /\ earlier' = {}
      /\ acked' = {} /\ safe' = {} /\ UNCHANGED <<db, stops>>
  BY DEF PurgeDatabase
<1>2. Dirs' = {dir'} /\ dir'.current = 0 /\ dir'.names = {} /\ DOMAIN files' = {}
  BY <1>1 DEF Dirs
<1>3. db' = Closed /\ db'.phase = "closed" /\ ~Up'
  BY <1>1 DEF StoreTypes, Up
<1>4. FileTypes'
  BY <1>1, <1>2 DEF FileTypes, Directories
<1>5. StoreTypes'
  <2>1. db' \in Stores'
    BY <1>1 DEF StoreTypes, Stores, Batches
  <2>2. stops' \in 0 .. MaxStops'
    BY <1>1 DEF StoreTypes, MaxStops
  <2> QED
    BY <1>1, <1>3, <2>1, <2>2 DEF StoreTypes, Closed
<1>6. Named'
  BY <1>2, <1>1, <1>3 DEF Named, NamedAt
<1> QED
  BY <1>3, <1>4, <1>5, <1>6 DEF Opening, Made, Open, Working, Editing, Exact

(* A file that is cut is still what its name says, and a manifest is still *)
(* the first one if it was.                                                *)
LEMMA CutIs ==
    ASSUME DurableStoreAssumption, DurableStoreNone,
           NEW kind \in {"log", "manifest"}, NEW g, FileOf(kind, g),
           NEW k \in g.synced .. Len(g.data), NEW h,
           h = [data |-> SubSeq(g.data, 1, k), synced |-> k]
    PROVE  FileOf(kind, h) /\ (FirstOf(g) => FirstOf(h))
<1>1. FileOf(kind, h)
  <2>1. CASE kind = "log"
    <3>1. IsLog(g) /\ ("tear" \in LogFaults \/ ~Torn(g.data))
      BY <2>1 DEF FileOf
    <3>2. IsLog(h) /\ (~Torn(g.data) => ~Torn(h.data))
      <4>1. k \in g.synced .. Len(g.data) /\ h = [data |-> SubSeq(g.data, 1, k), synced |-> k]
        OBVIOUS
      <4> QED
        BY <3>1, <4>1, ReadsCut, Zenon
    <3> QED
      BY <2>1, <3>1, <3>2 DEF FileOf
  <2>2. CASE kind = "manifest"
    <3>1. IsManifest(g) /\ ("tear" \in JobFaults \/ ~Torn(g.data))
      BY <2>2 DEF FileOf
    <3>2. k \in Cuts(g, TRUE)
      BY DEF Cuts
    <3>3. IsManifest(h)
      BY <3>1, <3>2, ViewsCut
    <3>4. /\ g.data \in Seq(Edits \cup {Tear}) /\ k \in 0 .. Len(g.data) /\ Len(g.data) \in Nat
          /\ h.data = SubSeq(g.data, 1, k)
      BY <3>1 DEF IsManifest
    <3>5. Len(h.data) = k /\ \A i \in 1 .. k : h.data[i] = g.data[i]
      BY <3>4
    <3>6. ~Torn(g.data) => ~Torn(h.data)
      BY <3>4, <3>5 DEF Torn
    <3> QED
      BY <2>2, <3>1, <3>3, <3>6 DEF FileOf
  <2> QED
    BY <2>1, <2>2
<1>2. ASSUME FirstOf(g) PROVE FirstOf(h)
  <2> DEFINE e == Edit({}, {}, 0, 2, 0)
  <2>1. g.data = <<>> \/ g.data = <<e>>
    BY <1>2 DEF FirstOf
  <2>2. k \in 0 .. Len(g.data) /\ h.data = SubSeq(g.data, 1, k)
    <3>1. g.synced \in 0 .. Len(g.data)
      BY DEF FileOf, IsLog, IsManifest
    <3>2. Len(g.data) \in Nat
      BY <2>1
    <3> QED
      BY <3>1, <3>2
  <2> HIDE DEF e
  <2>3. CASE k = 0
    <3>1. h.data = <<>>
      <4>1. SubSeq(<<>>, 1, 0) = <<>> /\ SubSeq(<<e>>, 1, 0) = <<>>
        <5>1. \A s \in Seq({e}) : SubSeq(s, 1, 0) = <<>>
          OBVIOUS
        <5>2. <<>> \in Seq({e}) /\ <<e>> \in Seq({e})
          OBVIOUS
        <5> QED
          BY <5>1, <5>2
      <4> QED
        BY <2>1, <2>2, <2>3, <4>1
    <3> QED
      BY <3>1 DEF FirstOf
  <2>4. CASE k # 0
    <3>1. Len(<<>>) = 0 /\ Len(<<e>>) = 1 /\ <<e>> \in Seq({e})
      OBVIOUS
    <3>2. g.data = <<e>> /\ k = 1
      <4>1. Len(g.data) = 0 => FALSE
        BY <2>2, <2>4
      <4>2. g.data = <<e>> /\ Len(g.data) = 1
        BY <2>1, <3>1, <4>1
      <4> QED
        BY <2>2, <2>4, <4>2
    <3>3. SubSeq(<<e>>, 1, 1) = <<e>>
      <4>1. 1 \in 0 .. Len(<<e>>)
        BY <3>1
      <4>2. SubSeq(<<e>>, 1, Len(<<e>>)) = <<e>>
        BY <3>1, <4>1, Prefixes
      <4> QED
        BY <3>1, <4>2
    <3>4. h.data = <<e>>
      BY <2>2, <3>2, <3>3
    <3> QED
      BY <3>4 DEF FirstOf, e
  <2> QED
    BY <2>3, <2>4
<1> QED
  BY <1>1, <1>2

(* A table is whole and synced.                                            *)
LEMMA TableLength ==
    ASSUME NEW g, IsTable(g)
    PROVE  g.synced = Len(g.data)
<1>1. PICK b \in SUBSET Batches : g = [data |-> <<b>>, synced |-> 1]
  BY DEF IsTable
<1>2. Len(<<b>>) = 1 /\ g.data = <<b>> /\ g.synced = 1
  BY <1>1
<1> QED
  BY <1>2

\* The data of file f is cut off after its first k records; power has failed, and all that
\* is left is directory d.
IsCut(f, k) ==
    /\ k \in files[f].synced .. Len(files[f].data)
    /\ Journaled \/ k = files[f].synced
    /\ files'[f] = [data |-> SubSeq(files[f].data, 1, k), synced |-> k]
    /\ files[f].synced = Len(files[f].data) => files'[f] = files[f]
Stopped(d) ==
    /\ dir' = d /\ earlier' = {} /\ db' = Closed /\ stops' = stops + 1 /\ stops < MaxStops
    /\ acked' = safe \cup (acked \cap Content') /\ safe' = safe
    /\ DOMAIN files' = d.names /\ files' = [f \in DOMAIN files' |-> files'[f]]
    /\ \A f \in d.names : \E k : IsCut(f, k)

(* What a power failure does.                                              *)
LEMMA MachineStopped ==
    ASSUME StoreInv, UNCHANGED disk, MachineStops
    PROVE  \E d \in Dirs : Stopped(d)
<1> USE DEF StoreInv, IsCut
<1>1. PICK d \in Dirs :
         /\ dir' = d /\ earlier' = {} /\ db' = Closed /\ stops' = stops + 1 /\ stops < MaxStops
         /\ acked' = safe \cup (acked \cap Content') /\ safe' = safe
         /\ DOMAIN files' = d.names /\ files' = [f \in DOMAIN files' |-> files'[f]]
         /\ \A f \in d.names : \E k : IsCut(f, k)
  <2>1. PICK d \in Dirs :
           /\ dir' = d
           /\ LET loose == {f \in d.names : files[f].synced < Len(files[f].data)}
                  most == Max({0} \cup {Len(files[f].data) : f \in loose})
              IN  \E cut \in [loose -> 0 .. most] :
                     /\ \A f \in loose : cut[f] \in files[f].synced ..
                           (IF Journaled THEN Len(files[f].data) ELSE files[f].synced)
                     /\ files' = [f \in d.names |->
                                    IF f \notin loose THEN files[f]
                                    ELSE [data |-> SubSeq(files[f].data, 1, cut[f]),
                                          synced |-> cut[f]]]
    BY DEF MachineStops, Dirs
  <2> DEFINE loose == {f \in d.names : files[f].synced < Len(files[f].data)}
  <2>2. PICK cut : /\ \A f \in loose : cut[f] \in files[f].synced ..
                        (IF Journaled THEN Len(files[f].data) ELSE files[f].synced)
                   /\ files' = [f \in d.names |->
                                  IF f \notin loose THEN files[f]
                                  ELSE [data |-> SubSeq(files[f].data, 1, cut[f]),
                                        synced |-> cut[f]]]
    BY <2>1
  <2>3. ASSUME NEW f \in d.names
        PROVE  /\ files[f].synced \in 0 .. Len(files[f].data) /\ Len(files[f].data) \in Nat
               /\ SubSeq(files[f].data, 1, Len(files[f].data)) = files[f].data
               /\ files[f] = [data |-> files[f].data, synced |-> files[f].synced]
    <3>1. f \in DOMAIN files /\ f[1] \in {"log", "table", "manifest"}
      BY <2>3 DEF FileTypes, Files
    <3>2. FileOf(f[1], files[f])
      BY <3>1 DEF FileTypes
    <3>3. ASSUME NEW S, files[f].data \in Seq(S)
          PROVE  /\ Len(files[f].data) \in Nat
                 /\ SubSeq(files[f].data, 1, Len(files[f].data)) = files[f].data
      <4>1. Len(files[f].data) \in Nat
        BY <3>3
      <4>2. Len(files[f].data) \in 0 .. Len(files[f].data)
        BY <4>1
      <4> QED
        BY <3>3, <4>1, <4>2, Prefixes
    <3>4. CASE f[1] = "table"
      <4>1. PICK b \in SUBSET Batches : files[f] = [data |-> <<b>>, synced |-> 1]
        BY <3>2, <3>4 DEF FileOf, IsTable
      <4>2. <<b>> \in Seq({b}) /\ Len(<<b>>) = 1
        OBVIOUS
      <4>3. files[f].data = <<b>> /\ files[f].synced = 1
        BY <4>1
      <4> QED
        <5>1. files[f].data \in Seq({b}) /\ Len(files[f].data) = 1
          BY <4>2, <4>3
        <5>2. files[f].synced \in 0 .. Len(files[f].data)
          BY <4>3, <5>1
        <5>3. files[f] = [data |-> files[f].data, synced |-> files[f].synced]
          BY <4>1
        <5>4. /\ Len(files[f].data) \in Nat
              /\ SubSeq(files[f].data, 1, Len(files[f].data)) = files[f].data
          BY <3>3, <5>1
        <5> QED
          BY <5>2, <5>3, <5>4
    <3>5. CASE f[1] = "log"
      BY <3>2, <3>3, <3>5 DEF FileOf, IsLog
    <3>6. CASE f[1] = "manifest"
      BY <3>2, <3>3, <3>6 DEF FileOf, IsManifest
    <3> QED
      BY <3>1, <3>4, <3>5, <3>6
  <2>4. ASSUME NEW f \in d.names PROVE \E k : IsCut(f, k)
    <3> DEFINE g == files[f]
               n == Len(g.data)
    <3>1. /\ g.synced \in 0 .. n /\ n \in Nat /\ SubSeq(g.data, 1, n) = g.data
          /\ g = [data |-> g.data, synced |-> g.synced]
          /\ f \in loose <=> g.synced < n
      BY <2>3
    <3>2. CASE f \in loose
      <4>1. files'[f] = [data |-> SubSeq(g.data, 1, cut[f]), synced |-> cut[f]]
        BY <2>2, <3>2
      <4>2. cut[f] \in g.synced .. (IF Journaled THEN n ELSE g.synced)
        BY <2>2, <3>2
      <4> DEFINE k == cut[f]
      <4> HIDE DEF g, n, k
      <4>3. k \in g.synced .. n /\ (Journaled \/ k = g.synced) /\ g.synced # n
        <5>1. k \in g.synced .. (IF Journaled THEN n ELSE g.synced)
          BY <4>2 DEF k
        <5>2. CASE Journaled
          BY <3>1, <3>2, <5>1, <5>2
        <5>3. CASE ~Journaled
          BY <3>1, <3>2, <5>1, <5>3
        <5> QED
          BY <5>2, <5>3
      <4>4. IsCut(f, k)
        BY <4>1, <4>3 DEF g, n, k
      <4> HIDE DEF IsCut
      <4> QED
        BY <4>4
    <3>3. CASE f \notin loose
      <4>1. files'[f] = g
        BY <2>2, <3>3
      <4>2. g.synced = n /\ n \in n .. n
        BY <3>1, <3>3
      <4>3. IsCut(f, n)
        BY <3>1, <4>1, <4>2
      <4> HIDE DEF IsCut
      <4> QED
        BY <4>3
    <3> QED
      BY <3>2, <3>3
  <2>5. /\ earlier' = {} /\ db' = Closed /\ stops' = stops + 1 /\ stops < MaxStops
        /\ acked' = safe \cup (acked \cap Content') /\ safe' = safe
    BY DEF MachineStops
  <2>6. DOMAIN files' = d.names /\ files' = [f \in DOMAIN files' |-> files'[f]]
    BY <2>2
  <2> HIDE DEF IsCut
  <2> QED
    BY <2>1, <2>4, <2>5, <2>6
<1> HIDE DEF IsCut
<1> QED
  BY <1>1 DEF Stopped

(* Directory d is well named, its tables are whole, and of its manifest    *)
(* something is read that may have been.                                   *)
LEMMA StoppedIs ==
    ASSUME DurableStoreAssumption, DurableStoreNone, StoreInv, UNCHANGED disk,
           NEW d \in Dirs, Stopped(d)
    PROVE  /\ Dirs' = {d} /\ d \in Directories /\ d.names \subseteq Files /\ d.current \in Nat
           /\ d.names \subseteq DOMAIN files /\ NamedAt(d)
           /\ \A t : Table(t) \in d.names => /\ Table(t) \in DOMAIN files
                                            /\ Table(t) \in DOMAIN files'
                                            /\ files'[Table(t)] = files[Table(t)]
           /\ d.current > 0 => /\ Manifest(d.current) \in d.names /\ Latest' \in Views(d)
                               /\ Latest' \in ViewTypes
                               /\ \A b \in BOOLEAN : ViewsOf(Current(d)', b) = {Latest'}
<1> USE DEF StoreInv, IsCut
<1>1. Stopped(d)
  OBVIOUS
<1> USE DEF Stopped
<1>2. /\ Dirs' = {d} /\ d \in Directories /\ d.names \subseteq Files /\ d.current \in Nat
      /\ d.names \subseteq DOMAIN files /\ NamedAt(d)
  BY <1>1, ViewsThere DEF Dirs, Named, Directories
<1>3. \A t : Table(t) \in d.names => /\ Table(t) \in DOMAIN files /\ Table(t) \in DOMAIN files'
                                     /\ files'[Table(t)] = files[Table(t)]
  <2> TAKE t
  <2> HAVE Table(t) \in d.names
  <2>1. FileOf("table", files[Table(t)])
    BY <1>2 DEF FileTypes, Table
  <2>2. files[Table(t)].synced = Len(files[Table(t)].data)
    BY <2>1, TableLength DEF FileOf
  <2>3. PICK k : IsCut(Table(t), k)
    BY <1>1
  <2> QED
    BY <1>1, <1>2, <2>2, <2>3
<1>4. ASSUME d.current > 0
      PROVE  /\ Manifest(d.current) \in d.names /\ Latest' \in Views(d) /\ Latest' \in ViewTypes
             /\ \A b \in BOOLEAN : ViewsOf(Current(d)', b) = {Latest'}
  <2> DEFINE f == Manifest(d.current)
             g == Current(d)
  <2>1. f \in d.names /\ IsManifest(g) /\ Views(d) \subseteq ViewTypes
    BY <1>4, ViewsThere
  <2>2. PICK k : IsCut(f, k)
    BY <1>1, <2>1
  <2> DEFINE h == [data |-> SubSeq(g.data, 1, k), synced |-> k]
  <2>3. files'[f] = h /\ k \in Cuts(g, Journaled)
    BY <2>2 DEF Current, Cuts
  <2>4. Current(d)' = h /\ Current(dir)' = h
    BY <1>1, <2>3 DEF Current
  <2> HIDE DEF h
  <2>5. Journaled \in BOOLEAN
    BY DEF FileTypes, DurableStoreAssumption, Journaled
  <2>6. ViewOf(h) \in ViewsOf(g, Journaled) /\ \A b \in BOOLEAN : ViewsOf(h, b) = {ViewOf(h)}
    BY <2>1, <2>3, <2>5, ViewsCut DEF h
  <2>7. ViewsOf(g, Journaled) \subseteq Views(d)
    BY DEF Views, ViewsOf, Cuts
  <2>8. Latest' = ViewOf(h)
    BY <2>4 DEF Latest
  <2> QED
    BY <2>1, <2>4, <2>6, <2>7, <2>8
<1> QED
  BY <1>2, <1>3, <1>4

(* MachineStops, for one state of the directory and one outcome.           *)
LEMMA MachineStopsInv ==
    ASSUME DurableStoreAssumption, DurableStoreNone, StoreInv, UNCHANGED disk, MachineStops
    PROVE  StoreInv'
<1> USE DEF StoreInv
<1>1. PICK d \in Dirs :
         /\ Stopped(d)
         /\ dir' = d /\ earlier' = {} /\ db' = Closed /\ stops' = stops + 1 /\ stops < MaxStops
         /\ acked' = safe \cup (acked \cap Content') /\ safe' = safe
         /\ DOMAIN files' = d.names /\ files' = [f \in DOMAIN files' |-> files'[f]]
         /\ \A f \in d.names : \E k : IsCut(f, k)
  BY MachineStopped DEF Stopped
<1>2. /\ Dirs' = {d} /\ d \in Directories /\ d.names \subseteq Files /\ d.current \in Nat
      /\ d.names \subseteq DOMAIN files /\ NamedAt(d)
  BY <1>1, StoppedIs
<1>3. db'.phase = "closed" /\ ~Up'
  BY <1>1 DEF Closed, Up
<1>4. ASSUME NEW f \in d.names
      PROVE  FileOf(f[1], files'[f]) /\ (FirstOf(files[f]) => FirstOf(files'[f]))
  <2>1. FileOf(f[1], files[f]) /\ f[1] \in {"log", "manifest", "table"}
    BY <1>2 DEF FileTypes, Files
  <2>2. PICK k : IsCut(f, k)
    BY <1>1
  <2>3. CASE f[1] = "table"
    <3>1. files[f].synced = Len(files[f].data)
      BY <2>1, <2>3, TableLength DEF FileOf
    <3>2. files'[f] = files[f]
      BY <2>2, <3>1 DEF IsCut
    <3> QED
      BY <2>1, <3>2
  <2>4. CASE f[1] # "table"
    <3> DEFINE kind == f[1]
               g == files[f]
               h == files'[f]
    <3>1. /\ kind \in {"log", "manifest"} /\ FileOf(kind, g)
          /\ k \in g.synced .. Len(g.data)
          /\ h = [data |-> SubSeq(g.data, 1, k), synced |-> k]
      BY <2>1, <2>2, <2>4 DEF IsCut
    <3> HIDE DEF kind, g, h
    <3>2. FileOf(kind, h) /\ (FirstOf(g) => FirstOf(h))
      BY <3>1, CutIs
    <3> QED
      BY <3>2 DEF kind, g, h
  <2> QED
    BY <2>3, <2>4
<1>5. \A t : Table(t) \in d.names => /\ Table(t) \in DOMAIN files /\ Table(t) \in DOMAIN files'
                                     /\ files'[Table(t)] = files[Table(t)]
  BY <1>1, StoppedIs
<1>6. FileTypes'
  <2>1. \A f \in DOMAIN files' : FileOf(f[1], files[f])'
    BY <1>1, <1>4 DEF FileOf, LogFaults, JobFaults, IsLog, IsManifest, IsTable, Batches, Torn
  <2>2. Manifest(1) \in DOMAIN files' => FirstOf(files[Manifest(1)])'
    <3>1. Manifest(1) \in DOMAIN files' => FirstOf(files'[Manifest(1)])
      BY <1>1, <1>2, <1>4 DEF FileTypes
    <3> QED
      BY <3>1 DEF FirstOf, Edit, Manifest
  <2>3. disk' \in Disks /\ Files' = Files /\ Directories' = Directories
    BY DEF FileTypes, Files, Directories
  <2>4. DOMAIN files' \subseteq Files /\ files' = [f \in DOMAIN files' |-> files'[f]]
    BY <1>1, <1>2
  <2> QED
    BY <1>1, <1>2, <2>1, <2>2, <2>3, <2>4 DEF FileTypes
<1>7. ASSUME d.current > 0
      PROVE  /\ Manifest(d.current) \in d.names /\ Latest' \in Views(d) /\ Latest' \in ViewTypes
             /\ \A b \in BOOLEAN : ViewsOf(Current(d)', b) = {Latest'}
  BY <1>1, <1>7, StoppedIs
<1>8. NamedAt(d)'
  <2>1. CASE d.current = 0
    BY <1>2, <2>1 DEF NamedAt
  <2>2. CASE d.current # 0
    <3>1. d.current > 0
      BY <1>2, <2>2
    <3>2. Views(d)' = {Latest'}
      BY <1>7, <3>1 DEF Views
    <3>3. Fits(d, Latest')
      BY <1>2, <1>7, <2>2, <3>1 DEF NamedAt
    <3>4. ASSUME NEW v, v = Latest' PROVE Fits(d, v)'
      <4>1. Fits(d, v)
        BY <3>3, <3>4
      <4>2. InTables(v.tables, files') = InTables(v.tables, files)
        BY <1>5, <4>1, InTablesSame DEF Fits
      <4>3. v.next \in Nat /\ v.next <= Latest'.next
        BY <1>7, <3>1, <3>4 DEF ViewTypes
      <4> QED
        BY <4>1, <4>2, <4>3 DEF Fits
    <3>5. \A v \in Views(d)' : Fits(d, v)'
      BY <3>2, <3>4
    <3>6. Latest'.next > 0 => d.current < Latest'.next
      BY <3>3 DEF Fits
    <3>7. \A m \in Manifests(d) : m <= d.current \/ \E l \in Logs(d) : m < l
      BY <1>2, <2>2 DEF NamedAt
    <3> QED
      BY <1>7, <2>2, <3>1, <3>5, <3>6, <3>7 DEF NamedAt, Manifests, Logs
  <2> QED
    BY <2>1, <2>2
<1>9. Named'
  BY <1>1, <1>2, <1>3, <1>8 DEF Named
<1>10. StoreTypes'
  <2>1. Closed \in Stores /\ Stores' = Stores
    BY DEF Stores, Closed, Batches
  <2>2. stops' \in 0 .. MaxStops'
    BY <1>1 DEF StoreTypes, FileTypes, DurableStoreAssumption, MaxStops
  <2>3. acked' \subseteq Batches' /\ safe' \subseteq Batches'
    BY <1>1 DEF StoreTypes, Batches
  <2> QED
    BY <1>1, <1>3, <2>1, <2>2, <2>3 DEF StoreTypes, Closed
<1> QED
  BY <1>3, <1>6, <1>9, <1>10 DEF Opening, Made, Open, Working, Editing, Exact

-----------------------------------------------------------------------------
(* Steps that write a log.                                                 *)

\* Log k is written, which the directory names (it is in `new' if it did not before), and
\* what that leaves as it was.
WritesLog(k, data, synced, new) ==
    /\ k \in Nat /\ files' = With(Log(k), data, synced)
    /\ FileOf("log", [data |-> data, synced |-> synced])
    /\ new \subseteq {Log(k)} /\ dir' = [dir EXCEPT !.names = @ \cup new]
    /\ dir'.names \subseteq DOMAIN files \cup {Log(k)}
    /\ earlier' \subseteq Dirs /\ (PowerFails \/ earlier' = {})
CarriesAllBut(k) ==
    /\ FileTypes' /\ Latest' = Latest /\ Current(dir)' = Current(dir)
    /\ \A d \in Dirs' :
          /\ NamedAt(d)'
          /\ \E d0 \in Dirs : /\ d.current = d0.current /\ d0.names \subseteq d.names
                              /\ d.current > 0 => Views(d)' \subseteq Views(d0)
    /\ \A l \in Logs(dir) : l # k => files'[Log(l)] = files[Log(l)]
    /\ \A ts : (\A t \in ts : Table(t) \in dir.names) =>
          InTables(ts, files') = InTables(ts, files)
    /\ Logs(dir)' \subseteq Logs(dir) \cup {k} /\ Manifests(dir)' = Manifests(dir)
    /\ dir'.current = dir.current /\ dir.names \subseteq dir'.names

(* A log is written, or made: manifests and tables are what they were.     *)
LEMMA LogWritten ==
    ASSUME DurableStoreAssumption, DurableStoreNone, StoreInv, Up, UNCHANGED disk,
           NEW k, NEW data, NEW synced, NEW new, WritesLog(k, data, synced, new)
    PROVE  CarriesAllBut(k) /\ files'[Log(k)] = [data |-> data, synced |-> synced]
<1> USE DEF StoreInv, WritesLog
<1>1. /\ dir \in Directories /\ Dirs \subseteq Directories /\ dir \in Dirs
      /\ \A d \in Dirs : d.names \subseteq DOMAIN files
      /\ dir.current > 0
  BY ViewsThere DEF FileTypes, Dirs, Open, Directories
<1>2. /\ dir'.names = dir.names \cup new /\ dir'.current = dir.current
      /\ dir' \in Directories
  BY <1>1 DEF Directories, Files, Log
<1>3. /\ Dirs' \subseteq Directories
      /\ \A d \in Dirs' : d.names \subseteq DOMAIN files \cup {Log(k)}
      /\ \A d \in Dirs' : d = dir' \/ d \in Dirs
  BY <1>1, <1>2 DEF Dirs
<1>4. /\ FileTypes' /\ DOMAIN files' = DOMAIN files \cup {Log(k)}
      /\ files'[Log(k)] = [data |-> data, synced |-> synced]
      /\ \A g \in DOMAIN files : g # Log(k) => files'[g] = files[g]
  <2>1. Log(k) \in Files /\ Log(k)[1] = "log" /\ Log(k) # Manifest(1)
    BY DEF Log, Files, Manifest
  <2>2. FileOf(Log(k)[1], [data |-> data, synced |-> synced])
    BY <2>1
  <2>3. FileTypes /\ UNCHANGED disk
    OBVIOUS
  <2> QED
    BY <1>3, <2>1, <2>2, <2>3, WithOne, Zenon
<1>5. /\ \A n : Manifest(n) # Log(k) /\ Table(n) # Log(k)
      /\ \A u : Log(u) = Log(k) => u = k
  BY DEF Manifest, Log, Table
<1>6. Current(dir)' = Current(dir) /\ Latest' = Latest
  BY <1>1, <1>2, <1>4, <1>5, ViewsThere DEF Current, Latest
<1>7. Manifests(dir)' = Manifests(dir) /\ Logs(dir)' \subseteq Logs(dir) \cup {k}
  BY <1>2 DEF Logs, Manifests, Numbers, Log
<1>8. \A l \in Logs(dir) : l # k => files'[Log(l)] = files[Log(l)]
  BY <1>1, <1>4, <1>5, BatchesOnly
<1>9. \A ts : (\A t \in ts : Table(t) \in dir.names) => InTables(ts, files') = InTables(ts, files)
  <2> TAKE ts
  <2> HAVE \A t \in ts : Table(t) \in dir.names
  <2>1. \A t \in ts : /\ Table(t) \in DOMAIN files /\ Table(t) \in DOMAIN files'
                      /\ files'[Table(t)] = files[Table(t)]
    BY <1>1, <1>4, <1>5
  <2> QED
    BY <2>1, InTablesSame
<1>10. ASSUME NEW d \in Dirs'
       PROVE  /\ NamedAt(d)'
              /\ \E d0 \in Dirs : /\ d.current = d0.current /\ d0.names \subseteq d.names
                                  /\ d.current > 0 => Views(d)' \subseteq Views(d0)
  <2>1. PICK d0 \in Dirs : /\ d.current = d0.current /\ d0.names \subseteq d.names
                           /\ d.names \subseteq d0.names \cup {Log(k)}
                           /\ d = dir' => d0 = dir
                           /\ d # dir' => d = d0
    BY <1>1, <1>2, <1>3
  <2>2. d0.current \in Nat /\ NamedAt(d0)
    BY <1>1 DEF Directories, Named
  <2>3. CASE d.current = 0
    <3>1. d # dir' /\ d = d0
      <4>1. dir'.current # 0
        BY <1>1, <1>2
      <4> QED
        BY <2>1, <2>3, <4>1
    <3>2. d.names \subseteq {Manifest(1)}
      BY <2>2, <2>3, <3>1 DEF NamedAt
    <3>3. NamedAt(d)'
      BY <2>3, <3>2 DEF NamedAt
    <3>4. ~(d.current > 0)
      BY <2>3
    <3> QED
      BY <2>1, <3>3, <3>4
  <2>4. CASE d.current # 0
    <3>1. d0.current > 0 /\ d.current > 0 /\ Manifest(d0.current) \in d0.names
      BY <2>1, <2>2, <2>4, ViewsThere
    <3>2. files'[Manifest(d.current)] = files[Manifest(d.current)]
      BY <1>1, <1>4, <1>5, <2>1, <3>1
    <3>3. Views(d)' \subseteq Views(d0) /\ Views(d0) \subseteq ViewTypes
      BY <2>1, <3>1, <3>2, Carried, ViewsThere
    <3>4. \A v \in Views(d0) : \A u \in v.tables :
             /\ Table(u) \in d.names /\ files'[Table(u)] = files[Table(u)]
             /\ Table(u) \in DOMAIN files /\ Table(u) \in DOMAIN files'
      <4> TAKE v \in Views(d0)
      <4> TAKE u \in v.tables
      <4>1. Table(u) \in d0.names
        BY <2>2, <3>1 DEF NamedAt, Fits
      <4> QED
        BY <1>1, <1>4, <1>5, <2>1, <4>1
    <3>5. \A m \in Manifests(d) : m <= d.current \/ \E l \in Logs(d) : m < l
      <4>1. Manifests(d) = Manifests(d0) /\ Logs(d0) \subseteq Logs(d)
        BY <2>1 DEF Manifests, Logs, Numbers, Log
      <4> QED
        BY <2>1, <2>2, <3>1, <4>1 DEF NamedAt
    <3>6. Latest.next \in Nat /\ Latest'.next = Latest.next
      BY <1>1, <1>6, ViewsThere DEF ViewTypes
    <3>7. Latest'.next > 0 => d.current < Latest'.next
      BY <2>1, <2>2, <3>1, <3>6 DEF NamedAt
    <3>8. NamedAt(d)'
      BY <2>1, <2>2, <3>1, <3>3, <3>4, <3>5, <3>6, <3>7, StillNamed
    <3> QED
      BY <2>1, <3>3, <3>8
  <2> QED
    BY <2>3, <2>4
<1>11. CarriesAllBut(k)
  <2>1. \A d \in Dirs' :
           /\ NamedAt(d)'
           /\ \E d0 \in Dirs : /\ d.current = d0.current /\ d0.names \subseteq d.names
                               /\ d.current > 0 => Views(d)' \subseteq Views(d0)
    BY <1>10, Zenon
  <2> QED
    BY <1>2, <1>4, <1>6, <1>7, <1>8, <1>9, <2>1 DEF CarriesAllBut
<1> QED
  BY <1>4, <1>11

\* Writer w's record is in the log, or x of it is, and s of the log is synced.
AddsRecord(w, x, s) ==
    /\ db.writer = None /\ db.lastSequence < MaxBatches
    /\ w \in Writers /\ w.n = db.lastSequence + 1 /\ db' = [db EXCEPT !.writer = w]
    /\ x \in {w.n, Tear} /\ (x = Tear => "tear" \in LogFaults)
    /\ s \in {files[Log(db.logfile)].synced, Len(files[Log(db.logfile)].data) + 1}
    /\ files' = With(Log(db.logfile), Append(files[Log(db.logfile)].data, x), s)
    /\ UNCHANGED <<dir, acked, safe, stops>>
    /\ earlier' \subseteq earlier /\ (PowerFails \/ earlier' = {})

(* A record is added to the log in use: what is written, and what is read. *)
LEMMA LogAppended ==
    ASSUME DurableStoreAssumption, DurableStoreNone, StoreInv, Up, UNCHANGED disk,
           NEW w, NEW x, NEW s, AddsRecord(w, x, s)
    PROVE  LET g == files[Log(db.logfile)]
               h == files'[Log(db.logfile)]
           IN  /\ CarriesAllBut(db.logfile) /\ Gains(g, h, x) /\ w.n \in Batches /\ w # None
               /\ "tear" \notin LogFaults =>
                     /\ ReadOf(h) = ReadOf(g) \cup {x} /\ x = w.n
                     /\ s = Len(g.data) + 1 => x \in SyncedOf(h)
<1>0. AddsRecord(w, x, s)
  OBVIOUS
<1> USE DEF StoreInv, AddsRecord
<1> DEFINE l == db.logfile
           g == files[Log(l)]
           h == [data |-> Append(g.data, x), synced |-> s]
<1>1. /\ db \in Stores /\ l \in Nat /\ Log(l) \in dir.names /\ l \in Logs(dir)
      /\ dir \in Directories /\ dir \in Dirs /\ IsLog(g)
      /\ "tear" \in LogFaults \/ ~Torn(g.data)
      /\ dir.names \subseteq DOMAIN files /\ db.lastSequence \in Nat
  <2>1. /\ db \in Stores /\ l \in Nat /\ Log(l) \in dir.names /\ dir \in Dirs
        /\ dir \in Directories /\ dir.names \subseteq Files /\ dir.names \subseteq DOMAIN files
        /\ db.lastSequence \in Nat
    BY ViewsThere DEF StoreTypes, Stores, Open
  <2>2. l \in Logs(dir)
    BY <2>1, NumbersAre DEF Logs
  <2> QED
    BY <2>1, <2>2, BatchesOnly
<1>2. w.n \in Batches /\ x \in Batches \cup {Tear}
  <2>1. MaxBatches \in 0 .. MaxSequence /\ MaxSequence \in Nat
    BY DEF DurableStoreAssumption, FileTypes, MaxBatches
  <2> QED
    BY <1>1, <2>1 DEF Batches
<1>3. /\ IsLog(h) /\ Gains(g, h, x) /\ (Torn(h.data) <=> Torn(g.data) \/ x = Tear)
      /\ ~Torn(h.data) => ReadOf(h) = ReadOf(g) \cup {x}
      /\ s = Len(g.data) + 1 => x \in SyncedOf(h)
  <2>1. IsLog(g) /\ x \in Batches \cup {Tear} /\ s \in {g.synced, Len(g.data) + 1}
    BY <1>1, <1>2
  <2>2. h = [data |-> Append(g.data, x), synced |-> s]
    OBVIOUS
  <2> HIDE DEF StoreInv, AddsRecord, g, h, l
  <2>3. IsLog(h) /\ Gains(g, h, x) /\ (Torn(h.data) <=> Torn(g.data) \/ x = Tear)
    BY <2>1, <2>2, ReadsAppended
  <2>5. ASSUME s = Len(g.data) + 1 PROVE x \in SyncedOf(h)
    BY <2>1, <2>2, <2>5, ReadsAppended
  <2> QED
    BY <2>3, <2>5 DEF Gains
<1>4. FileOf("log", h)
  BY <1>1, <1>3 DEF FileOf
<1>5. CarriesAllBut(l) /\ files'[Log(l)] = h
  <2> DEFINE data == Append(g.data, x)
  <2>1. /\ {} \subseteq {Log(l)} /\ dir' = [dir EXCEPT !.names = @ \cup {}]
        /\ dir'.names \subseteq DOMAIN files \cup {Log(l)} /\ earlier' \subseteq Dirs
    BY <1>1 DEF Directories, Dirs
  <2>2. files' = With(Log(l), data, s) /\ FileOf("log", [data |-> data, synced |-> s])
    BY <1>4
  <2>3. h = [data |-> data, synced |-> s]
    OBVIOUS
  <2>4. WritesLog(l, data, s, {})
    BY <1>1, <2>1, <2>2 DEF WritesLog
  <2>5. StoreInv
    OBVIOUS
  <2> HIDE DEF data, h, l, StoreInv, AddsRecord
  <2> QED
    BY <2>3, <2>4, <2>5, LogWritten
<1> HIDE DEF h
<1>6. w # None
  BY DEF DurableStoreNone
<1>7. ASSUME "tear" \notin LogFaults PROVE ~Torn(h.data) /\ x = w.n
  <2>1. x # Tear /\ ~Torn(g.data) /\ x = w.n
    BY <1>1, <1>7
  <2> QED
    BY <1>3, <2>1
<1> QED
  BY <1>1, <1>2, <1>3, <1>5, <1>6, <1>7

(* AddRecord is one of its outcomes.                                       *)
LEMMA AddRecordIs ==
    ASSUME DurableStoreAssumption, DurableStoreNone, StoreInv, UNCHANGED disk,
           NEW sync \in BOOLEAN, AddRecord(sync)
    PROVE  /\ Up
           /\ \E w, x, s :
                 /\ AddsRecord(w, x, s) /\ w.sync = sync
                 /\ w.status = "error" => "tear" \in LogFaults
                 /\ w.status # "error" => x = w.n
                 /\ w.status = "ok" /\ sync =>
                       /\ s = Len(files[Log(db.logfile)].data) + 1
                       /\ earlier' = AfterSync(FALSE)
<1> USE DEF StoreInv
<1> DEFINE l == db.logfile
           n == db.lastSequence + 1
           g == files[Log(l)]
           w(st) == [n |-> n, sync |-> sync, status |-> st]
<1>1. /\ Up /\ db.writer = None /\ db.lastSequence < MaxBatches
      /\ UNCHANGED <<dir, acked, safe, stops>>
      /\ \/ /\ db' = [db EXCEPT !.writer = w("ok")]
            /\ \/ /\ files' = Synced(Log(l), Appended(Log(l), n))
                  /\ earlier' = AfterSync(FALSE)
               \/ ~sync /\ files' = Appended(Log(l), n) /\ UNCHANGED earlier
         \/ /\ "tear" \in LogFaults /\ db' = [db EXCEPT !.writer = w("error")]
            /\ files' = Appended(Log(l), Tear) /\ UNCHANGED earlier
         \/ /\ db' = [db EXCEPT !.writer = w("unsynced")]
            /\ files' = Appended(Log(l), n) /\ UNCHANGED earlier
  BY DEF AddRecord, Unchanged
<1>2. /\ n \in Nat
      /\ \A st \in {"ok", "error", "unsynced"} : w(st) \in Writers
      /\ \A st : w(st).n = n /\ w(st).sync = sync /\ w(st).status = st
  BY DEF StoreTypes, Stores, Writers
<1>3. PowerFails \/ earlier = {}
  BY DEF FileTypes
<1>4. \A x : Appended(Log(l), x) = With(Log(l), Append(g.data, x), g.synced)
  BY DEF Appended
<1>5. \A x : Synced(Log(l), Appended(Log(l), x))
                = With(Log(l), Append(g.data, x), Len(Append(g.data, x)))
  <2> TAKE x
  <2> DEFINE a == Append(g.data, x)
             f == Log(l)
  <2> HIDE DEF a, f, g
  <2>1. Appended(f, x) = With(f, a, g.synced)
    BY <1>4 DEF a, f, g
  <2>2. Synced(f, With(f, a, g.synced)) = With(f, a, Len(a))
    <3> DEFINE u == With(f, a, g.synced)
               r == [data |-> a, synced |-> g.synced]
    <3>1. u = [e \in DOMAIN files \cup {f} |-> IF e = f THEN r ELSE files[e]]
      BY DEF With
    <3>2. [r EXCEPT !.synced = Len(a)] = [data |-> a, synced |-> Len(a)]
      OBVIOUS
    <3>3. r.data = a
      OBVIOUS
    <3> HIDE DEF r, u
    <3>4. u[f] = r /\ DOMAIN u = DOMAIN files \cup {f}
      BY <3>1
    <3>5. Synced(f, u) = [u EXCEPT ![f] = [r EXCEPT !.synced = Len(a)]]
      BY <3>3, <3>4 DEF Synced
    <3>6. [u EXCEPT ![f] = [data |-> a, synced |-> Len(a)]]
             = [e \in DOMAIN files \cup {f} |-> IF e = f THEN [data |-> a, synced |-> Len(a)]
                                                ELSE files[e]]
      BY <3>1
    <3> QED
      BY <3>2, <3>5, <3>6 DEF With, u
  <2> QED
    BY <2>1, <2>2 DEF a, f
<1>6. IsLog(g)
  <2>1. Log(l) \in dir.names /\ dir \in Dirs /\ dir.names \subseteq Files
    BY <1>1, ViewsThere DEF Open
  <2>2. l \in Logs(dir)
    BY <2>1, NumbersAre DEF Logs
  <2> QED
    BY <2>1, <2>2, BatchesOnly
<1>7. \A x \in {n, Tear} : Len(Append(g.data, x)) = Len(g.data) + 1
  BY <1>6 DEF IsLog, Batches
<1> HIDE DEF w, n, g, l
<1> DEFINE Fits1(v, x, s) ==
              /\ AddsRecord(v, x, s) /\ v.sync = sync
              /\ v.status = "error" => "tear" \in LogFaults
              /\ v.status # "error" => x = v.n
              /\ v.status = "ok" /\ sync => s = Len(g.data) + 1 /\ earlier' = AfterSync(FALSE)
<1>8. ASSUME NEW st \in {"ok", "error", "unsynced"}, NEW x \in {n, Tear},
             st = "error" => "tear" \in LogFaults, x = Tear => st = "error",
             db' = [db EXCEPT !.writer = w(st)],
             NEW s \in {g.synced, Len(g.data) + 1},
             st = "ok" /\ sync => s = Len(g.data) + 1 /\ earlier' = AfterSync(FALSE),
             files' = With(Log(l), Append(g.data, x), s),
             earlier' \subseteq earlier, PowerFails \/ earlier' = {}
      PROVE  \E v, y, r : Fits1(v, y, r)
  <2>1. AddsRecord(w(st), x, s)
    BY <1>1, <1>2, <1>8 DEF AddsRecord, n, g, l
  <2>2. st # "error" => x = n
    BY <1>8
  <2>3. Fits1(w(st), x, s)
    BY <1>2, <1>8, <2>1, <2>2
  <2> QED
    BY <2>3
<1>9. n \in {n, Tear} /\ Tear \in {n, Tear} /\ n # Tear
  BY <1>2 DEF DurableStoreNone
<1>10. ASSUME files' = Synced(Log(l), Appended(Log(l), n)), earlier' = AfterSync(FALSE),
              db' = [db EXCEPT !.writer = w("ok")]
       PROVE  \E v, y, r : Fits1(v, y, r)
  <2>1. files' = With(Log(l), Append(g.data, n), Len(g.data) + 1)
    BY <1>5, <1>7, <1>9, <1>10
  <2>2. earlier' \subseteq earlier /\ (PowerFails \/ earlier' = {})
    BY <1>3, <1>10 DEF AfterSync
  <2> HIDE DEF Fits1
  <2> QED
    BY <1>8, <1>9, <1>10, <2>1, <2>2
<1>11. ASSUME NEW st \in {"ok", "error", "unsynced"}, NEW x \in {n, Tear},
              st = "error" => "tear" \in LogFaults, x = Tear => st = "error",
              db' = [db EXCEPT !.writer = w(st)], st # "ok" \/ ~sync,
              files' = Appended(Log(l), x), earlier' = earlier
       PROVE  \E v, y, r : Fits1(v, y, r)
  <2>1. files' = With(Log(l), Append(g.data, x), g.synced)
    BY <1>4, <1>11
  <2> HIDE DEF Fits1
  <2> QED
    BY <1>3, <1>8, <1>11, <2>1
<1>12. \E v, y, r : Fits1(v, y, r)
  <2> HIDE DEF Fits1
  <2> QED
    BY <1>1, <1>9, <1>10, <1>11
<1> QED
  BY <1>1, <1>12 DEF g, l

(* AddRecord, for one outcome.                                             *)
LEMMA LogAppendedInv ==
    ASSUME DurableStoreAssumption, DurableStoreNone, StoreInv, Up, UNCHANGED disk,
           NEW w, NEW x, NEW s, AddsRecord(w, x, s)
    PROVE  StoreInv'
<1> DEFINE g == files[Log(db.logfile)]
<1>0. AddsRecord(w, x, s)
  OBVIOUS
<1> USE DEF StoreInv, AddsRecord
<1> DEFINE l == db.logfile
           h == files'[Log(l)]
<1>1. /\ db \in Stores /\ db.lastSequence \in Nat /\ dir \in Dirs
      /\ dir \in Directories /\ dir.names \subseteq DOMAIN files
  BY ViewsThere DEF StoreTypes, Stores
<1>2. CarriesAllBut(l) /\ Gains(g, h, x) /\ w.n \in Batches /\ w # None
  <2>1. StoreInv
    OBVIOUS
  <2> HIDE DEF StoreInv, AddsRecord
  <2> QED
    BY <1>0, <2>1, LogAppended
<1>3. ReadOf(h) \subseteq ReadOf(g) \cup ({x} \ {Tear})
  BY <1>2 DEF Gains
<1> HIDE DEF h
<1>4. /\ db'.phase = db.phase /\ db'.imm = db.imm /\ db'.logfile = db.logfile
      /\ db'.logNumber = db.logNumber /\ db'.version = db.version
      /\ db'.nextFile = db.nextFile /\ db'.manifest = db.manifest
      /\ db'.lastSequence = db.lastSequence /\ db'.pending = db.pending
      /\ db'.held = db.held /\ db'.writer = w /\ db'.flush = db.flush
      /\ db'.merge = db.merge /\ db'.edit = db.edit /\ db'.left = db.left
      /\ db'.found = db.found /\ db'.mem = db.mem /\ db'.bgError = db.bgError
  BY <1>1 DEF Stores
<1>5. db' \in Stores
  BY <1>1 DEF Stores
<1>6. Up' /\ Version(db') = Version(db) /\ Unbuilt' = Unbuilt
  BY <1>4 DEF Up, Version, Unbuilt
<1>7. Named'
  <2>1. dir.current > 0 /\ Latest.next > 0
    BY ViewsThere DEF Open, Directories, Named, Up
  <2> QED
    BY <1>2, <2>1 DEF Named, CarriesAllBut
<1>8. StoreTypes'
  <2>1. acked' \subseteq Batches' /\ safe' \subseteq Batches' /\ stops' \in 0 .. MaxStops'
    BY DEF StoreTypes, Batches, MaxStops
  <2>2. Batches' = Batches /\ db'.phase = "up"
    BY <1>4 DEF Batches, Up
  <2> QED
    BY <1>2, <1>4, <1>5, <1>6, <2>1, <2>2 DEF StoreTypes
<1>9. Opening' /\ Made'
  BY <1>6 DEF Opening, Made, Up
<1>10. Open'
  <2>1. InTables(db.version, files') = InTables(db.version, files)
    <3>1. \A t \in db.version : Table(t) \in dir.names
      BY DEF Open, Version
    <3> QED
      BY <1>2, <3>1 DEF CarriesAllBut
  <2>2. Logs(dir)' = Logs(dir) /\ Manifests(dir)' = Manifests(dir)
    BY DEF Logs, Manifests
  <2>3. \A k \in Logs(dir) : \A n \in ReadOf(files'[Log(k)]) :
           n <= db.lastSequence \/ n = w.n
    <3> TAKE k \in Logs(dir)
    <3>1. CASE k = l
      <4>1. ReadOf(files'[Log(k)]) \subseteq ReadOf(files[Log(k)]) \cup {w.n}
        BY <1>3, <3>1 DEF h
      <4>2. \A n \in ReadOf(files[Log(k)]) : n <= db.lastSequence
        BY DEF Open
      <4> QED
        BY <4>1, <4>2
    <3>2. CASE k # l
      BY <1>2, <3>2 DEF Open, CarriesAllBut
    <3> QED
      BY <3>1, <3>2
  <2>4. \A k \in Logs(dir)' : \A n \in ReadOf(files[Log(k)])' :
           n <= db'.lastSequence \/ (db'.writer # None /\ n = db'.writer.n)
    BY <1>2, <1>4, <2>2, <2>3 DEF Log
  <2> QED
    BY <1>2, <1>4, <1>6, <2>1, <2>2, <2>4 DEF Open, Log, CarriesAllBut
<1>11. Working'
  <2>1. ASSUME NEW t \in Unbuilt, NEW d \in Dirs', d.current > 0, NEW v \in Views(d)'
        PROVE  t \notin v.tables
    <3>1. PICK d0 \in Dirs : d0.current > 0 /\ v \in Views(d0)
      BY <1>2, <2>1 DEF CarriesAllBut
    <3> QED
      BY <3>1 DEF Working
  <2> QED
    BY <1>4, <1>6, <2>1 DEF Working
<1>12. Editing'
  <2>1. Dirs' \subseteq Dirs /\ Journaled' = Journaled
    BY DEF Dirs, Journaled
  <2>2. ASSUME db.edit # None PROVE InTables(db.edit.is.add, files') = InTables(db.edit.is.add, files)
    <3>1. \A t \in db.edit.is.add : Table(t) \in dir.names
      BY <2>2 DEF Editing
    <3> QED
      BY <1>2, <3>1 DEF CarriesAllBut
  <2> QED
    BY <1>2, <1>4, <2>1, <2>2 DEF Editing, CarriesAllBut
<1>13. Exact'
  BY <1>2, <1>4, <1>6 DEF Exact, CarriesAllBut
<1> QED
  BY <1>2, <1>7, <1>8, <1>9, <1>10, <1>11, <1>12, <1>13 DEF CarriesAllBut

(* AddRecord.                                                              *)
LEMMA AddRecordInv ==
    ASSUME DurableStoreAssumption, DurableStoreNone, StoreInv, UNCHANGED disk,
           NEW sync \in BOOLEAN, AddRecord(sync)
    PROVE  StoreInv'
<1>1. Up /\ \E w, x, s : AddsRecord(w, x, s)
  BY AddRecordIs
<1> QED
  BY <1>1, LogAppendedInv

(* SwitchMemTable.                                                         *)
LEMMA SwitchMemTableInv ==
    ASSUME DurableStoreAssumption, DurableStoreNone, StoreInv, UNCHANGED disk, SwitchMemTable
    PROVE  StoreInv'
<1> USE DEF StoreInv
<1> DEFINE l == db.nextFile
           next == l + 1
<1>1. /\ Up /\ db.writer = None /\ ~db.bgError /\ db.mem # {} /\ db.imm = {}
      /\ db' = [db EXCEPT !.logfile = l, !.nextFile = next, !.imm = db.mem, !.mem = {}]
      /\ files' = With(Log(l), <<>>, 0)
      /\ dir' = [dir EXCEPT !.names = @ \cup {Log(l)}]
      /\ earlier' = (IF PowerFails THEN (earlier \cup {dir}) \ {dir'} ELSE {})
      /\ UNCHANGED <<acked, safe, stops>>
  BY DEF SwitchMemTable, Unchanged, Past
<1>2. /\ db \in Stores /\ l \in Nat /\ next \in Nat /\ l < next
      /\ dir \in Directories /\ dir \in Dirs
      /\ dir.names \subseteq DOMAIN files /\ db.lastSequence \in Nat
      /\ dir.names \subseteq Files /\ db.logfile \in Nat /\ db.logNumber \in Nat
      /\ db.manifest \in Nat /\ Version(db) \subseteq Nat
  BY ViewsThere, VersionsAre DEF StoreTypes, Stores
<1> DEFINE h == [data |-> <<>>, synced |-> 0]
<1>3. IsLog(h) /\ FileOf("log", h) /\ ReadOf(h) = {}
  <2>1. IsLog(h)
    <3>1. <<>> \in Seq(Batches \cup {Tear}) /\ Len(<<>>) = 0
      OBVIOUS
    <3> QED
      BY <3>1 DEF IsLog
  <2>2. h.data = <<>>
    OBVIOUS
  <2> HIDE DEF h
  <2>3. ReadOf(h) = {} /\ ~Torn(h.data)
    BY <2>1, <2>2, ReadsAre
  <2> QED
    BY <2>1, <2>3 DEF FileOf
<1>4. CarriesAllBut(l) /\ files'[Log(l)] = h
  <2>1. WritesLog(l, <<>>, 0, {Log(l)})
    <3>1. dir'.names = dir.names \cup {Log(l)}
      BY <1>1, <1>2 DEF Directories
    <3>2. earlier' \subseteq Dirs /\ (PowerFails \/ earlier' = {})
      BY <1>1 DEF Dirs
    <3> QED
      BY <1>1, <1>2, <1>3, <3>1, <3>2 DEF WritesLog
  <2>2. StoreInv
    OBVIOUS
  <2> HIDE DEF StoreInv
  <2> QED
    BY <1>1, <2>1, <2>2, LogWritten
<1> HIDE DEF h, next
<1>5. /\ db'.phase = db.phase /\ db'.imm = db.mem /\ db'.logfile = l
      /\ db'.logNumber = db.logNumber /\ db'.version = db.version
      /\ db'.nextFile = next /\ db'.manifest = db.manifest
      /\ db'.lastSequence = db.lastSequence /\ db'.pending = db.pending
      /\ db'.held = db.held /\ db'.writer = None /\ db'.flush = db.flush
      /\ db'.merge = db.merge /\ db'.edit = db.edit /\ db'.left = db.left
      /\ db'.found = db.found /\ db'.mem = {} /\ db'.bgError = db.bgError
  BY <1>1, <1>2 DEF Stores
<1>6. db' \in Stores
  <2>1. db.mem \in SUBSET Batches
    BY <1>2 DEF Stores
  <2> QED
    BY <1>1, <1>2, <2>1 DEF Stores
<1>7. Up' /\ Version(db') = Version(db) /\ Unbuilt' = Unbuilt
  BY <1>1, <1>5 DEF Up, Version, Unbuilt
<1>8. /\ db.flush = 0
      /\ db.edit # None => db.edit.for = "merge" /\ db.merge # None
  BY <1>1 DEF StoreTypes
<1>9. Named'
  <2>1. dir'.current > 0 /\ Latest'.next > 0
    BY <1>1, <1>4, ViewsThere DEF Open, Directories, Named, Up, CarriesAllBut
  <2> QED
    BY <1>4, <2>1 DEF Named, CarriesAllBut
<1>10. StoreTypes'
  <2>1. acked' \subseteq Batches' /\ safe' \subseteq Batches' /\ stops' \in 0 .. MaxStops'
    BY <1>1 DEF StoreTypes, Batches, MaxStops
  <2>2. db'.phase = "up"
    BY <1>1, <1>5 DEF Up
  <2>3. /\ db'.pending \subseteq (IF db'.edit = None THEN {db'.flush} \ {0} ELSE {})
                               \cup (IF db'.merge = None THEN {} ELSE {db'.merge.out})
        /\ db'.left = {} /\ db'.found = {} /\ db'.mem \cap db'.imm = {}
    BY <1>1, <1>5 DEF StoreTypes
  <2>4. Stores' = Stores
    BY DEF Stores, Batches
  <2> QED
    BY <1>5, <1>6, <1>7, <1>8, <2>1, <2>2, <2>3, <2>4 DEF StoreTypes
<1>11. Opening' /\ Made'
  BY <1>7 DEF Opening, Made, Up
<1>12. Open'
  <2>1. InTables(db.version, files') = InTables(db.version, files)
    <3>1. \A t \in db.version : Table(t) \in dir.names
      BY <1>1 DEF Open, Version
    <3> QED
      BY <1>4, <3>1 DEF CarriesAllBut
  <2>2. /\ Logs(dir)' \subseteq Logs(dir) \cup {l} /\ Manifests(dir)' = Manifests(dir)
        /\ dir.names \subseteq dir'.names /\ dir'.current = dir.current /\ Latest' = Latest
        /\ \A k \in Logs(dir) : k # l => files'[Log(k)] = files[Log(k)]
    BY <1>4 DEF CarriesAllBut
  <2>3. ASSUME NEW k \in Logs(dir)', NEW n \in ReadOf(files'[Log(k)]) PROVE n <= db.lastSequence
    <3>1. k # l
      BY <1>3, <1>4, <2>3
    <3>2. k \in Logs(dir) /\ files'[Log(k)] = files[Log(k)]
      BY <2>2, <3>1
    <3> QED
      BY <1>1, <2>3, <3>2 DEF Open
  <2>4. \A k \in Logs(dir)' : \A n \in ReadOf(files[Log(k)])' :
           n <= db'.lastSequence \/ (db'.writer # None /\ n = db'.writer.n)
    BY <1>5, <2>3 DEF Log
  <2>5. \A k \in Logs(dir)' : k <= l
    <3>1. \A k \in Logs(dir) : k \in Nat /\ k <= db.logfile
      BY <1>1, <1>2, BatchesOnly DEF Open
    <3> QED
      BY <1>1, <1>2, <2>2, <3>1 DEF Open
  <2>6. \A k \in Manifests(dir)' : k < l
    <3>1. \A k \in Manifests(dir) : k \in Nat /\ k < db.logfile
      BY <1>1, <1>2, NumbersAre DEF Open, Manifests
    <3> QED
      BY <1>1, <1>2, <2>2, <3>1 DEF Open
  <2>7. Log(l) \in dir'.names
    BY <1>1, <1>2 DEF Directories
  <2>8. /\ \A t \in Version(db) : t < next /\ Table(t) \in dir'.names
        /\ db.manifest < l /\ db.logNumber <= l
    BY <1>1, <1>2, <2>2 DEF Open
  <2>9. Latest.next <= next /\ Latest.last <= db.lastSequence
    <3>1. Latest.next \in Nat
      <4>1. dir.current > 0
        BY <1>1, ViewsThere DEF Open, Directories
      <4> QED
        BY <4>1, ViewsThere DEF ViewTypes
    <3> QED
      BY <1>1, <1>2, <3>1 DEF Open
  <2>10. \A n \in InTables(db.version, files') \cup {} \cup db.mem : n <= db.lastSequence
    BY <1>1, <2>1 DEF Open
  <2>11. dir.current = db.manifest /\ 1 < db.manifest
    BY <1>1 DEF Open
  <2> QED
    BY <1>2, <1>5, <1>7, <2>2, <2>4, <2>5, <2>6, <2>7, <2>8, <2>9, <2>10, <2>11 DEF Open, Log
<1>13. Working'
  <2>1. ASSUME NEW t \in Unbuilt, NEW d \in Dirs', d.current > 0, NEW v \in Views(d)'
        PROVE  t \notin v.tables
    <3>1. PICK d0 \in Dirs : d0.current > 0 /\ v \in Views(d0)
      BY <1>4, <2>1 DEF CarriesAllBut
    <3> QED
      BY <1>1, <3>1 DEF Working
  <2>2. \A t \in Unbuilt : t \in Nat /\ t < next
    <3>1. \A t \in Unbuilt : t \in Nat
      BY <1>2 DEF Unbuilt, Stores, Merges
    <3> QED
      BY <1>1, <1>2, <3>1 DEF Working
  <2>3. db.merge # None => /\ db.merge.inputs \subseteq db.version
                           /\ \A t \in db.merge.inputs : t < db.merge.out
                           /\ 0 < db.merge.out /\ db.merge.out < next
                           /\ db.merge.out # db.flush
    <3>1. db.merge # None => db.merge.out \in Nat
      BY <1>2 DEF Stores, Merges
    <3> QED
      BY <1>1, <1>2, <3>1 DEF Working
  <2>4. \A t \in Unbuilt' :
           /\ t < db'.nextFile /\ t \notin Version(db')
           /\ \A d \in Dirs' : d.current > 0 => \A v \in Views(d)' : t \notin v.tables
    BY <1>1, <1>5, <1>7, <2>1, <2>2 DEF Working
  <2> QED
    BY <1>5, <2>3, <2>4 DEF Working
<1>14. Editing'
  <2>1. SUFFICES ASSUME db.edit # None PROVE Editing'
    BY <1>5 DEF Editing
  <2> DEFINE e == db.edit.is
  <2>2. /\ e.add = {db.merge.out} /\ e.del = db.merge.inputs /\ e.log = db.logNumber
        /\ e.next <= db.nextFile /\ e.last <= db.lastSequence
        /\ e.log < e.next /\ db.manifest < e.next
        /\ \A t \in e.add : t < e.next /\ Table(t) \in dir.names
        /\ \A n \in InTables(e.add, files) : n <= e.last
        /\ ~db.edit.written =>
              /\ Latest.next <= e.next /\ Latest.last <= e.last
              /\ Journaled => \A d \in Dirs : \A t \in e.add :
                    d.current = db.manifest => Table(t) \in d.names
    BY <1>1, <1>8, <2>1 DEF Editing
  <2>3. e.next \in Nat /\ db.edit.for = "merge"
    <3>1. db.edit \in Jobs
      BY <1>2, <2>1 DEF Stores
    <3> QED
      BY <1>8, <2>1, <3>1 DEF Jobs, Edits
  <2>4. e.next <= next
    BY <1>2, <2>2, <2>3
  <2>5. InTables(e.add, files') = InTables(e.add, files)
    BY <1>4, <2>2 DEF CarriesAllBut
  <2>6. ~db.edit.written /\ Journaled' => \A d \in Dirs' : \A t \in e.add :
           d.current = db.manifest => Table(t) \in d.names
    <3>1. \A d \in Dirs' : \E d0 \in Dirs : d.current = d0.current /\ d0.names \subseteq d.names
      BY <1>4 DEF CarriesAllBut
    <3> QED
      BY <2>2, <3>1 DEF Journaled
  <2>7. Latest' = Latest /\ dir.names \subseteq dir'.names
    BY <1>4 DEF CarriesAllBut
  <2> QED
    BY <1>5, <2>2, <2>3, <2>4, <2>5, <2>6, <2>7 DEF Editing
<1>15. Exact'
  BY <1>1, <1>4, <1>5, <1>7 DEF Exact, CarriesAllBut
<1> QED
  BY <1>4, <1>9, <1>10, <1>11, <1>12, <1>13, <1>14, <1>15 DEF CarriesAllBut

-----------------------------------------------------------------------------
(* Every step.                                                             *)

(* Nothing changes.                                                        *)
LEMMA UnchangedInv ==
    ASSUME StoreInv, UNCHANGED <<disk, files, dir, earlier, db, acked, safe, stops>>
    PROVE  StoreInv'
<1> USE DEF StoreInv
<1>1. /\ db' = db /\ UNCHANGED <<disk, files, dir, earlier>>
      /\ UNCHANGED <<acked, safe, stops>>
  OBVIOUS
<1>2. Up' = Up /\ Unbuilt' = Unbuilt
  BY <1>1 DEF Up, Unbuilt
<1>3. FileTypes' /\ Named'
  BY <1>1, SameDisk DEF Named
<1>4. StoreTypes'
  BY <1>1, SameDisk DEF StoreTypes, Up, Stores, Batches
<1>5. Opening'
  BY <1>1, SameDisk DEF Opening
<1>6. Made'
  BY <1>1 DEF Made
<1>7. Open'
  BY <1>1, SameDisk DEF Open, Up, Version
<1>8. Working'
  BY <1>1, <1>2, SameDisk DEF Working, Version
<1>9. Editing'
  BY <1>1, <1>2, SameDisk DEF Editing
<1>10. Exact'
  BY <1>1, <1>2, SameDisk DEF Exact
<1> QED
  BY <1>3, <1>4, <1>5, <1>6, <1>7, <1>8, <1>9, <1>10

(* The invariant is kept.                                                  *)
LEMMA StoreInvKept ==
    ASSUME DurableStoreAssumption, DurableStoreNone, StoreInv, [Next]_vars
    PROVE  StoreInv'
<1>1. CASE UNCHANGED vars
  <2>1. UNCHANGED <<disk, files, dir, earlier, db, acked, safe, stops>>
    BY <1>1 DEF vars
  <2> QED
    BY <2>1, UnchangedInv
<1>2. CASE Next
  <2>1. UNCHANGED disk
    BY <1>2 DEF Next
  <2>2. CASE NewDB
    BY <2>1, <2>2, NewDBInv
  <2>3. CASE Recover
    BY <2>1, <2>3, RecoverInv
  <2>4. CASE RecoverLogFile
    BY <2>1, <2>4, RecoverLogFileInv
  <2>5. CASE NewManifest
    BY <2>1, <2>5, NewManifestInv
  <2>6. CASE SyncManifest
    BY <2>1, <2>6, SyncManifestInv
  <2>7. CASE SetCurrentFile
    BY <2>1, <2>7, SetCurrentFileInv
  <2>8. CASE PurgeDatabase
    BY <2>1, <2>8, PurgeDatabaseInv
  <2>9. CASE \E sync \in BOOLEAN : AddRecord(sync)
    BY <2>1, <2>9, AddRecordInv
  <2>10. CASE InsertInto
    BY <2>1, <2>10, InsertIntoInv
  <2>11. CASE SwitchMemTable
    BY <2>1, <2>11, SwitchMemTableInv
  <2>12. CASE NewIterator \/ CleanupIteratorState
    BY <2>1, <2>12, IteratorInv
  <2>13. CASE BeginFlush
    BY <2>1, <2>13, BeginFlushInv
  <2>14. CASE WriteLevel0Table
    BY <2>1, <2>14, WriteLevel0TableInv
  <2>15. CASE BeginMerge
    BY <2>1, <2>15, BeginMergeInv
  <2>16. CASE FinishMerge
    BY <2>1, <2>16, FinishMergeInv
  <2>17. CASE AddEdit
    BY <2>1, <2>17, AddEditInv
  <2>18. CASE LogAndApply
    BY <2>1, <2>18, LogAndApplyInv
  <2>19. CASE ProcessStops
    BY <2>1, <2>19, ProcessStopsInv
  <2>20. CASE MachineStops
    BY <2>1, <2>20, MachineStopsInv
  <2> QED
    BY <1>2, <2>2, <2>3, <2>4, <2>5, <2>6, <2>7, <2>8, <2>9, <2>10, <2>11, <2>12, <2>13, <2>14,
       <2>15, <2>16, <2>17, <2>18, <2>19, <2>20 DEF Next
<1> QED
  BY <1>1, <1>2

(* The invariant holds always.                                             *)
LEMMA StoreInvHolds == Spec => []StoreInv
<1>1. Init => StoreInv
  BY DurableStoreAssumption, DurableStoreNone, InvInit
<1>2. StoreInv /\ [Next]_vars => StoreInv'
  BY DurableStoreAssumption, DurableStoreNone, StoreInvKept
<1> QED
  BY <1>1, <1>2, PTL DEF Spec

-----------------------------------------------------------------------------
(* The invariant of what the files hold.                                   *)

\* The batches in the tables and logs to which what is read of a manifest leads; those of
\* them that no power failure takes; and those that are safe once Write has returned.
HeldIn(d, v) ==
    InTables(v.tables, files) \cup UNION {ReadOf(files[Log(l)]) : l \in LogsFrom(v.log, d)}
SafeIn(d, v) ==
    InTables(v.tables, files) \cup UNION {SyncedOf(files[Log(l)]) : l \in LogsFrom(v.log, d)}
Promised ==
    safe \cup {n \in Batches : /\ db.writer # None /\ db.writer.sync
                               /\ db.writer.status = "ok" /\ n = db.writer.n}

\* Wherever a power failure takes the store, it has what was promised, and nothing that was
\* not there; logs that are gone from the directory are not needed.
Least == IF db.phase = "closed" THEN Latest.log ELSE db.logNumber
LastingAt(d) ==
    /\ d.current <= 1 => Promised = {}
    /\ d.current > 0 => \A v \in Views(d) : /\ Promised \subseteq SafeIn(d, v)
                                            /\ HeldIn(d, v) \subseteq Recoverable
    /\ \A l \in Logs(d) : l \in Logs(dir) \/ l < Least
Lasting == \A d \in Dirs : LastingAt(d)

\* What was acknowledged is there.
Acked == safe \subseteq acked /\ acked \subseteq Recoverable /\ (Up => acked \subseteq Visible)

\* A store that is being opened has found all there is, or has its log still before it.
Recovered ==
    db.phase \in {"logs", "manifest", "current"} =>
       Recoverable = InTables(db.version \cup db.found, files)
                        \cup UNION {ReadOf(files[Log(l)]) : l \in db.left}

\* The memtables are in their logs, which have nothing else but what is being written.
Logged ==
    Up => LET log == ReadOf(files[Log(db.logfile)])
          IN  /\ IF db.writer # None
                 THEN db.writer.status # "error" /\ log = db.mem \cup {db.writer.n}
                 ELSE \/ log = db.mem
                      \/ db.bgError /\ \E x \in Batches : log = db.mem \cup {x}
              /\ db.imm = UNION {ReadOf(files[Log(l)]) :
                                    l \in LogsFrom(db.logNumber, dir) \ {db.logfile}}
              /\ db.imm = {} => db.logNumber = db.logfile

\* Of a job's table: it holds what it is to hold.
Built ==
    Up /\ db.edit # None =>
       /\ InTables(db.edit.is.add, files) = IF db.edit.for = "flush" THEN db.imm
                                            ELSE InTables(db.merge.inputs, files)
       /\ db.edit.written => Latest.log = db.edit.is.log

\* The manifest describes the tables of the version, or those and the old memtable; nothing
\* that may be read of a manifest leads beyond the log in use.
Covered ==
    Up => /\ Latest.log \in {db.logNumber, db.logfile}
          /\ InTables(db.version, files) \subseteq InTables(Latest.tables, files)
          /\ InTables(Latest.tables, files) \subseteq InTables(db.version, files) \cup db.imm
          /\ Latest.log = db.logfile => db.imm \subseteq InTables(Latest.tables, files)
          /\ \A d \in Dirs : d.current > 0 => \A v \in Views(d) : v.log <= db.logfile

ContentInv == Lasting /\ Acked /\ Recovered /\ Logged /\ Built /\ Covered

\* What is seen of an open store, and what the files of one that is not hold.
Held == IF Up THEN Visible ELSE Recoverable

-----------------------------------------------------------------------------
(* What a directory leads to, before and after a step.                     *)

(* What a directory leads to, batch by batch.                              *)
LEMMA HeldAre ==
    ASSUME NEW d, NEW v, NEW n
    PROVE  /\ n \in HeldIn(d, v) <=> \/ n \in InTables(v.tables, files)
                                     \/ \E l \in Logs(d) : l >= v.log /\ n \in ReadOf(files[Log(l)])
           /\ n \in SafeIn(d, v) <=> \/ n \in InTables(v.tables, files)
                                     \/ \E l \in Logs(d) : l >= v.log /\ n \in SyncedOf(files[Log(l)])
  BY DEF HeldIn, SafeIn, LogsFrom, Logs

(* The same after the step.                                                *)
LEMMA HeldWill ==
    ASSUME NEW d, NEW v, NEW n
    PROVE  /\ n \in HeldIn(d, v)' <=>
                 \/ n \in InTables(v.tables, files')
                 \/ \E l \in Logs(d) : l >= v.log /\ n \in ReadOf(files'[Log(l)])
           /\ n \in SafeIn(d, v)' <=>
                 \/ n \in InTables(v.tables, files')
                 \/ \E l \in Logs(d) : l >= v.log /\ n \in SyncedOf(files'[Log(l)])
  BY DEF HeldIn, SafeIn, LogsFrom, Logs, ReadOf, SyncedOf

(* What can be recovered is what the directory leads to.                   *)
LEMMA RecoverableIs ==
    ASSUME DurableStoreNone, FileTypes, Named
    PROVE  /\ dir.current = 0 => Recoverable = {}
           /\ dir.current > 0 => Recoverable = HeldIn(dir, Latest)
<1>1. CASE dir.current = 0
  <2>1. dir.names \subseteq {Manifest(1)}
    BY <1>1, ViewsThere DEF Named, NamedAt
  <2>2. Manifest(0) # Manifest(1)
    BY DEF Manifest
  <2> QED
    BY <1>1, <2>1, <2>2 DEF Recoverable
<1>2. CASE dir.current > 0
  <2>1. Manifest(dir.current) \in dir.names
    BY <1>2, ViewsThere
  <2>2. Recoverable = InTables(Latest.tables, files)
                        \cup UNION {InLog(l, files) : l \in LogsFrom(Latest.log, dir)}
    BY <2>1 DEF Recoverable, Latest, ViewOf, Current
  <2>3. \A l : InLog(l, files) = ReadOf(files[Log(l)])
    BY DEF InLog, ReadOf
  <2> QED
    BY <1>2, <2>2, <2>3 DEF HeldIn
<1> QED
  BY <1>1, <1>2

(* The same after the step.                                                *)
LEMMA RecoverableWill ==
    ASSUME FileTypes', Named'
    PROVE  /\ dir'.current = 0 => Recoverable' = {}
           /\ dir'.current > 0 => Recoverable' = HeldIn(dir, Latest)'
<1>1. NamedAt(dir)' /\ dir'.current \in Nat
  BY DEF Named, Dirs, FileTypes, Directories
<1>2. CASE dir'.current = 0
  <2>1. dir'.names \subseteq {Manifest(1)}
    BY <1>1, <1>2 DEF NamedAt, Manifest
  <2>2. Manifest(0) # Manifest(1)
    BY DEF Manifest
  <2> QED
    BY <1>2, <2>1, <2>2 DEF Recoverable, Manifest
<1>3. CASE dir'.current > 0
  <2>1. Manifest(dir'.current) \in dir'.names
    BY <1>1, <1>3 DEF NamedAt, Manifest
  <2>2. Recoverable' = InTables(Latest.tables, files)'
                         \cup UNION {InLog(l, files)' : l \in LogsFrom(Latest.log, dir)'}
    BY <2>1 DEF Recoverable, Latest, ViewOf, Current, Manifest
  <2>3. \A l : InLog(l, files)' = ReadOf(files[Log(l)])'
    BY DEF InLog, ReadOf
  <2> QED
    BY <1>3, <2>2, <2>3 DEF HeldIn
<1> QED
  BY <1>1, <1>2, <1>3

(* On an orderly disk what may be read of a manifest does not depend on    *)
(* who names it.                                                           *)
LEMMA OrderlyViews ==
    ASSUME FileTypes, Orderly, NEW d \in Dirs
    PROVE  /\ Views(d) = ViewsOf(Current(d), TRUE)
           /\ Journaled \/ d = dir
<1>1. Journaled \/ earlier = {}
  BY DEF Orderly, FileTypes
<1>2. d = dir \/ Journaled
  BY <1>1 DEF Dirs
<1>3. (d = dir \/ Journaled) = TRUE
  BY <1>2
<1> QED
  BY <1>2, <1>3 DEF Views

\* Directory d leads to as much that is safe as d0 did, and to nothing else.
Keeps(d, d0) ==
    /\ d.current = d0.current
    /\ d.current > 0 => \A v \in Views(d)' : /\ v \in Views(d0)
                                             /\ SafeIn(d0, v) \subseteq SafeIn(d, v)'
                                             /\ HeldIn(d, v)' \subseteq HeldIn(d0, v)

\* Of directory d0 the files a store reads are not written, and d has other logs only if
\* they are empty.
Spares(d, d0) ==
    /\ d.current = d0.current /\ Logs(d0) \subseteq Logs(d)
    /\ d.current > 0 => files'[Manifest(d.current)] = files[Manifest(d.current)]
    /\ \A l \in Logs(d0) : files'[Log(l)] = files[Log(l)]
    /\ \A l \in Logs(d) : l \in Logs(d0) \/ ReadOf(files'[Log(l)]) = {}
    /\ d.current > 0 => \A v \in Views(d0) : \A t \in v.tables :
          /\ Table(t) \in DOMAIN files /\ Table(t) \in DOMAIN files'
          /\ files'[Table(t)] = files[Table(t)]

(* Then it keeps what it leads to.                                         *)
LEMMA SparesKeeps ==
    ASSUME Orderly, UNCHANGED disk, FileTypes, FileTypes',
           NEW d \in Dirs', NEW d0 \in Dirs, Spares(d, d0)
    PROVE  Keeps(d, d0)
<1>1. ASSUME d.current > 0, NEW v \in Views(d)'
      PROVE  /\ v \in Views(d0)
             /\ SafeIn(d0, v) \subseteq SafeIn(d, v)'
             /\ HeldIn(d, v)' \subseteq HeldIn(d0, v)
  <2>1. Journaled' = Journaled /\ (Journaled \/ d0 = dir)
    BY OrderlyViews DEF Journaled
  <2>2. Views(d)' \subseteq Views(d0)
    <3>1. d = dir' => d0 = dir \/ Journaled
      BY <2>1
    <3>2. Views(d)' = ViewsOf(files'[Manifest(d.current)], d = dir' \/ Journaled)
      BY <2>1 DEF Views, Current
    <3>3. Views(d0) = ViewsOf(files[Manifest(d0.current)], TRUE)
      BY OrderlyViews DEF Current
    <3>4. \A g, a : ViewsOf(g, a) \subseteq ViewsOf(g, TRUE)
      BY DEF ViewsOf, Cuts
    <3> QED
      BY <1>1, <3>2, <3>3, <3>4 DEF Spares
  <2>3. InTables(v.tables, files') = InTables(v.tables, files)
    BY <1>1, <2>2, InTablesSame DEF Spares
  <2>4. ASSUME NEW n \in SafeIn(d0, v) PROVE n \in SafeIn(d, v)'
    BY <2>3, <2>4, HeldAre, HeldWill DEF Spares
  <2>5. ASSUME NEW n \in HeldIn(d, v)' PROVE n \in HeldIn(d0, v)
    BY <2>3, <2>5, HeldAre, HeldWill DEF Spares
  <2> QED
    BY <1>1, <2>2, <2>4, <2>5
<1> QED
  BY <1>1 DEF Keeps, Spares

(* A directory that keeps what it leads to still lasts.                    *)
LEMMA LastsFrom ==
    ASSUME NEW d, NEW d0, LastingAt(d0), Keeps(d, d0), Promised' \subseteq Promised,
           d.current > 0 => Recoverable \subseteq Recoverable',
           \A l \in Logs(d) : l \in Logs(dir)' \/ l < Least'
    PROVE  LastingAt(d)'
<1>1. d.current <= 1 => Promised' = {}
  BY DEF LastingAt, Keeps
<1>2. ASSUME d.current > 0, NEW v \in Views(d)'
      PROVE  Promised' \subseteq SafeIn(d, v)' /\ HeldIn(d, v)' \subseteq Recoverable'
  BY <1>2 DEF LastingAt, Keeps
<1>3. \A l \in Logs(d)' : l \in Logs(dir)' \/ l < Least'
  BY DEF Logs
<1> QED
  BY <1>1, <1>2, <1>3 DEF LastingAt

(* Steps that leave the disk alone.                                        *)
LEMMA AloneLasts ==
    ASSUME DurableStoreNone, StoreInv, StoreInv', Orderly, Lasting,
           UNCHANGED <<disk, files, dir, earlier>>, Promised' \subseteq Promised,
           \A l \in Nat : l < Least => l < Least'
    PROVE  Lasting' /\ Recoverable' = Recoverable
<1>1. Dirs' = Dirs /\ FileTypes /\ FileTypes' /\ Named
  BY SameDisk DEF StoreInv
<1>2. Recoverable' = Recoverable
  BY DEF Recoverable, InTables, InLog
<1>3. ASSUME NEW d \in Dirs' PROVE LastingAt(d)'
  <2>1. d \in Dirs /\ LastingAt(d) /\ Logs(d) \subseteq Nat
    BY <1>1, ViewsThere, NumbersAre DEF Lasting, Logs
  <2>2. \A v \in Views(d) : d.current > 0 => \A t \in v.tables : Table(t) \in DOMAIN files
    BY <1>1, <2>1, ViewsThere DEF Named, NamedAt, Fits, Directories
  <2>3. Spares(d, d)
    BY <2>2 DEF Spares
  <2>4. Keeps(d, d)
    BY <1>1, <2>1, <2>3, SparesKeeps
  <2>5. \A l \in Logs(d) : l \in Logs(dir)' \/ l < Least'
    <3>1. Logs(dir)' = Logs(dir)
      BY DEF Logs
    <3> QED
      BY <2>1, <3>1 DEF LastingAt
  <2> QED
    BY <1>2, <2>1, <2>4, <2>5, LastsFrom
<1> QED
  BY <1>2, <1>3 DEF Lasting

(* A table is built, that no manifest names.                               *)
LEMMA TableLasts ==
    ASSUME DurableStoreNone, StoreInv, StoreInv', Orderly, Lasting, UNCHANGED disk,
           NEW t \in Nat, NEW b, NewTable(t, b), Recoverable' = Recoverable,
           \A d \in Dirs : d.current > 0 => \A v \in Views(d) : t \notin v.tables,
           Promised' \subseteq Promised, Least' = Least
    PROVE  Lasting'
<1>1. FileTypes /\ FileTypes' /\ Named
  BY DEF StoreInv
<1>2. /\ files' = With(Table(t), <<b>>, 1)
      /\ dir' = [dir EXCEPT !.names = @ \cup {Table(t)}] /\ dir \in Directories
      /\ Dirs' \subseteq Dirs \cup {dir'}
  BY <1>1 DEF NewTable, Past, Dirs, FileTypes
<1>3. /\ \A n : Manifest(n) # Table(t) /\ Log(n) # Table(t)
      /\ \A u : Table(u) = Table(t) => u = t
  BY DEF Manifest, Log, Table
<1>4. \A g \in DOMAIN files : g # Table(t) => g \in DOMAIN files' /\ files'[g] = files[g]
  BY <1>2 DEF With
<1>5. ASSUME NEW d \in Dirs' PROVE LastingAt(d)'
  <2>1. PICK d0 \in Dirs : /\ d.current = d0.current /\ d0.names \subseteq d.names
                           /\ d.names \subseteq d0.names \cup {Table(t)}
    BY <1>2, ViewsThere DEF Directories, Dirs
  <2>2. Logs(d) = Logs(d0)
    BY <2>1 DEF Logs, Numbers, Table
  <2>3. /\ LastingAt(d0) /\ Logs(d0) \subseteq Nat /\ d0.names \subseteq DOMAIN files
        /\ d0.names \subseteq Files /\ d0.current \in Nat
    BY <1>1, ViewsThere, NumbersAre DEF Lasting, Logs, Directories
  <2>4. Spares(d, d0)
    <3>1. d.current > 0 => files'[Manifest(d.current)] = files[Manifest(d.current)]
      BY <1>1, <1>3, <1>4, <2>1, <2>3, ViewsThere
    <3>2. \A l \in Logs(d0) : files'[Log(l)] = files[Log(l)]
      BY <1>3, <1>4, <2>3, NumbersAre DEF Logs
    <3>3. ASSUME d.current > 0, NEW v \in Views(d0), NEW u \in v.tables
          PROVE  /\ Table(u) \in DOMAIN files /\ Table(u) \in DOMAIN files'
                 /\ files'[Table(u)] = files[Table(u)]
      <4>1. Table(u) \in d0.names /\ u # t
        BY <1>1, <2>1, <2>3, <3>3 DEF Named, NamedAt, Fits
      <4> QED
        BY <1>3, <1>4, <2>3, <4>1
    <3> QED
      BY <2>1, <2>2, <3>1, <3>2, <3>3 DEF Spares
  <2>5. Keeps(d, d0)
    BY <1>1, <2>4, SparesKeeps
  <2>6. \A l \in Logs(d) : l \in Logs(dir)' \/ l < Least'
    <3>1. Logs(dir)' = Logs(dir)
      BY <1>2 DEF Logs, Numbers, Table, Directories
    <3> QED
      BY <2>2, <2>3, <3>1 DEF LastingAt
  <2> QED
    BY <2>3, <2>5, <2>6, LastsFrom
<1> QED
  BY <1>5 DEF Lasting

(* What can be recovered does not change if what may be read does not.     *)
LEMMA RecoverableCarried ==
    ASSUME DurableStoreNone, StoreInv, StoreInv', NEW new, Carries(new), dir.current > 0,
           new \cap Latest.tables = {}
    PROVE  /\ Recoverable' = Recoverable
           /\ InTables(Latest.tables, files)' = InTables(Latest.tables, files)
<1>1. FileTypes /\ Named /\ FileTypes' /\ Named'
  BY DEF StoreInv
<1>2. /\ Recoverable = HeldIn(dir, Latest) /\ dir'.current > 0
      /\ Latest \in Views(dir) /\ Fits(dir, Latest)
  BY <1>1, RecoverableIs, ViewsThere DEF Carries, Named, NamedAt
<1>3. Recoverable' = HeldIn(dir, Latest)'
  BY <1>1, <1>2, RecoverableWill
<1>4. InTables(Latest.tables, files') = InTables(Latest.tables, files)
  BY <1>1, <1>2, CarriesTables DEF Fits
<1>5. Latest' = Latest /\ Logs(dir)' = Logs(dir)
      /\ \A l \in Logs(dir) : files'[Log(l)] = files[Log(l)]
  BY DEF Carries
<1>6. InTables(Latest.tables, files)' = InTables(Latest.tables, files)
  BY <1>4, <1>5
<1>7. \A l : LogsFrom(l, dir)' = LogsFrom(l, dir) /\ LogsFrom(l, dir) \subseteq Logs(dir)
  BY <1>5 DEF LogsFrom, Logs
<1>8. \A l \in Logs(dir) : ReadOf(files[Log(l)])' = ReadOf(files[Log(l)])
  BY <1>5 DEF ReadOf
<1>9. HeldIn(dir, Latest)' = HeldIn(dir, Latest)
  <2> DEFINE v == Latest
             R(l) == ReadOf(files[Log(l)])
  <2>1. HeldIn(dir, v)' = InTables(v.tables, files)' \cup UNION {R(l)' : l \in LogsFrom(v.log, dir)'}
    BY DEF HeldIn
  <2>2. LogsFrom(v.log, dir)' = LogsFrom(v.log, dir)
    BY <1>5, <1>7
  <2>3. \A l \in LogsFrom(v.log, dir) : R(l)' = R(l)
    BY <1>7, <1>8
  <2> QED
    BY <1>6, <2>1, <2>2, <2>3 DEF HeldIn
<1> QED
  BY <1>2, <1>3, <1>6, <1>9

(* A step of an open store that carries what may be read, and neither      *)
(* writes a log nor changes a memtable.                                    *)
LEMMA CarriesContent ==
    ASSUME DurableStoreNone, StoreInv, StoreInv', ContentInv, Up,
           NEW new \in SUBSET Unbuilt, Carries(new), Lasting', UNCHANGED <<acked, safe>>,
           db'.phase = db.phase, db'.mem = db.mem, db'.imm = db.imm,
           db'.logfile = db.logfile, db'.logNumber = db.logNumber,
           db'.version = db.version, db'.writer = db.writer, db.bgError => db'.bgError,
           \/ Built' \/ db'.edit = None
           \/ (db'.edit = db.edit /\ db'.merge = db.merge /\ new = {})
    PROVE  ContentInv' /\ Held' = Held
<1>1. FileTypes /\ Named /\ Open /\ Working /\ Editing /\ Up'
  BY DEF StoreInv, Up
<1>2. /\ dir \in Dirs /\ dir.current > 0 /\ Log(db.logfile) \in dir.names
      /\ Latest \in Views(dir) /\ Fits(dir, Latest) /\ dir.names \subseteq Files
      /\ \A t \in db.version : Table(t) \in dir.names
  <2>1. dir \in Dirs /\ dir.current > 0
    BY <1>1, ViewsThere DEF Open, StoreInv, StoreTypes, Stores
  <2>2. \A t \in db.version : t \in Version(db)
    BY DEF Version
  <2> QED
    BY <1>1, <2>1, <2>2, ViewsThere DEF Named, NamedAt, Open
<1>3. new \cap db.version = {} /\ new \cap Latest.tables = {}
  <2>1. \A t \in new : t \notin Version(db) /\ t \notin Latest.tables
    BY <1>1, <1>2 DEF Working
  <2> QED
    BY <2>1 DEF Version
<1>4. /\ Recoverable' = Recoverable /\ Latest' = Latest
      /\ InTables(Latest.tables, files)' = InTables(Latest.tables, files)
      /\ Logs(dir)' = Logs(dir) /\ \A l \in Logs(dir) : files'[Log(l)] = files[Log(l)]
  BY <1>2, <1>3, RecoverableCarried DEF Carries
<1>5. /\ InTables(db.version, files') = InTables(db.version, files)
      /\ InTables(db.version, files)' = InTables(db.version, files)
  BY <1>1, <1>2, <1>3, CarriesTables
<1>6. /\ \A n : LogsFrom(n, dir)' = LogsFrom(n, dir) /\ LogsFrom(n, dir) \subseteq Logs(dir)
      /\ \A l \in Logs(dir) : ReadOf(files[Log(l)])' = ReadOf(files[Log(l)])
      /\ db.logfile \in Logs(dir)
  BY <1>2, <1>4, NumbersAre DEF LogsFrom, Logs, ReadOf
<1>7. Visible' = Visible
  BY <1>5 DEF Visible
<1>8. Acked'
  BY <1>1, <1>4, <1>7 DEF ContentInv, Acked
<1>9. Recovered'
  BY DEF Recovered, Up
<1>10. Logged'
  <2> DEFINE R(l) == ReadOf(files[Log(l)])
  <2>1. R(db.logfile)' = R(db.logfile)
    BY <1>6
  <2>2. /\ LogsFrom(db.logNumber, dir)' = LogsFrom(db.logNumber, dir)
        /\ \A l \in LogsFrom(db.logNumber, dir) : R(l)' = R(l)
    BY <1>6
  <2>3. /\ IF db.writer # None
           THEN db.writer.status # "error" /\ R(db.logfile) = db.mem \cup {db.writer.n}
           ELSE \/ R(db.logfile) = db.mem
                \/ db.bgError /\ \E x \in Batches : R(db.logfile) = db.mem \cup {x}
        /\ db.imm = UNION {R(l) : l \in LogsFrom(db.logNumber, dir) \ {db.logfile}}
        /\ db.imm = {} => db.logNumber = db.logfile
    BY DEF ContentInv, Logged
  <2>4. UNION {R(l)' : l \in LogsFrom(db.logNumber, dir) \ {db.logfile}} = db.imm
    BY <2>2, <2>3
  <2>5. Batches' = Batches
    BY DEF Batches
  <2> QED
    BY <2>1, <2>2, <2>3, <2>4, <2>5 DEF Logged
<1>11. Built'
  <2>1. ASSUME db'.edit # None, ~Built'
        PROVE  /\ InTables(db.edit.is.add, files)' = InTables(db.edit.is.add, files)
               /\ InTables(db.merge.inputs, files') = InTables(db.merge.inputs, files)
                  \/ db.edit.for = "flush"
    <3>1. db'.edit = db.edit /\ db'.merge = db.merge /\ new = {}
      BY <2>1
    <3>2. \A t \in db.edit.is.add : Table(t) \in dir.names
      BY <1>1, <2>1, <3>1 DEF Editing
    <3>3. db.edit.for = "flush" \/ \A t \in db.merge.inputs : Table(t) \in dir.names
      BY <1>1, <1>2, <2>1, <3>1 DEF StoreInv, StoreTypes, Working
    <3> QED
      BY <1>1, <3>1, <3>2, <3>3, CarriesTables
  <2> QED
    BY <1>4, <2>1 DEF ContentInv, Built
<1>12. Covered'
  <2>1. ASSUME NEW d \in Dirs', d.current > 0, NEW v \in Views(d)' PROVE v.log <= db.logfile
    <3>1. PICK d0 \in Dirs : d.current = d0.current /\ v \in Views(d0)
      BY <2>1 DEF Carries
    <3> QED
      BY <2>1, <3>1 DEF ContentInv, Covered
  <2> QED
    BY <1>4, <1>5, <2>1 DEF ContentInv, Covered
<1> QED
  BY <1>1, <1>7, <1>8, <1>9, <1>10, <1>11, <1>12 DEF ContentInv, Held

(* A step of an open store that changes neither the disk nor a memtable.   *)
LEMMA AloneContent ==
    ASSUME DurableStoreNone, StoreInv, StoreInv', ContentInv, Orderly, Up,
           UNCHANGED <<disk, files, dir, earlier, acked, safe>>,
           db'.phase = db.phase, db'.mem = db.mem, db'.imm = db.imm,
           db'.logfile = db.logfile, db'.logNumber = db.logNumber,
           db'.version = db.version, db'.writer = db.writer, db.bgError => db'.bgError,
           db'.edit = None \/ (db'.edit = db.edit /\ db'.merge = db.merge)
    PROVE  ContentInv' /\ Held' = Held
<1>1. Carries({})
  BY AloneCarries
<1>2. Promised' = Promised
  BY DEF Promised, Batches
<1>3. Least' = Least
  BY DEF Least, Up
<1>4. Lasting'
  BY <1>2, <1>3, AloneLasts DEF ContentInv
<1>5. {} \in SUBSET Unbuilt
  OBVIOUS
<1> QED
  BY <1>1, <1>4, <1>5, CarriesContent

(* NewIterator, CleanupIteratorState.                                      *)
LEMMA IteratorContent ==
    ASSUME DurableStoreNone, StoreInv, StoreInv', ContentInv, Orderly, UNCHANGED disk,
           NewIterator \/ CleanupIteratorState
    PROVE  ContentInv' /\ Held' = Held
<1>1. db \in Stores
  BY DEF StoreInv, StoreTypes
<1>2. /\ Up /\ UNCHANGED <<files, dir, earlier, acked, safe>>
      /\ \E h : db' = [db EXCEPT !.held = h]
  BY DEF NewIterator, CleanupIteratorState, Unchanged
<1> QED
  BY <1>1, <1>2, AloneContent DEF Stores

(* BeginFlush.                                                             *)
LEMMA BeginFlushContent ==
    ASSUME DurableStoreNone, StoreInv, StoreInv', ContentInv, Orderly, UNCHANGED disk, BeginFlush
    PROVE  ContentInv' /\ Held' = Held
<1>1. db \in Stores
  BY DEF StoreInv, StoreTypes
<1>2. /\ Up /\ UNCHANGED <<files, dir, earlier, acked, safe>>
      /\ \E f, n, p : db' = [db EXCEPT !.flush = f, !.nextFile = n, !.pending = p]
  BY DEF BeginFlush, Unchanged
<1> QED
  BY <1>1, <1>2, AloneContent DEF Stores

(* BeginMerge.                                                             *)
LEMMA BeginMergeContent ==
    ASSUME DurableStoreNone, StoreInv, StoreInv', ContentInv, Orderly, UNCHANGED disk, BeginMerge
    PROVE  ContentInv' /\ Held' = Held
<1>1. db \in Stores
  BY DEF StoreInv, StoreTypes
<1>2. /\ Up /\ UNCHANGED <<files, dir, earlier, acked, safe>> /\ db.edit = None
      /\ \E m, n, p : db' = [db EXCEPT !.merge = m, !.nextFile = n, !.pending = p]
  <2>1. PICK inputs \in SUBSET db.version :
           db' = [db EXCEPT !.merge = [inputs |-> inputs, base |-> db.version,
                                       out |-> db.nextFile],
                            !.nextFile = @ + 1, !.pending = @ \cup {db.nextFile}]
    BY DEF BeginMerge
  <2>2. \E m, n, p : db' = [db EXCEPT !.merge = m, !.nextFile = n, !.pending = p]
    BY <2>1
  <2> QED
    BY <2>2 DEF BeginMerge, Unchanged
<1> QED
  BY <1>1, <1>2, AloneContent DEF Stores

(* An edit that fails, and leaves the disk as it is.                       *)
LEMMA EditFailsContent ==
    ASSUME DurableStoreNone, StoreInv, StoreInv', ContentInv, Orderly, Up,
           UNCHANGED <<disk, files, dir, earlier, acked, safe>>, EditFails
    PROVE  ContentInv' /\ Held' = Held
<1>1. db \in Stores
  BY DEF StoreInv, StoreTypes
<1>2. \E m, p : db' = [db EXCEPT !.edit = None, !.flush = 0, !.merge = m, !.pending = p,
                                 !.bgError = TRUE]
  BY <1>1 DEF EditFails, Over, Stores
<1> QED
  BY <1>1, <1>2, AloneContent DEF Stores

(* A table that is built in the background, whatever becomes of its job.   *)
LEMMA BuiltLasts ==
    ASSUME DurableStoreAssumption, DurableStoreNone, StoreInv, StoreInv', ContentInv, Orderly,
           Up, UNCHANGED <<disk, acked, safe>>, NEW t \in Unbuilt, NEW b \in SUBSET Batches,
           NewTable(t, b), db'.phase = db.phase, db'.logNumber = db.logNumber,
           db'.writer = db.writer
    PROVE  /\ Carries({t}) /\ Lasting' /\ Table(t) \in DOMAIN files'
           /\ files'[Table(t)] = [data |-> <<b>>, synced |-> 1]
           /\ Recoverable' = Recoverable /\ Latest' = Latest
           /\ InTables(Latest.tables, files)' = InTables(Latest.tables, files)
<1>1. /\ dir.current > 0 /\ t \in Nat /\ Latest \in Views(dir)
      /\ \A d \in Dirs : d.current > 0 => \A v \in Views(d) : t \notin v.tables
  <2>1. dir.current > 0
    BY DEF StoreInv, Open, StoreTypes, Stores
  <2>2. t \in Nat
    BY DEF StoreInv, StoreTypes, Stores, Unbuilt, Merges
  <2> QED
    BY <2>1, <2>2, ViewsThere DEF StoreInv, Working
<1>2. /\ Carries({t}) /\ Table(t) \in DOMAIN files'
      /\ files'[Table(t)] = [data |-> <<b>>, synced |-> 1]
  BY <1>1, NewTableCarries
<1>3. {t} \cap Latest.tables = {}
  BY <1>1, ViewsThere DEF StoreInv
<1>4. Recoverable' = Recoverable /\ Latest' = Latest
      /\ InTables(Latest.tables, files)' = InTables(Latest.tables, files)
  BY <1>1, <1>2, <1>3, RecoverableCarried DEF Carries
<1>5. Promised' = Promised /\ Least' = Least
  BY DEF Promised, Batches, Least, Up
<1>6. Lasting'
  BY <1>1, <1>4, <1>5, TableLasts DEF ContentInv
<1> QED
  BY <1>2, <1>4, <1>6

(* WriteLevel0Table.                                                       *)
LEMMA WriteLevel0TableContent ==
    ASSUME DurableStoreAssumption, DurableStoreNone, StoreInv, StoreInv', ContentInv, Orderly,
           UNCHANGED disk, WriteLevel0Table
    PROVE  ContentInv' /\ Held' = Held
<1> DEFINE t == db.flush
           edit == Edit({t}, {}, db.logfile, db.nextFile, db.lastSequence)
<1>1. db \in Stores /\ Up /\ t # 0 /\ db.edit = None /\ UNCHANGED <<acked, safe>>
  BY DEF WriteLevel0Table, Unchanged, StoreInv, StoreTypes
<1>2. CASE /\ db' = [db EXCEPT !.pending = @ \ {t}, !.edit = Edited("flush", edit)]
           /\ NewTable(t, db.imm)
  <2>1. t \in Unbuilt /\ db.imm \in SUBSET Batches
    BY <1>1 DEF Unbuilt, Stores
  <2>2. /\ db'.phase = db.phase /\ db'.mem = db.mem /\ db'.imm = db.imm
        /\ db'.logfile = db.logfile /\ db'.logNumber = db.logNumber
        /\ db'.version = db.version /\ db'.writer = db.writer /\ db'.bgError = db.bgError
        /\ db'.edit = Edited("flush", edit)
    BY <1>1, <1>2 DEF Stores
  <2>3. /\ Carries({t}) /\ Lasting' /\ Table(t) \in DOMAIN files'
        /\ files'[Table(t)] = [data |-> <<db.imm>>, synced |-> 1]
    BY <1>1, <1>2, <2>1, <2>2, BuiltLasts
  <2>4. InTables({t}, files') = db.imm
    <3>1. files'[Table(t)].data[1] = db.imm
      BY <2>3
    <3> QED
      BY <2>3, <3>1, InTablesUnion
  <2>5. Built'
    <3>1. db'.edit.is.add = {t} /\ db'.edit.for = "flush" /\ ~db'.edit.written
      BY <2>2 DEF Edited, Edit
    <3>2. InTables(db.edit.is.add, files)' = db.imm
      BY <2>4, <3>1
    <3> QED
      BY <2>2, <3>1, <3>2 DEF Built
  <2>6. {t} \in SUBSET Unbuilt
    BY <2>1
  <2> QED
    BY <1>1, <2>2, <2>3, <2>5, <2>6, CarriesContent
<1>3. CASE /\ db' = [db EXCEPT !.pending = @ \ {t}, !.flush = 0, !.bgError = TRUE]
           /\ UNCHANGED <<files, dir, earlier>>
  BY <1>1, <1>3, AloneContent DEF Stores
<1> QED
  <2>1. LET built == [db EXCEPT !.pending = @ \ {t}]
        IN  \/ db' = [built EXCEPT !.edit = Edited("flush", edit)] /\ NewTable(t, db.imm)
            \/ /\ db' = [built EXCEPT !.flush = 0, !.bgError = TRUE]
               /\ UNCHANGED <<files, dir, earlier>>
    BY DEF WriteLevel0Table
  <2>2. CASE /\ db' = [[db EXCEPT !.pending = @ \ {t}] EXCEPT !.edit = Edited("flush", edit)]
             /\ NewTable(t, db.imm)
    <3>1. db' = [db EXCEPT !.pending = @ \ {t}, !.edit = Edited("flush", edit)]
      BY <1>1, <2>2 DEF Stores
    <3> QED
      BY <1>2, <2>2, <3>1
  <2>3. CASE /\ db' = [[db EXCEPT !.pending = @ \ {t}] EXCEPT !.flush = 0, !.bgError = TRUE]
             /\ UNCHANGED <<files, dir, earlier>>
    <3>1. db' = [db EXCEPT !.pending = @ \ {t}, !.flush = 0, !.bgError = TRUE]
      BY <1>1, <2>3 DEF Stores
    <3> QED
      BY <1>3, <2>3, <3>1
  <2> QED
    BY <2>1, <2>2, <2>3

(* FinishMerge.                                                            *)
LEMMA FinishMergeContent ==
    ASSUME DurableStoreAssumption, DurableStoreNone, StoreInv, StoreInv', ContentInv, Orderly,
           UNCHANGED disk, FinishMerge
    PROVE  ContentInv' /\ Held' = Held
<1> DEFINE m == db.merge
           edit == Edit({m.out}, m.inputs, db.logNumber, db.nextFile, db.lastSequence)
           b == InTables(m.inputs, files)
<1>1. /\ db \in Stores /\ Up /\ m # None /\ db.edit = None /\ UNCHANGED <<acked, safe>>
      /\ m.out \in Unbuilt /\ {m.out} \in SUBSET Unbuilt /\ m \in Merges
      /\ b \in SUBSET Batches /\ {} \in SUBSET Batches /\ FileTypes
  BY BatchesOnly DEF FinishMerge, Unchanged, StoreInv, StoreTypes, Stores, Unbuilt
<1>2. CASE db' = [db EXCEPT !.edit = Edited("merge", edit)] /\ NewTable(m.out, b)
  <2>2. /\ db'.phase = db.phase /\ db'.mem = db.mem /\ db'.imm = db.imm
        /\ db'.logfile = db.logfile /\ db'.logNumber = db.logNumber
        /\ db'.version = db.version /\ db'.writer = db.writer /\ db'.bgError = db.bgError
        /\ db'.edit = Edited("merge", edit) /\ db'.merge = m
    BY <1>1, <1>2 DEF Stores
  <2>3. /\ Carries({m.out}) /\ Lasting' /\ Table(m.out) \in DOMAIN files'
        /\ files'[Table(m.out)] = [data |-> <<b>>, synced |-> 1]
    <3> HIDE DEF b
    <3> QED
      BY <1>1, <1>2, <2>2, BuiltLasts
  <2>4. InTables({m.out}, files') = b
    <3>1. files'[Table(m.out)].data[1] = b
      BY <2>3
    <3> QED
      BY <2>3, <3>1, InTablesUnion
  <2>5. InTables(m.inputs, files') = b
    <3>1. \A t \in m.inputs : t \in Version(db) /\ t # m.out
      <4>1. m.inputs \subseteq db.version /\ \A t \in m.inputs : t < m.out
        BY <1>1 DEF StoreInv, Working
      <4> QED
        BY <1>1, <4>1 DEF Version, Merges
    <3>2. \A t \in m.inputs : Table(t) \in dir.names
      BY <1>1, <3>1 DEF StoreInv, Open
    <3>3. m.inputs \cap {m.out} = {}
      BY <3>1
    <3> QED
      BY <1>1, <2>3, <3>2, <3>3, CarriesTables
  <2>6. Built'
    <3>1. db'.edit.is.add = {m.out} /\ db'.edit.for = "merge" /\ ~db'.edit.written
      BY <2>2 DEF Edited, Edit
    <3>2. InTables(db.edit.is.add, files)' = b /\ InTables(db.merge.inputs, files)' = b
      BY <2>2, <2>4, <2>5, <3>1
    <3> QED
      BY <2>2, <3>1, <3>2 DEF Built
  <2> QED
    BY <1>1, <2>2, <2>3, <2>6, CarriesContent
<1>3. CASE /\ db' = [db EXCEPT !.merge = None, !.pending = @ \ {m.out}, !.bgError = TRUE]
           /\ NewTable(m.out, {})
  <2>1. /\ db'.phase = db.phase /\ db'.mem = db.mem /\ db'.imm = db.imm
        /\ db'.logfile = db.logfile /\ db'.logNumber = db.logNumber
        /\ db'.version = db.version /\ db'.writer = db.writer /\ db'.bgError
        /\ db'.edit = None
    BY <1>1, <1>3 DEF Stores
  <2>2. Carries({m.out}) /\ Lasting'
    BY <1>1, <1>3, <2>1, BuiltLasts
  <2> QED
    BY <1>1, <2>1, <2>2, CarriesContent
<1> QED
  BY <1>2, <1>3 DEF FinishMerge

(* What is in the log of an open store can be recovered.                   *)
LEMMA LogfileIsRead ==
    ASSUME DurableStoreNone, StoreInv, Covered, Up
    PROVE  /\ db.logfile \in Logs(dir) /\ dir.current > 0 /\ Latest.log <= db.logfile
           /\ ReadOf(files[Log(db.logfile)]) \subseteq Recoverable
<1>1. /\ dir.current > 0 /\ Log(db.logfile) \in dir.names /\ dir.names \subseteq Files
      /\ db.logNumber <= db.logfile /\ db.logfile \in Nat
  BY ViewsThere DEF StoreInv, Open, StoreTypes, Stores
<1>2. db.logfile \in Logs(dir) /\ Latest.log <= db.logfile
  BY <1>1, NumbersAre DEF Covered, Logs
<1>3. Recoverable = HeldIn(dir, Latest)
  BY <1>1, RecoverableIs DEF StoreInv
<1>4. ASSUME NEW n \in ReadOf(files[Log(db.logfile)]) PROVE n \in HeldIn(dir, Latest)
  BY <1>2, <1>4, HeldAre
<1> QED
  BY <1>1, <1>2, <1>3, <1>4

(* InsertInto.                                                             *)
LEMMA InsertIntoContent ==
    ASSUME DurableStoreNone, StoreInv, StoreInv', ContentInv, Orderly, UNCHANGED disk, InsertInto
    PROVE  /\ ContentInv' /\ Up /\ db.writer # None /\ db.writer.n \in Batches
           /\ db.writer.n \in Recoverable
           /\ LET w == db.writer
              IN  IF w.status = "ok"
                  THEN /\ Held' = Held \cup {w.n}
                       /\ safe' = (IF w.sync THEN safe \cup {w.n} ELSE safe)
                  ELSE Held' = Held /\ safe' = safe
<1> DEFINE w == db.writer
           R == ReadOf(files[Log(db.logfile)])
<1>1. /\ db \in Stores /\ Up /\ w # None /\ w \in Writers /\ w.n \in Batches
      /\ UNCHANGED <<files, dir, earlier>> /\ dir.current > 0
      /\ acked' = (IF w.status = "ok" THEN acked \cup {w.n} ELSE acked)
      /\ safe' = (IF w.status = "ok" /\ w.sync THEN safe \cup {w.n} ELSE safe)
  <2>1. Up /\ w # None
    BY DEF InsertInto
  <2>2. StoreTypes /\ Open
    BY DEF StoreInv
  <2>3. db \in Stores /\ w.n \in Batches
    BY <2>1, <2>2 DEF StoreTypes
  <2>4. w \in Writers
    BY <2>1, <2>3 DEF Stores
  <2>5. dir.current > 0
    <3>1. dir.current = db.manifest /\ 1 < db.manifest
      BY <2>1, <2>2 DEF Open
    <3>2. db.manifest \in Nat
      BY <2>3 DEF Stores
    <3> QED
      BY <3>1, <3>2
  <2> QED
    BY <2>1, <2>3, <2>4, <2>5 DEF InsertInto
<1>2. /\ db'.phase = db.phase /\ db'.imm = db.imm /\ db'.logfile = db.logfile
      /\ db'.logNumber = db.logNumber /\ db'.version = db.version /\ db'.writer = None
      /\ db'.edit = db.edit /\ db'.merge = db.merge
      /\ db'.mem = (IF w.status = "ok" THEN db.mem \cup {w.n} ELSE db.mem)
      /\ db'.bgError = (db.bgError \/ w.status = "unsynced")
  <2>1. \E m, b : db' = [db EXCEPT !.writer = None, !.lastSequence = w.n,
                                   !.mem = m, !.bgError = b]
    BY DEF InsertInto
  <2> QED
    BY <1>1 DEF InsertInto, Stores
<1>3. /\ w.status \in {"ok", "unsynced"} /\ R = db.mem \cup {w.n}
      /\ db.imm = UNION {ReadOf(files[Log(l)]) : l \in LogsFrom(db.logNumber, dir) \ {db.logfile}}
      /\ (db.imm = {} => db.logNumber = db.logfile)
  BY <1>1 DEF ContentInv, Logged, Writers
<1>4. Promised' \subseteq Promised
  BY <1>1, <1>2 DEF Promised, Batches
<1>5. Least' = Least
  BY <1>1, <1>2, SameDisk DEF Least, Up
<1>6. Lasting' /\ Recoverable' = Recoverable
  BY <1>1, <1>4, <1>5, AloneLasts DEF ContentInv
<1>7. \A ts : InTables(ts, files)' = InTables(ts, files)
  BY <1>1 DEF InTables
<1>8. Acked'
  <2>1. w.n \in Recoverable
    BY <1>1, <1>3, LogfileIsRead DEF ContentInv
  <2>2. Visible' = db'.mem \cup db.imm \cup InTables(db.version, files)
    BY <1>1, <1>2 DEF Visible, InTables
  <2>3. w.status = "ok" => w.n \in Visible' /\ Visible \subseteq Visible'
    BY <1>2, <2>2 DEF Visible
  <2>4. Visible \subseteq Visible'
    BY <1>2, <2>2 DEF Visible
  <2> QED
    BY <1>1, <1>2, <1>6, <2>1, <2>3, <2>4 DEF Acked, ContentInv, Up
<1>9. Recovered'
  BY <1>1, <1>2 DEF Recovered, Up
<1>10. Logged'
  <2>1. /\ ReadOf(files[Log(db.logfile)])' = R /\ Batches' = Batches
        /\ LogsFrom(db.logNumber, dir)' = LogsFrom(db.logNumber, dir)
        /\ \A l : ReadOf(files[Log(l)])' = ReadOf(files[Log(l)])
    BY <1>1, <1>2 DEF ReadOf, Batches, LogsFrom
  <2>2. UNION {ReadOf(files[Log(l)]) : l \in LogsFrom(db.logNumber, dir) \ {db.logfile}}'
           = UNION {ReadOf(files[Log(l)]) : l \in LogsFrom(db.logNumber, dir) \ {db.logfile}}
    BY <1>1, <1>2, <2>1
  <2> HIDE DEF R
  <2>3. \/ R = db'.mem
        \/ db'.bgError /\ \E x \in Batches : R = db'.mem \cup {x}
    BY <1>1, <1>2, <1>3
  <2> QED
    BY <1>2, <1>3, <2>1, <2>2, <2>3 DEF Logged
<1>11. Built'
  BY <1>1, <1>2, <1>7, SameDisk DEF Built, ContentInv, Up
<1>12. Covered'
  BY <1>1, <1>2, <1>7, SameDisk DEF Covered, ContentInv, Up
<1>13. Held' = IF w.status = "ok" THEN Held \cup {w.n} ELSE Held
  <2>1. Visible' = IF w.status = "ok" THEN Visible \cup {w.n} ELSE Visible
    BY <1>1, <1>2 DEF Visible, InTables
  <2> QED
    BY <1>1, <1>2, <2>1 DEF Held, Up
<1>14. w.n \in Recoverable
  BY <1>1, <1>3, LogfileIsRead DEF ContentInv
<1> QED
  BY <1>1, <1>6, <1>8, <1>9, <1>10, <1>11, <1>12, <1>13, <1>14 DEF ContentInv

(* A store that stops leaves what it has on the disk.                      *)
LEMMA ProcessStopsContent ==
    ASSUME DurableStoreNone, StoreInv, StoreInv', ContentInv, Orderly, UNCHANGED disk,
           ProcessStops
    PROVE  ContentInv' /\ Held' = Recoverable
<1>1. /\ db' = Closed /\ db.phase # "closed" /\ UNCHANGED <<files, dir, earlier, acked, safe>>
      /\ ~Up' /\ db'.phase = "closed" /\ db'.writer = None /\ db \in Stores
  BY DEF ProcessStops, Closed, Up, StoreInv, StoreTypes
<1>2. Promised' \subseteq Promised
  BY <1>1 DEF Promised
<1>3. \A l \in Nat : l < Least => l < Least'
  <2>1. Least = db.logNumber /\ Least' = Latest.log /\ Latest.log \in Nat /\ db.logNumber \in Nat
    <3>1. dir.current > 0
      BY <1>1, ViewsThere DEF StoreInv, Named, Directories
    <3>2. Latest \in ViewTypes
      BY <3>1, ViewsThere DEF StoreInv
    <3> QED
      BY <1>1, <3>2, SameDisk DEF Least, ViewTypes, Stores
  <2>2. db.logNumber <= Latest.log
    <3>1. CASE Up
      BY <2>1, <3>1 DEF ContentInv, Covered, StoreInv, Open
    <3>2. CASE ~Up
      BY <1>1, <2>1, <3>2 DEF StoreInv, Opening, Up, Stores
    <3> QED
      BY <3>1, <3>2
  <2> QED
    BY <2>1, <2>2
<1>4. Lasting' /\ Recoverable' = Recoverable
  BY <1>1, <1>2, <1>3, AloneLasts DEF ContentInv
<1> QED
  BY <1>1, <1>4 DEF ContentInv, Acked, Recovered, Logged, Built, Covered, Held

(* Recover.                                                                *)
LEMMA RecoverContent ==
    ASSUME DurableStoreNone, StoreInv, StoreInv', ContentInv, Orderly, UNCHANGED disk, Recover
    PROVE  ContentInv' /\ Held' = Held
<1>1. /\ db.phase = "closed" /\ UNCHANGED <<files, dir, earlier, acked, safe>>
      /\ dir.current # 0
      /\ db' = [Closed EXCEPT !.phase = "logs", !.version = Latest.tables,
                              !.logNumber = Latest.log, !.manifest = Latest.next,
                              !.nextFile = Latest.next + 1, !.lastSequence = Latest.last,
                              !.left = LogsFrom(Latest.log, dir)]
  BY DEF Recover, Unchanged, Latest, ViewOf, Current
<1>2. /\ db'.phase = "logs" /\ db'.version = Latest.tables /\ db'.logNumber = Latest.log
      /\ db'.left = LogsFrom(Latest.log, dir) /\ db'.found = {} /\ db'.writer = None
      /\ ~Up' /\ ~Up
  BY <1>1 DEF Closed, Up
<1>3. Promised' \subseteq Promised
  BY <1>1, <1>2 DEF Promised
<1>4. Least' = Least
  BY <1>1, <1>2 DEF Least
<1>5. Lasting' /\ Recoverable' = Recoverable
  BY <1>1, <1>3, <1>4, AloneLasts DEF ContentInv
<1>6. Recovered'
  <2>1. Recoverable = HeldIn(dir, Latest)
    <3>1. dir.current > 0
      BY <1>1, ViewsThere DEF StoreInv, Directories
    <3> QED
      BY <3>1, RecoverableIs DEF StoreInv
  <2>2. Latest.tables \cup {} = Latest.tables
    OBVIOUS
  <2>3. InTables(db.version \cup db.found, files)' = InTables(Latest.tables, files)
    BY <1>1, <1>2, <2>2 DEF InTables
  <2>4. UNION {ReadOf(files[Log(l)]) : l \in db.left}'
          = UNION {ReadOf(files[Log(l)]) : l \in LogsFrom(Latest.log, dir)}
    BY <1>1, <1>2 DEF ReadOf
  <2> QED
    BY <1>5, <2>1, <2>3, <2>4 DEF Recovered, HeldIn
<1> QED
  BY <1>1, <1>2, <1>5, <1>6 DEF ContentInv, Acked, Logged, Built, Covered, Held

(* RecoverLogFile.                                                         *)
LEMMA RecoverLogFileContent ==
    ASSUME DurableStoreAssumption, DurableStoreNone, StoreInv, StoreInv', ContentInv, Orderly,
           UNCHANGED disk, RecoverLogFile
    PROVE  ContentInv' /\ Held' = Held
<1> DEFINE l == Min(db.left)
           batches == InLog(l, files)
           t == db.nextFile
           R(k) == ReadOf(files[Log(k)])
<1>1. /\ db.phase = "logs" /\ db.left # {} /\ UNCHANGED <<acked, safe>> /\ db \in Stores
      /\ ~Up /\ t \in Nat
  BY DEF RecoverLogFile, Unchanged, StoreInv, StoreTypes, Up, Stores
<1>2. /\ db'.phase = "logs" /\ db'.left = db.left \ {l}
      /\ db'.found = (IF batches = {} THEN db.found ELSE db.found \cup {t})
      /\ db'.version = db.version /\ db'.logNumber = db.logNumber /\ db'.writer = db.writer
      /\ ~Up'
  <2>1. \E n, q : db' = [db EXCEPT !.left = @ \ {l},
                           !.found = IF batches = {} THEN @ ELSE @ \cup {t},
                           !.nextFile = n, !.lastSequence = q]
    BY DEF RecoverLogFile
  <2> QED
    BY <1>1, <2>1 DEF Stores, Up
<1>3. /\ dir.current > 0 /\ dir \in Dirs /\ dir.names \subseteq Files
      /\ Latest \in ViewTypes /\ Latest \in Views(dir) /\ Fits(dir, Latest)
      /\ db.version = Latest.tables /\ db.logNumber = Latest.log /\ Latest.next < t
      /\ db.left \subseteq LogsFrom(db.logNumber, dir)
      /\ \A u \in db.found : u < t /\ Table(u) \in dir.names
  <2>1. dir.current > 0 /\ dir \in Dirs
    BY <1>1, ViewsThere DEF StoreInv, Named, Directories
  <2>2. Fits(dir, Latest)
    BY <2>1, ViewsThere DEF StoreInv, Named, NamedAt
  <2> QED
    BY <1>1, <2>1, <2>2, ViewsThere DEF StoreInv, Opening
<1>4. l \in db.left /\ db.left \subseteq Logs(dir) /\ batches = R(l) /\ batches \in SUBSET Batches
  <2>1. db.left \subseteq Nat /\ db.left \subseteq Logs(dir)
    BY <1>1, <1>3 DEF Stores, LogsFrom, Logs
  <2>2. l \in db.left
    BY <1>1, <2>1, LeastThere
  <2>3. batches = R(l)
    BY DEF InLog, ReadOf
  <2> QED
    BY <1>3, <2>1, <2>2, <2>3, BatchesOnly DEF StoreInv
<1>5. Promised' = Promised
  BY <1>1, <1>2 DEF Promised, Batches
<1>6. Least' = Least
  BY <1>1, <1>2 DEF Least
<1>7. Recoverable = InTables(db.version \cup db.found, files) \cup UNION {R(k) : k \in db.left}
  BY <1>1 DEF ContentInv, Recovered
<1>8. CASE batches = {}
  <2>1. UNCHANGED <<files, dir, earlier>>
    BY <1>8 DEF RecoverLogFile
  <2>2. Lasting' /\ Recoverable' = Recoverable
    BY <1>5, <1>6, <2>1, AloneLasts DEF ContentInv
  <2>3. InTables(db.version \cup db.found, files)' = InTables(db.version \cup db.found, files)
    BY <1>2, <1>8, <2>1 DEF InTables
  <2>4. UNION {R(k) : k \in db.left}' = UNION {R(k) : k \in db.left}
    <3>1. \A k : R(k)' = R(k)
      BY <2>1 DEF ReadOf
    <3>2. UNION {R(k) : k \in db.left}' = UNION {R(k) : k \in db.left \ {l}}
      BY <1>2, <3>1
    <3> QED
      BY <1>4, <1>8, <3>2
  <2>5. Recovered'
    BY <1>7, <2>2, <2>3, <2>4 DEF Recovered
  <2> QED
    BY <1>1, <1>2, <2>2, <2>5 DEF ContentInv, Acked, Logged, Built, Covered, Held
<1>9. CASE batches # {}
  <2>1. NewTable(t, batches)
    BY <1>9 DEF RecoverLogFile
  <2>2. \A d \in Dirs : d.current > 0 => \A v \in Views(d) : t \notin v.tables
    <3>1. \A d \in Dirs : d.current > 0 => \A v \in Views(d) :
             Fits(d, v) /\ v.next \in Nat /\ v.tables \subseteq Nat
      BY <1>3, ViewsThere DEF StoreInv, Named, NamedAt, ViewTypes
    <3> QED
      BY <1>1, <1>3, <3>1 DEF Fits, ViewTypes
  <2> HIDE DEF batches, t
  <2>3. /\ Carries({t}) /\ files'[Table(t)] = [data |-> <<batches>>, synced |-> 1]
        /\ Table(t) \in DOMAIN files'
    BY <1>1, <1>3, <1>4, <2>1, <2>2, NewTableCarries
  <2>4. Recoverable' = Recoverable
    <3>1. {t} \cap Latest.tables = {}
      BY <1>3, <2>2
    <3> QED
      BY <1>3, <2>3, <3>1, RecoverableCarried
  <2>5. Lasting'
    BY <1>1, <1>5, <1>6, <2>1, <2>2, <2>4, TableLasts DEF ContentInv
  <2>6. InTables(db.version \cup db.found, files') = InTables(db.version \cup db.found, files)
    <3>1. \A u \in db.version \cup db.found : Table(u) \in dir.names
      BY <1>3 DEF Fits
    <3>2. (db.version \cup db.found) \cap {t} = {}
      <4>1. t \notin db.found
        BY <1>1, <1>3 DEF Stores
      <4> QED
        BY <1>3, <2>2, <4>1
    <3> QED
      BY <2>3, <3>1, <3>2, CarriesTables DEF StoreInv
  <2>7. InTables({t}, files') = batches
    <3>1. files'[Table(t)].data[1] = batches
      BY <2>3
    <3> QED
      BY <2>3, <3>1, InTablesUnion
  <2>8. InTables(db.version \cup db.found, files)'
           = InTables(db.version \cup db.found, files) \cup batches
    <3>1. db'.version \cup db'.found = (db.version \cup db.found) \cup {t}
      BY <1>2, <1>9
    <3> QED
      BY <2>6, <2>7, <3>1, InTablesUnion
  <2>9. UNION {R(k) : k \in db.left}' = UNION {R(k) : k \in db.left \ {l}}
    <3>1. \A k \in db.left : R(k)' = R(k)
      BY <1>4, <2>3 DEF Carries, ReadOf
    <3> QED
      BY <1>2, <3>1
  <2>10. Recovered'
    <3> DEFINE all == UNION {R(k) : k \in db.left}
               rest == UNION {R(k) : k \in db.left \ {l}}
               tables == InTables(db.version \cup db.found, files)
    <3>1. ASSUME NEW n PROVE n \in all <=> n \in rest \/ n \in batches
      <4>1. n \in all <=> \E k \in db.left : n \in R(k)
        OBVIOUS
      <4>2. n \in rest <=> \E k \in db.left \ {l} : n \in R(k)
        OBVIOUS
      <4> HIDE DEF all, rest, R, l
      <4> QED
        BY <1>4, <4>1, <4>2
    <3>2. Recoverable = tables \cup all
      BY <1>7
    <3>3. Recoverable' = (tables \cup batches) \cup rest
      <4> HIDE DEF all, rest, tables
      <4> QED
        BY <2>4, <3>1, <3>2
    <3>4. Recoverable' = InTables(db.version \cup db.found, files)'
                            \cup UNION {R(k) : k \in db.left}'
      BY <2>8, <2>9, <3>3
    <3> QED
      BY <3>4 DEF Recovered
  <2> QED
    BY <1>1, <1>2, <2>4, <2>5, <2>10 DEF ContentInv, Acked, Logged, Built, Covered, Held
<1> QED
  BY <1>8, <1>9

(* Files are made that no manifest leads to but empty logs.                *)
LEMMA MadeLasts ==
    ASSUME DurableStoreNone, StoreInv, StoreInv', Orderly, Lasting, UNCHANGED disk,
           dir.current > 0, dir'.current = dir.current, Promised' \subseteq Promised,
           \A l \in Nat : l < Least => l < Least',
           Spares(dir', dir),
           \A d \in Dirs' : \E d0 \in Dirs :
              /\ Spares(d, d0) /\ \A l \in Logs(d) : l \in Logs(d0) \/ l \in Logs(dir)'
    PROVE  Lasting' /\ Recoverable' = Recoverable /\ Latest' = Latest
<1>1. /\ FileTypes /\ FileTypes' /\ Named /\ Named' /\ dir \in Dirs /\ dir.names \subseteq Files
      /\ Latest \in Views(dir)
  BY ViewsThere DEF StoreInv
<1>2. Latest' = Latest
  <2>1. files'[Manifest(dir.current)] = files[Manifest(dir.current)]
    BY DEF Spares
  <2> QED
    BY <2>1 DEF Latest, Current, Manifest
<1>3. Recoverable' = Recoverable
  <2>1. Recoverable = HeldIn(dir, Latest) /\ Recoverable' = HeldIn(dir, Latest)'
    <3>1. dir'.current > 0
      OBVIOUS
    <3> QED
      BY <1>1, <3>1, RecoverableIs, RecoverableWill
  <2>2. InTables(Latest.tables, files') = InTables(Latest.tables, files)
    BY <1>1, InTablesSame DEF Spares
  <2>3. ASSUME NEW n PROVE n \in HeldIn(dir, Latest) <=> n \in HeldIn(dir, Latest)'
    <3> DEFINE v == Latest
    <3>1. n \in HeldIn(dir, v) <=> \/ n \in InTables(v.tables, files)
                                   \/ \E l \in Logs(dir) : l >= v.log /\ n \in ReadOf(files[Log(l)])
      BY HeldAre
    <3>2. n \in HeldIn(dir, v)' <=>
             \/ n \in InTables(v.tables, files')
             \/ \E l \in Logs(dir') : l >= v.log /\ n \in ReadOf(files'[Log(l)])
      BY <1>2 DEF HeldIn, LogsFrom, Logs, ReadOf
    <3> HIDE DEF v
    <3> QED
      BY <2>2, <3>1, <3>2 DEF Spares, v
  <2> QED
    BY <2>1, <2>3
<1>4. ASSUME NEW d \in Dirs' PROVE LastingAt(d)'
  <2>1. PICK d0 \in Dirs :
           /\ Spares(d, d0) /\ \A l \in Logs(d) : l \in Logs(d0) \/ l \in Logs(dir)'
    OBVIOUS
  <2>2. LastingAt(d0) /\ Logs(d0) \subseteq Nat
    BY <1>1, ViewsThere, NumbersAre DEF Lasting, Logs
  <2>3. Keeps(d, d0)
    BY <1>1, <2>1, SparesKeeps
  <2>4. \A l \in Logs(d) : l \in Logs(dir)' \/ l < Least'
    <3>1. Logs(dir) \subseteq Logs(dir)'
      BY DEF Spares, Logs
    <3> QED
      BY <2>1, <2>2, <3>1 DEF LastingAt
  <2> QED
    BY <1>3, <2>2, <2>3, <2>4, LastsFrom
<1> QED
  BY <1>2, <1>3, <1>4 DEF Lasting

\* A new log is made, and maybe a manifest that no directory names.
LogMade(k, m) ==
    /\ dir.current > 0 /\ dir'.current = dir.current
    /\ DOMAIN files \subseteq DOMAIN files'
    /\ \A f \in DOMAIN files : f # Log(k) /\ f # Manifest(m) => files'[f] = files[f]
    /\ files'[Log(k)] = [data |-> <<>>, synced |-> 0]
    /\ dir.names \cup {Log(k)} \subseteq dir'.names
    /\ dir'.names \subseteq dir.names \cup {Log(k), Manifest(m)}
    /\ \A d \in Dirs' : \E d0 \in Dirs :
          /\ d.current = d0.current /\ d0.names \subseteq d.names
          /\ d.names \subseteq d0.names \cup {Log(k), Manifest(m)}
    /\ \A d \in Dirs : d.current > 0 => d.current # m
    /\ \A l \in Logs(dir) : l < k

(* All that was promised is still read.                                    *)
LEMMA LogMadeLasts ==
    ASSUME DurableStoreNone, StoreInv, StoreInv', Orderly, Lasting, UNCHANGED disk,
           NEW k \in Nat, NEW m \in Nat, LogMade(k, m),
           Least \in Nat, Least < k, Promised' \subseteq Promised, Least' = Least
    PROVE  /\ Lasting' /\ Recoverable' = Recoverable /\ Latest' = Latest
           /\ \A d \in Dirs' : \E d0 \in Dirs :
                 d.current = d0.current /\ (d.current > 0 => Views(d)' \subseteq Views(d0))
           /\ ReadOf(files'[Log(k)]) = {} /\ k \notin Logs(dir)
           /\ Logs(dir)' = Logs(dir) \cup {k}
           /\ \A l \in Logs(dir) : files'[Log(l)] = files[Log(l)]
           /\ \A ts : (\A t \in ts : Table(t) \in dir.names) =>
                 InTables(ts, files') = InTables(ts, files)
<1> USE DEF LogMade
<1>1. /\ \A n : Manifest(n) # Log(k) /\ Table(n) # Log(k) /\ Log(n) # Manifest(m)
                 /\ Table(n) # Manifest(m)
      /\ \A n : (Manifest(n) = Manifest(m) => n = m) /\ (Log(n) = Log(k) => n = k)
      /\ Log(k) \in Files /\ Manifest(m) \in Files
  BY DEF Manifest, Log, Table, Files
<1>2. /\ dir \in Dirs /\ dir.names \subseteq DOMAIN files /\ dir.names \subseteq Files
  BY ViewsThere DEF StoreInv
<1>3. ReadOf(files'[Log(k)]) = {}
  <2>1. Len(<<>>) = 0
    OBVIOUS
  <2>2. Records(<<>>) = <<>>
    BY <2>1 DEF Records
  <2> QED
    BY <2>2 DEF ReadOf
<1>4. ASSUME NEW d, NEW d0 \in Dirs, d.current = d0.current, d0.names \subseteq d.names,
             d.names \subseteq d0.names \cup {Log(k), Manifest(m)}
      PROVE  /\ Spares(d, d0) /\ \A l \in Logs(d) : l \in Logs(d0) \/ l = k
             /\ k \notin Logs(d0)
  <2>1. /\ d0.names \subseteq Files /\ d0.names \subseteq DOMAIN files
        /\ LastingAt(d0) /\ d0.current \in Nat
    BY ViewsThere DEF StoreInv, Lasting, Directories
  <2>2. d.names \subseteq Files
    BY <1>1, <1>4, <2>1
  <2>3. \A l \in Logs(d) : l \in Logs(d0) \/ l = k
    BY <1>1, <1>4, <2>1, <2>2, NumbersAre DEF Logs
  <2>4. Logs(d0) \subseteq Logs(d) /\ Logs(d0) \subseteq Nat
    BY <1>4, <2>1, <2>2, NumbersAre DEF Logs
  <2>5. k \notin Logs(d0)
    <3>1. \A l \in Logs(d0) : l \in Logs(dir) \/ l < Least
      BY <2>1 DEF LastingAt
    <3> QED
      BY <3>1
  <2>6. d.current > 0 => files'[Manifest(d.current)] = files[Manifest(d.current)]
    <3>1. d.current > 0 => Manifest(d.current) \in d0.names /\ d.current # m
      BY <1>4, <2>1, ViewsThere DEF StoreInv
    <3> QED
      BY <1>1, <2>1, <3>1
  <2>7. \A l \in Logs(d0) : files'[Log(l)] = files[Log(l)]
    BY <1>1, <2>1, <2>5, NumbersAre DEF Logs
  <2>8. ASSUME d.current > 0, NEW v \in Views(d0), NEW u \in v.tables
        PROVE  /\ Table(u) \in DOMAIN files /\ Table(u) \in DOMAIN files'
               /\ files'[Table(u)] = files[Table(u)]
    <3>1. Table(u) \in d0.names
      BY <1>4, <2>1, <2>8 DEF StoreInv, Named, NamedAt, Fits
    <3> QED
      BY <1>1, <2>1, <3>1
  <2> QED
    BY <1>3, <1>4, <2>3, <2>4, <2>5, <2>6, <2>7, <2>8 DEF Spares
<1>5. /\ Spares(dir', dir) /\ k \in Logs(dir)' /\ k \notin Logs(dir)
      /\ \A l \in Logs(dir)' : l \in Logs(dir) \/ l = k
  <2>1. /\ Spares(dir', dir) /\ k \notin Logs(dir)
        /\ \A l \in Logs(dir') : l \in Logs(dir) \/ l = k
    BY <1>2, <1>4
  <2>2. k \in Logs(dir')
    <3>1. dir'.names \subseteq Files
      BY <1>1, <1>2
    <3> QED
      BY <3>1, NumbersAre DEF Logs
  <2>3. Logs(dir)' = Logs(dir')
    BY DEF Logs
  <2> QED
    BY <2>1, <2>2, <2>3
<1>6. \A d \in Dirs' : \E d0 \in Dirs :
         Spares(d, d0) /\ \A l \in Logs(d) : l \in Logs(d0) \/ l \in Logs(dir)'
  <2> TAKE d \in Dirs'
  <2>1. PICK d0 \in Dirs : /\ d.current = d0.current /\ d0.names \subseteq d.names
                           /\ d.names \subseteq d0.names \cup {Log(k), Manifest(m)}
    OBVIOUS
  <2>2. Spares(d, d0) /\ \A l \in Logs(d) : l \in Logs(d0) \/ l = k
    BY <1>4, <2>1
  <2> QED
    BY <1>5, <2>2
<1>7. Lasting' /\ Recoverable' = Recoverable /\ Latest' = Latest
  BY <1>5, <1>6, MadeLasts
<1>8. Logs(dir)' = Logs(dir) \cup {k} /\ \A l \in Logs(dir) : files'[Log(l)] = files[Log(l)]
  <2>1. Logs(dir) \subseteq Logs(dir)'
    BY <1>5 DEF Spares, Logs
  <2> QED
    BY <1>5, <2>1 DEF Spares
<1>9. ASSUME NEW ts, \A t \in ts : Table(t) \in dir.names
      PROVE  InTables(ts, files') = InTables(ts, files)
  BY <1>1, <1>2, <1>9, InTablesSame
<1>10. \A d \in Dirs' : \E d0 \in Dirs :
          d.current = d0.current /\ (d.current > 0 => Views(d)' \subseteq Views(d0))
  <2> TAKE d \in Dirs'
  <2>1. PICK d0 \in Dirs : Spares(d, d0)
    BY <1>6
  <2>2. Keeps(d, d0)
    BY <2>1, SparesKeeps DEF StoreInv
  <2> QED
    BY <2>2 DEF Keeps
<1> QED
  BY <1>3, <1>5, <1>7, <1>8, <1>9, <1>10

(* NewManifest.                                                            *)
LEMMA NewManifestContent ==
    ASSUME DurableStoreAssumption, DurableStoreNone, StoreInv, StoreInv', ContentInv, Orderly,
           UNCHANGED disk, NewManifest
    PROVE  ContentInv' /\ Held' = Held
<1> DEFINE k == db.nextFile
           m == db.manifest
           named == [dir EXCEPT !.names = @ \cup {Log(k)}]
<1>1. /\ db.phase = "logs" /\ db.left = {} /\ UNCHANGED <<acked, safe>> /\ db \in Stores
      /\ \E e : db' = [db EXCEPT !.phase = "manifest", !.logfile = k, !.nextFile = k + 1,
                                 !.edit = e]
      /\ \E e : files' = [f \in DOMAIN files \cup {Log(k), Manifest(m)} |->
                            IF f = Log(k) THEN [data |-> <<>>, synced |-> 0]
                            ELSE IF f = Manifest(m) THEN e ELSE files[f]]
      /\ dir' = [named EXCEPT !.names = @ \cup {Manifest(m)}]
      /\ Past(earlier \cup {dir, named})
  BY DEF NewManifest, Unchanged, StoreInv, StoreTypes
<1>2. /\ db'.phase = "manifest" /\ db'.left = {} /\ db'.found = db.found /\ ~Up /\ ~Up'
      /\ db'.version = db.version /\ db'.logNumber = db.logNumber /\ db'.writer = db.writer
      /\ k \in Nat /\ m \in Nat /\ db.logNumber \in Nat
  BY <1>1 DEF Stores, Up
<1>3. /\ dir.current > 0 /\ dir \in Dirs /\ Latest.next > 0 /\ Latest.next = m
      /\ Fits(dir, Latest) /\ db.version = Latest.tables /\ db.logNumber = Latest.log
      /\ Latest.log < k /\ Latest.next \in Nat
      /\ \A u \in db.found : Table(u) \in dir.names
      /\ \A l \in Logs(dir) : l < k
      /\ \A d \in Dirs : d.current > 0 => d.current < m
  <2>1. dir.current > 0 /\ dir \in Dirs /\ Latest.next > 0
    BY <1>1, ViewsThere DEF StoreInv, Named, Directories
  <2>2. Fits(dir, Latest)
    BY <2>1, ViewsThere DEF StoreInv, Named, NamedAt
  <2>3. Latest \in ViewTypes
    BY <2>1, ViewsThere DEF StoreInv
  <2>4. Latest.log < k
    BY <1>1, <1>2, <2>1, <2>2, <2>3 DEF StoreInv, Opening, Fits, ViewTypes
  <2>5. \A d \in Dirs : d.current > 0 => d.current < Latest.next
    BY <2>1, ViewsThere DEF StoreInv, Named, NamedAt, Directories
  <2> QED
    BY <1>1, <2>1, <2>2, <2>3, <2>4, <2>5 DEF StoreInv, Opening, ViewTypes
<1>4. Promised' = Promised
  BY <1>1, <1>2 DEF Promised, Batches
<1>5. Least' = Least /\ Least = db.logNumber
  BY <1>1, <1>2 DEF Least
<1>6. /\ DOMAIN files \subseteq DOMAIN files'
      /\ \A f \in DOMAIN files : f # Log(k) /\ f # Manifest(m) => files'[f] = files[f]
      /\ files'[Log(k)] = [data |-> <<>>, synced |-> 0]
  <2>1. Log(k) # Manifest(m)
    BY DEF Log, Manifest
  <2> QED
    BY <1>1, <2>1
<1>7. /\ named.names = dir.names \cup {Log(k)} /\ named.current = dir.current
      /\ dir'.names = dir.names \cup {Log(k), Manifest(m)} /\ dir'.current = dir.current
      /\ Dirs' \subseteq Dirs \cup {named, dir'}
  <2>1. dir \in Directories
    BY <1>3, ViewsThere DEF StoreInv
  <2> QED
    BY <1>1, <2>1 DEF Directories, Past, Dirs
<1> HIDE DEF named
<1>8. \A d \in Dirs' : \E d0 \in Dirs :
         /\ d.current = d0.current /\ d0.names \subseteq d.names
         /\ d.names \subseteq d0.names \cup {Log(k), Manifest(m)}
  BY <1>3, <1>7
<1>9. /\ \A d \in Dirs : d.current > 0 => d.current # m
      /\ Least \in Nat /\ Least < k
  <2>1. \A d \in Dirs : d.current \in Nat
    BY ViewsThere DEF StoreInv, Directories
  <2> QED
    BY <1>2, <1>3, <1>5, <2>1
<1>10. /\ Lasting' /\ Recoverable' = Recoverable
       /\ \A ts : (\A t \in ts : Table(t) \in dir.names) =>
             InTables(ts, files') = InTables(ts, files)
  <2>1. LogMade(k, m)
    BY <1>3, <1>6, <1>7, <1>8, <1>9 DEF LogMade
  <2>2. Lasting
    BY DEF ContentInv
  <2> QED
    BY <1>2, <1>4, <1>5, <1>9, <2>1, <2>2, LogMadeLasts
<1>11. Recovered'
  <2>1. InTables(db.version \cup db.found, files') = InTables(db.version \cup db.found, files)
    <3>1. \A u \in db.version \cup db.found : Table(u) \in dir.names
      BY <1>3 DEF Fits
    <3> QED
      BY <1>10, <3>1
  <2>2. Recoverable = InTables(db.version \cup db.found, files)
    <3>1. UNION {ReadOf(files[Log(l)]) : l \in db.left} = {}
      BY <1>1
    <3> QED
      BY <1>1, <3>1 DEF ContentInv, Recovered
  <2>3. InTables(db.version \cup db.found, files)' = InTables(db.version \cup db.found, files')
    BY <1>2 DEF InTables
  <2>4. UNION {ReadOf(files[Log(l)]) : l \in db.left}' = {}
    BY <1>2
  <2> QED
    BY <1>10, <2>1, <2>2, <2>3, <2>4 DEF Recovered
<1> QED
  BY <1>1, <1>2, <1>10, <1>11 DEF ContentInv, Acked, Logged, Built, Covered, Held

(* SyncManifest.                                                           *)
LEMMA SyncManifestContent ==
    ASSUME DurableStoreAssumption, DurableStoreNone, StoreInv, StoreInv', ContentInv, Orderly,
           UNCHANGED disk, SyncManifest
    PROVE  ContentInv' /\ Held' = Held
<1> DEFINE m == db.manifest
           f == Manifest(m)
<1>1. /\ db.phase = "manifest" /\ db' = [db EXCEPT !.phase = "current"] /\ db \in Stores
      /\ files' = Synced(f, files) /\ UNCHANGED <<dir, acked, safe>> /\ earlier' = {}
  BY DEF SyncManifest, Unchanged, Past, AfterSync, StoreInv, StoreTypes
<1>2. /\ db'.phase = "current" /\ db'.left = db.left /\ db'.found = db.found /\ ~Up /\ ~Up'
      /\ db'.version = db.version /\ db'.logNumber = db.logNumber /\ db'.writer = db.writer
      /\ m \in Nat /\ db.left = {}
  BY <1>1 DEF Stores, Up, StoreInv, Made
<1>3. /\ dir.current > 0 /\ dir \in Dirs /\ Fits(dir, Latest) /\ db.version = Latest.tables
      /\ \A u \in db.found : Table(u) \in dir.names
      /\ dir.current < m /\ dir.current \in Nat /\ f \in dir.names
      /\ dir.names \subseteq Files /\ dir.names \subseteq DOMAIN files
      /\ Manifest(dir.current) \in dir.names
  <2>1. dir.current > 0 /\ dir \in Dirs /\ Latest.next > 0 /\ dir.current \in Nat
    BY <1>1, ViewsThere DEF StoreInv, Named, Directories
  <2>2. Fits(dir, Latest)
    BY <2>1, ViewsThere DEF StoreInv, Named, NamedAt
  <2> QED
    BY <1>1, <2>1, <2>2, ViewsThere DEF StoreInv, Opening, Made, Named, NamedAt
<1>4. DOMAIN files' = DOMAIN files /\ \A e \in DOMAIN files : e # f => files'[e] = files[e]
  <2>1. f \in DOMAIN files /\ IsManifest(files[f])
    BY <1>3 DEF StoreInv, FileTypes, FileOf, Manifest
  <2> QED
    BY <1>1, <2>1, SyncedIs DEF StoreInv
<1>5. \A n : (Manifest(n) = f => n = m) /\ Log(n) # f /\ Table(n) # f
  BY DEF Manifest, Log, Table
<1>6. Promised' = Promised
  BY <1>1, <1>2 DEF Promised, Batches
<1>7. Least' = Least
  BY <1>1, <1>2 DEF Least
<1>8. Spares(dir, dir)
  <2>1. files'[Manifest(dir.current)] = files[Manifest(dir.current)]
    BY <1>2, <1>3, <1>4, <1>5
  <2>2. \A l \in Logs(dir) : files'[Log(l)] = files[Log(l)]
    BY <1>3, <1>4, <1>5, NumbersAre DEF Logs
  <2>3. ASSUME NEW v \in Views(dir), NEW u \in v.tables
        PROVE  /\ Table(u) \in DOMAIN files /\ Table(u) \in DOMAIN files'
               /\ files'[Table(u)] = files[Table(u)]
    <3>1. Table(u) \in dir.names
      BY <1>3, <2>3 DEF StoreInv, Named, NamedAt, Fits
    <3> QED
      BY <1>3, <1>4, <1>5, <3>1
  <2> QED
    BY <2>1, <2>2, <2>3 DEF Spares
<1>9. Lasting' /\ Recoverable' = Recoverable
  <2>1. Dirs' = {dir} /\ dir' = dir
    BY <1>1 DEF Dirs
  <2>2. Spares(dir', dir)
    BY <1>8, <2>1
  <2>3. \A d \in Dirs' : \E d0 \in Dirs :
           Spares(d, d0) /\ \A l \in Logs(d) : l \in Logs(d0) \/ l \in Logs(dir)'
    BY <1>3, <1>8, <2>1
  <2> QED
    BY <1>3, <1>6, <1>7, <2>1, <2>2, <2>3, MadeLasts DEF ContentInv
<1>10. Recovered'
  <2>1. InTables(db.version \cup db.found, files') = InTables(db.version \cup db.found, files)
    <3>1. \A u \in db.version \cup db.found : Table(u) \in dir.names
      BY <1>3 DEF Fits
    <3> QED
      BY <1>3, <1>4, <1>5, <3>1, InTablesSame
  <2>2. Recoverable = InTables(db.version \cup db.found, files)
    BY <1>1, <1>2 DEF ContentInv, Recovered
  <2>3. InTables(db.version \cup db.found, files)' = InTables(db.version \cup db.found, files')
    BY <1>2 DEF InTables
  <2>4. UNION {ReadOf(files[Log(l)]) : l \in db.left}' = {}
    BY <1>2
  <2> QED
    BY <1>9, <2>1, <2>2, <2>3, <2>4 DEF Recovered
<1> QED
  BY <1>1, <1>2, <1>9, <1>10 DEF ContentInv, Acked, Logged, Built, Covered, Held

(* SwitchMemTable.                                                         *)
LEMMA SwitchMemTableContent ==
    ASSUME DurableStoreAssumption, DurableStoreNone, StoreInv, StoreInv', ContentInv, Orderly,
           UNCHANGED disk, SwitchMemTable
    PROVE  ContentInv' /\ Held' = Held
<1> DEFINE k == db.nextFile
           R(l) == ReadOf(files[Log(l)])
<1>1. /\ Up /\ db.writer = None /\ ~db.bgError /\ db.mem # {} /\ db.imm = {} /\ db \in Stores
      /\ db' = [db EXCEPT !.logfile = k, !.nextFile = k + 1, !.imm = db.mem, !.mem = {}]
      /\ files' = With(Log(k), <<>>, 0)
      /\ dir' = [dir EXCEPT !.names = @ \cup {Log(k)}] /\ Past(earlier \cup {dir})
      /\ UNCHANGED <<acked, safe>>
  BY DEF SwitchMemTable, Unchanged, StoreInv, StoreTypes
<1>2. /\ Up' /\ db'.writer = None /\ db'.logfile = k /\ db'.imm = db.mem /\ db'.mem = {}
      /\ db'.version = db.version /\ db'.logNumber = db.logNumber /\ db'.edit = db.edit
      /\ db'.merge = db.merge /\ k \in Nat /\ db.logNumber \in Nat /\ db.logfile \in Nat
  BY <1>1 DEF Stores, Up
<1>3. /\ R(db.logfile) = db.mem /\ db.logNumber = db.logfile /\ Latest.log = db.logfile
  BY <1>1 DEF ContentInv, Logged, Covered
<1>4. /\ dir.current > 0 /\ dir \in Dirs /\ dir \in Directories /\ db.logfile < k
      /\ db.logfile \in Logs(dir) /\ \A l \in Logs(dir) : l <= db.logfile /\ l \in Nat
      /\ \A t \in db.version : Table(t) \in dir.names
      /\ \A t \in Latest.tables : Table(t) \in dir.names
      /\ \A d \in Dirs : d.current > 0 => d.current # k
  <2>1. /\ dir.current > 0 /\ dir \in Dirs /\ dir \in Directories /\ dir.names \subseteq Files
        /\ db.logfile < k /\ Latest.next > 0
        /\ Log(db.logfile) \in dir.names /\ \A l \in Logs(dir) : l <= db.logfile
        /\ \A t \in db.version : Table(t) \in dir.names
    BY <1>1, ViewsThere DEF StoreInv, Open, Stores, Version, Named, Up
  <2>2. Fits(dir, Latest) /\ Latest \in ViewTypes /\ Latest.next <= k
    BY <1>1, <2>1, ViewsThere DEF StoreInv, Named, NamedAt, Open
  <2>3. \A d \in Dirs : d.current \in Nat /\ (d.current > 0 => d.current < Latest.next)
    BY <2>1, ViewsThere DEF StoreInv, Named, NamedAt, Directories
  <2> QED
    BY <1>2, <2>1, <2>2, <2>3, NumbersAre DEF Fits, ViewTypes, Logs
<1>5. Promised' \subseteq Promised /\ Least' = Least /\ Least = db.logNumber
  BY <1>1, <1>2 DEF Promised, Least, Up
<1>6. /\ DOMAIN files \subseteq DOMAIN files'
      /\ \A f \in DOMAIN files : f # Log(k) => files'[f] = files[f]
      /\ files'[Log(k)] = [data |-> <<>>, synced |-> 0]
      /\ dir'.names = dir.names \cup {Log(k)} /\ dir'.current = dir.current
      /\ Dirs' \subseteq Dirs \cup {dir'}
  BY <1>1, <1>4 DEF With, Directories, Past, Dirs
<1>7. \A d \in Dirs' : \E d0 \in Dirs :
         /\ d.current = d0.current /\ d0.names \subseteq d.names
         /\ d.names \subseteq d0.names \cup {Log(k), Manifest(k)}
  BY <1>4, <1>6
<1> HIDE DEF k
<1>8. /\ Lasting' /\ Recoverable' = Recoverable /\ Latest' = Latest
      /\ \A d \in Dirs' : \E d0 \in Dirs :
            d.current = d0.current /\ (d.current > 0 => Views(d)' \subseteq Views(d0))
      /\ ReadOf(files'[Log(k)]) = {} /\ k \notin Logs(dir)
      /\ Logs(dir)' = Logs(dir) \cup {k}
      /\ \A l \in Logs(dir) : files'[Log(l)] = files[Log(l)]
      /\ \A ts : (\A t \in ts : Table(t) \in dir.names) =>
            InTables(ts, files') = InTables(ts, files)
  <2>1. \A l \in Logs(dir) : l < k
    BY <1>2, <1>4
  <2>2. Least \in Nat /\ Least < k
    BY <1>2, <1>3, <1>4, <1>5
  <2>3. Lasting
    BY DEF ContentInv
  <2>4. LogMade(k, k)
    BY <1>4, <1>6, <1>7, <2>1 DEF LogMade
  <2> QED
    BY <1>2, <1>5, <2>2, <2>3, <2>4, LogMadeLasts
<1>9. /\ InTables(db.version, files)' = InTables(db.version, files)
      /\ InTables(Latest.tables, files)' = InTables(Latest.tables, files)
  <2>1. /\ InTables(db.version, files)' = InTables(db.version, files')
        /\ InTables(Latest.tables, files)' = InTables(Latest.tables, files')
    BY <1>2, <1>8 DEF InTables
  <2> QED
    BY <1>4, <1>8, <2>1
<1>10. Acked' /\ Held' = Held
  <2>1. Visible' = Visible
    BY <1>1, <1>2, <1>9 DEF Visible
  <2>2. Held' = Held
    BY <1>1, <1>2, <2>1 DEF Held
  <2> QED
    BY <1>1, <1>8, <2>1, <2>2 DEF ContentInv, Acked
<1>11. Recovered'
  BY <1>2 DEF Recovered, Up
<1>12. Logged'
  <2>1. R(db.logfile)' = {}
    BY <1>2, <1>8 DEF Log
  <2>2. LogsFrom(db.logNumber, dir)' \ {k} = {db.logfile}
    <3>1. LogsFrom(db.logNumber, dir)' = {l \in Logs(dir)' : l >= db.logNumber}
      BY <1>2 DEF LogsFrom, Logs
    <3> QED
      BY <1>2, <1>3, <1>4, <1>8, <3>1
  <2>3. \A l \in {db.logfile} : R(l)' = db.mem
    <3>1. R(db.logfile) = ReadOf(files'[Log(db.logfile)])
      BY <1>4, <1>8
    <3>2. \A l \in {db.logfile} : R(l)' = ReadOf(files'[Log(l)])
      BY DEF ReadOf
    <3> QED
      BY <1>3, <3>1, <3>2
  <2>4. UNION {R(l)' : l \in {db.logfile}} = db.mem
    BY <2>3
  <2>5. UNION {R(l)' : l \in LogsFrom(db.logNumber, dir)' \ {k}} = db.mem
    BY <2>2, <2>4
  <2> QED
    BY <1>1, <1>2, <2>1, <2>5 DEF Logged
<1>13. Built'
  <2>1. ASSUME db.edit # None
        PROVE  /\ InTables(db.edit.is.add, files)' = InTables(db.edit.is.add, files)
               /\ InTables(db.merge.inputs, files)' = InTables(db.merge.inputs, files)
               /\ db.edit.for = "merge"
    <3>1. db.edit.for = "merge" /\ db.merge # None
      BY <1>1, <2>1 DEF StoreInv, StoreTypes
    <3>2. \A t \in db.edit.is.add \cup db.merge.inputs : Table(t) \in dir.names
      BY <1>1, <1>4, <2>1, <3>1 DEF StoreInv, Editing, Working
    <3>3. /\ InTables(db.edit.is.add, files)' = InTables(db.edit.is.add, files')
          /\ InTables(db.merge.inputs, files)' = InTables(db.merge.inputs, files')
      BY <1>2 DEF InTables
    <3> QED
      BY <1>8, <3>1, <3>2, <3>3
  <2> QED
    BY <1>1, <1>2, <1>8, <2>1 DEF ContentInv, Built
<1>14. Covered'
  <2>1. Latest.log # k
    BY <1>2, <1>3, <1>4
  <2>2. ASSUME NEW d \in Dirs', d.current > 0, NEW v \in Views(d)' PROVE v.log <= k
    <3>1. PICK d0 \in Dirs : d.current = d0.current /\ v \in Views(d0)
      BY <1>8, <2>2
    <3>2. v.log <= db.logfile /\ v.log \in Nat
      BY <1>1, <2>2, <3>1, ViewsThere DEF ContentInv, Covered, ViewTypes, StoreInv
    <3> QED
      BY <1>2, <1>4, <3>2
  <2> QED
    BY <1>1, <1>2, <1>3, <1>8, <1>9, <2>1, <2>2 DEF ContentInv, Covered
<1> QED
  BY <1>8, <1>10, <1>11, <1>12, <1>13, <1>14 DEF ContentInv

(* AddRecord.                                                              *)
LEMMA AddRecordContent ==
    ASSUME DurableStoreAssumption, DurableStoreNone, StoreInv, StoreInv', ContentInv, Orderly,
           UNCHANGED disk, NEW sync \in BOOLEAN, AddRecord(sync)
    PROVE  ContentInv' /\ Held' = Held
<1> DEFINE k == db.logfile
           g == files[Log(k)]
           h == files'[Log(k)]
<1>1. PICK w, x, s :
         /\ Up /\ AddsRecord(w, x, s) /\ w.sync = sync
         /\ w.status # "error" /\ x = w.n
         /\ w.status = "ok" /\ sync => /\ s = Len(g.data) + 1
                                       /\ earlier' = AfterSync(FALSE)
  <2>1. "tear" \notin LogFaults
    BY DEF Orderly
  <2>2. \E w, x, s :
           /\ AddsRecord(w, x, s) /\ w.sync = sync
           /\ w.status = "error" => "tear" \in LogFaults
           /\ w.status # "error" => x = w.n
           /\ w.status = "ok" /\ sync => s = Len(g.data) + 1 /\ earlier' = AfterSync(FALSE)
    BY AddRecordIs
  <2>3. Up
    BY AddRecordIs
  <2> QED
    BY <2>1, <2>2, <2>3
<1> DEFINE n == w.n
<1>2. /\ CarriesAllBut(k) /\ n \in Batches /\ w # None
      /\ ReadOf(h) = ReadOf(g) \cup {n} /\ SyncedOf(g) \subseteq SyncedOf(h)
      /\ (w.status = "ok" /\ sync => n \in SyncedOf(h))
  <2>1. /\ CarriesAllBut(k) /\ Gains(g, h, x) /\ n \in Batches /\ w # None
        /\ "tear" \notin LogFaults =>
              /\ ReadOf(h) = ReadOf(g) \cup {x} /\ x = n
              /\ s = Len(g.data) + 1 => x \in SyncedOf(h)
    BY <1>1, LogAppended
  <2>2. "tear" \notin LogFaults
    BY DEF Orderly
  <2> QED
    BY <1>1, <2>1, <2>2 DEF Gains
<1>3. /\ db \in Stores /\ db.writer = None /\ db' = [db EXCEPT !.writer = w]
      /\ UNCHANGED <<dir, acked, safe>> /\ earlier' \subseteq earlier
      /\ \A f \in DOMAIN files : f # Log(k) => f \in DOMAIN files' /\ files'[f] = files[f]
      /\ DOMAIN files \subseteq DOMAIN files'
  <2>1. /\ db' = [db EXCEPT !.writer = w] /\ UNCHANGED <<dir, acked, safe>>
        /\ db.writer = None /\ earlier' \subseteq earlier
    BY <1>1 DEF AddsRecord
  <2>2. \E data, r : files' = With(Log(k), data, r)
    BY <1>1 DEF AddsRecord
  <2> QED
    BY <2>1, <2>2 DEF With, StoreInv, StoreTypes
<1>4. /\ Up' /\ db'.writer = w /\ db'.mem = db.mem /\ db'.imm = db.imm
      /\ db'.version = db.version /\ db'.logNumber = db.logNumber /\ db'.edit = db.edit
      /\ db'.merge = db.merge /\ db'.logfile = k /\ db'.bgError = db.bgError /\ k \in Nat
  BY <1>1, <1>3 DEF Stores, Up
<1>5. /\ \A l : Log(l) # Log(k) <=> l # k
      /\ \A l : Manifest(l) # Log(k) /\ Table(l) # Log(k)
  BY DEF Log, Manifest, Table
<1>6. /\ dir \in Dirs /\ dir.current > 0 /\ 1 < dir.current /\ k \in Logs(dir)
      /\ Latest.log <= k /\ ReadOf(g) \subseteq Recoverable
      /\ Dirs' \subseteq Dirs
      /\ \A t \in db.version : Table(t) \in dir.names
      /\ \A t \in Latest.tables : Table(t) \in dir.names
  <2>1. dir \in Dirs /\ dir.current > 0 /\ 1 < dir.current
    BY <1>1, <1>3, ViewsThere DEF StoreInv, Open, Stores
  <2>2. Fits(dir, Latest)
    BY <2>1, ViewsThere DEF StoreInv, Named, NamedAt
  <2> QED
    BY <1>1, <1>3, <2>1, <2>2, LogfileIsRead DEF ContentInv, StoreInv, Open, Version, Dirs, Fits
<1>7. /\ Latest' = Latest /\ Logs(dir)' = Logs(dir)
      /\ \A ts : (\A t \in ts : Table(t) \in dir.names) =>
            InTables(ts, files') = InTables(ts, files)
      /\ \A l \in Logs(dir) : l # k => ReadOf(files'[Log(l)]) = ReadOf(files[Log(l)])
  BY <1>2, <1>3 DEF CarriesAllBut, Logs
<1> HIDE DEF k, g, h, n
<1>8. Recoverable' = Recoverable \cup {n}
  <2>1. Recoverable = HeldIn(dir, Latest) /\ Recoverable' = HeldIn(dir, Latest)'
    <3>1. dir'.current > 0 /\ FileTypes /\ Named /\ FileTypes' /\ Named'
      BY <1>3, <1>6 DEF StoreInv
    <3> QED
      BY <1>6, <3>1, RecoverableIs, RecoverableWill
  <2>2. InTables(Latest.tables, files') = InTables(Latest.tables, files)
    BY <1>6, <1>7
  <2>3. ASSUME NEW y PROVE y \in HeldIn(dir, Latest)' <=> y \in HeldIn(dir, Latest) \/ y = n
    <3> DEFINE v == Latest
    <3>1. y \in HeldIn(dir, v) <=> \/ y \in InTables(v.tables, files)
                                   \/ \E l \in Logs(dir) : l >= v.log /\ y \in ReadOf(files[Log(l)])
      BY HeldAre
    <3>2. y \in HeldIn(dir, v)' <=>
             \/ y \in InTables(v.tables, files')
             \/ \E l \in Logs(dir) : l >= v.log /\ y \in ReadOf(files'[Log(l)])
      BY <1>3, <1>7 DEF HeldIn, LogsFrom, Logs, ReadOf
    <3>3. \A l \in Logs(dir) : y \in ReadOf(files'[Log(l)])
             <=> y \in ReadOf(files[Log(l)]) \/ (l = k /\ y = n)
      BY <1>2, <1>7 DEF g, h
    <3>4. k \in Logs(dir) /\ k >= v.log
      <4>1. Latest.log \in Nat
        BY <1>6, ViewsThere DEF StoreInv, ViewTypes
      <4> QED
        BY <1>4, <1>6, <4>1
    <3> HIDE DEF v
    <3>5. InTables(v.tables, files') = InTables(v.tables, files)
      BY <2>2 DEF v
    <3> QED
      BY <3>1, <3>2, <3>3, <3>4, <3>5 DEF v
  <2> QED
    BY <2>1, <2>3
<1>9. Promised' = (IF w.status = "ok" /\ sync THEN safe \cup {n} ELSE safe) /\ Promised = safe
  BY <1>1, <1>2, <1>3, <1>4 DEF Promised, n, Batches
<1>10. ASSUME w.status = "ok", sync PROVE Dirs' = {dir}
  <2>1. Journaled \/ earlier = {}
    BY DEF Orderly, StoreInv, FileTypes
  <2>2. earlier' = {}
    BY <1>1, <1>10, <2>1 DEF AfterSync
  <2> QED
    BY <1>3, <2>2 DEF Dirs
<1>11. ASSUME NEW d \in Dirs' PROVE LastingAt(d)'
  <2>1. /\ d \in Dirs /\ LastingAt(d) /\ d.names \subseteq DOMAIN files
        /\ d.names \subseteq Files /\ d.current \in Nat /\ FileTypes /\ Named /\ FileTypes'
        /\ Logs(d) \subseteq Nat
    BY <1>6, ViewsThere, NumbersAre DEF StoreInv, ContentInv, Lasting, Directories, Logs
  <2>2. d.current <= 1 => Promised' = {}
    BY <1>6, <1>9, <1>10, <2>1 DEF LastingAt
  <2>3. ASSUME d.current > 0, NEW v \in Views(d)'
        PROVE  Promised' \subseteq SafeIn(d, v)' /\ HeldIn(d, v)' \subseteq Recoverable'
    <3>1. v \in Views(d) /\ \A t \in v.tables : Table(t) \in d.names
      <4>1. files'[Manifest(d.current)] = files[Manifest(d.current)]
        BY <1>3, <1>5, <2>1, <2>3, ViewsThere
      <4>2. Views(d)' \subseteq Views(d)
        BY <1>3, <4>1, Carried
      <4> QED
        BY <2>1, <2>3, <4>2 DEF Named, NamedAt, Fits
    <3>2. InTables(v.tables, files') = InTables(v.tables, files)
      BY <1>3, <1>5, <2>1, <3>1, InTablesSame
    <3>3. \A l \in Logs(d) : l # k => files'[Log(l)] = files[Log(l)]
      BY <1>3, <1>5, <2>1, NumbersAre DEF Logs
    <3>4. ASSUME NEW y \in HeldIn(d, v)' PROVE y \in Recoverable'
      <4>1. y \in HeldIn(d, v) \/ y = n
        BY <1>2, <3>2, <3>3, <3>4, HeldAre, HeldWill DEF g, h
      <4> QED
        BY <1>8, <2>1, <2>3, <3>1, <4>1 DEF LastingAt
    <3>5. ASSUME NEW y \in SafeIn(d, v) PROVE y \in SafeIn(d, v)'
      BY <1>2, <3>2, <3>3, <3>5, HeldAre, HeldWill DEF g, h
    <3>6. w.status = "ok" /\ sync => n \in SafeIn(d, v)'
      <4>1. v.log <= k /\ v.log \in Nat
        BY <1>1, <2>1, <2>3, <3>1, ViewsThere DEF ContentInv, Covered, ViewTypes, k
      <4>2. w.status = "ok" /\ sync => d = dir
        BY <1>10
      <4>3. w.status = "ok" /\ sync => n \in SyncedOf(files'[Log(k)])
        BY <1>2 DEF h
      <4> QED
        BY <1>4, <1>6, <4>1, <4>2, <4>3, HeldWill
    <3> QED
      BY <1>9, <2>1, <2>3, <3>1, <3>4, <3>5, <3>6 DEF LastingAt
  <2>4. \A l \in Logs(d)' : l \in Logs(dir)' \/ l < Least'
    <3>1. Least' = Least /\ Logs(d)' = Logs(d)
      BY <1>1, <1>4, <1>7 DEF Least, Up, Logs
    <3> QED
      BY <1>7, <2>1, <3>1 DEF LastingAt
  <2> QED
    BY <2>2, <2>3, <2>4 DEF LastingAt
<1>12. Lasting'
  BY <1>11 DEF Lasting
<1>13. /\ InTables(db.version, files)' = InTables(db.version, files)
       /\ InTables(Latest.tables, files)' = InTables(Latest.tables, files)
  <2>1. /\ InTables(db.version, files)' = InTables(db.version, files')
        /\ InTables(Latest.tables, files)' = InTables(Latest.tables, files')
    BY <1>4, <1>7 DEF InTables
  <2> QED
    BY <1>6, <1>7, <2>1
<1>14. Acked' /\ Held' = Held
  <2>1. Visible' = Visible
    BY <1>4, <1>13 DEF Visible
  <2>2. Held' = Held
    BY <1>1, <1>3, <1>4, <2>1 DEF Held
  <2> QED
    BY <1>1, <1>3, <1>8, <2>1, <2>2 DEF ContentInv, Acked
<1>15. Recovered'
  BY <1>4 DEF Recovered, Up
<1>16. Logged'
  <2> DEFINE R(l) == ReadOf(files[Log(l)])
  <2>1. R(db.logfile)' = db.mem \cup {n}
    <3>1. ReadOf(files[Log(db.logfile)])' = ReadOf(h)
      BY <1>4 DEF ReadOf, h, Log
    <3>2. ReadOf(g) = db.mem
      BY <1>1, <1>3 DEF ContentInv, Logged, g, k, AddsRecord, AddRecord
    <3> QED
      BY <1>2, <3>1, <3>2
  <2>2. LogsFrom(db.logNumber, dir)' = LogsFrom(db.logNumber, dir)
        /\ LogsFrom(db.logNumber, dir) \subseteq Logs(dir)
    BY <1>3, <1>4 DEF LogsFrom, Logs
  <2>3. \A l \in LogsFrom(db.logNumber, dir) \ {k} : R(l)' = R(l)
    <3>1. \A l : R(l)' = ReadOf(files'[Log(l)])
      BY DEF ReadOf
    <3> QED
      BY <1>7, <2>2, <3>1
  <2>4. /\ db.imm = UNION {R(l) : l \in LogsFrom(db.logNumber, dir) \ {k}}
        /\ (db.imm = {} => db.logNumber = k)
    BY <1>1 DEF ContentInv, Logged, k
  <2>5. UNION {R(l)' : l \in LogsFrom(db.logNumber, dir) \ {k}} = db.imm
    BY <2>3, <2>4
  <2> QED
    BY <1>1, <1>2, <1>4, <2>1, <2>2, <2>4, <2>5 DEF Logged, n
<1>17. Built'
  <2>1. ASSUME db.edit # None
        PROVE  /\ InTables(db.edit.is.add, files)' = InTables(db.edit.is.add, files)
               /\ \/ db.edit.for = "flush"
                  \/ InTables(db.merge.inputs, files)' = InTables(db.merge.inputs, files)
    <3>1. /\ \A t \in db.edit.is.add : Table(t) \in dir.names
          /\ \/ db.edit.for = "flush"
             \/ \A t \in db.merge.inputs : Table(t) \in dir.names
      BY <1>1, <1>6, <2>1 DEF StoreInv, StoreTypes, Editing, Working
    <3>2. /\ InTables(db.edit.is.add, files)' = InTables(db.edit.is.add, files')
          /\ InTables(db.merge.inputs, files)' = InTables(db.merge.inputs, files')
      BY <1>4 DEF InTables
    <3> QED
      BY <1>7, <3>1, <3>2
  <2> QED
    BY <1>1, <1>4, <1>7, <2>1 DEF ContentInv, Built
<1>18. Covered'
  <2>1. ASSUME NEW d \in Dirs', d.current > 0, NEW v \in Views(d)' PROVE v.log <= k
    <3>1. files'[Manifest(d.current)] = files[Manifest(d.current)]
      BY <1>3, <1>5, <1>6, <2>1, ViewsThere DEF StoreInv
    <3>2. v \in Views(d)
      BY <1>3, <2>1, <3>1, Carried
    <3> QED
      BY <1>1, <1>6, <2>1, <3>2 DEF ContentInv, Covered, k
  <2> QED
    BY <1>1, <1>4, <1>7, <1>13, <2>1 DEF ContentInv, Covered, k
<1> QED
  BY <1>12, <1>14, <1>15, <1>16, <1>17, <1>18 DEF ContentInv

(* What an open store can recover: its tables, the old memtable and what   *)
(* is in its log.                                                          *)
LEMMA UpRecoverable ==
    StoreInv /\ Logged /\ Covered /\ Up =>
       Recoverable = InTables(db.version, files) \cup db.imm \cup ReadOf(files[Log(db.logfile)])
<1> SUFFICES ASSUME StoreInv, Logged, Covered, Up
             PROVE  Recoverable = InTables(db.version, files) \cup db.imm
                                     \cup ReadOf(files[Log(db.logfile)])
  OBVIOUS
<1> DEFINE k == db.logfile
           v == Latest
           R(l) == ReadOf(files[Log(l)])
<1>1. /\ k \in Nat /\ db.logNumber \in Nat /\ db.logNumber <= k /\ k \in Logs(dir)
      /\ v.log \in {db.logNumber, k} /\ Logs(dir) \subseteq Nat
      /\ \A l \in Logs(dir) : l <= k
      /\ Recoverable = HeldIn(dir, v)
  <2>1. /\ dir \in Dirs /\ dir.current > 0 /\ dir.names \subseteq Files /\ Log(k) \in dir.names
        /\ k \in Nat /\ db.logNumber \in Nat
    BY DurableStoreNone, ViewsThere DEF StoreInv, StoreTypes, Stores, Open
  <2>2. k \in Logs(dir) /\ Logs(dir) \subseteq Nat
    BY <2>1, NumbersAre DEF Logs
  <2>3. Recoverable = HeldIn(dir, v)
    BY <2>1, DurableStoreNone, RecoverableIs DEF StoreInv
  <2> QED
    BY <2>1, <2>2, <2>3 DEF StoreInv, Open, Covered
<1>2. db.imm = UNION {R(l) : l \in LogsFrom(db.logNumber, dir) \ {k}}
  BY DEF Logged
<1>3. /\ InTables(db.version, files) \subseteq InTables(v.tables, files)
      /\ InTables(v.tables, files) \subseteq InTables(db.version, files) \cup db.imm
      /\ v.log = k => db.imm \subseteq InTables(v.tables, files)
  BY DEF Covered
<1>4. \A n : n \in db.imm <=> \E l \in Logs(dir) : l >= db.logNumber /\ l # k /\ n \in R(l)
  BY <1>2 DEF LogsFrom, Logs
<1>5. \A n : n \in HeldIn(dir, v) <=> \/ n \in InTables(v.tables, files)
                                     \/ \E l \in Logs(dir) : l >= v.log /\ n \in R(l)
  BY HeldAre
<1> HIDE DEF k, v, R
<1>6. ASSUME NEW n
      PROVE  n \in HeldIn(dir, v) <=> n \in InTables(db.version, files) \cup db.imm \cup R(k)
  <2>1. ASSUME n \in HeldIn(dir, v)
        PROVE  n \in InTables(db.version, files) \cup db.imm \cup R(k)
    <3>1. CASE n \in InTables(v.tables, files)
      BY <1>3, <3>1
    <3>2. CASE \E l \in Logs(dir) : l >= v.log /\ n \in R(l)
      <4>1. PICK l \in Logs(dir) : l >= v.log /\ n \in R(l)
        BY <3>2
      <4>2. l >= db.logNumber
        BY <1>1, <4>1
      <4> QED
        BY <1>4, <4>1, <4>2
    <3> QED
      BY <1>5, <2>1, <3>1, <3>2
  <2>2. ASSUME n \in db.imm PROVE n \in HeldIn(dir, v)
    <3>1. CASE v.log = k
      BY <1>3, <1>5, <2>2, <3>1
    <3>2. CASE v.log = db.logNumber
      BY <1>4, <1>5, <2>2, <3>2
    <3> QED
      BY <1>1, <3>1, <3>2
  <2>3. ASSUME n \in R(k) PROVE n \in HeldIn(dir, v)
    <3>1. k >= v.log
      BY <1>1
    <3> QED
      BY <1>1, <1>5, <2>3, <3>1
  <2> QED
    BY <1>3, <1>5, <2>1, <2>2, <2>3
<1> QED
  BY <1>1, <1>6 DEF k, R

(* The logs an open store still needs are in its memtables or in use, and  *)
(* what is safe of them is read.                                           *)
LEMMA UpLogs ==
    ASSUME DurableStoreAssumption, DurableStoreNone, StoreInv, ContentInv, Orderly, Up,
           NEW d \in Dirs, NEW l \in Logs(d), l >= db.logNumber
    PROVE  /\ l \in Logs(dir) /\ l <= db.logfile
           /\ l # db.logfile => ReadOf(files[Log(l)]) \subseteq db.imm
           /\ SyncedOf(files[Log(l)]) \subseteq ReadOf(files[Log(l)])
<1>1. l \in Logs(dir) /\ l \in Nat
  <2>1. l \in Nat /\ db.logNumber \in Nat
    BY BatchesOnly DEF StoreInv, StoreTypes, Stores
  <2>2. l \in Logs(dir) \/ l < db.logNumber
    BY DEF ContentInv, Lasting, LastingAt, Least, Up
  <2> QED
    BY <2>1, <2>2
<1>2. l <= db.logfile
  BY <1>1 DEF StoreInv, Open
<1>3. l # db.logfile => ReadOf(files[Log(l)]) \subseteq db.imm
  BY <1>1 DEF ContentInv, Logged, LogsFrom, Logs
<1>4. SyncedOf(files[Log(l)]) \subseteq ReadOf(files[Log(l)])
  <2>1. IsLog(files[Log(l)]) /\ ~Torn(files[Log(l)].data)
    BY BatchesOnly DEF StoreInv, Orderly
  <2> QED
    BY <2>1, ReadsAre
<1> QED
  BY <1>1, <1>2, <1>3, <1>4

(* What the edit of a job makes of a set of tables that holds what the     *)
(* version does: what it held, and the old memtable if that is flushed.    *)
LEMMA EditKeeps ==
    ASSUME StoreInv, Built, Up, db.edit # None, NEW L,
           InTables(db.version, files) \subseteq InTables(L, files)
    PROVE  /\ InTables((L \ db.edit.is.del) \cup db.edit.is.add, files)
                 = IF db.edit.for = "flush" THEN InTables(L, files) \cup db.imm
                   ELSE InTables(L, files)
           /\ (L \ db.edit.is.del) \cup (db.edit.is.add \ db.edit.is.del)
                 = (L \ db.edit.is.del) \cup db.edit.is.add
<1> DEFINE e == db.edit.is
           T(ts) == InTables(ts, files)
<1>1. CASE db.edit.for = "flush"
  <2>1. e.del = {} /\ T(e.add) = db.imm
    BY <1>1 DEF StoreInv, Editing, Built
  <2>2. T((L \ e.del) \cup e.add) = T(L \ e.del) \cup T(e.add)
    BY InTablesUnion
  <2>3. L \ e.del = L
    BY <2>1
  <2> HIDE DEF e, T
  <2>4. T((L \ e.del) \cup e.add) = T(L) \cup db.imm
    BY <2>1, <2>2, <2>3
  <2>5. (L \ e.del) \cup (e.add \ e.del) = (L \ e.del) \cup e.add
    BY <2>1
  <2> QED
    BY <1>1, <2>4, <2>5 DEF e, T
<1>2. CASE db.edit.for # "flush"
  <2>1. /\ e.add = {db.merge.out} /\ e.del = db.merge.inputs /\ T(e.add) = T(e.del)
        /\ db.merge # None /\ e.del \subseteq db.version
        /\ \A t \in e.del : t < db.merge.out
    BY <1>2 DEF StoreInv, Editing, Built, StoreTypes, Working
  <2>2. db.merge.out \notin e.del
    <3>1. db.merge.out \in Nat
      BY <2>1 DEF StoreInv, StoreTypes, Stores, Merges
    <3> QED
      BY <2>1, <3>1
  <2>3. /\ T((L \ e.del) \cup e.add) = T(L \ e.del) \cup T(e.add)
        /\ T((L \ e.del) \cup e.del) = T(L \ e.del) \cup T(e.del)
        /\ T(L \cup e.del) = T(L) \cup T(e.del)
        /\ T(e.del) \subseteq T(db.version)
    BY <2>1, InTablesUnion
  <2>4. (L \ e.del) \cup e.del = L \cup e.del
    OBVIOUS
  <2>5. T(db.version) \subseteq T(L)
    OBVIOUS
  <2> HIDE DEF e, T
  <2>6. T((L \ e.del) \cup e.add) = T(L)
    BY <2>1, <2>3, <2>4, <2>5
  <2>7. (L \ e.del) \cup (e.add \ e.del) = (L \ e.del) \cup e.add
    BY <2>1, <2>2
  <2> QED
    BY <1>2, <2>6, <2>7 DEF e, T
<1> QED
  BY <1>1, <1>2

(* The edit of a job is added to the manifest.                             *)
LEMMA EditAddedContent ==
    ASSUME DurableStoreAssumption, DurableStoreNone, StoreInv, StoreInv', ContentInv, Orderly,
           UNCHANGED <<disk, dir, earlier, acked, safe>>, Up, db.edit # None,
           files' = Appended(Manifest(db.manifest), db.edit.is),
           db' = [db EXCEPT !.edit.written = TRUE]
    PROVE  ContentInv' /\ Held' = Held
<1> DEFINE e == db.edit.is
           k == db.logfile
           T(ts) == InTables(ts, files)
           R(l) == ReadOf(files[Log(l)])
           new == After(Latest, e)
<1>1. db \in Stores /\ db.edit \in Jobs /\ e \in Edits
  BY DEF StoreInv, StoreTypes, Stores, Jobs
<1>2. /\ db'.edit = [db.edit EXCEPT !.written = TRUE] /\ db'.edit # None
      /\ db'.edit.is = e /\ db'.edit.for = db.edit.for /\ db'.edit.written
      /\ Up' /\ db'.mem = db.mem /\ db'.imm = db.imm /\ db'.logfile = k
      /\ db'.logNumber = db.logNumber /\ db'.version = db.version /\ db'.writer = db.writer
      /\ db'.bgError = db.bgError /\ db'.merge = db.merge
  <2>1. [db.edit EXCEPT !.written = TRUE] # None
    BY <1>1 DEF DurableStoreNone, Jobs
  <2> QED
    BY <1>1, <2>1 DEF Stores, Jobs, Up
<1>3. /\ dir \in Dirs /\ dir.current > 0 /\ dir.current = db.manifest /\ dir' = dir
      /\ k \in Nat /\ db.logNumber \in Nat /\ db.logNumber <= k
      /\ \A t \in db.version : Table(t) \in dir.names
      /\ e.log \in {db.logNumber, k} /\ Latest.log \in {db.logNumber, k}
      /\ (db.edit.for = "flush" => e.log = k) /\ (db.edit.for # "flush" => e.log = db.logNumber)
      /\ \A t \in e.add : Table(t) \in dir.names
      /\ (db.edit.for # "flush" => \A t \in db.merge.inputs : Table(t) \in dir.names)
      /\ FileTypes /\ Named /\ FileTypes' /\ dir.names \subseteq DOMAIN files
  <2>1. dir \in Dirs /\ dir.current > 0 /\ dir.current = db.manifest
        /\ \A t \in db.version : Table(t) \in dir.names
    BY <1>1, ViewsThere DEF StoreInv, Open, Stores, Version
  <2>2. db.edit.for # "flush" => db.merge # None /\ db.merge.inputs \subseteq db.version
    BY DEF StoreInv, StoreTypes, Working
  <2> QED
    BY <1>1, <2>1, <2>2, ViewsThere DEF StoreInv, Open, Stores, Editing, ContentInv, Covered
<1>4. ~Torn(Current(dir).data)
  <2>1. FileOf("manifest", Current(dir))
    BY <1>3, ViewsThere DEF FileTypes, Current, Manifest
  <2> QED
    BY <2>1 DEF FileOf, Orderly
<1>5. /\ Dirs' = Dirs /\ DOMAIN files' = DOMAIN files
      /\ \A f \in DOMAIN files : f # Manifest(db.manifest) => files'[f] = files[f]
      /\ Latest' = new
      /\ \A d \in Dirs : d.current > 0 =>
            \/ Views(d)' \subseteq Views(d)
            \/ /\ d.current = db.manifest /\ (d = dir \/ Journaled)
               /\ Views(d)' \subseteq Views(d) \cup {new}
  <2>1. e \in Edits \cup {Tear} /\ e # Tear
    BY <1>1 DEF DurableStoreNone
  <2> QED
    BY <1>4, <2>1, ManifestAppended
<1>6. \A n : Table(n) # Manifest(db.manifest) /\ Log(n) # Manifest(db.manifest)
  BY DEF Table, Log, Manifest
<1>7. \A ts : InTables(ts, files') = T(ts)
  <2> TAKE ts
  <2>1. ASSUME NEW n PROVE n \in InTables(ts, files') <=> n \in T(ts)
    BY <1>5, <1>6, InTablesAre
  <2> QED
    BY <2>1
<1>8. ASSUME NEW d \in Dirs, NEW l \in Logs(d) PROVE files'[Log(l)] = files[Log(l)]
  BY <1>3, <1>5, <1>6, BatchesOnly
<1>9. /\ new.log = e.log
      /\ T(Latest.tables) \subseteq T(new.tables)
      /\ T(new.tables) \subseteq T(Latest.tables) \cup db.imm
      /\ db.edit.for = "flush" => db.imm \subseteq T(new.tables)
  <2>1. T(db.version) \subseteq T(Latest.tables)
    BY DEF ContentInv, Covered
  <2>2. new.log = e.log
        /\ new.tables = (Latest.tables \ e.del) \cup (e.add \ e.del)
    BY DEF After
  <2>3. /\ T((Latest.tables \ e.del) \cup e.add)
              = IF db.edit.for = "flush" THEN T(Latest.tables) \cup db.imm
                ELSE T(Latest.tables)
        /\ (Latest.tables \ e.del) \cup (e.add \ e.del) = (Latest.tables \ e.del) \cup e.add
    BY <2>1, EditKeeps DEF ContentInv
  <2> HIDE DEF T, e, new
  <2> QED
    BY <2>2, <2>3
<1> HIDE DEF new
<1>10. Logged'
  <2>1. R(k)' = R(k)
    <3>1. k \in Logs(dir)
      BY LogfileIsRead DEF ContentInv
    <3> QED
      BY <1>2, <1>3, <1>8, <3>1 DEF ReadOf, Log
  <2>2. LogsFrom(db.logNumber, dir)' = LogsFrom(db.logNumber, dir)
    BY <1>2 DEF LogsFrom
  <2>3. ASSUME NEW l \in LogsFrom(db.logNumber, dir) \ {k} PROVE R(l)' = R(l)
    <3>1. l \in Logs(dir)
      BY DEF LogsFrom, Logs
    <3>2. files'[Log(l)] = files[Log(l)]
      BY <1>3, <1>8, <3>1
    <3>3. R(l)' = ReadOf(files'[Log(l)])
      BY DEF ReadOf, Log
    <3> QED
      BY <3>2, <3>3
  <2>4. UNION {R(l)' : l \in LogsFrom(db.logNumber, dir) \ {k}}
           = UNION {R(l) : l \in LogsFrom(db.logNumber, dir) \ {k}}
    BY <2>3
  <2>5. Logged /\ Batches' = Batches
    BY DEF ContentInv, Batches
  <2>6. ReadOf(files[Log(db.logfile)])' = R(k)
    BY <1>2, <2>1
  <2> QED
    BY <1>2, <2>2, <2>4, <2>5, <2>6 DEF Logged
<1>11. Covered'
  <2>1. InTables(db.version, files)' = T(db.version)
    <3>1. InTables(db.version, files)' = InTables(db'.version, files')
      BY DEF InTables
    <3>2. InTables(db'.version, files') = T(db.version)
      BY <1>2, <1>7
    <3> QED
      BY <3>1, <3>2
  <2>2. InTables(Latest.tables, files)' = T(new.tables)
    <3>1. InTables(Latest.tables, files)' = InTables(Latest'.tables, files')
      BY DEF InTables
    <3>2. InTables(Latest'.tables, files') = T(new.tables)
      BY <1>5, <1>7
    <3> QED
      BY <3>1, <3>2
  <2>3. e.log = k => db.imm \subseteq T(new.tables)
    <3>1. CASE db.edit.for = "flush"
      BY <1>9, <3>1
    <3>2. CASE db.edit.for # "flush" /\ e.log = k
      <4>1. \A l \in LogsFrom(db.logNumber, dir) \ {k} : l \in Logs(dir) /\ l >= k /\ l # k
        BY <1>3, <3>2 DEF LogsFrom, Logs
      <4>2. \A l \in Logs(dir) : l <= k /\ l \in Nat
        BY <1>3, BatchesOnly DEF StoreInv, Open
      <4>3. LogsFrom(db.logNumber, dir) \ {k} = {}
        BY <1>3, <4>1, <4>2
      <4>4. db.imm = {}
        BY <4>3 DEF ContentInv, Logged
      <4> QED
        BY <4>4
    <3> QED
      BY <3>1, <3>2
  <2>4. ASSUME NEW d \in Dirs', d.current > 0, NEW v \in Views(d)' PROVE v.log <= k
    <3>1. v \in Views(d) \/ v = new
      BY <1>5, <2>4
    <3>2. new.log <= k
      BY <1>3, <1>9
    <3> QED
      BY <1>5, <2>4, <3>1, <3>2 DEF ContentInv, Covered
  <2>5. /\ T(db.version) \subseteq T(Latest.tables)
        /\ T(Latest.tables) \subseteq T(db.version) \cup db.imm
    BY DEF ContentInv, Covered
  <2> HIDE DEF T, e
  <2> QED
    BY <1>2, <1>3, <1>5, <1>9, <2>1, <2>2, <2>3, <2>4, <2>5 DEF Covered
<1>12. Recoverable' = Recoverable
  <2>1. Recoverable = T(db.version) \cup db.imm \cup R(k)
    BY UpRecoverable DEF ContentInv
  <2>2. (StoreInv /\ Logged /\ Covered /\ Up =>
          Recoverable = InTables(db.version, files) \cup db.imm
                          \cup ReadOf(files[Log(db.logfile)]))'
    BY UpRecoverable, PTL
  <2>3. /\ InTables(db.version, files)' = T(db.version)
        /\ ReadOf(files[Log(db.logfile)])' = R(k)
    <3>1. k \in Logs(dir)
      BY LogfileIsRead DEF ContentInv
    <3>2. ReadOf(files[Log(db.logfile)])' = R(k)
      BY <1>2, <1>3, <1>8, <3>1 DEF ReadOf, Log
    <3>3. InTables(db.version, files)' = T(db.version)
      BY <1>2, <1>7 DEF InTables
    <3> QED
      BY <3>2, <3>3
  <2> QED
    BY <1>2, <1>10, <1>11, <2>1, <2>2, <2>3
<1>13. Promised' = Promised
  BY <1>2 DEF Promised, Batches
<1>14. ASSUME NEW d \in Dirs' PROVE LastingAt(d)'
  <2>1. d \in Dirs /\ LastingAt(d) /\ d.names \subseteq DOMAIN files /\ d.current \in Nat
        /\ Logs(d) \subseteq Nat
    BY <1>3, <1>5, ViewsThere, BatchesOnly DEF ContentInv, Lasting, Directories
  <2>2. ASSUME d.current > 0, NEW v \in Views(d)'
        PROVE  Promised' \subseteq SafeIn(d, v)' /\ HeldIn(d, v)' \subseteq Recoverable'
    <3>1. \A n : /\ n \in HeldIn(d, v)' <=> n \in HeldIn(d, v)
                 /\ n \in SafeIn(d, v)' <=> n \in SafeIn(d, v)
      BY <1>7, <1>8, <2>1, HeldAre, HeldWill
    <3>2. CASE v \in Views(d)
      BY <1>12, <1>13, <2>1, <2>2, <3>1, <3>2 DEF LastingAt
    <3>3. CASE v \notin Views(d)
      <4>1. v = new /\ d.current = db.manifest /\ (d = dir \/ Journaled)
        BY <1>5, <2>1, <2>2, <3>3
      <4>2. Latest \in Views(d)
        <5>1. Current(d) = Current(dir)
          BY <1>3, <4>1 DEF Current
        <5>2. Views(d) = Views(dir)
          BY <1>3, <2>1, <5>1, OrderlyViews
        <5> QED
          BY <1>3, <5>2, ViewsThere
      <4>3. Promised \subseteq SafeIn(d, Latest)
        BY <2>1, <2>2, <4>2 DEF LastingAt
      <4>4. \A l \in Logs(d) : l >= db.logNumber =>
               /\ l <= k
               /\ l # k => R(l) \subseteq db.imm
               /\ SyncedOf(files[Log(l)]) \subseteq R(l)
        BY <2>1, UpLogs
      <4>5. Recoverable = T(db.version) \cup db.imm \cup R(k)
        BY UpRecoverable DEF ContentInv
      <4>6. T(Latest.tables) \subseteq T(db.version) \cup db.imm
        BY DEF ContentInv, Covered
      <4> HIDE DEF T, R, e, k
      <4>7. ASSUME NEW n \in HeldIn(d, new) PROVE n \in Recoverable
        <5>1. n \in T(new.tables) \/ \E l \in Logs(d) : l >= e.log /\ n \in R(l)
          BY <1>9, <4>7, HeldAre DEF T, R
        <5>2. CASE n \in T(new.tables)
          BY <1>9, <4>5, <4>6, <5>2
        <5>3. ASSUME NEW l \in Logs(d), l >= e.log, n \in R(l) PROVE n \in Recoverable
          <6>1. l >= db.logNumber
            BY <1>3, <2>1, <5>3
          <6> QED
            BY <2>1, <4>4, <4>5, <5>3, <6>1
        <5> QED
          BY <5>1, <5>2, <5>3
      <4>8. ASSUME NEW n \in SafeIn(d, Latest) PROVE n \in SafeIn(d, new)
        <5> DEFINE old == Latest
        <5>1. n \in T(old.tables) \/ \E l \in Logs(d) : l >= old.log /\ n \in SyncedOf(files[Log(l)])
          BY <4>8, HeldAre DEF T
        <5>2. \/ n \in T(new.tables)
              \/ \E l \in Logs(d) : l >= new.log /\ n \in SyncedOf(files[Log(l)])
          <6>1. CASE n \in T(old.tables)
            BY <1>9, <6>1
          <6>2. ASSUME NEW l \in Logs(d), l >= old.log, n \in SyncedOf(files[Log(l)]), ~(l >= new.log)
                PROVE  n \in T(new.tables)
            <7>1. l >= db.logNumber /\ l # k /\ db.edit.for = "flush"
              BY <1>3, <1>9, <2>1, <6>2
            <7>2. n \in db.imm
              BY <4>4, <6>2, <7>1
            <7> QED
              BY <1>9, <7>1, <7>2
          <6> QED
            BY <5>1, <6>1, <6>2
        <5> HIDE DEF old
        <5> QED
          BY <5>2, HeldAre DEF T
      <4> QED
        BY <1>12, <1>13, <3>1, <4>1, <4>3, <4>7, <4>8
    <3> QED
      BY <3>2, <3>3
  <2>3. \A l \in Logs(d)' : l \in Logs(dir)' \/ l < Least'
    <3>1. Logs(d)' = Logs(d) /\ Logs(dir)' = Logs(dir) /\ Least' = Least
      BY <1>2, <1>3 DEF Logs, Least, Up
    <3> QED
      BY <2>1, <3>1 DEF LastingAt
  <2> QED
    BY <1>13, <2>1, <2>2, <2>3 DEF LastingAt
<1>15. Acked' /\ Held' = Held
  <2>1. Visible' = Visible
    BY <1>2, <1>7 DEF Visible, InTables
  <2>2. Held' = Held
    BY <1>2, <2>1 DEF Held
  <2> QED
    BY <1>2, <1>12, <2>1, <2>2 DEF ContentInv, Acked
<1>16. Built'
  <2>1. InTables(db.edit.is.add, files)' = T(e.add)
    <3>1. InTables(db.edit.is.add, files)' = InTables(db'.edit.is.add, files')
      BY DEF InTables
    <3>2. InTables(db'.edit.is.add, files') = T(e.add)
      BY <1>2, <1>7
    <3> QED
      BY <3>1, <3>2
  <2>2. InTables(db.merge.inputs, files)' = T(db.merge.inputs)
    <3>1. InTables(db.merge.inputs, files)' = InTables(db'.merge.inputs, files')
      BY DEF InTables
    <3>2. InTables(db'.merge.inputs, files') = T(db.merge.inputs)
      BY <1>2, <1>7
    <3> QED
      BY <3>1, <3>2
  <2>3. Latest'.log = e.log
    BY <1>5, <1>9
  <2> QED
    BY <1>2, <2>1, <2>2, <2>3 DEF ContentInv, Built
<1>17. Lasting' /\ Recovered'
  BY <1>2, <1>14 DEF Lasting, Recovered, Up
<1> QED
  BY <1>10, <1>11, <1>15, <1>16, <1>17 DEF ContentInv

(* AddEdit.                                                                *)
LEMMA AddEditContent ==
    ASSUME DurableStoreAssumption, DurableStoreNone, StoreInv, StoreInv', ContentInv, Orderly,
           UNCHANGED disk, AddEdit
    PROVE  ContentInv' /\ Held' = Held
<1>1. /\ Up /\ db.edit # None /\ UNCHANGED <<dir, earlier, acked, safe>>
      /\ "tear" \notin JobFaults
  BY DEF AddEdit, Unchanged, Orderly
<1>2. \/ /\ files' = Appended(Manifest(db.manifest), db.edit.is)
         /\ db' = [db EXCEPT !.edit.written = TRUE]
      \/ EditFails /\ UNCHANGED files
  BY <1>1 DEF AddEdit
<1>3. CASE EditFails /\ UNCHANGED files
  BY <1>1, <1>3, EditFailsContent
<1>4. CASE /\ files' = Appended(Manifest(db.manifest), db.edit.is)
           /\ db' = [db EXCEPT !.edit.written = TRUE]
  BY <1>1, <1>4, EditAddedContent
<1> QED
  BY <1>2, <1>3, <1>4

(* A directory that has what the latest one has, and maybe logs that are   *)
(* not needed any more.                                                    *)
LEMMA InstalledLasts ==
    ASSUME FileTypes', NEW d \in Dirs', NEW e, e = dir', NEW v, Views(d)' = {v},
           d.current = e.current, d.current > 1, e.names \subseteq d.names,
           v.log \in Nat, v.log <= Least', Least' \in Nat,
           \A l \in Nat : Log(l) \in d.names /\ l >= v.log => Log(l) \in e.names,
           Promised' \subseteq SafeIn(e, v)',
           Recoverable' = HeldIn(e, v)'
    PROVE  LastingAt(d)'
<1>1. /\ \A l \in Logs(d) : l \in Nat /\ (l >= v.log => l \in Logs(e))
      /\ Logs(e) \subseteq Logs(d)
  <2>1. d.names \subseteq Files /\ e.names \subseteq Files
    BY DEF FileTypes, Directories, Files, Dirs
  <2> QED
    BY <2>1, NumbersAre DEF Logs
<1>2. SafeIn(e, v)' \subseteq SafeIn(d, v)'
  <2>1. ASSUME NEW n \in SafeIn(e, v)' PROVE n \in SafeIn(d, v)'
    BY <1>1, <2>1, HeldWill
  <2> QED
    BY <2>1
<1>3. HeldIn(d, v)' \subseteq Recoverable'
  <2>1. ASSUME NEW n \in HeldIn(d, v)' PROVE n \in HeldIn(e, v)'
    BY <1>1, <2>1, HeldWill
  <2> QED
    BY <2>1
<1>4. \A l \in Logs(d)' : l \in Logs(dir)' \/ l < Least'
  <2>1. Logs(d)' = Logs(d) /\ Logs(dir)' = Logs(e)
    BY DEF Logs
  <2> QED
    BY <1>1, <2>1
<1>5. ~(d.current <= 1)
  <2>1. d.current \in Nat
    BY DEF FileTypes, Directories
  <2> QED
    BY <2>1
<1>6. \A w \in Views(d)' : Promised' \subseteq SafeIn(d, w)' /\ HeldIn(d, w)' \subseteq Recoverable'
  BY <1>2, <1>3
<1> QED
  BY <1>4, <1>5, <1>6 DEF LastingAt

\* No view leads beyond the numbers of the latest one.
Below ==
    \A d \in Dirs : d.current > 0 => \A v \in Views(d) :
       /\ v \in ViewTypes /\ Fits(d, v) /\ Latest \in ViewTypes
       /\ v.log = 0 \/ v.log < Latest.next

(* So it is in every state.                                                *)
LEMMA ViewsBelow == StoreInv /\ dir.current > 0 => Below
<1> SUFFICES ASSUME StoreInv, dir.current > 0, NEW d \in Dirs, d.current > 0, NEW v \in Views(d)
             PROVE  /\ v \in ViewTypes /\ Fits(d, v) /\ Latest \in ViewTypes
                    /\ v.log = 0 \/ v.log < Latest.next
  BY DEF Below
<1>1. v \in ViewTypes /\ Latest \in ViewTypes
  BY DurableStoreNone, ViewsThere DEF StoreInv
<1>2. Fits(d, v)
  <2>1. d.current # 0
    BY DurableStoreNone, ViewsThere DEF StoreInv, Directories
  <2> QED
    BY <2>1 DEF StoreInv, Named, NamedAt
<1>3. v.next = 0 => v.log = 0
  BY <1>2 DEF Fits
<1>4. v.next > 0 => v.log < v.next
  BY <1>2 DEF Fits
<1>5. v.next <= Latest.next
  BY <1>2 DEF Fits
<1>6. v.log \in Nat /\ v.next \in Nat /\ Latest.next \in Nat
  BY <1>1 DEF ViewTypes
<1>7. v.log = 0 \/ v.log < Latest.next
  BY <1>3, <1>4, <1>5, <1>6
<1> QED
  BY <1>1, <1>2, <1>7

(* SetCurrentFile.                                                         *)
LEMMA SetCurrentFileContent ==
    ASSUME DurableStoreAssumption, DurableStoreNone, StoreInv, StoreInv', ContentInv, Orderly,
           UNCHANGED disk, SetCurrentFile
    PROVE  ContentInv' /\ Held' = Held
<1> DEFINE m == db.manifest
           l == db.logfile
           version == db.version \cup db.found
           up == [db EXCEPT !.phase = "up", !.version = @ \cup db.found, !.found = {},
                            !.logNumber = l, !.edit = None]
           man == files[Manifest(m)]
<1>1. db.phase = "current" /\ UNCHANGED <<acked, safe>>
      /\ Installed(up, m, AfterSync(FALSE), files) /\ db \in Stores
  BY DEF SetCurrentFile, Unchanged, StoreInv, StoreTypes
<1>2. /\ earlier = {} /\ db.left = {} /\ db.nextFile = l + 1 /\ m < l
      /\ Log(l) \in dir.names /\ Manifest(m) \in dir.names /\ files[Log(l)].data = <<>>
      /\ m = Latest.next /\ db.version = Latest.tables
      /\ \A t \in db.found : Table(t) \in dir.names
      /\ \A k \in Logs(dir) : k < db.nextFile
  BY <1>1 DEF StoreInv, Made, Opening
<1>3. /\ m \in Nat /\ l \in Nat /\ dir.current > 0 /\ dir.current < m /\ dir \in Dirs
      /\ dir \in Directories /\ NamedAt(dir) /\ Fits(dir, Latest)
      /\ dir.names \subseteq DOMAIN files /\ dir.names \subseteq Files
      /\ Manifest(dir.current) \in dir.names /\ ~Up /\ dir.current \in Nat
  <2>1. dir.current > 0 /\ dir.current \in Nat /\ Latest.next > 0
        /\ Latest \in Views(dir) /\ dir \in Dirs /\ dir \in Directories
        /\ dir.names \subseteq DOMAIN files /\ dir.names \subseteq Files
        /\ Manifest(dir.current) \in dir.names
    BY <1>1, ViewsThere DEF StoreInv, Named, Directories
  <2>2. NamedAt(dir)
    BY <2>1 DEF StoreInv, Named
  <2> QED
    BY <1>1, <1>2, <2>1, <2>2 DEF Stores, Up, NamedAt
<1>4. db.mem = {} /\ db.imm = {} /\ db.writer = None
  BY <1>3 DEF StoreInv, StoreTypes
<1>5. /\ db' = up /\ dir' = [names |-> Kept(up), current |-> m]
      /\ earlier' \subseteq {dir, [dir EXCEPT !.current = m]} /\ (PowerFails \/ earlier' = {})
      /\ files' = [f \in UNION {e.names : e \in earlier' \cup {dir'}} |-> files[f]]
  BY <1>1, <1>2 DEF Installed, Past, AfterSync
<1>6. /\ Up' /\ db'.mem = {} /\ db'.imm = {} /\ db'.logfile = l /\ db'.logNumber = l
      /\ db'.version = version /\ db'.manifest = m /\ db'.writer = None /\ db'.edit = None
      /\ db'.nextFile = l + 1 /\ ~up.bgError
  <2>1. ~db.bgError
    BY <1>3 DEF StoreInv, StoreTypes
  <2> QED
    BY <1>1, <1>2, <1>4, <1>5, <2>1 DEF Stores, Up
<1>7. Kept(up) \subseteq dir.names
  BY DEF Kept
<1> HIDE DEF up
<1>8. /\ \A d \in Dirs' : \A f \in d.names : f \in DOMAIN files' /\ files'[f] = files[f]
      /\ \A d \in Dirs' : \/ d = dir' /\ d.names = Kept(up) /\ d.current = m
                          \/ d = dir
                          \/ d.names = dir.names /\ d.current = m
  <2>1. \A f \in dir.names : FileOf(f[1], files[f])
    BY <1>3 DEF StoreInv, FileTypes
  <2>2. Manifest(1) \in dir.names => FirstOf(files[Manifest(1)])
    BY <1>3 DEF StoreInv, FileTypes
  <2>3. Kept(up) \in SUBSET dir.names /\ FileTypes
    BY <1>7 DEF StoreInv
  <2> HIDE DEF m
  <2> QED
    BY <1>3, <1>5, <2>1, <2>2, <2>3, InstalledFiles
<1>9. /\ dir' \in Dirs' /\ dir'.names = Kept(up) /\ dir'.current = m
  BY <1>5 DEF Dirs
<1>10. /\ ViewOf(man).tables = version /\ ViewOf(man).log = l /\ ViewOf(man).next = l + 1
       /\ \A a \in BOOLEAN : ViewsOf(man, a) = {ViewOf(man)}
  BY <1>1, <1>2, MadeView
<1>11. Manifest(m) \in dir'.names /\ Log(l) \in dir'.names
  <2>1. dir'.current # 0
    BY <1>3, <1>9
  <2> QED
    BY <1>6, <1>9, <2>1 DEF StoreInv, Open, Named, NamedAt, Manifest, Log
<1> HIDE DEF man, version
<1>12. Latest' = ViewOf(man)
  <2>1. files'[Manifest(m)] = man
    BY <1>8, <1>9, <1>11 DEF man
  <2> QED
    BY <1>9, <2>1 DEF Latest, Current, Manifest
<1>v. PICK v : v = ViewOf(man)
  OBVIOUS
<1>13. ASSUME NEW d \in Dirs', d.current = m PROVE Views(d)' = {v}
  <2>1. Manifest(m) \in d.names
    BY <1>2, <1>8, <1>11, <1>13, <1>3
  <2>2. files'[Manifest(d.current)] = man
    BY <1>8, <1>13, <2>1 DEF man
  <2>3. Views(d)' = ViewsOf(man, (d = dir' \/ Journaled'))
    BY <2>2 DEF Views, Current, Manifest
  <2>4. (d = dir' \/ Journaled') \in BOOLEAN
    OBVIOUS
  <2> HIDE DEF man
  <2> QED
    BY <1>v, <1>10, <2>3, <2>4
<1>14. \A t \in version : /\ Table(t) \in DOMAIN files /\ Table(t) \in DOMAIN files'
                          /\ files'[Table(t)] = files[Table(t)]
  <2>1. \A t \in version : Table(t) \in dir'.names
    <3>1. \A t \in Version(db') : Table(t) \in dir'.names
      BY <1>6 DEF StoreInv, Open, Table, Version
    <3> QED
      BY <1>6, <3>1 DEF Version
  <2> QED
    BY <1>3, <1>7, <1>8, <1>9, <2>1
<1>15. InTables(version, files') = InTables(version, files)
  BY <1>14, InTablesSame
<1>16. Recoverable = InTables(version, files)
  BY <1>1, <1>2 DEF ContentInv, Recovered, version
<1>17. \A k \in Logs(dir) : k \in Nat /\ k <= l
  <2>1. Logs(dir) \subseteq Nat
    BY <1>3, NumbersAre DEF Logs
  <2> QED
    BY <1>2, <1>3, <2>1
<1>18. /\ \A k \in Logs(dir) : k >= l => k = l
       /\ l \in Logs(dir') /\ Logs(dir') \subseteq Logs(dir)
  <2>1. l \in Logs(dir')
    <3>1. dir'.names \subseteq Files
      BY <1>3, <1>7, <1>9
    <3> QED
      BY <1>11, <3>1, NumbersAre DEF Logs
  <2>2. Logs(dir') \subseteq Logs(dir)
    BY <1>7, <1>9 DEF Logs, Numbers
  <2> QED
    BY <1>3, <1>17, <2>1, <2>2
<1>19. ReadOf(files'[Log(l)]) = {} /\ SyncedOf(files'[Log(l)]) = {}
  <2>1. IsLog(files[Log(l)])
    BY <1>2, <1>3 DEF StoreInv, FileTypes, FileOf, Log
  <2>2. files'[Log(l)] = files[Log(l)]
    BY <1>8, <1>9, <1>11
  <2> QED
    BY <1>2, <2>1, <2>2, ReadsAre
<1>20. PICK e : e = dir'
  OBVIOUS
<1>21. HeldIn(e, v)' = Recoverable /\ SafeIn(e, v)' = Recoverable
  <2>1. v.tables = version /\ v.log = l /\ Logs(e) = Logs(dir')
    BY <1>v, <1>10, <1>20
  <2>2. \A k \in Logs(e) : k >= l => k = l
    BY <1>18, <2>1
  <2> HIDE DEF l
  <2>3. ASSUME NEW n PROVE n \in HeldIn(e, v)' <=> n \in Recoverable
    <3>1. n \in HeldIn(e, v)' <=> \/ n \in InTables(v.tables, files')
                                  \/ \E k \in Logs(e) : k >= v.log /\ n \in ReadOf(files'[Log(k)])
      BY HeldWill
    <3> QED
      BY <1>15, <1>16, <1>19, <2>1, <2>2, <3>1
  <2>4. ASSUME NEW n PROVE n \in SafeIn(e, v)' <=> n \in Recoverable
    <3>1. n \in SafeIn(e, v)' <=> \/ n \in InTables(v.tables, files')
                                  \/ \E k \in Logs(e) : k >= v.log /\ n \in SyncedOf(files'[Log(k)])
      BY HeldWill
    <3> QED
      BY <1>15, <1>16, <1>19, <2>1, <2>2, <3>1
  <2> QED
    BY <2>3, <2>4
<1>22. Recoverable' = Recoverable
  <2>1. HeldIn(dir, Latest)' = HeldIn(e, v)'
    BY <1>v, <1>12, <1>20 DEF HeldIn
  <2>2. dir'.current > 0
    BY <1>3, <1>9
  <2>3. Recoverable' = HeldIn(dir, Latest)'
    BY <2>2, RecoverableWill DEF StoreInv
  <2> QED
    BY <1>21, <2>1, <2>3
<1>23. Promised' \subseteq Recoverable
  BY <1>1, <1>6 DEF Promised, ContentInv, Acked
<1>24. Least' = l
  BY <1>6 DEF Least, Up
<1>25. ASSUME NEW d \in Dirs', d.current = m PROVE LastingAt(d)'
  <2>1. d.current > 1 /\ d.current = e.current
    BY <1>3, <1>9, <1>20, <1>25
  <2>2. e.names \subseteq d.names
    BY <1>3, <1>7, <1>8, <1>9, <1>20, <1>25
  <2>3. \A k \in Nat : Log(k) \in d.names /\ k >= l => Log(k) \in e.names
    <3>1. d.names \subseteq dir.names
      BY <1>7, <1>8
    <3>2. \A k \in Nat : Log(k) \in d.names /\ k >= l => k = l
      BY <1>3, <1>18, <3>1, NumbersAre DEF Logs
    <3> QED
      BY <1>11, <1>20, <3>2
  <2>4. v.log = l
    BY <1>v, <1>10
  <2> HIDE DEF l
  <2>5. FileTypes' /\ Views(d)' = {v} /\ v.log \in Nat /\ v.log <= Least' /\ Least' \in Nat
    BY <1>3, <1>13, <1>24, <1>25, <2>4 DEF StoreInv
  <2>6. Promised' \subseteq SafeIn(e, v)' /\ Recoverable' = HeldIn(e, v)'
    BY <1>21, <1>22, <1>23
  <2> QED
    BY <1>20, <2>1, <2>2, <2>3, <2>4, <2>5, <2>6, InstalledLasts
<1>26. ASSUME NEW d \in Dirs', d = dir PROVE LastingAt(d)'
  <2>1. d \in Dirs /\ LastingAt(d) /\ d.current # m /\ d.current > 0
    BY <1>3, <1>26 DEF ContentInv, Lasting
  <2>2. \A f \in d.names : f \in DOMAIN files /\ f \in DOMAIN files' /\ files'[f] = files[f]
    BY <1>3, <1>8, <1>26
  <2>3. Spares(d, d)
    <3>1. Manifest(d.current) \in d.names /\ \A k \in Logs(d) : Log(k) \in d.names
      BY <1>3, <1>26, NumbersAre DEF Logs
    <3>2. \A w \in Views(d) : \A t \in w.tables : Table(t) \in d.names
      BY <1>3, <1>26, <2>1 DEF NamedAt, Fits
    <3> QED
      BY <2>2, <3>1, <3>2 DEF Spares
  <2>4. Keeps(d, d)
    BY <2>1, <2>3, SparesKeeps DEF StoreInv
  <2>5. \A k \in Logs(d) : k \in Logs(dir)' \/ k < Least'
    <3>1. Logs(dir)' = Logs(dir')
      BY DEF Logs
    <3>2. \A k \in Logs(d) : k = l \/ k < l
      BY <1>3, <1>17, <1>26
    <3> QED
      BY <1>18, <1>24, <3>1, <3>2
  <2>6. Promised' \subseteq Promised
    BY <1>1, <1>6 DEF Promised
  <2> QED
    BY <1>22, <2>1, <2>4, <2>5, <2>6, LastsFrom
<1>27. Lasting'
  BY <1>8, <1>25, <1>26 DEF Lasting
<1>28. Acked' /\ Held' = Held
  <2>1. Visible' = Recoverable
    <3>1. InTables(db.version, files)' = InTables(version, files')
      BY <1>6 DEF InTables
    <3> QED
      BY <1>6, <1>15, <1>16, <3>1 DEF Visible
  <2>2. Held' = Held
    BY <1>1, <1>2, <1>3, <1>6, <1>22, <2>1 DEF Held
  <2> QED
    BY <1>1, <1>22, <2>1, <2>2 DEF ContentInv, Acked
<1>29. Logged'
  <2>1. ReadOf(files[Log(db.logfile)])' = {}
    BY <1>6, <1>19 DEF ReadOf, Log
  <2>2. LogsFrom(db.logNumber, dir)' \ {l} = {}
    <3>1. \A k \in LogsFrom(db.logNumber, dir)' : k \in Logs(dir') /\ k >= l
      BY <1>6 DEF LogsFrom, Logs
    <3> QED
      BY <1>18, <3>1
  <2>3. UNION {ReadOf(files[Log(k)])' : k \in LogsFrom(db.logNumber, dir)' \ {l}} = {}
    BY <2>2
  <2> QED
    BY <1>6, <2>1, <2>3 DEF Logged
<1>30. Built'
  BY <1>6 DEF Built
<1>31. Covered'
  <2>1. ASSUME NEW d \in Dirs', d.current > 0, NEW w \in Views(d)' PROVE w.log <= l
    <3>1. (StoreInv /\ dir.current > 0 => Below)'
      BY ViewsBelow, PTL
    <3>2. w \in ViewTypes /\ (w.log = 0 \/ w.log < Latest'.next)
      BY <1>3, <1>9, <2>1, <3>1 DEF Below, ViewTypes
    <3> QED
      BY <1>3, <1>10, <1>12, <3>2 DEF ViewTypes
  <2>2. Latest'.log = l /\ Latest'.tables = version
    BY <1>10, <1>12
  <2>3. InTables(Latest.tables, files)' = InTables(db.version, files)'
    BY <1>6, <2>2
  <2> QED
    BY <1>6, <2>1, <2>2, <2>3 DEF Covered
<1>32. Recovered'
  BY <1>6 DEF Recovered, Up
<1> QED
  BY <1>27, <1>28, <1>29, <1>30, <1>31, <1>32 DEF ContentInv

(* LogAndApply, when the version is installed.                             *)
LEMMA VersionInstalledContent ==
    ASSUME DurableStoreAssumption, DurableStoreNone, StoreInv, StoreInv', ContentInv, Orderly,
           Up, UNCHANGED <<disk, acked, safe>>, db.edit # None, db.edit.written,
           NEW done,
           done = [Over(db) EXCEPT !.version = (@ \ db.edit.is.del) \cup db.edit.is.add,
                                   !.logNumber = db.edit.is.log,
                                   !.imm = IF db.edit.for = "flush" THEN {} ELSE @],
           Installed(done, dir.current, AfterSync(TRUE), Synced(Manifest(db.manifest), files))
    PROVE  ContentInv' /\ Held' = Held
<1> DEFINE m == db.manifest
           l == db.logfile
           e == db.edit.is
           fs == Synced(Manifest(m), files)
           version == (db.version \ e.del) \cup e.add
           imm == IF db.edit.for = "flush" THEN {} ELSE db.imm
           T(ts) == InTables(ts, files)
           R(k) == ReadOf(files[Log(k)])
<1>1. /\ db \in Stores /\ e \in Edits /\ dir.current > 0 /\ dir \in Dirs /\ dir.current = m
      /\ Latest \in ViewTypes /\ m \in Nat /\ l \in Nat /\ dir \in Directories
      /\ dir.names \subseteq DOMAIN files /\ dir.names \subseteq Files
      /\ Manifest(m) \in dir.names /\ IsManifest(files[Manifest(m)]) /\ 1 < m
      /\ e.log \in Nat /\ Log(l) \in dir.names /\ \A k \in Logs(dir) : k <= l /\ k \in Nat
  <2>1. db \in Stores /\ dir.current > 0 /\ dir.current = m /\ 1 < m /\ Log(l) \in dir.names
        /\ \A k \in Logs(dir) : k <= l
    BY ViewsThere DEF StoreInv, StoreTypes, Open, Directories
  <2>2. e \in Edits
    BY <2>1 DEF Stores, Jobs
  <2>3. Manifest(m) \in dir.names /\ IsManifest(files[Manifest(m)])
    BY <2>1, ViewsThere DEF StoreInv, Current
  <2>4. e.log \in Nat
    BY <2>2 DEF Edits
  <2>5. Logs(dir) \subseteq Nat
    BY ViewsThere, NumbersAre DEF StoreInv, Logs
  <2> QED
    BY <2>1, <2>2, <2>3, <2>4, <2>5, ViewsThere DEF StoreInv, Stores
<1>2. /\ db.edit.for = "flush" => e.log = l
      /\ db.edit.for # "flush" => e.log = db.logNumber
  BY DEF StoreInv, Editing
<1>3. /\ Up' /\ db'.mem = db.mem /\ db'.imm = imm /\ db'.logfile = l /\ db'.logNumber = e.log
      /\ db'.version = version /\ db'.writer = db.writer /\ db'.edit = None
      /\ db'.bgError = db.bgError
      /\ done.bgError = db.bgError /\ done.logNumber = e.log
  <2>1. db' = done
    BY DEF Installed
  <2>2. done = WithVersion(Over(db), version, e.log, imm)
    BY <1>1, OverAre DEF WithVersion
  <2>3. Over(db) \in Stores /\ version \in SUBSET Nat /\ imm \in SUBSET Batches /\ e.log \in Nat
    BY <1>1, OverAre DEF Stores, Edits
  <2> HIDE DEF e, version, imm
  <2>4. /\ done.phase = "up" /\ done.mem = db.mem /\ done.imm = imm /\ done.logfile = l
        /\ done.logNumber = e.log /\ done.version = version /\ done.writer = db.writer
        /\ done.edit = None /\ done.bgError = db.bgError
    <3>1. /\ done.imm = imm /\ done.logNumber = e.log /\ done.version = version
          /\ done.phase = Over(db).phase /\ done.mem = Over(db).mem
          /\ done.logfile = Over(db).logfile /\ done.writer = Over(db).writer
          /\ done.edit = Over(db).edit /\ done.bgError = Over(db).bgError
      <4>1. /\ Over(db) \in Stores /\ version \in SUBSET Nat /\ e.log \in Nat
            /\ imm \in SUBSET Batches /\ done = WithVersion(Over(db), version, e.log, imm)
        BY <2>2, <2>3
      <4> QED
        BY ONLY <4>1, InstalledAre
    <3>2. /\ Over(db).phase = db.phase /\ Over(db).mem = db.mem
          /\ Over(db).logfile = db.logfile /\ Over(db).writer = db.writer
          /\ Over(db).edit = None /\ Over(db).bgError = db.bgError
      BY <1>1, OverAre
    <3>3. db.phase = "up"
      BY DEF Up
    <3> QED
      BY <3>1, <3>2, <3>3
  <2> QED
    BY <2>1, <2>4 DEF Up
<1>4. /\ dir' = [names |-> Kept(done), current |-> m] /\ Kept(done) \subseteq dir.names
      /\ Dirs' \subseteq {dir, dir'} /\ dir' \in Dirs'
      /\ \A d \in Dirs' : \A f \in d.names : f \in DOMAIN files' /\ files'[f] = fs[f]
  <2>1. [dir EXCEPT !.current = m] = dir
    BY <1>1 DEF Directories
  <2>2. earlier' \subseteq {dir} /\ dir' = [names |-> Kept(done), current |-> m]
        /\ files' = [f \in UNION {d.names : d \in earlier' \cup {dir'}} |-> fs[f]]
    BY <1>1, <2>1 DEF Installed, Past, AfterSync
  <2>3. Kept(done) \subseteq dir.names
    BY DEF Kept
  <2> HIDE DEF fs
  <2>4. Dirs' = earlier' \cup {dir'}
    BY DEF Dirs
  <2>5. \A d \in Dirs' : \A f \in d.names : f \in DOMAIN files' /\ files'[f] = fs[f]
    BY <2>2, <2>4
  <2> QED
    BY <2>2, <2>3, <2>4, <2>5
<1>5. /\ \A d \in Dirs' : d.current = m /\ Kept(done) \subseteq d.names /\ d.names \subseteq dir.names
      /\ \A k : k >= e.log /\ Log(k) \in dir.names => Log(k) \in Kept(done)
      /\ Manifest(m) \in Kept(done)
  <2>1. Manifest(m) \in Kept(done)
    <3>1. dir'.current # 0 /\ dir'.current = m /\ dir'.names = Kept(done)
      BY <1>1, <1>4
    <3> QED
      BY <1>4, <3>1 DEF StoreInv, Named, NamedAt, Manifest
  <2>2. ASSUME NEW k, k >= e.log, Log(k) \in dir.names PROVE Log(k) \in Kept(done)
    <3>1. Log(k)[1] = "log" /\ Log(k)[2] = k
      BY DEF Log
    <3>2. CASE done.bgError
      BY <2>2, <3>2 DEF Kept
    <3>3. CASE ~done.bgError
      BY <1>3, <2>2, <3>1, <3>3 DEF Kept
    <3> QED
      BY <3>2, <3>3
  <2> QED
    BY <1>1, <1>4, <2>1, <2>2
<1> DEFINE man == files[Manifest(m)]
           h == [data |-> man.data, synced |-> Len(man.data)]
<1>6. /\ fs[Manifest(m)] = h
      /\ \A f \in dir.names : f # Manifest(m) => fs[f] = files[f]
  BY <1>1, SyncedIs DEF StoreInv
<1>7. ViewOf(h) = Latest /\ \A a \in BOOLEAN : ViewsOf(h, a) = {Latest}
  <2>1. IsManifest(h)
    BY <1>1 DEF IsManifest
  <2>2. h.data = Current(dir).data /\ h.synced = Len(h.data)
    BY <1>1 DEF Current
  <2> HIDE DEF h
  <2>3. ViewOf(h) = Latest
    BY <2>2 DEF ViewOf, Latest
  <2> QED
    BY <2>1, <2>2, <2>3, ViewsAre
<1> HIDE DEF fs, h, version, imm, man
<1>v. PICK v, c : v = Latest /\ c = dir'
  OBVIOUS
<1>8. Latest' = v /\ \A d \in Dirs' : Views(d)' = {v}
  <2>1. ASSUME NEW d \in Dirs' PROVE Views(d)' = {v}
    <3>1. files'[Manifest(d.current)] = h
      BY <1>4, <1>5, <1>6, <2>1
    <3>2. Views(d)' = ViewsOf(h, (d = dir' \/ Journaled'))
      BY <3>1 DEF Views, Current, Manifest
    <3>3. (d = dir' \/ Journaled') \in BOOLEAN
      OBVIOUS
    <3> QED
      BY <1>v, <1>7, <3>2, <3>3
  <2>2. files'[Manifest(dir'.current)] = h
    BY <1>4, <1>5, <1>6
  <2> QED
    BY <1>v, <1>7, <2>1, <2>2 DEF Latest, Current, Manifest
<1>9. v.log = e.log /\ v.log \in Nat
  BY <1>v, <1>1 DEF ContentInv, Built
<1>10. \A f \in dir'.names : f \in DOMAIN files /\ f \in DOMAIN files'
                             /\ (f # Manifest(m) => files'[f] = files[f])
  BY <1>1, <1>4, <1>6
<1>11. \A ts : (\A t \in ts : Table(t) \in dir'.names) => InTables(ts, files') = T(ts)
  <2> TAKE ts
  <2> HAVE \A t \in ts : Table(t) \in dir'.names
  <2>1. \A t : Table(t) # Manifest(m)
    BY DEF Table, Manifest
  <2> QED
    BY <1>10, <2>1, InTablesSame
<1>12. InTables(v.tables, files') = T(v.tables) /\ InTables(version, files') = T(version)
  <2>1. \A t \in v.tables : Table(t) \in dir'.names
    <3>1. Fits(dir, Latest)'
      BY <1>1, <1>4, <1>8 DEF StoreInv, Named, NamedAt
    <3> QED
      BY <1>8, <3>1 DEF Fits, Table
  <2>2. \A t \in version : Table(t) \in dir'.names
    <3>1. \A t \in Version(db') : Table(t) \in dir'.names
      BY <1>3 DEF StoreInv, Open, Table, Version
    <3> QED
      BY <1>3, <3>1 DEF Version
  <2> HIDE DEF T
  <2> QED
    BY <1>11, <2>1, <2>2
<1>13. /\ Logs(c) \subseteq Logs(dir) /\ \A k \in Logs(dir) : k >= e.log => k \in Logs(c)
       /\ \A k \in Logs(c) : files'[Log(k)] = files[Log(k)]
       /\ \A k : LogsFrom(k, dir)' = LogsFrom(k, c) /\ l \in Logs(c)
  <2>1. c.names = Kept(done) /\ c.names \subseteq Files
    BY <1>v, <1>1, <1>4
  <2>2. Logs(c) \subseteq Logs(dir)
    BY <1>4, <2>1 DEF Logs, Numbers
  <2>3. \A k \in Logs(dir) : k >= e.log => k \in Logs(c)
    BY <1>1, <1>5, <2>1, NumbersAre DEF Logs
  <2>4. \A k \in Logs(c) : files'[Log(k)] = files[Log(k)]
    <3>1. \A k : Log(k) # Manifest(m)
      BY DEF Log, Manifest
    <3> QED
      BY <1>v, <1>10, <2>1, <3>1, NumbersAre DEF Logs
  <2>5. \A k : LogsFrom(k, dir)' = LogsFrom(k, c)
    BY <1>v DEF LogsFrom
  <2>6. l \in Logs(c)
    <3>1. Log(l) \in dir'.names
      BY <1>3 DEF StoreInv, Open, Log
    <3> QED
      BY <1>v, <2>1, <3>1, NumbersAre DEF Logs
  <2> QED
    BY <2>2, <2>3, <2>4, <2>5, <2>6
<1>14. HeldIn(c, v)' = HeldIn(dir, v) /\ SafeIn(c, v)' = SafeIn(dir, v)
  <2>1. ASSUME NEW n PROVE n \in HeldIn(c, v)' <=> n \in HeldIn(dir, v)
    <3>1. n \in HeldIn(c, v)' <=> \/ n \in InTables(v.tables, files')
                                  \/ \E k \in Logs(c) : k >= v.log /\ n \in ReadOf(files'[Log(k)])
      BY HeldWill
    <3>2. n \in HeldIn(dir, v) <=> \/ n \in InTables(v.tables, files)
                                   \/ \E k \in Logs(dir) : k >= v.log /\ n \in ReadOf(files[Log(k)])
      BY HeldAre
    <3> QED
      BY <1>9, <1>12, <1>13, <3>1, <3>2
  <2>2. ASSUME NEW n PROVE n \in SafeIn(c, v)' <=> n \in SafeIn(dir, v)
    <3>1. n \in SafeIn(c, v)' <=> \/ n \in InTables(v.tables, files')
                                  \/ \E k \in Logs(c) : k >= v.log /\ n \in SyncedOf(files'[Log(k)])
      BY HeldWill
    <3>2. n \in SafeIn(dir, v) <=> \/ n \in InTables(v.tables, files)
                                   \/ \E k \in Logs(dir) : k >= v.log /\ n \in SyncedOf(files[Log(k)])
      BY HeldAre
    <3> QED
      BY <1>9, <1>12, <1>13, <3>1, <3>2
  <2> QED
    BY <2>1, <2>2
<1>15. Recoverable = HeldIn(dir, v) /\ Recoverable' = HeldIn(c, v)'
  <2>1. Recoverable = HeldIn(dir, v)
    BY <1>v, <1>1, RecoverableIs DEF StoreInv
  <2>2. dir'.current > 0
    BY <1>1, <1>4
  <2>3. Recoverable' = HeldIn(dir, Latest)'
    BY <2>2, RecoverableWill DEF StoreInv
  <2>4. HeldIn(dir, Latest)' = HeldIn(c, v)'
    BY <1>v, <1>8 DEF HeldIn
  <2> QED
    BY <2>1, <2>3, <2>4
<1>16. Promised' = Promised /\ Promised \subseteq SafeIn(dir, v)
  <2>1. Promised' = Promised
    BY <1>3 DEF Promised, Batches
  <2>2. v \in Views(dir)
    BY <1>v, <1>1, ViewsThere DEF StoreInv
  <2> QED
    BY <1>1, <2>1, <2>2 DEF ContentInv, Lasting, LastingAt
<1>17. ASSUME NEW d \in Dirs' PROVE LastingAt(d)'
  <2>1. Views(d)' = {v} /\ d.current = c.current /\ d.current > 1 /\ c.names \subseteq d.names
    BY <1>v, <1>1, <1>4, <1>5, <1>8
  <2>2. Least' = v.log
    BY <1>3, <1>9 DEF Least, Up
  <2>3. \A k \in Nat : Log(k) \in d.names /\ k >= v.log => Log(k) \in c.names
    BY <1>v, <1>4, <1>5, <1>9
  <2>4. FileTypes' /\ v.log <= Least' /\ Least' \in Nat /\ c = dir'
        /\ Promised' \subseteq SafeIn(c, v)' /\ Recoverable' = HeldIn(c, v)'
    BY <1>v, <1>9, <1>14, <1>15, <1>16, <2>2 DEF StoreInv
  <2> QED
    BY <1>9, <2>1, <2>3, <2>4, InstalledLasts
<1>18. /\ T(version) = IF db.edit.for = "flush" THEN T(db.version) \cup db.imm ELSE T(db.version)
  BY EditKeeps DEF ContentInv, version
<1>19. InTables(db.version, files)' = T(version) /\ InTables(Latest.tables, files)' = T(v.tables)
  BY <1>3, <1>8, <1>12 DEF InTables
<1>20. Acked' /\ Held' = Held
  <2>1. Visible' = Visible
    BY <1>3, <1>18, <1>19 DEF Visible, imm
  <2>2. Held' = Held
    BY <1>3, <2>1 DEF Held
  <2> QED
    BY <1>3, <1>14, <1>15, <2>1, <2>2 DEF ContentInv, Acked
<1>21. Logged'
  <2>1. ReadOf(files[Log(db.logfile)])' = R(l)
    BY <1>3, <1>13 DEF ReadOf, Log
  <2>2. /\ IF db.writer # None
           THEN db.writer.status # "error" /\ R(l) = db.mem \cup {db.writer.n}
           ELSE \/ R(l) = db.mem
                \/ db.bgError /\ \E x \in Batches : R(l) = db.mem \cup {x}
        /\ db.imm = UNION {R(k) : k \in LogsFrom(db.logNumber, dir) \ {l}}
        /\ db.imm = {} => db.logNumber = l
    BY DEF ContentInv, Logged
  <2>3. \A k \in Logs(c) : ReadOf(files[Log(k)])' = R(k)
    BY <1>13 DEF ReadOf, Log
  <2>4. UNION {ReadOf(files[Log(k)]) : k \in LogsFrom(db.logNumber, dir) \ {db.logfile}}' = imm
    <3>1. UNION {ReadOf(files[Log(k)]) : k \in LogsFrom(db.logNumber, dir) \ {db.logfile}}'
             = UNION {R(k) : k \in LogsFrom(e.log, c) \ {l}}
      <4>1. LogsFrom(db.logNumber, dir)' = LogsFrom(e.log, c)
        BY <1>v, <1>3 DEF LogsFrom
      <4>2. \A k \in LogsFrom(e.log, c) : ReadOf(files[Log(k)])' = R(k)
        BY <2>3 DEF LogsFrom, Logs
      <4> QED
        BY <1>3, <4>1, <4>2
    <3>2. CASE db.edit.for = "flush"
      <4>1. \A k \in LogsFrom(e.log, c) : k = l
        BY <1>1, <1>2, <1>13, <3>2 DEF LogsFrom, Logs
      <4>2. UNION {R(k) : k \in LogsFrom(e.log, c) \ {l}} = {}
        BY <4>1
      <4> QED
        BY <3>1, <3>2, <4>2 DEF imm
    <3>3. CASE db.edit.for # "flush"
      <4>1. LogsFrom(e.log, c) = LogsFrom(db.logNumber, dir)
        BY <1>2, <1>13, <3>3 DEF LogsFrom, Logs
      <4> QED
        BY <2>2, <3>1, <3>3, <4>1 DEF imm
    <3> QED
      BY <3>2, <3>3
  <2>5. imm = {} => e.log = l
    BY <1>2, <2>2 DEF imm
  <2>6. Batches' = Batches
    BY DEF Batches
  <2> QED
    BY <1>3, <2>1, <2>2, <2>4, <2>5, <2>6 DEF Logged
<1>22. Covered'
  <2>1. ASSUME NEW d \in Dirs', NEW w \in Views(d)' PROVE w.log <= l
    <3>1. w = Latest /\ Latest \in Views(dir)
      BY <1>v, <1>1, <1>8, <2>1, ViewsThere DEF StoreInv
    <3> QED
      BY <1>1, <3>1 DEF ContentInv, Covered
  <2>2. /\ T(db.version) \subseteq T(v.tables) /\ T(v.tables) \subseteq T(db.version) \cup db.imm
        /\ v.log = l => db.imm \subseteq T(v.tables)
    BY <1>v DEF ContentInv, Covered
  <2> HIDE DEF T
  <2>3. T(version) \subseteq T(v.tables) /\ T(v.tables) \subseteq T(version) \cup imm
        /\ (v.log = l => imm \subseteq T(v.tables))
    BY <1>2, <1>9, <1>18, <2>2 DEF imm
  <2>4. Latest'.log = e.log
    BY <1>8, <1>9
  <2> QED
    BY <1>3, <1>8, <1>9, <1>19, <2>1, <2>3, <2>4 DEF Covered
<1>23. Recovered' /\ Built'
  BY <1>3 DEF Recovered, Built, Up
<1> QED
  BY <1>17, <1>20, <1>21, <1>22, <1>23 DEF ContentInv, Lasting

(* LogAndApply.                                                            *)
LEMMA LogAndApplyContent ==
    ASSUME DurableStoreAssumption, DurableStoreNone, StoreInv, StoreInv', ContentInv, Orderly,
           UNCHANGED disk, LogAndApply
    PROVE  ContentInv' /\ Held' = Held
<1> DEFINE done == [Over(db) EXCEPT !.version = (@ \ db.edit.is.del) \cup db.edit.is.add,
                                    !.logNumber = db.edit.is.log,
                                    !.imm = IF db.edit.for = "flush" THEN {} ELSE @]
           fs == Synced(Manifest(db.manifest), files)
<1>1. /\ Up /\ db.edit # None /\ db.edit.written /\ UNCHANGED <<acked, safe>>
      /\ \/ Installed(done, dir.current, AfterSync(TRUE), fs)
         \/ EditFails /\ UNCHANGED <<files, dir, earlier>>
  BY DEF LogAndApply, Unchanged
<1>2. CASE Installed(done, dir.current, AfterSync(TRUE), fs)
  BY <1>1, <1>2, VersionInstalledContent
<1>3. CASE EditFails /\ UNCHANGED <<files, dir, earlier>>
  BY <1>1, <1>3, EditFailsContent
<1> QED
  BY <1>1, <1>2, <1>3

\* A store in which nothing has been kept yet: no directory has more than the first manifest.
Empty ==
    /\ db.phase = "closed" /\ acked = {} /\ safe = {}
    /\ \A d \in Dirs : d.names \subseteq {Manifest(1)}

(* Nothing is kept in it.                                                  *)
LEMMA EmptyContent == StoreInv /\ Empty => ContentInv /\ Held = {}
<1> SUFFICES ASSUME StoreInv, Empty PROVE ContentInv /\ Held = {}
  OBVIOUS
<1>1. db = Closed /\ ~Up /\ db.writer = None
  BY DEF StoreInv, StoreTypes, Empty, Closed, Up
<1>2. \A n : Table(n) # Manifest(1) /\ Log(n) # Manifest(1)
  BY DEF Table, Log, Manifest
<1>3. ASSUME NEW d \in Dirs PROVE Logs(d) = {}
  BY DEF Empty, Logs, Numbers, Manifest
<1>4. ASSUME NEW d \in Dirs, d.current > 0, NEW v \in Views(d) PROVE HeldIn(d, v) = {}
  <2>1. v.tables = {}
    <3>1. d.current # 0
      BY <1>4, DurableStoreNone, ViewsThere DEF StoreInv, Directories
    <3>2. Fits(d, v)
      BY <1>4, <3>1 DEF StoreInv, Named, NamedAt
    <3> QED
      BY <1>2, <1>4, <3>2 DEF Fits, Empty
  <2>2. ASSUME NEW n PROVE n \notin HeldIn(d, v)
    BY <1>3, <2>1, HeldAre, InTablesUnion
  <2> QED
    BY <2>2
<1>5. Recoverable = {}
  <2>1. dir \in Dirs /\ dir.current \in Nat
    BY DurableStoreNone, ViewsThere DEF StoreInv, Directories
  <2>2. dir.current > 0 => Latest \in Views(dir) /\ Recoverable = HeldIn(dir, Latest)
    BY DurableStoreNone, ViewsThere, RecoverableIs DEF StoreInv
  <2>3. dir.current = 0 => Recoverable = {}
    BY DurableStoreNone, RecoverableIs DEF StoreInv
  <2> QED
    BY <1>4, <2>1, <2>2, <2>3
<1>6. Promised = {}
  BY <1>1 DEF Promised, Empty
<1>7. Lasting
  BY <1>3, <1>4, <1>6 DEF Lasting, LastingAt
<1> QED
  BY <1>1, <1>5, <1>7 DEF ContentInv, Acked, Recovered, Logged, Built, Covered, Empty, Held, Up

(* Init.                                                                   *)
LEMMA InitContent ==
    ASSUME StoreInv, Init
    PROVE  ContentInv /\ Held = {}
<1>1. Empty
  BY DEF Init, Closed, Empty, Dirs
<1> QED
  BY <1>1, EmptyContent

(* NewDB.                                                                  *)
LEMMA NewDBContent ==
    ASSUME DurableStoreAssumption, DurableStoreNone, StoreInv, StoreInv', ContentInv, NewDB
    PROVE  ContentInv' /\ Held' = Held /\ Held = {} /\ Empty'
<1> DEFINE f == Manifest(1)
           named == [dir EXCEPT !.names = @ \cup {f}]
<1>1. /\ db.phase = "closed" /\ dir.current = 0 /\ dir' = [named EXCEPT !.current = 1]
      /\ Past((IF Journaled THEN {} ELSE earlier \cup {dir}) \cup {named})
      /\ UNCHANGED <<db, acked, safe>>
  BY DEF NewDB, Unchanged
<1>2. earlier = {} /\ dir \in Directories /\ dir.names \subseteq {f}
  BY <1>1, ViewsThere DEF StoreInv, Named, NamedAt
<1>3. named.names = {f} /\ dir'.names = {f}
  BY <1>1, <1>2 DEF Directories
<1> HIDE DEF named
<1>4. earlier' \subseteq {dir, named}
  BY <1>1, <1>2 DEF Past
<1>5. \A d \in Dirs' : d.names \subseteq {f}
  BY <1>2, <1>3, <1>4 DEF Dirs
<1>6. Recoverable = {} /\ Held = {}
  <2>1. Recoverable = {}
    BY <1>1, RecoverableIs DEF StoreInv
  <2> QED
    BY <1>1, <2>1 DEF Held, Up
<1>7. Empty'
  BY <1>1, <1>5, <1>6 DEF Empty, ContentInv, Acked, Manifest
<1>8. (StoreInv /\ Empty => ContentInv /\ Held = {})'
  BY EmptyContent, PTL
<1> QED
  BY <1>6, <1>7, <1>8

(* PurgeDatabase: only a store that promised nothing is removed.           *)
LEMMA PurgeDatabaseContent ==
    ASSUME DurableStoreNone, StoreInv, StoreInv', ContentInv, Orderly, PurgeDatabase
    PROVE  ContentInv' /\ Held' = {} /\ safe' = {} /\ safe = {} /\ Empty'
<1>1. /\ db.phase = "closed" /\ dir.current # 0 /\ Corrupt(files, dir) /\ db' = db
      /\ dir' = [names |-> {}, current |-> 0] /\ earlier' = {} /\ acked' = {} /\ safe' = {}
  BY DEF PurgeDatabase
<1>2. safe = {}
  <2>1. Openable
    BY InvOpens DEF StoreOpens, Orderly
  <2>2. dir.current <= 1 /\ dir \in Dirs
    BY <1>1, <2>1, ViewsThere DEF Openable, StoreInv, Directories
  <2>3. Promised = {}
    BY <2>2 DEF ContentInv, Lasting, LastingAt
  <2> QED
    BY <2>3 DEF Promised
<1>3. Empty'
  BY <1>1 DEF Empty, Dirs
<1>4. (StoreInv /\ Empty => ContentInv /\ Held = {})'
  BY EmptyContent, PTL
<1> QED
  BY <1>1, <1>2, <1>3, <1>4

(* MachineStops: of each log that is left a part is, and with it what was  *)
(* synced.                                                                 *)
LEMMA CutReads ==
    ASSUME DurableStoreAssumption, DurableStoreNone, StoreInv, Orderly, UNCHANGED disk,
           NEW d \in Dirs, Stopped(d), NEW l \in Logs(d)
    PROVE  /\ SyncedOf(files[Log(l)]) \subseteq ReadOf(files'[Log(l)])
           /\ SyncedOf(files'[Log(l)]) = ReadOf(files'[Log(l)])
           /\ ReadOf(files'[Log(l)]) \subseteq ReadOf(files[Log(l)])
<1> DEFINE g == files[Log(l)]
           h == files'[Log(l)]
<1>1. Log(l) \in d.names /\ Log(l) \in DOMAIN files
  BY StoppedIs, NumbersAre DEF Logs
<1>2. FileOf("log", g)
  BY <1>1 DEF StoreInv, FileTypes, Log
<1>3. IsLog(g) /\ ~Torn(g.data)
  BY <1>2 DEF FileOf, Orderly
<1>4. PICK k : /\ k \in g.synced .. Len(g.data)
               /\ h = [data |-> SubSeq(g.data, 1, k), synced |-> k]
  BY <1>1 DEF Stopped, IsCut
<1> HIDE DEF g, h
<1>5. /\ ReadOf(h) \subseteq ReadOf(g)
      /\ SyncedOf(g) \subseteq SyncedOf(h) /\ SyncedOf(h) = ReadOf(h)
  BY <1>3, <1>4, ReadsCut
<1> QED
  BY <1>5 DEF g, h

(* MachineStops.                                                           *)
LEMMA MachineStopsContent ==
    ASSUME DurableStoreAssumption, DurableStoreNone, StoreInv, StoreInv', ContentInv, Orderly,
           UNCHANGED disk, MachineStops
    PROVE  /\ ContentInv' /\ safe' = safe /\ safe \subseteq Held'
           /\ Held' \subseteq Recoverable
<1>1. PICK d \in Dirs :
         /\ Stopped(d) /\ dir' = d /\ db' = Closed /\ safe' = safe
         /\ acked' = safe \cup (acked \cap Content')
  BY MachineStopped DEF Stopped
<1>2. /\ Dirs' = {d} /\ d \in Directories /\ d.names \subseteq Files /\ d.current \in Nat
      /\ NamedAt(d) /\ LastingAt(d)
      /\ \A t : Table(t) \in d.names => /\ Table(t) \in DOMAIN files
                                        /\ Table(t) \in DOMAIN files'
                                        /\ files'[Table(t)] = files[Table(t)]
  BY <1>1, StoppedIs DEF ContentInv, Lasting
<1>3. ~Up' /\ db'.phase = "closed" /\ db'.writer = None
  BY <1>1 DEF Closed, Up
<1>4. Promised' = safe /\ safe \subseteq Promised
  BY <1>1, <1>3 DEF Promised
<1>5. FileTypes /\ FileTypes' /\ Named /\ Named'
  BY DEF StoreInv
<1>6. safe' \subseteq acked' /\ acked' \subseteq safe \cup Recoverable'
  <2>1. Content' \subseteq Recoverable'
    BY <1>3 DEF Content
  <2> QED
    BY <1>1, <2>1
<1>7. CASE d.current = 0
  <2>1. Recoverable' = {}
    BY <1>1, <1>5, <1>7, RecoverableWill
  <2>2. safe = {}
    BY <1>2, <1>4, <1>7 DEF LastingAt
  <2>3. LastingAt(d)'
    BY <1>1, <1>4, <1>7, <2>2 DEF LastingAt, Logs
  <2>4. Lasting'
    BY <1>2, <2>3 DEF Lasting
  <2> QED
    BY <1>1, <1>3, <1>6, <2>1, <2>2, <2>4
       DEF ContentInv, Acked, Recovered, Logged, Built, Covered, Held
<1>8. CASE d.current > 0
  <2>1. PICK v : v = Latest'
    OBVIOUS
  <2>2. /\ Manifest(d.current) \in d.names /\ v \in Views(d) /\ v \in ViewTypes
        /\ \A b \in BOOLEAN : ViewsOf(Current(d)', b) = {v}
    BY <1>1, <1>8, <2>1, StoppedIs
  <2>3. Views(d)' = {v}
    BY <1>1, <2>2 DEF Views
  <2>4. Recoverable' = HeldIn(d, v)'
    <3>1. Recoverable' = HeldIn(dir, Latest)'
      BY <1>1, <1>5, <1>8, RecoverableWill
    <3> QED
      BY <1>1, <2>1, <3>1 DEF HeldIn
  <2>5. InTables(v.tables, files') = InTables(v.tables, files)
    <3>1. Fits(d, v)
      BY <1>2, <1>8, <2>2 DEF NamedAt
    <3> QED
      BY <1>2, <3>1, InTablesSame DEF Fits
  <2>6. SafeIn(d, v) \subseteq SafeIn(d, v)'
    <3>1. ASSUME NEW n \in SafeIn(d, v) PROVE n \in SafeIn(d, v)'
      <4>1. \A l \in Logs(d) : SyncedOf(files[Log(l)]) \subseteq SyncedOf(files'[Log(l)])
        BY <1>1, CutReads
      <4>2. n \in SafeIn(d, v) => \/ n \in InTables(v.tables, files)
                                  \/ \E l \in Logs(d) : l >= v.log /\ n \in SyncedOf(files[Log(l)])
        BY HeldAre
      <4>3. \/ n \in InTables(v.tables, files')
            \/ \E l \in Logs(d) : l >= v.log /\ n \in SyncedOf(files'[Log(l)])
        BY <2>5, <3>1, <4>1, <4>2
      <4> QED
        BY <4>3, HeldWill
    <3> QED
      BY <3>1
  <2>7. HeldIn(d, v)' \subseteq HeldIn(d, v)
    <3>1. ASSUME NEW n \in HeldIn(d, v)' PROVE n \in HeldIn(d, v)
      <4>1. \A l \in Logs(d) : ReadOf(files'[Log(l)]) \subseteq ReadOf(files[Log(l)])
        BY <1>1, CutReads
      <4>2. n \in HeldIn(d, v)' => \/ n \in InTables(v.tables, files')
                                   \/ \E l \in Logs(d) : l >= v.log /\ n \in ReadOf(files'[Log(l)])
        BY HeldWill
      <4>3. \/ n \in InTables(v.tables, files)
            \/ \E l \in Logs(d) : l >= v.log /\ n \in ReadOf(files[Log(l)])
        BY <2>5, <3>1, <4>1, <4>2
      <4> QED
        BY <4>3, HeldAre
    <3> QED
      BY <3>1
  <2>8. SafeIn(d, v)' \subseteq HeldIn(d, v)'
    <3>1. ASSUME NEW n \in SafeIn(d, v)' PROVE n \in HeldIn(d, v)'
      <4>1. \A l \in Logs(d) : SyncedOf(files'[Log(l)]) = ReadOf(files'[Log(l)])
        BY <1>1, CutReads
      <4> QED
        BY <3>1, <4>1, HeldWill
    <3> QED
      BY <3>1
  <2>9. /\ safe \subseteq SafeIn(d, v)' /\ safe \subseteq Recoverable'
        /\ Recoverable' \subseteq Recoverable /\ (d.current <= 1 => safe = {})
    <3>1. /\ Promised \subseteq SafeIn(d, v) /\ HeldIn(d, v) \subseteq Recoverable
          /\ d.current <= 1 => Promised = {}
      BY <1>2, <1>8, <2>2 DEF LastingAt
    <3> QED
      BY <1>4, <2>4, <2>6, <2>7, <2>8, <3>1
  <2>10. LastingAt(d)'
    <3>1. \A u \in Views(d)' : Promised' \subseteq SafeIn(d, u)' /\ HeldIn(d, u)' \subseteq Recoverable'
      BY <1>4, <2>3, <2>4, <2>9
    <3>2. \A l \in Logs(d)' : l \in Logs(dir)'
      BY <1>1 DEF Logs
    <3> QED
      BY <1>1, <1>4, <2>9, <3>1, <3>2 DEF LastingAt
  <2>11. Lasting'
    BY <1>2, <2>10 DEF Lasting
  <2> QED
    BY <1>1, <1>3, <1>6, <2>9, <2>11
       DEF ContentInv, Acked, Recovered, Logged, Built, Covered, Held
<1> QED
  BY <1>2, <1>7, <1>8

(* What can be recovered of an open store is what is seen, and perhaps the *)
(* batch that is being written.                                            *)
LEMMA OneMore ==
    ASSUME StoreInv, ContentInv
    PROVE  Recoverable = Held \/ \E n \in Batches : Recoverable = Held \cup {n}
<1>1. CASE ~Up
  BY <1>1 DEF Held
<1>2. CASE Up
  <2> DEFINE log == ReadOf(files[Log(db.logfile)])
             tables == InTables(db.version, files)
  <2>1. Recoverable = tables \cup db.imm \cup log
    BY <1>2, UpRecoverable DEF ContentInv
  <2>2. Held = db.mem \cup db.imm \cup tables
    BY <1>2 DEF Held, Visible
  <2>3. log = db.mem \/ \E n \in Batches : log = db.mem \cup {n}
    <3>1. db.writer # None => db.writer.n \in Batches
      BY DEF StoreInv, StoreTypes, Stores
    <3> QED
      BY <1>2, <3>1 DEF ContentInv, Logged
  <2> HIDE DEF log, tables
  <2> QED
    BY <2>1, <2>2, <2>3
<1> QED
  BY <1>1, <1>2

(* A step that changes nothing.                                            *)
LEMMA UnchangedContent ==
    ASSUME DurableStoreNone, StoreInv, StoreInv', ContentInv, Orderly,
           UNCHANGED <<disk, files, dir, earlier, db, acked, safe, stops>>
    PROVE  ContentInv' /\ Held' = Held
<1>1. CASE Up
  BY <1>1, AloneContent
<1>2. CASE ~Up
  <2>1. Promised' = Promised /\ Least' = Least /\ ~Up'
    BY <1>2 DEF Promised, Batches, Least, Up, Latest, ViewOf, Current
  <2>2. Lasting' /\ Recoverable' = Recoverable
    BY <2>1, AloneLasts DEF ContentInv
  <2>3. Recovered'
    BY <2>2 DEF ContentInv, Recovered, InTables, ReadOf
  <2> QED
    BY <1>2, <2>1, <2>2, <2>3 DEF ContentInv, Acked, Logged, Built, Covered, Held
<1> QED
  BY <1>1, <1>2

(* An orderly store that has been open, or is being opened, is whole.       *)
LEMMA StoreIsWhole ==
    StoreInv /\ Orderly /\ (db.phase # "closed" \/ dir.current > 1) => ~Corrupt(files, dir)
<1> SUFFICES ASSUME StoreInv, Orderly, db.phase # "closed" \/ dir.current > 1
             PROVE  ~Corrupt(files, dir)
  OBVIOUS
<1> USE DurableStoreNone DEF StoreInv
<1>1. dir \in Dirs /\ dir \in Directories /\ dir.current > 0
  BY ViewsThere DEF Directories, Named
<1>2. /\ Manifest(dir.current) \in dir.names /\ IsManifest(Current(dir))
      /\ Latest \in ViewTypes /\ Fits(dir, Latest)
  <2>1. Latest \in Views(dir) /\ Manifest(dir.current) \in dir.names
    BY <1>1, ViewsThere
  <2>2. \A v \in Views(dir) : Fits(dir, v)
    BY <1>1 DEF Named, NamedAt
  <2> QED
    BY <1>1, <2>1, <2>2, ViewsThere
<1>3. Latest.next # 0 /\ \A t \in Latest.tables : Table(t) \in dir.names
  BY <1>2 DEF Fits, Named
<1>4. Records(Current(dir).data) # <<>>
  <2>1. Replay(<<>>).next = 0
    BY ReplayAre
  <2> QED
    BY <1>3, <2>1 DEF Latest, ViewOf
<1>5. ~Torn(Current(dir).data)
  <2>1. FileOf("manifest", Current(dir))
    BY <1>1, <1>2 DEF FileTypes, Manifest, Current
  <2> QED
    BY <2>1 DEF FileOf, Orderly
<1>6. ~Garbled(Current(dir).data)
  <2>1. Len(Current(dir).data) \in Nat
    BY <1>2 DEF IsManifest
  <2> QED
    BY <1>5, <2>1 DEF Garbled, Torn
<1> QED
  BY <1>2, <1>3, <1>4, <1>6 DEF Corrupt, Latest, ViewOf, Current

\* A store that will not open has lost only what nobody waited for: it is empty, or all of
\* it is as the last power failure left it.
Doomed ==
    db.phase = "closed" /\ Corrupt(files, dir) =>
       /\ acked = {}
       /\ Empty \/ (earlier = {} /\ \A f \in dir.names : files[f].synced = Len(files[f].data))

\* What is seen is what the files hold, if the store can be opened.
ContentIs ==
    /\ Content \subseteq Held
    /\ db.phase # "closed" => Content = Held
    /\ ~Up /\ Corrupt(files, dir) => Content = {}
    /\ ~Corrupt(files, dir) => Content = Held

(* It is, on an orderly disk.                                              *)
LEMMA ContentIsHeld == StoreInv /\ Orderly => ContentIs
  BY StoreIsWhole DEF ContentIs, Content, Held

(* Most steps neither begin nor end with a closed store.                   *)
LEMMA StaysOpen ==
    ASSUME StoreInv,
           \/ RecoverLogFile \/ NewManifest \/ SyncManifest \/ SetCurrentFile
           \/ \E sync \in BOOLEAN : AddRecord(sync)
           \/ InsertInto \/ SwitchMemTable \/ NewIterator \/ CleanupIteratorState
           \/ BeginFlush \/ WriteLevel0Table \/ BeginMerge \/ FinishMerge \/ AddEdit
           \/ LogAndApply
    PROVE  db.phase # "closed" /\ db'.phase # "closed"
<1>1. db \in Stores
  BY DEF StoreInv, StoreTypes
<1>2. CASE RecoverLogFile \/ NewManifest \/ SyncManifest \/ SetCurrentFile
  BY <1>1, <1>2 DEF RecoverLogFile, NewManifest, SyncManifest, SetCurrentFile, Installed, Stores
<1>3. CASE (\E sync \in BOOLEAN : AddRecord(sync)) \/ InsertInto \/ SwitchMemTable
  <2>1. CASE \E sync \in BOOLEAN : AddRecord(sync)
    BY <1>1, <2>1 DEF AddRecord, Up, Stores
  <2>2. CASE InsertInto
    BY <1>1, <2>2 DEF InsertInto, Up, Stores
  <2>3. CASE SwitchMemTable
    BY <1>1, <2>3 DEF SwitchMemTable, Up, Stores
  <2> QED
    BY <1>3, <2>1, <2>2, <2>3
<1>4. CASE NewIterator \/ CleanupIteratorState \/ BeginFlush \/ WriteLevel0Table
  BY <1>1, <1>4 DEF NewIterator, CleanupIteratorState, BeginFlush, WriteLevel0Table, Up, Stores
<1>5. CASE BeginMerge \/ FinishMerge
  BY <1>1, <1>5 DEF BeginMerge, FinishMerge, Up, Stores
<1>6. CASE AddEdit \/ LogAndApply
  <2>1. db.phase # "closed"
    BY <1>6 DEF AddEdit, LogAndApply, Up
  <2>2. EditFails => db'.phase = db.phase
    BY <1>1 DEF EditFails, Over, Stores
  <2>3. AddEdit => db'.phase = db.phase
    BY <1>1, <2>2 DEF AddEdit, Stores
  <2>4. LogAndApply => db'.phase = db.phase
    BY <1>1, <2>2 DEF LogAndApply, Over, Installed, Stores
  <2> QED
    BY <1>6, <2>1, <2>3, <2>4
<1> QED
  BY <1>2, <1>3, <1>4, <1>5, <1>6

(* A machine that stops may take of what is seen what was not synced.      *)
LEMMA MachineStopsTakes ==
    ASSUME DurableStoreAssumption, DurableStoreNone, StoreInv, StoreInv', ContentInv, Doomed,
           Orderly, UNCHANGED disk, MachineStops
    PROVE  /\ ContentInv' /\ Doomed' /\ Abstract!PowerFailure
<1>1. /\ ContentInv' /\ safe' = safe /\ safe \subseteq Held' /\ Held' \subseteq Recoverable
  BY MachineStopsContent
<1>2. PICK d \in Dirs :
         /\ Stopped(d) /\ dir' = d /\ earlier' = {} /\ db' = Closed
         /\ acked' = safe \cup (acked \cap Content')
         /\ \A f \in d.names : \E k : IsCut(f, k)
  BY MachineStopped DEF Stopped
<1>3. d.names \subseteq Files /\ d.names \subseteq DOMAIN files
  BY <1>2, StoppedIs
<1>4. ~Up' /\ db'.phase = "closed" /\ Orderly'
  BY <1>2 DEF Closed, Up, Orderly, Journaled, PowerFails, LogFaults, JobFaults
<1>5. Content' = IF Corrupt(files, dir)' THEN {} ELSE Held'
  BY <1>4 DEF Content, Held
<1>6. Corrupt(files, dir)' => safe = {}
  <2>1. (StoreInv /\ Orderly /\ (db.phase # "closed" \/ dir.current > 1) => ~Corrupt(files, dir))'
    BY StoreIsWhole, PTL
  <2>2. (dir \in Dirs /\ dir.current \in Nat)'
    <3>1. d \in Directories
      BY <1>2, StoppedIs
    <3> QED
      BY <1>2, <3>1 DEF Dirs, Directories
  <2>3. dir'.current <= 1 => Promised' = {}
    BY <1>1, <2>2 DEF ContentInv, Lasting, LastingAt
  <2> QED
    BY <1>1, <1>4, <2>1, <2>2, <2>3 DEF Promised
<1>7. safe \subseteq Content'
  BY <1>1, <1>5, <1>6
<1>8. Doomed'
  <2>1. ASSUME NEW f \in d.names
        PROVE  files'[f].synced = Len(files'[f].data)
    <3> DEFINE g == files[f]
               h == files'[f]
    <3>1. PICK k : IsCut(f, k)
      BY <1>2
    <3>2. FileOf(f[1], g) /\ f[1] \in {"log", "manifest", "table"}
      BY <1>3 DEF StoreInv, FileTypes, Files
    <3>3. CASE f[1] = "table"
      BY <3>1, <3>2, <3>3, TableLength DEF FileOf, IsCut
    <3>4. CASE f[1] # "table"
      <4>1. PICK S : g.data \in Seq(S)
        BY <3>2, <3>4 DEF FileOf, IsLog, IsManifest
      <4>2. /\ k \in g.synced .. Len(g.data) /\ g.synced \in Nat
            /\ h = [data |-> SubSeq(g.data, 1, k), synced |-> k]
        BY <3>1, <3>2, <3>4 DEF FileOf, IsLog, IsManifest, IsCut
      <4> HIDE DEF g, h
      <4>3. k \in 0 .. Len(g.data)
        BY <4>1, <4>2
      <4>4. Len(SubSeq(g.data, 1, k)) = k
        BY <4>1, <4>3, Prefixes
      <4> QED
        BY <4>2, <4>4 DEF h
    <3> QED
      BY <3>3, <3>4
  <2>2. Corrupt(files, dir)' => acked' = {}
    BY <1>2, <1>5, <1>6
  <2> QED
    BY <1>2, <2>1, <2>2 DEF Doomed
<1>9. Content' \subseteq Content \/ \E n \in Batches : Content' \subseteq Content \cup {n}
  <2>1. Content' \subseteq Recoverable
    BY <1>1, <1>5
  <2>2. CASE Content = Held
    BY <2>1, <2>2, OneMore
  <2>3. CASE Content # Held
    <3>1. db.phase = "closed" /\ Corrupt(files, dir)
      BY <2>3, ContentIsHeld DEF ContentIs
    <3>2. CASE Empty
      <4>1. Held = {} /\ ~Up
        BY <3>1, <3>2, EmptyContent DEF Up
      <4> QED
        BY <2>1, <4>1 DEF Held
    <3>3. CASE earlier = {} /\ \A f \in dir.names : files[f].synced = Len(files[f].data)
      <4>1. d = dir /\ dir' = dir
        BY <1>2, <3>3 DEF Dirs
      <4>2. \A f \in dir.names : files'[f] = files[f]
        BY <1>2, <3>3, <4>1 DEF IsCut
      <4>3. Corrupt(files, dir)'
        BY <3>1, <4>1, <4>2 DEF Corrupt
      <4> QED
        BY <1>5, <4>3
    <3> QED
      BY <3>1, <3>2, <3>3 DEF Doomed
  <2> QED
    BY <2>2, <2>3
<1> QED
  BY <1>1, <1>7, <1>8, <1>9 DEF Abstract!PowerFailure

(* Every step keeps what the files hold, and is one of DurableMap's.       *)
LEMMA ContentKept ==
    ASSUME DurableStoreAssumption, DurableStoreNone, StoreInv, StoreInv', ContentInv, Doomed,
           Orderly, [Next]_vars
    PROVE  /\ ContentInv' /\ Doomed'
           /\ \/ Abstract!Write \/ (MachineStops /\ Abstract!PowerFailure)
              \/ UNCHANGED <<Content, safe>>
<1>1. CASE UNCHANGED vars
  <2>1. UNCHANGED <<disk, files, dir, earlier, db, acked, safe, stops>>
    BY <1>1 DEF vars
  <2>2. ContentInv'
    BY <2>1, UnchangedContent
  <2>3. Doomed'
    BY <2>1 DEF Doomed, Empty, Corrupt, Dirs
  <2>4. UNCHANGED <<Content, safe>>
    BY <2>1 DEF Content, Up, Visible, InTables, Corrupt, Recoverable, InLog, LogsFrom
  <2> QED
    BY <2>2, <2>3, <2>4
<1>2. CASE Next
  <2>1. UNCHANGED disk /\ Orderly'
    BY <1>2 DEF Next, Orderly, Journaled, PowerFails, LogFaults, JobFaults
  <2>2. ContentIs /\ ContentIs'
    <3>1. (StoreInv /\ Orderly => ContentIs)'
      BY ContentIsHeld, PTL
    <3> QED
      BY <2>1, <3>1, ContentIsHeld
  <2>3. ASSUME db.phase # "closed", db'.phase # "closed"
        PROVE  Content = Held /\ Content' = Held' /\ Doomed'
    BY <2>2, <2>3 DEF ContentIs, Doomed
  <2>4. CASE \/ RecoverLogFile \/ NewManifest \/ SyncManifest \/ SetCurrentFile
             \/ SwitchMemTable \/ NewIterator \/ CleanupIteratorState
             \/ BeginFlush \/ WriteLevel0Table \/ BeginMerge \/ FinishMerge \/ AddEdit
             \/ LogAndApply
    <3>1. Content = Held /\ Content' = Held' /\ Doomed'
      BY <2>3, <2>4, StaysOpen
    <3>2. ContentInv' /\ Held' = Held
      BY <2>1, <2>4, RecoverLogFileContent, NewManifestContent, SyncManifestContent,
         SetCurrentFileContent, SwitchMemTableContent, IteratorContent, BeginFlushContent,
         WriteLevel0TableContent, BeginMergeContent, FinishMergeContent, AddEditContent,
         LogAndApplyContent
    <3>3. safe' = safe
      BY <2>4 DEF RecoverLogFile, NewManifest, SyncManifest, SetCurrentFile, SwitchMemTable,
         NewIterator, CleanupIteratorState, BeginFlush, WriteLevel0Table, BeginMerge,
         FinishMerge, AddEdit, LogAndApply, Unchanged
    <3> QED
      BY <3>1, <3>2, <3>3
  <2>5. CASE NewDB
    <3>1. ContentInv' /\ Held' = Held /\ Held = {} /\ Empty'
      BY <2>5, NewDBContent
    <3>2. Content = {} /\ Content' = {}
      BY <2>2, <3>1 DEF ContentIs
    <3>3. Doomed' /\ safe' = safe
      BY <2>5, <3>1 DEF Doomed, Empty, NewDB, Unchanged
    <3> QED
      BY <3>1, <3>2, <3>3
  <2>6. CASE Recover
    <3>1. ContentInv' /\ Held' = Held
      BY <2>1, <2>6, RecoverContent
    <3>2. ~Corrupt(files, dir) /\ db'.phase # "closed" /\ safe' = safe
      BY <2>6 DEF Recover, Closed, Unchanged
    <3> QED
      BY <2>2, <3>1, <3>2 DEF ContentIs, Doomed
  <2>7. CASE PurgeDatabase
    <3>1. ContentInv' /\ Held' = {} /\ safe' = {} /\ safe = {} /\ Empty'
      BY <2>7, PurgeDatabaseContent
    <3>2. Corrupt(files, dir) /\ ~Up
      BY <2>7 DEF PurgeDatabase, Up
    <3>3. Content = {} /\ Content' = {}
      BY <2>2, <3>1, <3>2 DEF ContentIs
    <3>4. Doomed'
      BY <3>1 DEF Doomed, Empty
    <3> QED
      BY <3>1, <3>3, <3>4
  <2>8. ASSUME NEW sync \in BOOLEAN, AddRecord(sync)
        PROVE  ContentInv' /\ Doomed' /\ UNCHANGED <<Content, safe>>
    <3>1. ContentInv' /\ Held' = Held
      BY <2>1, <2>8, AddRecordContent
    <3>2. safe' = safe
      BY <2>8 DEF AddRecord, Unchanged
    <3> QED
      BY <2>3, <2>8, <3>1, <3>2, StaysOpen
  <2>9. CASE InsertInto
    <3> DEFINE w == db.writer
    <3>1. /\ ContentInv' /\ w.n \in Batches
          /\ IF w.status = "ok"
             THEN /\ Held' = Held \cup {w.n}
                  /\ safe' = (IF w.sync THEN safe \cup {w.n} ELSE safe)
             ELSE Held' = Held /\ safe' = safe
      BY <2>1, <2>9, InsertIntoContent
    <3>2. Content = Held /\ Content' = Held' /\ Doomed'
      BY <2>3, <2>9, StaysOpen
    <3>3. CASE w.status = "ok" /\ w.n \notin Content
      BY <3>1, <3>2, <3>3 DEF Abstract!Write, Abstract!Add
    <3>4. CASE w.status = "ok" /\ w.n \in Content
      BY <3>1, <3>2, <3>4 DEF Abstract!Write, Abstract!Promise
    <3> QED
      BY <3>1, <3>2, <3>3, <3>4
  <2>10. CASE ProcessStops
    <3>1. ContentInv' /\ Held' = Recoverable /\ safe' = safe
      BY <2>1, <2>10, ProcessStopsContent DEF ProcessStops
    <3>2. db.phase # "closed" /\ UNCHANGED <<files, dir>>
      BY <2>10 DEF ProcessStops
    <3>3. ~Corrupt(files, dir) /\ ~Corrupt(files, dir)'
      BY <3>2, StoreIsWhole DEF Corrupt
    <3>4. Content = Held /\ Content' = Recoverable /\ Doomed'
      BY <2>2, <3>1, <3>3 DEF ContentIs, Doomed
    <3>5. CASE Recoverable = Held
      BY <3>1, <3>4, <3>5
    <3>6. CASE \E n \in Batches : Recoverable = Held \cup {n}
      BY <3>1, <3>4, <3>6 DEF Abstract!Write, Abstract!Add
    <3> QED
      BY <3>1, <3>5, <3>6, OneMore
  <2>11. CASE MachineStops
    BY <2>1, <2>11, MachineStopsTakes
  <2> QED
    BY <1>2, <2>4, <2>5, <2>6, <2>7, <2>8, <2>9, <2>10, <2>11 DEF Next
<1> QED
  BY <1>1, <1>2

(* On an orderly disk the invariant of what the files hold holds.          *)
LEMMA ContentHolds == Spec => [](Orderly => ContentInv /\ Doomed)
<1>1. StoreInv /\ Init => (Orderly => ContentInv /\ Doomed)
  <2>1. Init => Empty
    BY DEF Init, Closed, Empty, Dirs
  <2> QED
    BY <2>1, InitContent DEF Doomed, Empty
<1>2. StoreInv /\ StoreInv' /\ (Orderly => ContentInv /\ Doomed) /\ [Next]_vars
         => (Orderly => ContentInv /\ Doomed)'
  <2> SUFFICES ASSUME StoreInv, StoreInv', Orderly => ContentInv /\ Doomed, [Next]_vars, Orderly'
               PROVE  ContentInv' /\ Doomed'
    OBVIOUS
  <2>1. Orderly
    BY DEF Next, vars, Orderly, Journaled, PowerFails, LogFaults, JobFaults
  <2> QED
    BY <2>1, ContentKept, DurableStoreAssumption, DurableStoreNone
<1> QED
  BY <1>1, <1>2, StoreInvHolds, PTL DEF Spec

(* FilesInUseExist and AckedKept follow.                                   *)
LEMMA ContentIsTrue ==
    ASSUME DurableStoreNone, StoreInv, ContentInv, Doomed, Orderly
    PROVE  FilesInUseExist /\ AckedKept
<1>1. AckedKept
  <2>1. acked \subseteq Held /\ acked \subseteq Recoverable
    BY DEF ContentInv, Acked, Held
  <2>2. Content = Held \/ acked = {}
    BY ContentIsHeld DEF ContentIs, Doomed
  <2> QED
    BY <2>1, <2>2 DEF AckedKept
<1>2. ASSUME Up, NEW n \in db.mem \cup db.imm
      PROVE  n \in UNION {InLog(l, files) : l \in LogsFrom(db.logNumber, dir)}
  <2>1. /\ db.logfile \in LogsFrom(db.logNumber, dir)
        /\ \E l \in LogsFrom(db.logNumber, dir) : n \in ReadOf(files[Log(l)])
    <3>1. db.logfile \in LogsFrom(db.logNumber, dir)
      BY <1>2, LogfileIsRead DEF ContentInv, StoreInv, Open, LogsFrom, Logs
    <3> QED
      BY <1>2, <3>1 DEF ContentInv, Logged
  <2> QED
    BY <2>1 DEF InLog, ReadOf
<1> QED
  BY <1>1, <1>2 DEF FilesInUseExist, StoreInv, Open

-----------------------------------------------------------------------------
(* The theorems. *)

(* A store that has once been open can always be opened again, whatever    *)
(* stops when, whichever files a power failure loses or cuts, and whatever *)
(* operation fails; where a write may leave a part of a record it can be   *)
(* opened unless such a part is inside the manifest.  (Recover,            *)
(* LogAndApply, DeleteObsoleteFiles, SetCurrentFile.)                      *)
THEOREM StoreStaysOpenable == Spec => []StoreOpens
<1>1. StoreInv => StoreOpens
  BY DurableStoreNone, InvOpens
<1> QED
  BY <1>1, StoreInvHolds, PTL

(* The files and numbers that the store relies on are there and, on an     *)
(* orderly disk, every batch whose Write returned OK (DBImpl::Write,       *)
(* MakeRoomForWrite, WriteLevel0Table, DoCompactionWork, LogAndApply,      *)
(* DeleteObsoleteFiles, Recover).                                          *)
THEOREM StoreKeepsFiles == Spec => []FilesTrue
<1>1. StoreInv /\ (Orderly => ContentInv /\ Doomed) => FilesTrue
  BY DurableStoreAssumption, DurableStoreNone, InvTypes, InvAhead, ContentIsTrue DEF FilesTrue
<1> QED
  BY <1>1, StoreInvHolds, ContentHolds, PTL

(* The store on an orderly disk implements DurableMap: batches are added   *)
(* one at a time and stay, and a power failure takes none that was synced. *)
THEOREM StoreIsDurable == Spec => ImplementsDurableMap
<1>1. Init => Abstract!Init
  <2>1. Init => Held = {} /\ Content \subseteq Held /\ safe = {}
    BY DurableStoreAssumption, DurableStoreNone, InvInit, InitContent DEF Init, Content, Held, Up
  <2> QED
    BY <2>1 DEF Abstract!Init
<1>2. StoreInv /\ StoreInv' /\ (Orderly => ContentInv /\ Doomed) /\ [Next]_vars
         => [Orderly => \/ Abstract!Write
                        \/ MachineStops /\ Abstract!PowerFailure]_<<Content, safe>>
  BY ContentKept, DurableStoreAssumption, DurableStoreNone
<1> QED
  BY <1>1, <1>2, StoreInvHolds, ContentHolds, PTL DEF Spec, ImplementsDurableMap
=============================================================================
