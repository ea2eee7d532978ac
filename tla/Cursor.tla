------------------------------- MODULE Cursor -------------------------------
(***************************************************************************)
(* An iterator of LevelDB: DBIter (db/db_iter.cc), which shows of every    *)
(* key the newest value its snapshot has, on a MergingIterator             *)
(* (table/merger.cc) over the memtables and tables, the first of which     *)
(* goes on growing while it is read.                                       *)
(*                                                                         *)
(* An internal key is a number: in order of user keys, the newest first.   *)
(* Each call of the MergingIterator is one step, but for the turn a writer *)
(* overtakes. saved is 0 where the code leaves a key nothing reads.        *)
(***************************************************************************)
EXTENDS Integers, FiniteSets, FiniteSetsExt

CONSTANTS
    UserKeys,          \* user keys, 1 .. n
    MaxSequence,   \* the last entry that is ever written
    Sequence,      \* sequence_: the last one the iterator may show
    Children       \* of the MergingIterator, 1 .. n; 1 is the memtable

CursorAssumption ==
    /\ UserKeys \subseteq Nat \ {0} /\ Children \subseteq Nat \ {0} /\ 1 \in Children
    /\ {MaxSequence, Sequence} \subseteq Nat /\ Sequence <= MaxSequence

VARIABLES
    child,     \* the entries of each child
    deleted,   \* those of type kTypeDeletion
    merge,     \* the MergingIterator: the position of each child (0: not valid), the
               \* current child (0: none), and whether it moves forward
    forward,   \* direction_ = kForward
    valid,     \* valid_
    saved,     \* saved_key_, 0 when it is clear
    value,     \* the entry saved_value_ was taken from
    pc,        \* the loop a call is in
    skipping,  \* of FindNextUserEntry
    found,     \* value_type # kTypeDeletion, of FindPrevUserEntry
    expected   \* history: the entry the call should end at, 0 for none

vars == <<child, deleted, merge, forward, valid, saved, value, pc, skipping, found, expected>>

Entry(k, s) == k * (MaxSequence + 1) + (MaxSequence - s)
UserKey(e) == e \div (MaxSequence + 1)
SequenceOf(e) == MaxSequence - (e % (MaxSequence + 1))
Entries == UNION {child[i] : i \in Children}

\* What the iterator should show: the newest entry of each key, as of its snapshot.
View == {e \in Entries :
            /\ e \notin deleted /\ SequenceOf(e) <= Sequence
            /\ \A o \in Entries : UserKey(o) = UserKey(e) /\ o < e => SequenceOf(o) > Sequence}
Least(S) == IF S = {} THEN 0 ELSE Min(S)
Greatest(S) == IF S = {} THEN 0 ELSE Max(S)

\* The first Sequence entries are there, some of them in the memtable.
Init ==
    /\ \E key \in [1 .. Sequence -> UserKeys], at \in [1 .. Sequence -> Children] :
          child = [i \in Children |-> {Entry(key[s], s) : s \in {n \in 1 .. Sequence : at[n] = i}}]
    /\ deleted \in SUBSET Entries
    /\ merge = [pos |-> [i \in Children |-> 0], current |-> 0, forward |-> TRUE]
    /\ forward = TRUE /\ valid = FALSE /\ saved = 0 /\ value = 0
    /\ pc = "idle" /\ skipping = FALSE /\ found = FALSE /\ expected = 0

----------------------------------------------------------------------------
(* MergingIterator. *)

FindSmallest(p) ==
    LET on == {i \in Children : p[i] # 0}
    IN  IF on = {} THEN 0 ELSE CHOOSE i \in on : \A j \in on : p[i] <= p[j]
FindLargest(p) ==
    LET on == {i \in Children : p[i] # 0}
    IN  IF on = {} THEN 0 ELSE CHOOSE i \in on : \A j \in on : p[i] >= p[j]

Ahead(p) == [pos |-> p, current |-> FindSmallest(p), forward |-> TRUE]
Behind(p) == [pos |-> p, current |-> FindLargest(p), forward |-> FALSE]
At(m) == m.pos[m.current]

AllFrom(e) == [i \in Children |-> Least({x \in child[i] : x >= e})]
SeekAll(e) == Ahead(AllFrom(e))
FirstOfAll == Ahead([i \in Children |-> Least(child[i])])
LastOfAll == Behind([i \in Children |-> Greatest(child[i])])

\* Mutant: the other children stay where they were before the turn.
NextOfUnturned(m) ==
    LET key == At(m)
        p == m.pos
    IN  Ahead([p EXCEPT ![m.current] = Least({x \in child[m.current] : x > key})])

\* The current child moves; the others are brought to its side of the key when the
\* direction changes.
NextOf(m) ==
    LET key == At(m)
        p == IF m.forward THEN m.pos
             ELSE [i \in Children |-> Least({x \in child[i] : x > key})]
    IN  Ahead([p EXCEPT ![m.current] = Least({x \in child[m.current] : x > key})])

PrevOf(m) ==
    LET key == At(m)
        p == IF ~m.forward THEN m.pos
             ELSE [i \in Children |-> Greatest({x \in child[i] : x < key})]
    IN  Behind([p EXCEPT ![m.current] = Greatest({x \in child[m.current] : x < key})])

----------------------------------------------------------------------------
(* DBIter. *)

Shown == IF forward THEN At(merge) ELSE value
Unwritten == UNCHANGED <<child, deleted>>

\* The call is over: there is nothing more that way.
Exhausted == valid' = FALSE /\ saved' = 0 /\ pc' = "idle"

\* FindNextUserEntry is entered with the MergingIterator at m, if that is valid.
LookAhead(m, skip, key) ==
    /\ merge' = m /\ forward' = TRUE /\ skipping' = skip
    /\ IF m.current = 0 THEN Exhausted ELSE pc' = "next" /\ saved' = key /\ UNCHANGED valid
    /\ UNCHANGED found /\ Unwritten

Seek(k) ==
    /\ pc = "idle"
    /\ expected' = Least({e \in View : UserKey(e) >= k})
    /\ value' = 0 /\ LookAhead(SeekAll(Entry(k, Sequence)), FALSE, 0)

SeekToFirst ==
    /\ pc = "idle"
    /\ expected' = Least(View)
    /\ value' = 0 /\ LookAhead(FirstOfAll, FALSE, 0)

\* After moving backwards the MergingIterator is before the entries of the key.
NextKey ==
    /\ pc = "idle" /\ valid
    /\ expected' = Least({e \in View : UserKey(e) > UserKey(Shown)})
    /\ UNCHANGED value
    /\ IF forward THEN LookAhead(merge, TRUE, UserKey(At(merge)))
       ELSE LookAhead(IF merge.current = 0 THEN FirstOfAll ELSE NextOf(merge), TRUE, saved)

\* One round of FindNextUserEntry.
FindNextUserEntry ==
    /\ pc = "next"
    /\ LET e == At(merge)
           seen == SequenceOf(e) <= Sequence
           hides == seen /\ e \in deleted
           m == NextOf(merge)
       IN  IF seen /\ e \notin deleted /\ ~(skipping /\ UserKey(e) <= saved)
           THEN /\ valid' = TRUE /\ saved' = 0 /\ pc' = "idle"
                /\ UNCHANGED <<merge, skipping>>
           ELSE /\ merge' = m
                /\ skipping' = (skipping \/ hides)
                /\ IF m.current = 0 THEN Exhausted
                   ELSE saved' = (IF hides THEN UserKey(e) ELSE saved) /\ UNCHANGED <<pc, valid>>
    /\ UNCHANGED <<forward, value, found, expected>> /\ Unwritten

SeekToLast ==
    /\ pc = "idle"
    /\ expected' = Greatest(View)
    /\ merge' = LastOfAll /\ forward' = FALSE /\ found' = FALSE /\ pc' = "prev"
    /\ value' = 0
    /\ UNCHANGED <<valid, saved, skipping>> /\ Unwritten

Prev ==
    /\ pc = "idle" /\ valid
    /\ expected' = Greatest({e \in View : UserKey(e) < UserKey(Shown)})
    /\ found' = FALSE
    /\ IF forward THEN pc' = "turn" /\ saved' = UserKey(At(merge))
                  ELSE pc' = "prev" /\ UNCHANGED saved
    /\ UNCHANGED <<merge, forward, valid, value, skipping>> /\ Unwritten

\* Prev after moving forward: back to before the entries of the key, m being where the
\* MergingIterator goes.
TurnTo(m) ==
    /\ pc = "turn"
    /\ merge' = m
    /\ IF m.current = 0 THEN Exhausted /\ value' = 0 /\ UNCHANGED forward
       ELSE /\ IF UserKey(At(m)) < saved THEN pc' = "prev" /\ forward' = FALSE
                                         ELSE UNCHANGED <<pc, forward>>
            /\ UNCHANGED <<valid, saved, value>>
    /\ UNCHANGED <<skipping, found, expected>>

Turn == TurnTo(PrevOf(merge)) /\ Unwritten

\* One round of FindPrevUserEntry.
FindPrevUserEntry ==
    /\ pc = "prev"
    /\ LET e == At(merge)
           seen == merge.current # 0 /\ SequenceOf(e) <= Sequence
           over == merge.current = 0 \/ (seen /\ found /\ UserKey(e) < saved)
       IN  /\ IF over
              THEN /\ UNCHANGED <<merge, found>> /\ pc' = "idle" /\ valid' = found
                   /\ IF found THEN UNCHANGED <<saved, value, forward>>
                      ELSE saved' = 0 /\ value' = 0 /\ forward' = TRUE
              ELSE /\ merge' = PrevOf(merge) /\ UNCHANGED <<pc, valid, forward>>
                   /\ IF ~seen THEN UNCHANGED <<found, saved, value>>
                      ELSE IF e \in deleted THEN found' = FALSE /\ saved' = 0 /\ value' = 0
                      ELSE found' = TRUE /\ saved' = UserKey(e) /\ value' = e
    /\ UNCHANGED <<skipping, expected>> /\ Unwritten

\* A writer adds an entry to the memtable.
Added(k) ==
    LET s == Cardinality(Entries) + 1
    IN  /\ s <= MaxSequence
        /\ child' = [child EXCEPT ![1] = @ \cup {Entry(k, s)}]
        /\ deleted' \in {deleted, deleted \cup {Entry(k, s)}}

Insert(k) ==
    /\ Added(k)
    /\ UNCHANGED <<merge, forward, valid, saved, value, pc, skipping, found, expected>>

\* A writer adds one while the MergingIterator turns, between its Seek of the memtable and
\* what follows: Prev from the entry found, now perhaps onto the new one; SeekToLast if
\* there was none.  (Of the entries added in between only the greatest below matters.)
TurnOvertaken(k) ==
    LET above == {x \in child[1] : x >= At(merge)}
    IN  /\ merge.current \notin {0, 1} /\ merge.forward
        /\ Added(k)
        /\ TurnTo(Behind([PrevOf(merge).pos EXCEPT
              ![1] = Greatest({y \in child'[1] : \A x \in above : y < x})]))

Next ==
    \/ \E k \in UserKeys : Seek(k) \/ Insert(k) \/ TurnOvertaken(k)
    \/ SeekToFirst \/ SeekToLast \/ NextKey \/ Prev
    \/ FindNextUserEntry \/ Turn \/ FindPrevUserEntry

Spec == Init /\ [][Next]_vars

----------------------------------------------------------------------------
(* Properties. *)

\* The types of the two iterators and of what their children hold.
TypeOK ==
    /\ deleted \subseteq Entries
    /\ merge.current \in Children \cup {0}
    /\ merge.current # 0 => At(merge) \in child[merge.current]
    /\ {forward, valid, skipping, found} \subseteq BOOLEAN
    /\ saved \in UserKeys \cup {0} /\ value \in Entries \cup {0}
    /\ pc \in {"idle", "next", "turn", "prev"}
    /\ pc = "next" => merge.current # 0

\* After any sequence of calls, with turns and with writes in between, the iterator is
\* at the entry that its snapshot has there: the newest value of the next key that way,
\* no deleted key, none twice and none left out.
ShowsSnapshot ==
    pc = "idle" => IF expected = 0 THEN ~valid
                   ELSE /\ valid /\ Shown = expected
                        /\ ~forward => saved = UserKey(expected)

\* Where the MergingIterator is when it moves backwards: at or before everything with the
\* key it shows ("just before all entries whose user key == this->key()").
BeforeItsKey ==
    pc = "idle" /\ valid /\ ~forward /\ merge.current # 0 => UserKey(At(merge)) < saved

\* All of it.
CursorTrue == TypeOK /\ ShowsSnapshot /\ BeforeItsKey

\* A call ends: the loops move one way only.
CallsEnd == pc # "idle" ~> pc = "idle"
FairSpec == Spec /\ WF_vars(FindNextUserEntry \/ Turn \/ FindPrevUserEntry)
=============================================================================
