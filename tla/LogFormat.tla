----------------------------- MODULE LogFormat -----------------------------
(***************************************************************************)
(* The format of LevelDB's logs and manifests: log::Writer cuts a record   *)
(* into fragments that do not cross a block, log::Reader puts them         *)
(* together and skips what it cannot use (db/log_writer.cc, log_reader.cc).*)
(*                                                                         *)
(* A byte of the file is <<fragment, offset>>, where the header is the     *)
(* first HeaderSize offsets; Zero fills the end of a block.  A checksum    *)
(* holds when the bytes from the header on are those of one fragment.      *)
(***************************************************************************)
EXTENDS Naturals, Sequences, FiniteSets, FiniteSetsExt, SequencesExt

CONSTANTS
    BlockSize, HeaderSize,   \* kBlockSize and kHeaderSize, scaled down
    Sizes,                   \* lengths of records
    MaxRecords,
    Failures, Damages        \* how many writes may fail, how many bytes be spoilt

LogFormatAssumption ==
    /\ {BlockSize, HeaderSize} \subseteq Nat \ {0} /\ HeaderSize < BlockSize
    /\ Sizes \subseteq Nat /\ {MaxRecords, Failures, Damages} \subseteq Nat

VARIABLES
    file,
    blockOffset,   \* Writer::block_offset_
    left,          \* bytes of the record being added that are still to come
    begin,         \* nothing of it has been written
    adding,        \* a record is being added
    records,       \* history: per record its fragments and its first and last byte
    failures, damages,
    spoilt         \* history: the bytes that were damaged

vars == <<file, blockOffset, left, begin, adding, records, failures, damages, spoilt>>

Zero == <<>>
Spoilt == <<"spoilt">>
Bytes(fragment) == [i \in 1 .. HeaderSize + fragment.n |-> <<fragment, i - 1>>]
Current == Len(records)

Init ==
    /\ file = <<>> /\ blockOffset = 0 /\ left = 0 /\ begin = FALSE /\ adding = FALSE
    /\ records = <<>> /\ failures = 0 /\ damages = 0 /\ spoilt = {}

AddRecord(n) ==
    /\ ~adding /\ Current < MaxRecords
    /\ adding' = TRUE /\ left' = n /\ begin' = TRUE
    /\ records' = Append(records, [parts |-> <<>>, from |-> 0, end |-> 0])
    /\ UNCHANGED <<file, blockOffset, failures, damages, spoilt>>

\* One round of AddRecord's loop: the trailer, if no header fits, and a fragment.
Trailer == IF BlockSize - blockOffset < HeaderSize
           THEN [i \in 1 .. BlockSize - blockOffset |-> Zero] ELSE <<>>
Start == IF BlockSize - blockOffset < HeaderSize THEN 0 ELSE blockOffset
Avail == BlockSize - Start - HeaderSize

RecordType(ends) ==
    IF begin THEN (IF ends THEN "full" ELSE "first") ELSE (IF ends THEN "last" ELSE "middle")

NextFragment ==
    LET n == IF left < Avail THEN left ELSE Avail
    IN  [of |-> Current, part |-> Len(records[Current].parts) + 1, n |-> n,
         type |-> RecordType(n = left)]

\* EmitPhysicalRecord; the loop ends with the record.
Emit ==
    /\ adding
    /\ LET f == NextFragment
       IN  /\ file' = file \o Trailer \o Bytes(f)
           /\ blockOffset' = Start + HeaderSize + f.n
           /\ left' = left - f.n /\ begin' = FALSE /\ adding' = (left # f.n)
           /\ records' = [records EXCEPT
                ![Current].parts = Append(@, f),
                ![Current].from = IF begin THEN Len(file) + Len(Trailer) + 1 ELSE @,
                ![Current].end = IF left = f.n THEN Len(file') ELSE 0]
    /\ UNCHANGED <<failures, damages, spoilt>>

\* The file takes only some of the bytes; block_offset_ counts them all, and the record
\* is given up.
EmitFails ==
    /\ adding /\ failures < Failures
    /\ LET f == NextFragment
       IN  /\ \E k \in 0 .. Len(Bytes(f)) - 1 :
                 file' = file \o Trailer \o SubSeq(Bytes(f), 1, k)
           /\ blockOffset' = Start + HeaderSize + f.n
    /\ failures' = failures + 1
    /\ adding' = FALSE /\ left' = 0 /\ begin' = FALSE
    /\ UNCHANGED <<records, damages, spoilt>>

\* The disk spoils a byte.
Damage(i) ==
    /\ damages < Damages /\ ~adding
    /\ file' = [file EXCEPT ![i] = Spoilt] /\ spoilt' = spoilt \cup {i}
    /\ damages' = damages + 1
    /\ UNCHANGED <<blockOffset, left, begin, adding, records, failures>>

Next ==
    \/ \E n \in Sizes : AddRecord(n)
    \/ Emit
    \/ EmitFails
    \/ \E i \in DOMAIN file : Damage(i)

Spec == Init /\ [][Next]_vars

----------------------------------------------------------------------------
(* log::Reader, on a file s. *)

BlockEnd(s, p) == Min({(p \div BlockSize + 1) * BlockSize, Len(s)})

\* The n bytes after p are the first n of one fragment.
Whole(s, p, n) ==
    /\ Len(s[p + 1]) = 2 /\ s[p + 1][2] = 0
    /\ \A i \in 1 .. n : s[p + i] = <<s[p + 1][1], i - 1>>

\* Mutant: nothing is read after a bad record.
PhysicalGivesUp(s, p) ==
    LET end == BlockEnd(s, p)
        eof == [type |-> "eof", next |-> end, reported |-> FALSE]
        drop == [type |-> "bad", next |-> Len(s), reported |-> TRUE]
    IN  CASE end - p < HeaderSize -> eof
          [] \A i \in 1 .. HeaderSize : s[p + i] = Zero -> [drop EXCEPT !.reported = FALSE]
          [] ~Whole(s, p, HeaderSize) -> drop
          [] OTHER ->
               LET f == s[p + 1][1]
                   next == p + HeaderSize + f.n
               IN  CASE next > end -> IF end % BlockSize # 0 THEN eof ELSE drop
                     [] ~Whole(s, p, next - p) -> drop
                     [] OTHER -> [type |-> f.type, next |-> next, reported |-> FALSE,
                                  fragment |-> f]

\* ReadPhysicalRecord at p: what it returns and where it goes on.  What is not a header
\* has a length or a checksum that does not fit: the rest of the block is dropped, and
\* that is reported.
Physical(s, p) ==
    LET end == BlockEnd(s, p)
        eof == [type |-> "eof", next |-> end, reported |-> FALSE]
        drop == [type |-> "bad", next |-> end, reported |-> TRUE]
    IN  CASE end - p < HeaderSize -> eof
          [] \A i \in 1 .. HeaderSize : s[p + i] = Zero -> [drop EXCEPT !.reported = FALSE]
          [] ~Whole(s, p, HeaderSize) -> drop
          [] OTHER ->
               LET f == s[p + 1][1]
                   next == p + HeaderSize + f.n
               IN  CASE next > end -> IF end % BlockSize # 0 THEN eof ELSE drop
                     [] ~Whole(s, p, next - p) -> drop
                     [] OTHER -> [type |-> f.type, next |-> next, reported |-> FALSE,
                                  fragment |-> f]

\* A trailer too short for a header is passed over, unless the file ends in it.
AfterTrailer(s, p) ==
    IF BlockEnd(s, p) - p < HeaderSize /\ BlockEnd(s, p) < Len(s) THEN BlockEnd(s, p) ELSE p

\* What is left of the fragments after a bad one.
AfterBad(scratch) == <<>>

\* ReadRecord, again and again: scratch holds the fragments so far (<<>> when not
\* in_fragmented_record), got the records returned.
RECURSIVE ReadFrom(_, _, _, _, _)
ReadFrom(s, p, scratch, got, reported) ==
    LET r == Physical(s, AfterTrailer(s, p))
        seen == reported \/ r.reported
        partial == scratch # <<>>
        go(sc, g, rep) == ReadFrom(s, r.next, sc, g, rep)
    IN  CASE r.type = "eof" -> [got |-> got, reported |-> seen]
          [] r.type = "bad" -> go(AfterBad(scratch), got, seen \/ partial)
          [] r.type = "full" -> go(<<>>, Append(got, <<r.fragment>>), seen \/ partial)
          [] r.type = "first" -> go(<<r.fragment>>, got, seen \/ partial)
          [] r.type = "middle" -> IF partial THEN go(Append(scratch, r.fragment), got, seen)
                                             ELSE go(<<>>, got, TRUE)
          [] r.type = "last" -> IF partial
                                THEN go(<<>>, Append(got, Append(scratch, r.fragment)), seen)
                                ELSE go(<<>>, got, TRUE)

Read(s) == ReadFrom(s, 0, <<>>, <<>>, FALSE)

----------------------------------------------------------------------------
(* Properties. *)

Parts(is) == [j \in DOMAIN is |-> records[is[j]].parts]
Complete(k) == {i \in DOMAIN records : records[i].end \in 1 .. k}
InOrder(S) == SetToSortSeq(S, <)

\* The types of the file, the writer's fields and the history.
TypeOK ==
    /\ blockOffset \in 0 .. BlockSize /\ {begin, adding} \subseteq BOOLEAN
    /\ left \in 0 .. Max(Sizes \cup {0})
    /\ failures \in 0 .. Failures /\ damages \in 0 .. Damages
    /\ spoilt \subseteq DOMAIN file
    /\ failures = 0 => Len(file) % BlockSize = blockOffset % BlockSize

\* Wherever the file is cut off, in a header, a fragment or a trailer, the reader
\* returns the records that are in it as a whole, in order, and takes the end for the
\* death of the writer and not for a corruption.
CutTailIsQuiet ==
    failures = 0 /\ damages = 0 =>
        \A k \in 0 .. Len(file) :
            LET r == Read(SubSeq(file, 1, k))
            IN  r.got = Parts(InOrder(Complete(k))) /\ ~r.reported

\* Whatever is damaged, a record that is returned was added, is whole and in its place:
\* fragments of two records are never put together.
NothingMadeUp ==
    \E S \in SUBSET Complete(Len(file)) : Read(file).got = Parts(InOrder(S))

\* A spoilt byte costs the records with a fragment in its block and no other.
Blocks(i) == (records[i].from - 1) \div BlockSize .. (records[i].end - 1) \div BlockSize
DamageIsLocal ==
    failures = 0 =>
        \A i \in Complete(Len(file)) :
            (\A j \in spoilt : (j - 1) \div BlockSize \notin Blocks(i))
                => records[i].parts \in ToSet(Read(file).got)
=============================================================================
