------------------------------- MODULE MCDisk -------------------------------
(***************************************************************************)
(* What LevelDB has on the disk: the files of the store (DurableStore),    *)
(* on four kinds of disk, and the format of its logs (LogFormat), whole    *)
(* and damaged.  They share nothing, so a behaviour is about one of them.  *)
(***************************************************************************)
EXTENDS DurableStore

VARIABLES
    what,     \* is this behaviour about the disk, or about a log
    file, blockOffset, left, begin, adding, records, failures, damages, spoilt

logVars == <<file, blockOffset, left, begin, adding, records, failures, damages, spoilt>>

----------------------------------------------------------------------------
(* The disks. *)

\* Only the process stops; everything else may fail but for torn records.
Process == [powerFails |-> FALSE, journaled |-> TRUE, logFaults |-> {"sync"},
            jobFaults |-> {"nothing", "sync", "table"}, iterators |-> TRUE,
            maxBatches |-> 3, maxStops |-> 1]

\* Power fails, and fails again while the store is opened, on a disk with a journal.
Power == [powerFails |-> TRUE, journaled |-> TRUE, logFaults |-> {"sync"}, jobFaults |-> {},
          iterators |-> FALSE, maxBatches |-> 2, maxStops |-> 2]

\* Names and data reach the disk in any order.
Unordered == [Power EXCEPT !.journaled = FALSE, !.logFaults = {},
                           !.maxBatches = 3, !.maxStops = 1]

\* The process stops, and failing writes leave torn records.
Torn == [Process EXCEPT !.logFaults = @ \cup {"tear"}, !.jobFaults = @ \cup {"tear"},
                        !.iterators = FALSE]

FourDisks == {Process, Power, Unordered, Torn}

----------------------------------------------------------------------------
(* The logs: records that fill up to two blocks, in blocks of six bytes, two of them the
   header. *)

WholeLog == INSTANCE LogFormat WITH
    BlockSize <- 6, HeaderSize <- 2, Sizes <- 0 .. 9, MaxRecords <- 4,
    Failures <- 0, Damages <- 0

\* A write that fails, and a spoilt byte.
DamagedLog == INSTANCE LogFormat WITH
    BlockSize <- 6, HeaderSize <- 2, Sizes <- {0, 1, 4, 9}, MaxRecords <- 3,
    Failures <- 1, Damages <- 1

ASSUME LogAssumption == WholeLog!LogFormatAssumption /\ DamagedLog!LogFormatAssumption

----------------------------------------------------------------------------

AllInit ==
    /\ what \in {"disk", "log", "damaged log"}
    /\ Init /\ WholeLog!Init
    /\ what # "disk" => disk = Process

AllNext ==
    /\ UNCHANGED what
    /\ \/ what = "disk" /\ Next /\ UNCHANGED logVars
       \/ what = "log" /\ WholeLog!Next /\ UNCHANGED vars
       \/ what = "damaged log" /\ DamagedLog!Next /\ UNCHANGED vars

AllSpec == AllInit /\ [][AllNext]_<<what, vars, logVars>>

----------------------------------------------------------------------------
(* Properties. *)

\* The log reader: nothing made up, damage costs no other block, a cut end is no corruption.
LogTrue ==
    /\ DamagedLog!TypeOK /\ DamagedLog!NothingMadeUp /\ DamagedLog!DamageIsLocal
    /\ DamagedLog!CutTailIsQuiet
=============================================================================
