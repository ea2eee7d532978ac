----------------------------- MODULE WriteQueue -----------------------------
(***************************************************************************)
(* The write path of LevelDB (db/db_impl.cc): the queue of writers whose   *)
(* first one writes for those behind it, the log and the two memtables,    *)
(* the background thread, the calls of CompactRange, and closing.          *)
(*                                                                         *)
(* Everything under mutex_ is one step; a thread that writes the log, or   *)
(* fills the memtable or a table, does so without it.  A thread that waits *)
(* on a condition variable is asleep until somebody signals it.            *)
(*                                                                         *)
(* The levels are LevelTree's: here level 0 is a number of files, and what *)
(* has left the memtables is in the tables.                                *)
(***************************************************************************)
EXTENDS Integers, Sequences, FiniteSets, SequencesExt

CONSTANTS
    Writers,      \* threads that write a batch each
    Sync,         \* those with WriteOptions.sync
    Compactors,   \* threads that call CompactRange
    None,
    BatchSize,    \* entries of a batch
    BufferSize,   \* write_buffer_size, in entries
    Trigger, Slowdown, Stop,   \* kL0_CompactionTrigger and the other two
    Faults        \* the file system may fail

ASSUME WriteQueueAssumption ==
    /\ IsFiniteSet(Writers) /\ Sync \subseteq Writers
    /\ Writers \cap Compactors = {} /\ None \notin Compactors
    /\ {BatchSize, BufferSize, Trigger, Slowdown, Stop} \subseteq Nat \ {0}
    /\ Trigger <= Slowdown /\ Slowdown <= Stop /\ Faults \in BOOLEAN

Threads == Writers \cup Compactors

VARIABLES
    queue,         \* writers_
    pc,            \* what a thread is doing
    asleep,        \* the threads waiting on a condition variable
    status,        \* Writer.status, "none" until it is known
    force, delay,  \* force and allow_delay of MakeRoomForWrite
    members,       \* how many of the queue are written together, 0 when nobody writes
    inserted,      \* how many of their entries are in mem_
    lastSequence,  \* VersionSet.last_sequence_
    mem, imm,      \* entries of the memtables
    hasImm,        \* imm_ # NULL
    tables,        \* entries in table files
    l0,            \* NumLevelFiles(0)
    log, oldLog,   \* the batches in the log of mem_ and in that of imm_
    synced,        \* those of them a Sync came after
    bg,            \* the background thread; "crashed" once it has used a NULL pointer
    bgManual,      \* whose range it is merging
    bgError,       \* ~bg_error_.ok()
    manual,        \* manual_compaction_
    manualDone,    \* ManualCompaction.done
    shuttingDown

callVars == <<queue, pc, status>>
writing == <<force, delay, members, inserted, lastSequence>>
memory == <<mem, imm, hasImm, tables, l0>>
logs == <<log, oldLog, synced>>
bgVars == <<bg, bgManual, bgError, manual, manualDone, shuttingDown>>
vars == <<callVars, asleep, writing, memory, logs, bgVars>>

Entries == [of : Writers, seq : 1 .. BatchSize * Cardinality(Writers)]

\* The types of the queue, the memtables and logs, and the background thread.
TypeOK ==
    /\ queue \in Seq(Threads) /\ IsInjective(queue)
    /\ pc \in [Threads -> {"idle", "queued", "slow", "logging", "syncing", "inserting",
                           "imm", "manual", "returned"}]
    /\ asleep \subseteq Threads
    /\ status \in [Threads -> {"none", "ok", "error"}]
    /\ {force, delay, hasImm, bgError, shuttingDown} \subseteq BOOLEAN
    /\ members \in 0 .. Len(queue) /\ inserted \in 0 .. BatchSize * members
    /\ lastSequence \in 0 .. BatchSize * Cardinality(Writers)
    /\ mem \cup imm \cup tables \subseteq Entries
    /\ l0 \in 0 .. Stop
    /\ log \cup oldLog \cup synced \subseteq Writers
    /\ bg \in {"idle", "scheduled", "flush", "merge", "crashed"}
    /\ {bgManual, manual} \subseteq Compactors \cup {None}
    /\ manualDone \subseteq Compactors

Init ==
    /\ queue = <<>> /\ pc = [t \in Threads |-> "idle"] /\ asleep = {}
    /\ status = [t \in Threads |-> "none"]
    /\ force = FALSE /\ delay = TRUE /\ members = 0 /\ inserted = 0 /\ lastSequence = 0
    /\ mem = {} /\ imm = {} /\ hasImm = FALSE /\ tables = {} /\ l0 = 0
    /\ log = {} /\ oldLog = {} /\ synced = {}
    /\ bg = "idle" /\ bgManual = None /\ bgError = FALSE
    /\ manual = None /\ manualDone = {} /\ shuttingDown = FALSE

-----------------------------------------------------------------------------
(* Scheduling.                                                             *)

\* MaybeScheduleCompaction, given what the step makes of the state.
Scheduled(now, isImm, isManual, files, error) ==
    IF now = "idle" /\ ~shuttingDown /\ ~error /\ (isImm \/ isManual \/ files >= Trigger)
    THEN "scheduled" ELSE now

\* The threads waiting on bg_cv_: the first writer, in MakeRoomForWrite, and CompactRange.
OnBgCv == {t \in asleep : pc[t] \in {"imm", "manual"} \/ (queue # <<>> /\ t = Head(queue))}

-----------------------------------------------------------------------------
(* DBImpl::Write.                                                          *)

\* The thread at the front begins MakeRoomForWrite.
Leads(q) ==
    IF q = <<>> THEN force' = FALSE /\ delay' = TRUE
    ELSE force' = (Head(q) \in Compactors) /\ delay' = (Head(q) \in Writers)

\* Write, up to the wait.  CompactRange calls it with no batch, which forces a switch.
Write(t) ==
    /\ pc[t] = "idle" /\ ~shuttingDown
    /\ pc' = [pc EXCEPT ![t] = "queued"]
    /\ queue' = Append(queue, t)
    /\ IF queue = <<>> THEN Leads(<<t>>) /\ UNCHANGED asleep
                       ELSE asleep' = asleep \cup {t} /\ UNCHANGED <<force, delay>>
    /\ UNCHANGED <<status, members, inserted, lastSequence, memory, logs, bgVars>>

Returned(t) == IF t \in Compactors THEN "imm" ELSE "returned"

\* A writer whose batch another one wrote, once it has woken up.
WokenDone(t) ==
    /\ pc[t] = "queued" /\ t \notin asleep /\ status[t] # "none"
    /\ pc' = [pc EXCEPT ![t] = Returned(t)]
    /\ UNCHANGED <<queue, asleep, status, writing, memory, logs, bgVars>>

\* Mutant: the status goes to the front writer only.
FinishFailsLeader(n, s, others) ==
    /\ queue' = SubSeq(queue, n + 1, Len(queue))
    /\ status' = [u \in Threads |-> IF u = Head(queue) THEN s
                                    ELSE IF \E i \in 2 .. n : queue[i] = u THEN "ok"
                                    ELSE status[u]]
    /\ asleep' = (asleep \ others) \ {queue[i] : i \in 1 .. Min({n + 1, Len(queue)})}
    /\ pc' = [pc EXCEPT ![Head(queue)] = Returned(Head(queue))]
    /\ Leads(queue') /\ members' = 0 /\ inserted' = 0

\* Mutant: the new head is not woken.
FinishWakesGroup(n, s, others) ==
    /\ queue' = SubSeq(queue, n + 1, Len(queue))
    /\ status' = [u \in Threads |-> IF \E i \in 1 .. n : queue[i] = u THEN s ELSE status[u]]
    /\ asleep' = (asleep \ others) \ {queue[i] : i \in 1 .. n}
    /\ pc' = [pc EXCEPT ![Head(queue)] = Returned(Head(queue))]
    /\ Leads(queue') /\ members' = 0 /\ inserted' = 0

\* The end of Write: the first n of the queue get the status and are woken, and so is the
\* new head; others may be woken by the same step.
Finish(n, s, others) ==
    /\ queue' = SubSeq(queue, n + 1, Len(queue))
    /\ status' = [u \in Threads |-> IF \E i \in 1 .. n : queue[i] = u THEN s ELSE status[u]]
    /\ asleep' = (asleep \ others) \ {queue[i] : i \in 1 .. Min({n + 1, Len(queue)})}
    /\ pc' = [pc EXCEPT ![Head(queue)] = Returned(Head(queue))]
    /\ Leads(queue') /\ members' = 0 /\ inserted' = 0

FinishAlone(s) ==
    /\ Finish(1, s, {})
    /\ UNCHANGED <<lastSequence, memory, logs, bgVars>>

\* Mutant: writes that want a sync ride behind one that does not.
BuildAnyGroup == 1 .. Len(queue)

\* BuildBatchGroup: how many of the queue may be written together.  It stops before a write
\* that wants a sync when the first one does not, and when the batches get too big.
BuildBatchGroup ==
    {n \in 1 .. Len(queue) :
        \A i \in 2 .. n : queue[i] \in Sync => Head(queue) \in Sync}

Leading(t) == queue # <<>> /\ t = Head(queue) /\ pc[t] = "queued" /\ t \notin asleep

Slow == delay /\ l0 >= Slowdown
Room == ~force /\ Cardinality(mem) <= BufferSize

\* There is room: CompactRange's call has nothing to write, a writer builds its group.
GoOn(t) ==
    IF t \in Compactors
    THEN Finish(1, "ok", {})
    ELSE /\ members' \in BuildBatchGroup
         /\ pc' = [pc EXCEPT ![t] = "logging"]
         /\ force' = FALSE
         /\ UNCHANGED <<queue, asleep, status, delay, inserted>>

(* The branches of MakeRoomForWrite. *)

RoomError(t) == Leading(t) /\ bgError /\ FinishAlone("error")

RoomSlow(t) ==
    /\ Leading(t) /\ ~bgError /\ Slow
    /\ pc' = [pc EXCEPT ![t] = "slow"] /\ delay' = FALSE
    /\ UNCHANGED <<queue, asleep, status, force, members, inserted, lastSequence, memory,
                   logs, bgVars>>

Slept(t) ==
    /\ pc[t] = "slow"
    /\ pc' = [pc EXCEPT ![t] = "queued"]
    /\ UNCHANGED <<queue, asleep, status, writing, memory, logs, bgVars>>

RoomThere(t) ==
    /\ Leading(t) /\ ~bgError /\ ~Slow /\ Room
    /\ GoOn(t)
    /\ UNCHANGED <<lastSequence, memory, logs, bgVars>>

RoomWait(t) ==
    /\ Leading(t) /\ ~bgError /\ ~Slow /\ ~Room
    /\ hasImm \/ l0 >= Stop
    /\ asleep' = asleep \cup {t}
    /\ UNCHANGED <<callVars, writing, memory, logs, bgVars>>

\* A new log and a new memtable; then there is room.
RoomSwitch(t) ==
    /\ Leading(t) /\ ~bgError /\ ~Slow /\ ~Room
    /\ ~hasImm /\ l0 < Stop
    /\ imm' = mem /\ hasImm' = TRUE /\ mem' = {}
    /\ oldLog' = log /\ log' = {}
    /\ bg' = Scheduled(bg, TRUE, manual # None, l0, FALSE)
    /\ GoOn(t)
    /\ UNCHANGED <<lastSequence, tables, l0, synced, bgManual, bgError, manual, manualDone,
                   shuttingDown>>

\* NewWritableFile fails.
RoomFails(t) ==
    /\ Faults
    /\ Leading(t) /\ ~bgError /\ ~Slow /\ ~Room
    /\ ~hasImm /\ l0 < Stop
    /\ FinishAlone("error")

-----------------------------------------------------------------------------
(* Writing, without the lock.                                              *)

\* The places in the queue of the batches that are written together, one after the other.
Batches == {i \in 1 .. members : queue[i] \in Writers}
Group == {queue[i] : i \in Batches}
Before(i) == Cardinality({j \in Batches : j < i})
EndSequence == lastSequence + BatchSize * Cardinality(Batches)

\* The end of a write that got as far as the log: last_sequence_ moves on, even if it failed.
WriteEnds(s, error) ==
    /\ Finish(members, s, IF error THEN OnBgCv ELSE {})
    /\ lastSequence' = EndSequence
    /\ bgError' = (bgError \/ error)
    /\ UNCHANGED <<memory, oldLog, synced, bg, bgManual, manual, manualDone, shuttingDown>>

AddRecord(t) ==
    /\ pc[t] = "logging"
    /\ log' = log \cup Group
    /\ pc' = [pc EXCEPT ![t] = IF t \in Sync THEN "syncing" ELSE "inserting"]
    /\ UNCHANGED <<queue, asleep, status, writing, memory, oldLog, synced, bgVars>>

\* The record may be in the file all the same.
AddRecordFails(t) ==
    /\ Faults /\ pc[t] = "logging"
    /\ log' \in {log, log \cup Group}
    /\ WriteEnds("error", FALSE)

SyncLog(t) ==
    /\ pc[t] = "syncing"
    /\ synced' = synced \cup log
    /\ pc' = [pc EXCEPT ![t] = "inserting"]
    /\ UNCHANGED <<queue, asleep, status, writing, memory, log, oldLog, bgVars>>

\* From then on no write succeeds.
SyncFails(t) ==
    /\ Faults /\ pc[t] = "syncing"
    /\ WriteEnds("error", TRUE)
    /\ UNCHANGED log

\* InsertInto, entry by entry: readers go on meanwhile.
InsertInto(t) ==
    /\ pc[t] = "inserting" /\ inserted < EndSequence - lastSequence
    /\ inserted' = inserted + 1
    /\ \E i \in Batches :
          /\ inserted \div BatchSize = Before(i)
          /\ mem' = mem \cup {[of |-> queue[i], seq |-> lastSequence + inserted + 1]}
    /\ UNCHANGED <<callVars, asleep, force, delay, members, lastSequence, imm, hasImm, tables,
                   l0, logs, bgVars>>

WriteDone(t) ==
    /\ pc[t] = "inserting" /\ inserted = EndSequence - lastSequence
    /\ WriteEnds("ok", FALSE)
    /\ UNCHANGED log

-----------------------------------------------------------------------------
(* The background thread.                                                  *)

\* BackgroundCall ends: more work may be due, and everyone is woken.
CallEnds(isImm, isManual, files, error) ==
    /\ bg' = Scheduled("idle", isImm, isManual, files, error)
    /\ asleep' = asleep \ OnBgCv

NothingToDo == shuttingDown \/ bgError \/ (~hasImm /\ manual = None /\ l0 < Trigger)

BackgroundCall ==
    /\ bg = "scheduled"
    /\ \/ /\ NothingToDo
          /\ CallEnds(hasImm, manual # None, l0, bgError)
          /\ UNCHANGED <<bgManual, manual, manualDone>>
       \/ /\ ~NothingToDo /\ hasImm
          /\ bg' = "flush"
          /\ UNCHANGED <<asleep, bgManual, manual, manualDone>>
       \/ /\ ~NothingToDo /\ ~hasImm /\ (manual = None \/ l0 > 0)
          /\ bg' = "merge" /\ bgManual' = manual
          /\ UNCHANGED <<asleep, manual, manualDone>>
       \* The range asked for has nothing left to merge.
       \/ /\ ~NothingToDo /\ ~hasImm /\ manual # None /\ l0 = 0
          /\ manualDone' = manualDone \cup {manual} /\ manual' = None
          /\ CallEnds(FALSE, FALSE, l0, FALSE)
          /\ UNCHANGED bgManual
    /\ UNCHANGED <<callVars, writing, memory, logs, bgError, shuttingDown>>

\* CompactMemTable succeeds: the table is at level 0 or below, the old log is deleted.  In
\* the middle of a merge it is the same, and the merge goes on.
CompactMemTable ==
    /\ hasImm /\ bg \in {"flush", "merge"} /\ ~shuttingDown
    /\ tables' = tables \cup imm /\ imm' = {} /\ hasImm' = FALSE
    /\ oldLog' = {}
    /\ l0' \in {l0, l0 + 1}
    /\ IF bg = "flush" THEN CallEnds(FALSE, manual # None, l0', bgError)
                       ELSE asleep' = asleep \ OnBgCv /\ UNCHANGED bg
    /\ UNCHANGED <<callVars, writing, mem, log, synced, bgManual, bgError, manual, manualDone,
                   shuttingDown>>

\* RecordBackgroundError
CompactMemTableFails ==
    /\ hasImm /\ bg \in {"flush", "merge"} /\ (Faults \/ shuttingDown)
    /\ bgError' = TRUE
    /\ asleep' = asleep \ OnBgCv
    /\ bg' = IF bg = "flush" THEN "idle" ELSE bg
    /\ UNCHANGED <<callVars, writing, memory, logs, bgManual, manual, manualDone,
                   shuttingDown>>

\* The merge ends.  The background thread writes to manual_compaction_ without looking
\* whether it is still there.
MergeEnds(fails, files) ==
    /\ l0' = files
    /\ bgError' = (bgError \/ fails)
    /\ IF bgManual = None THEN UNCHANGED <<manual, manualDone>>
       ELSE /\ manual' = None
            /\ manualDone' = IF fails THEN manualDone \cup ({manual} \ {None}) ELSE manualDone
    /\ bgManual' = None
    /\ IF bgManual # None /\ manual = None THEN bg' = "crashed" /\ UNCHANGED asleep
       ELSE CallEnds(hasImm, manual' # None, files, bgError')
    /\ UNCHANGED <<callVars, writing, mem, imm, hasImm, tables, logs, shuttingDown>>

Merge == /\ bg = "merge" /\ ~shuttingDown
         /\ \E files \in 0 .. l0 : files < l0 /\ MergeEnds(FALSE, files)

MergeFails == bg = "merge" /\ (Faults \/ shuttingDown) /\ MergeEnds(TRUE, l0)

-----------------------------------------------------------------------------
(* CompactRange, and closing.                                              *)

\* TEST_CompactMemTable waits until the old memtable is written out.
CompactRangeWaits(t) ==
    /\ pc[t] = "imm" /\ t \notin asleep
    /\ IF status[t] = "ok" /\ hasImm /\ ~bgError
       THEN asleep' = asleep \cup {t} /\ UNCHANGED pc
       ELSE pc' = [pc EXCEPT ![t] = "manual"] /\ UNCHANGED asleep
    /\ UNCHANGED <<queue, status, writing, memory, logs, bgVars>>

\* TEST_CompactRange, once: it leaves its range in manual_compaction_ and waits, and takes
\* it back when there was an error.
CompactRange(t) ==
    /\ pc[t] = "manual" /\ t \notin asleep
    /\ IF t \notin manualDone /\ ~shuttingDown /\ ~bgError
       THEN /\ asleep' = asleep \cup {t}
            /\ manual' = IF manual = None THEN t ELSE manual
            /\ bg' = Scheduled(bg, hasImm, TRUE, l0, FALSE)
            /\ UNCHANGED pc
       ELSE /\ manual' = IF manual = t THEN None ELSE manual
            /\ pc' = [pc EXCEPT ![t] = "returned"]
            /\ UNCHANGED <<asleep, bg>>
    /\ UNCHANGED <<queue, status, writing, memory, logs, bgManual, bgError, manualDone,
                   shuttingDown>>

\* The destructor; nobody else uses the database any more.
Close ==
    /\ ~shuttingDown /\ \A t \in Threads : pc[t] \in {"idle", "returned"}
    /\ shuttingDown' = TRUE
    /\ UNCHANGED <<callVars, asleep, writing, memory, logs, bg, bgManual, bgError, manual,
                   manualDone>>

Step(t) ==
    \/ WokenDone(t)
    \/ RoomError(t) \/ RoomSlow(t) \/ Slept(t) \/ RoomThere(t) \/ RoomWait(t)
    \/ RoomSwitch(t) \/ RoomFails(t)
    \/ AddRecord(t) \/ AddRecordFails(t) \/ SyncLog(t) \/ SyncFails(t)
    \/ InsertInto(t) \/ WriteDone(t)
    \/ CompactRangeWaits(t) \/ CompactRange(t)

Background ==
    BackgroundCall \/ CompactMemTable \/ CompactMemTableFails \/ Merge \/ MergeFails

\* The process ends when the background thread crashes: what the others still do is of no
\* consequence.
Next ==
    \/ \E t \in Threads : Write(t) \/ Step(t)
    \/ Background
    \/ Close

Spec == Init /\ [][Next]_vars

\* The threads that have begun and the background thread are scheduled, and files answer.
Fairness ==
    /\ \A t \in Threads : WF_vars(Step(t))
    /\ WF_vars(Background)

FairSpec == Spec /\ Fairness

-----------------------------------------------------------------------------
(* Properties.                                                             *)

\* One thread at a time writes the log and the memtable, the first in the queue.
OneLogger ==
    \A t \in Threads :
        pc[t] \in {"slow", "logging", "syncing", "inserting"} => queue # <<>> /\ t = Head(queue)

Stored == mem \cup imm \cup tables
Visible == {e \in Stored : e.seq <= lastSequence}

\* A reader takes last_sequence_ and the memtables under the lock and looks without it: what
\* it sees are whole batches.
WholeBatches ==
    \A e \in Visible : Cardinality({o \in Visible : o.of = e.of}) = BatchSize

\* Every entry that is not in a table yet is in the log that goes with its memtable, so that
\* what is in memory can be rebuilt; and the memtables are in the order of the writes.
LogCovers ==
    /\ \A e \in mem : e.of \in log
    /\ \A e \in imm : e.of \in oldLog
    /\ \A e \in mem : \A o \in imm \cup tables : o.seq < e.seq
    /\ \A e \in imm : \A o \in tables : o.seq < e.seq

\* A write that wanted a sync and succeeded was synced, or is in a table, whoever wrote it.
SyncKept ==
    \A w \in Sync : status[w] = "ok" => w \in synced \/ \E e \in tables : e.of = w

Seen == {w \in Writers : \E e \in Visible : e.of = w}

Writes == INSTANCE AtomicWrites WITH
    Batches <- Writers, applied <- Seen,
    outcome <- [w \in Writers |-> IF pc[w] = "idle" THEN "none"
                                  ELSE IF status[w] = "none" THEN "called" ELSE status[w]]

\* Write is atomic: the batches of a group are seen together, when the lock is taken again,
\* and a call succeeds exactly when its batch is seen.
ImplementsAtomicWrites == Writes!Spec

\* The queue, the logs and the memtables, as writers, readers and a recovery rely on them.
QueueTrue == TypeOK /\ OneLogger /\ WholeBatches /\ LogCovers /\ SyncKept

\* Every call returns, whoever waits for whom.
EveryCallReturns ==
    \A t \in Threads : pc[t] = "queued" ~> (pc[t] = "returned" \/ bg = "crashed")

\* And so does the destructor.
CloseReturns == shuttingDown ~> bg \in {"idle", "crashed"}

\* Nobody waits for ever for somebody who waits.
CallsReturn == EveryCallReturns /\ CloseReturns
=============================================================================
