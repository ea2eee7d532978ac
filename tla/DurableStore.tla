---------------------------- MODULE DurableStore ----------------------------
(***************************************************************************)
(* What LevelDB keeps on the disk (db/db_impl.cc, db/version_set.cc): logs,*)
(* tables, manifests and CURRENT; writing and switching logs, flushing and *)
(* merging tables, deleting files nobody needs, opening after the process  *)
(* or the machine has stopped, and FLevelDBStorageEngine, which empties a  *)
(* store that does not open.                                               *)
(*                                                                         *)
(* A batch is its sequence number.  Which level a table is at, and which   *)
(* entries a merge drops, is LevelTree's; the queue of writers is          *)
(* WriteQueue's: here one of them writes.                                  *)
(*                                                                         *)
(* The disk: a file has the data the system was given and, of it, what an  *)
(* fsync has made safe.  A power failure takes the directory back to any   *)
(* state it has had since it was last made safe.  On a Journaled disk each *)
(* fsync makes it safe, and any prefix of the other data may have been     *)
(* written; on one that is not, the data that was not synced is lost, and  *)
(* only the Sync of a manifest, which syncs the directory, makes names safe.*)
(***************************************************************************)
EXTENDS Naturals, Sequences, FiniteSets, FiniteSetsExt

CONSTANTS
    Tear,       \* the beginning of a record whose write failed
    None,
    MaxSequence, MaxFile,   \* bounds of the model: batches, and file numbers of jobs
    Disks       \* the kinds of disk

ASSUME DurableStoreAssumption ==
    /\ {MaxSequence, MaxFile} \subseteq Nat
    /\ \A d \in Disks :
          /\ {d.powerFails, d.journaled, d.iterators} \subseteq BOOLEAN
          /\ d.logFaults \subseteq {"tear", "sync"}
          /\ d.jobFaults \subseteq {"nothing", "tear", "sync", "table"}
          /\ d.maxBatches \in 0 .. MaxSequence /\ d.maxStops \in Nat

VARIABLES
    disk,     \* the kind of disk this behaviour is about; it never changes
    files,    \* what has been written, per file
    dir,      \* the directory: names, and CURRENT (0: there is none)
    earlier,  \* what a power failure may turn dir into
    db,       \* the DBImpl and its VersionSet
    acked,    \* history: the batches whose Write has returned OK, and
    safe,     \* those of them with sync
    stops     \* how often everything has stopped

vars == <<disk, files, dir, earlier, db, acked, safe, stops>>

\* Of the disk: the machine may stop, not only the process; fsync makes names safe; how a
\* write of the log may fail ("tear", "sync"), and one of the manifest ("nothing", "tear",
\* "sync") or a "table"; there are readers that keep a version; and two bounds.
PowerFails == disk.powerFails
Journaled == disk.journaled
LogFaults == disk.logFaults
JobFaults == disk.jobFaults
Iterators == disk.iterators
MaxBatches == disk.maxBatches
MaxStops == disk.maxStops

----------------------------------------------------------------------------
(* Files. *)

Log(n) == <<"log", n>>
Table(n) == <<"table", n>>
Manifest(n) == <<"manifest", n>>
Numbers(kind, d) == {f[2] : f \in {g \in d.names : g[1] = kind}}

\* A VersionEdit, and what a manifest that holds edits s describes.
Edits == [add : SUBSET Nat, del : SUBSET Nat, log : Nat, next : Nat, last : Nat]
Edit(add, del, log, next, last) ==
    [add |-> add, del |-> del, log |-> log, next |-> next, last |-> last]
At(s) == IF s = <<>> THEN Edit({}, {}, 0, 0, 0) ELSE s[Len(s)]
Replay(s) ==
    [tables |-> {t \in UNION {s[i].add : i \in DOMAIN s} :
                   \E i \in DOMAIN s : /\ t \in s[i].add
                                       /\ \A j \in i .. Len(s) : t \notin s[j].del},
     log |-> At(s).log, next |-> At(s).next, last |-> At(s).last]

\* The records the log reader returns: a torn one ends the file for it.
Records(s) ==
    IF \E i \in DOMAIN s : s[i] = Tear
    THEN SubSeq(s, 1, Min({i \in DOMAIN s : s[i] = Tear}) - 1) ELSE s
Garbled(s) == \E i \in 1 .. Len(s) - 1 : s[i] = Tear

\* Why VersionSet::Recover and DBImpl::Recover refuse to open: a record of the manifest
\* is torn and not the last, there is none, or a table is missing.  (Or it says nothing of
\* the next file number, the log number or the last sequence number: the first record of
\* every manifest the code writes says all three.)
Corrupt(fs, d) ==
    \/ Manifest(d.current) \notin d.names
    \/ Garbled(fs[Manifest(d.current)].data)
    \/ Records(fs[Manifest(d.current)].data) = <<>>
    \/ \E t \in Replay(Records(fs[Manifest(d.current)].data)).tables :
          Table(t) \notin d.names

LogsFrom(n, d) == {l \in Numbers("log", d) : l >= n}
InLog(l, fs) == {Records(fs[Log(l)].data)[i] : i \in DOMAIN Records(fs[Log(l)].data)}
InTables(ts, fs) == UNION {fs[f].data[1] : f \in {Table(t) : t \in ts} \cap DOMAIN fs}
Recoverable ==
    IF Manifest(dir.current) \notin dir.names THEN {}
    ELSE LET v == Replay(Records(files[Manifest(dir.current)].data))
         IN  InTables(v.tables, files)
                \cup UNION {InLog(l, files) : l \in LogsFrom(v.log, dir)}

\* NewWritableFile, Append, Sync; each returns the new files.
With(f, data, synced) ==
    [g \in DOMAIN files \cup {f} |->
        IF g = f THEN [data |-> data, synced |-> synced] ELSE files[g]]
Appended(f, x) == With(f, Append(files[f].data, x), files[f].synced)
Synced(f, fs) == [fs EXCEPT ![f].synced = Len(fs[f].data)]

\* What a power failure may still make of the directory once it is dir', if `since' are
\* the states it has had since it was last safe; what an fsync of a file leaves of them.
Past(since) == earlier' = IF PowerFails THEN since \ {dir'} ELSE {}

AfterSync(isManifest) == IF Journaled \/ isManifest THEN {} ELSE earlier

\* Table t is written and synced.
NewTable(t, batches) ==
    /\ files' = With(Table(t), <<batches>>, 1)
    /\ dir' = [dir EXCEPT !.names = @ \cup {Table(t)}]
    /\ Past(IF Journaled THEN {} ELSE earlier \cup {dir})

----------------------------------------------------------------------------
(* The store in memory. *)

\* The writer at the head of the queue, the merge, and the edit of the job under way.
Writers == [n : Nat, sync : BOOLEAN, status : {"ok", "error", "unsynced"}]
Merges == [inputs : SUBSET Nat, base : SUBSET Nat, out : Nat]
Jobs == [for : {"open", "flush", "merge"}, is : Edits, written : BOOLEAN]

\* A torn record is no batch and no edit; None is none of these.
ASSUME DurableStoreNone ==
    Tear \notin Nat \cup Edits /\ None \notin Writers \cup Merges \cup Jobs

Closed == [phase |-> "closed", mem |-> {}, imm |-> {}, logfile |-> 0, logNumber |-> 0,
           version |-> {}, nextFile |-> 2, manifest |-> 0, lastSequence |-> 0,
           bgError |-> FALSE, pending |-> {}, held |-> {}, writer |-> None,
           flush |-> 0, merge |-> None, edit |-> None, left |-> {}, found |-> {}]

Init ==
    /\ disk \in Disks
    /\ files = [f \in {} |-> None]
    /\ dir = [names |-> {}, current |-> 0]
    /\ earlier = {} /\ db = Closed /\ acked = {} /\ safe = {} /\ stops = 0

Up == db.phase = "up"
Visible == db.mem \cup db.imm \cup InTables(db.version, files)

Version(d) == d.version \cup (UNION d.held) \cup (IF d.merge = None THEN {} ELSE d.merge.base)

\* Mutant: the log of imm_ is not counted.
KeptFromLogfile(d) ==
    IF d.bgError THEN dir.names
    ELSE {f \in dir.names :
            \/ f[1] = "log" /\ f[2] >= d.logfile
            \/ f[1] = "manifest" /\ f[2] >= d.manifest
            \/ f[1] = "table" /\ f[2] \in d.pending \cup Version(d)}

\* DeleteObsoleteFiles with the store in state d.
Kept(d) ==
    IF d.bgError THEN dir.names
    ELSE {f \in dir.names :
            \/ f[1] = "log" /\ f[2] >= d.logNumber
            \/ f[1] = "manifest" /\ f[2] >= d.manifest
            \/ f[1] = "table" /\ f[2] \in d.pending \cup Version(d)}

\* The store becomes d, CURRENT c, and files nobody needs are deleted.
Installed(d, c, since, fs) ==
    /\ db' = d
    /\ dir' = [names |-> Kept(d), current |-> c]
    /\ Past(since \cup {dir, [dir EXCEPT !.current = c]})
    /\ files' = [f \in UNION {e.names : e \in earlier' \cup {dir'}} |-> fs[f]]

Unchanged == UNCHANGED <<acked, safe, stops>>

----------------------------------------------------------------------------
(* Opening. *)

\* A manifest that nothing syncs, and a CURRENT that names it.
NewDB ==
    /\ db.phase = "closed" /\ dir.current = 0
    /\ files' = With(Manifest(1), <<Edit({}, {}, 0, 2, 0)>>, 0)
    /\ LET named == [dir EXCEPT !.names = @ \cup {Manifest(1)}]
       IN  /\ dir' = [named EXCEPT !.current = 1]
           /\ Past((IF Journaled THEN {} ELSE earlier \cup {dir}) \cup {named})
    /\ UNCHANGED db /\ Unchanged

\* The manifest is read; the logs it does not cover will be.
Recover ==
    /\ db.phase = "closed" /\ dir.current # 0 /\ ~Corrupt(files, dir)
    /\ LET v == Replay(Records(files[Manifest(dir.current)].data))
       IN  db' = [Closed EXCEPT !.phase = "logs", !.version = v.tables, !.logNumber = v.log,
                                !.manifest = v.next, !.nextFile = v.next + 1,
                                !.lastSequence = v.last, !.left = LogsFrom(v.log, dir)]
    /\ UNCHANGED <<files, dir, earlier>> /\ Unchanged

\* One log becomes a table, if it holds anything.
RecoverLogFile ==
    /\ db.phase = "logs" /\ db.left # {}
    /\ LET l == Min(db.left)
           batches == InLog(l, files)
           t == db.nextFile
           used == IF batches = {} THEN t ELSE t + 1
       IN  /\ db' = [db EXCEPT !.left = @ \ {l},
                               !.found = IF batches = {} THEN @ ELSE @ \cup {t},
                               !.nextFile = Max({used, l + 1}),
                               !.lastSequence = Max(batches \cup {@})]
           /\ IF batches = {} THEN UNCHANGED <<files, dir, earlier>>
              ELSE NewTable(t, batches)
    /\ Unchanged

\* A new log, and a new manifest with the tables as they were and those just made.
NewManifest ==
    /\ db.phase = "logs" /\ db.left = {}
    /\ LET l == db.nextFile
           snapshot == Edit(db.version, {}, 0, 0, 0)
           edit == Edit(db.found, {}, l, l + 1, db.lastSequence)
           named == [dir EXCEPT !.names = @ \cup {Log(l)}]
       IN  /\ db' = [db EXCEPT !.phase = "manifest", !.logfile = l, !.nextFile = l + 1,
                               !.edit = [for |-> "open", is |-> edit, written |-> TRUE]]
           /\ files' = [f \in DOMAIN files \cup {Log(l), Manifest(db.manifest)} |->
                          IF f = Log(l) THEN [data |-> <<>>, synced |-> 0]
                          ELSE IF f = Manifest(db.manifest)
                               THEN [data |-> <<snapshot, edit>>, synced |-> 0]
                               ELSE files[f]]
           /\ dir' = [named EXCEPT !.names = @ \cup {Manifest(db.manifest)}]
           /\ Past(earlier \cup {dir, named})
    /\ Unchanged

\* Mutant: CURRENT is set before the manifest is synced.
SyncManifestLater ==
    /\ db.phase = "manifest"
    /\ db' = [db EXCEPT !.phase = "current"]
    /\ UNCHANGED <<files, dir, earlier>>
    /\ Unchanged

SyncManifest ==
    /\ db.phase = "manifest"
    /\ db' = [db EXCEPT !.phase = "current"]
    /\ files' = Synced(Manifest(db.manifest), files)
    /\ UNCHANGED dir /\ Past(AfterSync(TRUE))
    /\ Unchanged

\* CURRENT is renamed into place and the store is open.
SetCurrentFile ==
    /\ db.phase = "current"
    /\ Installed([db EXCEPT !.phase = "up", !.version = @ \cup db.found, !.found = {},
                            !.logNumber = db.logfile, !.edit = None],
                 db.manifest, AfterSync(FALSE), files)
    /\ Unchanged

\* FLevelDBStorageEngine createDB: a store that does not open is removed, whatever the
\* error was; here it is one of those found in the files.
PurgeDatabase ==
    /\ db.phase = "closed" /\ dir.current # 0 /\ Corrupt(files, dir)
    /\ files' = [f \in {} |-> None]
    /\ dir' = [names |-> {}, current |-> 0] /\ earlier' = {}
    /\ acked' = {} /\ safe' = {}
    /\ UNCHANGED <<db, stops>>

----------------------------------------------------------------------------
(* Writing. *)

\* The record is added to the log, and the log is synced if the caller asked for it.
AddRecord(sync) ==
    /\ Up /\ db.writer = None /\ ~db.bgError
    /\ db.lastSequence < MaxBatches
    /\ LET n == db.lastSequence + 1
           log == Log(db.logfile)
           writer(s) == [db EXCEPT !.writer = [n |-> n, sync |-> sync, status |-> s]]
       IN  \/ /\ db' = writer("ok")
              /\ IF sync THEN /\ files' = Synced(log, Appended(log, n))
                              /\ earlier' = AfterSync(FALSE)
                 ELSE files' = Appended(log, n) /\ UNCHANGED earlier
           \/ /\ "tear" \in LogFaults /\ db' = writer("error")
              /\ files' = Appended(log, Tear) /\ UNCHANGED earlier
           \/ /\ "sync" \in LogFaults /\ sync /\ db' = writer("unsynced")
              /\ files' = Appended(log, n) /\ UNCHANGED earlier
    /\ UNCHANGED dir /\ Unchanged

\* The batch goes into mem_; the sequence number is used up whether or not it does.
InsertInto ==
    /\ Up /\ db.writer # None
    /\ LET w == db.writer
           ok == w.status = "ok"
       IN  /\ db' = [db EXCEPT !.writer = None, !.lastSequence = w.n,
                               !.mem = IF ok THEN @ \cup {w.n} ELSE @,
                               !.bgError = @ \/ w.status = "unsynced"]
           /\ acked' = IF ok THEN acked \cup {w.n} ELSE acked
           /\ safe' = IF ok /\ w.sync THEN safe \cup {w.n} ELSE safe
    /\ UNCHANGED <<files, dir, earlier, stops>>

\* MakeRoomForWrite: the memtable is full, a new log is begun.
SwitchMemTable ==
    /\ Up /\ db.writer = None /\ ~db.bgError /\ db.mem # {} /\ db.imm = {}
    /\ db.nextFile < MaxFile
    /\ LET l == db.nextFile
       IN  /\ db' = [db EXCEPT !.logfile = l, !.nextFile = l + 1,
                               !.imm = db.mem, !.mem = {}]
           /\ files' = With(Log(l), <<>>, 0)
           /\ dir' = [dir EXCEPT !.names = @ \cup {Log(l)}]
           /\ Past(earlier \cup {dir})
    /\ Unchanged

\* An iterator keeps the version it was made for, until it is deleted.
NewIterator == /\ Up /\ Iterators /\ db.held = {}
               /\ db' = [db EXCEPT !.held = {db.version}]
               /\ UNCHANGED <<files, dir, earlier>> /\ Unchanged

CleanupIteratorState == /\ Up /\ db.held # {}
                        /\ db' = [db EXCEPT !.held = {}]
                        /\ UNCHANGED <<files, dir, earlier>> /\ Unchanged

----------------------------------------------------------------------------
(* The background thread. *)

Edited(job, edit) == [for |-> job, is |-> edit, written |-> FALSE]

\* CompactMemTable begins; also in the middle of a merge, whatever errors there were.
BeginFlush ==
    /\ Up /\ db.imm # {} /\ db.flush = 0 /\ db.edit = None
    /\ db.merge = None => ~db.bgError
    /\ db.nextFile < MaxFile
    /\ db' = [db EXCEPT !.flush = db.nextFile, !.nextFile = @ + 1,
                        !.pending = @ \cup {db.nextFile}]
    /\ UNCHANGED <<files, dir, earlier>> /\ Unchanged

\* The table of imm_ is on the disk, and the edit that brings it in is made; or BuildTable
\* fails and has deleted the file.
WriteLevel0Table ==
    /\ Up /\ db.flush # 0 /\ db.edit = None
    /\ LET t == db.flush
           built == [db EXCEPT !.pending = @ \ {t}]
           edit == Edit({t}, {}, db.logfile, db.nextFile, db.lastSequence)
       IN  \/ /\ db' = [built EXCEPT !.edit = Edited("flush", edit)]
              /\ NewTable(t, db.imm)
           \/ /\ "table" \in JobFaults
              /\ db' = [built EXCEPT !.flush = 0, !.bgError = TRUE]
              /\ UNCHANGED <<files, dir, earlier>>
    /\ Unchanged

\* A merge of some tables of the current version begins, and names its output.
BeginMerge ==
    /\ Up /\ db.imm = {} /\ db.flush = 0 /\ db.edit = None /\ db.merge = None /\ ~db.bgError
    /\ db.nextFile < MaxFile
    /\ \E inputs \in SUBSET db.version :
          /\ Cardinality(inputs) >= 2
          /\ db' = [db EXCEPT !.merge = [inputs |-> inputs, base |-> db.version,
                                         out |-> db.nextFile],
                              !.nextFile = @ + 1, !.pending = @ \cup {db.nextFile}]
    /\ UNCHANGED <<files, dir, earlier>> /\ Unchanged

\* Mutant: the edit drops the log of imm_.
FinishMergeEarly ==
    /\ Up /\ db.merge # None /\ db.flush = 0 /\ db.edit = None
    /\ LET m == db.merge
           edit == Edit({m.out}, m.inputs, db.logfile, db.nextFile, db.lastSequence)
       IN  \/ /\ db' = [db EXCEPT !.edit = Edited("merge", edit)]
              /\ NewTable(m.out, InTables(m.inputs, files))
           \/ /\ "table" \in JobFaults
              /\ db' = [db EXCEPT !.merge = None, !.pending = @ \ {m.out}, !.bgError = TRUE]
              /\ NewTable(m.out, {})
    /\ Unchanged

\* The output is on the disk and replaces the inputs in the edit; or the merge fails, and
\* whatever it has written stays.
FinishMerge ==
    /\ Up /\ db.merge # None /\ db.flush = 0 /\ db.edit = None
    /\ LET m == db.merge
           edit == Edit({m.out}, m.inputs, db.logNumber, db.nextFile, db.lastSequence)
       IN  \/ /\ db' = [db EXCEPT !.edit = Edited("merge", edit)]
              /\ NewTable(m.out, InTables(m.inputs, files))
           \/ /\ "table" \in JobFaults
              /\ db' = [db EXCEPT !.merge = None, !.pending = @ \ {m.out}, !.bgError = TRUE]
              /\ NewTable(m.out, {})
    /\ Unchanged

\* The state after the edit is over: its job is done, or has failed.
Over(d) ==
    [d EXCEPT !.edit = None, !.flush = 0,
              !.merge = IF d.edit.for = "merge" THEN None ELSE @,
              !.pending = IF d.edit.for = "merge" THEN @ \ {d.merge.out} ELSE @]

\* LogAndApply fails: RecordBackgroundError.
EditFails == db' = [Over(db) EXCEPT !.bgError = TRUE]

\* LogAndApply: the edit is added to the manifest.
AddEdit ==
    /\ Up /\ db.edit # None /\ ~db.edit.written
    /\ LET m == Manifest(db.manifest)
       IN  \/ files' = Appended(m, db.edit.is) /\ db' = [db EXCEPT !.edit.written = TRUE]
           \/ "nothing" \in JobFaults /\ EditFails /\ UNCHANGED files
           \/ "tear" \in JobFaults /\ EditFails /\ files' = Appended(m, Tear)
    /\ UNCHANGED <<dir, earlier>> /\ Unchanged

\* The manifest is synced and the new version installed.
LogAndApply ==
    /\ Up /\ db.edit # None /\ db.edit.written
    /\ LET e == db.edit.is
           done == [Over(db) EXCEPT !.version = (@ \ e.del) \cup e.add, !.logNumber = e.log,
                                    !.imm = IF db.edit.for = "flush" THEN {} ELSE @]
           fs == Synced(Manifest(db.manifest), files)
       IN  \/ Installed(done, dir.current, AfterSync(TRUE), fs)
           \/ /\ "sync" \in JobFaults
              /\ EditFails /\ UNCHANGED <<files, dir, earlier>>
    /\ Unchanged

----------------------------------------------------------------------------
(* Stopping. *)

\* What is seen, or would be if the store were opened now: one that does not open is emptied.
Content == IF Up THEN Visible ELSE IF Corrupt(files, dir) THEN {} ELSE Recoverable

\* The process ends, or the store is closed: what was given to the system is kept.
ProcessStops ==
    /\ db.phase # "closed" /\ stops < MaxStops
    /\ stops' = stops + 1 /\ db' = Closed
    /\ UNCHANGED <<files, dir, earlier, acked, safe>>

MachineStops ==
    /\ PowerFails /\ stops < MaxStops
    /\ stops' = stops + 1 /\ db' = Closed /\ earlier' = {}
    /\ \E d \in earlier \cup {dir} :
          /\ dir' = d
          /\ LET loose == {f \in d.names : files[f].synced < Len(files[f].data)}
                 most == Max({0} \cup {Len(files[f].data) : f \in loose})
             IN  \E cut \in [loose -> 0 .. most] :
                    /\ \A f \in loose : cut[f] \in files[f].synced ..
                          (IF Journaled THEN Len(files[f].data) ELSE files[f].synced)
                    /\ files' = [f \in d.names |->
                                   IF f \notin loose THEN files[f]
                                   ELSE [data |-> SubSeq(files[f].data, 1, cut[f]),
                                         synced |-> cut[f]]]
    /\ acked' = safe \cup (acked \cap Content')
    /\ UNCHANGED safe

Next ==
    /\ UNCHANGED disk
    /\ \/ NewDB \/ Recover \/ RecoverLogFile \/ NewManifest \/ SyncManifest \/ SetCurrentFile
       \/ PurgeDatabase
       \/ \E sync \in BOOLEAN : AddRecord(sync)
       \/ InsertInto \/ SwitchMemTable
       \/ NewIterator \/ CleanupIteratorState
       \/ BeginFlush \/ WriteLevel0Table \/ BeginMerge \/ FinishMerge \/ AddEdit \/ LogAndApply
       \/ ProcessStops \/ MachineStops

Spec == Init /\ [][Next]_vars

----------------------------------------------------------------------------
(* Properties. *)

Files == {"log", "table", "manifest"} \X Nat
Batches == 1 .. MaxSequence

\* The types of the files, the directory and the store's fields.
TypeOK ==
    /\ disk \in Disks
    /\ DOMAIN files \subseteq Files
    /\ \A f \in DOMAIN files : files[f].synced \in 0 .. Len(files[f].data)
    /\ \A d \in earlier \cup {dir} : d.names \subseteq DOMAIN files /\ d.current \in Nat
    /\ db.phase \in {"closed", "logs", "manifest", "current", "up"}
    /\ db.mem \cup db.imm \cup acked \cup safe \subseteq Batches
    /\ db.mem \cap db.imm = {}
    /\ Up => dir.current = db.manifest
    /\ db.pending \subseteq {db.flush} \cup (IF db.merge = None THEN {} ELSE {db.merge.out})
    /\ stops \in 0 .. MaxStops

\* A store that has once been open can always be opened again: whatever stopped and
\* wherever, the manifest CURRENT names is there, is whole, and its tables are there.
Openable == db.phase = "closed" /\ dir.current > 1 => ~Corrupt(files, dir)

\* The files that readers, merges and the current version use are on the disk
\* (DeleteObsoleteFiles, pending_outputs_), and so are the logs of both memtables.
FilesInUseExist ==
    Up => /\ \A t \in Version(db) : Table(t) \in dir.names
          /\ db.mem \cup db.imm \subseteq
                UNION {InLog(l, files) : l \in LogsFrom(db.logNumber, dir)}

\* No number is given out twice while it matters: the next file written is none that
\* is in use, and the next batch comes after all that a read or a recovery can meet.
NumbersAhead ==
    /\ db.phase \in {"logs", "manifest"} => db.manifest # dir.current
    /\ Up => /\ \A f \in dir.names :
                   f[2] >= db.nextFile => f[1] = "table" /\ f[2] \notin Version(db)
             /\ \A n \in Visible \cup Recoverable :
                   n <= db.lastSequence \/ (db.writer # None /\ n = db.writer.n)

\* Whatever fails, only a torn record inside the manifest keeps the store from being
\* opened: after an error no file that some manifest may name is deleted.
OpensUnlessGarbled ==
    \/ Openable
    \/ Manifest(dir.current) \in dir.names /\ Garbled(files[Manifest(dir.current)].data)

\* Batches whose Write returned OK are never lost when only the process stops, and
\* those written with sync not when the machine does.
AckedKept == acked \subseteq Content /\ acked \subseteq Recoverable

\* Names reach the disk in order, and no record is torn.
Orderly == (Journaled \/ ~PowerFails) /\ "tear" \notin LogFaults \cup JobFaults

\* What can always be opened again: any store that has once been open, but where writes
\* tear only unless the manifest is torn.
StoreOpens == IF "tear" \in JobFaults THEN OpensUnlessGarbled ELSE Openable

\* The files and numbers the store relies on, and what it has promised to keep.
FilesTrue ==
    /\ TypeOK /\ NumbersAhead
    /\ Orderly => FilesInUseExist /\ AckedKept

\* The store on an orderly disk keeps what DurableMap promises.
Abstract == INSTANCE DurableMap WITH stored <- Content

\* Every step but a power failure adds what is written, or changes nothing of what is seen.
ImplementsDurableMap ==
    /\ Abstract!Init
    /\ [][Orderly => \/ Abstract!Write
                     \/ MachineStops /\ Abstract!PowerFailure]_<<Content, safe>>
=============================================================================
