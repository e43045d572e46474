------------------------------- MODULE DBImpl -------------------------------
(***************************************************************************)
(* The store of the server: RocksDB (lib/rocksdb-master) as BaseDeDatos    *)
(* uses it.  One column family, write-ahead log without sync, level        *)
(* compaction, one flush thread, several compaction threads, no snapshots, *)
(* no merge operator.  The requests of the server are served one at a      *)
(* time, so there is one client, which writes or reads.                    *)
(*                                                                         *)
(* The mutex of DBImpl is not modelled: a step is what a thread does from  *)
(* one release of it to the next, or what it does without it.  A crash     *)
(* (the end of the process; the machine stays up) may fall between any two *)
(* steps and leaves logs, tables and manifest.                             *)
(*                                                                         *)
(* Abstractions.  An entry is a key, its sequence number, which stands for *)
(* the value as well, and whether it is a deletion.  Memtables, logs and   *)
(* tables are sets of entries, a version is a set of <<level, file>>.      *)
(* Sizes are not modelled: a memtable is found full after some number of   *)
(* writes, a level above 0 may have to be compacted at any time, and a     *)
(* compaction may cut its output anywhere.                                 *)
(*                                                                         *)
(* The model allows a little more than the code.  The steps of a job after *)
(* LogAndApply form a step of their own, although the writer that leads    *)
(* the batch takes it with the install.  Every job ends with the full scan *)
(* of FindObsoleteFiles, which the code makes after a failure only (it     *)
(* otherwise lists the files no version refers to any more).  A purge      *)
(* deletes its list in one step.  Left out: a table cut short by a crash   *)
(* or an error, which no version names and the next scan deletes; the      *)
(* order in which the picker prefers the files of a level; and the zero    *)
(* that replaces the sequence numbers of the last level.                   *)
(***************************************************************************)
EXTENDS Integers, Sequences, FiniteSets, FiniteSetsExt

CONSTANTS
    Keys,           \* the keys, numbers (their order is the comparator's)
    Compactors,     \* the compaction threads (max_background_compactions)
    Flusher,        \* the flush thread (max_background_flushes = 1)
    NumLevels,      \* num_levels
    MinMerge,       \* min_write_buffer_number_to_merge
    MaxBuffers,     \* max_write_buffer_number
    L0Trigger,      \* level0_file_num_compaction_trigger
    L0Stop,         \* level0_stop_writes_trigger
    MinFill, MaxFill, \* a memtable is full with some number of entries in between
    Faults,         \* the calls that may fail: "log", "newlog", "table", "manifest"
    MaxSeq,         \* bound on the writes
    MaxCrashes,     \* bound on the crashes
    MaxFailures     \* bound on the failed calls

ASSUME DBConstants ==
    /\ Keys \subseteq Nat
    /\ Flusher \notin Compactors
    /\ {NumLevels, MinMerge, L0Trigger, MinFill, MaxFill} \subseteq Nat \ {0}
    /\ MaxBuffers \in Nat /\ L0Stop \in Nat
    /\ {MaxSeq, MaxCrashes, MaxFailures} \subseteq Nat

(* SanitizeOptions: fewer memtables are awaited than stop the writes.      *)
ASSUME Sanitized == MinMerge <= MaxBuffers - 1 /\ L0Trigger <= L0Stop

VARIABLES
    \* on disk
    logs,           \* log number -> [data |-> entries, torn |-> BOOLEAN]
    tables,         \* table number -> entries
    manifest,       \* what the MANIFEST says
    \* in memory
    status,         \* "down", "recovering", "installed" or "open"
    mem,            \* the active memtable
    imm,            \* the immutable ones, oldest first
    full,           \* flush_scheduler_ is not empty
    current,        \* the current version
    log_number,     \* ColumnFamilyData::log_number_
    logfile_number, \* the active log
    next_file,      \* VersionSet::next_file_number_
    last_sequence,  \* VersionSet::last_sequence_
    bg_error,       \* bg_error_ is not OK
    flush_queued,   \* pending_flush_
    compact_queued, \* pending_compaction_, for level 0
    client,         \* the thread that serves the request
    job,            \* the background threads
    manifest_writers, \* threads waiting in LogAndApply, in order
    writing,        \* the batch the first of them is writing
    crashes, failures

disk == <<logs, tables, manifest>>

memory == <<mem, imm, full, current, log_number, logfile_number, next_file,
            last_sequence, bg_error, flush_queued, compact_queued>>

threads == <<client, job, manifest_writers, writing>>

counters == <<crashes, failures>>

varsDB == <<disk, status, memory, threads, counters>>

Levels == 0 .. NumLevels - 1

Threads == Compactors \cup {Flusher}

Entries == [key : Keys, seq : 1 .. MaxSeq, del : BOOLEAN]

------------------------------------------------------------------------------
(* Entries and tables.                                                     *)

(* The newest entry of each key: what is left when those hidden by a newer *)
(* one are dropped.                                                        *)
Newest(E) == {e \in E : \A d \in E : d.key = e.key => d.seq <= e.seq}

(* What a table on disk holds (a deleted one holds nothing).               *)
Contents(f) == IF f \in DOMAIN tables THEN tables[f] ELSE {}

FilesAt(v, l) == {p[2] : p \in {q \in v : q[1] = l}}

FilesOf(v) == {p[2] : p \in v}

KeysOf(F) == {e.key : e \in UNION {Contents(f) : f \in F}}

(* The files of F whose key range meets that of the files of G.            *)
Overlapping(F, G) ==
    {f \in F : \E a, b \in KeysOf(G), c, d \in KeysOf({f}) : a <= d /\ c <= b}

(* The files of F that have key k in their range.                          *)
InRange(F, k) == {f \in F : \E c, d \in KeysOf({f}) : c <= k /\ k <= d}

(* The files of a level that overlap those of G; at level 0 the range      *)
(* grows with every file found, so the least set closed under that.        *)
GetOverlappingInputs(v, l, G) ==
    LET F == FilesAt(v, l)
    IN IF l > 0 THEN Overlapping(F, G)
       ELSE {f \in F : \A H \in SUBSET F : Overlapping(F, G \cup H) \subseteq H => f \in H}

Apply(v, e) == (v \ e.del) \cup e.add

NoEdit == [del |-> {}, add |-> {}, log |-> 0]

NoDead == [tables |-> {}, logs |-> {}]

EmptyLog == [data |-> {}, torn |-> FALSE]

Idle == [pc |-> "idle", e |-> {}, newlog |-> 0, mems |-> <<>>, version |-> {}]

NoJob == [pc |-> "idle", mems |-> 0, level |-> 0, in |-> {}, base |-> {},
          edit |-> NoEdit, pending |-> 0, dead |-> NoDead]

NoBatch == [n |-> 0, k |-> 0, version |-> {}, next_file |-> 0, last_sequence |-> 0]

InitDB ==
    /\ logs = [n \in {2} |-> EmptyLog]
    /\ tables = [n \in {} |-> {}]
    /\ manifest = [version |-> {}, log_number |-> 0, next_file |-> 2, last_sequence |-> 0]
    /\ status = "open"
    /\ mem = {} /\ imm = <<>> /\ full = FALSE
    /\ current = {} /\ log_number = 0 /\ logfile_number = 2
    /\ next_file = 3 /\ last_sequence = 0
    /\ bg_error = FALSE /\ flush_queued = FALSE /\ compact_queued = FALSE
    /\ client = Idle
    /\ job = [t \in Threads |-> NoJob]
    /\ manifest_writers = <<>> /\ writing = NoBatch
    /\ crashes = 0 /\ failures = 0

(* A call of the operating system fails.                                   *)
Fault(where) ==
    /\ where \in Faults /\ failures < MaxFailures
    /\ failures' = failures + 1 /\ UNCHANGED crashes

------------------------------------------------------------------------------
(* Scheduling.  j is the state of the threads, i the immutable memtables,  *)
(* v the current version: SchedulePendingFlush and                         *)
(* SchedulePendingCompaction look at them at the end of a step.            *)

(* MemTableList::IsFlushPending: enough memtables not being flushed.       *)
IsFlushPending(i, j) == Len(i) - j[Flusher].mems >= MinMerge

(* Seeded fault: a picked compaction does not reserve its inputs.          *)
BusyNone(j) == {}

Busy(j) == UNION {j[c].in : c \in Compactors}

(* Seeded fault: level 0 is compacted one file too late.                   *)
NeedsCompactionOver(v, j) ==
    Cardinality({p \in v : p[1] = 0} \ Busy(j)) > L0Trigger

(* CompactionScore of level 0: the files not being compacted.              *)
NeedsCompaction(v, j) ==
    Cardinality({p \in v : p[1] = 0} \ Busy(j)) >= L0Trigger

(* RecalculateWriteStallConditions.                                        *)
IsStopped(i, v) == Len(i) >= MaxBuffers \/ Cardinality(FilesAt(v, 0)) >= L0Stop

------------------------------------------------------------------------------
(* The write path: WriteImpl.                                              *)

(* The writer is alone in the queue.  If the memtable was found full it    *)
(* takes a number for a new log and releases the mutex to create it.       *)
Write(k, d) ==
    /\ status = "open" /\ client.pc = "idle" /\ last_sequence < MaxSeq
    /\ ~bg_error
    /\ client' = [Idle EXCEPT
            !.e = {[key |-> k, seq |-> last_sequence + 1, del |-> d]},
            !.newlog = IF full THEN next_file ELSE 0,
            !.pc = IF full THEN "switch"
                   ELSE IF IsStopped(imm, current) THEN "delay" ELSE "wal"]
    /\ full' = FALSE
    /\ next_file' = IF full THEN next_file + 1 ELSE next_file
    /\ UNCHANGED <<disk, status, mem, imm, current, log_number, logfile_number, last_sequence,
                   bg_error, flush_queued, compact_queued, job, manifest_writers, writing, counters>>

(* SetNewMemtableAndNewLogFile, once the log is created, and the rest of   *)
(* ScheduleFlushes.                                                        *)
SwitchMemtable ==
    /\ client.pc = "switch"
    /\ logs' = [n \in DOMAIN logs \cup {client.newlog} |->
                   IF n = client.newlog THEN EmptyLog ELSE logs[n]]
    /\ logfile_number' = client.newlog
    /\ imm' = Append(imm, [data |-> mem, next_log |-> client.newlog])
    /\ mem' = {}
    /\ flush_queued' = (flush_queued \/ IsFlushPending(imm', job))
    /\ client' = [client EXCEPT !.pc = IF IsStopped(imm', current) THEN "delay" ELSE "wal"]
    /\ UNCHANGED <<tables, manifest, status, full, current, log_number, next_file, last_sequence,
                   bg_error, compact_queued, job, manifest_writers, writing, counters>>

SwitchFails ==
    /\ client.pc = "switch" /\ Fault("newlog")
    /\ client' = Idle /\ bg_error' = TRUE
    /\ UNCHANGED <<disk, status, mem, imm, full, current, log_number, logfile_number, next_file,
                   last_sequence, flush_queued, compact_queued, job, manifest_writers, writing>>

(* DelayWrite: the writer waits while the writes are stopped, and gives up *)
(* if the store has failed.                                                *)
DelayWrite ==
    /\ client.pc = "delay"
    /\ ~IsStopped(imm, current) \/ bg_error
    /\ client' = IF bg_error THEN Idle ELSE [client EXCEPT !.pc = "wal"]
    /\ UNCHANGED <<disk, status, memory, job, manifest_writers, writing, counters>>

(* log::Writer::AddRecord flushes the record to the operating system; what *)
(* follows a torn record is never read again.                              *)
AddRecord ==
    /\ client.pc = "wal"
    /\ logs' = IF logs[logfile_number].torn THEN logs
               ELSE [logs EXCEPT ![logfile_number].data = @ \cup client.e]
    /\ client' = [client EXCEPT !.pc = "insert"]
    /\ UNCHANGED <<tables, manifest, status, memory, job, manifest_writers, writing, counters>>

(* "stop compaction & fail any further writes"                             *)
AddRecordFails ==
    /\ client.pc = "wal" /\ Fault("log")
    /\ logs' = [logs EXCEPT ![logfile_number].torn = TRUE]
    /\ client' = Idle /\ bg_error' = TRUE
    /\ UNCHANGED <<tables, manifest, status, mem, imm, full, current, log_number, logfile_number,
                   next_file, last_sequence, flush_queued, compact_queued, job, manifest_writers, writing>>

(* InsertInto, CheckMemtableFull and SetLastSequence; the write is         *)
(* answered.                                                               *)
InsertInto ==
    /\ client.pc = "insert"
    /\ mem' = mem \cup client.e
    /\ last_sequence' = last_sequence + 1
    /\ full' \in {b \in BOOLEAN : IF b THEN Cardinality(mem') >= MinFill ELSE Cardinality(mem') < MaxFill}
    /\ client' = Idle
    /\ UNCHANGED <<disk, status, imm, current, log_number, logfile_number, next_file, bg_error,
                   flush_queued, compact_queued, job, manifest_writers, writing, counters>>

(* GetImpl references a SuperVersion, and reads from it without the mutex. *)
Get ==
    /\ status = "open" /\ client.pc = "idle"
    /\ client' = [Idle EXCEPT !.pc = "get", !.version = current,
                     !.mems = <<mem>> \o [i \in DOMAIN imm |-> imm[Len(imm) + 1 - i].data]]
    /\ UNCHANGED <<disk, status, memory, job, manifest_writers, writing, counters>>

ReturnAndCleanupSuperVersion ==
    /\ client.pc = "get" /\ client' = Idle
    /\ UNCHANGED <<disk, status, memory, job, manifest_writers, writing, counters>>

------------------------------------------------------------------------------
(* The flush thread.                                                       *)

(* PickMemtablesToFlush takes all the immutable memtables; the table gets  *)
(* a number, which pending_outputs_ protects together with all later ones. *)
BackgroundFlush ==
    /\ status = "open" /\ ~bg_error /\ flush_queued /\ job[Flusher].pc = "idle"
    /\ IsFlushPending(imm, job)
    /\ flush_queued' = FALSE
    /\ next_file' = next_file + 1
    /\ job' = [job EXCEPT ![Flusher] = [NoJob EXCEPT
            !.pc = "build", !.mems = Len(imm), !.pending = next_file,
            !.edit = [NoEdit EXCEPT !.add = {<<0, next_file>>},
                                    !.log = imm[Len(imm)].next_log]]]
    /\ UNCHANGED <<disk, status, mem, imm, full, current, log_number, logfile_number, last_sequence,
                   bg_error, compact_queued, client, manifest_writers, writing, counters>>

(* A file is written without the mutex, and the edit that adds it to the   *)
(* version is queued in LogAndApply.                                       *)
WriteTables(t, T, e) ==
    /\ tables' = [n \in DOMAIN tables \cup DOMAIN T |-> IF n \in DOMAIN T THEN T[n] ELSE tables[n]]
    /\ job' = [job EXCEPT ![t].pc = "commit", ![t].edit = e]
    /\ manifest_writers' = Append(manifest_writers, t)

(* FlushJob::WriteLevel0Table, BuildTable.                                 *)
WriteLevel0Table ==
    /\ job[Flusher].pc = "build"
    /\ LET e == job[Flusher].edit
           data == Newest(UNION {imm[i].data : i \in 1 .. job[Flusher].mems})
       IN WriteTables(Flusher, [n \in FilesOf(e.add) |-> data], e)
    /\ UNCHANGED <<logs, manifest, status, memory, client, writing, counters>>

------------------------------------------------------------------------------
(* The compaction threads: LevelCompactionPicker and CompactionJob.        *)

Pairs(l, F) == {<<l, f>> : f \in F}

(* Seeded fault: the next level is left out of the inputs.                 *)
SetupOtherInputsAlone(v, l, F) == {Pairs(l, F)}

(* SetupOtherInputs for the inputs F of level l: the files of the next     *)
(* level they overlap and, if the sizes allow it, more files of level l    *)
(* that overlap no others of the next one.                                 *)
SetupOtherInputs(v, l, F) ==
    LET G == GetOverlappingInputs(v, l + 1, F)
        F1 == GetOverlappingInputs(v, l, F \cup G)
        G1 == GetOverlappingInputs(v, l + 1, F1)
        small == Pairs(l, F) \cup Pairs(l + 1, G)
    IN {small} \cup
       (IF G # {} /\ G1 = G /\ Pairs(l, F1) \cap Busy(job) = {}
        THEN {Pairs(l, F1) \cup Pairs(l + 1, G)} ELSE {})

(* The compactions PickCompaction may choose from level l.  One of level 0 *)
(* excludes any other of level 0; a file being compacted is not taken.     *)
Picks(l) ==
    {in \in UNION {SetupOtherInputs(current, l, GetOverlappingInputs(current, l, {f})) :
                     f \in FilesAt(current, l)} :
        /\ in \cap Busy(job) = {}
        /\ l = 0 => /\ NeedsCompaction(current, job)
                    /\ \A c \in Compactors : job[c].in # {} => job[c].level # 0}

Pick(c, l, in, pc, e) ==
    /\ status = "open" /\ ~bg_error /\ job[c].pc = "idle"
    /\ compact_queued \/ l > 0
    /\ in \in Picks(l)
    /\ job' = [job EXCEPT ![c] = [NoJob EXCEPT
            !.pc = pc, !.level = l, !.in = in, !.base = current, !.pending = next_file, !.edit = e]]
    /\ compact_queued' = NeedsCompaction(current, job')
    /\ UNCHANGED <<disk, status, mem, imm, full, current, log_number, logfile_number, next_file,
                   last_sequence, bg_error, flush_queued, client, writing, counters>>

(* The files go to the next level as they are when they overlap none of    *)
(* it, no two files of level 0 overlap (if they are of level 0), and both  *)
(* levels are compressed alike: OptimizeLevelStyleCompaction compresses    *)
(* from level 2 on.                                                        *)
IsTrivialMove(l, in) ==
    /\ \A p \in in : p[1] = l
    /\ l = 0 => \A f, g \in FilesAt(current, 0) : f # g => Overlapping({f}, {g}) = {}
    /\ l # 1

(* BackgroundCompaction: a compaction that merges (Prepare), or a move,    *)
(* whose edit is queued at once.                                           *)
BackgroundCompaction(c, l, in) ==
    /\ ~IsTrivialMove(l, in)
    /\ Pick(c, l, in, "build", NoEdit)
    /\ UNCHANGED manifest_writers

TrivialMove(c, l, in) ==
    /\ IsTrivialMove(l, in)
    /\ Pick(c, l, in, "commit", [NoEdit EXCEPT !.del = in, !.add = Pairs(l + 1, FilesOf(in))])
    /\ manifest_writers' = Append(manifest_writers, c)

(* The queue had the column family and nothing can be picked now.          *)
NothingToDo(c) ==
    /\ status = "open" /\ ~bg_error /\ job[c].pc = "idle" /\ compact_queued
    /\ Picks(0) = {}
    /\ compact_queued' = FALSE
    /\ UNCHANGED <<disk, status, mem, imm, full, current, log_number, logfile_number, next_file,
                   last_sequence, bg_error, flush_queued, threads, counters>>

(* Seeded fault: the level after the output one is not looked at.          *)
KeyNotExistsBelowOffByOne(c, k) ==
    \A l \in job[c].level + 3 .. NumLevels - 1 : InRange(FilesAt(job[c].base, l), k) = {}

(* A deletion may be dropped when no file below the output level, in the   *)
(* version the compaction was picked from, has the key in its range.       *)
KeyNotExistsBeyondOutputLevel(c, k) ==
    \A l \in job[c].level + 2 .. NumLevels - 1 : InRange(FilesAt(job[c].base, l), k) = {}

(* What ProcessKeyValueCompaction writes.                                  *)
Compacted(c) ==
    {e \in Newest(UNION {Contents(f) : f \in FilesOf(job[c].in)}) :
        e.del => ~KeyNotExistsBeyondOutputLevel(c, e.key)}

(* CompactionJob::Run and InstallCompactionResults: the output is cut in   *)
(* two files before key cut, when both parts have entries.                 *)
RunCompaction(c, cut) ==
    /\ job[c].pc = "build"
    /\ LET low == {e \in Compacted(c) : e.key < cut}
           high == Compacted(c) \ low
           parts == IF low # {} /\ high # {} THEN <<low, high>>
                    ELSE IF Compacted(c) # {} THEN <<Compacted(c)>> ELSE <<>>
           numbers == next_file .. next_file + Len(parts) - 1
       IN /\ next_file' = next_file + Len(parts)
          /\ WriteTables(c, [n \in numbers |-> parts[n - next_file + 1]],
                [NoEdit EXCEPT !.del = job[c].in, !.add = Pairs(job[c].level + 1, numbers)])
    /\ UNCHANGED <<logs, manifest, status, mem, imm, full, current, log_number, logfile_number,
                   last_sequence, bg_error, flush_queued, compact_queued, client, writing, counters>>

------------------------------------------------------------------------------
(* VersionSet::LogAndApply.                                                *)

(* A job whose work failed: memtables and files are released, the store    *)
(* takes no more writes (bg_error_ is set by the caller).                  *)
Failed(j) == [j EXCEPT !.pc = "failed", !.mems = 0, !.in = {}, !.base = {}, !.edit = NoEdit]

BuildFails(t) ==
    /\ job[t].pc = "build" /\ Fault("table")
    /\ job' = [job EXCEPT ![t] = Failed(@)]
    /\ bg_error' = TRUE
    /\ UNCHANGED <<disk, status, mem, imm, full, current, log_number, logfile_number, next_file,
                   last_sequence, flush_queued, compact_queued, client, manifest_writers, writing>>

(* The writer at the front takes all the edits queued, with the counters   *)
(* as they are, and writes them without the mutex, a record at a time.  A  *)
(* log number of a record only counts if it is greater (Recover).          *)
WriteManifestRecord ==
    /\ status = "open" /\ manifest_writers # <<>>
    /\ LET w == IF writing.n > 0 THEN writing
                ELSE [n |-> Len(manifest_writers), k |-> 0, version |-> current,
                      next_file |-> next_file, last_sequence |-> last_sequence]
           e == job[manifest_writers[w.k + 1]].edit
       IN /\ w.k < w.n
          /\ manifest' = [version |-> Apply(manifest.version, e),
                          log_number |-> Max({manifest.log_number, e.log}),
                          next_file |-> w.next_file, last_sequence |-> w.last_sequence]
          /\ writing' = [w EXCEPT !.k = @ + 1, !.version = Apply(@, e)]
    /\ UNCHANGED <<logs, tables, status, memory, client, job, manifest_writers, counters>>

Batch(n) == {manifest_writers[i] : i \in 1 .. n}

EndBatch(n, f(_)) ==
    /\ job' = [t \in Threads |-> IF t \in Batch(n) THEN f(job[t]) ELSE job[t]]
    /\ manifest_writers' = SubSeq(manifest_writers, n + 1, Len(manifest_writers))
    /\ writing' = NoBatch

(* The new version is installed and the writers of the batch wake up.      *)
InstallVersion ==
    /\ writing.n > 0 /\ writing.k = writing.n
    /\ current' = writing.version
    /\ log_number' = Max({log_number} \cup {job[t].edit.log : t \in Batch(writing.n)})
    /\ EndBatch(writing.n, LAMBDA j : [j EXCEPT !.pc = "done"])
    /\ UNCHANGED <<disk, status, mem, imm, full, logfile_number, next_file, last_sequence, bg_error,
                   flush_queued, compact_queued, client, counters>>

(* A record could not be written: no version is installed and every        *)
(* writer of the batch gets the error.                                     *)
ManifestFails ==
    /\ manifest_writers # <<>> /\ (writing.k < writing.n \/ writing.n = 0)
    /\ Fault("manifest")
    /\ EndBatch(IF writing.n > 0 THEN writing.n ELSE Len(manifest_writers), Failed)
    /\ bg_error' = TRUE
    /\ UNCHANGED <<disk, status, mem, imm, full, current, log_number, logfile_number, next_file,
                   last_sequence, flush_queued, compact_queued, client>>

------------------------------------------------------------------------------
(* The end of a background job, and obsolete files.                        *)

(* Seeded fault: the version a reader holds is not referenced.             *)
LiveFilesOfJobs(j) == FilesOf(current) \cup UNION {FilesOf(j[t].base) : t \in Threads}

(* AddLiveFiles: the files of every version someone references.            *)
LiveFiles(j) ==
    FilesOf(current) \cup FilesOf(client.version) \cup UNION {FilesOf(j[t].base) : t \in Threads}

(* Seeded fault: no number is reserved for a table being written.          *)
UnprotectedAlways(j, f) == TRUE

(* min_pending_output: a table whose number a job reserved, or a later one,*)
(* may be being written.                                                   *)
Unprotected(j, f) == \A t \in Threads : j[t].pending > 0 => f < j[t].pending

(* Seeded fault: a log is obsolete as soon as a newer one exists.          *)
FindObsoleteFilesOldLogs(j) ==
    [tables |-> {f \in DOMAIN tables : Unprotected(j, f) /\ f \notin LiveFiles(j)},
     logs |-> {n \in DOMAIN logs : n < logfile_number}]

FindObsoleteFiles(j) ==
    [tables |-> {f \in DOMAIN tables : Unprotected(j, f) /\ f \notin LiveFiles(j)},
     logs |-> {n \in DOMAIN logs : n < log_number}]

(* Seeded fault: what the job had reserved is not given back.              *)
FinishJobNoReset(t) ==
    LET j == [job EXCEPT ![t].pc = "idle"]
        dead == FindObsoleteFiles(j)
    IN job' = IF dead = NoDead THEN j ELSE [j EXCEPT ![t].pc = "purge", ![t].dead = dead]

(* t gives back its file number and what it had reserved, and takes the    *)
(* list of what is obsolete now, if anything is.                           *)
FinishJob(t) ==
    LET j == [job EXCEPT ![t] = NoJob]
        dead == FindObsoleteFiles(j)
    IN job' = IF dead = NoDead THEN j ELSE [j EXCEPT ![t].pc = "purge", ![t].dead = dead]

(* A flush is committed: its memtables go (InstallMemtableFlushResults)    *)
(* and a SuperVersion is installed, which schedules more work.             *)
FlushDone ==
    /\ job[Flusher].pc = "done"
    /\ imm' = SubSeq(imm, job[Flusher].mems + 1, Len(imm))
    /\ FinishJob(Flusher)
    /\ flush_queued' = (flush_queued \/ IsFlushPending(imm', job'))
    /\ compact_queued' = (compact_queued \/ NeedsCompaction(current, job'))
    /\ UNCHANGED <<disk, status, mem, full, current, log_number, logfile_number, next_file,
                   last_sequence, bg_error, client, manifest_writers, writing, counters>>

CompactionDone(c) ==
    /\ job[c].pc = "done"
    /\ FinishJob(c)
    /\ flush_queued' = (flush_queued \/ IsFlushPending(imm, job'))
    /\ compact_queued' = (compact_queued \/ NeedsCompaction(current, job'))
    /\ UNCHANGED <<disk, status, mem, imm, full, current, log_number, logfile_number, next_file,
                   last_sequence, bg_error, client, manifest_writers, writing, counters>>

(* After an error the thread sleeps for a second before it cleans up.      *)
JobFailed(t) ==
    /\ job[t].pc = "failed"
    /\ FinishJob(t)
    /\ UNCHANGED <<disk, status, memory, client, manifest_writers, writing, counters>>

(* PurgeObsoleteFiles, without the mutex.                                  *)
PurgeObsoleteFiles(t) ==
    /\ job[t].pc = "purge"
    /\ tables' = [n \in DOMAIN tables \ job[t].dead.tables |-> tables[n]]
    /\ logs' = [n \in DOMAIN logs \ job[t].dead.logs |-> logs[n]]
    /\ job' = [job EXCEPT ![t] = NoJob]
    /\ UNCHANGED <<manifest, status, memory, client, manifest_writers, writing, counters>>

------------------------------------------------------------------------------
(* The end of the process, and DB::Open.                                   *)

Crash ==
    /\ status # "down" /\ crashes < MaxCrashes
    /\ status' = "down"
    /\ mem' = {} /\ imm' = <<>> /\ full' = FALSE
    /\ current' = {} /\ log_number' = 0 /\ logfile_number' = 0 /\ next_file' = 0 /\ last_sequence' = 0
    /\ bg_error' = FALSE /\ flush_queued' = FALSE /\ compact_queued' = FALSE
    /\ client' = Idle /\ job' = [t \in Threads |-> NoJob]
    /\ manifest_writers' = <<>> /\ writing' = NoBatch
    /\ crashes' = crashes + 1
    /\ UNCHANGED <<disk, failures>>

(* VersionSet::Recover reads the MANIFEST (its counters are the starting   *)
(* point of RecoverLogFiles).                                              *)
Recover ==
    /\ current' = manifest.version
    /\ log_number' = manifest.log_number

(* After Recover, RecoverLogFiles replays, in order, the logs the MANIFEST *)
(* still needs.  A log holds what filled one memtable, so each of them     *)
(* that is not empty becomes a table of level 0                            *)
(* (WriteLevel0TableForRecovery).  The edit waits in the flush thread's    *)
(* record.                                                                 *)
RecoverLogFiles ==
    /\ status = "down"
    /\ LET L == {n \in DOMAIN logs : n >= manifest.log_number}
           N == {n \in L : logs[n].data # {}}
           last == Max({manifest.log_number - 1} \cup L)
           first == Max({manifest.next_file} \cup {n + 1 : n \in L})
           table(n) == first + Cardinality({m \in N : m < n})
           numbers == first .. first + Cardinality(N) - 1
       IN /\ tables' = [i \in DOMAIN tables \cup numbers |->
                          IF i \in numbers THEN Newest(logs[CHOOSE n \in N : table(n) = i].data)
                          ELSE tables[i]]
          /\ job' = [job EXCEPT ![Flusher].edit =
                        [NoEdit EXCEPT !.add = Pairs(0, numbers), !.log = last + 1]]
          /\ next_file' = Max({first + Cardinality(N), last + 2})
          /\ last_sequence' = Max({manifest.last_sequence} \cup
                                  UNION {{e.seq : e \in logs[n].data} : n \in L})
    /\ Recover
    /\ status' = "recovering"
    /\ UNCHANGED <<logs, manifest, mem, imm, full, logfile_number, bg_error, flush_queued,
                   compact_queued, client, manifest_writers, writing, counters>>

(* The LogAndApply of RecoverLogFiles: a new MANIFEST, made current at     *)
(* once by renaming.                                                       *)
RecoverVersion ==
    /\ status = "recovering"
    /\ LET e == job[Flusher].edit
       IN /\ current' = Apply(current, e)
          /\ log_number' = e.log
          /\ manifest' = [version |-> current', log_number |-> e.log,
                          next_file |-> next_file, last_sequence |-> last_sequence]
    /\ job' = [job EXCEPT ![Flusher] = NoJob]
    /\ status' = "installed"
    /\ UNCHANGED <<logs, tables, mem, imm, full, logfile_number, next_file, last_sequence, bg_error,
                   flush_queued, compact_queued, client, manifest_writers, writing, counters>>

(* The rest of DB::Open: a new log, and DeleteObsoleteFiles.               *)
Open ==
    /\ status = "installed"
    /\ logfile_number' = next_file /\ next_file' = next_file + 1
    /\ LET dead == FindObsoleteFiles(job)
       IN /\ tables' = [n \in DOMAIN tables \ dead.tables |-> tables[n]]
          /\ logs' = [n \in (DOMAIN logs \ dead.logs) \cup {next_file} |->
                        IF n = next_file THEN EmptyLog ELSE logs[n]]
    /\ compact_queued' = NeedsCompaction(current, job)
    /\ status' = "open"
    /\ UNCHANGED <<manifest, mem, imm, full, current, log_number, last_sequence, bg_error,
                   flush_queued, threads, counters>>

------------------------------------------------------------------------------
ClientStep ==
    SwitchMemtable \/ DelayWrite \/ AddRecord \/ InsertInto \/ ReturnAndCleanupSuperVersion

FlushStep == BackgroundFlush \/ WriteLevel0Table \/ FlushDone \/ JobFailed(Flusher)
             \/ PurgeObsoleteFiles(Flusher)

StartCompaction(c, l) ==
    \E in \in Picks(l) : BackgroundCompaction(c, l, in) \/ TrivialMove(c, l, in)

CompactionStep(c) ==
    \/ NothingToDo(c) \/ CompactionDone(c) \/ JobFailed(c) \/ PurgeObsoleteFiles(c)
    \/ \E cut \in Keys : RunCompaction(c, cut)

ManifestStep == WriteManifestRecord \/ InstallVersion

Recovery == RecoverLogFiles \/ RecoverVersion \/ Open

NextDB ==
    \/ \E k \in Keys, d \in BOOLEAN : Write(k, d)
    \/ Get
    \/ ClientStep \/ SwitchFails \/ AddRecordFails
    \/ FlushStep
    \/ \E c \in Compactors : CompactionStep(c) \/ \E l \in 0 .. NumLevels - 2 : StartCompaction(c, l)
    \/ \E t \in Threads : BuildFails(t)
    \/ ManifestStep \/ ManifestFails
    \/ Crash \/ Recovery

SpecDB == InitDB /\ [][NextDB]_varsDB

(* Every thread that can go on does, the pool runs what is scheduled, and  *)
(* the server is started again after a crash.                              *)
FairDB ==
    /\ SpecDB
    /\ WF_varsDB(ClientStep) /\ WF_varsDB(FlushStep) /\ WF_varsDB(ManifestStep) /\ WF_varsDB(Recovery)
    /\ \A c \in Compactors : WF_varsDB(StartCompaction(c, 0) \/ CompactionStep(c))

------------------------------------------------------------------------------
(* What the store holds.                                                   *)

EntriesOf(E, k) == {e \in Newest(E) : e.key = k}

Value(S) == IF \E e \in S : ~e.del THEN (CHOOSE e \in S : TRUE).seq ELSE 0

(* What a restart would find.                                              *)
Durable ==
    UNION {Contents(f) : f \in FilesOf(manifest.version)} \cup
    UNION {logs[n].data : n \in {m \in DOMAIN logs : m >= manifest.log_number}}

DurableValue == [k \in Keys |-> Value(EntriesOf(Durable, k))]

WriteInProgress ==
    {[key |-> e.key, valor |-> IF e.del THEN 0 ELSE e.seq, hecha |-> client.pc = "insert"] : e \in client.e}

A == INSTANCE Almacen WITH Claves <- Keys, Valores <- 1 .. MaxSeq, Ausente <- 0,
                           dato <- DurableValue, operacion <- WriteInProgress

EditType(e) ==
    /\ {e.del, e.add} \subseteq SUBSET (Levels \X Nat)
    /\ e.log \in Nat

JobType(j) ==
    /\ j.pc \in {"idle", "build", "commit", "done", "failed", "purge"}
    /\ {j.in, j.base} \subseteq SUBSET (Levels \X Nat)
    /\ {j.mems, j.level, j.pending} \subseteq Nat
    /\ EditType(j.edit)
    /\ {j.dead.tables, j.dead.logs} \subseteq SUBSET Nat

(* The kinds of values of the state.  A flush holds memtables of the list, *)
(* and the tables of an open store are numbered below the counter.         *)
TypeOKDB ==
    /\ DOMAIN logs \cup DOMAIN tables \subseteq Nat
    /\ \A n \in DOMAIN logs : logs[n].data \subseteq Entries /\ logs[n].torn \in BOOLEAN
    /\ \A n \in DOMAIN tables : tables[n] \subseteq Entries
    /\ {manifest.version, current, client.version, writing.version} \subseteq SUBSET (Levels \X Nat)
    /\ {manifest.log_number, manifest.next_file, manifest.last_sequence, log_number,
        logfile_number, next_file, last_sequence, client.newlog, writing.k, writing.n} \subseteq Nat
    /\ status \in {"down", "recovering", "installed", "open"}
    /\ mem \subseteq Entries /\ client.e \subseteq Entries
    /\ \A i \in DOMAIN imm : imm[i].data \subseteq Entries /\ imm[i].next_log \in Nat
    /\ {full, bg_error, flush_queued, compact_queued} \subseteq BOOLEAN
    /\ client.pc \in {"idle", "switch", "delay", "wal", "insert", "get"}
    /\ \A t \in Threads : JobType(job[t])
    /\ manifest_writers \in Seq(Threads)
    /\ job[Flusher].mems <= Len(imm)
    /\ status = "open" => \A f \in DOMAIN tables : f < next_file

(* The store is an Almacen: a write takes effect when its record is in the *)
(* log, a confirmed one is never lost, to a flush, a compaction, a purge   *)
(* or a crash at any point, and a failed one never shows up.               *)
IsStore == A!Spec

(* No file the MANIFEST or a referenced version needs has been deleted.    *)
NeededFilesExist ==
    /\ FilesOf(manifest.version) \subseteq DOMAIN tables
    /\ status = "open" => LiveFiles(job) \subseteq DOMAIN tables

(* No two files of a level above 0 overlap, in any version installed.      *)
LevelsDisjoint ==
    \A l \in Levels \ {0} : \A f, g \in FilesAt(current, l) : f # g => Overlapping({f}, {g}) = {}

(* "paranoia" of InstallCompactionResults: the inputs of a compaction are  *)
(* still in the current version, at their level, until it is installed,    *)
(* and no two compactions share one.                                       *)
CompactionInputsStay ==
    /\ \A c \in Compactors : job[c].pc \in {"build", "commit"} => job[c].in \subseteq current
    /\ \A c, d \in Compactors : c # d => job[c].in \cap job[d].in = {}

(* A write that DelayWrite stopped goes on, or fails.                      *)
StalledWriteEnds == client.pc = "delay" ~> client.pc # "delay"
=============================================================================
