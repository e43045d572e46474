---------------------------- MODULE DBImplSteps -----------------------------
(***************************************************************************)
(* The invariants of the store, and what each step of the client, of the   *)
(* background threads and of LogAndApply does to them: the kinds of values *)
(* of the state with the bounds on the numbers of the files, and the       *)
(* inputs of the compactions.                                              *)
(***************************************************************************)
EXTENDS DBImpl, TLAPS

Files == Levels \X Nat

Edit == [del : SUBSET Files, add : SUBSET Files, log : Nat]

LogFile == [data : SUBSET Entries, torn : BOOLEAN]

Memtable == [data : SUBSET Entries, next_log : Nat]

Manifest == [version : SUBSET Files, log_number : Nat, next_file : Nat, last_sequence : Nat]

WriteBatch == [n : Nat, k : Nat, version : SUBSET Files, next_file : Nat, last_sequence : Nat]

IsJob(j) ==
    /\ DOMAIN j = {"pc", "mems", "level", "in", "base", "edit", "pending", "dead"}
    /\ j.pc \in {"idle", "build", "commit", "done", "failed", "purge"}
    /\ j.edit \in Edit
    /\ j.dead \in [tables : SUBSET Nat, logs : SUBSET Nat]
    /\ j.base \in SUBSET Files
    /\ j.in \in SUBSET Files
    /\ j.pending \in Nat /\ j.mems \in Nat /\ j.level \in Nat

(* The logs are numbered, their numbers have a bound.                      *)
Logs ==
    /\ DOMAIN logs \subseteq Nat
    /\ logs \in [DOMAIN logs -> LogFile]
    /\ \E b \in Nat : \A n \in DOMAIN logs : n <= b

Tables ==
    /\ DOMAIN tables \subseteq Nat
    /\ \A n \in DOMAIN tables : tables[n] \subseteq Entries

Memory ==
    /\ mem \in SUBSET Entries
    /\ imm \in Seq(Memtable)
    /\ last_sequence \in Nat
    /\ log_number \in Nat /\ logfile_number \in Nat
    /\ {full, bg_error, flush_queued, compact_queued} \subseteq BOOLEAN

Client ==
    /\ DOMAIN client = {"pc", "e", "newlog", "mems", "version"}
    /\ client.pc \in {"idle", "switch", "delay", "wal", "insert", "get"}
    /\ client.e \in SUBSET Entries
    /\ client.newlog \in Nat
    /\ client.version \in SUBSET Files

Versions ==
    /\ manifest \in Manifest
    /\ current \in SUBSET Files
    /\ next_file \in Nat
    /\ writing \in WriteBatch
    /\ status \in {"down", "recovering", "installed", "open"}

(* What the steps need to know of the kinds of values.                     *)
Kinds == Logs /\ Tables /\ Memory /\ Client /\ Versions

(* A flush has memtables of the list; a compaction has a level to write to.*)
Jobs ==
    /\ DOMAIN job = Threads
    /\ \A t \in Threads : IsJob(job[t])
    /\ job[Flusher].mems <= Len(imm)
    /\ \A c \in Compactors : job[c].pc = "build" => job[c].level + 1 \in Levels

(* The threads waiting in LogAndApply, each once.                          *)
Queue ==
    /\ manifest_writers \in Seq(Threads)
    /\ \A i \in DOMAIN manifest_writers : job[manifest_writers[i]].pc = "commit"
    /\ \A i, j \in DOMAIN manifest_writers : manifest_writers[i] = manifest_writers[j] => i = j
    /\ writing.k <= writing.n /\ writing.n <= Len(manifest_writers)

(* Outside DB::Open nothing runs before the store is open.                 *)
Stopped ==
    status # "open" =>
        /\ client = Idle
        /\ \A t \in Threads : job[t] = [NoJob EXCEPT !.edit = job[t].edit]
        /\ \A c \in Compactors : job[c].edit = NoEdit
        /\ manifest_writers = <<>> /\ writing = NoBatch

Below(F, n) == \A f \in F : f < n

(* The files of the versions and edits are numbered below the counters.    *)
Numbered ==
    /\ Below(FilesOf(manifest.version), manifest.next_file)
    /\ status # "down" => manifest.next_file <= next_file /\ Below(FilesOf(current), next_file)
    /\ status = "open" => next_file > 0 /\ Below(DOMAIN tables, next_file)
    /\ \A t \in Threads : Below(FilesOf(job[t].edit.add), next_file)
    /\ writing.n > 0 => /\ manifest.next_file <= writing.next_file
                        /\ writing.next_file <= next_file
                        /\ Below(FilesOf(writing.version), next_file)
    /\ \A i \in 1 .. writing.n : Below(FilesOf(job[manifest_writers[i]].edit.add), writing.next_file)

TypeInv == Kinds /\ Jobs /\ Queue /\ Stopped /\ Numbered

-----------------------------------------------------------------------------
(* Files of versions.                                                      *)

LEMMA MaxOfTwo ==
    ASSUME NEW a \in Int, NEW b \in Int
    PROVE  Max({a, b}) \in {a, b} /\ Max({a, b}) >= a /\ Max({a, b}) >= b
<1>1. \E x \in {a, b} : \A y \in {a, b} : x >= y
  OBVIOUS
<1>2. Max({a, b}) \in {a, b} /\ \A y \in {a, b} : Max({a, b}) >= y
  BY <1>1, Zenon DEF Max
<1> QED
  BY <1>2

(* The files of a version are numbers.                                     *)
LEMMA FilesOfVersion ==
    /\ \A v \in SUBSET Files : FilesOf(v) \subseteq Nat
    /\ FilesOf({}) = {}
BY DEF FilesOf, Files

(* The levels there are.                                                   *)
LEMMA SomeLevels ==
    /\ Levels \subseteq Nat /\ 0 \in Levels
    /\ \A l \in 0 .. NumLevels - 2 : l \in Levels /\ l + 1 \in Levels
BY DBConstants DEF Levels

(* The files of the pairs that an edit adds or deletes.                    *)
LEMMA PairsAndFiles ==
    /\ \A l \in Levels, F \in SUBSET Nat : Pairs(l, F) \in SUBSET Files /\ FilesOf(Pairs(l, F)) = F
    /\ \A n : FilesOf({<<0, n>>}) = {n}
    /\ \A v, l : FilesAt(v, l) \subseteq FilesOf(v)
<1>1. ASSUME NEW l \in Levels, NEW F \in SUBSET Nat
      PROVE  Pairs(l, F) \in SUBSET Files /\ FilesOf(Pairs(l, F)) = F
  <2>1. Pairs(l, F) \in SUBSET Files
    BY DEF Pairs, Files
  <2>2. ASSUME NEW f \in F PROVE f \in FilesOf(Pairs(l, F))
    <3>1. <<l, f>> \in Pairs(l, F) /\ <<l, f>>[2] = f
      BY DEF Pairs
    <3> QED
      BY <3>1 DEF FilesOf
  <2>3. ASSUME NEW p \in Pairs(l, F) PROVE p[2] \in F
    BY DEF Pairs
  <2>4. FilesOf(Pairs(l, F)) \subseteq F
    BY <2>3 DEF FilesOf
  <2> QED
    BY <2>1, <2>2, <2>4, Zenon
<1>2. ASSUME NEW n PROVE FilesOf({<<0, n>>}) = {n}
  BY DEF FilesOf
<1>3. ASSUME NEW v, NEW l PROVE FilesAt(v, l) \subseteq FilesOf(v)
  BY DEF FilesOf, FilesAt
<1> QED
  BY <1>1, <1>2, <1>3, Zenon

(* An edit brings in no files but those that it adds.                      *)
LEMMA ApplyFiles ==
    ASSUME NEW v \in SUBSET Files, NEW e \in Edit
    PROVE  /\ Apply(v, e) \in SUBSET Files
           /\ FilesOf(Apply(v, e)) \subseteq FilesOf(v) \cup FilesOf(e.add)
BY DEF Apply, FilesOf, Edit

(* What a set of numbers is below, it is below anything greater.           *)
LEMMA BelowGrows ==
    /\ \A F \in SUBSET Nat, n \in Nat, m \in Nat : Below(F, n) /\ n <= m => Below(F, m)
    /\ \A F, G, H, n : Below(F, n) /\ Below(G, n) /\ H \subseteq F \cup G => Below(H, n)
    /\ \A n : Below({}, n)
BY DEF Below

-----------------------------------------------------------------------------
(* The steps of the client.                                                *)

(* What they have in common: a step may take a number, add a memtable,     *)
(* and reference the current version.                                      *)
ByClient ==
    /\ status = "open"
    /\ UNCHANGED <<tables, manifest, status, current, job, manifest_writers, writing>>
    /\ next_file' >= next_file /\ Len(imm') >= Len(imm)
    /\ client'.version \in {client.version, {}, current}

LEMMA ClientFrame ==
    ASSUME TypeInv, ByClient, Kinds'
    PROVE  TypeInv'
<1>0. Kinds /\ Jobs /\ Queue /\ Stopped /\ Numbered
  BY DEF TypeInv
<1>u. /\ UNCHANGED <<tables, manifest, status, current, job, manifest_writers, writing>>
      /\ status = "open"
  BY DEF ByClient
<1>n. /\ next_file \in Nat /\ next_file' \in Nat /\ next_file' >= next_file
      /\ writing.next_file \in Nat /\ manifest.next_file \in Nat
  BY <1>0 DEF ByClient, Kinds, Versions, WriteBatch, Manifest
<1>1. Jobs'
  <2>1. imm \in Seq(Memtable) /\ imm' \in Seq(Memtable) /\ Len(imm') >= Len(imm)
    BY <1>0 DEF ByClient, Kinds, Memory
  <2>2. job[Flusher].mems \in Nat /\ job[Flusher].mems <= Len(imm)
    BY <1>0 DEF Jobs, IsJob, Threads
  <2>3. job[Flusher].mems <= Len(imm')
    BY <2>1, <2>2
  <2> QED
    BY <1>0, <1>u, <2>3 DEF Jobs
<1>2. Queue'
  BY <1>0, <1>u DEF Queue
<1>3. Stopped'
  BY <1>u DEF Stopped
<1>4. Numbered'
  <2>1. /\ FilesOf(current) \subseteq Nat /\ DOMAIN tables \subseteq Nat
        /\ FilesOf(writing.version) \subseteq Nat
        /\ \A t \in Threads : FilesOf(job[t].edit.add) \subseteq Nat
    BY <1>0, FilesOfVersion, Zenon DEF Kinds, Versions, Tables, Jobs, IsJob, Edit, WriteBatch
  <2>2. /\ Below(FilesOf(current), next_file') /\ Below(DOMAIN tables, next_file')
        /\ writing.n > 0 => Below(FilesOf(writing.version), next_file')
        /\ \A t \in Threads : Below(FilesOf(job[t].edit.add), next_file')
    BY <1>0, <1>n, <1>u, <2>1, BelowGrows DEF Numbered
  <2>3. /\ next_file' > 0 /\ manifest.next_file <= next_file'
        /\ writing.n > 0 => writing.next_file <= next_file'
    BY <1>0, <1>n, <1>u DEF Numbered
  <2> QED
    BY <1>0, <1>u, <2>2, <2>3 DEF Numbered
<1> QED
  BY <1>1, <1>2, <1>3, <1>4 DEF TypeInv

(* Only an open store has a client.                                        *)
LEMMA ClientOpen ==
    ASSUME TypeInv, client.pc # "idle"
    PROVE  status = "open"
BY DEF TypeInv, Stopped, Idle

(* WriteImpl up to the choice of what to wait for.                         *)
LEMMA WriteTypes ==
    ASSUME TypeInv, NEW k \in Keys, NEW d \in BOOLEAN, Write(k, d)
    PROVE  Kinds' /\ ByClient
<1>k. Logs /\ Tables /\ Memory /\ Client /\ Versions
  BY DEF TypeInv, Kinds
<1>n. next_file \in Nat /\ imm \in Seq(Memtable) /\ Len(imm) \in Nat
  BY <1>k DEF Versions, Memory
<1>1. [key |-> k, seq |-> last_sequence + 1, del |-> d] \in Entries
  <2>0. MaxSeq \in Nat /\ last_sequence \in Nat /\ last_sequence < MaxSeq
    BY <1>k, DBConstants DEF Write, Memory
  <2>1. last_sequence + 1 \in 1 .. MaxSeq
    BY <2>0
  <2> QED
    BY <2>1 DEF Entries
<1>2. next_file' \in Nat /\ next_file' >= next_file
  <2>1. next_file' = IF full THEN next_file + 1 ELSE next_file
    BY DEF Write
  <2> QED
    BY <2>1, <1>n
<1>3. Client' /\ client'.version = {}
  BY <1>k, <1>n, <1>1 DEF Write, Client, Idle
<1>4. Logs' /\ Tables' /\ Versions'
  BY <1>k, <1>2 DEF Write, Logs, Tables, Versions, disk
<1>5. Memory'
  BY <1>k, Zenon DEF Write, Memory
<1>6. ByClient
  BY <1>n, <1>2, <1>3 DEF ByClient, Write, disk
<1> QED
  BY <1>3, <1>4, <1>5, <1>6 DEF Kinds

(* A reader references the current version, and gives it back.             *)
LEMMA ReaderTypes ==
    ASSUME TypeInv, Get \/ ReturnAndCleanupSuperVersion
    PROVE  Kinds' /\ ByClient
<1>k. Logs /\ Tables /\ Memory /\ Client /\ Versions
  BY DEF TypeInv, Kinds
<1>u. status = "open" /\ UNCHANGED <<disk, status, memory, job, manifest_writers, writing>>
  BY ClientOpen DEF Get, ReturnAndCleanupSuperVersion
<1>n. next_file \in Nat /\ imm \in Seq(Memtable) /\ Len(imm) \in Nat
  BY <1>k DEF Versions, Memory
<1>1. Client' /\ client'.version \in {current, {}}
  <2>1. CASE Get
    BY <2>1, <1>k DEF Get, Client, Versions, Idle
  <2>2. CASE ReturnAndCleanupSuperVersion
    BY <2>2 DEF ReturnAndCleanupSuperVersion, Client, Idle
  <2> QED
    BY <2>1, <2>2
<1>2. Logs' /\ Tables' /\ Memory' /\ Versions'
  BY <1>k, <1>u DEF Logs, Tables, Memory, Versions, disk, memory
<1>3. ByClient
  BY <1>n, <1>u, <1>1 DEF ByClient, disk, memory
<1> QED
  BY <1>1, <1>2, <1>3 DEF Kinds

(* A new memtable and log.                                                 *)
LEMMA SwitchMemtableTypes ==
    ASSUME TypeInv, SwitchMemtable
    PROVE  Kinds' /\ ByClient
<1>k. Logs /\ Tables /\ Memory /\ Client /\ Versions
  BY DEF TypeInv, Kinds
<1>z. status = "open"
  BY ClientOpen DEF SwitchMemtable
<1>n. next_file \in Nat /\ imm \in Seq(Memtable) /\ Len(imm) \in Nat
  BY <1>k DEF Versions, Memory
<1>0. client.newlog \in Nat
  BY <1>k DEF Client
<1>1. imm' \in Seq(Memtable) /\ Len(imm') = Len(imm) + 1
  BY <1>k, <1>n, <1>0 DEF SwitchMemtable, Memory, Memtable
<1>m. Memory'
  BY <1>k, <1>0, <1>1 DEF SwitchMemtable, Memory
<1>2. /\ DOMAIN logs' = DOMAIN logs \cup {client.newlog}
      /\ DOMAIN logs' \subseteq Nat
      /\ logs' \in [DOMAIN logs' -> LogFile]
  BY <1>k, <1>0 DEF SwitchMemtable, Logs, EmptyLog, LogFile
<1>3. \E b \in Nat : \A n \in DOMAIN logs' : n <= b
  <2>1. PICK b \in Nat : \A n \in DOMAIN logs : n <= b
    BY <1>k DEF Logs
  <2>2. b + client.newlog \in Nat
    BY <1>0
  <2>3. \A n \in DOMAIN logs' : n <= b + client.newlog
    BY <1>0, <1>2, <2>1
  <2> QED
    BY <2>2, <2>3
<1>4. Logs'
  BY <1>k, <1>2, <1>3 DEF Logs
<1>5. Client' /\ client'.version = client.version
  BY <1>k DEF SwitchMemtable, Client
<1>6. Versions' /\ Tables'
  BY <1>k DEF SwitchMemtable, Versions, Tables
<1>7. ByClient
  BY <1>z, <1>n, <1>1, <1>5 DEF ByClient, SwitchMemtable
<1> QED
  BY <1>m, <1>4, <1>5, <1>6, <1>7 DEF Kinds

(* The new log could not be created, or the wait of a stopped write ends.  *)
LEMMA WaitTypes ==
    ASSUME TypeInv, SwitchFails \/ DelayWrite
    PROVE  Kinds' /\ ByClient
<1>k. Logs /\ Tables /\ Memory /\ Client /\ Versions
  BY DEF TypeInv, Kinds
<1>z. status = "open"
  BY ClientOpen DEF SwitchFails, DelayWrite
<1>n. next_file \in Nat /\ imm \in Seq(Memtable) /\ Len(imm) \in Nat
  BY <1>k DEF Versions, Memory
<1>u. UNCHANGED <<logs, tables, manifest, status, mem, imm, full, current, log_number, logfile_number,
                  next_file, last_sequence, flush_queued, compact_queued, job, manifest_writers, writing>>
      /\ bg_error' \in {TRUE, bg_error}
  BY Zenon DEF SwitchFails, DelayWrite, disk, memory
<1>1. Client' /\ client'.version \in {{}, client.version}
  BY <1>k DEF SwitchFails, DelayWrite, Client, Idle
<1>2. Logs' /\ Tables' /\ Memory' /\ Versions'
  BY <1>k, <1>u, Zenon DEF Logs, Tables, Memory, Versions
<1>3. ByClient
  BY <1>z, <1>n, <1>u, <1>1 DEF ByClient
<1> QED
  BY <1>1, <1>2, <1>3 DEF Kinds

(* The record of a write in the log, or a torn one.                        *)
LEMMA AddRecordTypes ==
    ASSUME TypeInv, AddRecord \/ AddRecordFails
    PROVE  Kinds' /\ ByClient
<1>k. Logs /\ Tables /\ Memory /\ Client /\ Versions
  BY DEF TypeInv, Kinds
<1>z. status = "open"
  BY ClientOpen DEF AddRecord, AddRecordFails
<1>n. next_file \in Nat /\ imm \in Seq(Memtable) /\ Len(imm) \in Nat
  BY <1>k DEF Versions, Memory
<1>0. client.e \in SUBSET Entries
  BY <1>k DEF Client
<1>u. UNCHANGED <<tables, manifest, status, mem, imm, full, current, log_number, logfile_number,
                  next_file, last_sequence, flush_queued, compact_queued, job, manifest_writers, writing>>
      /\ bg_error' \in {TRUE, bg_error}
  BY Zenon DEF AddRecord, AddRecordFails, memory
<1>1. /\ DOMAIN logs' = DOMAIN logs
      /\ logs' \in [DOMAIN logs' -> LogFile]
  <2>1. CASE AddRecord
    BY <2>1, <1>k, <1>0, Zenon DEF AddRecord, Logs, LogFile
  <2>2. CASE AddRecordFails
    BY <2>2, <1>k, Zenon DEF AddRecordFails, Logs, LogFile
  <2> QED
    BY <2>1, <2>2
<1>2. Logs'
  BY <1>k, <1>1 DEF Logs
<1>3. Client' /\ client'.version \in {{}, client.version}
  BY <1>k DEF AddRecord, AddRecordFails, Client, Idle
<1>4. Tables' /\ Memory' /\ Versions'
  BY <1>k, <1>u, Zenon DEF Tables, Memory, Versions
<1>5. ByClient
  BY <1>z, <1>n, <1>u, <1>3 DEF ByClient
<1> QED
  BY <1>2, <1>3, <1>4, <1>5 DEF Kinds

(* The write in the memtable.                                              *)
LEMMA InsertIntoTypes ==
    ASSUME TypeInv, InsertInto
    PROVE  Kinds' /\ ByClient
<1>k. Logs /\ Tables /\ Memory /\ Client /\ Versions
  BY DEF TypeInv, Kinds
<1>z. status = "open"
  BY ClientOpen DEF InsertInto
<1>n. next_file \in Nat /\ imm \in Seq(Memtable) /\ Len(imm) \in Nat
  BY <1>k DEF Versions, Memory
<1>1. Client' /\ client'.version = {}
  BY <1>k DEF InsertInto, Client, Idle
<1>2. Memory'
  BY <1>k DEF InsertInto, Memory, Client
<1>3. Logs' /\ Tables' /\ Versions'
  BY <1>k DEF InsertInto, Logs, Tables, Versions, disk
<1>4. ByClient
  BY <1>z, <1>n, <1>1 DEF ByClient, InsertInto, disk
<1> QED
  BY <1>1, <1>2, <1>3, <1>4 DEF Kinds

(* A compaction thread that finds nothing to pick.                         *)
LEMMA NothingToDoTypes ==
    ASSUME TypeInv, NEW c \in Compactors, NothingToDo(c)
    PROVE  Kinds' /\ ByClient
<1>k. Logs /\ Tables /\ Memory /\ Client /\ Versions
  BY DEF TypeInv, Kinds
<1>n. next_file \in Nat /\ imm \in Seq(Memtable) /\ Len(imm) \in Nat
  BY <1>k DEF Versions, Memory
<1>1. Logs' /\ Tables' /\ Memory' /\ Versions' /\ Client'
  BY <1>k, Zenon DEF NothingToDo, Logs, Tables, Memory, Versions, Client, disk, threads
<1>2. ByClient
  BY <1>n DEF ByClient, NothingToDo, disk, threads
<1> QED
  BY <1>1, <1>2 DEF Kinds

(* The steps of the client, and the idle one of a compaction thread.       *)
ClientSteps ==
    \/ \E k \in Keys, d \in BOOLEAN : Write(k, d)
    \/ Get \/ ClientStep \/ SwitchFails \/ AddRecordFails
    \/ \E c \in Compactors : NothingToDo(c)

LEMMA ClientTypes ==
    ASSUME TypeInv, ClientSteps
    PROVE  TypeInv' /\ ByClient
<1>1. Kinds' /\ ByClient
  BY WriteTypes, ReaderTypes, SwitchMemtableTypes, WaitTypes, AddRecordTypes, InsertIntoTypes,
     NothingToDoTypes, Zenon DEF ClientSteps, ClientStep
<1> QED
  BY <1>1, ClientFrame

-----------------------------------------------------------------------------
(* The steps of a background thread.                                       *)

(* What they have in common: the thread may queue an edit, and what it     *)
(* writes or adds is numbered below the counter.                           *)
ByJob(t) ==
    /\ status = "open" /\ job[t].pc # "commit"
    /\ job' = [job EXCEPT ![t] = job'[t]] /\ IsJob(job'[t])
    /\ UNCHANGED <<manifest, status, current, client, writing>>
    /\ manifest_writers' = IF job'[t].pc = "commit" THEN Append(manifest_writers, t) ELSE manifest_writers
    /\ next_file' >= next_file
    /\ Below(DOMAIN tables', next_file') /\ Below(FilesOf(job'[t].edit.add), next_file')
    /\ job'[Flusher].mems <= Len(imm')
    /\ t \in Compactors /\ job'[t].pc = "build" => job'[t].level + 1 \in Levels

(* The queue after such a step.                                            *)
LEMMA QueueGrows ==
    ASSUME TypeInv, NEW t \in Threads, ByJob(t)
    PROVE  /\ Queue'
           /\ \A i \in DOMAIN manifest_writers :
                 /\ i \in DOMAIN manifest_writers' /\ manifest_writers'[i] = manifest_writers[i]
                 /\ manifest_writers[i] \in Threads \ {t}
                 /\ job'[manifest_writers[i]] = job[manifest_writers[i]]
           /\ 1 .. writing.n \subseteq DOMAIN manifest_writers
<1>0. Kinds /\ Jobs /\ Queue
  BY DEF TypeInv
<1>u. writing' = writing
  BY DEF ByJob
<1>j. /\ DOMAIN job' = Threads /\ \A u \in Threads \ {t} : job'[u] = job[u]
  BY <1>0 DEF Jobs, ByJob
<1>q. \A i \in DOMAIN manifest_writers : manifest_writers[i] \in Threads \ {t}
  BY <1>0 DEF Queue, ByJob
<1>l. Len(manifest_writers) \in Nat /\ DOMAIN manifest_writers = 1 .. Len(manifest_writers)
      /\ writing.n \in Nat /\ writing.k \in Nat
      /\ writing.k <= writing.n /\ writing.n <= Len(manifest_writers)
  BY <1>0 DEF Queue, Kinds, Versions, WriteBatch
<1>a. /\ manifest_writers' \in Seq(Threads)
      /\ Len(manifest_writers') \in Nat /\ Len(manifest_writers') >= Len(manifest_writers)
      /\ DOMAIN manifest_writers' = 1 .. Len(manifest_writers')
      /\ \A i \in DOMAIN manifest_writers : manifest_writers'[i] = manifest_writers[i]
      /\ \A i \in DOMAIN manifest_writers' :
            i \in DOMAIN manifest_writers \/
            (i = Len(manifest_writers) + 1 /\ manifest_writers'[i] = t /\ job'[t].pc = "commit")
  <2>1. CASE job'[t].pc # "commit"
    <3>1. manifest_writers' = manifest_writers
      BY <2>1 DEF ByJob
    <3> QED
      BY <3>1, <1>0, <1>l DEF Queue
  <2>2. CASE job'[t].pc = "commit"
    <3>1. manifest_writers' = Append(manifest_writers, t) /\ manifest_writers \in Seq(Threads)
      BY <1>0, <2>2 DEF ByJob, Queue
    <3> QED
      BY <3>1, <2>2, <1>l
  <2> QED
    BY <2>1, <2>2
<1>1. Queue'
  <2>4. ASSUME NEW i \in DOMAIN manifest_writers' PROVE job'[manifest_writers'[i]].pc = "commit"
    BY <1>0, <1>j, <1>q, <1>a DEF Queue
  <2>5. ASSUME NEW i \in DOMAIN manifest_writers', NEW k \in DOMAIN manifest_writers',
               manifest_writers'[i] = manifest_writers'[k]
        PROVE  i = k
    BY <1>0, <1>q, <1>a, <2>5 DEF Queue
  <2>6. writing'.k <= writing'.n /\ writing'.n <= Len(manifest_writers')
    BY <1>u, <1>l, <1>a
  <2> QED
    BY <1>a, <2>4, <2>5, <2>6 DEF Queue
<1>2. DOMAIN manifest_writers \subseteq DOMAIN manifest_writers'
      /\ 1 .. writing.n \subseteq DOMAIN manifest_writers
  BY <1>a, <1>l
<1> QED
  BY <1>1, <1>2, <1>a, <1>j, <1>q

LEMMA JobFrame ==
    ASSUME TypeInv, NEW t \in Threads, ByJob(t), Kinds'
    PROVE  TypeInv'
<1>0. Kinds /\ Jobs /\ Queue /\ Stopped /\ Numbered
  BY DEF TypeInv
<1>u. UNCHANGED <<manifest, status, current, client, writing>> /\ status = "open"
  BY DEF ByJob
<1>n. /\ next_file \in Nat /\ next_file' \in Nat /\ next_file' >= next_file
      /\ manifest.next_file \in Nat /\ writing.next_file \in Nat
  BY <1>0 DEF ByJob, Kinds, Versions, WriteBatch, Manifest
<1>j. DOMAIN job' = Threads /\ \A u \in Threads \ {t} : job'[u] = job[u]
  BY <1>0 DEF Jobs, ByJob
<1>1. Jobs'
  <2>1. ASSUME NEW u \in Threads PROVE IsJob(job'[u])
    BY <1>0, <1>j DEF Jobs, ByJob
  <2>2. ASSUME NEW c \in Compactors, job'[c].pc = "build" PROVE job'[c].level + 1 \in Levels
    <3>1. CASE c = t
      BY <2>2, <3>1 DEF ByJob
    <3>2. CASE c # t
      BY <1>0, <1>j, <2>2, <3>2 DEF Jobs, Threads
    <3> QED
      BY <3>1, <3>2
  <2>3. job'[Flusher].mems <= Len(imm')
    BY DEF ByJob
  <2> QED
    BY <1>j, <2>1, <2>2, <2>3 DEF Jobs
<1>2. Queue'
  BY QueueGrows
<1>3. Stopped'
  BY <1>u DEF Stopped
<1>4. Numbered'
  <2>1. /\ FilesOf(current) \subseteq Nat /\ FilesOf(writing.version) \subseteq Nat
        /\ \A u \in Threads : FilesOf(job[u].edit.add) \subseteq Nat
    BY <1>0, FilesOfVersion, Zenon DEF Kinds, Versions, Jobs, IsJob, Edit, WriteBatch
  <2>2. /\ Below(FilesOf(current), next_file')
        /\ writing.n > 0 => Below(FilesOf(writing.version), next_file')
        /\ \A u \in Threads : Below(FilesOf(job[u].edit.add), next_file')
    BY <1>0, <1>n, <1>u, <2>1, BelowGrows DEF Numbered
  <2>3. /\ next_file' > 0 /\ manifest.next_file <= next_file'
        /\ writing.n > 0 => writing.next_file <= next_file'
    BY <1>0, <1>n, <1>u DEF Numbered
  <2>4. \A u \in Threads : Below(FilesOf(job'[u].edit.add), next_file')
    BY <1>j, <2>2 DEF ByJob
  <2>5. \A i \in 1 .. writing.n : job'[manifest_writers'[i]] = job[manifest_writers[i]]
    BY QueueGrows
  <2>6. ASSUME NEW i \in 1 .. writing'.n
        PROVE  Below(FilesOf(job'[manifest_writers'[i]].edit.add), writing'.next_file)
    BY <1>0, <1>u, <2>5 DEF Numbered
  <2>7. Below(DOMAIN tables', next_file')
    BY DEF ByJob
  <2> QED
    BY <1>0, <1>u, <2>2, <2>3, <2>4, <2>6, <2>7 DEF Numbered
<1> QED
  BY <1>1, <1>2, <1>3, <1>4 DEF TypeInv

(* Only an open store has jobs.                                            *)
LEMMA JobOpen ==
    ASSUME TypeInv, NEW t \in Threads, job[t].pc # "idle"
    PROVE  status = "open"
BY ZenonT(30) DEF TypeInv, Stopped, NoJob

(* The fields of a thread without a job.                                   *)
LEMMA NoJobFields ==
    /\ IsJob(NoJob) /\ NoJob.pc = "idle" /\ NoJob.base = {} /\ NoJob.pending = 0 /\ NoJob.mems = 0
    /\ NoJob.in = {} /\ NoJob.edit = NoEdit /\ NoJob.dead = NoDead /\ NoJob.dead.tables = {}
    /\ NoEdit \in Edit /\ NoEdit.add = {} /\ NoEdit.del = {} /\ FilesOf(NoEdit.add) = {}
BY FilesOfVersion, Zenon DEF NoJob, NoEdit, NoDead, IsJob, Edit

(* A flush reserves the number of its table.                               *)
LEMMA BackgroundFlushTypes ==
    ASSUME TypeInv, BackgroundFlush
    PROVE  /\ Kinds' /\ ByJob(Flusher)
           /\ job'[Flusher].pc = "build" /\ FilesOf(job'[Flusher].edit.add) = {next_file}
           /\ job'[Flusher].edit.del = {} /\ job'[Flusher].in = {} /\ job'[Flusher].base = {}
           /\ job'[Flusher].pending = next_file /\ job'[Flusher].dead = NoDead
<1> DEFINE e == [NoEdit EXCEPT !.add = {<<0, next_file>>}, !.log = imm[Len(imm)].next_log]
           J == [NoJob EXCEPT !.pc = "build", !.mems = Len(imm), !.pending = next_file, !.edit = e]
<1>0. Kinds /\ Jobs /\ Numbered
  BY DEF TypeInv
<1>k. Logs /\ Tables /\ Memory /\ Client /\ Versions
  BY <1>0 DEF Kinds
<1>s. status = "open" /\ Flusher \in Threads /\ Flusher \notin Compactors /\ job[Flusher].pc # "commit"
  BY DBConstants DEF BackgroundFlush, Threads
<1>n. next_file \in Nat /\ DOMAIN tables \in SUBSET Nat /\ Below(DOMAIN tables, next_file)
  BY <1>0, <1>k, <1>s DEF Versions, Tables, Numbered
<1>u. /\ next_file' = next_file + 1 /\ job' = [job EXCEPT ![Flusher] = J]
      /\ UNCHANGED <<logs, tables, manifest, status, mem, imm, full, current, log_number, logfile_number,
                     last_sequence, bg_error, compact_queued, client, writing, manifest_writers>>
      /\ flush_queued' = FALSE
  BY DEF BackgroundFlush, disk
<1>i. imm \in Seq(Memtable) /\ Len(imm) \in Nat
  BY <1>k DEF Memory
<1>1. Len(imm) >= 1
  <2>1. MinMerge \in Nat \ {0}
    BY DBConstants
  <2>2. job[Flusher].mems \in Nat
    BY <1>0, <1>s DEF Jobs, IsJob
  <2>3. Len(imm) - job[Flusher].mems >= MinMerge
    BY DEF BackgroundFlush, IsFlushPending
  <2> QED
    BY <2>1, <2>2, <2>3, <1>i
<1>2. imm[Len(imm)].next_log \in Nat
  <2>1. Len(imm) \in DOMAIN imm
    BY <1>1, <1>i
  <2>2. imm[Len(imm)] \in Memtable
    BY <2>1, <1>i
  <2> QED
    BY <2>2 DEF Memtable
<1>3. e \in Edit /\ e.add = {<<0, next_file>>} /\ e.del = {}
  <2>1. {<<0, next_file>>} \in SUBSET Files
    BY <1>n, SomeLevels DEF Files
  <2> QED
    BY <1>2, <2>1, Zenon DEF NoEdit, Edit
<1> HIDE DEF e
<1>4. /\ J.pc = "build" /\ J.edit = e /\ J.pending = next_file /\ J.base = {} /\ J.in = {}
      /\ J.dead = NoDead /\ J.mems = Len(imm)
  BY DEF NoJob
<1>5. IsJob(J)
  BY <1>3, <1>n, <1>i DEF IsJob, NoJob, NoDead
<1> HIDE DEF J
<1>6. Kinds'
  <2>1. Logs' /\ Tables' /\ Client'
    BY <1>k, <1>u DEF Logs, Tables, Client
  <2>2. Versions'
    BY <1>k, <1>n, <1>u DEF Versions
  <2>3. Memory'
    BY <1>k, <1>u, Zenon DEF Memory
  <2> QED
    BY <2>1, <2>2, <2>3 DEF Kinds
<1>7. job'[Flusher] = J
  BY <1>0, <1>s, <1>u DEF Jobs
<1>8. FilesOf(J.edit.add) = {next_file}
  BY <1>3, <1>4, PairsAndFiles, Zenon
<1>9. ByJob(Flusher)
  <2>1. next_file' \in Nat /\ next_file' >= next_file /\ next_file <= next_file'
    BY <1>n, <1>u
  <2>2. Below(DOMAIN tables, next_file')
    BY <1>n, <2>1, BelowGrows
  <2>3. Below(FilesOf(J.edit.add), next_file')
    BY <1>8, <1>n, <1>u DEF Below
  <2>4. J.mems <= Len(imm')
    BY <1>4, <1>i, <1>u
  <2> QED
    BY <1>s, <1>4, <1>5, <1>7, <1>u, <2>1, <2>2, <2>3, <2>4, Zenon DEF ByJob
<1> QED
  BY <1>3, <1>4, <1>6, <1>7, <1>8, <1>9

(* Tables of a job, numbered as the job reserved or anew.                  *)
Writes(t, T, e) ==
    /\ job[t].pc = "build" /\ WriteTables(t, T, e)
    /\ next_file' \in Nat /\ next_file' >= next_file
    /\ UNCHANGED <<logs, manifest, status, mem, imm, full, current, log_number, logfile_number,
                   bg_error, flush_queued, compact_queued, client, writing, last_sequence>>
    /\ FilesOf(e.add) = DOMAIN T
    /\ \A f \in DOMAIN T : T[f] \subseteq Entries
    /\ Below(DOMAIN T, next_file')

(* The tables of a job are written and its edit is queued.                 *)
LEMMA WriteTablesTypes ==
    ASSUME TypeInv, NEW t \in Threads, NEW T, NEW e \in Edit, Writes(t, T, e)
    PROVE  /\ Kinds' /\ ByJob(t)
           /\ job'[t].pc = "commit" /\ job'[t].edit = e /\ job'[t].base = job[t].base
           /\ job'[t].pending = job[t].pending /\ job'[t].dead = job[t].dead
           /\ job'[t].in = job[t].in
           /\ DOMAIN tables' = DOMAIN tables \cup DOMAIN T
<1> DEFINE J == [job[t] EXCEPT !.pc = "commit", !.edit = e]
<1>0. Kinds /\ Jobs /\ Numbered
  BY DEF TypeInv
<1>k. Logs /\ Tables /\ Memory /\ Client /\ Versions
  BY <1>0 DEF Kinds
<1>w. /\ job[t].pc = "build" /\ next_file' \in Nat /\ next_file' >= next_file
      /\ UNCHANGED <<logs, manifest, status, mem, imm, full, current, log_number, logfile_number,
                     bg_error, flush_queued, compact_queued, client, writing, last_sequence>>
  BY DEF Writes
<1>s. status = "open"
  BY <1>w, JobOpen
<1>j. IsJob(job[t]) /\ DOMAIN job = Threads /\ Flusher \in Threads
  BY <1>0 DEF Jobs, Threads
<1>1. /\ IsJob(J) /\ J.pc = "commit" /\ J.edit = e /\ J.base = job[t].base
      /\ J.pending = job[t].pending /\ J.dead = job[t].dead /\ J.mems = job[t].mems
      /\ J.in = job[t].in
  BY <1>j DEF IsJob
<1>2. job' = [job EXCEPT ![t] = J]
  BY <1>j, Zenon DEF Writes, WriteTables
<1>7. job'[t] = J
  BY <1>2, <1>j
<1>3. /\ tables' = [n \in DOMAIN tables \cup DOMAIN T |-> IF n \in DOMAIN T THEN T[n] ELSE tables[n]]
      /\ manifest_writers' = Append(manifest_writers, t)
  BY Zenon DEF Writes, WriteTables
<1>t. /\ DOMAIN T \subseteq Nat /\ Below(DOMAIN T, next_file')
      /\ \A f \in DOMAIN T : T[f] \subseteq Entries
  BY FilesOfVersion DEF Writes, Edit
<1>n. next_file \in Nat /\ DOMAIN tables \in SUBSET Nat /\ Below(DOMAIN tables, next_file)
  BY <1>0, <1>k, <1>s DEF Numbered, Versions, Tables
<1>m. job'[Flusher].mems <= Len(imm')
  BY <1>0, <1>1, <1>2, <1>j, <1>w DEF Jobs
<1> HIDE DEF J
<1>4. Kinds'
  <2>1. Logs' /\ Memory' /\ Client'
    BY <1>k, <1>w, Zenon DEF Logs, Memory, Client
  <2>2. Versions'
    BY <1>k, <1>w, Zenon DEF Versions
  <2>3. Tables'
    BY <1>k, <1>3, <1>t DEF Tables
  <2> QED
    BY <2>1, <2>2, <2>3 DEF Kinds
<1>5. DOMAIN tables' = DOMAIN tables \cup DOMAIN T
  BY <1>3
<1>6. Below(DOMAIN tables', next_file')
  <2>1. next_file <= next_file'
    BY <1>n, <1>w, Zenon
  <2>2. Below(DOMAIN tables, next_file')
    BY <1>n, <1>w, <2>1, BelowGrows
  <2> QED
    BY <1>5, <1>t, <2>2, BelowGrows, Zenon
<1>8. ByJob(t)
  <2>1. FilesOf(J.edit.add) = DOMAIN T
    BY <1>1 DEF Writes
  <2> QED
    BY <1>s, <1>w, <1>m, <1>1, <1>2, <1>3, <1>6, <1>7, <1>t, <2>1, ZenonT(30) DEF ByJob
<1> QED
  BY <1>1, <1>4, <1>5, <1>7, <1>8 DEF J

(* FlushJob writes its table.                                              *)
LEMMA WriteLevel0TableTypes ==
    ASSUME TypeInv, WriteLevel0Table
    PROVE  \E T : Writes(Flusher, T, job[Flusher].edit) /\ job[Flusher].edit \in Edit
<1> DEFINE e == job[Flusher].edit
           data == Newest(UNION {imm[i].data : i \in 1 .. job[Flusher].mems})
           T == [n \in FilesOf(e.add) |-> data]
<1>0. Kinds /\ Jobs /\ Numbered /\ Flusher \in Threads /\ job[Flusher].pc = "build"
  BY DEF TypeInv, Threads, WriteLevel0Table
<1>1. e \in Edit /\ job[Flusher].mems \in Nat /\ job[Flusher].mems <= Len(imm)
  BY <1>0, Zenon DEF Jobs, IsJob
<1>2. WriteTables(Flusher, T, e)
      /\ UNCHANGED <<logs, manifest, status, mem, imm, full, current, log_number, logfile_number,
                     bg_error, flush_queued, compact_queued, client, writing, last_sequence, next_file>>
  BY Zenon DEF WriteLevel0Table, memory
<1>3. next_file \in Nat /\ imm \in Seq(Memtable) /\ Len(imm) \in Nat
  BY <1>0 DEF Kinds, Versions, Memory
<1>4. DOMAIN T = FilesOf(e.add) /\ \A f \in DOMAIN T : T[f] = data
  OBVIOUS
<1>5. data \subseteq Entries
  <2>1. ASSUME NEW i \in 1 .. job[Flusher].mems PROVE imm[i].data \subseteq Entries
    <3>1. i \in DOMAIN imm
      BY <1>1, <1>3
    <3>2. imm[i] \in Memtable
      BY <1>3, <3>1
    <3> QED
      BY <3>2 DEF Memtable
  <2> QED
    BY <2>1 DEF Newest
<1>6. Below(FilesOf(e.add), next_file')
  BY <1>0, <1>2 DEF Numbered
<1> HIDE DEF T, data
<1>7. Writes(Flusher, T, e)
  BY <1>0, <1>2, <1>3, <1>4, <1>5, <1>6 DEF Writes
<1> QED
  BY <1>1, <1>7

(* CompactionJob writes its outputs, with new numbers.                     *)
LEMMA RunCompactionTypes ==
    ASSUME TypeInv, NEW c \in Compactors, NEW cut, RunCompaction(c, cut)
    PROVE  \E T, e : /\ e \in Edit /\ e.del = job[c].in /\ Writes(c, T, e)
                     /\ \A f \in DOMAIN T : f \in Nat /\ f >= next_file
<1> DEFINE low == {x \in Compacted(c) : x.key < cut}
           high == Compacted(c) \ low
           parts == IF low # {} /\ high # {} THEN <<low, high>>
                    ELSE IF Compacted(c) # {} THEN <<Compacted(c)>> ELSE <<>>
           numbers == next_file .. next_file + Len(parts) - 1
           T == [n \in numbers |-> parts[n - next_file + 1]]
           e == [NoEdit EXCEPT !.del = job[c].in, !.add = Pairs(job[c].level + 1, numbers)]
<1>0. Kinds /\ Jobs /\ c \in Threads
  BY DEF TypeInv, Threads
<1>c. Compacted(c) \subseteq Entries
  <2>1. \A f : Contents(f) \subseteq Entries
    BY <1>0 DEF Kinds, Tables, Contents
  <2> QED
    BY <2>1 DEF Compacted, Newest
<1>1. Len(parts) \in Nat /\ \A i \in 1 .. Len(parts) : parts[i] \subseteq Entries
  <2>1. low \subseteq Entries /\ high \subseteq Entries
    BY <1>c
  <2> HIDE DEF low, high
  <2>2. CASE low # {} /\ high # {}
    <3>1. parts = <<low, high>>
      BY <2>2
    <3> QED
      BY <2>1, <3>1
  <2>3. CASE ~(low # {} /\ high # {}) /\ Compacted(c) # {}
    <3>1. parts = <<Compacted(c)>>
      BY <2>3
    <3> QED
      BY <1>c, <3>1
  <2>4. CASE ~(low # {} /\ high # {}) /\ Compacted(c) = {}
    <3>1. parts = <<>>
      BY <2>4
    <3> QED
      BY <3>1
  <2> QED
    BY <2>2, <2>3, <2>4
<1>2. job[c].pc = "build" /\ next_file' = next_file + Len(parts) /\ WriteTables(c, T, e)
      /\ UNCHANGED <<logs, manifest, status, mem, imm, full, current, log_number, logfile_number,
                     bg_error, flush_queued, compact_queued, client, writing, last_sequence>>
  BY DEF RunCompaction
<1> HIDE DEF parts
<1>n. next_file \in Nat
  BY <1>0 DEF Kinds, Versions
<1>j. job[c].in \in SUBSET Files /\ job[c].level + 1 \in Levels
  BY <1>0, <1>2 DEF Jobs, IsJob
<1>3. numbers \in SUBSET Nat
  BY <1>n, <1>1
<1>4. DOMAIN T = numbers
  OBVIOUS
<1>t. \A f \in DOMAIN T : T[f] \subseteq Entries
  <2>1. \A f \in numbers : f - next_file + 1 \in 1 .. Len(parts)
    BY <1>1, <1>n
  <2>2. \A f \in numbers : T[f] = parts[f - next_file + 1]
    OBVIOUS
  <2> HIDE DEF numbers, T
  <2> QED
    BY <1>1, <1>4, <2>1, <2>2, Zenon
<1>5. next_file' \in Nat /\ next_file' >= next_file
      /\ \A f \in numbers : f \in Nat /\ f < next_file' /\ f >= next_file
  BY <1>n, <1>1, <1>2
<1> HIDE DEF T, numbers
<1>6. /\ Pairs(job[c].level + 1, numbers) \in SUBSET Files
      /\ FilesOf(Pairs(job[c].level + 1, numbers)) = numbers
  BY <1>3, <1>j, PairsAndFiles
<1>7. /\ e.add = Pairs(job[c].level + 1, numbers) /\ e.del = job[c].in
      /\ e \in Edit
  BY <1>j, <1>6, ZenonT(30) DEF NoEdit, Edit
<1> HIDE DEF e
<1>8. Writes(c, T, e)
  <2>1. Below(DOMAIN T, next_file')
    BY <1>4, <1>5 DEF Below
  <2> QED
    BY <1>2, <1>4, <1>5, <1>6, <1>7, <1>t, <2>1, Zenon DEF Writes
<1>9. \A f \in DOMAIN T : f \in Nat /\ f >= next_file
  BY <1>4, <1>5
<1> QED
  BY <1>7, <1>8, <1>9

(* A compaction is picked from the files of the current version, of those  *)
(* that no other compacts.                                                 *)
LEMMA PicksOfCurrent ==
    ASSUME TypeInv, NEW l \in 0 .. NumLevels - 2, NEW in \in Picks(l)
    PROVE  /\ in \subseteq current /\ in \in SUBSET Files
           /\ FilesOf(in) \subseteq FilesOf(current)
           /\ in \cap Busy(job) = {}
<1>1. current \in SUBSET Files
  BY DEF TypeInv, Kinds, Versions
<1>2. ASSUME NEW m, NEW G, NEW f \in GetOverlappingInputs(current, m, G) PROVE <<m, f>> \in current
  <2>1. f \in FilesAt(current, m)
    BY DEF GetOverlappingInputs, Overlapping
  <2>2. PICK p \in current : p[1] = m /\ p[2] = f
    BY <2>1 DEF FilesAt
  <2>3. p = <<m, f>>
    BY <1>1, <2>2 DEF Files
  <2> QED
    BY <2>3
<1>3. ASSUME NEW m, NEW G PROVE Pairs(m, GetOverlappingInputs(current, m, G)) \subseteq current
  BY <1>2 DEF Pairs
<1>4. PICK f \in FilesAt(current, l) :
         in \in SetupOtherInputs(current, l, GetOverlappingInputs(current, l, {f}))
  BY Zenon DEF Picks
<1> DEFINE F == GetOverlappingInputs(current, l, {f})
           G == GetOverlappingInputs(current, l + 1, F)
           F1 == GetOverlappingInputs(current, l, F \cup G)
<1>5. in = Pairs(l, F) \cup Pairs(l + 1, G) \/ in = Pairs(l, F1) \cup Pairs(l + 1, G)
  BY <1>4, Zenon DEF SetupOtherInputs
<1>6. Pairs(l, F) \subseteq current /\ Pairs(l + 1, G) \subseteq current /\ Pairs(l, F1) \subseteq current
  BY <1>3
<1> HIDE DEF F, G, F1
<1>7. in \subseteq current
  BY <1>5, <1>6
<1>8. in \cap Busy(job) = {}
  BY DEF Picks
<1> QED
  BY <1>1, <1>7, <1>8 DEF FilesOf

(* The start of a compaction references the current version.               *)
LEMMA PickTypes ==
    ASSUME TypeInv, NEW c \in Compactors, NEW l \in 0 .. NumLevels - 2, NEW in,
           NEW pc \in {"build", "commit"}, NEW e \in Edit,
           FilesOf(e.add) \subseteq FilesOf(current),
           Pick(c, l, in, pc, e),
           manifest_writers' = IF pc = "commit" THEN Append(manifest_writers, c) ELSE manifest_writers
    PROVE  /\ Kinds' /\ ByJob(c)
           /\ in \subseteq current /\ in \cap Busy(job) = {}
           /\ job'[c].pc = pc /\ job'[c].edit = e /\ job'[c].in = in /\ job'[c].base = current
           /\ job'[c].pending = next_file /\ job'[c].dead = NoDead
           /\ UNCHANGED <<tables, next_file>>
<1> DEFINE J == [NoJob EXCEPT !.pc = pc, !.level = l, !.in = in, !.base = current,
                              !.pending = next_file, !.edit = e]
<1>0. Kinds /\ Jobs /\ Numbered /\ c \in Threads /\ c # Flusher /\ Flusher \in Threads
  BY DBConstants DEF TypeInv, Threads
<1>k. Logs /\ Tables /\ Memory /\ Client /\ Versions
  BY <1>0 DEF Kinds
<1>s. status = "open" /\ job[c].pc # "commit" /\ in \in Picks(l)
  BY DEF Pick
<1>u. /\ job' = [job EXCEPT ![c] = J]
      /\ UNCHANGED <<logs, tables, manifest, status, mem, imm, full, current, log_number, logfile_number,
                     next_file, last_sequence, bg_error, flush_queued, client, writing>>
      /\ compact_queued' \in BOOLEAN
  BY DEF Pick, disk, NeedsCompaction
<1>n. /\ next_file \in Nat /\ current \in SUBSET Files
      /\ Below(DOMAIN tables, next_file) /\ Below(FilesOf(current), next_file)
  BY <1>0, <1>k, <1>s DEF Versions, Numbered
<1>1. in \subseteq current /\ in \in SUBSET Files /\ in \cap Busy(job) = {} /\ l \in Nat
  BY <1>s, PicksOfCurrent
<1>2. /\ J.pc = pc /\ J.edit = e /\ J.pending = next_file /\ J.base = current
      /\ J.dead = NoDead /\ J.in = in /\ J.level = l
  BY DEF NoJob
<1>3. IsJob(J)
  BY <1>1, <1>n DEF IsJob, NoJob, NoDead
<1> HIDE DEF J
<1>4. Kinds'
  <2>1. Logs' /\ Tables' /\ Client'
    BY <1>k, <1>u, Zenon DEF Logs, Tables, Client
  <2>2. Versions'
    BY <1>k, <1>u DEF Versions
  <2>3. Memory'
    BY <1>k, <1>u DEF Memory
  <2> QED
    BY <2>1, <2>2, <2>3 DEF Kinds
<1>5. job'[c] = J /\ job'[Flusher] = job[Flusher]
  BY <1>0, <1>u DEF Jobs
<1>6. ByJob(c)
  <2>1. Below(DOMAIN tables', next_file') /\ Below(FilesOf(e.add), next_file') /\ next_file' >= next_file
    BY <1>n, <1>u DEF Below
  <2>2. job'[Flusher].mems <= Len(imm')
    BY <1>0, <1>5, <1>u DEF Jobs
  <2>3. l + 1 \in Levels
    BY SomeLevels, Zenon
  <2> QED
    BY <1>s, <1>2, <1>3, <1>5, <1>u, <2>1, <2>2, <2>3, Zenon DEF ByJob
<1> QED
  BY <1>1, <1>2, <1>4, <1>5, <1>6, <1>u

(* A compaction or a trivial move starts.                                  *)
LEMMA StartCompactionTypes ==
    ASSUME TypeInv, NEW c \in Compactors, NEW l \in 0 .. NumLevels - 2, StartCompaction(c, l)
    PROVE  /\ Kinds' /\ ByJob(c)
           /\ job'[c].in \subseteq current /\ job'[c].in \cap Busy(job) = {}
           /\ job'[c].pc \in {"build", "commit"} /\ job'[c].base = current
           /\ job'[c].pending = next_file /\ job'[c].dead = NoDead
           /\ FilesOf(job'[c].edit.add) \subseteq FilesOf(current)
           /\ job'[c].pc = "commit" => job'[c].edit.del = job'[c].in
           /\ job'[c].pc = "build" => job'[c].edit = NoEdit
           /\ UNCHANGED <<tables, next_file>>
<1>1. PICK in \in Picks(l) : BackgroundCompaction(c, l, in) \/ TrivialMove(c, l, in)
  BY Zenon DEF StartCompaction
<1>2. CASE BackgroundCompaction(c, l, in)
  <2>1. NoEdit \in Edit /\ FilesOf(NoEdit.add) \subseteq FilesOf(current)
    BY NoJobFields
  <2>2. Pick(c, l, in, "build", NoEdit) /\ manifest_writers' = manifest_writers
    BY <1>2 DEF BackgroundCompaction
  <2>3. PICK pc \in {"build", "commit"} : pc = "build"
    OBVIOUS
  <2>4. manifest_writers' = IF pc = "commit" THEN Append(manifest_writers, c) ELSE manifest_writers
    BY <2>2, <2>3
  <2>5. Pick(c, l, in, pc, NoEdit)
    BY <2>2, <2>3
  <2>6. /\ Kinds' /\ ByJob(c)
        /\ in \subseteq current /\ in \cap Busy(job) = {}
        /\ job'[c].pc = pc /\ job'[c].edit = NoEdit /\ job'[c].in = in /\ job'[c].base = current
        /\ job'[c].pending = next_file /\ job'[c].dead = NoDead
        /\ UNCHANGED <<tables, next_file>>
    BY <2>1, <2>4, <2>5, PickTypes, ZenonT(30)
  <2> QED
    BY <2>1, <2>3, <2>6
<1>3. CASE TrivialMove(c, l, in)
  <2> DEFINE e == [NoEdit EXCEPT !.del = in, !.add = Pairs(l + 1, FilesOf(in))]
  <2>1. in \in SUBSET Files /\ FilesOf(in) \subseteq FilesOf(current) /\ FilesOf(in) \in SUBSET Nat
    BY PicksOfCurrent, FilesOfVersion
  <2>2. l + 1 \in Levels
    BY SomeLevels
  <2>3. /\ Pairs(l + 1, FilesOf(in)) \in SUBSET Files
        /\ FilesOf(Pairs(l + 1, FilesOf(in))) = FilesOf(in)
    BY <2>1, <2>2, PairsAndFiles
  <2>4. e \in Edit /\ e.add = Pairs(l + 1, FilesOf(in)) /\ e.del = in
    BY <2>1, <2>3, Zenon DEF NoEdit, Edit
  <2>5. Pick(c, l, in, "commit", e) /\ manifest_writers' = Append(manifest_writers, c)
    BY <1>3 DEF TrivialMove
  <2> HIDE DEF e
  <2>6. PICK pc \in {"build", "commit"} : pc = "commit"
    OBVIOUS
  <2>7. manifest_writers' = IF pc = "commit" THEN Append(manifest_writers, c) ELSE manifest_writers
    BY <2>5, <2>6, Zenon
  <2>8. Pick(c, l, in, pc, e) /\ FilesOf(e.add) \subseteq FilesOf(current)
    BY <2>1, <2>3, <2>4, <2>5, <2>6
  <2>9. /\ Kinds' /\ ByJob(c)
        /\ in \subseteq current /\ in \cap Busy(job) = {}
        /\ job'[c].pc = pc /\ job'[c].edit = e /\ job'[c].in = in /\ job'[c].base = current
        /\ job'[c].pending = next_file /\ job'[c].dead = NoDead
        /\ UNCHANGED <<tables, next_file>>
    <3>1. e \in Edit
      BY <2>4
    <3> QED
      BY <2>7, <2>8, <3>1, PickTypes, Zenon
  <2> QED
    BY <2>4, <2>6, <2>8, <2>9
<1> QED
  BY <1>1, <1>2, <1>3, Zenon

(* What is left of a job whose work failed.                                *)
LEMMA FailedFields ==
    ASSUME NEW j, IsJob(j)
    PROVE  /\ IsJob(Failed(j)) /\ Failed(j).pc = "failed" /\ Failed(j).base = {} /\ Failed(j).in = {}
           /\ Failed(j).mems = 0 /\ Failed(j).edit = NoEdit
           /\ Failed(j).pending = j.pending /\ Failed(j).dead = j.dead
BY NoJobFields, Zenon DEF IsJob, Failed

(* A job whose table could not be written.                                 *)
LEMMA BuildFailsTypes ==
    ASSUME TypeInv, NEW t \in Threads, BuildFails(t)
    PROVE  /\ Kinds' /\ ByJob(t)
           /\ job'[t].pc = "failed" /\ job'[t].base = {} /\ job'[t].in = {} /\ job'[t].edit = NoEdit
           /\ job'[t].pending = job[t].pending /\ job'[t].dead = job[t].dead
           /\ UNCHANGED <<tables, next_file>>
<1> DEFINE J == Failed(job[t])
<1>0. Kinds /\ Jobs /\ Numbered /\ Flusher \in Threads
  BY DEF TypeInv, Threads
<1>k. Logs /\ Tables /\ Memory /\ Client /\ Versions
  BY <1>0 DEF Kinds
<1>u. /\ job[t].pc = "build" /\ job' = [job EXCEPT ![t] = J] /\ bg_error' = TRUE
      /\ UNCHANGED <<logs, tables, manifest, status, mem, imm, full, current, log_number, logfile_number,
                     next_file, last_sequence, flush_queued, compact_queued, client, manifest_writers,
                     writing>>
  BY DEF BuildFails, disk
<1>s. status = "open"
  BY <1>u, JobOpen
<1>n. next_file \in Nat /\ Below(DOMAIN tables, next_file)
  BY <1>0, <1>k, <1>s, Zenon DEF Versions, Numbered
<1>1. /\ IsJob(J) /\ J.pc = "failed" /\ J.base = {} /\ J.in = {} /\ J.mems = 0 /\ J.edit = NoEdit
      /\ J.pending = job[t].pending /\ J.dead = job[t].dead
  BY <1>0, FailedFields DEF Jobs
<1> HIDE DEF J
<1>2. Kinds'
  <2>1. Logs' /\ Tables' /\ Client'
    BY <1>k, <1>u DEF Logs, Tables, Client
  <2>2. Versions'
    BY <1>k, <1>u DEF Versions
  <2>3. Memory'
    BY <1>k, <1>u DEF Memory
  <2> QED
    BY <2>1, <2>2, <2>3 DEF Kinds
<1>3. job'[t] = J /\ \A u \in Threads \ {t} : job'[u] = job[u]
  BY <1>0, <1>u DEF Jobs
<1>4. ByJob(t)
  <2>1. next_file' >= next_file /\ Below(DOMAIN tables', next_file')
    BY <1>n, <1>u
  <2>2. Below(FilesOf(J.edit.add), next_file')
    BY <1>1, NoJobFields, BelowGrows
  <2>3. job'[Flusher].mems <= Len(imm')
    <3>0. imm \in Seq(Memtable) /\ imm' = imm
      BY <1>k, <1>u, Zenon DEF Memory
    <3>1. Len(imm) \in Nat
      BY <3>0
    <3>2. CASE t = Flusher
      <4>1. job'[Flusher].mems = 0
        BY <3>2, <1>1, <1>3, Zenon
      <4> QED
        BY <3>0, <3>1, <4>1
    <3>3. CASE t # Flusher
      BY <3>3, <1>0, <1>3, <1>u DEF Jobs
    <3> QED
      BY <3>2, <3>3
  <2> QED
    BY <1>s, <1>1, <1>3, <1>u, <2>1, <2>2, <2>3, Zenon DEF ByJob
<1> QED
  BY <1>1, <1>2, <1>3, <1>4, <1>u, Zenon

(* The end of a flush, of a compaction, or of a failed job.                *)
JobEnds(t) ==
    \/ FlushDone /\ t = Flusher
    \/ t \in Compactors /\ CompactionDone(t)
    \/ JobFailed(t)

(* What the thread lists as obsolete.                                      *)
LEMMA JobEndTypes ==
    ASSUME TypeInv, NEW t \in Threads, JobEnds(t)
    PROVE  LET D == FindObsoleteFiles([job EXCEPT ![t] = NoJob])
           IN /\ Kinds' /\ ByJob(t)
              /\ job[t].pc \in {"done", "failed"}
              /\ job'[t] \in {NoJob, [NoJob EXCEPT !.pc = "purge", !.dead = D]}
              /\ job'[t].pc \in {"idle", "purge"} /\ job'[t].base = {} /\ job'[t].in = {}
              /\ job'[t].edit = NoEdit /\ job'[t].pending = 0 /\ job'[t].dead.tables \subseteq D.tables
              /\ UNCHANGED <<tables, next_file, logs>>
<1> DEFINE j == [job EXCEPT ![t] = NoJob]
           D == FindObsoleteFiles(j)
           K == [NoJob EXCEPT !.pc = "purge", !.dead = D]
<1>0. Kinds /\ Jobs /\ Numbered /\ Flusher \in Threads
  BY DEF TypeInv, Threads
<1>k. Logs /\ Tables /\ Memory /\ Client /\ Versions
  BY <1>0 DEF Kinds
<1>u. /\ job[t].pc \in {"done", "failed"} /\ FinishJob(t)
      /\ UNCHANGED <<logs, tables, manifest, status, mem, full, current, log_number, logfile_number,
                     next_file, last_sequence, bg_error, client, manifest_writers, writing>>
      /\ imm' \in {imm, SubSeq(imm, job[Flusher].mems + 1, Len(imm))}
      /\ t # Flusher => imm' = imm
      /\ flush_queued' \in {flush_queued, TRUE, FALSE} /\ compact_queued' \in {compact_queued, TRUE, FALSE}
  <2>1. CASE FlushDone /\ t = Flusher
    BY <2>1, Zenon DEF FlushDone, disk
  <2>2. CASE t \in Compactors /\ CompactionDone(t)
    BY <2>2, Zenon DEF CompactionDone, disk
  <2>3. CASE JobFailed(t)
    BY <2>3 DEF JobFailed, disk, memory
  <2> QED
    BY <2>1, <2>2, <2>3, Zenon DEF JobEnds
<1>s. status = "open"
  BY <1>u, JobOpen
<1>n. next_file \in Nat /\ Below(DOMAIN tables, next_file) /\ imm \in Seq(Memtable)
  BY <1>0, <1>k, <1>s DEF Versions, Numbered, Memory
<1>i. imm' \in Seq(Memtable) /\ Len(imm') \in Nat
  <2>1. job[Flusher].mems \in Nat
    BY <1>0, Zenon DEF Jobs, IsJob
  <2>2. SubSeq(imm, job[Flusher].mems + 1, Len(imm)) \in Seq(Memtable)
    BY <1>n, <2>1
  <2>3. imm' \in Seq(Memtable)
    BY <1>n, <1>u, <2>2, Zenon
  <2> QED
    BY <2>3
<1>d. D \in [tables : SUBSET Nat, logs : SUBSET Nat]
  BY <1>k DEF FindObsoleteFiles, Logs, Tables
<1>c. job' = IF D = NoDead THEN j ELSE [j EXCEPT ![t].pc = "purge", ![t].dead = D]
  BY <1>u DEF FinishJob
<1>f. DOMAIN j = Threads /\ j[t] = NoJob /\ \A u \in Threads \ {t} : j[u] = job[u]
  BY <1>0 DEF Jobs
<1>e. j = [job EXCEPT ![t] = NoJob]
  OBVIOUS
<1> HIDE DEF D
<1>x. /\ IsJob(K) /\ K.pc = "purge" /\ K.base = {} /\ K.in = {} /\ K.mems = 0 /\ K.edit = NoEdit
      /\ K.pending = 0 /\ K.dead = D
  BY <1>d, NoJobFields DEF NoJob, IsJob
<1>1. /\ job'[t] \in {NoJob, K} /\ job' = [job EXCEPT ![t] = job'[t]]
  <2>1. CASE D = NoDead
    <3>1. job' = j
      BY <1>c, <2>1
    <3> QED
      BY <3>1, <1>f, <1>e
  <2>2. CASE D # NoDead
    <3> HIDE DEF j, K
    <3>1. job' = [j EXCEPT ![t] = [j[t] EXCEPT !.pc = "purge", !.dead = D]]
      BY <1>c, <1>f, <2>2, Zenon
    <3>2. job' = [j EXCEPT ![t] = K]
      BY <3>1, <1>f DEF K
    <3>3. job'[t] = K
      BY <3>2, <1>f
    <3>4. [[job EXCEPT ![t] = NoJob] EXCEPT ![t] = K] = [job EXCEPT ![t] = K]
      BY <1>0, Zenon DEF Jobs
    <3> QED
      BY <3>2, <3>3, <3>4, <1>e, Zenon
  <2> QED
    BY <2>1, <2>2
<1>2. \A u \in Threads \ {t} : job'[u] = job[u]
  BY <1>0, <1>1 DEF Jobs
<1> HIDE DEF j, K
<1>y. /\ job'[t].pc \in {"idle", "purge"} /\ job'[t].base = {} /\ job'[t].in = {}
      /\ job'[t].edit = NoEdit /\ job'[t].pending = 0 /\ job'[t].dead.tables \subseteq D.tables
      /\ IsJob(job'[t]) /\ job'[t].mems = 0
  BY <1>1, <1>x, NoJobFields
<1>3. Kinds'
  <2>1. Logs' /\ Tables' /\ Client'
    BY <1>k, <1>u, Zenon DEF Logs, Tables, Client
  <2>2. Versions'
    BY <1>k, <1>u, ZenonT(30) DEF Versions
  <2>3. Memory'
    BY <1>k, <1>i, <1>u, Zenon DEF Memory
  <2> QED
    BY <2>1, <2>2, <2>3 DEF Kinds
<1>4. ByJob(t)
  <2>1. next_file' >= next_file /\ Below(DOMAIN tables', next_file')
    <3>1. next_file >= next_file
      BY <1>n
    <3>2. next_file' = next_file /\ tables' = tables
      BY <1>u, Zenon
    <3> QED
      BY <1>n, <3>1, <3>2, Zenon
  <2>2. Below(FilesOf(job'[t].edit.add), next_file')
    BY <1>y, NoJobFields, BelowGrows
  <2>3. job'[Flusher].mems <= Len(imm')
    <3>1. CASE t = Flusher
      BY <3>1, <1>i, <1>y
    <3>2. CASE t # Flusher
      BY <3>2, <1>0, <1>2, <1>u, Zenon DEF Jobs
    <3> QED
      BY <3>1, <3>2
  <2>4. job[t].pc # "commit"
    BY <1>u, Zenon
  <2> QED
    BY <1>s, <1>1, <1>y, <1>u, <2>1, <2>2, <2>3, <2>4, ZenonT(30) DEF ByJob
<1> QED
  BY <1>1, <1>3, <1>4, <1>u, <1>y, Zenon DEF D, j, K

(* PurgeObsoleteFiles.                                                     *)
LEMMA PurgeTypes ==
    ASSUME TypeInv, NEW t \in Threads, PurgeObsoleteFiles(t)
    PROVE  /\ Kinds' /\ ByJob(t) /\ job'[t] = NoJob
           /\ DOMAIN tables' = DOMAIN tables \ job[t].dead.tables
           /\ UNCHANGED next_file
<1>0. Kinds /\ Jobs /\ Numbered /\ Flusher \in Threads
  BY DEF TypeInv, Threads
<1>k. Logs /\ Tables /\ Memory /\ Client /\ Versions
  BY <1>0, Zenon DEF Kinds
<1>u. /\ job[t].pc = "purge" /\ job' = [job EXCEPT ![t] = NoJob]
      /\ tables' = [n \in DOMAIN tables \ job[t].dead.tables |-> tables[n]]
      /\ logs' = [n \in DOMAIN logs \ job[t].dead.logs |-> logs[n]]
      /\ UNCHANGED <<manifest, status, mem, imm, full, current, log_number, logfile_number, next_file,
                     last_sequence, bg_error, flush_queued, compact_queued, client, manifest_writers,
                     writing>>
  BY Zenon DEF PurgeObsoleteFiles, memory
<1>s. status = "open"
  BY <1>u, JobOpen, Zenon
<1>n. next_file \in Nat /\ Below(DOMAIN tables, next_file)
  BY <1>0, <1>k, <1>s DEF Versions, Numbered
<1>d. DOMAIN tables' = DOMAIN tables \ job[t].dead.tables
  BY <1>u
<1>t. job'[t] = NoJob /\ \A u \in Threads \ {t} : job'[u] = job[u]
  BY <1>0, <1>u DEF Jobs
<1>1. Kinds'
  <2>1. Client' /\ Versions'
    BY <1>k, <1>u, Zenon DEF Client, Versions
  <2>2. Memory'
    BY <1>k, <1>u, Zenon DEF Memory
  <2>3. Tables'
    BY <1>k, <1>d, <1>u DEF Tables
  <2> DEFINE E == DOMAIN logs \ job[t].dead.logs
  <2>4. E \subseteq DOMAIN logs /\ DOMAIN logs' = E /\ logs' = [n \in E |-> logs[n]]
    BY <1>u
  <2>5. logs' \in [DOMAIN logs' -> LogFile]
    <3>1. ASSUME NEW n \in E PROVE logs[n] \in LogFile
      BY <1>k, <2>4, Zenon DEF Logs
    <3> HIDE DEF E
    <3>2. [n \in E |-> logs[n]] \in [E -> LogFile]
      BY <3>1
    <3> QED
      BY <2>4, <3>2, Zenon
  <2>6. Logs'
    BY <1>k, <2>4, <2>5 DEF Logs
  <2> QED
    BY <2>1, <2>2, <2>3, <2>6, Zenon DEF Kinds
<1>2. ByJob(t)
  <2>1. next_file' >= next_file /\ Below(DOMAIN tables', next_file')
    BY <1>d, <1>n, <1>u DEF Below
  <2>2. Below(FilesOf(NoJob.edit.add), next_file')
    BY NoJobFields, BelowGrows
  <2>3. job'[Flusher].mems <= Len(imm')
    <3>1. CASE t = Flusher
      BY <3>1, <1>k, <1>t, <1>u, NoJobFields DEF Memory
    <3>2. CASE t # Flusher
      BY <3>2, <1>0, <1>t, <1>u DEF Jobs
    <3> QED
      BY <3>1, <3>2
  <2>4. job[t].pc # "commit"
    BY <1>u
  <2> QED
    BY <1>s, <1>t, <1>u, <2>1, <2>2, <2>3, <2>4, NoJobFields, Zenon DEF ByJob
<1> QED
  BY <1>1, <1>2, <1>d, <1>t, <1>u

-----------------------------------------------------------------------------
(* LogAndApply.                                                            *)

(* The batch that is being written, or the one that starts, and its next   *)
(* edit.                                                                   *)
NextBatch ==
    IF writing.n > 0 THEN writing
    ELSE [n |-> Len(manifest_writers), k |-> 0, version |-> current,
          next_file |-> next_file, last_sequence |-> last_sequence]

NextWriter == manifest_writers[NextBatch.k + 1]

(* A record of the batch in the MANIFEST.                                  *)
LEMMA RecordTypes ==
    ASSUME TypeInv, WriteManifestRecord
    PROVE  LET w == NextBatch
               e == job[NextWriter].edit
           IN /\ status = "open" /\ w \in WriteBatch /\ w.n <= Len(manifest_writers) /\ w.n > 0
              /\ w.k + 1 \in 1 .. w.n /\ w.k + 1 \in DOMAIN manifest_writers
              /\ NextWriter \in Threads /\ job[NextWriter].pc = "commit" /\ e \in Edit
              /\ manifest'.version = Apply(manifest.version, e) /\ manifest'.next_file = w.next_file
              /\ manifest' \in Manifest
              /\ writing'.n = w.n /\ writing'.k = w.k + 1 /\ writing'.version = Apply(w.version, e)
              /\ writing'.next_file = w.next_file /\ writing' \in WriteBatch
              /\ UNCHANGED <<logs, tables, status, memory, client, job, manifest_writers>>
<1> DEFINE w == NextBatch
           t == NextWriter
           e == job[t].edit
<1>0. Kinds /\ Jobs /\ Queue
  BY DEF TypeInv
<1>k. Memory /\ Versions
  BY <1>0 DEF Kinds
<1>u. /\ status = "open" /\ manifest_writers # <<>> /\ w.k < w.n
      /\ manifest' = [version |-> Apply(manifest.version, e),
                      log_number |-> Max({manifest.log_number, e.log}),
                      next_file |-> w.next_file, last_sequence |-> w.last_sequence]
      /\ writing' = [w EXCEPT !.k = @ + 1, !.version = Apply(@, e)]
      /\ UNCHANGED <<logs, tables, status, memory, client, job, manifest_writers>>
  BY DEF WriteManifestRecord, NextBatch, NextWriter
<1>t. /\ manifest.version \in SUBSET Files /\ manifest.log_number \in Nat
      /\ next_file \in Nat /\ writing \in WriteBatch
      /\ current \in SUBSET Files /\ last_sequence \in Nat
  BY <1>k DEF Versions, Memory, Manifest
<1>q. /\ manifest_writers \in Seq(Threads) /\ Len(manifest_writers) \in Nat
      /\ writing.k <= writing.n /\ writing.n <= Len(manifest_writers)
  BY <1>0 DEF Queue
<1>w. w \in WriteBatch /\ w.n <= Len(manifest_writers)
  <2>1. CASE writing.n > 0
    BY <2>1, <1>t, <1>q DEF NextBatch
  <2>2. CASE ~(writing.n > 0)
    <3>1. w = [n |-> Len(manifest_writers), k |-> 0, version |-> current,
               next_file |-> next_file, last_sequence |-> last_sequence]
      BY <2>2 DEF NextBatch
    <3> QED
      BY <3>1, <1>t, <1>q DEF WriteBatch
  <2> QED
    BY <2>1, <2>2, Zenon
<1> HIDE DEF w
<1>i. w.k + 1 \in 1 .. w.n /\ w.k + 1 \in DOMAIN manifest_writers /\ w.n > 0
  BY <1>u, <1>w, <1>q DEF WriteBatch
<1>e. t \in Threads /\ job[t].pc = "commit" /\ e \in Edit
  BY <1>i, <1>0, <1>q DEF Queue, Jobs, IsJob, NextWriter, w
<1> HIDE DEF t, e
<1>x. Apply(manifest.version, e) \in SUBSET Files
  BY <1>t, <1>e, ApplyFiles
<1>y. Apply(w.version, e) \in SUBSET Files
  BY <1>w, <1>e, ApplyFiles, Zenon DEF WriteBatch
<1>m. Max({manifest.log_number, e.log}) \in Nat
  <2>1. e.log \in Nat /\ manifest.log_number \in Nat
    BY <1>t, <1>e DEF Edit
  <2>2. Max({manifest.log_number, e.log}) \in {manifest.log_number, e.log}
    <3>1. e.log \in Int /\ manifest.log_number \in Int
      BY <2>1
    <3> QED
      BY <3>1, MaxOfTwo, Zenon
  <2> QED
    BY <2>1, <2>2, Zenon
<1>v. /\ writing'.n = w.n /\ writing'.k = w.k + 1 /\ writing'.version = Apply(w.version, e)
      /\ writing'.next_file = w.next_file /\ writing' \in WriteBatch
  <2>1. writing' = [w EXCEPT !.k = w.k + 1, !.version = Apply(w.version, e)] /\ w.k + 1 \in Nat
    BY <1>u, <1>w DEF WriteBatch
  <2> QED
    BY <2>1, <1>w, <1>y, Zenon DEF WriteBatch
<1>z. /\ manifest' \in Manifest
      /\ manifest'.version = Apply(manifest.version, e) /\ manifest'.next_file = w.next_file
  BY <1>u, <1>w, <1>x, <1>m DEF Manifest, WriteBatch
<1> QED
  BY <1>e, <1>i, <1>u, <1>v, <1>w, <1>z DEF w, t, e

LEMMA RecordStep ==
    ASSUME TypeInv, WriteManifestRecord
    PROVE  TypeInv'
<1> DEFINE w == NextBatch
           e == job[NextWriter].edit
<1>0. Kinds /\ Jobs /\ Queue /\ Numbered
  BY DEF TypeInv
<1>r. /\ status = "open" /\ w \in WriteBatch /\ w.n <= Len(manifest_writers) /\ w.n > 0
      /\ w.k + 1 \in 1 .. w.n /\ w.k + 1 \in DOMAIN manifest_writers
      /\ NextWriter \in Threads /\ job[NextWriter].pc = "commit" /\ e \in Edit
      /\ manifest'.version = Apply(manifest.version, e) /\ manifest'.next_file = w.next_file
      /\ manifest' \in Manifest
      /\ writing'.n = w.n /\ writing'.k = w.k + 1 /\ writing'.version = Apply(w.version, e)
      /\ writing'.next_file = w.next_file /\ writing' \in WriteBatch
      /\ UNCHANGED <<logs, tables, status, memory, client, job, manifest_writers>>
  BY RecordTypes
<1>k. Logs /\ Tables /\ Memory /\ Client /\ Versions
  BY <1>0 DEF Kinds
<1>t. /\ manifest.version \in SUBSET Files /\ manifest.next_file \in Nat /\ next_file \in Nat
      /\ w.version \in SUBSET Files /\ w.next_file \in Nat /\ w.n \in Nat /\ w.k \in Nat
  BY <1>k, <1>r, Zenon DEF Versions, Manifest, WriteBatch
<1>u. UNCHANGED <<logs, tables, status, mem, imm, full, current, log_number, logfile_number, next_file,
                  last_sequence, bg_error, flush_queued, compact_queued, client, job, manifest_writers>>
  BY <1>r DEF memory
(* The files of the batch are below the counter it was started with.       *)
<1>b. /\ manifest.next_file <= w.next_file /\ w.next_file <= next_file
      /\ Below(FilesOf(w.version), next_file)
      /\ \A i \in 1 .. w.n : Below(FilesOf(job[manifest_writers[i]].edit.add), w.next_file)
  <2>1. CASE writing.n > 0
    BY <2>1, <1>0 DEF NextBatch, Numbered
  <2>2. CASE ~(writing.n > 0)
    <3>1. w.next_file = next_file /\ w.version = current /\ w.n = Len(manifest_writers)
      BY <2>2 DEF NextBatch
    <3>2. \A i \in 1 .. Len(manifest_writers) : manifest_writers[i] \in Threads
      BY <1>0 DEF Queue
    <3>3. \A i \in 1 .. Len(manifest_writers) : Below(FilesOf(job[manifest_writers[i]].edit.add), next_file)
      BY <1>0, <3>2 DEF Numbered
    <3>4. manifest.next_file <= next_file /\ Below(FilesOf(current), next_file) /\ next_file <= next_file
      BY <1>0, <1>r, <1>t DEF Numbered
    <3> HIDE DEF w
    <3> QED
      BY <3>1, <3>3, <3>4
  <2> QED
    BY <2>1, <2>2
<1>c. Below(FilesOf(e.add), w.next_file) /\ FilesOf(e.add) \in SUBSET Nat
  BY <1>b, <1>r, FilesOfVersion DEF NextWriter, Edit
<1> HIDE DEF w, e
<1>1. Kinds'
  <2>1. Logs' /\ Tables' /\ Client'
    BY <1>k, <1>u DEF Logs, Tables, Client
  <2>2. Versions'
    BY <1>k, <1>r, <1>u DEF Versions
  <2>3. Memory'
    BY <1>k, <1>u DEF Memory
  <2> QED
    BY <2>1, <2>2, <2>3 DEF Kinds
<1>2. Jobs'
  BY <1>0, <1>u DEF Jobs
<1>3. Queue'
  <2>1. writing'.k <= writing'.n /\ writing'.n <= Len(manifest_writers)
    BY <1>r, <1>t
  <2> QED
    BY <2>1, <1>0, <1>u DEF Queue
<1>4. Stopped'
  BY <1>r, <1>u DEF Stopped
<1>5. Numbered'
  <2>1. FilesOf(manifest'.version) \subseteq FilesOf(manifest.version) \cup FilesOf(e.add)
        /\ FilesOf(manifest.version) \in SUBSET Nat
    BY <1>r, <1>t, ApplyFiles, FilesOfVersion
  <2>2. Below(FilesOf(manifest.version), w.next_file)
    BY <1>0, <1>b, <1>t, <2>1, BelowGrows DEF Numbered
  <2>3. Below(FilesOf(manifest'.version), manifest'.next_file)
    BY <1>c, <1>r, <2>1, <2>2, Zenon DEF Below
  <2>4. FilesOf(writing'.version) \subseteq FilesOf(w.version) \cup FilesOf(e.add)
    BY <1>r, <1>t, ApplyFiles
  <2>5. Below(FilesOf(e.add), next_file)
    BY <1>b, <1>c, <1>t, BelowGrows
  <2>6. Below(FilesOf(writing'.version), next_file)
    BY <1>b, <2>4, <2>5, BelowGrows
  <2>7. manifest'.next_file <= next_file /\ manifest'.next_file <= writing'.next_file
        /\ writing'.next_file <= next_file
    BY <1>b, <1>r, <1>t
  <2>8. \A i \in 1 .. writing'.n : Below(FilesOf(job'[manifest_writers'[i]].edit.add), writing'.next_file)
    BY <1>b, <1>r, <1>u
  <2>9. status = "open" /\ status' = "open" /\ next_file' = next_file
    BY <1>r, <1>u
  <2>10. /\ next_file > 0 /\ Below(DOMAIN tables', next_file) /\ Below(FilesOf(current'), next_file)
         /\ \A t \in Threads : Below(FilesOf(job'[t].edit.add), next_file)
    BY <1>0, <1>u, <2>9 DEF Numbered
  <2> QED
    BY <2>3, <2>6, <2>7, <2>8, <2>9, <2>10 DEF Numbered
<1> QED
  BY <1>1, <1>2, <1>3, <1>4, <1>5 DEF TypeInv

(* The end of a batch of n edits, written or not.                          *)
ByBatch(n) ==
    /\ status = "open"
    /\ DOMAIN job' = Threads
    /\ \A t \in Threads : t \notin Batch(n) => job'[t] = job[t]
    /\ \A t \in Threads : t \in Batch(n) =>
          /\ IsJob(job'[t]) /\ job'[t].pc \in {"done", "failed"}
          /\ job'[t].edit \in {job[t].edit, NoEdit}
          /\ job'[t].mems \in {job[t].mems, 0}
    /\ manifest_writers' = SubSeq(manifest_writers, n + 1, Len(manifest_writers))
    /\ writing' = NoBatch
    /\ current' = current \/ (writing.n > 0 /\ current' = writing.version)
    /\ UNCHANGED <<logs, tables, manifest, status, mem, imm, next_file, last_sequence, client>>

(* The queue that is left.                                                 *)
LEMMA QueueShrinks ==
    ASSUME TypeInv, NEW n \in Nat, n <= Len(manifest_writers), ByBatch(n)
    PROVE  Queue'
<1> DEFINE w == manifest_writers'
<1>0. Queue
  BY DEF TypeInv
<1>q. /\ manifest_writers \in Seq(Threads) /\ Len(manifest_writers) \in Nat
      /\ DOMAIN manifest_writers = 1 .. Len(manifest_writers)
  BY <1>0 DEF Queue
<1>1. /\ w \in Seq(Threads) /\ Len(w) = Len(manifest_writers) - n /\ Len(w) \in Nat
      /\ DOMAIN w = 1 .. Len(manifest_writers) - n
      /\ \A i \in 1 .. Len(manifest_writers) - n : w[i] = manifest_writers[n + i]
  <2>1. PICK s \in Seq(Threads) : s = manifest_writers
    BY <1>q
  <2>2. PICK r : r = w
    BY Zenon
  <2>3. PICK m \in Nat : m = Len(s) /\ n <= m /\ r = SubSeq(s, n + 1, m)
    BY <1>q, <2>1, <2>2, Zenon DEF ByBatch
  <2>4. r \in Seq(Threads) /\ Len(r) = m - n
    BY <2>3
  <2>5. ASSUME NEW i \in 1 .. m - n PROVE r[i] = s[n + i]
    BY <2>3, <2>4
  <2>6. DOMAIN r = 1 .. m - n /\ Len(r) \in Nat
    BY <2>3, <2>4
  <2> QED
    BY <2>1, <2>2, <2>3, <2>4, <2>5, <2>6, Zenon
<1> HIDE DEF w
<1>2. ASSUME NEW i \in DOMAIN w
      PROVE  n + i \in DOMAIN manifest_writers /\ w[i] = manifest_writers[n + i] /\ i \in Nat /\ n + i > n
  BY <1>1, <1>q
<1>3. ASSUME NEW i \in DOMAIN w PROVE job'[w[i]].pc = "commit"
  <2>1. w[i] \in Threads /\ job[w[i]].pc = "commit"
    BY <1>0, <1>q, <1>2 DEF Queue
  <2>2. w[i] \notin Batch(n)
    <3> SUFFICES ASSUME NEW m \in 1 .. n, manifest_writers[m] = w[i] PROVE FALSE
      BY DEF Batch
    <3>1. m \in DOMAIN manifest_writers /\ m <= n
      BY <1>q
    <3>2. m = n + i
      BY <1>0, <1>2, <3>1 DEF Queue
    <3> QED
      BY <3>1, <3>2, <1>2, <1>q
  <2> QED
    BY <2>1, <2>2 DEF ByBatch
<1>4. ASSUME NEW i \in DOMAIN w, NEW m \in DOMAIN w, w[i] = w[m] PROVE i = m
  <2>1. n + i = n + m
    BY <1>0, <1>2, <1>4 DEF Queue
  <2> QED
    BY <2>1, <1>2, <1>q
<1>5. writing'.k <= writing'.n /\ writing'.n <= Len(w)
  BY <1>1 DEF ByBatch, NoBatch
<1> QED
  BY <1>1, <1>3, <1>4, <1>5 DEF Queue, w

LEMMA BatchFrame ==
    ASSUME TypeInv, NEW n \in Nat, n <= Len(manifest_writers), ByBatch(n), Memory'
    PROVE  TypeInv'
<1>0. Kinds /\ Jobs /\ Queue /\ Numbered
  BY DEF TypeInv
<1>k. Logs /\ Tables /\ Memory /\ Client /\ Versions
  BY <1>0 DEF Kinds
<1>u. /\ UNCHANGED <<logs, tables, manifest, status, mem, imm, next_file, last_sequence, client>>
      /\ status = "open" /\ writing' = NoBatch /\ DOMAIN job' = Threads
  BY DEF ByBatch
<1>b. NoBatch \in WriteBatch /\ NoBatch.n = 0
  BY DEF NoBatch, WriteBatch
<1>c. current' \in SUBSET Files /\ Below(FilesOf(current'), next_file)
  BY <1>0, <1>k, <1>u DEF ByBatch, Versions, WriteBatch, Numbered
<1>1. Kinds'
  <2>1. Logs' /\ Tables' /\ Client'
    BY <1>k, <1>u DEF Logs, Tables, Client
  <2>2. Versions'
    BY <1>b, <1>c, <1>k, <1>u DEF Versions
  <2> QED
    BY <2>1, <2>2 DEF Kinds
<1>2. Jobs'
  <2>1. \A t \in Threads : IsJob(job'[t])
    BY <1>0 DEF ByBatch, Jobs
  <2>2. job'[Flusher].mems <= Len(imm')
    <3>1. job[Flusher].mems <= Len(imm) /\ Len(imm) \in Nat /\ Flusher \in Threads
      BY <1>0, <1>k DEF Jobs, Memory, Threads
    <3>2. job'[Flusher].mems \in {job[Flusher].mems, 0}
      BY <3>1 DEF ByBatch
    <3> QED
      BY <1>u, <3>1, <3>2
  <2>3. ASSUME NEW c \in Compactors, job'[c].pc = "build" PROVE job'[c].level + 1 \in Levels
    <3>1. c \in Threads /\ c \notin Batch(n)
      BY <2>3 DEF ByBatch, Threads
    <3> QED
      BY <1>0, <2>3, <3>1 DEF ByBatch, Jobs
  <2> QED
    BY <1>u, <2>1, <2>2, <2>3 DEF Jobs
<1>3. Queue'
  BY QueueShrinks
<1>4. Stopped'
  BY <1>u DEF Stopped
<1>5. Numbered'
  <2>1. \A t \in Threads : job'[t].edit \in {job[t].edit, NoEdit}
    BY DEF ByBatch
  <2>2. \A t \in Threads : Below(FilesOf(job'[t].edit.add), next_file)
    BY <1>0, <2>1, NoJobFields, BelowGrows, Zenon DEF Numbered
  <2>3. \A i \in 1 .. writing'.n : FALSE
    BY <1>b, <1>u
  <2>4. ~(writing'.n > 0)
    BY <1>b, <1>u
  <2> QED
    BY <1>0, <1>c, <1>u, <2>2, <2>3, <2>4 DEF Numbered
<1> QED
  BY <1>1, <1>2, <1>3, <1>4, <1>5 DEF TypeInv

(* A record of the MANIFEST could not be written.                          *)
LEMMA ManifestFailsTypes ==
    ASSUME TypeInv, ManifestFails
    PROVE  \E n \in Nat : /\ TypeInv' /\ ByBatch(n) /\ "manifest" \in Faults
                          /\ current' = current
                          /\ \A t \in Threads : t \in Batch(n) => job'[t] = Failed(job[t])
<1>0. Kinds /\ Jobs /\ Queue /\ Stopped
  BY DEF TypeInv
<1>k. Memory /\ Versions
  BY <1>0 DEF Kinds
<1>n. PICK n : n = (IF writing.n > 0 THEN writing.n ELSE Len(manifest_writers))
  BY Zenon
<1>u. /\ manifest_writers # <<>> /\ "manifest" \in Faults /\ bg_error' = TRUE /\ writing' = NoBatch
      /\ job' = [t \in Threads |-> IF t \in Batch(n) THEN Failed(job[t]) ELSE job[t]]
      /\ manifest_writers' = SubSeq(manifest_writers, n + 1, Len(manifest_writers))
      /\ UNCHANGED <<logs, tables, manifest, status, mem, imm, full, current, log_number, logfile_number,
                     next_file, last_sequence, flush_queued, compact_queued, client>>
  BY <1>n DEF ManifestFails, EndBatch, Fault, disk
<1>q. /\ manifest_writers \in Seq(Threads) /\ Len(manifest_writers) \in Nat
      /\ n \in Nat /\ n <= Len(manifest_writers)
  BY <1>0, <1>k, <1>n DEF Queue, Versions, WriteBatch
<1>s. status = "open"
  BY <1>0, <1>u DEF Stopped
<1>t. ASSUME NEW t \in Threads, t \in Batch(n)
      PROVE  /\ job'[t] = Failed(job[t])
             /\ IsJob(job'[t]) /\ job'[t].pc = "failed" /\ job'[t].edit = NoEdit /\ job'[t].mems = 0
  <2>1. job'[t] = Failed(job[t])
    BY <1>t, <1>u
  <2>2. IsJob(job[t])
    BY <1>0 DEF Jobs
  <2> QED
    BY <2>1, <2>2, FailedFields
<1>b. ByBatch(n)
  BY <1>s, <1>t, <1>u DEF ByBatch
<1>5. Memory'
  BY <1>k, <1>u DEF Memory
<1>6. TypeInv'
  BY <1>5, <1>b, <1>q, BatchFrame
<1> QED
  BY <1>6, <1>b, <1>q, <1>t, <1>u

-----------------------------------------------------------------------------
(* Crash and recovery.                                                     *)

(* Nothing runs while the store is not open.                               *)
LEMMA NotOpen ==
    /\ Idle.version = {} /\ FilesOf(Idle.version) = {} /\ NoBatch \in WriteBatch
    /\ NoBatch.n = 0 /\ NoBatch.k = 0 /\ NoJob = [NoJob EXCEPT !.edit = NoJob.edit]
    /\ \A e \in Edit : \A j : j = [NoJob EXCEPT !.edit = e] => IsJob(j) /\ j.edit = e
    /\ \A e, j : j = [NoJob EXCEPT !.edit = e] =>
          /\ j.pc = "idle" /\ j.pending = 0 /\ j.mems = 0 /\ j.in = {} /\ j.base = {}
          /\ j.dead.tables = {} /\ FilesOf(j.base) = {}
<1>1. /\ Idle.version = {} /\ NoBatch \in WriteBatch /\ NoBatch.n = 0 /\ NoBatch.k = 0
      /\ NoJob = [NoJob EXCEPT !.edit = NoJob.edit]
  BY DEF Idle, NoBatch, WriteBatch, NoJob
<1>2. ASSUME NEW j, NEW e, j = [NoJob EXCEPT !.edit = e]
      PROVE  j.pc = "idle" /\ j.pending = 0 /\ j.mems = 0 /\ j.in = {} /\ j.base = {} /\ j.dead.tables = {}
  BY <1>2 DEF NoJob, NoDead
<1>3. ASSUME NEW e \in Edit, NEW j, j = [NoJob EXCEPT !.edit = e] PROVE IsJob(j) /\ j.edit = e
  BY <1>3 DEF IsJob, NoJob, NoDead
<1> QED
  BY <1>1, <1>2, <1>3, FilesOfVersion, Zenon

(* Outside an open store no thread does anything.                          *)
LEMMA StoppedTypes ==
    ASSUME TypeInv, status' # "open", manifest_writers' = <<>>, writing' = NoBatch, client' = Idle,
           Logs', Tables', Memory', Versions', DOMAIN job' = Threads,
           \A t \in Threads : /\ job'[t] = [NoJob EXCEPT !.edit = job'[t].edit]
                              /\ job'[t].edit \in Edit /\ Below(FilesOf(job'[t].edit.add), next_file'),
           \A c \in Compactors : job'[c].edit = NoEdit,
           Below(FilesOf(manifest'.version), manifest'.next_file),
           status' # "down" => manifest'.next_file <= next_file' /\ Below(FilesOf(current'), next_file')
    PROVE  /\ TypeInv' /\ client'.version = {} /\ FilesOf(client'.version) = {} /\ writing'.n = 0
           /\ \A t \in Threads : /\ job'[t].pc = "idle" /\ job'[t].pending = 0 /\ job'[t].in = {}
                                 /\ job'[t].base = {} /\ FilesOf(job'[t].base) = {}
                                 /\ job'[t].dead.tables = {}
<1>1. /\ writing'.n = 0 /\ writing'.k = 0 /\ client'.version = {} /\ FilesOf(client'.version) = {}
      /\ Flusher \in Threads /\ Compactors \subseteq Threads
  BY NotOpen DEF Threads
<1>2. ASSUME NEW t \in Threads
      PROVE  /\ IsJob(job'[t]) /\ job'[t].pc = "idle" /\ job'[t].pending = 0 /\ job'[t].mems = 0
             /\ job'[t].in = {} /\ job'[t].base = {} /\ FilesOf(job'[t].base) = {}
             /\ job'[t].dead.tables = {}
  <2>1. PICK e \in Edit : job'[t] = [NoJob EXCEPT !.edit = e]
    BY Zenon
  <2>2. PICK j : j = job'[t]
    OBVIOUS
  <2>3. j = [NoJob EXCEPT !.edit = e]
    BY <2>1, <2>2
  <2>4. IsJob(j)
    BY <2>3, NotOpen, Zenon
  <2>5. /\ j.pc = "idle" /\ j.pending = 0 /\ j.mems = 0 /\ j.in = {} /\ j.base = {}
        /\ FilesOf(j.base) = {} /\ j.dead.tables = {}
    BY <2>3, NotOpen, Zenon
  <2> QED
    BY <2>2, <2>4, <2>5, Zenon
<1>3. Kinds'
  BY DEF Kinds, Client, Idle
<1>4. Jobs'
  <2>1. Len(imm') \in Nat
    BY DEF Memory
  <2>2. \A c \in Compactors : job'[c].pc # "build"
    BY <1>1, <1>2
  <2> QED
    BY <1>1, <1>2, <2>1, <2>2 DEF Jobs
<1>5. Queue'
  BY <1>1 DEF Queue
<1>6. Stopped'
  BY DEF Stopped
<1>7. Numbered'
  <2>1. ~(writing'.n > 0) /\ \A i \in 1 .. writing'.n : FALSE
    BY <1>1
  <2> QED
    BY <2>1 DEF Numbered
<1> QED
  BY <1>1, <1>2, <1>3, <1>4, <1>5, <1>6, <1>7 DEF TypeInv

(* What is left after the end of the process.                              *)
LEMMA CrashTypes ==
    ASSUME TypeInv, Crash
    PROVE  /\ TypeInv' /\ client'.version = {} /\ FilesOf(client'.version) = {} /\ writing'.n = 0
           /\ \A t \in Threads : job'[t] = NoJob
           /\ status' = "down" /\ current' = {} /\ manifest_writers' = <<>> /\ UNCHANGED <<logs, tables, manifest>>
<1>0. Kinds /\ Numbered
  BY DEF TypeInv
<1>k. Logs /\ Tables /\ Memory /\ Client /\ Versions
  BY <1>0 DEF Kinds
<1>u. /\ status' = "down" /\ mem' = {} /\ imm' = <<>> /\ current' = {} /\ next_file' = 0
      /\ log_number' = 0 /\ logfile_number' = 0 /\ full' = FALSE /\ bg_error' = FALSE
      /\ flush_queued' = FALSE /\ compact_queued' = FALSE
      /\ last_sequence' = 0 /\ client' = Idle /\ job' = [t \in Threads |-> NoJob]
      /\ manifest_writers' = <<>> /\ writing' = NoBatch
      /\ UNCHANGED <<logs, tables, manifest>>
  BY DEF Crash, disk
<1>1. DOMAIN job' = Threads /\ \A t \in Threads : job'[t] = NoJob
  BY <1>u
<1>2. Logs' /\ Tables' /\ Memory'
  <2>1. Logs' /\ Tables'
    BY <1>k, <1>u DEF Logs, Tables
  <2>2. full' \in BOOLEAN /\ bg_error' \in BOOLEAN /\ flush_queued' \in BOOLEAN /\ compact_queued' \in BOOLEAN
    BY <1>u, Zenon
  <2>3. /\ mem' \in SUBSET Entries /\ imm' \in Seq(Memtable)
        /\ last_sequence' \in Nat /\ log_number' \in Nat /\ logfile_number' \in Nat
    BY <1>u
  <2>4. Memory'
    BY <2>2, <2>3, Zenon DEF Memory
  <2> QED
    BY <2>1, <2>4
<1>3. Versions'
  BY <1>k, <1>u, NotOpen DEF Versions
<1>4. \A t \in Threads : /\ job'[t] = [NoJob EXCEPT !.edit = job'[t].edit]
                         /\ job'[t].edit \in Edit /\ Below(FilesOf(job'[t].edit.add), next_file')
  BY <1>1, NoJobFields, NotOpen DEF Below
<1>c. \A c \in Compactors : job'[c].edit = NoEdit
  BY <1>1, NoJobFields, Zenon DEF Threads
<1>5. Below(FilesOf(manifest'.version), manifest'.next_file)
  BY <1>0, <1>u DEF Numbered
<1>6. status' # "open" /\ ~(status' # "down")
  BY <1>u
<1>7. TypeInv' /\ client'.version = {} /\ FilesOf(client'.version) = {} /\ writing'.n = 0
  BY <1>1, <1>2, <1>3, <1>4, <1>5, <1>6, <1>c, <1>u, StoppedTypes, ZenonT(30)
<1> QED
  BY <1>1, <1>7, <1>u

(* The new MANIFEST names the recovered tables.                            *)
LEMMA RecoverVersionTypes ==
    ASSUME TypeInv, RecoverVersion
    PROVE  /\ TypeInv' /\ FilesOf(client'.version) = {} /\ writing'.n = 0
           /\ \A t \in Threads : /\ job'[t].pc = "idle" /\ job'[t].pending = 0 /\ job'[t].in = {}
                                 /\ FilesOf(job'[t].base) = {} /\ job'[t].dead.tables = {}
           /\ FilesOf(current') \subseteq FilesOf(current) \cup FilesOf(job[Flusher].edit.add)
           /\ status = "recovering" /\ status' = "installed" /\ manifest'.version = current'
           /\ tables' = tables /\ manifest_writers' = <<>>
<1> DEFINE e == job[Flusher].edit
<1>0. Kinds /\ Jobs /\ Stopped /\ Numbered
  BY DEF TypeInv
<1>k. Logs /\ Tables /\ Memory /\ Client /\ Versions
  BY <1>0 DEF Kinds
<1>u. /\ status = "recovering" /\ status' = "installed" /\ current' = Apply(current, e)
      /\ log_number' = e.log
      /\ manifest' = [version |-> current', log_number |-> e.log,
                      next_file |-> next_file, last_sequence |-> last_sequence]
      /\ job' = [job EXCEPT ![Flusher] = NoJob]
      /\ UNCHANGED <<logs, tables, mem, imm, full, logfile_number, next_file, last_sequence, bg_error,
                     flush_queued, compact_queued, client, manifest_writers, writing>>
  BY DEF RecoverVersion
<1>s. /\ client = Idle /\ manifest_writers = <<>> /\ writing = NoBatch /\ Flusher \in Threads
      /\ \A t \in Threads : job[t] = [NoJob EXCEPT !.edit = job[t].edit]
      /\ \A c \in Compactors : job[c].edit = NoEdit
  BY <1>0, <1>u DEF Stopped, Threads
<1>t. DOMAIN job' = Threads /\ job'[Flusher] = NoJob /\ \A t \in Threads \ {Flusher} : job'[t] = job[t]
  BY <1>0, <1>s, <1>u DEF Jobs
<1>e. e \in Edit /\ e.log \in Nat
  BY <1>0, <1>s DEF Jobs, IsJob, Edit
<1>c. current \in SUBSET Files /\ next_file \in Nat /\ last_sequence \in Nat
  BY <1>k DEF Versions, Memory
<1>h. Below(FilesOf(current), next_file) /\ Below(FilesOf(e.add), next_file)
  BY <1>0, <1>s, <1>u DEF Numbered
<1> HIDE DEF e
<1>g. /\ current' \in SUBSET Files
      /\ FilesOf(current') \subseteq FilesOf(current) \cup FilesOf(e.add)
  BY <1>c, <1>e, <1>u, ApplyFiles
<1>f. Below(FilesOf(current'), next_file)
  BY <1>g, <1>h, BelowGrows
<1>m. manifest' \in Manifest /\ manifest'.version = current' /\ manifest'.next_file = next_file
  BY <1>c, <1>e, <1>g, <1>u DEF Manifest
<1>1. Logs' /\ Tables' /\ Memory'
  <2>1. Logs' /\ Tables'
    BY <1>k, <1>u, Zenon DEF Logs, Tables
  <2>2. Memory'
    BY <1>e, <1>k, <1>u, Zenon DEF Memory
  <2> QED
    BY <2>1, <2>2
<1>2. Versions'
  BY <1>k, <1>u, <1>g, <1>m DEF Versions
<1>3. ASSUME NEW t \in Threads
      PROVE  /\ job'[t] = [NoJob EXCEPT !.edit = job'[t].edit]
             /\ job'[t].edit \in Edit /\ Below(FilesOf(job'[t].edit.add), next_file')
             /\ job'[t].edit = NoEdit
  <2>1. CASE t = Flusher
    BY <1>t, <2>1, NoJobFields, NotOpen, Zenon DEF Below
  <2>2. CASE t # Flusher
    <3>1. job'[t] = job[t] /\ job[t].edit = NoEdit
      BY <1>s, <1>t, <2>2 DEF Threads
    <3> QED
      BY <1>s, <3>1, NoJobFields, Zenon DEF Below
  <2> QED
    BY <2>1, <2>2
<1>4. \A c \in Compactors : job'[c].edit = NoEdit
  BY <1>3, Zenon DEF Threads
<1>5. /\ status' # "open" /\ manifest_writers' = <<>> /\ writing' = NoBatch /\ client' = Idle
      /\ Below(FilesOf(manifest'.version), manifest'.next_file)
      /\ manifest'.next_file <= next_file' /\ Below(FilesOf(current'), next_file')
  BY <1>c, <1>f, <1>m, <1>s, <1>u
<1>6. /\ TypeInv' /\ FilesOf(client'.version) = {} /\ writing'.n = 0
      /\ \A t \in Threads : /\ job'[t].pc = "idle" /\ job'[t].pending = 0 /\ job'[t].in = {}
                            /\ FilesOf(job'[t].base) = {} /\ job'[t].dead.tables = {}
  BY <1>1, <1>2, <1>3, <1>4, <1>5, <1>t, StoppedTypes, Zenon
<1> QED
  BY <1>6, <1>5, <1>g, <1>m, <1>u DEF e

(* DB::Open deletes what the recovered version does not name.              *)
LEMMA OpenTypes ==
    ASSUME TypeInv, Open
    PROVE  /\ TypeInv' /\ FilesOf(client'.version) = {} /\ writing'.n = 0
           /\ \A t \in Threads : /\ job'[t].pc = "idle" /\ job'[t].pending = 0 /\ job'[t].in = {}
                                 /\ FilesOf(job'[t].base) = {} /\ job'[t].dead.tables = {}
           /\ DOMAIN tables' = DOMAIN tables \cap FilesOf(current)
           /\ status = "installed" /\ status' = "open" /\ current' = current /\ manifest' = manifest
           /\ manifest_writers' = <<>>
<1> DEFINE D == FindObsoleteFiles(job)
<1>0. Kinds /\ Jobs /\ Queue /\ Stopped /\ Numbered
  BY DEF TypeInv
<1>k. Logs /\ Tables /\ Memory /\ Client /\ Versions
  BY <1>0, Zenon DEF Kinds
<1>u. /\ status = "installed" /\ status' = "open" /\ next_file' = next_file + 1
      /\ logfile_number' = next_file /\ compact_queued' = NeedsCompaction(current, job)
      /\ tables' = [n \in DOMAIN tables \ D.tables |-> tables[n]]
      /\ logs' = [n \in (DOMAIN logs \ D.logs) \cup {next_file} |->
                    IF n = next_file THEN EmptyLog ELSE logs[n]]
      /\ UNCHANGED <<manifest, mem, imm, full, current, log_number, last_sequence, bg_error, flush_queued,
                     client, job, manifest_writers, writing>>
  BY DEF Open, threads
<1>s. /\ client = Idle /\ manifest_writers = <<>> /\ writing = NoBatch
      /\ \A t \in Threads : job[t] = [NoJob EXCEPT !.edit = job[t].edit]
  BY <1>0, <1>u DEF Stopped
<1>n. next_file \in Nat /\ current \in SUBSET Files /\ manifest.next_file \in Nat
  BY <1>k DEF Versions, Manifest
<1>9. /\ FilesOf(client.version) = {} /\ writing.n = 0 /\ writing.k = 0
      /\ \A t \in Threads : /\ job[t].pc = "idle" /\ job[t].pending = 0 /\ job[t].in = {}
                            /\ job[t].dead.tables = {} /\ FilesOf(job[t].base) = {}
  <2>1. FilesOf(client.version) = {} /\ writing.n = 0 /\ writing.k = 0
    BY <1>s, NotOpen, Zenon
  <2>2. ASSUME NEW t \in Threads
        PROVE  /\ job[t].pc = "idle" /\ job[t].pending = 0 /\ job[t].in = {}
               /\ job[t].dead.tables = {} /\ FilesOf(job[t].base) = {}
    <3>1. PICK e, j : j = job[t] /\ j = [NoJob EXCEPT !.edit = e]
      BY <1>s, Zenon
    <3>2. j.pc = "idle" /\ j.pending = 0 /\ j.in = {} /\ j.dead.tables = {} /\ FilesOf(j.base) = {}
      BY <3>1, NotOpen, ZenonT(30)
    <3> QED
      BY <3>1, <3>2, Zenon
  <2> QED
    BY <2>1, <2>2, Zenon
(* Only files of the version are left.                                     *)
<1>d. DOMAIN tables' = DOMAIN tables \cap FilesOf(current)
  <2>1. \A f : Unprotected(job, f)
    <3>1. \A t \in Threads : ~(job[t].pending > 0)
      BY <1>9
    <3> QED
      BY <3>1 DEF Unprotected
  <2>2. LiveFiles(job) = FilesOf(current)
    BY <1>9 DEF LiveFiles
  <2>3. D.tables = DOMAIN tables \ FilesOf(current)
    BY <2>1, <2>2 DEF FindObsoleteFiles
  <2> QED
    BY <1>u, <2>3
<1>f. /\ manifest.next_file <= next_file' /\ next_file' \in Nat /\ next_file' > 0
      /\ Below(FilesOf(current), next_file')
      /\ \A t \in Threads : Below(FilesOf(job[t].edit.add), next_file')
  <2>1. /\ manifest.next_file <= next_file /\ Below(FilesOf(current), next_file)
        /\ \A t \in Threads : Below(FilesOf(job[t].edit.add), next_file)
    BY <1>0, <1>u, Zenon DEF Numbered
  <2>2. FilesOf(current) \subseteq Nat /\ \A t \in Threads : FilesOf(job[t].edit.add) \subseteq Nat
    BY <1>0, <1>n, FilesOfVersion DEF Jobs, IsJob, Edit
  <2>3. next_file <= next_file' /\ next_file' \in Nat /\ next_file' > 0 /\ manifest.next_file <= next_file'
    BY <1>n, <1>u, <2>1
  <2> QED
    BY <1>n, <2>1, <2>2, <2>3, BelowGrows, Zenon
<1>1. Kinds'
  <2>1. Memory' /\ Client'
    <3>1. compact_queued' \in BOOLEAN
      BY <1>u DEF NeedsCompaction
    <3> QED
      BY <1>k, <1>n, <1>u, <3>1, Zenon DEF Memory, Client
  <2>2. Versions'
    BY <1>k, <1>f, <1>u, ZenonT(30) DEF Versions
  <2> DEFINE E == (DOMAIN logs \ D.logs) \cup {next_file}
  <2>3. DOMAIN logs' = E /\ E \subseteq DOMAIN logs \cup {next_file}
    BY <1>u, Zenon
  <2> HIDE DEF D
  <2>4. logs' \in [DOMAIN logs' -> LogFile]
    <3>1. ASSUME NEW n \in E PROVE (IF n = next_file THEN EmptyLog ELSE logs[n]) \in LogFile
      <4>1. CASE n = next_file
        BY <4>1 DEF EmptyLog, LogFile
      <4>2. CASE n # next_file
        BY <4>2, <1>k, Zenon DEF Logs
      <4> QED
        BY <4>1, <4>2
    <3> HIDE DEF E
    <3>2. [n \in E |-> IF n = next_file THEN EmptyLog ELSE logs[n]] \in [E -> LogFile]
      BY <3>1
    <3> QED
      BY <1>u, <2>3, <3>2, Zenon DEF E
  <2>5. \E b \in Nat : \A n \in DOMAIN logs' : n <= b
    <3>1. PICK b \in Nat : \A n \in DOMAIN logs : n \in Nat /\ n <= b
      BY <1>k DEF Logs
    <3>2. b + next_file \in Nat /\ \A n \in DOMAIN logs' : n <= b + next_file
      BY <1>n, <2>3, <3>1
    <3> QED
      BY <3>2
  <2>6. Logs'
    <3>1. DOMAIN logs' \subseteq Nat
      BY <1>k, <1>n, <2>3 DEF Logs
    <3> QED
      BY <2>4, <2>5, <3>1 DEF Logs
  <2>7. Tables'
    BY <1>k, <1>u DEF Tables
  <2> QED
    BY <2>1, <2>2, <2>6, <2>7 DEF Kinds
<1>2. Jobs'
  BY <1>0, <1>u DEF Jobs
<1>3. Queue'
  BY <1>0, <1>u DEF Queue
<1>4. Stopped'
  BY <1>u, Zenon DEF Stopped
<1>5. Numbered'
  <2>1. ~(writing'.n > 0) /\ \A i \in 1 .. writing'.n : FALSE
    BY <1>9, <1>u
  <2>2. Below(DOMAIN tables', next_file')
    BY <1>d, <1>f DEF Below
  <2> QED
    BY <1>0, <1>f, <1>u, <2>1, <2>2, Zenon DEF Numbered
<1> QED
  BY <1>1, <1>2, <1>3, <1>4, <1>5, <1>9, <1>d, <1>s, <1>u DEF TypeInv

-----------------------------------------------------------------------------
(* The types of the state, for every behaviour.                            *)

(* A new store.                                                            *)
LEMMA InitTypes ==
    ASSUME InitDB
    PROVE  /\ TypeInv /\ FilesOf(client.version) = {} /\ writing.n = 0
           /\ \A t \in Threads : job[t] = NoJob
           /\ FilesOf(manifest.version) = {} /\ FilesOf(current) = {}
<1>t. DOMAIN job = Threads /\ \A t \in Threads : job[t] = NoJob
  BY DEF InitDB
<1>u. /\ manifest = [version |-> {}, log_number |-> 0, next_file |-> 2, last_sequence |-> 0]
      /\ status = "open" /\ current = {} /\ next_file = 3 /\ client = Idle
      /\ manifest_writers = <<>> /\ writing = NoBatch /\ DOMAIN tables = {}
  BY DEF InitDB
<1>v. /\ manifest.version = {} /\ client.version = {} /\ FilesOf({}) = {}
      /\ writing.n = 0 /\ writing.k = 0
  BY <1>u, FilesOfVersion, NotOpen DEF Idle
<1>1. Kinds
  <2>1. Memory
    <3>1. full \in BOOLEAN /\ bg_error \in BOOLEAN /\ flush_queued \in BOOLEAN /\ compact_queued \in BOOLEAN
      BY Zenon DEF InitDB
    <3>2. /\ mem \in SUBSET Entries /\ imm \in Seq(Memtable)
          /\ last_sequence \in Nat /\ log_number \in Nat /\ logfile_number \in Nat
      BY DEF InitDB
    <3> QED
      BY <3>1, <3>2, Zenon DEF Memory
  <2>2. Client
    BY <1>u DEF Client, Idle
  <2>3. Versions
    BY <1>u, NotOpen DEF Versions, Manifest
  <2>4. Logs
    <3>1. EmptyLog \in LogFile
      BY DEF EmptyLog, LogFile
    <3>2. logs = [n \in {2} |-> EmptyLog]
      BY DEF InitDB
    <3>3. DOMAIN logs = {2} /\ logs \in [{2} -> LogFile]
      BY <3>1, <3>2
    <3>4. \E b \in Nat : \A n \in {2} : n <= b
      OBVIOUS
    <3> QED
      BY <3>3, <3>4 DEF Logs
  <2>5. Tables
    BY <1>u DEF Tables
  <2> QED
    BY <2>1, <2>2, <2>3, <2>4, <2>5 DEF Kinds
<1>2. Jobs
  <2>1. imm = <<>> /\ Flusher \in Threads /\ Compactors \subseteq Threads
    BY DEF InitDB, Threads
  <2> QED
    BY <1>t, <2>1, NoJobFields DEF Jobs
<1>3. Queue
  BY <1>u, <1>v DEF Queue
<1>4. Stopped
  BY <1>u DEF Stopped
<1>5. Numbered
  <2>1. ~(writing.n > 0) /\ \A i \in 1 .. writing.n : FALSE
    BY <1>v
  <2>2. \A t \in Threads : FilesOf(job[t].edit.add) = {}
    BY <1>t, NoJobFields
  <2> QED
    BY <1>u, <1>v, <2>1, <2>2 DEF Numbered, Below
<1> QED
  BY <1>1, <1>2, <1>3, <1>4, <1>5, <1>t, <1>u, <1>v, Zenon DEF TypeInv

(* The steps of a background thread.                                       *)
JobSteps ==
    \/ BackgroundFlush \/ WriteLevel0Table
    \/ \E c \in Compactors, cut \in Keys : RunCompaction(c, cut)
    \/ \E c \in Compactors, l \in 0 .. NumLevels - 2 : StartCompaction(c, l)
    \/ \E t \in Threads : BuildFails(t) \/ JobEnds(t) \/ PurgeObsoleteFiles(t)

(* A step is one of the client, of a background thread, of LogAndApply, or *)
(* of the end and the start of the process.                                *)
LEMMA StepCases ==
    ASSUME NextDB
    PROVE  ClientSteps \/ JobSteps \/ ManifestStep \/ ManifestFails \/ Crash \/ Recovery
<1>1. Flusher \in Threads /\ Compactors \subseteq Threads
  BY DEF Threads
<1>2. ASSUME NEW c \in Compactors, CompactionStep(c) PROVE ClientSteps \/ JobSteps
  BY <1>1, <1>2, Zenon DEF CompactionStep, ClientSteps, JobSteps, JobEnds
<1>3. ASSUME FlushStep PROVE JobSteps
  BY <1>1, <1>3, Zenon DEF FlushStep, JobSteps, JobEnds
<1> QED
  BY <1>2, <1>3, Zenon DEF NextDB, ClientSteps, JobSteps

LEMMA JobTypes ==
    ASSUME TypeInv, JobSteps
    PROVE  TypeInv' /\ \E t \in Threads : ByJob(t)
<1>1. Flusher \in Threads /\ Compactors \subseteq Threads
  BY DEF Threads
<1>2. \E t \in Threads : Kinds' /\ ByJob(t)
  <2>1. CASE BackgroundFlush
    BY <1>1, <2>1, BackgroundFlushTypes, Zenon
  <2>2. CASE WriteLevel0Table
    BY <1>1, <2>2, WriteLevel0TableTypes, WriteTablesTypes, Zenon
  <2>3. ASSUME NEW c \in Compactors, NEW cut \in Keys, RunCompaction(c, cut)
        PROVE  \E t \in Threads : Kinds' /\ ByJob(t)
    <3>1. PICK T, e : e \in Edit /\ Writes(c, T, e)
      BY <2>3, RunCompactionTypes, Zenon
    <3> QED
      BY <1>1, <3>1, WriteTablesTypes, Zenon
  <2>4. ASSUME NEW c \in Compactors, NEW l \in 0 .. NumLevels - 2, StartCompaction(c, l)
        PROVE  \E t \in Threads : Kinds' /\ ByJob(t)
    BY <1>1, <2>4, StartCompactionTypes, Zenon
  <2>5. ASSUME NEW t \in Threads, BuildFails(t) \/ JobEnds(t) \/ PurgeObsoleteFiles(t)
        PROVE  Kinds' /\ ByJob(t)
    BY <2>5, BuildFailsTypes, JobEndTypes, PurgeTypes, Zenon
  <2> QED
    BY <2>1, <2>2, <2>3, <2>4, <2>5, Zenon DEF JobSteps
<1> QED
  BY <1>2, JobFrame, Zenon

-----------------------------------------------------------------------------
(* The inputs of the compactions, whatever fails.                          *)

(* An edit in the queue deletes the inputs of its compaction, and the one  *)
(* of a flush deletes nothing.                                             *)
DeletesInputs ==
    /\ \A t \in Threads : job[t].pc = "commit" => job[t].edit.del = job[t].in
    /\ job[Flusher].in = {}
    /\ job[Flusher].pc = "build" => job[Flusher].edit.del = {}

(* The version being written has the files of the current one but the      *)
(* inputs of the edits written so far.                                     *)
BatchKeepsOthers ==
    writing.n > 0 =>
        \A p \in current :
            p \in writing.version \/ \E i \in 1 .. writing.k : p \in job[manifest_writers[i]].in

InputsInv == DeletesInputs /\ BatchKeepsOthers /\ CompactionInputsStay

(* What a step of thread t does to its inputs.                             *)
InputsOf(t) ==
    /\ job'[t].pc = "commit" => job'[t].edit.del = job'[t].in
    /\ t = Flusher => job'[t].in = {} /\ (job'[t].pc = "build" => job'[t].edit.del = {})
    /\ t \in Compactors =>
          \/ /\ job'[t].in \subseteq job[t].in
             /\ job'[t].pc \in {"build", "commit"} => job[t].pc \in {"build", "commit"}
          \/ job'[t].in \subseteq current /\ job'[t].in \cap Busy(job) = {}

LEMMA InputsFrame ==
    ASSUME TypeInv, InputsInv, NEW t \in Threads, ByJob(t), InputsOf(t)
    PROVE  InputsInv'
<1>0. Jobs /\ Queue /\ Versions /\ DeletesInputs /\ BatchKeepsOthers /\ CompactionInputsStay
  BY DEF TypeInv, Kinds, InputsInv
<1>u. UNCHANGED <<current, writing>> /\ DOMAIN job = Threads /\ \A s \in Threads \ {t} : job'[s] = job[s]
  BY <1>0 DEF ByJob, Jobs
<1>c. Flusher \in Threads /\ Compactors \subseteq Threads /\ Flusher \notin Compactors
  BY DBConstants, Zenon DEF Threads
<1>1. DeletesInputs'
  <2>1. \A s \in Threads : job'[s].pc = "commit" => job'[s].edit.del = job'[s].in
    BY <1>0, <1>u DEF DeletesInputs, InputsOf
  <2>2. job'[Flusher].in = {} /\ (job'[Flusher].pc = "build" => job'[Flusher].edit.del = {})
    BY <1>0, <1>c, <1>u, Zenon DEF DeletesInputs, InputsOf
  <2> QED
    BY <2>1, <2>2, Zenon DEF DeletesInputs
<1>2. BatchKeepsOthers'
  <2>1. writing.n \in Nat /\ writing.k \in Nat /\ writing.k <= writing.n
    BY <1>0 DEF Queue, Versions, WriteBatch
  <2>2. \A i \in 1 .. writing.k : job'[manifest_writers'[i]] = job[manifest_writers[i]]
    <3>1. 1 .. writing.k \subseteq 1 .. writing.n
      BY <2>1
    <3> QED
      BY <3>1, QueueGrows, Zenon
  <2> QED
    BY <1>0, <1>u, <2>2 DEF BatchKeepsOthers
<1>3. ASSUME NEW c \in Compactors, job'[c].pc \in {"build", "commit"} PROVE job'[c].in \subseteq current
  BY <1>0, <1>3, <1>c, <1>u, Zenon DEF CompactionInputsStay, InputsOf
<1>4. ASSUME NEW c \in Compactors, NEW d \in Compactors, c # d PROVE job'[c].in \cap job'[d].in = {}
  <2>1. ASSUME NEW s \in Compactors, s # t, t \in Compactors PROVE job'[t].in \cap job[s].in = {}
    <3>1. job[s].in \subseteq Busy(job)
      BY Zenon DEF Busy
    <3>2. job[t].in \cap job[s].in = {}
      BY <1>0, <2>1, Zenon DEF CompactionInputsStay
    <3> QED
      BY <2>1, <3>1, <3>2 DEF InputsOf
  <2>2. job[c].in \cap job[d].in = {}
    BY <1>0, <1>4, Zenon DEF CompactionInputsStay
  <2> QED
    BY <1>4, <1>c, <1>u, <2>1, <2>2, Zenon
<1>5. CompactionInputsStay'
  BY <1>3, <1>4, <1>u, ZenonT(30) DEF CompactionInputsStay
<1> QED
  BY <1>1, <1>2, <1>5 DEF InputsInv

(* No job has inputs.                                                      *)
LEMMA NoInputs ==
    ASSUME \A t \in Threads : job[t].pc = "idle" /\ job[t].in = {}, writing.n = 0
    PROVE  InputsInv
<1>1. Flusher \in Threads /\ Compactors \subseteq Threads /\ ~(writing.n > 0)
  BY DEF Threads
<1> QED
  BY <1>1, Zenon DEF InputsInv, DeletesInputs, BatchKeepsOthers, CompactionInputsStay

LEMMA JobInputs ==
    ASSUME TypeInv, InputsInv, JobSteps
    PROVE  InputsInv'
<1>0. DeletesInputs /\ Flusher \in Threads /\ Compactors \subseteq Threads /\ Flusher \notin Compactors
  BY DBConstants DEF Threads, InputsInv
<1>1. CASE BackgroundFlush
  <2>1. InputsOf(Flusher) /\ ByJob(Flusher)
    BY <1>0, <1>1, BackgroundFlushTypes DEF InputsOf
  <2> QED
    BY <1>0, <2>1, InputsFrame, ZenonT(30)
<1>2. CASE WriteLevel0Table
  <2>1. PICK T : Writes(Flusher, T, job[Flusher].edit) /\ job[Flusher].edit \in Edit
    BY <1>2, WriteLevel0TableTypes, Zenon
  <2>2. /\ ByJob(Flusher) /\ job'[Flusher].pc = "commit" /\ job'[Flusher].edit = job[Flusher].edit
        /\ job'[Flusher].in = job[Flusher].in
    <3>1. PICK e \in Edit : e = job[Flusher].edit
      BY <2>1
    <3>2. Writes(Flusher, T, e)
      BY <2>1, <3>1
    <3>3. /\ ByJob(Flusher) /\ job'[Flusher].pc = "commit" /\ job'[Flusher].edit = e
          /\ job'[Flusher].in = job[Flusher].in
      BY <1>0, <3>2, WriteTablesTypes, ZenonT(30)
    <3> QED
      BY <3>1, <3>3, Zenon
  <2>3. InputsOf(Flusher)
    BY <1>0, <2>1, <2>2 DEF InputsOf, Writes, DeletesInputs
  <2> QED
    BY <1>0, <2>2, <2>3, InputsFrame, Zenon
<1>3. ASSUME NEW c \in Compactors, NEW cut \in Keys, RunCompaction(c, cut) PROVE InputsInv'
  <2>0. c \in Threads /\ c # Flusher
    BY <1>0
  <2>1. PICK T, e : e \in Edit /\ e.del = job[c].in /\ Writes(c, T, e)
    BY <1>3, RunCompactionTypes, Zenon
  <2>2. ByJob(c) /\ job'[c].pc = "commit" /\ job'[c].edit = e /\ job'[c].in = job[c].in
    BY <2>0, <2>1, WriteTablesTypes, ZenonT(30)
  <2>3. InputsOf(c)
    BY <2>0, <2>1, <2>2 DEF InputsOf, Writes
  <2> QED
    BY <2>0, <2>2, <2>3, InputsFrame, Zenon
<1>4. ASSUME NEW c \in Compactors, NEW l \in 0 .. NumLevels - 2, StartCompaction(c, l) PROVE InputsInv'
  <2>0. c \in Threads /\ c # Flusher
    BY <1>0, Zenon
  <2>1. ByJob(c) /\ InputsOf(c)
    BY <1>4, <2>0, StartCompactionTypes, Zenon DEF InputsOf
  <2> QED
    BY <2>0, <2>1, InputsFrame, Zenon
<1>5. ASSUME NEW t \in Threads, BuildFails(t) \/ JobEnds(t) \/ PurgeObsoleteFiles(t) PROVE InputsInv'
  <2>1. ByJob(t) /\ job'[t].in = {} /\ job'[t].pc \in {"failed", "idle", "purge"}
    BY <1>5, BuildFailsTypes, JobEndTypes, PurgeTypes, NoJobFields, Zenon
  <2>2. InputsOf(t)
    BY <2>1 DEF InputsOf
  <2> QED
    BY <2>1, <2>2, InputsFrame, Zenon
<1> QED
  BY <1>1, <1>2, <1>3, <1>4, <1>5, ZenonT(30) DEF JobSteps

(* A record of the batch is written.                                       *)
LEMMA RecordInputs ==
    ASSUME TypeInv, InputsInv, WriteManifestRecord
    PROVE  InputsInv'
<1> DEFINE w == NextBatch
           e == job[NextWriter].edit
<1>0. DeletesInputs /\ BatchKeepsOthers /\ CompactionInputsStay
  BY DEF InputsInv
<1>r. /\ w \in WriteBatch /\ w.k + 1 \in 1 .. w.n
      /\ NextWriter \in Threads /\ job[NextWriter].pc = "commit"
      /\ writing'.k = w.k + 1 /\ writing'.version = Apply(w.version, e)
      /\ UNCHANGED <<job, manifest_writers, current>>
  BY RecordTypes, Zenon DEF memory
<1>1. DeletesInputs' /\ CompactionInputsStay'
  BY <1>0, <1>r DEF DeletesInputs, CompactionInputsStay
<1>2. e.del = job[NextWriter].in /\ NextWriter = manifest_writers[w.k + 1]
  BY <1>0, <1>r DEF DeletesInputs, NextWriter
<1>3. ASSUME NEW p \in current
      PROVE  p \in w.version \/ \E i \in 1 .. w.k : p \in job[manifest_writers[i]].in
  <2>1. CASE writing.n > 0
    BY <1>0, <2>1, Zenon DEF BatchKeepsOthers, NextBatch
  <2>2. CASE ~(writing.n > 0)
    BY <2>2 DEF NextBatch
  <2> QED
    BY <2>1, <2>2, Zenon
<1> HIDE DEF w, e
<1>4. ASSUME NEW p \in current
      PROVE  p \in writing'.version \/ \E i \in 1 .. writing'.k : p \in job'[manifest_writers'[i]].in
  <2>1. w.k \in Nat /\ w.k + 1 \in 1 .. writing'.k /\ 1 .. w.k \subseteq 1 .. writing'.k
    BY <1>r DEF WriteBatch
  <2>2. CASE p \in w.version
    <3>1. p \in writing'.version \/ p \in job[manifest_writers[w.k + 1]].in
      BY <1>2, <1>r, <2>2 DEF Apply
    <3> QED
      BY <1>r, <2>1, <3>1
  <2>3. CASE \E i \in 1 .. w.k : p \in job[manifest_writers[i]].in
    BY <1>r, <2>1, <2>3
  <2> QED
    BY <1>3, <2>2, <2>3
<1>5. BatchKeepsOthers'
  BY <1>4, <1>r DEF BatchKeepsOthers
<1> QED
  BY <1>1, <1>5 DEF InputsInv

(* The writers of a batch are done, or have failed: their inputs are no    *)
(* longer inputs of anything, and those of the others stay.                *)
LEMMA BatchInputs ==
    ASSUME TypeInv, InputsInv, NEW n \in Nat, ByBatch(n),
           \A t \in Threads : t \in Batch(n) => job'[t].in \subseteq job[t].in,
           \A c \in Compactors : c \notin Batch(n) /\ job[c].pc \in {"build", "commit"} =>
               job[c].in \subseteq current'
    PROVE  InputsInv'
<1>0. DeletesInputs /\ CompactionInputsStay
  BY DEF InputsInv
<1>c. Flusher \in Threads /\ Compactors \subseteq Threads
  BY Zenon DEF Threads
<1>1. ASSUME NEW t \in Threads
      PROVE  /\ job'[t] = job[t] \/ (t \in Batch(n) /\ job'[t].pc \in {"done", "failed"})
             /\ job'[t].in \subseteq job[t].in
  BY Zenon DEF ByBatch
<1>2. DeletesInputs'
  <2>1. \A t \in Threads : job'[t].pc = "commit" => job'[t].edit.del = job'[t].in
    BY <1>0, <1>1, Zenon DEF DeletesInputs
  <2>2. job'[Flusher].in = {} /\ (job'[Flusher].pc = "build" => job'[Flusher].edit.del = {})
    BY <1>0, <1>1, <1>c DEF DeletesInputs
  <2> QED
    BY <2>1, <2>2, Zenon DEF DeletesInputs
<1>3. BatchKeepsOthers'
  BY NotOpen DEF BatchKeepsOthers, ByBatch
<1>4. CompactionInputsStay'
  <2>1. ASSUME NEW c \in Compactors, job'[c].pc \in {"build", "commit"} PROVE job'[c].in \subseteq current'
    BY <1>c, <2>1, Zenon DEF ByBatch
  <2>2. ASSUME NEW c \in Compactors, NEW d \in Compactors, c # d PROVE job'[c].in \cap job'[d].in = {}
    <3>1. job[c].in \cap job[d].in = {}
      BY <1>0, <2>2 DEF CompactionInputsStay
    <3> QED
      BY <1>1, <1>c, <3>1, Zenon
  <2> QED
    BY <2>1, <2>2, Zenon DEF CompactionInputsStay
<1> QED
  BY <1>2, <1>3, <1>4 DEF InputsInv

LEMMA ManifestFailsInputs ==
    ASSUME TypeInv, InputsInv, ManifestFails
    PROVE  InputsInv'
<1>0. Jobs /\ CompactionInputsStay
  BY DEF TypeInv, InputsInv
<1>1. PICK n \in Nat : /\ ByBatch(n) /\ current' = current
                       /\ \A t \in Threads : t \in Batch(n) => job'[t] = Failed(job[t])
  BY ManifestFailsTypes, ZenonT(30)
<1>2. \A t \in Threads : t \in Batch(n) => job'[t].in \subseteq job[t].in
  BY <1>0, <1>1, FailedFields, Zenon DEF Jobs
<1>3. \A c \in Compactors : c \notin Batch(n) /\ job[c].pc \in {"build", "commit"} =>
               job[c].in \subseteq current'
  BY <1>0, <1>1 DEF CompactionInputsStay
<1> QED
  BY <1>1, <1>2, <1>3, BatchInputs

=============================================================================
