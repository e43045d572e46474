---------------------------- MODULE DBImplProofs ----------------------------
(***************************************************************************)
(* What holds of the store for any number of keys, threads, levels,        *)
(* crashes and failed calls: the types of its state and the inputs of the  *)
(* compactions, whatever fails, and that no file it needs is deleted, as   *)
(* long as the MANIFEST can be written.                                    *)
(***************************************************************************)
EXTENDS DBImplSteps

Adding(t) == job[t].pc \in {"build", "commit"}

(* The tables that an edit adds are on disk once it is queued, and are     *)
(* either new, above the number the job reserved, or of the version that   *)
(* the job references.                                                     *)
Edits ==
    /\ \A t \in Threads : job[t].pc = "commit" => FilesOf(job[t].edit.add) \subseteq DOMAIN tables
    /\ \A t \in Threads : Adding(t) =>
          \A f \in FilesOf(job[t].edit.add) :
             \/ 0 < job[t].pending /\ job[t].pending <= f
             \/ f \in FilesOf(job[t].base)
    /\ \A t \in Threads : job[t].pending <= next_file
    /\ \A t \in Threads : job[t].pc = "build" => 0 < job[t].pending

(* How the MANIFEST, the batch being written and the current version       *)
(* relate.                                                                 *)
Logged ==
    /\ status # "down" /\ writing.n = 0 => manifest.version = current
    /\ writing.n > 0 => manifest.version = writing.version
    /\ \A f \in FilesOf(manifest.version) :
          status = "open" => \/ f \in FilesOf(current)
                             \/ \E t \in Threads : job[t].pc = "commit" /\ f \in FilesOf(job[t].edit.add)
    /\ status = "recovering" => FilesOf(job[Flusher].edit.add) \subseteq DOMAIN tables

(* What is needed is on disk and on nobody's list of obsolete files.       *)
Needed(f) ==
    \/ f \in FilesOf(manifest.version)
    \/ f \in FilesOf(current)
    \/ f \in FilesOf(client.version)
    \/ \E t \in Threads : f \in FilesOf(job[t].base)
    \/ \E t \in Threads : Adding(t) /\ f \in FilesOf(job[t].edit.add)

OnDisk ==
    /\ FilesOf(manifest.version) \subseteq DOMAIN tables
    /\ FilesOf(current) \subseteq DOMAIN tables
    /\ FilesOf(client.version) \subseteq DOMAIN tables
    /\ \A t \in Threads : FilesOf(job[t].base) \subseteq DOMAIN tables

NotDead ==
    \A t \in Threads : \A f \in job[t].dead.tables : f < next_file /\ ~Needed(f)

FilesInv == Edits /\ Logged /\ OnDisk /\ NotDead

-----------------------------------------------------------------------------
(* The numbers of the files.                                               *)
LEMMA Numbers ==
    ASSUME TypeInv
    PROVE  /\ next_file \in Nat
           /\ \A t \in Threads : /\ IsJob(job[t]) /\ FilesOf(job[t].edit.add) \subseteq Nat
                                 /\ job[t].pending \in Nat /\ job[t].dead.tables \subseteq Nat
<1>1. next_file \in Nat /\ \A t \in Threads : IsJob(job[t])
  BY DEF TypeInv, Kinds, Versions, Jobs
<1>2. ASSUME NEW j, IsJob(j)
      PROVE  FilesOf(j.edit.add) \subseteq Nat /\ j.pending \in Nat /\ j.dead.tables \subseteq Nat
  BY <1>2, FilesOfVersion DEF IsJob, Edit
<1> QED
  BY <1>1, <1>2, Zenon

-----------------------------------------------------------------------------
(* The steps of the client, and those of LogAndApply.                      *)

(* A reader can only take the current version, and a writer only takes     *)
(* numbers.                                                                *)
LEMMA ClientFiles ==
    ASSUME TypeInv, FilesInv, ClientSteps
    PROVE  FilesInv'
<1>0. Edits /\ Logged /\ OnDisk /\ NotDead
  BY DEF FilesInv
<1>u. /\ UNCHANGED <<tables, manifest, status, current, job, manifest_writers, writing>>
      /\ next_file' >= next_file /\ client'.version \in {client.version, {}, current}
  BY ClientTypes DEF ByClient
<1>n. next_file \in Nat /\ next_file' \in Nat
  <2>1. TypeInv'
    BY ClientTypes
  <2> QED
    BY <2>1 DEF TypeInv, Kinds, Versions
<1>1. Edits'
  BY <1>0, <1>n, <1>u, Numbers DEF Edits, Adding
<1>2. Logged'
  BY <1>0, <1>u DEF Logged
<1>c. FilesOf(client'.version) \subseteq FilesOf(client.version) \cup FilesOf(current)
  BY <1>u, FilesOfVersion
<1>3. OnDisk'
  BY <1>0, <1>c, <1>u DEF OnDisk
<1>4. NotDead'
  <2> SUFFICES ASSUME NEW t \in Threads, NEW f \in job[t].dead.tables
               PROVE  f < next_file' /\ ~Needed(f)'
    BY <1>u DEF NotDead
  <2>1. f < next_file /\ ~Needed(f)
    BY <1>0 DEF NotDead
  <2>2. f < next_file'
    BY <1>n, <1>u, <2>1, Numbers
  <2>3. ~Needed(f)'
    BY <1>c, <1>u, <2>1 DEF Needed, Adding
  <2> QED
    BY <2>2, <2>3
<1> QED
  BY <1>1, <1>2, <1>3, <1>4 DEF FilesInv

(* A record of the batch in the MANIFEST: the files it adds are on disk.   *)
LEMMA RecordFiles ==
    ASSUME TypeInv, FilesInv, WriteManifestRecord
    PROVE  FilesInv'
<1> DEFINE w == NextBatch
           e == job[NextWriter].edit
<1>0. Edits /\ Logged /\ OnDisk /\ NotDead /\ Versions
  BY DEF FilesInv, TypeInv, Kinds
<1>r. /\ status = "open" /\ w.n > 0 /\ NextWriter \in Threads /\ job[NextWriter].pc = "commit" /\ e \in Edit
      /\ manifest'.version = Apply(manifest.version, e)
      /\ writing'.n = w.n /\ writing'.version = Apply(w.version, e)
      /\ UNCHANGED <<tables, status, current, next_file, client, job, manifest_writers>>
  BY RecordTypes DEF memory
<1>w. w.version = manifest.version
  <2>1. CASE writing.n > 0
    BY <1>0, <2>1 DEF Logged, NextBatch
  <2>2. CASE ~(writing.n > 0)
    <3>1. writing.n = 0
      BY <1>0, <2>2 DEF Versions, WriteBatch
    <3> QED
      BY <1>0, <1>r, <2>2, <3>1 DEF Logged, NextBatch
  <2> QED
    BY <2>1, <2>2
<1>n. w.n # 0
  BY <1>r
<1>e. FilesOf(e.add) \subseteq DOMAIN tables /\ Adding(NextWriter)
  BY <1>0, <1>r DEF Edits, Adding
<1>v. \A f \in FilesOf(manifest'.version) : f \in FilesOf(manifest.version) \/ f \in FilesOf(e.add)
  <2>1. manifest.version \in SUBSET Files
    BY <1>0 DEF Versions, Manifest
  <2> QED
    BY <1>r, <2>1, ApplyFiles
<1> HIDE DEF w
<1>1. Edits'
  BY <1>0, <1>r DEF Edits, Adding
<1>2. Logged'
  <2>1. ASSUME NEW f \in FilesOf(manifest'.version)
        PROVE  \/ f \in FilesOf(current)
               \/ \E s \in Threads : job[s].pc = "commit" /\ f \in FilesOf(job[s].edit.add)
    BY <1>0, <1>r, <1>v DEF Logged
  <2>2. writing'.n > 0 /\ writing'.n # 0 /\ manifest'.version = writing'.version /\ status' = "open"
    BY <1>n, <1>r, <1>w
  <2> QED
    BY <1>r, <2>1, <2>2 DEF Logged
<1>3. OnDisk'
  <2>1. FilesOf(manifest'.version) \subseteq DOMAIN tables
    BY <1>0, <1>e, <1>v DEF OnDisk
  <2> QED
    BY <1>0, <1>r, <2>1 DEF OnDisk
<1>4. NotDead'
  <2>1. ASSUME NEW f, Needed(f)' PROVE Needed(f)
    <3>1. CASE f \in FilesOf(manifest'.version)
      BY <1>e, <1>r, <1>v, <3>1 DEF Needed
    <3>2. CASE f \notin FilesOf(manifest'.version)
      BY <1>r, <2>1, <3>2 DEF Needed, Adding
    <3> QED
      BY <3>1, <3>2
  <2> QED
    BY <1>0, <1>r, <2>1 DEF NotDead
<1> QED
  BY <1>1, <1>2, <1>3, <1>4 DEF FilesInv

-----------------------------------------------------------------------------
(* The steps of a background thread.                                       *)

(* What a step of thread t does to the files: it deletes only those of its *)
(* list, it adds to the version files that are new, that it was adding or  *)
(* that are of the current version, and what it lists nobody needs.        *)
FilesOfJob(t) ==
    /\ DOMAIN tables \ job[t].dead.tables \subseteq DOMAIN tables'
    /\ job'[t].pending <= next_file'
    /\ FilesOf(job'[t].base) \subseteq FilesOf(job[t].base) \cup FilesOf(current)
    /\ job'[t].pc = "commit" => FilesOf(job'[t].edit.add) \subseteq DOMAIN tables'
    /\ job'[t].pc = "build" => 0 < job'[t].pending
    /\ Adding(t)' => \A f \in FilesOf(job'[t].edit.add) :
          /\ \/ 0 < job'[t].pending /\ job'[t].pending <= f
             \/ f \in FilesOf(job'[t].base)
          /\ \/ f >= next_file
             \/ Adding(t) /\ f \in FilesOf(job[t].edit.add)
             \/ f \in FilesOf(current)
    /\ \A f \in job'[t].dead.tables : f < next_file /\ (~Needed(f) \/ ~Needed(f)')

LEMMA FilesFrame ==
    ASSUME TypeInv, FilesInv, NEW t \in Threads, Kinds', ByJob(t), FilesOfJob(t)
    PROVE  FilesInv'
<1>0. Edits /\ Logged /\ OnDisk /\ NotDead /\ Jobs
  BY DEF FilesInv, TypeInv
<1>u. /\ status = "open" /\ job[t].pc # "commit" /\ \A s \in Threads \ {t} : job'[s] = job[s]
      /\ UNCHANGED <<manifest, status, current, client, writing>>
  BY <1>0 DEF ByJob, Jobs
<1>n. next_file \in Nat /\ next_file' \in Nat /\ next_file <= next_file'
  BY Numbers DEF Kinds, Versions, ByJob
<1>d. ASSUME NEW f, Needed(f) PROVE f \notin job[t].dead.tables
  BY <1>0, <1>d DEF NotDead
<1>1. Edits'
  <2>1. ASSUME NEW s \in Threads, job'[s].pc = "commit"
        PROVE  FilesOf(job'[s].edit.add) \subseteq DOMAIN tables'
    <3>1. CASE s = t
      BY <2>1, <3>1 DEF FilesOfJob
    <3>2. CASE s # t
      <4>1. job'[s] = job[s] /\ FilesOf(job[s].edit.add) \subseteq DOMAIN tables
        BY <1>0, <1>u, <2>1, <3>2 DEF Edits
      <4>2. \A f \in FilesOf(job[s].edit.add) : Needed(f)
        BY <2>1, <4>1 DEF Needed, Adding
      <4> QED
        BY <1>d, <4>1, <4>2 DEF FilesOfJob
    <3> QED
      BY <3>1, <3>2
  <2>2. ASSUME NEW s \in Threads PROVE job'[s].pending <= next_file'
    <3>1. CASE s = t
      BY <3>1 DEF FilesOfJob
    <3>2. CASE s # t
      <4>1. job'[s] = job[s] /\ job[s].pending \in Nat /\ job[s].pending <= next_file
        BY <1>0, <1>u, <3>2, Numbers DEF Edits
      <4> QED
        BY <1>n, <4>1
    <3> QED
      BY <3>1, <3>2
  <2>3. ASSUME NEW s \in Threads, Adding(s)', NEW f \in FilesOf(job'[s].edit.add)
        PROVE  \/ 0 < job'[s].pending /\ job'[s].pending <= f
               \/ f \in FilesOf(job'[s].base)
    <3>1. CASE s = t
      BY <2>3, <3>1 DEF FilesOfJob
    <3>2. CASE s # t
      BY <1>0, <1>u, <2>3, <3>2, Zenon DEF Edits, Adding
    <3> QED
      BY <3>1, <3>2
  <2>4. ASSUME NEW s \in Threads, job'[s].pc = "build" PROVE 0 < job'[s].pending
    <3>1. CASE s = t
      BY <2>4, <3>1 DEF FilesOfJob
    <3>2. CASE s # t
      BY <1>0, <1>u, <2>4, <3>2 DEF Edits
    <3> QED
      BY <3>1, <3>2
  <2> QED
    BY <2>1, <2>2, <2>3, <2>4, Zenon DEF Edits
<1>2. Logged'
  <2>1. ASSUME NEW f \in FilesOf(manifest.version)
        PROVE  \/ f \in FilesOf(current)
               \/ \E s \in Threads : job'[s].pc = "commit" /\ f \in FilesOf(job'[s].edit.add)
    <3>1. CASE f \in FilesOf(current)
      BY <3>1
    <3>2. CASE f \notin FilesOf(current)
      <4>1. PICK s \in Threads : job[s].pc = "commit" /\ f \in FilesOf(job[s].edit.add)
        BY <1>0, <1>u, <3>2 DEF Logged
      <4>2. job'[s] = job[s]
        BY <1>u, <4>1
      <4> QED
        BY <4>1, <4>2
    <3> QED
      BY <3>1, <3>2
  <2>2. status' # "recovering"
    BY <1>u
  <2> QED
    BY <1>0, <1>u, <2>1, <2>2, Zenon DEF Logged
<1>3. OnDisk'
  <2>1. ASSUME NEW f \in DOMAIN tables, Needed(f) PROVE f \in DOMAIN tables'
    BY <1>d, <2>1 DEF FilesOfJob
  <2>2. /\ FilesOf(manifest.version) \subseteq DOMAIN tables'
        /\ FilesOf(current) \subseteq DOMAIN tables'
        /\ FilesOf(client.version) \subseteq DOMAIN tables'
        /\ \A s \in Threads : FilesOf(job[s].base) \subseteq DOMAIN tables'
    BY <1>0, <2>1, Zenon DEF OnDisk, Needed
  <2>3. ASSUME NEW s \in Threads PROVE FilesOf(job'[s].base) \subseteq DOMAIN tables'
    <3>1. CASE s = t
      BY <2>2, <3>1 DEF FilesOfJob
    <3>2. CASE s # t
      BY <1>u, <2>2, <3>2
    <3> QED
      BY <3>1, <3>2
  <2> QED
    BY <1>u, <2>2, <2>3, Zenon DEF OnDisk
<1>4. NotDead'
  <2>1. ASSUME NEW f, Needed(f)' PROVE Needed(f) \/ f >= next_file
    <3>1. CASE f \in FilesOf(job'[t].base) \/ (Adding(t)' /\ f \in FilesOf(job'[t].edit.add))
      BY <3>1 DEF FilesOfJob, Needed
    <3>2. CASE ~(f \in FilesOf(job'[t].base) \/ (Adding(t)' /\ f \in FilesOf(job'[t].edit.add)))
      BY <1>u, <2>1, <3>2, Zenon DEF Needed, Adding
    <3> QED
      BY <3>1, <3>2
  <2>2. ASSUME NEW s \in Threads, NEW f \in job'[s].dead.tables
        PROVE  f \in Nat /\ f < next_file /\ (~Needed(f) \/ ~Needed(f)')
    <3>0. f \in Nat
      <4>1. IsJob(job'[s])
        BY <1>0, <1>u DEF ByJob, Jobs
      <4> QED
        BY <2>2, <4>1 DEF IsJob
    <3>1. CASE s = t
      BY <2>2, <3>0, <3>1 DEF FilesOfJob
    <3>2. CASE s # t
      BY <1>0, <1>u, <2>2, <3>0, <3>2 DEF NotDead
    <3> QED
      BY <3>1, <3>2
  <2>3. ASSUME NEW f \in Nat, f < next_file PROVE f < next_file' /\ ~(f >= next_file)
    BY <1>n, <2>3
  <2> QED
    BY <2>1, <2>2, <2>3, Zenon DEF NotDead
<1> QED
  BY <1>1, <1>2, <1>3, <1>4 DEF FilesInv

(* A table being built, an edit that is queued, the inputs of a compaction *)
(* that starts: the files are new, or of the version referenced.           *)
LEMMA BuildFiles ==
    ASSUME TypeInv, FilesInv,
           \/ BackgroundFlush \/ WriteLevel0Table
           \/ \E c \in Compactors, cut \in Keys : RunCompaction(c, cut)
           \/ \E c \in Compactors, l \in 0 .. NumLevels - 2 : StartCompaction(c, l)
    PROVE  FilesInv'
<1>0. /\ Edits /\ NotDead /\ Flusher \in Threads /\ Compactors \subseteq Threads
      /\ FilesOf({}) = {} /\ NoDead.tables = {} /\ FilesOf(NoEdit.add) = {}
  BY FilesOfVersion DEF FilesInv, Threads, NoDead, NoEdit
<1>n. next_file \in Nat /\ \A t \in Threads : job[t].pending \in Nat /\ job[t].dead.tables \subseteq Nat
  BY Numbers, Zenon
<1>s. status = "open" => 0 < next_file
  BY DEF TypeInv, Numbered
<1>1. CASE BackgroundFlush
  <2>1. /\ Kinds' /\ ByJob(Flusher) /\ job'[Flusher].pc = "build"
        /\ FilesOf(job'[Flusher].edit.add) = {next_file} /\ job'[Flusher].base = {}
        /\ job'[Flusher].pending = next_file /\ job'[Flusher].dead = NoDead
    BY <1>1, BackgroundFlushTypes, Zenon
  <2>2. status = "open" /\ tables' = tables /\ next_file' = next_file + 1
    BY <1>1 DEF BackgroundFlush, disk
  <2>3. FilesOfJob(Flusher)
    <3>1. next_file >= next_file /\ next_file <= next_file + 1 /\ 0 < next_file /\ next_file <= next_file
      BY <1>n, <1>s, <2>2
    <3> QED
      BY <1>0, <2>1, <2>2, <3>1, Zenon DEF FilesOfJob
  <2> QED
    BY <1>0, <2>1, <2>3, FilesFrame, Zenon
<1>2. ASSUME NEW t \in Threads, NEW T, NEW e \in Edit, Writes(t, T, e),
             \A f \in FilesOf(e.add) : f \in Nat /\ (f >= next_file \/ f \in FilesOf(job[t].edit.add))
      PROVE  FilesInv'
  <2>1. /\ Kinds' /\ ByJob(t)
        /\ job'[t].pc = "commit" /\ job'[t].edit = e /\ job'[t].base = job[t].base
        /\ job'[t].pending = job[t].pending /\ job'[t].dead = job[t].dead
        /\ DOMAIN tables' = DOMAIN tables \cup DOMAIN T
    BY <1>2, WriteTablesTypes, ZenonT(30)
  <2>2. /\ job[t].pc = "build" /\ FilesOf(e.add) = DOMAIN T
        /\ next_file' \in Nat /\ next_file' >= next_file
    BY <1>2 DEF Writes
  <2>3. Adding(t) /\ 0 < job[t].pending /\ job[t].pending <= next_file
    BY <1>0, <2>2 DEF Edits, Adding
  <2>4. job[t].pending <= next_file'
    BY <1>n, <2>2, <2>3
  <2>5. ASSUME NEW f \in FilesOf(e.add)
        PROVE  \/ 0 < job[t].pending /\ job[t].pending <= f
               \/ f \in FilesOf(job[t].base)
    <3>1. CASE f >= next_file
      BY <1>2, <1>n, <2>3, <3>1
    <3>2. CASE f \in FilesOf(job[t].edit.add)
      BY <1>0, <2>3, <3>2 DEF Edits
    <3> QED
      BY <1>2, <3>1, <3>2
  <2>6. \A f \in job[t].dead.tables : f < next_file /\ ~Needed(f)
    BY <1>0 DEF NotDead
  <2>7. FilesOfJob(t)
    BY <1>2, <2>1, <2>2, <2>3, <2>4, <2>5, <2>6, ZenonT(30) DEF FilesOfJob
  <2> QED
    BY <2>1, <2>7, FilesFrame, Zenon
<1>3. CASE WriteLevel0Table
  <2>1. PICK T : Writes(Flusher, T, job[Flusher].edit) /\ job[Flusher].edit \in Edit
    BY <1>3, WriteLevel0TableTypes, Zenon
  <2>2. PICK e \in Edit : e = job[Flusher].edit
    BY <2>1
  <2>3. \A f \in FilesOf(e.add) : f \in Nat
    BY <1>0, <2>2, Numbers
  <2> QED
    BY <1>0, <1>2, <2>1, <2>2, <2>3, Zenon
<1>4. ASSUME NEW c \in Compactors, NEW cut \in Keys, RunCompaction(c, cut) PROVE FilesInv'
  <2>1. PICK T, e : /\ e \in Edit /\ Writes(c, T, e)
                    /\ \A f \in DOMAIN T : f \in Nat /\ f >= next_file
    BY <1>4, RunCompactionTypes, Zenon
  <2>2. c \in Threads /\ FilesOf(e.add) = DOMAIN T
    BY <1>0, <2>1 DEF Writes
  <2> QED
    BY <1>2, <2>1, <2>2, Zenon
<1>5. ASSUME NEW c \in Compactors, NEW l \in 0 .. NumLevels - 2, StartCompaction(c, l) PROVE FilesInv'
  <2>1. /\ Kinds' /\ ByJob(c) /\ job'[c].pc \in {"build", "commit"} /\ job'[c].base = current
        /\ job'[c].pending = next_file /\ job'[c].dead = NoDead
        /\ FilesOf(job'[c].edit.add) \subseteq FilesOf(current)
        /\ tables' = tables /\ next_file' = next_file
    BY <1>5, StartCompactionTypes, Zenon
  <2>2. c \in Threads /\ status = "open"
    BY <1>0, <2>1, Zenon DEF ByJob
  <2>3. next_file <= next_file /\ 0 < next_file
    BY <1>n, <1>s, <2>2
  <2>4. FilesOf(current) \subseteq DOMAIN tables
    BY DEF FilesInv, OnDisk
  <2>5. FilesOfJob(c)
    BY <1>0, <2>1, <2>3, <2>4, Zenon DEF FilesOfJob
  <2> QED
    BY <2>1, <2>2, <2>5, FilesFrame, Zenon
<1> QED
  BY <1>1, <1>3, <1>4, <1>5, Zenon

(* The end of a job: what it lists as obsolete is needed by nobody,        *)
(* because its number is below those of the tables being written and no    *)
(* version in use has it.                                                  *)
LEMMA ObsoleteFiles ==
    ASSUME TypeInv, FilesInv, NEW t \in Threads, job[t].pc \in {"done", "failed"}, status = "open",
           NEW f \in FindObsoleteFiles([job EXCEPT ![t] = NoJob]).tables
    PROVE  /\ f < next_file
           /\ f \notin FilesOf(manifest.version) /\ f \notin FilesOf(current)
           /\ f \notin FilesOf(client.version)
           /\ \A s \in Threads \ {t} : /\ f \notin FilesOf(job[s].base)
                                       /\ ~(Adding(s) /\ f \in FilesOf(job[s].edit.add))
<1> DEFINE j == [job EXCEPT ![t] = NoJob]
<1>0. Edits /\ Logged /\ Jobs /\ Tables /\ Numbered
  BY DEF FilesInv, TypeInv, Kinds
<1>j. DOMAIN job = Threads /\ \A s \in Threads \ {t} : j[s] = job[s]
  BY <1>0 DEF Jobs
<1>1. f \in DOMAIN tables /\ Unprotected(j, f) /\ f \notin LiveFiles(j)
  BY DEF FindObsoleteFiles
<1> HIDE DEF j
<1>2. f \in Nat /\ f < next_file
  BY <1>0, <1>1 DEF Tables, Numbered, Below
<1>3. /\ f \notin FilesOf(current) /\ f \notin FilesOf(client.version)
      /\ \A s \in Threads \ {t} : f \notin FilesOf(job[s].base)
  BY <1>1, <1>j DEF LiveFiles
<1>4. ASSUME NEW s \in Threads, Adding(s), f \in FilesOf(job[s].edit.add) PROVE FALSE
  <2>1. s # t
    BY <1>4 DEF Adding
  <2>2. job[s].pending > 0 => f < job[s].pending
    BY <1>1, <1>j, <2>1 DEF Unprotected
  <2>3. 0 < job[s].pending /\ job[s].pending <= f /\ job[s].pending \in Nat
    BY <1>0, <1>3, <1>4, <2>1, Numbers DEF Edits
  <2> QED
    BY <1>2, <2>2, <2>3
<1>5. f \notin FilesOf(manifest.version)
  BY <1>0, <1>3, <1>4 DEF Logged, Adding
<1> QED
  BY <1>2, <1>3, <1>4, <1>5, Zenon

(* The end of a job, by failure too, and the deletion of what it listed.   *)
LEMMA EndFiles ==
    ASSUME TypeInv, FilesInv, NEW t \in Threads,
           BuildFails(t) \/ JobEnds(t) \/ PurgeObsoleteFiles(t)
    PROVE  FilesInv'
<1>0. NotDead /\ Edits /\ FilesOf({}) = {} /\ FilesOf(NoEdit.add) = {}
  BY FilesOfVersion DEF FilesInv, NoEdit
<1>n. next_file \in Nat /\ job[t].pending \in Nat /\ 0 <= next_file
  BY Numbers
<1>d. \A f \in job[t].dead.tables : f < next_file /\ ~Needed(f)
  BY <1>0 DEF NotDead
<1>1. CASE BuildFails(t)
  <2>1. /\ Kinds' /\ ByJob(t)
        /\ job'[t].pc = "failed" /\ job'[t].base = {}
        /\ job'[t].pending = job[t].pending /\ job'[t].dead = job[t].dead
        /\ tables' = tables /\ next_file' = next_file
    BY <1>1, BuildFailsTypes, Zenon
  <2>2. job[t].pending <= next_file
    BY <1>0 DEF Edits
  <2>3. ~Adding(t)' /\ job'[t].pc # "commit" /\ job'[t].pc # "build"
    BY <2>1 DEF Adding
  <2>4. FilesOfJob(t)
    BY <1>0, <1>d, <2>1, <2>2, <2>3, Zenon DEF FilesOfJob
  <2> QED
    BY <2>1, <2>4, FilesFrame, Zenon
<1>2. CASE JobEnds(t)
  <2>0. PICK D : D = FindObsoleteFiles([job EXCEPT ![t] = NoJob])
    OBVIOUS
  <2>1. /\ Kinds' /\ ByJob(t) /\ job[t].pc \in {"done", "failed"}
        /\ job'[t].pc \in {"idle", "purge"} /\ job'[t].base = {}
        /\ job'[t].pending = 0 /\ job'[t].dead.tables \subseteq D.tables
        /\ tables' = tables /\ next_file' = next_file
    BY <1>2, <2>0, JobEndTypes, Zenon
  <2>2. /\ status = "open" /\ UNCHANGED <<manifest, current, client>>
        /\ \A s \in Threads \ {t} : job'[s] = job[s]
    <3>1. DOMAIN job = Threads
      BY DEF TypeInv, Jobs
    <3> QED
      BY <2>1, <3>1 DEF ByJob
  <2>3. ~Adding(t)' /\ job'[t].pc # "commit" /\ job'[t].pc # "build"
    BY <2>1 DEF Adding
  <2>4. ASSUME NEW f \in job'[t].dead.tables PROVE f < next_file /\ ~Needed(f)'
    <3>1. f \in FindObsoleteFiles([job EXCEPT ![t] = NoJob]).tables
      BY <2>0, <2>1, <2>4
    <3>2. /\ f < next_file
          /\ f \notin FilesOf(manifest.version) /\ f \notin FilesOf(current)
          /\ f \notin FilesOf(client.version)
          /\ \A s \in Threads \ {t} : /\ f \notin FilesOf(job[s].base)
                                      /\ ~(Adding(s) /\ f \in FilesOf(job[s].edit.add))
      BY <2>1, <2>2, <3>1, ObsoleteFiles, Zenon
    <3> QED
      BY <1>0, <2>1, <2>2, <2>3, <3>2, Zenon DEF Needed, Adding
  <2>5. FilesOfJob(t)
    BY <1>0, <1>n, <2>1, <2>3, <2>4, Zenon DEF FilesOfJob
  <2> QED
    BY <2>1, <2>5, FilesFrame, Zenon
<1>3. CASE PurgeObsoleteFiles(t)
  <2>1. /\ Kinds' /\ ByJob(t) /\ job'[t] = NoJob
        /\ DOMAIN tables' = DOMAIN tables \ job[t].dead.tables /\ next_file' = next_file
    BY <1>3, PurgeTypes, Zenon
  <2>2. /\ job'[t].base = {} /\ job'[t].pending = 0 /\ job'[t].dead.tables = {}
        /\ ~Adding(t)' /\ job'[t].pc # "commit" /\ job'[t].pc # "build"
    BY <2>1 DEF Adding, NoJob, NoDead
  <2>3. FilesOfJob(t)
    BY <1>0, <1>n, <2>1, <2>2, Zenon DEF FilesOfJob
  <2> QED
    BY <2>1, <2>3, FilesFrame, Zenon
<1> QED
  BY <1>1, <1>2, <1>3

-----------------------------------------------------------------------------
(* The end of the process, recovery, and a new store.                      *)

(* Nothing runs, so only the MANIFEST, the current version and the edit of *)
(* RecoverLogFiles have files.                                             *)
Resting ==
    /\ FilesOf(client.version) = {} /\ writing.n = 0
    /\ \A t \in Threads : /\ job[t].pc = "idle" /\ job[t].pending = 0
                          /\ FilesOf(job[t].base) = {} /\ job[t].dead.tables = {}

LEMMA RestingFiles ==
    ASSUME TypeInv', Resting',
           FilesOf(manifest'.version) \subseteq DOMAIN tables',
           status' # "down" => manifest'.version = current',
           status' = "down" => FilesOf(current') = {},
           status' = "recovering" => FilesOf(job'[Flusher].edit.add) \subseteq DOMAIN tables'
    PROVE  FilesInv'
<1>1. Edits'
  <2>1. next_file' \in Nat
    BY DEF TypeInv, Kinds, Versions
  <2>2. 0 <= next_file'
    BY <2>1
  <2> QED
    BY <2>2 DEF Resting, Edits, Adding
<1>2. Logged'
  BY DEF Resting, Logged
<1>3. OnDisk'
  BY DEF Resting, OnDisk
<1>4. NotDead'
  BY DEF Resting, NotDead
<1> QED
  BY <1>1, <1>2, <1>3, <1>4 DEF FilesInv

LEMMA InitFiles == InitDB => FilesInv
<1> SUFFICES ASSUME InitDB PROVE FilesInv
  OBVIOUS
<1>0. /\ FilesOf(client.version) = {} /\ writing.n = 0 /\ \A t \in Threads : job[t] = NoJob
      /\ FilesOf(manifest.version) = {} /\ FilesOf(current) = {}
  BY InitTypes, Zenon
<1>1. status = "open" /\ manifest.version = current /\ next_file = 3
  BY DEF InitDB
<1>2. /\ NoJob.pc = "idle" /\ NoJob.pending = 0 /\ NoJob.base = {} /\ NoJob.dead.tables = {}
      /\ FilesOf({}) = {}
  BY FilesOfVersion DEF NoJob, NoDead
<1>3. Edits
  BY <1>0, <1>1, <1>2 DEF Edits, Adding
<1>4. Logged
  BY <1>0, <1>1 DEF Logged
<1>5. OnDisk
  BY <1>0, <1>2 DEF OnDisk
<1>6. NotDead
  BY <1>0, <1>2 DEF NotDead
<1> QED
  BY <1>3, <1>4, <1>5, <1>6 DEF FilesInv

(* The invariants give the properties.                                     *)
LEMMA TypesOfTheState == TypeInv => TypeOKDB
<1> SUFFICES ASSUME TypeInv PROVE TypeOKDB
  OBVIOUS
<1>0. Kinds /\ Jobs /\ Queue /\ Numbered
  BY DEF TypeInv
<1>k. Logs /\ Tables /\ Memory /\ Client /\ Versions
  BY <1>0 DEF Kinds
<1>1. DOMAIN logs \cup DOMAIN tables \subseteq Nat
  BY <1>k DEF Logs, Tables
<1>2. \A n \in DOMAIN logs : logs[n].data \subseteq Entries /\ logs[n].torn \in BOOLEAN
  <2>1. \A n \in DOMAIN logs : logs[n] \in LogFile
    BY <1>k, Zenon DEF Logs
  <2> QED
    BY <2>1 DEF LogFile
<1>3. \A n \in DOMAIN tables : tables[n] \subseteq Entries
  BY <1>k DEF Tables
<1>4. /\ {manifest.version, current, client.version, writing.version} \subseteq SUBSET (Levels \X Nat)
      /\ {manifest.log_number, manifest.next_file, manifest.last_sequence, log_number,
          logfile_number, next_file, last_sequence, client.newlog, writing.k, writing.n} \subseteq Nat
      /\ status \in {"down", "recovering", "installed", "open"}
  BY <1>k DEF Versions, Manifest, WriteBatch, Client, Memory, Files
<1>5. /\ mem \subseteq Entries /\ client.e \subseteq Entries
      /\ {full, bg_error, flush_queued, compact_queued} \subseteq BOOLEAN
      /\ client.pc \in {"idle", "switch", "delay", "wal", "insert", "get"}
  BY <1>k DEF Memory, Client
<1>6. \A i \in DOMAIN imm : imm[i].data \subseteq Entries /\ imm[i].next_log \in Nat
  <2>1. \A i \in DOMAIN imm : imm[i] \in Memtable
    BY <1>k DEF Memory
  <2> QED
    BY <2>1 DEF Memtable
<1>7. \A t \in Threads : JobType(job[t])
  <2>1. ASSUME NEW j, IsJob(j) PROVE JobType(j)
    BY <2>1 DEF IsJob, JobType, EditType, Edit, Files
  <2> QED
    BY <1>0, <2>1, Zenon DEF Jobs
<1>8. manifest_writers \in Seq(Threads) /\ job[Flusher].mems <= Len(imm)
  BY <1>0, Zenon DEF Jobs, Queue
<1>9. status = "open" => \A f \in DOMAIN tables : f < next_file
  BY <1>0 DEF Numbered, Below
<1> QED
  BY <1>1, <1>2, <1>3, <1>4, <1>5, <1>6, <1>7, <1>8, <1>9, ZenonT(30) DEF TypeOKDB

LEMMA FilesInvNeeded == FilesInv => NeededFilesExist
  BY DEF FilesInv, OnDisk, NeededFilesExist, LiveFiles

(* The lemmas on least and greatest numbers rest on the library; what      *)
(* comes before them does not need it.                                     *)
INSTANCE FiniteSetTheorems

-----------------------------------------------------------------------------
(* Numbers and finite sets of them.                                        *)

(* A set of natural numbers that is not empty has a least element.         *)
LEMMA LeastNat ==
    ASSUME NEW S, S \subseteq Nat, S # {}
    PROVE  \E m \in S : \A y \in S : m <= y
<1>1. \E m \in S : \A y \in S : ~(<<y, m>> \in OpToRel(<, Nat))
  BY NatLessThanWellFounded, WFMin, Zenon
<1>2. PICK m \in S : \A y \in S : ~(y < m)
  BY <1>1, Zenon DEF OpToRel
<1> QED
  BY <1>2

(* A set of integers that is not empty and has a bound has a greatest      *)
(* element, and Max gives it.                                              *)
LEMMA MaxOfBounded ==
    ASSUME NEW S, S \subseteq Int, S # {}, NEW b \in Int, \A x \in S : x <= b
    PROVE  Max(S) \in S /\ \A x \in S : x <= Max(S)
<1> DEFINE T == {n \in Nat : b - n \in S}
<1>1. T # {} /\ T \subseteq Nat
  <2>1. PICK x \in S : TRUE
    BY Zenon
  <2>2. b - x \in Nat /\ b - (b - x) = x
    OBVIOUS
  <2> QED
    BY <2>2, Zenon
<1> HIDE DEF T
<1>2. PICK m \in T : \A y \in T : m <= y
  BY <1>1, LeastNat, Zenon
<1>3. m \in Nat /\ b - m \in S
  BY <1>2 DEF T
<1>4. ASSUME NEW y \in S PROVE b - m >= y
  <2>1. b - y \in Nat /\ b - (b - y) = y
    OBVIOUS
  <2>2. b - y \in T
    BY <2>1 DEF T
  <2> QED
    BY <1>2, <1>3, <2>1, <2>2
<1>5. \E x \in S : \A y \in S : x >= y
  BY <1>3, <1>4
<1>6. Max(S) \in S /\ \A y \in S : Max(S) >= y
  BY <1>5, Zenon DEF Max
<1> QED
  BY <1>6

(* Finitely many numbers have a bound.                                     *)
LEMMA BoundedRange ==
    ASSUME NEW n \in Nat, NEW g, \A i \in 1 .. n : g[i] \in Nat
    PROVE  \E b \in Nat : \A i \in 1 .. n : g[i] <= b
<1> DEFINE P(k) == \E b \in Nat : \A i \in 1 .. n : i <= k => g[i] <= b
           S == {k \in Nat : ~P(k)}
<1>1. P(0)
  BY 0 \in Nat
<1>2. ASSUME NEW k \in Nat, P(k) PROVE P(k + 1)
  <2>1. PICK b \in Nat : \A i \in 1 .. n : i <= k => g[i] <= b
    BY <1>2
  <2>2. CASE k + 1 \in 1 .. n
    <3>1. b + g[k + 1] \in Nat /\ \A i \in 1 .. n : i <= k + 1 => g[i] <= b + g[k + 1]
      BY <2>1, <2>2
    <3> QED
      BY <3>1
  <2>3. CASE k + 1 \notin 1 .. n
    <3>1. \A i \in 1 .. n : i <= k + 1 => g[i] <= b
      BY <2>1, <2>3
    <3> QED
      BY <3>1
  <2> QED
    BY <2>2, <2>3
<1>3. S \subseteq Nat
  OBVIOUS
<1>4. ASSUME S # {} PROVE FALSE
  <2>1. PICK m \in S : \A y \in S : m <= y
    <3> HIDE DEF S
    <3> QED
      BY <1>3, <1>4, LeastNat, Zenon
  <2>2. m \in Nat /\ ~P(m)
    BY <2>1
  <2> HIDE DEF P
  <2>3. PICK k \in Nat : m = k + 1
    BY <1>1, <2>2
  <2>4. k \notin S
    BY <2>1, <2>3
  <2>5. P(k)
    BY <2>4
  <2> QED
    BY <1>2, <2>2, <2>3, <2>5
<1>5. P(n)
  BY <1>4
<1> QED
  BY <1>5

(* The ranks of the elements of a set of numbers with a bound are all the  *)
(* numbers below its cardinality.                                          *)
LEMMA Ranks ==
    ASSUME NEW N, N \subseteq Nat, NEW b \in Nat, \A n \in N : n <= b
    PROVE  /\ Cardinality(N) \in Nat
           /\ \A j \in Nat : j < Cardinality(N) =>
                 \E n \in N : Cardinality({m \in N : m < n}) = j
<1> DEFINE R(n) == {m \in N : m < n}
<1>1. ASSUME NEW n \in Nat PROVE IsFiniteSet(R(n)) /\ Cardinality(R(n)) \in Nat
  <2>1. IsFiniteSet(0 .. n)
    BY FS_Interval
  <2>2. ASSUME NEW m \in R(n) PROVE m \in 0 .. n
    OBVIOUS
  <2> QED
    BY <2>1, <2>2, FS_Subset, FS_CardinalityType, Zenon
<1>2. R(0) = {} /\ R(b + 1) = N
  <2>1. \A m \in N : ~(m < 0) /\ m < b + 1
    OBVIOUS
  <2> QED
    BY <2>1, Zenon
<1>3. ASSUME NEW n \in Nat
      PROVE  R(n + 1) = IF n \in N THEN R(n) \cup {n} ELSE R(n)
  <2>1. \A m \in N : m < n + 1 <=> m < n \/ m = n
    OBVIOUS
  <2> QED
    BY <2>1, Zenon
<1>4. ASSUME NEW n \in Nat
      PROVE  Cardinality(R(n + 1)) = IF n \in N THEN Cardinality(R(n)) + 1 ELSE Cardinality(R(n))
  <2>1. n \notin R(n)
    OBVIOUS
  <2> HIDE DEF R
  <2>2. n \in N => Cardinality(R(n) \cup {n}) = Cardinality(R(n)) + 1
    BY <1>1, <2>1, FS_AddElement, Zenon
  <2> QED
    BY <1>3, <2>2
<1>5. Cardinality(R(0)) = 0 /\ b + 1 \in Nat
  BY <1>2, FS_EmptySet
<1>6. Cardinality(N) \in Nat
  BY <1>1, <1>2, <1>5
<1>7. ASSUME NEW j \in Nat, j < Cardinality(N) PROVE \E n \in N : Cardinality(R(n)) = j
  <2> HIDE DEF R
  <2> DEFINE S == {n \in Nat : Cardinality(R(n)) > j}
  <2>1. S \subseteq Nat /\ S # {}
    <3>1. Cardinality(R(b + 1)) > j
      BY <1>2, <1>6, <1>7
    <3> QED
      BY <1>5, <3>1
  <2>2. PICK m \in S : \A y \in S : m <= y
    <3> HIDE DEF S
    <3> QED
      BY <2>1, LeastNat, Zenon
  <2>3. m \in Nat /\ Cardinality(R(m)) > j
    BY <2>2
  <2>4. m # 0
    BY <1>5, <2>3
  <2>5. PICK n \in Nat : m = n + 1
    BY <2>3, <2>4
  <2>6. n \notin S
    BY <2>2, <2>5
  <2>7. ~(Cardinality(R(n)) > j)
    BY <2>6
  <2>8. Cardinality(R(n)) \in Nat
    BY <1>1
  <2>9. Cardinality(R(n + 1)) > j
    BY <2>3, <2>5
  <2>10. n \in N /\ Cardinality(R(n)) = j
    BY <1>4, <2>7, <2>8, <2>9
  <2> QED
    BY <2>10
<1> QED
  BY <1>6, <1>7

-----------------------------------------------------------------------------
(* The steps that need them.                                               *)

(* The version of the batch is installed.                                  *)
LEMMA InstallTypes ==
    ASSUME TypeInv, InstallVersion
    PROVE  /\ TypeInv' /\ ByBatch(writing.n)
           /\ writing.n > 0 /\ writing.k = writing.n /\ current' = writing.version
           /\ \A t \in Threads : t \in Batch(writing.n) => job'[t] = [job[t] EXCEPT !.pc = "done"]
<1> DEFINE n == writing.n
<1>0. Kinds /\ Jobs /\ Queue /\ Stopped
  BY DEF TypeInv
<1>k. Memory /\ Versions
  BY <1>0 DEF Kinds
<1>u. /\ writing.n > 0 /\ writing.k = writing.n /\ current' = writing.version /\ writing' = NoBatch
      /\ job' = [t \in Threads |-> IF t \in Batch(n) THEN [job[t] EXCEPT !.pc = "done"] ELSE job[t]]
      /\ manifest_writers' = SubSeq(manifest_writers, n + 1, Len(manifest_writers))
      /\ log_number' = Max({log_number} \cup {job[t].edit.log : t \in Batch(n)})
      /\ UNCHANGED <<logs, tables, manifest, status, mem, imm, full, logfile_number, next_file,
                     last_sequence, bg_error, flush_queued, compact_queued, client>>
  BY DEF InstallVersion, EndBatch, disk
<1>q. /\ manifest_writers \in Seq(Threads) /\ Len(manifest_writers) \in Nat
      /\ n \in Nat /\ n <= Len(manifest_writers)
  BY <1>0, <1>k DEF Queue, Versions, WriteBatch
<1>s. status = "open"
  BY <1>0, <1>u DEF Stopped, NoBatch
<1>t. ASSUME NEW t \in Threads, t \in Batch(n)
      PROVE  /\ job'[t] = [job[t] EXCEPT !.pc = "done"]
             /\ IsJob(job'[t]) /\ job'[t].pc = "done" /\ job'[t].edit = job[t].edit
             /\ job'[t].mems = job[t].mems
  <2>1. job'[t] = [job[t] EXCEPT !.pc = "done"]
    BY <1>t, <1>u
  <2>2. IsJob(job[t])
    BY <1>0 DEF Jobs
  <2> QED
    BY <2>1, <2>2 DEF IsJob
<1>b. ByBatch(n)
  BY <1>s, <1>t, <1>u DEF ByBatch
<1>m. log_number' \in Nat
  <2> DEFINE g == [i \in 1 .. n |-> job[manifest_writers[i]].edit.log]
             M == {log_number} \cup {job[t].edit.log : t \in Batch(n)}
  <2>1. \A i \in 1 .. n : g[i] \in Nat /\ g[i] = job[manifest_writers[i]].edit.log
    <3>1. \A i \in 1 .. n : manifest_writers[i] \in Threads
      BY <1>q
    <3>2. \A t \in Threads : job[t].edit.log \in Nat
      BY <1>0 DEF Jobs, IsJob, Edit
    <3> QED
      BY <3>1, <3>2
  <2>2. \A x \in M : x = log_number \/ \E i \in 1 .. n : x = g[i]
    BY <2>1 DEF Batch
  <2> HIDE DEF g
  <2>3. PICK b \in Nat : \A i \in 1 .. n : g[i] <= b
    BY <1>q, <2>1, BoundedRange, Zenon
  <2>4. log_number \in Nat
    BY <1>k DEF Memory
  <2>6. log_number' = Max(M) /\ M # {}
    BY <1>u
  <2> HIDE DEF M
  <2>5. M \subseteq Nat /\ M \subseteq Int /\ b + log_number \in Int /\ \A x \in M : x <= b + log_number
    BY <2>1, <2>2, <2>3, <2>4
  <2>7. Max(M) \in M
    BY <2>5, <2>6, MaxOfBounded, Zenon
  <2> QED
    BY <2>5, <2>6, <2>7, Zenon
<1>5. Memory'
  BY <1>k, <1>m, <1>u DEF Memory
<1>6. TypeInv'
  BY <1>5, <1>b, <1>q, BatchFrame
<1> QED
  BY <1>6, <1>b, <1>t, <1>u

(* The numbers RecoverLogFiles gives the tables, and the counters after.   *)
LEMMA RecoveredNumbers ==
    ASSUME Kinds, NEW L, L = {n \in DOMAIN logs : n >= manifest.log_number}
    PROVE  LET N == {n \in L : logs[n].data # {}}
               last == Max({manifest.log_number - 1} \cup L)
               first == Max({manifest.next_file} \cup {n + 1 : n \in L})
           IN /\ Cardinality(N) \in Nat
              /\ last + 1 \in Nat
              /\ first \in Nat /\ first >= manifest.next_file
              /\ Max({first + Cardinality(N), last + 2}) \in Nat
              /\ Max({first + Cardinality(N), last + 2}) >= first + Cardinality(N)
              /\ Max({manifest.last_sequence} \cup UNION {{e.seq : e \in logs[n].data} : n \in L}) \in Nat
              /\ \A i \in first .. first + Cardinality(N) - 1 :
                    \E n \in N : first + Cardinality({m \in N : m < n}) = i
<1> DEFINE N == {n \in L : logs[n].data # {}}
           last == Max({manifest.log_number - 1} \cup L)
           first == Max({manifest.next_file} \cup {n + 1 : n \in L})
           S == UNION {{e.seq : e \in logs[n].data} : n \in L}
<1>1. /\ manifest.log_number \in Nat /\ manifest.next_file \in Nat /\ manifest.last_sequence \in Nat
      /\ DOMAIN logs \subseteq Nat
  BY DEF Kinds, Versions, Logs, Manifest
<1>2. PICK b \in Nat : \A n \in DOMAIN logs : n <= b
  BY DEF Kinds, Logs
<1>3. L \subseteq Nat /\ L \subseteq DOMAIN logs /\ \A n \in L : n <= b
  BY <1>1, <1>2
<1>4. /\ Cardinality(N) \in Nat
      /\ \A j \in Nat : j < Cardinality(N) => \E n \in N : Cardinality({m \in N : m < n}) = j
  <2>1. N \subseteq Nat /\ \A n \in N : n <= b
    BY <1>3
  <2> HIDE DEF N
  <2> QED
    BY <2>1, Ranks, Zenon
<1>5. last + 1 \in Nat /\ last \in Int
  <2> DEFINE M == {manifest.log_number - 1} \cup L
             c == b + manifest.log_number
  <2>1. M \subseteq Int /\ M # {} /\ c \in Int /\ \A x \in M : x <= c
    BY <1>1, <1>3
  <2>2. \A x \in M : x >= -1
    BY <1>1, <1>3
  <2> HIDE DEF M, c
  <2>3. Max(M) \in M
    BY <2>1, MaxOfBounded, Zenon
  <2>4. Max(M) \in Int /\ Max(M) >= -1
    BY <2>1, <2>2, <2>3, Zenon
  <2>5. Max(M) + 1 \in Nat
    BY <2>4
  <2> QED
    BY <2>4, <2>5 DEF M
<1>6. first \in Nat /\ first >= manifest.next_file
  <2> DEFINE M == {manifest.next_file} \cup {n + 1 : n \in L}
             c == b + 1 + manifest.next_file
  <2>1. M \subseteq Nat /\ M # {} /\ c \in Int /\ \A x \in M : x <= c
    BY <1>1, <1>3
  <2>2. manifest.next_file \in M /\ M \subseteq Int
    BY <2>1
  <2> HIDE DEF M, c
  <2>3. Max(M) \in M /\ \A y \in M : Max(M) >= y
    BY <2>1, <2>2, MaxOfBounded, Zenon
  <2>4. Max(M) \in Nat /\ Max(M) >= manifest.next_file
    BY <2>1, <2>2, <2>3, Zenon
  <2> QED
    BY <2>4 DEF M
<1> HIDE DEF first, last
<1>7. /\ Max({first + Cardinality(N), last + 2}) \in Nat
      /\ Max({first + Cardinality(N), last + 2}) >= first + Cardinality(N)
  <2> DEFINE x == first + Cardinality(N)
             y == last + 2
  <2>0. x \in Nat
    BY <1>4, <1>6
  <2>1. y \in Nat
    BY <1>5
  <2>2. x \in Int /\ y \in Int
    BY <2>0, <2>1
  <2> HIDE DEF x, y
  <2>3. Max({x, y}) \in {x, y} /\ Max({x, y}) >= x
    BY <2>2, MaxOfTwo
  <2>4. Max({x, y}) \in Nat
    BY <2>0, <2>1, <2>3
  <2> QED
    BY <2>3, <2>4 DEF x, y
<1>8. Max({manifest.last_sequence} \cup S) \in Nat
  <2> DEFINE M == {manifest.last_sequence} \cup S
             c == MaxSeq + manifest.last_sequence
  <2>1. MaxSeq \in Nat
    BY DBConstants
  <2>2. ASSUME NEW n \in L, NEW e \in logs[n].data PROVE e.seq \in 1 .. MaxSeq
    <3>1. logs[n] \in LogFile
      BY <1>3, Zenon DEF Kinds, Logs
    <3>2. e \in Entries
      BY <3>1 DEF LogFile
    <3> QED
      BY <3>2 DEF Entries
  <2>3. \A s \in S : s \in 1 .. MaxSeq
    BY <2>2
  <2>4. M \subseteq Nat /\ M # {} /\ c \in Int /\ \A x \in M : x <= c
    BY <1>1, <2>1, <2>3
  <2>5. M \subseteq Int
    BY <2>4
  <2> HIDE DEF M, c
  <2>6. Max(M) \in M
    BY <2>4, <2>5, MaxOfBounded, Zenon
  <2>7. Max(M) \in Nat
    BY <2>4, <2>6, Zenon
  <2> QED
    BY <2>7 DEF M
<1>9. ASSUME NEW i \in first .. first + Cardinality(N) - 1
      PROVE  \E n \in N : first + Cardinality({m \in N : m < n}) = i
  <2> HIDE DEF N
  <2>1. i - first \in Nat /\ i - first < Cardinality(N) /\ first + (i - first) = i
    BY <1>4, <1>6
  <2>2. PICK n \in N : Cardinality({m \in N : m < n}) = i - first
    BY <1>4, <2>1, Zenon
  <2> QED
    BY <2>1, <2>2, Zenon
<1> QED
  BY <1>4, <1>5, <1>6, <1>7, <1>8, <1>9, Zenon DEF first, last

(* The tables of the logs get numbers above those of the MANIFEST.         *)
LEMMA RecoverLogFilesTypes ==
    ASSUME TypeInv, RecoverLogFiles
    PROVE  /\ TypeInv' /\ FilesOf(client'.version) = {} /\ writing'.n = 0
           /\ \A t \in Threads : /\ job'[t].pc = "idle" /\ job'[t].pending = 0 /\ job'[t].in = {}
                                 /\ FilesOf(job'[t].base) = {} /\ job'[t].dead.tables = {}
           /\ FilesOf(job'[Flusher].edit.add) \subseteq DOMAIN tables'
           /\ DOMAIN tables \subseteq DOMAIN tables'
           /\ status' = "recovering" /\ current' = manifest.version /\ manifest' = manifest
           /\ manifest_writers' = <<>>
<1> DEFINE L == {n \in DOMAIN logs : n >= manifest.log_number}
           N == {n \in L : logs[n].data # {}}
           last == Max({manifest.log_number - 1} \cup L)
           first == Max({manifest.next_file} \cup {n + 1 : n \in L})
           table(n) == first + Cardinality({m \in N : m < n})
           numbers == first .. first + Cardinality(N) - 1
           e == [NoEdit EXCEPT !.add = Pairs(0, numbers), !.log = last + 1]
<1>0. Kinds /\ Jobs /\ Stopped /\ Numbered
  BY DEF TypeInv
<1>k. Logs /\ Tables /\ Memory /\ Client /\ Versions
  BY <1>0 DEF Kinds
<1>u. /\ status = "down" /\ status' = "recovering" /\ current' = manifest.version
      /\ log_number' = manifest.log_number
      /\ tables' = [i \in DOMAIN tables \cup numbers |->
                      IF i \in numbers THEN Newest(logs[CHOOSE n \in N : table(n) = i].data)
                      ELSE tables[i]]
      /\ job' = [job EXCEPT ![Flusher].edit = e]
      /\ next_file' = Max({first + Cardinality(N), last + 2})
      /\ last_sequence' = Max({manifest.last_sequence} \cup
                              UNION {{x.seq : x \in logs[n].data} : n \in L})
      /\ UNCHANGED <<logs, manifest, mem, imm, full, logfile_number, bg_error, flush_queued,
                     compact_queued, client, manifest_writers, writing>>
  BY Zenon DEF RecoverLogFiles, Recover
<1>1. /\ Cardinality(N) \in Nat /\ last + 1 \in Nat
      /\ first \in Nat /\ first >= manifest.next_file
      /\ next_file' \in Nat /\ next_file' >= first + Cardinality(N) /\ last_sequence' \in Nat
      /\ \A i \in numbers : \E n \in N : table(n) = i
  BY <1>0, <1>u, RecoveredNumbers, Zenon
<1>l. N \subseteq DOMAIN logs
  OBVIOUS
<1> HIDE DEF L, N, last, first
<1>m. /\ manifest.next_file \in Nat /\ manifest.version \in SUBSET Files /\ manifest.log_number \in Nat
      /\ Below(FilesOf(manifest.version), manifest.next_file)
  BY <1>0, <1>k DEF Versions, Manifest, Numbered
<1>2. /\ numbers \in SUBSET Nat /\ Below(numbers, next_file') /\ manifest.next_file <= next_file'
  BY <1>1, <1>m DEF Below
<1> HIDE DEF numbers, table
<1>d. DOMAIN tables' = DOMAIN tables \cup numbers
  BY <1>u
<1>3. Pairs(0, numbers) \in SUBSET Files /\ FilesOf(Pairs(0, numbers)) = numbers
  BY <1>2, PairsAndFiles, SomeLevels
<1>4. e \in Edit /\ FilesOf(e.add) = numbers
  BY <1>1, <1>3, Zenon DEF NoEdit, Edit
<1> HIDE DEF e
<1>s. /\ client = Idle /\ manifest_writers = <<>> /\ writing = NoBatch /\ Flusher \in Threads
      /\ \A t \in Threads : job[t] = [NoJob EXCEPT !.edit = job[t].edit] /\ job[t].edit \in Edit
      /\ DOMAIN job = Threads
  BY <1>0, <1>u DEF Stopped, Threads, Jobs, IsJob
<1>t. /\ DOMAIN job' = Threads /\ \A t \in Threads \ {Flusher} : job'[t] = job[t]
      /\ job'[Flusher] = [job[Flusher] EXCEPT !.edit = e]
  BY <1>s, <1>u
<1>x. job'[Flusher].edit = e /\ job'[Flusher] = [NoJob EXCEPT !.edit = e]
  <2>1. job[Flusher] = [NoJob EXCEPT !.edit = job[Flusher].edit]
    BY <1>s
  <2>2. [[NoJob EXCEPT !.edit = job[Flusher].edit] EXCEPT !.edit = e] = [NoJob EXCEPT !.edit = e]
    BY Zenon DEF NoJob
  <2>3. [NoJob EXCEPT !.edit = e].edit = e
    BY DEF NoJob
  <2> QED
    BY <1>t, <2>1, <2>2, <2>3
<1>5. Logs' /\ Memory'
  BY <1>k, <1>m, <1>u, <1>1 DEF Logs, Memory
<1>6. Tables'
  <2>1. ASSUME NEW i \in numbers PROVE tables'[i] \subseteq Entries
    <3>1. PICK n \in N : n = (CHOOSE m \in N : table(m) = i)
      BY <1>1, Zenon
    <3>2. tables'[i] = Newest(logs[n].data)
      BY <1>u, <3>1, Zenon
    <3>3. logs[n] \in LogFile
      BY <1>k, <1>l, Zenon DEF Logs
    <3> QED
      BY <3>2, <3>3 DEF LogFile, Newest
  <2>2. ASSUME NEW i \in DOMAIN tables, i \notin numbers PROVE tables'[i] \subseteq Entries
    BY <1>k, <1>u, <2>2, Zenon DEF Tables
  <2>3. DOMAIN tables' \subseteq Nat
    BY <1>2, <1>d, <1>k, Zenon DEF Tables
  <2> QED
    BY <1>d, <2>1, <2>2, <2>3, Zenon DEF Tables
<1>7. Versions'
  BY <1>k, <1>u, <1>1, <1>m DEF Versions
<1>8. ASSUME NEW t \in Threads
      PROVE  /\ job'[t] = [NoJob EXCEPT !.edit = job'[t].edit]
             /\ job'[t].edit \in Edit /\ Below(FilesOf(job'[t].edit.add), next_file')
  <2>1. CASE t = Flusher
    BY <1>2, <1>4, <1>x, <2>1, Zenon
  <2>2. CASE t # Flusher
    <3>1. job'[t] = job[t]
      BY <1>t, <2>2
    <3>2. job[t].edit = NoEdit
      BY <1>0, <1>u, <2>2 DEF Stopped, Threads
    <3> QED
      BY <1>s, <3>1, <3>2, NoJobFields DEF Below
  <2> QED
    BY <2>1, <2>2
<1>c. \A c \in Compactors : job'[c].edit = NoEdit
  BY <1>0, <1>t, <1>u, DBConstants DEF Stopped, Threads
<1>9. /\ status' # "open" /\ manifest_writers' = <<>> /\ writing' = NoBatch /\ client' = Idle
      /\ Below(FilesOf(manifest'.version), manifest'.next_file)
      /\ manifest'.next_file <= next_file'
  BY <1>2, <1>m, <1>s, <1>u
<1>10. Below(FilesOf(current'), next_file')
  <2>1. FilesOf(current') = FilesOf(manifest.version) /\ FilesOf(manifest.version) \subseteq Nat
    BY <1>m, <1>u, FilesOfVersion
  <2> QED
    BY <1>1, <1>2, <1>m, <2>1, BelowGrows
<1>11. /\ TypeInv' /\ FilesOf(client'.version) = {} /\ writing'.n = 0
       /\ \A t \in Threads : /\ job'[t].pc = "idle" /\ job'[t].pending = 0 /\ job'[t].in = {}
                             /\ FilesOf(job'[t].base) = {} /\ job'[t].dead.tables = {}
  BY <1>5, <1>6, <1>7, <1>8, <1>9, <1>10, <1>c, <1>t, StoppedTypes, ZenonT(30)
<1> QED
  BY <1>11, <1>4, <1>9, <1>d, <1>u, <1>x, Zenon

LEMMA InstallInputs ==
    ASSUME TypeInv, InputsInv, InstallVersion
    PROVE  InputsInv'
<1> DEFINE n == writing.n
<1>0. Jobs /\ Queue /\ Versions /\ DeletesInputs /\ BatchKeepsOthers /\ CompactionInputsStay
  BY DEF TypeInv, Kinds, InputsInv
<1>i. /\ ByBatch(n) /\ n > 0 /\ writing.k = n /\ current' = writing.version
      /\ \A t \in Threads : t \in Batch(n) => job'[t] = [job[t] EXCEPT !.pc = "done"]
  BY InstallTypes, Zenon
<1>n. n \in Nat /\ n <= Len(manifest_writers) /\ manifest_writers \in Seq(Threads)
  BY <1>0 DEF Versions, WriteBatch, Queue
<1> HIDE DEF n
<1>1. ASSUME NEW t \in Threads, t \in Batch(n) PROVE job'[t].in \subseteq job[t].in
  <2>1. job'[t] = [job[t] EXCEPT !.pc = "done"] /\ IsJob(job[t])
    BY <1>0, <1>1, <1>i DEF Jobs
  <2> QED
    BY <2>1 DEF IsJob
<1>2. ASSUME NEW c \in Compactors, c \notin Batch(n), job[c].pc \in {"build", "commit"}
      PROVE  job[c].in \subseteq current'
  <2> SUFFICES ASSUME NEW p \in job[c].in PROVE p \in writing.version
    BY <1>i
  <2>1. p \in current
    BY <1>0, <1>2, Zenon DEF CompactionInputsStay
  <2>2. ASSUME NEW i \in 1 .. n, p \in job[manifest_writers[i]].in PROVE FALSE
    <3>1. manifest_writers[i] \in Batch(n) /\ manifest_writers[i] # c
      BY <1>2 DEF Batch
    <3>2. manifest_writers[i] \in Threads
      BY <1>n
    <3>3. CASE manifest_writers[i] = Flusher
      BY <1>0, <2>2, <3>3, Zenon DEF DeletesInputs
    <3>4. CASE manifest_writers[i] \in Compactors
      BY <1>0, <2>2, <3>1, <3>4, Zenon DEF CompactionInputsStay
    <3> QED
      BY <3>2, <3>3, <3>4, Zenon DEF Threads
  <2> QED
    BY <1>0, <1>i, <2>1, <2>2 DEF BatchKeepsOthers, n
<1> QED
  BY <1>1, <1>2, <1>i, <1>n, BatchInputs

(* The version installed is the one the MANIFEST describes.                *)
LEMMA InstallFiles ==
    ASSUME TypeInv, FilesInv, InstallVersion
    PROVE  FilesInv'
<1> DEFINE n == writing.n
<1>0. Jobs /\ Edits /\ Logged /\ OnDisk /\ NotDead
  BY DEF FilesInv, TypeInv
<1>i. /\ ByBatch(n) /\ n > 0 /\ current' = writing.version
      /\ \A t \in Threads : t \in Batch(n) => job'[t] = [job[t] EXCEPT !.pc = "done"]
  BY InstallTypes
<1>u. status = "open" /\ writing'.n = 0 /\ UNCHANGED <<tables, manifest, status, next_file, client>>
  BY <1>i, NotOpen DEF ByBatch
<1>v. current' = manifest.version
  BY <1>0, <1>i DEF Logged
<1> HIDE DEF n
<1>t. ASSUME NEW t \in Threads
      PROVE  /\ job'[t].base = job[t].base /\ job'[t].edit = job[t].edit
             /\ job'[t].pending = job[t].pending /\ job'[t].dead = job[t].dead
             /\ job'[t].pc \in {job[t].pc, "done"}
  <2>1. CASE t \in Batch(n)
    <3>1. job'[t] = [job[t] EXCEPT !.pc = "done"] /\ IsJob(job[t])
      BY <1>0, <1>i, <2>1 DEF Jobs
    <3> QED
      BY <3>1 DEF IsJob
  <2>2. CASE t \notin Batch(n)
    BY <1>i, <2>2 DEF ByBatch
  <2> QED
    BY <2>1, <2>2
<1>1. Edits'
  BY <1>0, <1>t, <1>u DEF Edits, Adding
<1>2. Logged'
  BY <1>u, <1>v DEF Logged
<1>3. OnDisk'
  BY <1>0, <1>t, <1>u, <1>v DEF OnDisk
<1>4. NotDead'
  <2>1. ASSUME NEW f, Needed(f)' PROVE Needed(f)
    BY <1>t, <1>u, <1>v, <2>1 DEF Needed, Adding
  <2> QED
    BY <1>0, <1>t, <1>u, <2>1 DEF NotDead
<1> QED
  BY <1>1, <1>2, <1>3, <1>4 DEF FilesInv

-----------------------------------------------------------------------------
(* The theorems.                                                           *)

LEMMA NextTypes == TypeInv /\ [NextDB]_varsDB => TypeInv'
<1> SUFFICES ASSUME TypeInv, [NextDB]_varsDB PROVE TypeInv'
  OBVIOUS
<1>1. CASE NextDB
  <2>1. ASSUME ClientSteps \/ JobSteps PROVE TypeInv'
    BY <2>1, ClientTypes, JobTypes, Zenon
  <2>2. ASSUME ManifestStep \/ ManifestFails PROVE TypeInv'
    BY <2>2, RecordStep, InstallTypes, ManifestFailsTypes, Zenon DEF ManifestStep
  <2>3. ASSUME Crash \/ Recovery PROVE TypeInv'
    BY <2>3, CrashTypes, RecoverLogFilesTypes, RecoverVersionTypes, OpenTypes, Zenon DEF Recovery
  <2> QED
    BY <1>1, <2>1, <2>2, <2>3, StepCases, Zenon
<1>2. CASE UNCHANGED varsDB
  <2>1. UNCHANGED <<logs, tables, manifest, status, mem, imm, full, current, log_number, logfile_number,
                    next_file, last_sequence, bg_error, flush_queued, compact_queued,
                    client, job, manifest_writers, writing>>
    BY <1>2 DEF varsDB, disk, memory, threads
  <2>2. Kinds'
    BY <2>1 DEF TypeInv, Kinds, Logs, Tables, Memory, Client, Versions
  <2>3. Jobs' /\ Queue' /\ Stopped' /\ Numbered'
    BY <2>1 DEF TypeInv, Jobs, Queue, Stopped, Numbered
  <2> QED
    BY <2>2, <2>3 DEF TypeInv
<1> QED
  BY <1>1, <1>2

(* The state keeps its kinds of values through every step, failure, crash  *)
(* and recovery.  The bounds are what needs an argument: the tables of an  *)
(* open store are numbered below the counter, because no number recovered  *)
(* from the MANIFEST or from the logs comes before one already used, and   *)
(* FlushDone never drops more memtables than the list holds.               *)
THEOREM StoreTypes == SpecDB => []TypeOKDB
<1>1. InitDB => TypeInv
  BY InitTypes
<1>2. TypeInv /\ [NextDB]_varsDB => TypeInv'
  BY NextTypes
<1>3. TypeInv => TypeOKDB
  BY TypesOfTheState
<1> QED
  BY <1>1, <1>2, <1>3, PTL DEF SpecDB

LEMMA NextInputs == TypeInv /\ InputsInv /\ [NextDB]_varsDB => InputsInv'
<1> SUFFICES ASSUME TypeInv, InputsInv, [NextDB]_varsDB PROVE InputsInv'
  OBVIOUS
<1>1. ASSUME UNCHANGED <<job, current, writing, manifest_writers>> PROVE InputsInv'
  BY <1>1 DEF InputsInv, DeletesInputs, BatchKeepsOthers, CompactionInputsStay
<1>2. ASSUME \A t \in Threads : job'[t].pc = "idle" /\ job'[t].in = {}, writing'.n = 0 PROVE InputsInv'
  <2>1. Flusher \in Threads /\ Compactors \subseteq Threads /\ ~(writing'.n > 0)
    BY <1>2 DEF Threads
  <2> QED
    BY <1>2, <2>1 DEF InputsInv, DeletesInputs, BatchKeepsOthers, CompactionInputsStay
<1>3. CASE NextDB
  <2>1. ASSUME ClientSteps PROVE InputsInv'
    BY <1>1, <2>1, ClientTypes DEF ByClient
  <2>2. ASSUME ManifestStep \/ ManifestFails PROVE InputsInv'
    BY <2>2, RecordInputs, InstallInputs, ManifestFailsInputs, Zenon DEF ManifestStep
  <2>3. ASSUME Crash PROVE InputsInv'
    BY <1>2, <2>3, CrashTypes, NoJobFields, Zenon
  <2>4. ASSUME Recovery PROVE InputsInv'
    <3>1. /\ \A t \in Threads : job'[t].pc = "idle" /\ job'[t].in = {}
          /\ writing'.n = 0
      BY <2>4, RecoverLogFilesTypes, RecoverVersionTypes, OpenTypes, ZenonT(30) DEF Recovery
    <3> QED
      BY <1>2, <3>1, Zenon
  <2> QED
    BY <1>3, <2>1, <2>2, <2>3, <2>4, JobInputs, StepCases, ZenonT(30)
<1>4. CASE UNCHANGED varsDB
  BY <1>1, <1>4 DEF varsDB, memory, threads
<1> QED
  BY <1>3, <1>4

(* "Paranoia" of InstallCompactionResults: whatever is flushed, compacted  *)
(* or installed between the moment a compaction is picked and the moment   *)
(* its edit is applied, by any number of compaction threads, with several  *)
(* edits in a batch and with any of them failing, its inputs are still in  *)
(* the current version, and no other compaction has one of them.           *)
THEOREM InputsStay == SpecDB => []CompactionInputsStay
<1>1. InitDB => TypeInv /\ InputsInv
  BY InitTypes, NoInputs, NoJobFields, Zenon
<1>2. TypeInv /\ [NextDB]_varsDB => TypeInv'
  BY NextTypes
<1>3. TypeInv /\ InputsInv /\ [NextDB]_varsDB => InputsInv'
  BY NextInputs
<1>4. InputsInv => CompactionInputsStay
  BY DEF InputsInv
<1> QED
  BY <1>1, <1>2, <1>3, <1>4, PTL DEF SpecDB

LEMMA NextFiles ==
    ASSUME "manifest" \notin Faults, TypeInv, FilesInv, [NextDB]_varsDB
    PROVE  FilesInv'
<1>0. Logged /\ OnDisk
  BY DEF FilesInv
<1>1. CASE NextDB
  <2>1. ASSUME JobSteps PROVE FilesInv'
    BY <2>1, BuildFiles, EndFiles, ZenonT(30) DEF JobSteps
  <2>2. ASSUME ManifestStep PROVE FilesInv'
    BY <2>2, RecordFiles, InstallFiles DEF ManifestStep
  <2>3. ~ManifestFails
    BY DEF ManifestFails, Fault
  <2>4. ASSUME Crash PROVE FilesInv'
    <3>1. /\ TypeInv' /\ FilesOf(client'.version) = {} /\ writing'.n = 0
          /\ \A t \in Threads : job'[t] = NoJob
          /\ status' = "down" /\ current' = {} /\ tables' = tables /\ manifest' = manifest
      BY <2>4, CrashTypes, Zenon
    <3>2. /\ NoJob.pc = "idle" /\ NoJob.pending = 0 /\ NoJob.base = {} /\ NoJob.dead.tables = {}
          /\ FilesOf({}) = {}
      BY FilesOfVersion DEF NoJob, NoDead
    <3>3. Resting' /\ FilesOf(manifest'.version) \subseteq DOMAIN tables' /\ FilesOf(current') = {}
      BY <1>0, <3>1, <3>2, Zenon DEF Resting, OnDisk
    <3> QED
      BY <3>1, <3>3, RestingFiles
  <2>5. ASSUME RecoverLogFiles PROVE FilesInv'
    <3>1. /\ TypeInv' /\ Resting'
          /\ FilesOf(job'[Flusher].edit.add) \subseteq DOMAIN tables'
          /\ DOMAIN tables \subseteq DOMAIN tables'
          /\ status' = "recovering" /\ current' = manifest.version /\ manifest' = manifest
      BY <2>5, RecoverLogFilesTypes, Zenon DEF Resting
    <3>2. FilesOf(manifest'.version) \subseteq DOMAIN tables' /\ manifest'.version = current'
      BY <1>0, <3>1 DEF OnDisk
    <3> QED
      BY <3>1, <3>2, RestingFiles
  <2>6. ASSUME RecoverVersion PROVE FilesInv'
    <3>1. /\ TypeInv' /\ Resting'
          /\ FilesOf(current') \subseteq FilesOf(current) \cup FilesOf(job[Flusher].edit.add)
          /\ status = "recovering" /\ status' = "installed" /\ manifest'.version = current'
          /\ tables' = tables
      BY <2>6, RecoverVersionTypes, Zenon DEF Resting
    <3>2. FilesOf(manifest'.version) \subseteq DOMAIN tables'
      BY <1>0, <3>1 DEF OnDisk, Logged
    <3> QED
      BY <3>1, <3>2, RestingFiles
  <2>7. ASSUME Open PROVE FilesInv'
    <3>1. /\ TypeInv' /\ Resting'
          /\ DOMAIN tables' = DOMAIN tables \cap FilesOf(current)
          /\ status = "installed" /\ status' = "open" /\ current' = current /\ manifest' = manifest
      BY <2>7, OpenTypes, Zenon DEF Resting
    <3>2. writing.n = 0
      BY <3>1, NotOpen, Zenon DEF TypeInv, Stopped
    <3>3. manifest.version = current
      BY <1>0, <3>1, <3>2 DEF Logged
    <3>4. FilesOf(manifest'.version) \subseteq DOMAIN tables' /\ manifest'.version = current'
      BY <1>0, <3>1, <3>3 DEF OnDisk
    <3> QED
      BY <3>1, <3>4, RestingFiles
  <2> QED
    BY <1>1, <2>1, <2>2, <2>3, <2>4, <2>5, <2>6, <2>7, ClientFiles, StepCases, ZenonT(30) DEF Recovery
<1>2. CASE UNCHANGED varsDB
  <2>1. UNCHANGED <<tables, manifest, status, current, next_file, client, job, writing>>
    BY <1>2 DEF varsDB, disk, memory, threads
  <2> QED
    BY <2>1 DEF FilesInv, Edits, Logged, OnDisk, NotDead, Needed, Adding
<1> QED
  BY <1>1, <1>2

(* No table that the MANIFEST names, that the current version or one held  *)
(* by a reader or by a job needs is ever deleted: PurgeObsoleteFiles works *)
(* on a list that FindObsoleteFiles made some steps earlier, while tables  *)
(* are written, versions installed and the process may end at any point.   *)
(* The MANIFEST must be writable: after a failed write it may name tables  *)
(* of an edit that was given up.                                           *)
THEOREM FilesExist ==
    ASSUME "manifest" \notin Faults
    PROVE  SpecDB => []NeededFilesExist
<1>1. InitDB => TypeInv /\ FilesInv
  BY InitTypes, InitFiles
<1>2. TypeInv /\ FilesInv /\ [NextDB]_varsDB => TypeInv' /\ FilesInv'
  BY NextTypes, NextFiles
<1>3. FilesInv => NeededFilesExist
  BY FilesInvNeeded
<1> QED
  BY <1>1, <1>2, <1>3, PTL DEF SpecDB
=============================================================================
