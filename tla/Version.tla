------------------------------ MODULE Version ------------------------------
(***************************************************************************)
(* The read path: the order in which FilePicker hands the files of a       *)
(* version to Version::Get, and what GetImpl answers from the memtables    *)
(* and the version of the SuperVersion it holds.                           *)
(***************************************************************************)
EXTENDS DBImpl, SequencesExt

SmallestSeq(f) == Min({e.seq : e \in Contents(f)})

(* FilePicker: the files of level 0 newest first, then level by level, in  *)
(* the order of their keys.                                                *)
SearchOrder(v) ==
    LET files(l) == {f \in FilesAt(v, l) : Contents(f) # {}}
        level(l) ==
            IF l = 0
            THEN SetToSortSeq(files(0), LAMBDA f, g : SmallestSeq(f) > SmallestSeq(g))
            ELSE SetToSortSeq(files(l), LAMBDA f, g : Min(KeysOf({f})) < Min(KeysOf({g})))
    IN FlattenSeq([i \in 1 .. NumLevels |-> level(i - 1)])

(* GetImpl: the first of memtable, immutable memtables and tables that has *)
(* an entry of the key decides.                                            *)
Lookup(ms, v, k) ==
    LET found == SelectSeq(ms \o [i \in DOMAIN SearchOrder(v) |-> Contents(SearchOrder(v)[i])],
                           LAMBDA E : EntriesOf(E, k) # {})
    IN IF found = <<>> THEN 0 ELSE Value(EntriesOf(Head(found), k))

(* A Get that holds a SuperVersion while flushes, compactions and purges   *)
(* go on reads, for every key, what was last written.                      *)
GetReadsLatest ==
    client.pc = "get" => \A k \in Keys : Lookup(client.mems, client.version, k) = DurableValue[k]
=============================================================================
