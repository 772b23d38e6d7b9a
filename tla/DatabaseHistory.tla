--------------------------- MODULE DatabaseHistory ---------------------------
(***************************************************************************)
(* What the database answers, and what it finds when it is opened again:   *)
(* the steps of module Database keep HistoryInv.                           *)
(*                                                                         *)
(* While the process runs, the writes are split by two sequence numbers:   *)
(* the frontier of the Version and the last write of an Immutable that is  *)
(* not published. The tables answer for the first part, the Immutable and  *)
(* its WAL hold the second, the Mutable and its WAL the third. From this   *)
(* follows what Open finds in every directory that may survive             *)
(* (RecoverOK), which crashes keep and from which Open builds the same     *)
(* split again.                                                            *)
(***************************************************************************)
EXTENDS HistoryFacts

USE DEF diskVars, memoryVars, allButImmutable, allButCompaction, workerVars, callVars,
        historyVars, boundVars

------------------------------------------------------------------------------
(* What the steps that leave memory alone do to the disk *)

\* The changes of the directory that steps make.
LEMMA ChangesKept ==
    ASSUME TypeInv
    PROVE  /\ UNCHANGED diskVars => DirsKept /\ LogKept
           /\ \A d : /\ d.manifest = dir.manifest /\ KeepsFiles(d)
                     /\ Change(d) \/ ChangeAndSync(d)
                     => DirsKept
           /\ \A d : /\ d.wals \subseteq dir.wals /\ log' = log
                     /\ Change(d) \/ ChangeAndSync(d)
                     => LogKept
           /\ \A g \in Generation : /\ WithWal(dir, g).manifest = dir.manifest
                                    /\ KeepsFiles(WithWal(dir, g))
           /\ \A g : /\ WithoutWal(dir, g).manifest = dir.manifest
                     /\ WithoutWal(dir, g).wals \subseteq dir.wals
                     /\ KeepsFiles(WithoutWal(dir, g))
<1>1. dir \in Directory
    BY Zenon DEF TypeInv, TypeOK, TypeDisk
<1>2. KeepsFiles(dir)
    BY Zenon DEF KeepsFiles
<1>3. UNCHANGED diskVars => DirsKept /\ LogKept
    BY Zenon, <1>2 DEF DirsKept, LogKept, InWal
<1>4. ASSUME NEW d, d.manifest = dir.manifest, KeepsFiles(d), Change(d) \/ ChangeAndSync(d)
      PROVE  DirsKept
    BY Zenon, <1>4 DEF DirsKept, Change, ChangeAndSync
<1>5. ASSUME NEW d, d.wals \subseteq dir.wals, Change(d) \/ ChangeAndSync(d), log' = log
      PROVE  LogKept
    BY Zenon, <1>5 DEF LogKept, InWal, Change, ChangeAndSync
<1>6. /\ \A g \in Generation : WithWal(dir, g).manifest = dir.manifest
      /\ \A g : /\ WithoutWal(dir, g).manifest = dir.manifest
                /\ WithoutWal(dir, g).wals = dir.wals \ {g}
    BY Zenon, <1>1, DirectoryOps
<1>7. \A g : WithWal(dir, g).sst = dir.sst /\ WithoutWal(dir, g).sst = dir.sst
    BY Zenon, <1>1, DirectoryTables
<1>8. \A g : KeepsFiles(WithWal(dir, g)) /\ KeepsFiles(WithoutWal(dir, g))
    BY Zenon, <1>7 DEF KeepsFiles
<1> QED BY Zenon, <1>3, <1>4, <1>5, <1>6, <1>8

\* Steps that leave the disk alone.
LEMMA WaitingKept ==
    ASSUME TypeInv, Waiting
    PROVE  DirsKept /\ LogKept /\ TablesThere
<1> USE DEF Waiting
<1>1. UNCHANGED <<diskVars, memoryVars>>
    BY Zenon DEF Put, Flush, Compact, Close, CloseJoined, Skip, Return, FreezeSkipped,
           FreezeRefused, RotateRefused, PrepareSkipped, PrepareFails, PrepareRefused,
           CompactionRemoveFails, CompactionSyncFails, WorkerStart, Refused, vars
<1>2. worker' = "published" => worker = "published"
    BY Zenon DEF Put, Flush, Compact, Close, CloseJoined, Skip, Proceed, Return, FreezeSkipped,
           FreezeRefused, RotateRefused, PrepareSkipped, PrepareFails, PrepareRefused,
           CompactionRemoveFails, CompactionSyncFails, WorkerStart, Refused, IoError, ReturnError,
           vars
<1>3. pc' = "rotate" => pc = "rotate"
    BY Zenon DEF Put, Begin, Flush, Compact, Close, CloseJoined, Skip, AfterCompaction, AfterFlush,
           Proceed, Return, FreezeSkipped,
           FreezeRefused, RotateRefused, PrepareSkipped, PrepareFails, PrepareRefused,
           CompactionRemoveFails, CompactionSyncFails, WorkerStart, Refused, IoError, ReturnError,
           vars
<1> QED BY Zenon, <1>1, <1>2, <1>3, ChangesKept DEF TablesThere

\* The tables that a flush and a compaction put into the directory.
LEMMA OwnTables ==
    ASSUME TypeInv, ExclusionOK, GenerationsOK, FilesInv
    PROVE  /\ Unpublished =>
                 LET d == WithTable(dir, ImmutableTable)
                 IN  /\ d.manifest = dir.manifest /\ d.wals = dir.wals /\ KeepsFiles(d)
                     /\ d.sst[immutable.generation] = immutable.records
           /\ Merging =>
                 /\ \A t \in compaction.outputs : t.generation \in Generation /\ t.records # {}
                 /\ \A n : /\ RenamedBelow(n).manifest = dir.manifest
                           /\ RenamedBelow(n).wals = dir.wals /\ KeepsFiles(RenamedBelow(n))
                 /\ \A t \in compaction.outputs :
                       RenamedBelow(MaxGeneration + 1).sst[t.generation] = t.records
<1> USE DEF FilesInv
<1>1. dir \in Directory /\ compaction.outputs \in SUBSET Table /\ TypeDisk /\ TypeMemory
    BY Zenon DEF TypeInv, TypeOK, TypeDisk, TypeMemory, CompactionState
<1>2. ASSUME Unpublished
      PROVE  LET d == WithTable(dir, ImmutableTable)
             IN  /\ d.manifest = dir.manifest /\ d.wals = dir.wals /\ KeepsFiles(d)
                 /\ d.sst[immutable.generation] = immutable.records
    <2>1. /\ ImmutableTable \in Table /\ ImmutableTable.generation = immutable.generation
          /\ ImmutableTable.records = immutable.records /\ immutable.records # {}
          /\ immutable.generation \in Generation
        BY Zenon, <1>2, FlushFacts, FileNumbers DEF ImmutableTable, Unpublished, HasImmutable
    <2>2. \A g \in Generation : WithTable(dir, ImmutableTable).sst[g] =
              IF g = immutable.generation THEN immutable.records ELSE dir.sst[g]
        BY <1>1, <2>1, DirectoryTables
    <2> QED BY Zenon, <1>1, <2>1, <2>2, DirectoryOps DEF KeepsFiles
<1>3. ASSUME Merging
      PROVE  /\ \A t \in compaction.outputs : t.generation \in Generation /\ t.records # {}
             /\ \A n : /\ RenamedBelow(n).manifest = dir.manifest
                       /\ RenamedBelow(n).wals = dir.wals /\ KeepsFiles(RenamedBelow(n))
             /\ \A t \in compaction.outputs :
                   RenamedBelow(MaxGeneration + 1).sst[t.generation] = t.records
    <2>1. CompactionEditAccepted
        BY Zenon, <1>3, EditsAccepted
    <2>2. \A t \in compaction.outputs : t.generation \in Generation /\ t.records # {}
        BY Zenon, <1>1, <2>1 DEF CompactionEditAccepted, EditAccepted, ValidateVersion, Apply, Table
    <2>3. ASSUME NEW n
          PROVE  /\ RenamedBelow(n).manifest = dir.manifest
                 /\ RenamedBelow(n).wals = dir.wals /\ KeepsFiles(RenamedBelow(n))
        <3>1. KeepsFiles(RenamedBelow(n))
            BY <1>3, <2>2, RenamedOrigin DEF KeepsFiles
        <3> QED BY Zenon, <1>1, <3>1, RenamedBelowFacts
    <2>4. ASSUME NEW t \in compaction.outputs
          PROVE  RenamedBelow(MaxGeneration + 1).sst[t.generation] = t.records
        <3>1. t.generation \in Generation /\ t.generation < MaxGeneration + 1
            BY <2>2, VersionAssumption DEF Generation
        <3>2. PICK u \in compaction.outputs :
                  /\ u.generation = t.generation
                  /\ RenamedBelow(MaxGeneration + 1).sst[t.generation] = u.records
            BY <1>3, <3>1, RenamedOrigin
        <3> QED BY Zenon, <1>3, <3>2, OwnFileFacts
    <2> QED BY Zenon, <2>2, <2>3, <2>4
<1> QED BY Zenon, <1>2, <1>3

\* Steps of maintenance.
LEMMA MaintenanceKept ==
    ASSUME TypeInv, ExclusionOK, GenerationsOK, FilesInv, state # "down", Trying \/ Noting
    PROVE  DirsKept /\ LogKept /\ TablesThere
<1>1. immutable \in ImmutableGeneration /\ compaction \in CompactionState
    BY Zenon DEF TypeInv, TypeOK, TypeMemory
<1>2. mutable_generation \in Generation
    BY Zenon, MutableGeneration
<1>3. IoError => /\ worker' = "published" => worker = "published"
                 /\ pc' # "rotate"
    BY Zenon DEF IoError, ReturnError
<1>4. ASSUME ~Unpublished, OpenMutableWal \/ OpenMutableWalFails PROVE DirsKept /\ LogKept
    <2>1. CASE UNCHANGED diskVars
        BY Zenon, <2>1, ChangesKept
    <2>2. CASE ~UNCHANGED diskVars
        <3>1. /\ ~wal /\ log' = Created(mutable_generation)
              /\ \/ Change(WithWal(dir, mutable_generation))
                 \/ ChangeAndSync(WithWal(dir, mutable_generation))
            BY Zenon, <1>4, <2>2 DEF OpenMutableWal, OpenMutableWalFails
        <3> QED BY Zenon, <1>2, <1>4, <3>1, ChangesKept DEF LogKept
    <2> QED BY Zenon, <2>1, <2>2
<1>5. CASE FlushTable \/ FlushTableFails
    <2>1. Unpublished /\ log' = log /\ compaction' = compaction
        BY Zenon, <1>5 DEF FlushTable, FlushTableFails, Unpublished
    <2>2. CASE FlushTable
        BY Zenon, <2>1, <2>2, ChangesKept, OwnTables DEF FlushTable, Proceed, TablesThere,
           ChangeAndSync
    <2>3. CASE FlushTableFails
        BY Zenon, <1>3, <2>1, <2>3, ChangesKept, OwnTables DEF FlushTableFails, TablesThere
    <2> QED BY Zenon, <1>5, <2>2, <2>3
<1>6. CASE FlushManifestFails
    <2>1. UNCHANGED <<log, memoryVars>> /\ Unpublished /\ immutable.pending_table
        BY Zenon, <1>6 DEF FlushManifestFails, FlushManifestDue, Unpublished
    <2>2. TablesThere
        BY Zenon, <1>3, <1>6, <2>1 DEF FlushManifestFails, TablesThere
    <2>3. CASE UNCHANGED <<dir, past>>
        BY Zenon, <2>1, <2>2, <2>3, ChangesKept
    <2>4. CASE Change(WithManifest(dir, FlushCandidate))
        <3>1. /\ WithManifest(dir, FlushCandidate).wals = dir.wals
              /\ WithManifest(dir, FlushCandidate).sst = dir.sst
            BY SMTT(30), DirectoryTables, DirectoryOps, FlushFacts, <2>1
               DEF TypeInv, TypeOK, TypeDisk, Unpublished
        <3>2. DirsKept
            BY Zenon, <2>1, <2>4, <3>1 DEF DirsKept, Change, KeepsFiles
        <3> QED BY Zenon, <2>1, <2>2, <2>4, <3>1, <3>2, ChangesKept
    <2> QED BY Zenon, <1>6, <2>3, <2>4 DEF FlushManifestFails
<1>7. CASE FlushRemoveWal \/ FlushRemoveWalFails
    <2>1. ~Unpublished /\ UNCHANGED <<log, compaction>>
        BY Zenon, <1>7 DEF FlushRemoveWal, FlushRemoveWalFails, Unpublished
    <2>2. TablesThere
        BY Zenon, <1>3, <1>7, <2>1 DEF FlushRemoveWal, FlushRemoveWalFails, Proceed, TablesThere
    <2> QED BY Zenon, <1>7, <2>1, <2>2, ChangesKept DEF FlushRemoveWal, FlushRemoveWalFails
<1>8. CASE FlushFinish \/ FlushFinishFails
    <2>1. ~Unpublished /\ (OpenMutableWal \/ OpenMutableWalFails) /\ compaction' = compaction
        BY Zenon, <1>8 DEF FlushFinish, FlushFinishFails, OpenMutableWalFails, Unpublished,
           GenerationsOK
    <2>2. pc' # "rotate"
        BY Zenon, <1>3, <1>8 DEF FlushFinish, FlushFinishFails, OpenMutableWalFails, Proceed,
           AfterFlush
    <2> QED BY Zenon, <1>4, <2>1, <2>2 DEF TablesThere
<1>9. CASE CompactionPublish \/ CompactionPublishFails
    <2>1. Merging /\ log' = log /\ ~Unpublished
        <3>1. CompactionPublishDue /\ log' = log
            BY Zenon, <1>9 DEF CompactionPublish, CompactionPublishFails
        <3> QED BY Zenon, <3>1 DEF CompactionPublishDue, Merging, PublishedOK, FilesInv,
                   ExclusionOK,
                            Unpublished
    <2>2. /\ \A n : /\ RenamedBelow(n).manifest = dir.manifest
                    /\ RenamedBelow(n).wals = dir.wals /\ KeepsFiles(RenamedBelow(n))
          /\ \A t \in compaction.outputs :
                RenamedBelow(MaxGeneration + 1).sst[t.generation] = t.records
        BY Zenon, <2>1, OwnTables
    <2>3. CASE CompactionPublish
        BY Zenon, <2>1, <2>2, <2>3, ChangesKept DEF CompactionPublish, Proceed, TablesThere,
           ChangeAndSync
    <2>4. CASE CompactionPublishFails
        <3>1. TablesThere
            BY Zenon, <1>3, <2>1, <2>4 DEF CompactionPublishFails, TablesThere
        <3>2. CASE ChangeAndSync(RenamedBelow(MaxGeneration + 1))
            BY Zenon, <2>1, <2>2, <3>1, <3>2, ChangesKept
        <3>3. CASE \E n : /\ dir' = RenamedBelow(n)
                          /\ \A e \in past' : e \in past \/ \E m : e = RenamedBelow(m)
            BY Zenon, <2>1, <2>2, <3>1, <3>3 DEF DirsKept, LogKept, InWal
        <3> QED BY Zenon, <2>4, <3>2, <3>3 DEF CompactionPublishFails
    <2> QED BY Zenon, <1>9, <2>3, <2>4
<1>10. CASE CompactionRemove
    <2>1. /\ HasCompaction /\ compaction.version_published /\ log' = log /\ ~Unpublished /\ ~Merging
          /\ compaction.cleanup \in SUBSET Generation
        BY Zenon, <1>1, <1>10 DEF CompactionRemove, CleanupDue, CompactionState, ExclusionOK,
           Unpublished,
                           Merging
    <2>2. TablesThere
        BY Zenon, <1>10, <2>1 DEF CompactionRemove, Proceed, TablesThere
    <2>3. CASE Change(WithoutWal(dir, compaction.stale_wal))
        BY Zenon, <2>1, <2>2, <2>3, ChangesKept
    <2>4. CASE \E g \in compaction.cleanup : Change(WithoutTable(dir, g))
        <3>1. PICK g \in compaction.cleanup : Change(WithoutTable(dir, g))
            BY Zenon, <2>4
        <3>2. /\ WithoutTable(dir, g).manifest = dir.manifest /\ WithoutTable(dir, g).wals = dir.wals
              /\ \A h \in Generation :
                    WithoutTable(dir, g).sst[h] = IF h = g THEN {} ELSE dir.sst[h]
            BY SMTT(30), <2>1, DirectoryTables, DirectoryOps DEF TypeInv, TypeOK, TypeDisk
        <3>3. KeepsFiles(WithoutTable(dir, g))
            BY Zenon, <2>1, <3>2 DEF KeepsFiles
        <3> QED BY Zenon, <2>1, <2>2, <3>1, <3>2, <3>3, ChangesKept
    <2> QED BY Zenon, <1>10, <2>3, <2>4 DEF CompactionRemove
<1>11. CASE CompactionSync
    <2>1. ChangeAndSync(dir) /\ log' = log /\ immutable' = immutable
        BY Zenon, <1>11 DEF CompactionSync
    <2>2. TablesThere
        BY Zenon, <1>1, <1>11, <2>1 DEF CompactionSync, Proceed, TablesThere, CompactionState
    <2>3. KeepsFiles(dir)
        BY Zenon DEF KeepsFiles
    <2> QED BY Zenon, <2>1, <2>2, <2>3, ChangesKept
<1>12. CASE CompactionFinish \/ CompactionFinishFails
    <2>1. /\ ~Unpublished /\ ~Merging
          /\ OpenMutableWal \/ OpenMutableWalFails \/ UNCHANGED diskVars
        BY Zenon, <1>12 DEF CompactionFinish, CompactionFinishFails, CleanupDone, Unpublished,
           Merging,
                     ExclusionOK
    <2>2. pc' # "rotate"
        BY Zenon, <1>3, <1>12 DEF CompactionFinish, CompactionFinishFails, OpenMutableWalFails,
           Proceed,
                           AfterCompaction
    <2> QED BY Zenon, <1>4, <2>1, <2>2, ChangesKept DEF TablesThere
<1>13. CASE WorkerPublish \/ WorkerResume
    <2>1. Unpublished /\ UNCHANGED <<log, compaction>>
        BY Zenon, <1>13 DEF WorkerPublish, WorkerResume, TypeInv, WorkerOK, Unpublished
    <2>2. CASE WorkerPublish
        BY Zenon, <2>1, <2>2, ChangesKept, OwnTables DEF WorkerPublish, TablesThere, ChangeAndSync
    <2>3. CASE WorkerResume
        BY Zenon, <2>1, <2>3, ChangesKept DEF WorkerResume, Begin, TablesThere
    <2> QED BY Zenon, <1>13, <2>2, <2>3
<1> QED BY Zenon, <1>5, <1>6, <1>7, <1>8, <1>9, <1>10, <1>11, <1>12, <1>13 DEF Trying, Noting

\* A write in flight is one that was there, or one that enters.
LEMMA PutArgs ==
    ASSUME Waiting \/ Trying \/ Noting
    PROVE  op' = "put" => \/ status /\ arg'.sync \in SyncModes
                          \/ op = "put" /\ arg' = arg
<1>1. ReturnError \/ IoError \/ Refused => op' # "put"
    BY Zenon DEF ReturnError, IoError, Refused
<1>2. \A p : Proceed(p) => op' = op /\ arg' = arg
    BY Zenon DEF Proceed
<1>3. ASSUME NEW key, NEW deleted, NEW sync \in SyncModes, Put(key, deleted, sync)
      PROVE  status /\ arg'.sync \in SyncModes
    BY Zenon, <1>3 DEF Put
<1>4. CASE Waiting
    BY Zenon, <1>1, <1>2, <1>3, <1>4 DEF Waiting, Flush, Compact, Begin, Close, CloseJoined, Skip,
       Return,
           FreezeSkipped, FreezeRefused, RotateRefused, PrepareSkipped, PrepareFails,
           PrepareRefused, CompactionRemoveFails, CompactionSyncFails, WorkerStart, vars
<1>5. CASE Trying
    BY Zenon, <1>1, <1>5 DEF Trying, FlushTableFails, FlushManifestFails, FlushRemoveWalFails,
           FlushFinishFails, CompactionPublishFails, CompactionFinishFails, OpenMutableWalFails,
           WorkerPublish
<1>6. CASE Noting
    BY Zenon, <1>2, <1>6 DEF Noting, FlushTable, FlushRemoveWal, FlushFinish, CompactionPublish,
           CompactionRemove, CompactionSync, CompactionFinish, WorkerResume, Begin
<1> QED BY Zenon, <1>4, <1>5, <1>6

\* The tables of a flush that publishes its MANIFEST are there.
LEMMA FlushFiles ==
    ASSUME TypeInv, ExclusionOK, DirsOK, state # "down", Unpublished, immutable.pending_table
    PROVE  LET e == WithManifest(dir, FlushCandidate)
           IN  /\ e.manifest = FlushCandidate /\ e.sst = dir.sst /\ e.wals = dir.wals
               /\ FilesOf(e)
<1> DEFINE e == WithManifest(dir, FlushCandidate)
<1>1. dir \in Directory /\ FlushCandidate \in VersionType
    BY Zenon, FlushFacts DEF Unpublished, TypeInv, TypeOK, TypeDisk
<1>2. e.manifest = FlushCandidate /\ e.sst = dir.sst /\ e.wals = dir.wals
    BY SMTT(30), <1>1, DirectoryOps, DirectoryTables
<1>3. FlushCandidate.tables = version.tables \cup {ImmutableTable}
    BY Zenon DEF FlushCandidate, Apply
<1>4. /\ dir.sst[immutable.generation] = immutable.records
      /\ KnownVersion(dir.manifest) /\ FilesOf(dir)
    BY Zenon DEF DirsOK
<1>5. version.tables \subseteq dir.manifest.tables
    BY Zenon, <1>3, <1>4 DEF KnownVersion, ExclusionOK, Unpublished, Pending
<1>6. FilesOf(e)
    BY SMTT(30), <1>2, <1>3, <1>4, <1>5 DEF FilesOf, ImmutableTable
<1> QED BY Zenon, <1>2, <1>6

\* Those steps keep the split of the writes and what the disk holds of it.
LEMMA StillHistory ==
    ASSUME TypeInv, TypeInv', ExclusionOK, GenerationsOK, FilesInv, RunningHistory, Still,
           Waiting \/ Trying \/ Noting,
           \A d \in past \cup {dir}, e \in past' \cup {dir'} : Agree(d, e)
    PROVE  RunningHistory'
<1> USE DEF RunningHistory, FilesInv
<1>1. /\ state # "down" /\ state' # "down"
      /\ UNCHANGED <<version, tables, mutable, mutable_generation, last_sequence, status,
                     written, doubt>>
    BY Zenon DEF Still
<1>2. /\ Unpublished' = Unpublished /\ Merging' = Merging /\ Pending' = Pending
      /\ Unpublished => /\ immutable'.generation = immutable.generation
                        /\ immutable'.records = immutable.records
      /\ Merging => /\ compaction'.inputs = compaction.inputs
                    /\ compaction'.outputs = compaction.outputs
                    /\ compaction'.candidate = compaction.candidate
    BY Zenon, StillPending
<1>3. DirsKept /\ LogKept /\ TablesThere
    BY Zenon, <1>1, WaitingKept, MaintenanceKept
<1>4. Base' = Base
    BY Zenon, <1>1, <1>2 DEF Base
<1>5. HistoryOK'
    BY Zenon, <1>1, PutArgs DEF HistoryOK
<1>6. MemoryOK'
    BY Zenon, <1>1, <1>2, <1>4 DEF MemoryOK, Still
<1>7. CoveredOK'
    BY Zenon, <1>1 DEF CoveredOK
<1>8. LogsOK'
    <2>1. CASE /\ log' = log
               /\ (\E e \in past' \cup {dir'} : mutable_generation \in e.wals) =>
                     InWal(mutable_generation)
        <3>1. InWal(mutable_generation)' => InWal(mutable_generation)
            BY Zenon, <1>1, <2>1 DEF InWal
        <3> QED BY Zenon, <1>1, <1>2, <1>3, <1>4, <2>1, <3>1 DEF LogsOK, TablesThere
    <2>2. CASE ~wal /\ ~Unpublished /\ log' = Created(mutable_generation)
        <3>1. After(written, Base) = {}
            BY Zenon, <1>1, <2>2, Split DEF GenerationsOK
        <3>2. CASE mutable_generation \in dir.wals
            <4>1. log' = log /\ InWal(mutable_generation)
                BY Zenon, <2>2, <3>2 DEF Created, InWal
            <4> QED BY Zenon, <1>1, <1>2, <1>3, <1>4, <2>2, <4>1 DEF LogsOK, TablesThere
        <3>3. CASE mutable_generation \notin dir.wals
            <4>1. mutable_generation \in Generation /\ log \in Log
                BY Zenon, <1>1, MutableGeneration, LogType
            <4>2. log'[mutable_generation].records = {}
                BY Zenon, <2>2, <3>3, <4>1 DEF Created, EmptyWal, Log
            <4>3. pc' = "rotate" => pc = "rotate" /\ log' = log
                BY Zenon, <1>3 DEF TablesThere
            <4> QED BY Zenon, <1>1, <1>2, <1>4, <2>2, <3>1, <4>2, <4>3 DEF LogsOK
        <3> QED BY Zenon, <3>2, <3>3
    <2> QED BY Zenon, <1>3, <2>1, <2>2 DEF LogKept
<1>9. dir \in Directory /\ dir.manifest \in VersionType /\ dir.manifest.tables \in SUBSET Table
    BY Zenon, DirectoryOps, VersionOps DEF TypeInv, TypeOK, TypeDisk
<1>10. KnownVersion(dir.manifest) /\ FilesOf(dir)
    BY Zenon, <1>1 DEF DirsOK
<1>11. ASSUME NEW e \in past' \cup {dir'}, NEW g \in Generation, dir.sst[g] # {}, KeepsFiles(e)
       PROVE  \/ e.sst[g] = dir.sst[g]
              \/ HasCompaction /\ compaction.version_published /\ g \in compaction.cleanup
    BY Zenon, <1>11 DEF KeepsFiles, Agree
<1>12. \A v : KnownVersion(v) => KnownVersion(v)'
    <2>1. Unpublished => FlushCandidate' = FlushCandidate
        BY Zenon, <1>1, <1>2 DEF FlushCandidate, ImmutableTable
    <2>2. Pending => Merging
        BY Zenon DEF Pending, Merging
    <2> QED BY Zenon, <1>1, <1>2, <2>1, <2>2 DEF KnownVersion
<1>13. ASSUME NEW e \in past' \cup {dir'} PROVE KnownVersion(e.manifest) /\ FilesOf(e)
    <2>1. CASE e \in past \cup {dir}
        BY Zenon, <1>1, <2>1 DEF DirsOK
    <2>2. CASE e.manifest = dir.manifest /\ KeepsFiles(e)
        <3> SUFFICES ASSUME NEW t \in dir.manifest.tables PROVE e.sst[t.generation] = t.records
            BY Zenon, <1>10, <2>2 DEF FilesOf
        <3>1. t.generation \in Generation /\ dir.sst[t.generation] = t.records
            BY Zenon, <1>9, <1>10 DEF FilesOf, Table
        <3>2. t.records # {}
            BY Zenon, <1>1, <1>10, KnownVersions DEF ValidateVersion
        <3>3. ~(HasCompaction /\ compaction.version_published /\ t.generation \in compaction.cleanup)
            BY SMTT(30), <1>1 DEF DirsOK, Generations
        <3> QED BY Zenon, <1>11, <2>2, <3>1, <3>2, <3>3
    <2>3. CASE Unpublished /\ immutable.pending_table /\ e = WithManifest(dir, FlushCandidate)
        BY Zenon, <1>1, <2>3, FlushFiles DEF KnownVersion
    <2> QED BY Zenon, <1>3, <2>1, <2>2, <2>3 DEF DirsKept
<1>14. ASSUME Unpublished, immutable'.pending_table \/ worker' = "published"
       PROVE  dir'.sst[immutable.generation] = immutable.records
    <2>1. CASE immutable.pending_table \/ worker = "published"
        <3>1. dir.sst[immutable.generation] = immutable.records /\ immutable.records # {}
            BY Zenon, <1>1, <1>14, <2>1 DEF DirsOK, Unpublished, HasImmutable
        <3>2. immutable.generation \in Generation /\ ~HasCompaction /\ KeepsFiles(dir')
            BY Zenon, <1>3, <1>14, FileNumbers DEF ExclusionOK, Unpublished, DirsKept
        <3> QED BY Zenon, <1>11, <3>1, <3>2
    <2> QED BY Zenon, <1>3, <1>14, <2>1 DEF TablesThere
<1>15. ASSUME Merging, compaction'.published, NEW t \in compaction.outputs
       PROVE  dir'.sst[t.generation] = t.records
    <2>1. CASE compaction.published
        <3>1. dir.sst[t.generation] = t.records
            BY Zenon, <1>1, <1>15, <2>1 DEF DirsOK
        <3>2. /\ t.generation \in Generation /\ t.records # {}
              /\ ~compaction.version_published /\ KeepsFiles(dir')
            BY Zenon, <1>3, <1>15, OwnTables DEF DirsKept, Merging
        <3> QED BY Zenon, <1>11, <3>1, <3>2
    <2> QED BY Zenon, <1>3, <1>15, <2>1 DEF TablesThere
<1>16. ASSUME HasCompaction', compaction'.version_published
       PROVE  /\ compaction'.cleanup \cap Generations(version.tables) = {}
              /\ \A e \in past' \cup {dir'} : e.manifest = version
    <2>1. /\ HasCompaction /\ compaction.version_published
          /\ compaction'.cleanup \subseteq compaction.cleanup
        BY Zenon, <1>16 DEF Still
    <2>2. /\ compaction.cleanup \cap Generations(version.tables) = {}
          /\ \A d \in past \cup {dir} : d.manifest = version
        BY Zenon, <1>1, <2>1 DEF DirsOK
    <2>3. ~Unpublished
        BY Zenon, <2>1 DEF ExclusionOK, Unpublished
    <2> QED BY Zenon, <1>3, <2>1, <2>2, <2>3 DEF DirsKept
<1>17. Merging' => compaction'.cleanup \subseteq compaction'.inputs
    <2>1. Merging => HasCompaction' /\ compaction.cleanup \subseteq compaction.inputs
        BY Zenon, <1>1 DEF DirsOK, Still
    <2> QED BY Zenon, <1>2, <2>1 DEF Still
<1>18. DirsOK'
    <2>1. \A e \in past' \cup {dir'} : KnownVersion(e.manifest)' /\ FilesOf(e)
        BY Zenon, <1>12, <1>13
    <2>2. \A e \in past' \cup {dir'} : (KnownVersion(e.manifest) /\ FilesOf(e))'
        BY Zenon, <2>1 DEF FilesOf
    <2> QED BY Zenon, <1>1, <1>2, <1>14, <1>15, <1>16, <1>17, <2>2 DEF DirsOK
<1> QED BY Zenon, <1>5, <1>6, <1>7, <1>8, <1>18

------------------------------------------------------------------------------
(* Writes *)

\* The next write is behind every other.
LEMMA NewWrite ==
    ASSUME TypeInv, HistoryOK, state # "down",
           NEW r \in Record, r.sequence = last_sequence + 1
    PROVE  /\ r \notin written /\ \A w \in written : w.sequence < r.sequence
           /\ \A lo \in Nat : lo <= last_sequence =>
                 /\ After(written \cup {r}, lo) = After(written, lo) \cup {r}
                 /\ \A hi : Between(written \cup {r}, hi, lo) = Between(written, hi, lo)
                 /\ \A T : Covers(T, lo, written) => Covers(T, lo, written \cup {r})
<1>1. last_sequence \in Nat /\ \A w \in written : w.sequence \in Nat
    BY Zenon, HistoryTypes
<1>2. \A w \in written : w.sequence <= last_sequence
    BY Zenon DEF HistoryOK
<1>3. \A w \in written : w.sequence < r.sequence
    BY SMTT(30), <1>1, <1>2
<1>4. r \notin written
    BY <1>1, <1>2
<1>5. ASSUME NEW lo \in Nat, lo <= last_sequence
      PROVE  /\ After(written \cup {r}, lo) = After(written, lo) \cup {r}
             /\ \A hi : Between(written \cup {r}, hi, lo) = Between(written, hi, lo)
             /\ \A T : Covers(T, lo, written) => Covers(T, lo, written \cup {r})
    <2>1. lo < r.sequence /\ ~(r.sequence <= lo)
        BY <1>1, <1>5
    <2>2. After(written \cup {r}, lo) = After(written, lo) \cup {r}
        BY Zenon, <2>1 DEF After
    <2>3. \A hi : Between(written \cup {r}, hi, lo) = Between(written, hi, lo)
        BY Zenon, <2>1 DEF Between
    <2>4. {w \in written \cup {r} : w.sequence <= lo} = {w \in written : w.sequence <= lo}
        BY Zenon, <2>1
    <2>5. \A T : Covers(T, lo, written) => Covers(T, lo, written \cup {r})
        BY Zenon, <2>4 DEF Covers
    <2> QED BY Zenon, <2>2, <2>3, <2>5
<1> QED BY Zenon, <1>3, <1>4, <1>5

\* Steps that touch neither the directory nor maintenance.
LEMMA SameDirs ==
    ASSUME DirsOK, state # "down", state' # "down",
           UNCHANGED <<dir, past, version, mutable_generation, immutable, compaction, worker>>
    PROVE  DirsOK'
<1>1. Unpublished' = Unpublished /\ Merging' = Merging /\ Pending' = Pending
      /\ HasCompaction' = HasCompaction
    BY Zenon DEF Unpublished, Merging, Pending, HasImmutable, HasCompaction
<1>2. FlushCandidate' = FlushCandidate
    BY Zenon DEF FlushCandidate, ImmutableTable
<1>3. \A d \in past \cup {dir} : (KnownVersion(d.manifest) /\ FilesOf(d))'
    BY Zenon, <1>1, <1>2 DEF DirsOK, KnownVersion, FilesOf
<1> QED BY Zenon, <1>1, <1>3 DEF DirsOK

\* Where a write goes: no compaction is pending, the WAL of the Mutable is there,
\* it holds what the Mutable holds, and the Immutable has another.
LEMMA AppendPlace ==
    ASSUME TypeInv, ExclusionOK, GenerationsOK, DiskOK, FilesInv, RunningHistory,
           pc = "append", wal
    PROVE  /\ state # "down" /\ op = "put" /\ arg.sequence = 0 /\ status /\ doubt = {}
           /\ arg.sync \in SyncModes
           /\ NewRecord \in Record /\ NewRecord.sequence = last_sequence + 1
           /\ mutable_generation \in Generation /\ InWal(mutable_generation)
           /\ Unpublished => /\ immutable.generation \in Generation
                             /\ immutable.generation # mutable_generation
           /\ version.last_sequence <= Base /\ Base <= last_sequence
           /\ log[mutable_generation].records \subseteq written
           /\ written \cap log[mutable_generation].records = After(written, Base)
           /\ Unpublished => log[immutable.generation].records \subseteq written
<1> USE DEF RunningHistory, FilesInv
<1>1. state # "down" /\ op = "put" /\ arg.sequence = 0
    BY Zenon, CallMeansUp DEF TypeInv, CallOK
<1>2. status /\ doubt = {} /\ arg.sync \in SyncModes
    BY Zenon, <1>1 DEF HistoryOK
<1>3. /\ NewRecord \in Record /\ NewRecord.sequence = last_sequence + 1
      /\ mutable_generation \in Generation
    BY Zenon, NewRecordType
<1>4. ~Claimed
    BY Zenon, <1>1 DEF ExclusionOK, Claimed
<1>5. InWal(mutable_generation)
    BY Zenon, <1>1, <1>4 DEF DiskOK, NamesOK, InWal
<1>6. Unpublished => /\ immutable.generation \in Generation
                     /\ immutable.generation # mutable_generation
    BY SMTT(30), <1>1, FileNumbers DEF GenerationsOK
<1>7. version.last_sequence <= Base /\ Base <= last_sequence
    BY Zenon, <1>1, Split
<1>8. /\ log[mutable_generation].records \subseteq written
      /\ written \cap log[mutable_generation].records = After(written, Base)
      /\ Unpublished => log[immutable.generation].records \subseteq written
    BY Zenon, <1>1, <1>2, <1>5 DEF LogsOK
<1> QED BY Zenon, <1>1, <1>2, <1>3, <1>5, <1>6, <1>7, <1>8

\* A write goes to the Mutable and to its WAL.
LEMMA AppendHistory ==
    ASSUME HistorySetting, TypeInv, ExclusionOK, GenerationsOK, DiskOK, FilesInv, RunningHistory,
           Append, wal
    PROVE  RunningHistory'
<1> DEFINE r == NewRecord
           mg == mutable_generation
<1>0. pc = "append"
    BY Zenon DEF Append
<1>1. /\ state # "down" /\ op = "put" /\ arg.sequence = 0 /\ status /\ doubt = {}
      /\ arg.sync \in SyncModes
      /\ r \in Record /\ r.sequence = last_sequence + 1
      /\ mg \in Generation /\ InWal(mg)
      /\ Unpublished => immutable.generation \in Generation /\ immutable.generation # mg
      /\ version.last_sequence <= Base /\ Base <= last_sequence
      /\ log[mg].records \subseteq written
      /\ written \cap log[mg].records = After(written, Base)
      /\ Unpublished => log[immutable.generation].records \subseteq written
    BY Zenon, <1>0, AppendPlace
<1> USE DEF RunningHistory
<1>2. /\ log' = [log EXCEPT ![mg] = [records |-> @.records \cup {r},
                                     synced |-> IF arg.sync THEN r.sequence ELSE @.synced]]
      /\ last_sequence' = r.sequence /\ mutable' = Insert(mutable, r)
      /\ arg' = [arg EXCEPT !.sequence = r.sequence] /\ written' = written \cup {r}
      /\ pc' = AfterAppend(Insert(mutable, r))
      /\ UNCHANGED <<dir, past, state, version, tables, mutable_generation, status, wal, immutable,
                     compaction, worker, op, doubt>>
    BY Zenon DEF Append
<1>3. Unpublished' = Unpublished /\ Base' = Base /\ HasImmutable' = HasImmutable
    BY Zenon, <1>2 DEF Unpublished, HasImmutable, Base
<1>4. /\ version.last_sequence \in Nat /\ Base \in Nat /\ last_sequence \in Nat
      /\ written \in SUBSET Record /\ \A w \in Record : w.sequence \in Nat
    BY Zenon, HistoryTypes
<1>5. version.last_sequence <= last_sequence
    BY SMTT(30), <1>1, <1>4
<1> HIDE DEF r
<1>6. /\ r \notin written /\ \A w \in written : w.sequence < r.sequence
      /\ After(written', Base) = After(written, Base) \cup {r}
      /\ \A lo : /\ Between(written', lo, Base) = Between(written, lo, Base)
                 /\ Between(written', lo, version.last_sequence) =
                       Between(written, lo, version.last_sequence)
      /\ \A T : Covers(T, version.last_sequence, written) =>
                   Covers(T, version.last_sequence, written')
    BY Zenon, <1>1, <1>2, <1>4, <1>5, NewWrite
<1>7. HistoryOK'
    <2>1. Unique(written')
        BY SMTT(30), <1>2, <1>4, <1>6 DEF HistoryOK, Unique
    <2>2. \A w \in written' : w.sequence <= last_sequence'
        BY SMTT(30), <1>1, <1>2, <1>4, <1>6
    <2>3. arg'.sync = arg.sync /\ arg'.sequence = r.sequence /\ r.sequence # 0
        BY SMTT(30), <1>1, <1>2, <1>4 DEF TypeInv, TypeOK, TypeCall, Argument
    <2> QED BY Zenon, <1>1, <1>2, <2>1, <2>2, <2>3 DEF HistoryOK
<1>8. MemoryOK'
    <2>1. After(written, Base) \in SUBSET Record
          /\ \A w \in After(written, Base) : w.sequence < r.sequence
        BY Zenon, <1>4, <1>6 DEF After
    <2>2. mutable' = Newest(After(written', Base))
        BY Zenon, <1>1, <1>2, <1>6, <2>1, InsertNewest DEF MemoryOK
    <2> QED BY Zenon, <1>1, <1>2, <1>3, <1>6, <2>2 DEF MemoryOK
<1>9. LogsOK'
    <2>1. /\ log'[mg].records = log[mg].records \cup {r}
          /\ arg.sync => log'[mg].synced = r.sequence
          /\ \A g \in Generation : g # mg => log'[g] = log[g]
        BY Zenon, <1>1, <1>2, LogType DEF Log
    <2>2. InWal(mutable_generation)' = InWal(mutable_generation)
        BY Zenon, <1>2 DEF InWal
    <2>3. /\ log'[mg].records \subseteq written'
          /\ written' \cap log'[mg].records = After(written', Base)
        BY Zenon, <1>1, <1>2, <1>6, <2>1
    <2>4. ASSUME Unpublished
          PROVE  /\ log'[immutable.generation] = log[immutable.generation]
                 /\ log[immutable.generation].records \subseteq written
                 /\ written' \cap log[immutable.generation].records =
                       Between(written', version.last_sequence, Base)
        BY Zenon, <1>1, <1>2, <1>6, <2>1, <2>4 DEF LogsOK
    <2>5. ASSUME pc' = "rotate" PROVE Synced(log'[mg])
        <3>1. Background
            BY Zenon, <1>2, <2>5 DEF AfterAppend
        <3>2. arg.sync
            BY Zenon, <1>1, <3>1 DEF HistorySetting, TypeInv, TypeOK, TypeCall, Argument
        <3>3. r.sequence <= r.sequence
            BY SMTT(30), <1>1, <1>4
        <3>4. \A w \in log'[mg].records : w.sequence <= r.sequence
            BY SMTT(30), <1>1, <1>4, <1>6, <2>1, <3>3
        <3> QED BY Zenon, <2>1, <3>2, <3>4 DEF Synced
    <2> QED BY Zenon, <1>1, <1>2, <1>3, <2>2, <2>3, <2>4, <2>5 DEF LogsOK
<1>10. DirsOK'
    BY Zenon, <1>1, <1>2, SameDirs
<1>11. CoveredOK'
    BY Zenon, <1>1, <1>2, <1>6 DEF CoveredOK
<1> QED BY Zenon, <1>7, <1>8, <1>9, <1>10, <1>11

\* A failed write may be in the WAL, and no other follows it.
LEMMA AppendFailsHistory ==
    ASSUME TypeInv, ExclusionOK, GenerationsOK, DiskOK, FilesInv, RunningHistory, AppendFails
    PROVE  RunningHistory'
<1> DEFINE r == NewRecord
           mg == mutable_generation
<1>0. pc = "append" /\ wal
    BY Zenon DEF AppendFails
<1>1. /\ state # "down" /\ op = "put" /\ doubt = {}
      /\ r \in Record /\ r.sequence = last_sequence + 1
      /\ mg \in Generation /\ InWal(mg)
      /\ Unpublished => immutable.generation \in Generation /\ immutable.generation # mg
      /\ log[mg].records \subseteq written
      /\ written \cap log[mg].records = After(written, Base)
      /\ Unpublished => log[immutable.generation].records \subseteq written
    BY Zenon, <1>0, AppendPlace
<1>2. /\ last_sequence' = r.sequence /\ status' = FALSE
      /\ \/ log' = log /\ doubt' = doubt
         \/ log' = [log EXCEPT ![mg].records = @ \cup {r}] /\ doubt' = {r}
      /\ op' = "none" /\ pc' = "idle" /\ worker' = worker /\ state' = state
      /\ UNCHANGED <<dir, past, version, tables, mutable, mutable_generation, wal, immutable,
                     compaction, written>>
    BY Zenon, <1>1 DEF AppendFails, ReturnError
<1>3. Unpublished' = Unpublished /\ Base' = Base /\ HasImmutable' = HasImmutable
    BY Zenon, <1>2 DEF Unpublished, HasImmutable, Base
<1>4. version.last_sequence \in Nat /\ last_sequence \in Nat /\ \A w \in written : w.sequence \in Nat
    BY Zenon, HistoryTypes
<1>5. version.last_sequence <= last_sequence
    BY Zenon, <1>1 DEF FilesInv, SequencesOK
<1> USE DEF RunningHistory
<1>6. \A w \in written : w.sequence < r.sequence /\ w # r
    BY Zenon, <1>1, NewWrite
<1> HIDE DEF r
<1>7. doubt' \subseteq {r}
    BY Zenon, <1>1, <1>2
<1>8. HistoryOK'
    <2>1. \A w \in written : w.sequence <= last_sequence'
        BY SMTT(30), <1>1, <1>2, <1>4, <1>6
    <2>2. version.last_sequence < r.sequence /\ r.sequence <= last_sequence'
        BY SMTT(30), <1>1, <1>2, <1>4, <1>5
    <2> QED BY Zenon, <1>1, <1>2, <1>6, <1>7, <2>1, <2>2 DEF HistoryOK
<1>9. MemoryOK'
    BY Zenon, <1>1, <1>2, <1>3 DEF MemoryOK
<1>10. LogsOK'
    <2>1. /\ log'[mg].records \in {log[mg].records, log[mg].records \cup doubt'}
          /\ \A g \in Generation : g # mg => log'[g] = log[g]
        BY SMTT(30), <1>1, <1>2, LogType DEF Log
    <2>2. InWal(mutable_generation)' = InWal(mutable_generation)
        BY Zenon, <1>2 DEF InWal
    <2>3. /\ log'[mg].records \subseteq written \cup doubt'
          /\ written \cap log'[mg].records = After(written, Base)
        BY Zenon, <1>1, <1>6, <1>7, <2>1
    <2>4. Unpublished => log'[immutable.generation] = log[immutable.generation]
        BY Zenon, <1>1, <2>1
    <2> QED BY Zenon, <1>1, <1>2, <1>3, <2>2, <2>3, <2>4 DEF LogsOK
<1>11. DirsOK'
    BY Zenon, <1>1, <1>2, SameDirs
<1>12. CoveredOK'
    BY Zenon, <1>1, <1>2 DEF CoveredOK
<1> QED BY Zenon, <1>8, <1>9, <1>10, <1>11, <1>12

------------------------------------------------------------------------------
(* FreezeMutable *)

\* The Mutable becomes the Immutable, and the next WAL is empty or not there.
LEMMA FreezeHistory ==
    ASSUME TypeInv, ExclusionOK, GenerationsOK, DiskOK, FilesInv, RunningHistory, state # "down",
           Freeze \/ Rotate
    PROVE  RunningHistory'
<1> DEFINE mg == mutable_generation
<1> USE DEF RunningHistory, FilesInv
<1>1. /\ CanFreeze /\ immutable' = FrozenMutable /\ mutable' = {} /\ mutable_generation' = mg + 1
      /\ UNCHANGED <<state, version, last_sequence, status, compaction, worker, op, arg,
                     written, doubt>>
      /\ pc' # "rotate"
    BY Zenon DEF Freeze, Rotate, Proceed
<1>2. \/ UNCHANGED diskVars
      \/ /\ pc = "rotate" /\ log' = Created(mg + 1)
         /\ dir' = WithWal(dir, mg + 1) /\ past' \subseteq past \cup {dir}
    BY Zenon DEF Freeze, Rotate, Change, ChangeAndSync
<1>3. /\ ~HasImmutable /\ mutable # {} /\ wal /\ ~HasCompaction
      /\ mg \in Generation /\ mg + 1 \in Generation
      /\ immutable'.generation = mg /\ immutable'.records = mutable
      /\ ~immutable'.version_published /\ ~immutable'.pending_table
    BY Zenon, <1>1, FrozenFacts DEF CanFreeze, ExclusionOK
<1>4. /\ ~Unpublished /\ Unpublished' /\ Base = version.last_sequence
      /\ Base' = MaximumSequence(mutable) /\ ~HasCompaction' /\ ~Claimed
    BY Zenon, <1>1, <1>3 DEF Unpublished, HasImmutable, HasCompaction, Base, Claimed
<1>5. /\ written \in SUBSET Record /\ version.last_sequence \in Nat
      /\ \A w \in Record : w.sequence \in Nat
    BY Zenon, HistoryTypes
<1>6. /\ After(written, Base) \in SUBSET Record /\ mutable = Newest(After(written, Base))
    BY Zenon, <1>5 DEF After, MemoryOK
<1>7. /\ \A w \in After(written, Base) : w.sequence <= Base'
      /\ Base' \in Nat
      /\ \E w \in After(written, Base) : w.sequence = Base'
    <2>1. mutable \in SUBSET Record
        BY Zenon, HistoryTypes
    <2>2. Base' \in Nat
        BY SMTT(30), <1>4, <2>1, MaximumSequenceOf, VersionAssumption
    <2>3. \E w \in mutable : w.sequence = Base'
        BY Zenon, <1>3, <1>4, <2>1, MaximumSequenceOf
    <2>4. mutable \subseteq After(written, Base)
        BY Zenon, <1>6, NewestOf
    <2> QED BY Zenon, <1>4, <1>5, <1>6, <2>2, <2>3, <2>4, NewestOf
<1>8. version.last_sequence < Base'
    BY Zenon, <1>4, <1>7 DEF After
<1>9. Between(written, version.last_sequence, Base') = After(written, Base)
    BY Zenon, <1>4, <1>7 DEF Between, After
<1>10. After(written, Base') = {}
    <2> SUFFICES ASSUME NEW w \in written, Base' < w.sequence PROVE FALSE
        BY Zenon DEF After
    <2>1. w \in After(written, Base)
        BY SMTT(30), <1>4, <1>5, <1>7, <1>8 DEF After
    <2> QED BY SMTT(30), <1>5, <1>7, <2>1
<1>11. HistoryOK'
    BY Zenon, <1>1 DEF HistoryOK
<1>12. MemoryOK'
    <2>1. Newest({}) = {}
        BY Zenon DEF Newest
    <2> QED BY Zenon, <1>1, <1>3, <1>4, <1>6, <1>9, <1>10, <2>1 DEF MemoryOK
<1>13. mg \in dir.wals /\ mg + 1 \notin dir.wals /\ \A d \in past : mg + 1 \notin d.wals
    <2>1. ~(mg + 1 <= mg)
        BY SMTT(30), <1>3 DEF Generation
    <2> QED BY Zenon, <1>3, <1>4, <2>1 DEF DiskOK, NamesOK
<1>14. LogsOK'
    <2>1. /\ log[mg].records \subseteq written \cup doubt
          /\ written \cap log[mg].records = After(written, Base)
        BY Zenon, <1>13 DEF LogsOK, InWal
    <2>2. log'[mg] = log[mg]
        <3>1. mg # mg + 1
            BY SMTT(30), <1>3 DEF Generation
        <3> QED BY Zenon, <1>2, <1>3, <3>1, LogType DEF Created, Log
    <2>3. ASSUME InWal(mutable_generation)'
          PROVE  /\ log'[mg + 1].records = {}
                 /\ log[mg].records \subseteq written /\ Synced(log[mg])
        <3>1. ~UNCHANGED diskVars
            BY Zenon, <1>1, <1>13, <2>3 DEF InWal
        <3>2. pc = "rotate" /\ log' = Created(mg + 1)
            BY Zenon, <1>2, <3>1
        <3>3. log'[mg + 1] = EmptyWal
            BY Zenon, <1>3, <1>13, <3>2, LogType DEF Created, Log
        <3> QED BY SMTT(30), <3>2, <3>3 DEF EmptyWal, LogsOK
    <2> QED BY Zenon, <1>1, <1>3, <1>4, <1>9, <1>10, <2>1, <2>2, <2>3 DEF LogsOK
<1>15. CoveredOK'
    BY Zenon, <1>1 DEF CoveredOK
<1>16. DirsOK'
    <2>1. worker' # "published"
        BY Zenon, <1>1, <1>3 DEF TypeInv, WorkerOK
    <2>2. \A v : KnownVersion(v) => KnownVersion(v)'
        BY Zenon, <1>1, <1>3, <1>4 DEF KnownVersion, Pending
    <2>3. dir'.manifest = dir.manifest /\ dir'.sst = dir.sst /\ past' \subseteq past \cup {dir}
        <3>1. dir \in Directory
            BY Zenon DEF TypeInv, TypeOK, TypeDisk
        <3>2. /\ WithWal(dir, mg + 1).manifest = dir.manifest
              /\ WithWal(dir, mg + 1).sst = dir.sst
            BY SMTT(30), <1>3, <3>1, DirectoryOps, DirectoryTables
        <3> QED BY Zenon, <1>2, <3>2
    <2>4. \A d \in past' \cup {dir'} : KnownVersion(d.manifest) /\ FilesOf(d)
        BY SMTT(30), <2>3 DEF DirsOK, FilesOf
    <2>5. \A d \in past' \cup {dir'} : (KnownVersion(d.manifest) /\ FilesOf(d))'
        BY Zenon, <2>2, <2>4 DEF FilesOf
    <2> QED BY Zenon, <1>3, <1>4, <2>1, <2>5 DEF DirsOK, Merging
<1> QED BY Zenon, <1>11, <1>12, <1>14, <1>15, <1>16

------------------------------------------------------------------------------
(* The steps that publish or prepare a Version *)

\* The tables of the Immutable are published, and its records with them.
LEMMA FlushManifestHistory ==
    ASSUME TypeInv, ExclusionOK, GenerationsOK, FilesInv, RunningHistory,
           FlushManifest, FlushEditAccepted
    PROVE  RunningHistory'
<1> USE DEF RunningHistory, FilesInv
<1>1. /\ FlushManifestDue /\ dir' = WithManifest(dir, FlushCandidate) /\ past' = {}
      /\ version' = FlushCandidate /\ immutable' = [immutable EXCEPT !.version_published = TRUE]
      /\ pc' = "flush"
      /\ UNCHANGED <<state, log, mutable, mutable_generation, last_sequence, status, compaction,
                     worker, op, arg, written, doubt>>
    BY Zenon DEF FlushManifest, ChangeAndSync, Proceed
<1>2. /\ Unpublished /\ immutable.pending_table /\ state # "down" /\ ~HasCompaction
      /\ HasImmutable
    BY Zenon, <1>1, CallMeansUp DEF FlushManifestDue, Unpublished, ExclusionOK
<1>3. /\ immutable'.records = immutable.records /\ immutable'.version_published
      /\ ~Unpublished' /\ HasImmutable' /\ ~HasCompaction'
    BY Zenon, <1>1, <1>2 DEF Unpublished, HasImmutable, HasCompaction, TypeInv, TypeOK, TypeMemory,
                      ImmutableGeneration
<1>4. KnownVersion(FlushCandidate)
    BY Zenon, <1>2 DEF KnownVersion
<1>5. version'.last_sequence = Base /\ Base' = Base
    BY Zenon, <1>1, <1>2, <1>3, FlushFacts DEF Base
<1>6. /\ version.last_sequence \in Nat /\ Base \in Nat
      /\ \A w \in written : w.sequence \in Nat
      /\ \A q \in doubt : Base < q.sequence
    BY Zenon, <1>2, HistoryTypes, Split
<1>7. HistoryOK'
    BY Zenon, <1>1, <1>2, <1>5, <1>6 DEF HistoryOK
<1>8. MemoryOK'
    <2>1. immutable.records = Newest(Between(written, version.last_sequence, Base))
        BY Zenon, <1>2 DEF MemoryOK
    <2>2. Newest(Between(written, version.last_sequence, Base)) \subseteq
              Newest(Between(written, 0, Base))
        BY <1>6 DEF Newest, Between
    <2> QED BY Zenon, <1>1, <1>2, <1>3, <1>5, <2>1, <2>2 DEF MemoryOK
<1>9. /\ dir'.manifest = FlushCandidate /\ dir'.wals = dir.wals /\ FilesOf(dir')
    BY Zenon, <1>1, <1>2, FlushFiles
<1>10. LogsOK'
    <2>1. InWal(mutable_generation)' => InWal(mutable_generation)
        BY Zenon, <1>1, <1>9 DEF InWal
    <2> QED BY Zenon, <1>1, <1>2, <1>3, <1>5, <2>1 DEF LogsOK
<1>11. CoveredOK'
    BY Zenon, <1>1, <1>2, <1>4, KnownVersions DEF CoveredOK
<1>12. DirsOK'
    <2>1. \A d \in past' \cup {dir'} : (KnownVersion(d.manifest) /\ FilesOf(d))'
        BY Zenon, <1>1, <1>9 DEF KnownVersion, FilesOf
    <2> QED BY Zenon, <1>3, <2>1 DEF DirsOK, Merging
<1> QED BY Zenon, <1>7, <1>8, <1>10, <1>11, <1>12

\* A compaction is planned.
LEMMA PrepareHistory ==
    ASSUME TypeInv, FilesInv, RunningHistory, Prepare
    PROVE  RunningHistory'
<1> USE DEF RunningHistory
<1>1. /\ pc \in {"prepare", "trigger"} /\ mutable = {} /\ ~HasImmutable /\ ~HasCompaction
      /\ compaction' = PreparedCompaction /\ pc' = "compaction"
      /\ UNCHANGED <<state, diskVars, version, mutable, mutable_generation, last_sequence, status,
                     immutable, worker, op, arg, written, doubt>>
    BY Zenon DEF Prepare, MayCompact, PrepareAccepted, Proceed
<1>2. state # "down"
    BY Zenon, <1>1, CallMeansUp
<1>3. /\ compaction'.cleanup = compaction'.inputs /\ compaction'.candidate = NoVersion
      /\ ~compaction'.published /\ ~compaction'.version_published
    BY Zenon, <1>1 DEF PreparedCompaction, NoCompaction
<1>4. /\ ~Unpublished /\ ~Unpublished' /\ ~HasImmutable' /\ Base' = Base
    BY Zenon, <1>1 DEF Unpublished, HasImmutable, Base
<1>5. HistoryOK'
    BY Zenon, <1>1 DEF HistoryOK
<1>6. MemoryOK'
    BY Zenon, <1>1, <1>2, <1>4 DEF MemoryOK
<1>7. LogsOK'
    <2>1. InWal(mutable_generation)' = InWal(mutable_generation)
        BY Zenon, <1>1 DEF InWal
    <2> QED BY Zenon, <1>1, <1>2, <1>4, <2>1 DEF LogsOK
<1>8. CoveredOK'
    BY Zenon, <1>1, <1>2 DEF CoveredOK
<1>9. DirsOK'
    <2>1. \A d \in past \cup {dir} : d.manifest = version /\ FilesOf(d)
        BY Zenon, <1>1, <1>2, <1>4 DEF DirsOK, KnownVersion, Pending
    <2>2. \A d \in past' \cup {dir'} : (KnownVersion(d.manifest) /\ FilesOf(d))'
        BY Zenon, <1>1, <2>1 DEF KnownVersion, FilesOf
    <2> QED BY Zenon, <1>3, <1>4, <2>2 DEF DirsOK
<1> QED BY Zenon, <1>5, <1>6, <1>7, <1>8, <1>9

\* The tables of a compaction that publishes its MANIFEST are there.
LEMMA CandidateFiles ==
    ASSUME TypeInv, ExclusionOK, GenerationsOK, FilesInv, CoveredOK, DirsOK, Merging,
           compaction.outputs = {} \/ compaction.published
    PROVE  LET e == WithManifest(dir, CompactionCandidate)
           IN  /\ e.manifest = CompactionCandidate /\ e.sst = dir.sst /\ e.wals = dir.wals
               /\ FilesOf(e)
<1> DEFINE e == WithManifest(dir, CompactionCandidate)
           kept == {t \in version.tables : t.generation \notin compaction.inputs}
<1>1. CompactionCandidate = Apply(version, compaction.inputs, compaction.outputs,
                                  NumberBehindOutputs, version.last_sequence)
    BY Zenon, CandidateOf DEF FilesInv
<1>2. CompactionCandidate.tables = kept \cup compaction.outputs
      /\ state # "down" /\ ~HasImmutable
    BY Zenon, <1>1, CandidateCovers
<1>3. dir \in Directory /\ CompactionCandidate \in VersionType
    BY Zenon, CandidateFacts DEF Merging, TypeInv, TypeOK, TypeDisk
<1>4. e.manifest = CompactionCandidate /\ e.sst = dir.sst /\ e.wals = dir.wals
    BY SMTT(30), <1>3, DirectoryOps, DirectoryTables
<1>5. FilesOf(dir) /\ KnownVersion(dir.manifest)
    BY Zenon, <1>2 DEF DirsOK
<1>6. kept \subseteq dir.manifest.tables
    <2>1. dir.manifest = version \/ dir.manifest = CompactionCandidate
        BY Zenon, <1>2, <1>5 DEF KnownVersion, Unpublished, Pending, CompactionCandidate
    <2> QED BY Zenon, <1>2, <2>1
<1>7. \A t \in compaction.outputs : dir.sst[t.generation] = t.records
    BY Zenon, <1>2 DEF DirsOK
<1>8. FilesOf(e)
    BY Zenon, <1>2, <1>4, <1>5, <1>6, <1>7 DEF FilesOf
<1> QED BY Zenon, <1>4, <1>8

\* The Version of a compaction is published; what it removes is not in it, and
\* the WAL whose number it took is left.
LEMMA CompactionManifestHistory ==
    ASSUME TypeInv, ExclusionOK, GenerationsOK, CandidateOK, DiskOK, WalsOK, StrictHeld, FilesInv,
           RunningHistory, CompactionManifest,
           compaction.candidate # NoVersion \/ CompactionEditAccepted
    PROVE  RunningHistory'
<1> DEFINE c == CompactionCandidate
           mg == mutable_generation
<1> USE DEF RunningHistory
<1>1. /\ CompactionManifestDue /\ dir' = WithManifest(dir, c) /\ past' = {} /\ version' = c
      /\ compaction' =
            [compaction EXCEPT !.candidate = c, !.version_published = TRUE,
                               !.stale_wal = IF compaction.outputs # {} THEN mg ELSE 0,
                               !.wal_generation_advanced = (compaction.outputs # {})]
      /\ mutable_generation' = IF compaction.outputs # {} THEN c.next_file_number ELSE mg
      /\ pc' = "compaction"
      /\ UNCHANGED <<state, log, mutable, last_sequence, status, immutable, worker, op, arg,
                     written, doubt>>
    BY Zenon DEF CompactionManifest, ChangeAndSync, Proceed
<1>2. Merging /\ (compaction.outputs = {} \/ compaction.published)
    BY Zenon, <1>1 DEF CompactionManifestDue, Merging
<1>3. c = Apply(version, compaction.inputs, compaction.outputs, NumberBehindOutputs,
                version.last_sequence)
    BY Zenon, <1>2, CandidateOf DEF FilesInv
<1>4. /\ ~HasImmutable /\ mutable = {} /\ state # "down"
      /\ Covers(c.tables, version.last_sequence, written)
      /\ c.tables = {t \in version.tables : t.generation \notin compaction.inputs}
                      \cup compaction.outputs
      /\ c.last_sequence = version.last_sequence
    BY Zenon, <1>2, <1>3, CandidateCovers
<1>5. dir'.manifest = c /\ dir'.wals = dir.wals /\ FilesOf(dir')
    BY Zenon, <1>1, <1>2, CandidateFiles
<1>6. compaction.outputs # {} => c.next_file_number > mg
    <2>1. mg = version.next_file_number
        BY Zenon, <1>4 DEF GenerationsOK, Unpublished
    <2> QED BY Zenon, <1>2, <2>1, CandidateFrontiers DEF Merging, RunningInv
<1> HIDE DEF c
<1>7. /\ ~Unpublished /\ ~Unpublished' /\ ~HasImmutable' /\ Base' = Base
      /\ compaction'.version_published /\ compaction'.cleanup = compaction.cleanup
      /\ version'.last_sequence = version.last_sequence
    BY Zenon, <1>1, <1>4 DEF Unpublished, HasImmutable, Base, TypeInv, TypeOK, TypeMemory,
                      CompactionState
<1>8. HistoryOK'
    BY Zenon, <1>1, <1>7 DEF HistoryOK
<1>9. MemoryOK'
    BY Zenon, <1>1, <1>4, <1>7 DEF MemoryOK
<1>10. LogsOK'
    <2>1. CASE compaction.outputs = {}
        <3>1. InWal(mutable_generation)' => InWal(mutable_generation)
            BY Zenon, <1>1, <1>5, <2>1 DEF InWal
        <3> QED BY Zenon, <1>1, <1>4, <1>7, <2>1, <3>1 DEF LogsOK
    <2>2. CASE compaction.outputs # {}
        <3>1. \A g \in dir.wals : g <= mg
            BY Zenon, <1>4 DEF DiskOK, NamesOK
        <3>2. c.next_file_number \in Nat /\ mg \in Nat
            <4>1. c \in VersionType
                BY Zenon, <1>2, CandidateFacts DEF c, Merging
            <4> QED BY SMTT(30), <4>1, FileNumbers, VersionOps, VersionAssumption
        <3>3. ~InWal(mutable_generation)'
            BY SMTT(30), <1>1, <1>5, <1>6, <2>2, <3>1, <3>2 DEF InWal
        <3> QED BY Zenon, <1>1, <1>7, <3>3 DEF LogsOK
    <2> QED BY Zenon, <2>1, <2>2
<1>11. CoveredOK'
    BY Zenon, <1>1, <1>4, <1>7 DEF CoveredOK
<1>12. DirsOK'
    <2>1. compaction.cleanup \cap Generations(c.tables) = {}
        <3>1. /\ compaction.inputs \subseteq Generations(version.tables)
              /\ \A t \in compaction.outputs : t.generation >= version.next_file_number
              /\ \A t \in version.tables : t.generation < version.next_file_number
            BY Zenon, <1>2, EditsAccepted
               DEF FilesInv, CompactionEditAccepted, EditAccepted, ValidateVersion
        <3>2. /\ \A t \in version.tables : t.generation \in Nat
              /\ version.next_file_number \in Nat
            BY SMTT(30), HistoryTypes, VersionOps, FileNumbers DEF Table, Generation
        <3>3. \A g \in compaction.inputs : ~(g >= version.next_file_number)
            BY <3>1, <3>2 DEF Generations
        <3>4. compaction.cleanup \subseteq compaction.inputs
            BY Zenon, <1>2, <1>4 DEF DirsOK
        <3> QED BY Zenon, <1>4, <3>1, <3>3, <3>4 DEF Generations
    <2>2. \A d \in past' \cup {dir'} : (KnownVersion(d.manifest) /\ FilesOf(d))'
        BY Zenon, <1>1, <1>5 DEF KnownVersion, FilesOf
    <2> QED BY Zenon, <1>1, <1>5, <1>7, <2>1, <2>2 DEF DirsOK, Merging
<1> QED BY Zenon, <1>8, <1>9, <1>10, <1>11, <1>12

\* The same when it fails: either Version may be on the disk.
LEMMA CompactionManifestFailsHistory ==
    ASSUME TypeInv, ExclusionOK, GenerationsOK, FilesInv, RunningHistory, CompactionManifestFails
    PROVE  RunningHistory'
<1> DEFINE c == CompactionCandidate
<1> USE DEF RunningHistory
<1>1. /\ CompactionManifestDue /\ compaction' = [compaction EXCEPT !.candidate = c]
      /\ state' = state /\ op' # "put" /\ pc' # "rotate"
      /\ UNCHANGED <<log, version, mutable, mutable_generation, last_sequence, status, immutable,
                     written, doubt>>
    BY Zenon DEF CompactionManifestFails, IoError, ReturnError
<1>2. UNCHANGED <<dir, past>> \/ (dir' = WithManifest(dir, c) /\ past' = past \cup {dir})
    BY Zenon DEF CompactionManifestFails, Change
<1>3. Merging /\ (compaction.outputs = {} \/ compaction.published)
    BY Zenon, <1>1 DEF CompactionManifestDue, Merging
<1>4. c = Apply(version, compaction.inputs, compaction.outputs, NumberBehindOutputs,
                version.last_sequence)
    BY Zenon, <1>3, CandidateOf DEF FilesInv
<1>5. ~HasImmutable /\ state # "down" /\ ValidateVersion(c)
    BY Zenon, <1>3, <1>4, CandidateCovers
<1>6. LET e == WithManifest(dir, c)
      IN  e.manifest = c /\ e.sst = dir.sst /\ e.wals = dir.wals /\ FilesOf(e)
    BY Zenon, <1>3, CandidateFiles
<1>7. Pending => compaction.candidate = c
    BY Zenon DEF Pending, CompactionCandidate
<1> HIDE DEF c
<1>8. c # NoVersion
    BY <1>5 DEF ValidateVersion, NoVersion
<1>9. /\ ~Unpublished /\ ~Unpublished' /\ ~HasImmutable' /\ Base' = Base
      /\ Merging' /\ Pending' /\ compaction'.candidate = c
      /\ compaction'.cleanup = compaction.cleanup /\ compaction'.inputs = compaction.inputs
      /\ compaction'.outputs = compaction.outputs /\ compaction'.published = compaction.published
      /\ ~compaction'.version_published
    BY Zenon, <1>1, <1>3, <1>5, <1>8 DEF Unpublished, HasImmutable, Base, Merging, Pending,
       HasCompaction,
                                  TypeInv, TypeOK, TypeMemory, CompactionState
<1>10. HistoryOK'
    BY Zenon, <1>1 DEF HistoryOK
<1>11. MemoryOK'
    BY Zenon, <1>1, <1>5, <1>9 DEF MemoryOK
<1>12. LogsOK'
    <2>1. InWal(mutable_generation)' => InWal(mutable_generation)
        BY Zenon, <1>1, <1>2, <1>6 DEF InWal
    <2> QED BY Zenon, <1>1, <1>5, <1>9, <2>1 DEF LogsOK
<1>13. CoveredOK'
    BY Zenon, <1>1, <1>5 DEF CoveredOK
<1>14. DirsOK'
    <2>1. \A v : KnownVersion(v) \/ v = c => KnownVersion(v)'
        BY Zenon, <1>1, <1>7, <1>9 DEF KnownVersion
    <2>2. \A d \in past' \cup {dir'} : (KnownVersion(d.manifest) \/ d.manifest = c) /\ FilesOf(d)
        BY Zenon, <1>2, <1>5, <1>6 DEF DirsOK
    <2>3. \A d \in past' \cup {dir'} : (KnownVersion(d.manifest) /\ FilesOf(d))'
        BY Zenon, <2>1, <2>2 DEF FilesOf
    <2>4. dir'.sst = dir.sst
        BY Zenon, <1>2, <1>6
    <2> QED BY Zenon, <1>3, <1>5, <1>9, <2>3, <2>4 DEF DirsOK
<1> QED BY Zenon, <1>10, <1>11, <1>12, <1>13, <1>14

------------------------------------------------------------------------------
(* Steps that end the process or find it gone *)

\* Of every WAL a power failure leaves a prefix.
LEMMA PowerFailureRecovers ==
    ASSUME Ordered, TypeInv, DisksOK, PowerFailure
    PROVE  DisksOK'
<1>1. PICK d \in Survivors :
          /\ dir' = d
          /\ \E cut \in [d.wals -> {0} \cup Sequences(UNION {log[g].records : g \in d.wals})] :
                log' = [g \in Generation |->
                          IF g \notin d.wals THEN EmptyWal
                          ELSE LET kept == {r \in log[g].records :
                                              \/ r.sequence <= cut[g]
                                              \/ r.sequence <= log[g].synced}
                               IN  [records |-> kept, synced |-> MaximumSequence(kept)]]
    BY Zenon DEF PowerFailure
<1>2. PICK cut \in [d.wals -> {0} \cup Sequences(UNION {log[g].records : g \in d.wals})] :
          log' = [g \in Generation |->
                    IF g \notin d.wals THEN EmptyWal
                    ELSE LET kept == {r \in log[g].records :
                                        \/ r.sequence <= cut[g]
                                        \/ r.sequence <= log[g].synced}
                         IN  [records |-> kept, synced |-> MaximumSequence(kept)]]
    BY Zenon, <1>1
<1>3. d \in past \cup {dir} /\ past' = {} /\ UNCHANGED <<written, doubt>>
    BY SMTT(30) DEF Survivors, PowerFailure
<1>4. d.wals \subseteq Generation
    BY Zenon, <1>3, Numbers
<1>5. ASSUME NEW g \in d.wals PROVE Shorter(log'[g], log[g])
    <2> DEFINE kept == {r \in log[g].records :
                           r.sequence <= cut[g] \/ r.sequence <= log[g].synced}
    <2>1. log'[g] = [records |-> kept, synced |-> MaximumSequence(kept)]
        BY Zenon, <1>2, <1>4
    <2>2. /\ log[g].records \in SUBSET Record /\ log[g].synced \in Nat
          /\ \A r \in log[g].records : r.sequence \in Nat
        BY SMTT(30), <1>4, Numbers, HistoryTypes, VersionAssumption
    <2>3. cut[g] \in Nat
        <3>1. \A h \in d.wals : \A r \in log[h].records : r.sequence \in Nat
            BY Zenon, <1>4, Numbers, HistoryTypes
        <3>2. \A n \in Sequences(UNION {log[h].records : h \in d.wals}) : n \in Nat
            BY SMTT(30), <3>1 DEF Sequences
        <3>3. cut[g] \in {0} \cup Sequences(UNION {log[h].records : h \in d.wals})
            BY Zenon, <1>2
        <3> QED BY SMTT(30), <3>2, <3>3
    <2>4. kept \in SUBSET Record
        BY Zenon, <2>2
    <2>5. \A r \in kept : r.sequence <= MaximumSequence(kept)
        BY Zenon, <2>4, MaximumSequenceOf
    <2>6. \A r \in log[g].records, q \in kept : r.sequence <= q.sequence => r \in kept
        BY SMTT(30), <2>2, <2>3
    <2> QED BY SMTT(30), <2>1, <2>5, <2>6 DEF Shorter, Synced
<1>6. RecoverOK(d, log, written, doubt)
    BY Zenon, <1>3 DEF DisksOK
<1>7. written \in SUBSET Record /\ doubt \in SUBSET Record
    BY Zenon, HistoryTypes
<1>8. \A g \in Unmatched(d) : Shorter(log'[g], log[g])
    BY Zenon, <1>5 DEF Unmatched
<1>9. RecoverOK(d, log', written, doubt)
    BY Zenon, <1>6, <1>7, <1>8, ShorterRecovers
<1>10. \A e \in past' \cup {dir'} : RecoverOK(e, log', written', doubt')
    BY Zenon, <1>1, <1>3, <1>9
<1> QED BY Zenon, <1>10 DEF DisksOK

\* Crashes, the end of Close and an Open that fails keep what can be recovered.
LEMMA EndingHistory ==
    ASSUME StrictSetting, TypeInv, RunningInv, StrictDurable, HistoryInv,
           state' = "down", Ending
    PROVE  HistoryInv'
<1>1. UNCHANGED <<written, doubt>>
    BY Zenon DEF Ending, ProcessCrash, PowerFailure, Return, OpenFails, vars
<1>2. RunningHistory'
    BY Zenon, <1>1 DEF HistoryInv, RunningHistory, HistoryOK, MemoryOK, LogsOK, DirsOK, CoveredOK
<1>3. DisksOK /\ RecoverOK(dir, log, written, doubt) /\ dir \in Directory
    BY Zenon DEF HistoryInv, DisksOK, TypeInv, TypeOK, TypeDisk
<1> SUFFICES DisksOK'
    BY Zenon, <1>2 DEF HistoryInv
<1>4. CASE UNCHANGED diskVars
    BY Zenon, <1>1, <1>3, <1>4 DEF DisksOK
<1>5. CASE PowerFailure
    BY Zenon, <1>3, <1>5, PowerFailureRecovers DEF StrictSetting
<1>6. CASE OpenFails
    <2> DEFINE d == Founded(dir)
               cleaned == Cleaned(d, OrphanTables(d), ObsoleteWals(d))
    <2>1. /\ RecoverOK(d, log, written, doubt) /\ d.manifest # NoVersion
          /\ dir.manifest # NoVersion => d = dir
        BY Zenon, <1>3, FoundedRecovers
    <2>2. CASE Change(d) /\ log' = log
        <3>1. \A e \in past' \cup {dir'} : RecoverOK(e, log, written, doubt)
            BY Zenon, <1>3, <2>1, <2>2 DEF Change, DisksOK
        <3>2. \A e \in past' \cup {dir'} : RecoverOK(e, log', written', doubt')
            BY Zenon, <1>1, <2>2, <3>1
        <3> QED BY Zenon, <3>2 DEF DisksOK
    <2>3. CASE /\ dir = d /\ log' = log
               /\ \E dead \in SUBSET OrphanTables(d), wals \in SUBSET ObsoleteWals(d) :
                     /\ dir' = Cleaned(d, dead, wals)
                     /\ past' = past \cup PartlyCleaned(d, dead, wals)
        <3>1. \A s \in SUBSET OrphanTables(d), w \in SUBSET ObsoleteWals(d) :
                  RecoverOK(Cleaned(d, s, w), log, written, doubt)
            <4> HIDE DEF d
            <4> QED BY Zenon, <1>3, <2>1, <2>3, CleanedRecovers
        <3>2. \A e \in past' \cup {dir'} : \/ e \in past
                                           \/ \E s \in SUBSET OrphanTables(d),
                                                 w \in SUBSET ObsoleteWals(d) : e = Cleaned(d, s, w)
            BY <2>3 DEF PartlyCleaned
        <3>3. \A e \in past' \cup {dir'} : RecoverOK(e, log, written, doubt)
            BY Zenon, <1>3, <3>1, <3>2 DEF DisksOK
        <3>4. \A e \in past' \cup {dir'} : RecoverOK(e, log', written', doubt')
            BY Zenon, <1>1, <2>3, <3>3
        <3> QED BY Zenon, <3>4 DEF DisksOK
    <2>4. CASE /\ dir' = Opened(d)
               /\ past' = {cleaned} \cup (IF cleaned = dir THEN past ELSE {})
               /\ log' = Created(ActiveGeneration(d))
        <3>1. /\ RecoverOK(Opened(d), log', written, doubt)
              /\ RecoverOK(cleaned, log', written, doubt)
              /\ cleaned = dir => \A f \in past : RecoverOK(f, log, written, doubt) =>
                                                      RecoverOK(f, log', written, doubt)
            BY Zenon, <1>3, <2>4, OpenedRecovers
        <3> HIDE DEF d, cleaned
        <3>2. \A e \in past' \cup {dir'} : RecoverOK(e, log', written, doubt)
            BY Zenon, <1>3, <2>4, <3>1 DEF DisksOK
        <3>3. \A e \in past' \cup {dir'} : RecoverOK(e, log', written', doubt')
            BY Zenon, <1>1, <3>2
        <3> QED BY Zenon, <3>3 DEF DisksOK
    <2> QED BY Zenon, <1>6, <2>2, <2>3, <2>4 DEF OpenFails
<1>7. ProcessCrash \/ (Return /\ op = "close") \/ UNCHANGED vars => UNCHANGED diskVars
    BY Zenon DEF ProcessCrash, Return, vars
<1> QED BY Zenon, <1>4, <1>5, <1>6, <1>7 DEF Ending

------------------------------------------------------------------------------
(* Open *)

\* What the new process answers for: the writes up to the frontier and those it
\* replayed.
LEMMA OpenWrites ==
    ASSUME TypeInv, RunningInv, StrictDurable, HistoryOK, DisksOK, Open
    PROVE  LET d == Founded(dir)
               v == d.manifest
           IN  /\ HistoryOK' /\ CoveredOK'
               /\ After(written', v.last_sequence) = Replay(d, log)
               /\ RecoverOK(d, log, written, doubt) /\ v # NoVersion
               /\ written' \in SUBSET Record /\ v.last_sequence \in Nat
<1> DEFINE d == Founded(dir)
           v == d.manifest
           last == v.last_sequence
           R == Replay(d, log)
<1>1. /\ state = "down" /\ state' = "running" /\ version' = v
      /\ last_sequence' \in Nat /\ last_sequence' >= last
      /\ \A r \in R : r.sequence <= last_sequence'
      /\ R # {} => \E r \in R : r.sequence = last_sequence'
      /\ R = {} => last_sequence' = last
    BY Zenon, OpenedMemory
<1>2. /\ written' = {w \in written \cup doubt : w.sequence <= last_sequence'}
      /\ doubt' = {} /\ op' = op
    BY Zenon DEF Open
<1>3. RecoverOK(d, log, written, doubt) /\ v # NoVersion
    BY Zenon, FoundedRecovers DEF DisksOK, TypeInv, TypeOK, TypeDisk
<1>4. OpenAccepts(dir, log)
    BY Zenon DEF Open
<1>5. v \in VersionType /\ \A r \in R : r.sequence > last
    BY Zenon, <1>4, OpenedDirectory
<1>6. last \in Nat
    BY SMTT(30), <1>5, VersionOps, VersionAssumption
<1>7. /\ written \cup doubt \in SUBSET Record /\ \A r \in written \cup doubt : r.sequence \in Nat
    BY Zenon, HistoryTypes
<1>8. R \subseteq written \cup doubt /\ \A q \in doubt : q.sequence > last
    BY Zenon, <1>3 DEF RecoverOK
<1>9. \A w \in written \cup doubt, r \in R :
          last < w.sequence /\ w.sequence <= r.sequence => w \in R
    BY Zenon, <1>3 DEF RecoverOK
<1>10. Covers(v.tables, last, written)
    BY Zenon, <1>3 DEF RecoverOK
<1>11. op = "none"
    BY Zenon, <1>1 DEF TypeInv, DownIsEmpty
<1> HIDE DEF d, v, last, R
<1>12. After(written', last) = R
    <2>1. ASSUME NEW w \in written', last < w.sequence PROVE w \in R
        <3>1. R # {}
            BY SMTT(30), <1>1, <1>2, <1>6, <1>7, <2>1
        <3> QED BY Zenon, <1>1, <1>2, <1>9, <2>1, <3>1
    <2>2. ASSUME NEW r \in R PROVE r \in written' /\ last < r.sequence
        BY Zenon, <1>1, <1>2, <1>5, <1>6, <1>7, <1>8
    <2> QED BY Zenon, <2>1, <2>2 DEF After
<1>13. HistoryOK'
    <2>1. Unique(written')
        BY <1>2, <1>7 DEF HistoryOK, Unique
    <2> QED BY Zenon, <1>1, <1>2, <1>11, <2>1 DEF HistoryOK
<1>14. CoveredOK'
    <2>1. {w \in written' : w.sequence <= last} = {w \in written : w.sequence <= last}
        BY SMTT(30), <1>1, <1>2, <1>6, <1>7, <1>8
    <2>2. Covers(v.tables, last, written')
        BY Zenon, <1>10, <2>1 DEF Covers
    <2> QED BY Zenon, <1>1, <2>2 DEF CoveredOK, last
<1>15. written' \in SUBSET Record
    BY Zenon, <1>2, <1>7
<1> QED BY Zenon, <1>3, <1>6, <1>12, <1>13, <1>14, <1>15 DEF d, v, last, R

\* With two WALs, the first is the Immutable's and the second the Mutable's.
LEMMA OpenTwoWals ==
    ASSUME TypeInv, RunningInv, StrictDurable, HistoryOK, DisksOK, Open,
           Founded(dir).manifest.next_file_number + 1 \in Unmatched(Founded(dir))
    PROVE  MemoryOK' /\ LogsOK'
<1> DEFINE d == Founded(dir)
           next == d.manifest.next_file_number
           last == d.manifest.last_sequence
           first == log[next].records
           second == log[next + 1].records
<1>1. /\ version' = d.manifest /\ mutable_generation' = ActiveGeneration(d)
      /\ immutable'.generation = next /\ immutable'.records = Newest(first)
      /\ ~immutable'.version_published /\ mutable' = Newest(second)
    BY Zenon, OpenedMemory
<1>2. /\ OpenAccepts(dir, log) /\ log' = Created(ActiveGeneration(d))
      /\ pc' = pc /\ state = "down"
    BY Zenon DEF Open
<1>3. /\ Unmatched(d) = {next, next + 1} /\ first # {} /\ next \in Nat
      /\ \A r \in first, q \in second : r.sequence < q.sequence
      /\ \A r \in Replay(d, log) : r.sequence > last
    BY Zenon, <1>2, OpenedDirectory
<1>4. /\ After(written', last) = Replay(d, log) /\ written' \in SUBSET Record /\ last \in Nat
      /\ RecoverOK(d, log, written, doubt)
    BY Zenon, OpenWrites
<1>5. \A r : r \in Replay(d, log) <=> r \in first \/ r \in second
    <2>1. \A r : r \in Replay(d, log) <=> \E g \in Unmatched(d) : r \in log[g].records
        BY Zenon, ReplayOf
    <2> HIDE DEF d, next
    <2> QED BY Zenon, <1>3, <2>1
<1>6. Synced(log[next])
    BY Zenon, <1>3, <1>4 DEF RecoverOK
<1>7. ActiveGeneration(d) = next + 1 /\ next + 1 \in dir.wals
    BY Zenon, <1>2, Accepted, OpenFacts DEF Unmatched, TypeInv, TypeOK, TypeDisk
<1>8. log' = log /\ mutable_generation' = next + 1
    BY Zenon, <1>1, <1>2, <1>7 DEF Created
<1>9. pc' = "idle"
    BY Zenon, <1>2 DEF TypeInv, DownIsEmpty, CallOK
<1> HIDE DEF d, next, last, first, second
<1>10. first \subseteq After(written', last) /\ second \subseteq After(written', last)
    BY Zenon, <1>4, <1>5
<1>11. /\ first \in SUBSET Record /\ second \in SUBSET Record
       /\ \A r \in Record : r.sequence \in Nat
    BY Zenon, <1>4, <1>10, HistoryTypes DEF After
<1>12. Newest(first) \in SUBSET first /\ Newest(first) # {}
    BY Zenon, <1>3, <1>11, NewestOf
<1>13. Unpublished' /\ Base' = MaximumSequence(Newest(first))
    BY Zenon, <1>1, <1>12 DEF Unpublished, HasImmutable, Base
<1>14. /\ Base' \in Nat /\ \A r \in first : r.sequence <= Base'
       /\ \E r \in first : r.sequence = Base'
    <2>1. Newest(first) \in SUBSET Record
        BY Zenon, <1>11, <1>12
    <2> QED BY SMTT(30), <1>11, <1>12, <1>13, <2>1, NewestOf, MaximumSequenceOf, VersionAssumption
<1>15. PICK top \in first : top.sequence = Base'
    BY Zenon, <1>14
<1>16. last < Base'
    BY Zenon, <1>10, <1>15 DEF After
<1>17. Between(written', last, Base') = first
    <2>1. ASSUME NEW w \in written', last < w.sequence, w.sequence <= Base' PROVE w \in first
        <3>1. w \in first \/ w \in second
            BY Zenon, <1>4, <1>5, <2>1 DEF After
        <3>2. w \notin second
            BY SMTT(30), <1>3, <1>4, <1>11, <1>14, <1>15, <2>1
        <3> QED BY Zenon, <3>1, <3>2
    <2> QED BY Zenon, <1>10, <1>14, <2>1 DEF Between, After
<1>18. After(written', Base') = second
    <2>1. ASSUME NEW w \in written', Base' < w.sequence PROVE w \in second
        <3>1. last < w.sequence /\ w \notin first
            BY SMTT(30), <1>4, <1>11, <1>14, <1>16, <2>1
        <3> QED BY Zenon, <1>4, <1>5, <2>1, <3>1 DEF After
    <2>2. \A q \in second : Base' < q.sequence /\ q \in written'
        BY Zenon, <1>3, <1>10, <1>15 DEF After
    <2> QED BY Zenon, <2>1, <2>2 DEF After
<1>19. version'.last_sequence = last
    BY Zenon, <1>1 DEF last
<1>20. MemoryOK'
    BY Zenon, <1>1, <1>13, <1>17, <1>18, <1>19 DEF MemoryOK, Unpublished
<1>21. LogsOK'
    <2>1. /\ log'[mutable_generation'].records = second
          /\ log'[immutable'.generation].records = first
          /\ Synced(log'[immutable'.generation])
        BY Zenon, <1>1, <1>6, <1>8 DEF first, second
    <2>2. first \subseteq written' /\ second \subseteq written'
        BY Zenon, <1>10 DEF After
    <2> QED BY Zenon, <1>9, <1>17, <1>18, <1>19, <2>1, <2>2 DEF LogsOK
<1> QED BY Zenon, <1>20, <1>21

\* With one WAL or none, what is replayed is the Mutable's.
LEMMA OpenOneWal ==
    ASSUME TypeInv, RunningInv, StrictDurable, HistoryOK, DisksOK, Open,
           Founded(dir).manifest.next_file_number + 1 \notin Unmatched(Founded(dir))
    PROVE  MemoryOK' /\ LogsOK'
<1> DEFINE d == Founded(dir)
           next == d.manifest.next_file_number
           last == d.manifest.last_sequence
           R == Replay(d, log)
<1>1. /\ version' = d.manifest /\ mutable_generation' = ActiveGeneration(d)
      /\ immutable' = NoImmutable
      /\ next \in Unmatched(d) => mutable' = Newest(log[next].records)
      /\ next \notin Unmatched(d) => mutable' = {}
    BY Zenon, OpenedMemory
<1>2. /\ OpenAccepts(dir, log) /\ log' = Created(ActiveGeneration(d))
      /\ pc' = pc /\ state = "down"
    BY Zenon DEF Open
<1>3. Unmatched(d) \subseteq {next} /\ next \in Nat
    BY Zenon, <1>2, OpenedDirectory
<1>4. After(written', last) = R
    BY Zenon, OpenWrites
<1>5. /\ next \in Unmatched(d) => R = log[next].records
      /\ next \notin Unmatched(d) => R = {}
    <2>1. \A r : r \in R <=> \E g \in Unmatched(d) : r \in log[g].records
        BY Zenon, ReplayOf
    <2> HIDE DEF d, next, R
    <2> QED BY Zenon, <1>3, <2>1
<1>6. ActiveGeneration(d) = next /\ next \in Generation /\ d.wals = dir.wals
    BY Zenon, <1>2, Accepted, OpenFacts DEF TypeInv, TypeOK, TypeDisk
<1>7. next \in dir.wals <=> next \in Unmatched(d)
    BY SMTT(30), <1>3, <1>6 DEF Unmatched
<1>8. log'[mutable_generation'].records = R
    BY Zenon, <1>1, <1>2, <1>5, <1>6, <1>7, LogType DEF Created, Log, EmptyWal
<1>9. pc' = "idle"
    BY Zenon, <1>2 DEF TypeInv, DownIsEmpty, CallOK
<1>10. mutable' = Newest(R)
    <2>1. Newest({}) = {}
        BY Zenon DEF Newest
    <2> QED BY Zenon, <1>1, <1>5, <2>1
<1> HIDE DEF d, next, last, R
<1>11. ~HasImmutable' /\ ~Unpublished' /\ Base' = last
    BY Zenon, <1>1 DEF HasImmutable, Unpublished, NoImmutable, Base, last
<1>12. R \subseteq written'
    BY Zenon, <1>4 DEF After
<1>13. MemoryOK'
    BY Zenon, <1>4, <1>10, <1>11 DEF MemoryOK
<1>14. LogsOK'
    BY Zenon, <1>4, <1>8, <1>9, <1>11, <1>12 DEF LogsOK
<1> QED BY Zenon, <1>13, <1>14

\* Open splits what it replayed as the process that died had split it.
LEMMA OpenHistory ==
    ASSUME TypeInv, RunningInv, StrictDurable, HistoryOK, DisksOK, Open
    PROVE  RunningHistory'
<1> DEFINE d == Founded(dir)
<1>1. HistoryOK' /\ CoveredOK' /\ RecoverOK(d, log, written, doubt) /\ d.manifest # NoVersion
    BY Zenon, OpenWrites
<1>2. MemoryOK' /\ LogsOK'
    BY Zenon, OpenTwoWals, OpenOneWal
<1>3. DirsOK'
    <2>1. /\ version' = d.manifest /\ dir' = Opened(d) /\ past' = {}
          /\ compaction' = NoCompaction /\ state = "down"
        BY Zenon, OpenedMemory
    <2>2. worker' = "idle" /\ ~immutable'.pending_table
        <3>1. worker' = worker /\ worker = "idle"
            BY Zenon, <2>1 DEF Open, TypeInv, DownIsEmpty
        <3>2. ~immutable'.pending_table
            BY Zenon DEF Open, NoImmutable
        <3> QED BY Zenon, <3>1, <3>2
    <2>3. dir \in Directory /\ OpenAccepts(dir, log)
        BY Zenon DEF Open, TypeInv, TypeOK, TypeDisk
    <2>4. d \in Directory
        BY Zenon, <2>3, OpenFacts
    <2>5. LET e == Cleaned(d, OrphanTables(d), ObsoleteWals(d))
          IN  /\ e.manifest = d.manifest /\ e \in Directory
              /\ \A t \in d.manifest.tables : e.sst[t.generation] = d.sst[t.generation]
        BY SMTT(30), <1>1, <2>4, CleanedRecovers
    <2>6. \A t \in d.manifest.tables : d.sst[t.generation] = t.records
        BY Zenon, <1>1 DEF RecoverOK, OpenAccepts
    <2>7. Opened(d).manifest = d.manifest
        BY ZenonT(30), <2>3, OpenFacts
    <2>8. FilesOf(Opened(d))
        <3> DEFINE e == Cleaned(d, OrphanTables(d), ObsoleteWals(d))
        <3>1. /\ e.manifest = d.manifest /\ e \in Directory
              /\ \A t \in d.manifest.tables : e.sst[t.generation] = d.sst[t.generation]
            BY Zenon, <2>5
        <3>2. Opened(d).sst = e.sst
            BY Zenon, <3>1, DirectoryTables DEF Opened
        <3> HIDE DEF d, e
        <3> QED BY Zenon, <2>6, <2>7, <3>1, <3>2 DEF FilesOf
    <2> HIDE DEF d
    <2>9. \A e \in past' \cup {dir'} : (KnownVersion(e.manifest) /\ FilesOf(e))'
        BY Zenon, <2>1, <2>7, <2>8 DEF KnownVersion, FilesOf
    <2> QED BY Zenon, <2>1, <2>2, <2>9 DEF DirsOK, Merging, HasCompaction, NoCompaction
<1> QED BY Zenon, <1>1, <1>2, <1>3 DEF RunningHistory
==============================================================================
