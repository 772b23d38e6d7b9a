------------------------- MODULE DatabaseCorrectness -------------------------
(***************************************************************************)
(* The theorems about module Database, for every value of its constants.   *)
(*                                                                         *)
(* The four invariants are put together: each one holds in every state     *)
(* because those before it do, and the properties follow from them.        *)
(***************************************************************************)
EXTENDS DatabaseTypes, DatabaseDurability, DatabaseHistory

USE DEF diskVars, memoryVars, allButImmutable, allButCompaction, workerVars, callVars,
        historyVars, boundVars

------------------------------------------------------------------------------
(* The invariants hold in every state *)

\* Types and durability hold in every state.
LEMMA DurableAlways ==
    ASSUME StrictSetting
    PROVE  Spec => [](TypeInv /\ DurableInv)
<1>1. Init => DurableInv
    BY Zenon, InitDurable
<1>2. TypeInv /\ TypeInv' /\ DurableInv /\ [Next]_vars => DurableInv'
    BY ZenonT(30), NextDurable
<1> QED BY <1>1, <1>2, TypeInvariant, PTL DEF Spec

\* FilesInv holds in every state.
LEMMA FilesAlways ==
    ASSUME StrictSetting
    PROVE  Spec => [](TypeInv /\ DurableInv /\ FilesInv)
BY InitFiles, NextFiles, DurableAlways, PTL DEF Spec

\* Every step keeps HistoryInv.
LEMMA NextHistory ==
    ASSUME HistorySetting, TypeInv, TypeInv', DurableInv, DurableInv', FilesInv, FilesInv',
           HistoryInv, [Next]_vars
    PROVE  HistoryInv'
<1> USE DEF DurableInv, HistoryInv
<1>1. \A d \in past \cup {dir}, e \in past' \cup {dir'} : Agree(d, e)
    BY Zenon, NextFilesAgree DEF FilesInv
<1>2. CASE state' = "down" /\ Ending
    BY Zenon, <1>2, EndingHistory DEF HistorySetting
<1>3. ASSUME RunningHistory', state' # "down" PROVE HistoryInv'
    BY Zenon, <1>3, RunningRecoversNext DEF UpRecovers
<1>4. CASE Open
    <2>1. state' # "down"
        BY Zenon, <1>4 DEF Open
    <2> QED BY Zenon, <1>3, <1>4, <2>1, OpenHistory DEF RunningHistory
<1>5. CASE Still /\ (Waiting \/ Trying \/ Noting)
    BY Zenon, <1>1, <1>3, <1>5, StillHistory DEF RunningInv, Still
<1>6. CASE state # "down" /\ Turning
    <2>1. state' = state
        BY Zenon, <1>6 DEF Turning, Append, AppendFails, ReturnError, Freeze, Rotate, FlushManifest,
                    Prepare, CompactionManifest, CompactionManifestFails, IoError, Proceed
    <2>2. RunningHistory'
        BY Zenon, <1>6, AppendHistory, AppendFailsHistory, FreezeHistory, FlushManifestHistory,
           PrepareHistory, CompactionManifestHistory, CompactionManifestFailsHistory
           DEF Turning, RunningInv
    <2> QED BY Zenon, <1>3, <1>6, <2>1, <2>2
<1> QED BY Zenon, <1>2, <1>4, <1>5, <1>6, StepKinds DEF RunningInv

\* HistoryInv holds in every state.
LEMMA HistoryAlways ==
    ASSUME HistorySetting
    PROVE  Spec => [](TypeInv /\ DurableInv /\ FilesInv /\ HistoryInv)
<1>1. StrictSetting
    BY Zenon DEF HistorySetting
<1>2. Spec => [](TypeInv /\ DurableInv /\ FilesInv)
    BY Zenon, <1>1, FilesAlways
<1>3. Init => HistoryInv
    BY Zenon, InitHistory
<1>4. /\ TypeInv /\ DurableInv /\ FilesInv /\ HistoryInv /\ [Next]_vars
      /\ (TypeInv /\ DurableInv /\ FilesInv)'
      => HistoryInv'
    BY Zenon, NextHistory
<1> QED BY <1>2, <1>3, <1>4, PTL DEF Spec

------------------------------------------------------------------------------
(* The theorems *)

\* While directory changes reach the disk in order, and Compact() is not called in
\* background mode, no crash, power failure or failing system call loses a kSync
\* write that returned Ok: every directory that may survive covers it by its
\* MANIFEST or has it durable in a WAL that Open replays.
THEOREM StrictDurability ==
    ASSUME StrictSetting
    PROVE  Spec => []AckedDurable
<1>1. DurableInv => AckedDurable
    <2> SUFFICES ASSUME DurableInv, NEW d \in Survivors, NEW r \in acked PROVE Recoverable(d, r)
        BY Zenon DEF AckedDurable
    <2>1. d \in past \cup {dir} /\ r \in Strict
        BY DEF StrictSetting, Survivors, Strict
    <2> QED BY Zenon, <2>1 DEF DurableInv, StrictDurable
<1> QED BY <1>1, DurableAlways, PTL

\* Version::Apply accepts the edit of every flush and of every compaction that is
\* due, whatever failed before it: an edit adds the file at the frontier, moves
\* both frontiers forward and leaves the L1 ranges apart.
THEOREM EditsNeverRefused ==
    ASSUME StrictSetting
    PROVE  Spec => []PendingEditAccepted
<1>1. TypeInv /\ DurableInv /\ FilesInv => PendingEditAccepted
    <2> SUFFICES ASSUME TypeInv, DurableInv, FilesInv PROVE PendingEditAccepted
        BY Zenon
    <2>1. /\ Unpublished => FlushEditAccepted
          /\ Merging => CompactionEditAccepted
        BY Zenon, EditsAccepted DEF DurableInv, RunningInv, FilesInv
    <2> QED BY Zenon, <2>1 DEF PendingEditAccepted, FlushManifestDue, CompactionManifestDue,
                        Unpublished, Merging
<1> QED BY <1>1, FilesAlways, PTL

\* A table file never changes its content: a file number is taken once, and a
\* flush or a compaction that is tried again, in this process or in the next,
\* writes what it wrote before.
THEOREM TablesKept ==
    ASSUME StrictSetting
    PROVE  Spec => FileNumbersKept
<1>1. TypeInv /\ DurableInv /\ FilesInv /\ [Next]_vars =>
          [\A g \in Generation :
              dir.sst[g] # {} /\ dir'.sst[g] # {} => dir'.sst[g] = dir.sst[g]]_vars
    BY Zenon, NextFilesAgree DEF FilesInv, Agree
<1> QED BY <1>1, FilesAlways, PTL DEF Spec, FileNumbersKept

\* Get returns the last write of its key that the database answers for, across
\* rotation, flush, compaction, failed maintenance, crashes and recovery.
THEOREM ReadsAreRight ==
    ASSUME HistorySetting
    PROVE  Spec => []ReadsMatchHistory
BY MemoryReads, HistoryAlways, PTL

\* Whatever MANIFEST a power failure leaves, its tables answer for exactly the
\* writes up to its frontier: a flush publishes all of them, and a compaction
\* drops no record that decides.
THEOREM FrontierComplete ==
    ASSUME HistorySetting
    PROVE  Spec => []FrontierIsComplete
<1>1. HistoryInv => FrontierIsComplete
    BY Zenon, DiskCovers DEF HistorySetting, StrictSetting
<1> QED BY <1>1, HistoryAlways, PTL

\* The database can be opened again after every crash: Open finds the tables of
\* the MANIFEST, at most two WALs behind each other, and no record that the tables
\* already hold.
THEOREM DatabaseReopens ==
    ASSUME HistorySetting
    PROVE  Spec => []DirectoryOpens
<1>1. TypeInv /\ HistoryInv => DirectoryOpens
    BY Zenon, DiskOpens DEF HistorySetting, StrictSetting
<1> QED BY <1>1, HistoryAlways, PTL
==============================================================================
