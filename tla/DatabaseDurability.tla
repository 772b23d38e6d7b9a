------------------------- MODULE DatabaseDurability --------------------------
(***************************************************************************)
(* Every step of module Database keeps DurableInv, the invariant behind    *)
(* the durability of strict writes (the theorem, StrictDurability, is in   *)
(* module DatabaseCorrectness).                                            *)
(*                                                                         *)
(* AckedDurable speaks of the disk alone and is not inductive: a flush     *)
(* unlinks a WAL because memory says that the MANIFEST covers it. The      *)
(* invariant says where memory holds every strict write, which file        *)
(* numbers the Immutable, the Mutable and the frontier have, and what      *)
(* every directory that may survive has to do with them. ContinueFlush,    *)
(* ContinueCompaction and the failures inside them keep it, because what   *)
(* they publish covers what they unlink, in every directory that may       *)
(* survive. After a crash the disk alone holds every strict write, and     *)
(* Open puts back into memory what the invariant of a running process asks *)
(* for.                                                                    *)
(***************************************************************************)
EXTENDS DatabaseFacts

USE DEF diskVars, memoryVars, allButImmutable, allButCompaction, workerVars, callVars,
        historyVars, boundVars

------------------------------------------------------------------------------
(* From memory to the disk *)

\* Where a strict write is, with the types of its numbers.
LEMMA HeldOf ==
    ASSUME TypeInv, RunningInv, state # "down", NEW q \in Strict
    PROVE  /\ Held(q) /\ q.sequence \in Nat /\ last_sequence \in Nat
           /\ q.sequence <= last_sequence
<1>1. Held(q)
    BY Zenon DEF RunningInv, StrictHeld
<1>2. q \in Record
    BY Zenon, Numbers
<1>3. q.sequence \in Nat /\ last_sequence \in Nat
    <2>1. q.sequence \in 1 .. MaxSequence /\ last_sequence \in 0 .. MaxSequence
        BY Zenon, <1>2, Numbers
    <2> QED BY <2>1, VersionAssumption
<1> QED BY Zenon, <1>1, <1>3 DEF Held

\* While the process runs, every strict write is in every directory that may
\* survive: covered by its MANIFEST, or durable in a WAL that Open replays.
LEMMA HeldIsDurable ==
    ASSUME TypeInv, ExclusionOK, RunningInv, state # "down"
    PROVE  StrictDurable
<1> SUFFICES ASSUME NEW d \in past \cup {dir}, NEW r \in Strict PROVE Recoverable(d, r)
    BY Zenon DEF StrictDurable
<1> DEFINE m == d.manifest
<1>1. NamesOK(m, d.wals) /\ Held(r)
    BY Zenon DEF RunningInv, DiskOK, StrictHeld
<1>2. /\ r.sequence \in 1 .. MaxSequence
      /\ m.next_file_number \in 0 .. MaxGeneration /\ m.last_sequence \in 0 .. MaxSequence
      /\ version.next_file_number \in 0 .. MaxGeneration
      /\ version.last_sequence \in 0 .. MaxSequence
      /\ mutable_generation \in 0 .. MaxGeneration
    BY Zenon, Numbers
<1>3. ASSUME NEW g \in d.wals, g >= m.next_file_number, r \in log[g].records,
             r.sequence <= log[g].synced
      PROVE  Recoverable(d, r)
    BY Zenon, <1>3 DEF Recoverable, Unmatched
<1>4. m.last_sequence >= version.last_sequence
    BY <1>1, <1>2 DEF NamesOK, KnownManifest, RunningInv, CandidateOK
<1>5. CASE r.sequence <= version.last_sequence
    BY <1>2, <1>4, <1>5 DEF Recoverable
<1>6. CASE /\ Unpublished
           /\ r.sequence <= MaximumSequence(immutable.records)
           /\ r \in log[immutable.generation].records
           /\ r.sequence <= log[immutable.generation].synced
    <2>1. ~Pending
        BY Zenon, <1>6 DEF ExclusionOK, Pending, Unpublished
    <2>2. CASE m.next_file_number = version.next_file_number
        <3>1. immutable.generation \in d.wals
            BY Zenon, <1>1, <1>6, <2>2 DEF NamesOK
        <3>2. immutable.generation = m.next_file_number
            BY Zenon, <1>6, <2>2 DEF RunningInv, GenerationsOK
        <3> QED BY <1>2, <1>3, <1>6, <3>1, <3>2
    <2>3. CASE m.last_sequence = MaximumSequence(immutable.records)
        BY Zenon, <1>6, <2>3 DEF Recoverable
    <2> QED BY Zenon, <1>1, <2>1, <2>2, <2>3 DEF NamesOK, KnownManifest
<1>7. CASE /\ mutable # {}
           /\ r \in log[mutable_generation].records
           /\ r.sequence <= log[mutable_generation].synced
    <2>1. ~HasCompaction /\ wal
        BY Zenon, <1>7 DEF ExclusionOK, RunningInv, GenerationsOK
    <2>2. mutable_generation \in d.wals
        BY Zenon, <1>1, <2>1 DEF NamesOK, Claimed
    <2>3. mutable_generation >= m.next_file_number
        <3>1. \/ m.next_file_number = version.next_file_number
              \/ Unpublished /\ m.next_file_number = mutable_generation
            BY Zenon, <1>1, <2>1 DEF NamesOK, KnownManifest, Pending
        <3>2. \/ mutable_generation = version.next_file_number
              \/ mutable_generation = version.next_file_number + 1
            BY Zenon DEF RunningInv, GenerationsOK
        <3> QED BY <1>2, <3>1, <3>2
    <2> QED BY Zenon, <1>3, <1>7, <2>2, <2>3
<1> QED BY Zenon, <1>1, <1>5, <1>6, <1>7 DEF Held

------------------------------------------------------------------------------
(* A pending compaction excludes other maintenance *)

\* An error leaves the exclusion as it is: a worker that fails with a
\* compaction pending leaves background_status_ bad.
LEMMA ErrorExclusion ==
    ASSUME TypeInv, ExclusionOK, ReturnError, mutable' = mutable, pc # "idle",
           HasCompaction' = HasCompaction, HasImmutable' = HasImmutable
    PROVE  ExclusionOK'
<1> USE DEF ReturnError
<1>1. Background => op' \notin {"compact", "resume"}
    BY Zenon DEF ExclusionOK
<1>2. ASSUME HasCompaction'
      PROVE  ~HasImmutable' /\ mutable' = {} /\ ~requested'
    BY Zenon, <1>2 DEF ExclusionOK
<1>3. pc' = "idle" \/ (op' = "close" /\ pc' = "return")
    BY Zenon
<1>4. ASSUME HasCompaction', Background PROVE ~background_status'
    BY Zenon, <1>4 DEF ExclusionOK
<1> QED BY Zenon, <1>1, <1>2, <1>3, <1>4 DEF ExclusionOK

\* The calls respect it: a background Write is refused while a compaction is
\* pending, and the others go on with the compaction.
LEMMA CallExclusion ==
    ASSUME StrictSetting, TypeInv, ExclusionOK, Call \/ Skip \/ Return
    PROVE  ExclusionOK'
<1> USE DEF ExclusionOK
<1>1. CASE Open
    BY <1>1 DEF Open, TypeInv, DownIsEmpty, HasCompaction, NoCompaction
<1>2. CASE OpenFails
    BY Zenon, <1>2 DEF OpenFails, HasCompaction, HasImmutable
<1>3. ASSUME NEW key \in Key, NEW deleted \in BOOLEAN, NEW sync \in SyncModes,
             Put(key, deleted, sync)
      PROVE  ExclusionOK'
    BY Zenon, <1>3 DEF Put, Begin, HasCompaction, HasImmutable, TypeInv, CallOK
<1>4. CASE Flush
    BY Zenon, <1>4 DEF Flush, Begin, HasCompaction, HasImmutable
<1>5. CASE Compact
    BY Zenon, <1>5 DEF Compact, Begin, HasCompaction, HasImmutable, StrictSetting
<1>6. CASE Close
    BY Zenon, <1>6 DEF Close, HasCompaction, HasImmutable
<1>7. CASE CloseJoined
    BY Zenon, <1>7 DEF CloseJoined, Begin, HasCompaction, HasImmutable
<1>8. CASE Skip
    BY Zenon, <1>8 DEF Skip, Proceed, HasCompaction, HasImmutable
<1>9. CASE Return
    <2>1. CASE op = "close"
        <3>1. Forget
            BY Zenon, <1>9, <2>1 DEF Return
        <3>2. compaction' = NoCompaction /\ op' = "none"
            BY Zenon, <3>1 DEF Forget
        <3>3. ~HasCompaction'
            BY Zenon, <3>2 DEF HasCompaction, NoCompaction
        <3> QED BY Zenon, <3>2, <3>3
    <2>2. CASE op # "close"
        <3>1. ~HasCompaction /\ UNCHANGED compaction /\ op' = "none"
            BY Zenon, <1>9, <2>2 DEF Return, memoryVars
        <3> QED BY Zenon, <3>1 DEF HasCompaction
    <2> QED BY Zenon, <2>1, <2>2
<1> QED BY Zenon, <1>1, <1>2, <1>3, <1>4, <1>5, <1>6, <1>7, <1>8, <1>9 DEF Call

\* Writes and flushes take place only while no compaction is pending.
LEMMA WriteExclusion ==
    ASSUME TypeInv, ExclusionOK, WriteStep \/ FlushStep
    PROVE  ExclusionOK'
<1>1. pc \in {"append", "freeze", "rotate", "flush"}
    BY Zenon DEF WriteStep, FlushStep, Append, AppendFails, Freeze, FreezeSkipped, FreezeRefused,
           Rotate, RotateRefused, FlushTable, FlushTableFails, FlushManifest, FlushManifestDue,
           FlushManifestFails, FlushRemoveWal, FlushRemoveWalFails, FlushFinish, FlushFinishFails
<1>2. ~HasCompaction
    BY Zenon, <1>1 DEF ExclusionOK
<1>3. compaction' = compaction
    BY Zenon DEF WriteStep, FlushStep, Append, AppendFails, Freeze, FreezeSkipped,
       FreezeRefused,
           Rotate, RotateRefused, FlushTable, FlushTableFails, FlushManifest,
           FlushManifestFails, FlushRemoveWal, FlushRemoveWalFails, FlushFinish,
           FlushFinishFails, OpenMutableWalFails, Refused
<1>4. op' = op \/ op' = "none"
    BY Zenon DEF WriteStep, FlushStep, Append, AppendFails, Freeze, FreezeSkipped, FreezeRefused,
           Rotate, RotateRefused, FlushTable, FlushTableFails, FlushManifest,
           FlushManifestFails, FlushRemoveWal, FlushRemoveWalFails, FlushFinish,
           FlushFinishFails, OpenMutableWalFails, Refused, IoError, ReturnError, Proceed
<1> QED BY Zenon, <1>2, <1>3, <1>4 DEF ExclusionOK, HasCompaction

\* A compaction is prepared when nothing waits to be flushed, and keeps its
\* place in the call until it is done.
LEMMA CompactionExclusion ==
    ASSUME TypeInv, ExclusionOK, CompactionStep
    PROVE  ExclusionOK'
<1>a. pc # "idle"
    BY Zenon DEF CompactionStep, Prepare, PrepareSkipped, PrepareFails, PrepareRefused,
           CompactionPublish, CompactionPublishFails, CompactionPublishDue,
           CompactionManifest, CompactionManifestFails, CompactionManifestDue,
           CompactionRemove, CompactionRemoveFails, CleanupDue,
           CompactionSync, CompactionSyncFails, CompactionFinish, CompactionFinishFails,
           CleanupDone
<1>b. compaction \in CompactionState
    BY Zenon DEF TypeInv, TypeOK, TypeMemory
<1>1. CASE Prepare
    <2>1. mutable = {} /\ ~HasImmutable /\ mutable' = {} /\ ~HasImmutable' /\ pc' = "compaction"
          /\ op' = op /\ requested' = requested
        BY Zenon, <1>1 DEF Prepare, MayCompact, Proceed, HasImmutable
    <2>2. Background => op = "worker" /\ worker = "locked"
        BY Zenon, <1>1 DEF Prepare, TypeInv, CallOK, WorkerOK, ExclusionOK
    <2>3. ~requested
        BY Zenon, <2>2 DEF TypeInv, WorkerOK
    <2> QED BY Zenon, <2>1, <2>2, <2>3 DEF ExclusionOK
<1>2. CASE PrepareSkipped
    BY Zenon, <1>2 DEF PrepareSkipped, Proceed, ExclusionOK, HasCompaction, HasImmutable
<1>3. CASE PrepareFails \/ PrepareRefused \/ CompactionRemoveFails \/ CompactionSyncFails
           \/ CompactionPublishFails \/ CompactionFinishFails
    <2>1. ReturnError /\ UNCHANGED memoryVars
        BY Zenon, <1>3 DEF PrepareFails, PrepareRefused, CompactionRemoveFails, CompactionSyncFails,
                    CompactionPublishFails, CompactionFinishFails, OpenMutableWalFails, IoError,
                    Refused
    <2> QED BY Zenon, <1>a, <2>1, ErrorExclusion DEF HasCompaction, HasImmutable
<1>4. CASE CompactionManifestFails
    <2>1. compaction'.inputs = compaction.inputs
        BY Zenon, <1>4, <1>b DEF CompactionManifestFails, CompactionState
    <2>2. ReturnError /\ UNCHANGED allButCompaction
        BY Zenon, <1>4 DEF CompactionManifestFails, IoError
    <2> QED BY Zenon, <1>a, <2>1, <2>2, ErrorExclusion DEF HasCompaction, HasImmutable
<1>5. CASE CompactionManifest /\ ~(compaction.candidate # NoVersion \/ CompactionEditAccepted)
    <2>1. Refused
        BY Zenon, <1>5 DEF CompactionManifest
    <2> QED BY Zenon, <1>a, <2>1, ErrorExclusion DEF Refused, HasCompaction, HasImmutable
<1>6. CASE CompactionPublish \/ CompactionRemove \/ CompactionSync
           \/ (CompactionManifest /\ (compaction.candidate # NoVersion \/ CompactionEditAccepted))
    <2>1. compaction'.inputs = compaction.inputs
        BY Zenon, <1>6, <1>b DEF CompactionPublish, CompactionRemove, CompactionSync,
           CompactionManifest,
                          CompactionState
    <2>2. /\ Proceed("compaction") /\ mutable' = mutable /\ immutable' = immutable
        BY Zenon, <1>6 DEF CompactionPublish, CompactionRemove, CompactionSync, CompactionManifest
    <2> QED BY Zenon, <2>1, <2>2 DEF ExclusionOK, Proceed, HasCompaction, HasImmutable
<1>7. CASE CompactionFinish
    BY Zenon, <1>7 DEF CompactionFinish, Proceed, ExclusionOK, HasCompaction, NoCompaction
<1> QED BY Zenon, <1>1, <1>2, <1>3, <1>4, <1>5, <1>6, <1>7 DEF CompactionStep

\* Every step keeps the exclusion.
LEMMA NextExclusion ==
    ASSUME StrictSetting, TypeInv, ExclusionOK, [Next]_vars
    PROVE  ExclusionOK'
<1>1. CASE Environment
    <2>1. Forget
        BY Zenon, <1>1 DEF Environment, ProcessCrash, PowerFailure
    <2>2. compaction' = NoCompaction /\ op' = "none"
        BY Zenon, <2>1 DEF Forget
    <2> QED BY Zenon, <2>2 DEF ExclusionOK, HasCompaction, NoCompaction
<1>2. CASE WorkerStep
    <2>1. CASE WorkerStart
        BY Zenon, <1>2, <2>1 DEF WorkerStart, Begin, ExclusionOK, HasCompaction, HasImmutable
    <2>2. CASE WorkerPublish
        BY Zenon, <2>2 DEF WorkerPublish, ExclusionOK, HasCompaction, HasImmutable
    <2>3. CASE WorkerResume
        <3>1. ~HasCompaction
            BY Zenon, <2>3 DEF WorkerResume, TypeInv, WorkerOK, ExclusionOK
        <3> QED BY Zenon, <2>3, <3>1 DEF WorkerResume, Begin, ExclusionOK, HasCompaction
    <2> QED BY Zenon, <1>2, <2>1, <2>2, <2>3 DEF WorkerStep
<1>3. CASE UNCHANGED vars
    BY Zenon, <1>3 DEF vars, ExclusionOK, HasCompaction, HasImmutable
<1> QED BY Zenon, <1>1, <1>2, <1>3, CallExclusion, WriteExclusion, CompactionExclusion DEF Next

------------------------------------------------------------------------------
(* Steps that leave WALs, MANIFEST and frontiers alone *)

\* Such a step keeps the invariant.
LEMMA QuietStep ==
    ASSUME RunningInv, SameMemory, SameNames, log' = log, state # "down", Strict' \subseteq Strict
    PROVE  RunningInv'
<1>1. /\ HasImmutable' = HasImmutable /\ Unpublished' = Unpublished
      /\ HasCompaction' = HasCompaction /\ Claimed' = Claimed /\ Pending' = Pending
    BY Zenon DEF SameMemory, HasImmutable, Unpublished, HasCompaction, Claimed, Pending
<1>2. GenerationsOK'
    BY Zenon, <1>1 DEF RunningInv, GenerationsOK, SameMemory
<1>3. CandidateOK'
    BY Zenon, <1>1 DEF RunningInv, CandidateOK, SameMemory
<1>4. \A m, wals : NamesOK(m, wals) => NamesOK(m, wals)'
    BY <1>1 DEF NamesOK, KnownManifest, SameMemory
<1>5. DiskOK'
    BY Zenon, <1>4 DEF RunningInv, DiskOK, SameNames
<1>6. WalsOK'
    BY Zenon DEF RunningInv, WalsOK, SameNames, NoGap
<1>7. StrictHeld'
    <2>1. \A r : Held(r) => Held(r)'
        BY Zenon, <1>1 DEF Held, SameMemory
    <2> QED BY Zenon, <2>1 DEF RunningInv, StrictHeld
<1> QED BY Zenon, <1>2, <1>3, <1>5, <1>6, <1>7 DEF RunningInv

\* The strict writes stay the same in every step that appends nothing, or are
\* one less when a call returns an error; Return only moves one to acked.
LEMMA StrictStays ==
    /\ UNCHANGED <<op, arg, acked>> => Strict' = Strict
    /\ ReturnError /\ acked' = acked => Strict' \subseteq Strict
    /\ op' # "put" /\ acked' = acked => Strict' \subseteq Strict
    /\ arg'.sequence = 0 /\ acked' = acked => Strict' \subseteq Strict
    /\ TypeInv /\ Return => Strict' \subseteq Strict
<1>1. UNCHANGED <<op, arg, acked>> => Strict' = Strict
    BY Zenon DEF Strict, InFlight
<1>2. op' # "put" /\ acked' = acked => Strict' \subseteq Strict
    BY Zenon DEF Strict, InFlight
<1>3. arg'.sequence = 0 /\ acked' = acked => Strict' \subseteq Strict
    BY Zenon DEF Strict, InFlight
<1>4. ReturnError /\ acked' = acked => Strict' \subseteq Strict
    BY Zenon, <1>1, <1>2 DEF ReturnError
<1>5. ASSUME TypeInv, Return PROVE Strict' \subseteq Strict
    <2>1. op' # "put"
        BY Zenon, <1>5 DEF Return, Forget
    <2>2. Strict' = acked'
        BY Zenon, <2>1 DEF Strict, InFlight
    <2>3. op = "put" => arg.sequence # 0
        BY Zenon, <1>5 DEF Return, TypeInv, CallOK
    <2>4. acked' \subseteq acked \cup InFlight
        BY Zenon, <1>5, <2>3 DEF Return, InFlight
    <2> QED BY Zenon, <2>2, <2>4 DEF Strict
<1> QED BY Zenon, <1>1, <1>2, <1>3, <1>4, <1>5

\* Entering a call, skipping a part and returning change nothing the
\* invariant looks at.
LEMMA QuietCall ==
    ASSUME TypeInv, RunningInv, state # "down",
           \/ \E key \in Key, deleted \in BOOLEAN, sync \in SyncModes : Put(key, deleted, sync)
           \/ Flush \/ Compact \/ Close \/ CloseJoined \/ Skip \/ (Return /\ op # "close")
           \/ FreezeSkipped \/ FreezeRefused \/ RotateRefused
           \/ PrepareSkipped \/ PrepareFails \/ PrepareRefused
           \/ CompactionRemoveFails \/ CompactionSyncFails
           \/ WorkerStart \/ UNCHANGED vars
    PROVE  RunningInv'
<1>1. UNCHANGED <<diskVars, memoryVars>>
    BY Zenon DEF Put, Flush, Compact, Close, CloseJoined, Skip, Return, FreezeSkipped,
       FreezeRefused,
           RotateRefused, PrepareSkipped, PrepareFails, PrepareRefused, CompactionRemoveFails,
           CompactionSyncFails, WorkerStart, Refused, vars
<1>2. Strict' \subseteq Strict
    <2>1. CASE \E key \in Key, deleted \in BOOLEAN, sync \in SyncModes : Put(key, deleted, sync)
        <3>1. PICK key \in Key, deleted \in BOOLEAN, sync \in SyncModes : Put(key, deleted, sync)
            BY Zenon, <2>1
        <3>2. arg' = [key |-> key, deleted |-> deleted, sync |-> sync, sequence |-> 0]
            BY Zenon, <3>1 DEF Put
        <3>3. arg'.sequence = 0
            BY Zenon, <3>2
        <3>4. acked' = acked
            BY Zenon, <3>1 DEF Put
        <3> QED BY Zenon, <3>3, <3>4, StrictStays
    <2>2. CASE Flush \/ Compact \/ CloseJoined
        BY Zenon, <2>2, StrictStays DEF Flush, Compact, CloseJoined, Begin
    <2>3. CASE \/ Close \/ Skip \/ FreezeSkipped \/ RotateRefused \/ PrepareSkipped
               \/ UNCHANGED vars
        BY Zenon, <2>3, StrictStays DEF Close, Skip, FreezeSkipped, RotateRefused,
           PrepareSkipped,
                                 Proceed, vars
    <2>4. CASE Return
        BY Zenon, <2>4, StrictStays
    <2>5. CASE \/ FreezeRefused \/ PrepareFails \/ PrepareRefused \/ CompactionRemoveFails
               \/ CompactionSyncFails
        BY Zenon, <2>5, StrictStays DEF FreezeRefused, PrepareFails, PrepareRefused,
                                 CompactionRemoveFails, CompactionSyncFails, Refused, IoError
    <2>6. CASE WorkerStart
        BY Zenon, <2>6, StrictStays DEF WorkerStart, Begin
    <2> QED BY Zenon, <2>1, <2>2, <2>3, <2>4, <2>5, <2>6
<1>3. SameMemory /\ SameNames /\ log' = log
    BY Zenon, <1>1 DEF SameMemory, SameNames
<1> QED BY Zenon, <1>2, <1>3, QuietStep

\* Publishing a table, and removing one, changes neither the MANIFEST nor the
\* WALs.
LEMMA QuietTable ==
    ASSUME TypeInv, RunningInv, state # "down",
           \/ FlushTable \/ FlushTableFails \/ CompactionPublish \/ CompactionPublishFails
           \/ (CompactionRemove /\ compaction.cleanup # {}) \/ CompactionSync
           \/ WorkerPublish \/ WorkerResume
    PROVE  RunningInv'
<1>a. /\ dir \in Directory /\ immutable \in ImmutableGeneration /\ compaction \in CompactionState
      /\ \A g \in compaction.cleanup : g \in Generation
    BY Zenon DEF TypeInv, TypeOK, TypeDisk, TypeMemory, CompactionState
<1>b. HasImmutable => LET d == WithTable(dir, ImmutableTable)
                      IN  d.manifest = dir.manifest /\ d.wals = dir.wals
    BY Zenon, <1>a, FlushFacts, DirectoryOps
<1>c. \A n : RenamedBelow(n).manifest = dir.manifest /\ RenamedBelow(n).wals = dir.wals
    BY Zenon, RenamedBelowFacts DEF TypeInv, TypeOK
<1>d. \A g \in compaction.cleanup : LET d == WithoutTable(dir, g)
                                    IN  d.manifest = dir.manifest /\ d.wals = dir.wals
    BY Zenon, <1>a, DirectoryOps
<1>e. worker # "idle" /\ worker # "locked" => HasImmutable
    BY Zenon DEF TypeInv, WorkerOK, TypeOK, TypeCall
<1>1. SameNames
    <2>1. CASE FlushTable \/ FlushTableFails
        BY Zenon, <1>b, <2>1 DEF FlushTable, FlushTableFails, SameNames, Change, ChangeAndSync
    <2>2. CASE CompactionPublish \/ CompactionPublishFails
        BY Zenon, <1>c, <2>2 DEF CompactionPublish, CompactionPublishFails, SameNames, ChangeAndSync
    <2>3. CASE CompactionRemove /\ compaction.cleanup # {}
        BY Zenon, <1>d, <2>3 DEF CompactionRemove, SameNames, Change
    <2>4. CASE CompactionSync
        BY Zenon, <2>4 DEF CompactionSync, SameNames, ChangeAndSync
    <2>5. CASE WorkerPublish
        BY Zenon, <1>b, <1>e, <2>5 DEF WorkerPublish, SameNames, Change, ChangeAndSync
    <2>6. CASE WorkerResume
        BY Zenon, <2>6 DEF WorkerResume, SameNames
    <2> QED BY Zenon, <2>1, <2>2, <2>3, <2>4, <2>5, <2>6
<1>2. SameMemory
    <2>1. CASE FlushTable
        BY Zenon, <1>a, <2>1 DEF FlushTable, SameMemory, ImmutableGeneration
    <2>2. CASE FlushTableFails \/ CompactionPublishFails \/ WorkerPublish
        BY Zenon, <2>2 DEF FlushTableFails, CompactionPublishFails, WorkerPublish, SameMemory
    <2>3. CASE CompactionPublish \/ CompactionSync
        BY Zenon, <1>a, <2>3 DEF CompactionPublish, CompactionSync, SameMemory, CompactionState
    <2>4. CASE CompactionRemove /\ compaction.cleanup # {}
        BY Zenon, <1>a, <2>4 DEF CompactionRemove, SameMemory, CompactionState
    <2>5. CASE WorkerResume
        BY Zenon, <1>a, <2>5 DEF WorkerResume, SameMemory, ImmutableGeneration
    <2> QED BY Zenon, <2>1, <2>2, <2>3, <2>4, <2>5
<1>3. log' = log
    BY Zenon DEF FlushTable, FlushTableFails, CompactionPublish, CompactionPublishFails,
           CompactionRemove, CompactionSync, WorkerPublish, WorkerResume
<1>4. Strict' \subseteq Strict
    <2>1. CASE \/ FlushTable \/ CompactionPublish \/ CompactionRemove \/ CompactionSync
               \/ WorkerPublish
        BY Zenon, <2>1, StrictStays DEF FlushTable, CompactionPublish, CompactionRemove,
           CompactionSync,
                                 WorkerPublish, Proceed
    <2>2. CASE FlushTableFails \/ CompactionPublishFails
        BY Zenon, <2>2, StrictStays DEF FlushTableFails, CompactionPublishFails, IoError
    <2>3. CASE WorkerResume
        BY Zenon, <2>3, StrictStays DEF WorkerResume, Begin
    <2> QED BY Zenon, <2>1, <2>2, <2>3
<1> QED BY Zenon, <1>1, <1>2, <1>3, <1>4, QuietStep

------------------------------------------------------------------------------
(* Write *)

\* A write takes a new sequence number, and with kSync its record is durable in
\* the WAL of the Mutable before the call returns.
LEMMA AppendDurable ==
    ASSUME TypeInv, TypeInv', ExclusionOK, RunningInv, Append, wal PROVE RunningInv'
<1> DEFINE m == Insert(mutable, NewRecord)
           g == mutable_generation
<1>0. PICK r : r = NewRecord
    BY Zenon
<1>1. /\ r \in Record /\ r.sequence = last_sequence + 1 /\ m \in SUBSET Record /\ r \in m
      /\ g \in Generation /\ last_sequence \in Nat
    BY <1>0, NewRecordType, Numbers DEF Append, Insert
<1>2. /\ log' = [log EXCEPT ![g] = [records |-> @.records \cup {r},
                                    synced |-> IF arg.sync THEN r.sequence ELSE @.synced]]
      /\ last_sequence' = r.sequence /\ mutable' = m
      /\ arg' = [arg EXCEPT !.sequence = r.sequence]
      /\ UNCHANGED <<dir, past, state, version, mutable_generation, wal, immutable, compaction,
                     op, acked>>
    BY Zenon, <1>0 DEF Append
<1>3. op = "put" /\ arg.sequence = 0 /\ state # "down" /\ arg \in Argument
    BY Zenon, CallMeansUp DEF Append, TypeInv, CallOK, TypeOK, TypeCall
<1>4. r = [sequence |-> r.sequence, key |-> arg.key, deleted |-> arg.deleted]
    BY Zenon, <1>0 DEF NewRecord
<1>5. r.sequence <= MaximumSequence(m)
    BY Zenon, <1>1, MaximumSequenceOf
<1> HIDE DEF m
<1>6. /\ HasImmutable' = HasImmutable /\ Unpublished' = Unpublished
      /\ HasCompaction' = HasCompaction /\ Claimed' = Claimed /\ Pending' = Pending
    BY Zenon, <1>2 DEF HasImmutable, Unpublished, HasCompaction, Claimed, Pending
<1>7. GenerationsOK'
    BY Zenon, <1>2, <1>6 DEF RunningInv, GenerationsOK
<1>8. CandidateOK'
    BY Zenon, <1>2, <1>6 DEF RunningInv, CandidateOK
<1>9. DiskOK'
    BY Zenon, <1>2, <1>6 DEF RunningInv, DiskOK, NamesOK, KnownManifest
<1>10. WalsOK'
    BY Zenon, <1>2 DEF RunningInv, WalsOK
<1>11. StrictHeld'
    <2>1. Strict' \subseteq Strict \cup (IF arg.sync THEN {r} ELSE {})
        BY Zenon, <1>2, <1>3, <1>4 DEF Strict, InFlight, Argument
    <2>2. /\ r \in log'[g].records /\ log[g].records \subseteq log'[g].records
          /\ arg.sync => log'[g].synced = r.sequence
          /\ ~arg.sync => log'[g].synced = log[g].synced
          /\ \A h \in Generation : h # g => log'[h] = log[h]
        BY Zenon, <1>1, <1>2 DEF TypeInv, TypeOK, TypeDisk, Log
    <2>3. ASSUME arg.sync PROVE Held(r)'
        <3>1. r.sequence <= last_sequence' /\ r.sequence <= MaximumSequence(mutable')
            BY <1>1, <1>2, <1>5
        <3>2. mutable' # {} /\ r \in log'[mutable_generation'].records
            BY Zenon, <1>1, <1>2, <2>2
        <3>3. r.sequence <= log'[mutable_generation'].synced
            BY SMTT(30), <1>1, <1>2, <2>2, <2>3
        <3> QED BY Zenon, <3>1, <3>2, <3>3 DEF Held
    <2>4. ASSUME NEW q \in Strict PROVE Held(q)'
        <3>1. Held(q) /\ q.sequence \in Nat /\ q.sequence <= last_sequence
            BY Zenon, <1>3, HeldOf
        <3>2. q.sequence <= last_sequence' /\ q.sequence <= MaximumSequence(m)
            <4>1. MaximumSequence(m) \in Nat
                BY <1>1, MaximumSequenceOf
            <4> QED BY SMTT(30), <1>1, <1>2, <1>5, <3>1, <4>1
        <3>3. CASE q.sequence <= version.last_sequence
            BY Zenon, <1>2, <3>2, <3>3 DEF Held
        <3>4. CASE /\ Unpublished
                   /\ q.sequence <= MaximumSequence(immutable.records)
                   /\ q \in log[immutable.generation].records
                   /\ q.sequence <= log[immutable.generation].synced
            <4>1. immutable.generation \in Generation /\ immutable.generation # g
                <5>1. immutable.generation \in Nat /\ immutable.generation \in Generation
                    BY Zenon, <3>4, FileNumbers
                <5>2. mutable_generation = immutable.generation + 1
                    BY Zenon, <1>3, <3>4 DEF RunningInv, GenerationsOK
                <5> QED BY <5>1, <5>2
            <4>2. log'[immutable.generation] = log[immutable.generation]
                BY Zenon, <2>2, <4>1
            <4> QED BY Zenon, <1>2, <1>6, <3>2, <3>4, <4>2 DEF Held
        <3>5. CASE /\ mutable # {}
                   /\ q \in log[g].records
                   /\ q.sequence <= log[g].synced
            <4>1. q.sequence <= log'[g].synced
                BY <1>1, <2>2, <3>1, <3>5, Zenon, SMT
            <4> QED BY Zenon, <1>1, <1>2, <2>2, <3>2, <3>5, <4>1 DEF Held
        <3> QED BY Zenon, <3>1, <3>3, <3>4, <3>5 DEF Held
    <2>5. ASSUME NEW q \in Strict' PROVE Held(q)'
        BY Zenon, <2>1, <2>3, <2>4
    <2> QED BY Zenon, <2>5 DEF StrictHeld
<1> QED BY Zenon, <1>7, <1>8, <1>9, <1>10, <1>11 DEF RunningInv

\* A failed append may leave a record behind, but no strict write is lost.
LEMMA AppendFailsDurable ==
    ASSUME TypeInv, ExclusionOK, RunningInv, AppendFails PROVE RunningInv'
<1> DEFINE g == mutable_generation
<1>1. state # "down" /\ g \in Generation /\ last_sequence' = last_sequence + 1
      /\ last_sequence \in Nat /\ state' = state
    BY CallMeansUp, NewRecordType, Numbers DEF AppendFails, ReturnError
<1>2. UNCHANGED <<dir, past, version, mutable, mutable_generation, wal, immutable, compaction,
                  acked>>
    BY Zenon DEF AppendFails
<1>3. \A h \in Generation : /\ log[h].records \subseteq log'[h].records
                            /\ log'[h].synced = log[h].synced
    BY <1>1 DEF AppendFails, TypeInv, TypeOK, TypeDisk, Log
<1>4. /\ HasImmutable' = HasImmutable /\ Unpublished' = Unpublished
      /\ HasCompaction' = HasCompaction /\ Claimed' = Claimed /\ Pending' = Pending
    BY Zenon, <1>2 DEF HasImmutable, Unpublished, HasCompaction, Claimed, Pending
<1>5. GenerationsOK' /\ CandidateOK' /\ WalsOK'
    BY Zenon, <1>1, <1>2, <1>4 DEF RunningInv, GenerationsOK, CandidateOK, WalsOK
<1>6. DiskOK'
    BY Zenon, <1>1, <1>2, <1>4 DEF RunningInv, DiskOK, NamesOK, KnownManifest
<1>7. StrictHeld'
    <2>1. Strict' \subseteq Strict
        BY Zenon, StrictStays DEF AppendFails
    <2>2. ASSUME NEW q \in Strict PROVE Held(q)'
        <3>0. Held(q) /\ q.sequence \in Nat /\ q.sequence <= last_sequence
            BY Zenon, <1>1, HeldOf
        <3>1. Held(q) /\ q.sequence <= last_sequence'
            BY <1>1, <3>0
        <3>2. Unpublished => immutable.generation \in Generation
            BY Zenon, FileNumbers
        <3> QED BY Zenon, <1>1, <1>2, <1>3, <1>4, <3>1, <3>2 DEF Held
    <2> QED BY Zenon, <2>1, <2>2 DEF StrictHeld
<1> QED BY Zenon, <1>5, <1>6, <1>7 DEF RunningInv

------------------------------------------------------------------------------
(* FreezeMutable *)

\* What freezing the Mutable does to memory.
LEMMA FrozenHeld ==
    ASSUME TypeInv, ExclusionOK, RunningInv, CanFreeze, state # "down",
           immutable' = FrozenMutable, mutable' = {},
           mutable_generation' = mutable_generation + 1,
           UNCHANGED <<state, version, compaction, last_sequence>>,
           Strict' \subseteq Strict,
           log'[mutable_generation] = log[mutable_generation]
    PROVE  /\ GenerationsOK' /\ CandidateOK' /\ StrictHeld'
           /\ Unpublished' /\ ~HasCompaction /\ ~HasCompaction'
           /\ immutable'.generation = version.next_file_number
           /\ mutable_generation = version.next_file_number
           /\ \A d \in past \cup {dir} :
                 /\ d.manifest.next_file_number = version.next_file_number
                 /\ d.manifest.last_sequence = version.last_sequence
                 /\ mutable_generation \in d.wals
                 /\ \A h \in d.wals : h <= mutable_generation
<1>1. ~HasImmutable /\ mutable # {} /\ wal /\ ~HasCompaction /\ ~HasCompaction' /\ ~Unpublished
    BY Zenon DEF CanFreeze, ExclusionOK, HasCompaction, Unpublished
<1>2. /\ immutable'.generation = mutable_generation /\ immutable'.records = mutable
      /\ ~immutable'.version_published /\ ~immutable'.wal_removed_and_synced
    BY Zenon, FrozenFacts
<1>3. mutable_generation = version.next_file_number
    BY Zenon, <1>1 DEF RunningInv, GenerationsOK
<1>4. Unpublished'
    BY Zenon, <1>1, <1>2 DEF Unpublished, HasImmutable
<1>5. GenerationsOK'
    <2>1. mutable_generation \in Nat
        BY Zenon, FileNumbers
    <2>2. /\ immutable'.generation = version'.next_file_number
          /\ mutable_generation' = immutable'.generation + 1
          /\ immutable'.generation < mutable_generation'
        BY <1>2, <1>3, <2>1
    <2> QED BY Zenon, <1>1, <1>2, <1>4, <2>2 DEF GenerationsOK
<1>6. CandidateOK'
    BY Zenon, <1>1 DEF CandidateOK, Pending
<1>7. StrictHeld'
    <2>1. ASSUME NEW q \in Strict PROVE Held(q)'
        <3>1. Held(q)
            BY Zenon DEF RunningInv, StrictHeld
        <3> QED BY Zenon, <1>1, <1>2, <1>4, <3>1 DEF Held
    <2> QED BY Zenon, <2>1 DEF StrictHeld
<1>8. \A d \in past \cup {dir} :
          /\ d.manifest.next_file_number = version.next_file_number
          /\ d.manifest.last_sequence = version.last_sequence
          /\ mutable_generation \in d.wals
          /\ \A h \in d.wals : h <= mutable_generation
    BY Zenon, <1>1 DEF RunningInv, DiskOK, NamesOK, KnownManifest, Pending, Claimed
<1> QED BY Zenon, <1>1, <1>2, <1>3, <1>4, <1>5, <1>6, <1>7, <1>8

\* FreezeMutable(false): the WAL of the new Immutable stays, and the next one is
\* opened only when the flush is done.
LEMMA FreezeDurable ==
    ASSUME TypeInv, TypeInv', ExclusionOK, RunningInv, Freeze PROVE RunningInv'
<1>a. mutable_generation' = mutable_generation + 1
    BY Zenon DEF Freeze
<1>b. ASSUME NEW S \in SUBSET Nat, mutable_generation \in Nat,
             \A h \in S : h <= mutable_generation
      PROVE  \A h \in S : h <= mutable_generation'
    BY <1>a, <1>b
<1> USE DEF Freeze, Proceed
<1>1. Strict' \subseteq Strict /\ state # "down"
    BY Zenon, StrictStays, CallMeansUp
<1>2. /\ GenerationsOK' /\ CandidateOK' /\ StrictHeld'
      /\ immutable'.generation = version.next_file_number
      /\ mutable_generation = version.next_file_number
      /\ \A d \in past \cup {dir} :
            /\ d.manifest.next_file_number = version.next_file_number
            /\ d.manifest.last_sequence = version.last_sequence
            /\ mutable_generation \in d.wals
            /\ \A h \in d.wals : h <= mutable_generation
    BY Zenon, <1>1, FrozenHeld
<1>3. DiskOK'
    <2>0. mutable_generation \in Nat /\ version.next_file_number \in Nat
        BY Zenon, FileNumbers
    <2>1. ASSUME NEW d \in past \cup {dir} PROVE NamesOK(d.manifest, d.wals)'
        <3>1. d.wals \subseteq Nat
            BY Zenon, DirectoryNumbers
        <3>2. KnownManifest(d.manifest)'
            BY Zenon, <1>2 DEF KnownManifest
        <3>3. \A h \in d.wals : h <= mutable_generation'
            <4>1. \A h \in d.wals : h <= mutable_generation
                BY Zenon, <1>2
            <4> QED BY Zenon, <1>b, <2>0, <3>1, <4>1
        <3>4. immutable'.generation \in d.wals /\ ~wal'
            BY Zenon, <1>2
        <3> QED BY Zenon, <3>2, <3>3, <3>4 DEF NamesOK
    <2> QED BY Zenon, <2>1 DEF DiskOK
<1>4. WalsOK'
    BY Zenon DEF RunningInv, WalsOK
<1> QED BY Zenon, <1>2, <1>3, <1>4 DEF RunningInv

\* A background rotation creates the next WAL beside the one that is frozen.
LEMMA RotateDurable ==
    ASSUME TypeInv, TypeInv', ExclusionOK, RunningInv, Rotate PROVE RunningInv'
<1> DEFINE next == mutable_generation + 1
<1>a. /\ state # "down" /\ state' = state /\ CanFreeze /\ dir \in Directory
      /\ UNCHANGED <<version, compaction, last_sequence, op, arg, acked>>
      /\ immutable' = FrozenMutable /\ mutable' = {} /\ mutable_generation' = next
    BY Zenon, CallMeansUp DEF Rotate, TypeInv, TypeOK, TypeDisk
<1>b. mutable_generation \in Generation /\ next \in Generation /\ next # mutable_generation
    BY SMTT(30), <1>a, FrozenFacts DEF Generation
<1>c. /\ WithWal(dir, next).manifest = dir.manifest
      /\ WithWal(dir, next).wals = dir.wals \cup {next}
    BY Zenon, <1>a, <1>b, DirectoryOps
<1>d. Strict' \subseteq Strict
    BY Zenon, <1>a, StrictStays
<1>e. log'[mutable_generation] = log[mutable_generation]
    BY Zenon, <1>b DEF Rotate, Created, TypeInv, TypeOK, TypeDisk, Log
<1>2. /\ GenerationsOK' /\ CandidateOK' /\ StrictHeld' /\ Unpublished' /\ ~HasCompaction'
      /\ immutable'.generation = version.next_file_number
      /\ mutable_generation = version.next_file_number
      /\ \A d \in past \cup {dir} :
            /\ d.manifest.next_file_number = version.next_file_number
            /\ d.manifest.last_sequence = version.last_sequence
            /\ mutable_generation \in d.wals
            /\ \A h \in d.wals : h <= mutable_generation
    BY Zenon, <1>a, <1>d, <1>e, FrozenHeld
<1>3. /\ dir'.manifest = dir.manifest
      /\ \/ dir'.wals = dir.wals \cup {next} /\ past' = {}
         \/ dir'.wals = dir.wals \cup {next} /\ past' = past \cup {dir} /\ ~wal'
         \/ dir'.wals = dir.wals /\ past' = past /\ ~wal'
    BY Zenon, <1>c DEF Rotate, ChangeAndSync, Change
<1>4. ASSUME NEW d \in past' \cup {dir'}
      PROVE  /\ d.manifest.next_file_number = version.next_file_number
             /\ d.manifest.last_sequence = version.last_sequence
             /\ mutable_generation \in d.wals
             /\ \A h \in d.wals : h <= next
             /\ wal' => next \in d.wals
    <2>1. ASSUME NEW e \in past \cup {dir}, NEW h \in e.wals PROVE h <= next
        <3>1. h \in Generation /\ h <= mutable_generation
            BY Zenon, <1>2, Numbers
        <3> QED BY SMTT(30), <1>b, <3>1 DEF Generation
    <2>2. next <= next
        BY SMTT(30), <1>b DEF Generation
    <2> HIDE DEF next
    <2>3. CASE d \in past \cup {dir} /\ ~wal'
        BY Zenon, <1>2, <2>1, <2>3
    <2>4. CASE d = dir' /\ dir'.wals = dir.wals \cup {next}
        BY Zenon, <1>2, <1>3, <2>1, <2>2, <2>4
    <2>5. CASE dir'.wals = dir.wals /\ past' = past /\ ~wal'
        <3>1. CASE d = dir'
            BY Zenon, <1>2, <1>3, <2>1, <2>5, <3>1
        <3>2. CASE d \in past
            BY Zenon, <2>3, <2>5, <3>2
        <3> QED BY Zenon, <2>5, <3>1, <3>2
    <2> QED BY Zenon, <1>3, <2>3, <2>4, <2>5
<1>5. DiskOK'
    <2>1. ASSUME NEW d \in past' \cup {dir'} PROVE NamesOK(d.manifest, d.wals)'
        BY Zenon, <1>2, <1>4, <1>a DEF NamesOK, KnownManifest
    <2> QED BY Zenon, <2>1 DEF DiskOK
<1>6. WalsOK'
    <2>1. ASSUME NEW d \in past' \cup {dir'} PROVE NoGap(d.manifest, d.wals)
        BY Zenon, <1>2, <1>4 DEF NoGap
    <2>2. ASSUME NEW d \in past' \cup {dir'}, NEW g \in d.wals \ dir'.wals
          PROVE  g < dir'.manifest.next_file_number
        <3>1. d \in past \cup {dir} /\ g \in d.wals \ dir.wals
            BY Zenon, <1>3
        <3> QED BY Zenon, <1>3, <3>1 DEF RunningInv, WalsOK
    <2> QED BY Zenon, <2>1, <2>2 DEF WalsOK
<1> QED BY Zenon, <1>2, <1>5, <1>6 DEF RunningInv

------------------------------------------------------------------------------
(* ContinueFlush *)

\* A flush runs while no compaction is pending.
LEMMA FlushAlone ==
    ASSUME TypeInv, ExclusionOK, pc = "flush"
    PROVE  ~HasCompaction /\ ~Claimed /\ ~Pending /\ state # "down"
BY Zenon, CallMeansUp DEF ExclusionOK, Claimed, Pending

\* Publishing the flushed Version moves the writes of the Immutable behind the
\* sequence frontier, and the file-number frontier to the Mutable.
LEMMA FlushManifestDurable ==
    ASSUME TypeInv, TypeInv', ExclusionOK, RunningInv, FlushManifest, FlushEditAccepted
    PROVE  RunningInv'
<1> DEFINE d == WithManifest(dir, FlushCandidate)
<1>1. pc = "flush" /\ HasImmutable /\ Unpublished
    BY Zenon DEF FlushManifest, FlushManifestDue, Unpublished
<1>2. ~HasCompaction /\ ~Claimed /\ ~Pending /\ state # "down"
    BY Zenon, <1>1, FlushAlone
<1>3. /\ dir' = d /\ past' = {} /\ version' = FlushCandidate
      /\ immutable' = [immutable EXCEPT !.version_published = TRUE]
      /\ UNCHANGED <<log, mutable, mutable_generation, last_sequence, wal, compaction, state,
                     op, arg, acked>>
    BY Zenon DEF FlushManifest, ChangeAndSync, Proceed
<1>4. /\ immutable'.records = immutable.records /\ immutable'.generation = immutable.generation
      /\ immutable'.version_published
      /\ immutable'.wal_removed_and_synced = immutable.wal_removed_and_synced
    BY Zenon, <1>3 DEF TypeInv, TypeOK, TypeMemory, ImmutableGeneration
<1>5. /\ version'.next_file_number = mutable_generation
      /\ version'.last_sequence = MaximumSequence(immutable.records)
      /\ version'.last_sequence >= version.last_sequence
      /\ d.manifest = version' /\ d.wals = dir.wals
    <2>1. /\ FlushCandidate \in VersionType /\ FlushCandidate.next_file_number = mutable_generation
          /\ FlushCandidate.last_sequence = MaximumSequence(immutable.records)
        BY Zenon, <1>1, FlushFacts
    <2>2. MaximumSequence(immutable.records) >= version.last_sequence
        BY Zenon DEF FlushEditAccepted, EditAccepted
    <2>3. d.manifest = FlushCandidate /\ d.wals = dir.wals
        BY Zenon, <2>1, DirectoryOps DEF TypeInv, TypeOK, TypeDisk
    <2> QED BY Zenon, <1>3, <2>1, <2>2, <2>3
<1> HIDE DEF d
<1>6. ~Unpublished' /\ ~HasCompaction' /\ ~Claimed' /\ ~Pending'
    BY Zenon, <1>2, <1>3, <1>4 DEF Unpublished, HasCompaction, Claimed, Pending
<1>7. NamesOK(dir.manifest, dir.wals)
    BY Zenon, <1>2 DEF RunningInv, DiskOK
<1>8. GenerationsOK'
    BY Zenon, <1>1, <1>2, <1>3, <1>4, <1>5, <1>6 DEF RunningInv, GenerationsOK, HasImmutable
<1>9. CandidateOK'
    BY Zenon, <1>6 DEF CandidateOK
<1>10. DiskOK'
    <2>1. NamesOK(dir.manifest, dir.wals)'
        BY Zenon, <1>2, <1>3, <1>5, <1>6, <1>7 DEF NamesOK, KnownManifest
    <2> QED BY Zenon, <1>3, <2>1 DEF DiskOK
<1>11. WalsOK'
    <2>1. mutable_generation + 1 \notin dir.wals
        BY <1>7, Numbers DEF NamesOK
    <2> QED BY Zenon, <1>3, <1>5, <2>1 DEF WalsOK, NoGap
<1>12. StrictHeld'
    <2>1. ASSUME NEW q \in Strict PROVE Held(q)'
        <3>1. Held(q) /\ q.sequence \in Nat
            BY SMTT(30), <1>2, Numbers DEF RunningInv, StrictHeld
        <3>2. CASE q.sequence <= version.last_sequence
            BY SMTT(30), <1>3, <1>5, <3>1, <3>2, Numbers DEF Held
        <3>3. CASE q.sequence <= MaximumSequence(immutable.records)
            BY Zenon, <1>3, <1>5, <3>1, <3>3 DEF Held
        <3>4. CASE /\ mutable # {}
                   /\ q.sequence <= MaximumSequence(mutable)
                   /\ q \in log[mutable_generation].records
                   /\ q.sequence <= log[mutable_generation].synced
            BY Zenon, <1>3, <3>1, <3>4 DEF Held
        <3> QED BY Zenon, <3>1, <3>2, <3>3, <3>4 DEF Held
    <2> QED BY Zenon, <1>3, <2>1, StrictStays DEF StrictHeld
<1> QED BY Zenon, <1>8, <1>9, <1>10, <1>11, <1>12 DEF RunningInv

\* Memory is what it was, so only the directory is to be looked at.
LEMMA MemoryStays ==
    ASSUME RunningInv, UNCHANGED memoryVars, state # "down", state' = state, log' = log,
           Strict' \subseteq Strict
    PROVE  /\ GenerationsOK' /\ CandidateOK' /\ StrictHeld'
           /\ \A m, wals : NamesOK(m, wals)' = NamesOK(m, wals)
<1>1. /\ HasImmutable' = HasImmutable /\ Unpublished' = Unpublished
      /\ HasCompaction' = HasCompaction /\ Claimed' = Claimed /\ Pending' = Pending
    BY Zenon DEF HasImmutable, Unpublished, HasCompaction, Claimed, Pending
<1>2. GenerationsOK' /\ CandidateOK'
    BY Zenon, <1>1 DEF RunningInv, GenerationsOK, CandidateOK
<1>3. StrictHeld'
    BY Zenon, <1>1 DEF RunningInv, StrictHeld, Held
<1>4. \A m, wals : NamesOK(m, wals)' = NamesOK(m, wals)
    BY <1>1 DEF NamesOK, KnownManifest
<1> QED BY Zenon, <1>2, <1>3, <1>4

\* A flush whose MANIFEST was renamed but not synced leaves either Version on
\* disk, and the WAL of the Immutable with both.
LEMMA FlushManifestFailsDurable ==
    ASSUME TypeInv, ExclusionOK, RunningInv, FlushManifestFails
    PROVE  RunningInv'
<1> DEFINE d == WithManifest(dir, FlushCandidate)
<1>1. pc = "flush" /\ HasImmutable /\ Unpublished
    BY Zenon DEF FlushManifestFails, FlushManifestDue, Unpublished
<1>2. ~HasCompaction /\ ~Claimed /\ ~Pending /\ state # "down" /\ Strict' \subseteq Strict
    BY Zenon, <1>1, FlushAlone, StrictStays DEF FlushManifestFails, IoError
<1>3. /\ UNCHANGED <<log, memoryVars, state>>
      /\ (UNCHANGED <<dir, past>>) \/ (dir' = d /\ past' = past \cup {dir})
    BY Zenon DEF FlushManifestFails, IoError, ReturnError, Change
<1>4. /\ d.manifest.next_file_number = mutable_generation
      /\ d.manifest.last_sequence = MaximumSequence(immutable.records)
      /\ d.manifest.last_sequence >= version.last_sequence
      /\ d.wals = dir.wals
    <2>1. /\ FlushCandidate \in VersionType /\ FlushCandidate.next_file_number = mutable_generation
          /\ FlushCandidate.last_sequence = MaximumSequence(immutable.records)
        BY Zenon, <1>1, FlushFacts
    <2>2. MaximumSequence(immutable.records) >= version.last_sequence
        BY Zenon DEF FlushManifestFails, FlushEditAccepted, EditAccepted
    <2>3. d.manifest = FlushCandidate /\ d.wals = dir.wals
        BY Zenon, <2>1, DirectoryOps DEF TypeInv, TypeOK, TypeDisk
    <2> QED BY Zenon, <2>1, <2>2, <2>3
<1> HIDE DEF d
<1>5. /\ GenerationsOK' /\ CandidateOK' /\ StrictHeld'
      /\ \A m, wals : NamesOK(m, wals)' = NamesOK(m, wals)
    BY Zenon, <1>2, <1>3, MemoryStays
<1>6. mutable_generation = version.next_file_number + 1 /\ version.next_file_number \in Nat
      /\ mutable_generation \in Nat
    BY SMTT(30), <1>1, <1>2, Numbers DEF RunningInv, GenerationsOK
<1>7. NamesOK(dir.manifest, dir.wals)
    BY Zenon, <1>2 DEF RunningInv, DiskOK
<1>8. NamesOK(d.manifest, d.wals)
    BY SMTT(30), <1>1, <1>4, <1>6, <1>7 DEF NamesOK, KnownManifest
<1>9. DiskOK'
    BY Zenon, <1>3, <1>5, <1>8 DEF RunningInv, DiskOK
<1>10. WalsOK'
    <2>1. mutable_generation + 1 \notin dir.wals
        BY <1>7, <1>6 DEF NamesOK
    <2>2. NoGap(d.manifest, d.wals)
        BY Zenon, <1>4, <2>1 DEF NoGap
    <2>3. dir.manifest.next_file_number <= mutable_generation
        BY <1>2, <1>6, <1>7 DEF NamesOK, KnownManifest
    <2>4. ASSUME NEW e \in past \cup {dir}, NEW g \in e.wals \ dir.wals
          PROVE  g < mutable_generation
        <3>1. g < dir.manifest.next_file_number /\ g \in Nat
              /\ dir.manifest.next_file_number \in Nat
            BY SMTT(30), Numbers DEF RunningInv, WalsOK, Generation
        <3> QED BY SMTT(30), <1>6, <2>3, <3>1
    <2> QED BY Zenon, <1>3, <1>4, <2>2, <2>4 DEF RunningInv, WalsOK
<1> QED BY Zenon, <1>5, <1>9, <1>10 DEF RunningInv

\* Once the flushed Version is published it is in every directory that may
\* survive, and the WAL of the Immutable is obsolete.
LEMMA PublishedFlush ==
    ASSUME TypeInv, ExclusionOK, RunningInv, pc = "flush", HasImmutable,
           immutable.version_published
    PROVE  /\ ~Unpublished /\ ~Pending /\ ~Claimed /\ ~HasCompaction /\ state # "down"
           /\ mutable_generation = version.next_file_number
           /\ immutable.generation < version.next_file_number
           /\ version.next_file_number \in Nat /\ immutable.generation \in Nat
           /\ \A d \in past \cup {dir} :
                 /\ d.manifest.next_file_number = version.next_file_number
                 /\ d.manifest.last_sequence = version.last_sequence
                 /\ wal => mutable_generation \in d.wals
                 /\ \A g \in d.wals : g <= mutable_generation /\ g \in Nat
<1>1. ~Unpublished /\ ~Pending /\ ~Claimed /\ ~HasCompaction /\ state # "down"
    BY Zenon, FlushAlone DEF Unpublished
<1>2. mutable_generation = version.next_file_number
      /\ immutable.generation < version.next_file_number
    BY Zenon, <1>1 DEF RunningInv, GenerationsOK
<1>3. \A d \in past \cup {dir} :
          /\ d.manifest.next_file_number = version.next_file_number
          /\ d.manifest.last_sequence = version.last_sequence
          /\ wal => mutable_generation \in d.wals
          /\ \A g \in d.wals : g <= mutable_generation
    BY Zenon, <1>1 DEF RunningInv, DiskOK, NamesOK, KnownManifest
<1>4. \A d \in past \cup {dir} : \A g \in d.wals : g \in Nat
    BY Numbers DEF Generation
<1> QED BY SMTT(30), <1>1, <1>2, <1>3, <1>4, Numbers

\* Unlinking the WAL of the Immutable, whether or not the directory is synced.
LEMMA FlushRemoveWalDurable ==
    ASSUME TypeInv, ExclusionOK, RunningInv, FlushRemoveWal \/ FlushRemoveWalFails
    PROVE  RunningInv'
<1> DEFINE d == WithoutWal(dir, immutable.generation)
<1>1. pc = "flush" /\ HasImmutable /\ immutable.version_published
    BY Zenon DEF FlushRemoveWal, FlushRemoveWalFails
<1>2. /\ ~Unpublished /\ ~Pending /\ ~Claimed /\ ~HasCompaction /\ state # "down"
      /\ mutable_generation = version.next_file_number
      /\ immutable.generation < version.next_file_number
      /\ version.next_file_number \in Nat /\ immutable.generation \in Nat
      /\ \A e \in past \cup {dir} :
            /\ e.manifest.next_file_number = version.next_file_number
            /\ e.manifest.last_sequence = version.last_sequence
            /\ wal => mutable_generation \in e.wals
            /\ \A g \in e.wals : g <= mutable_generation /\ g \in Nat
    BY Zenon, <1>1, PublishedFlush
<1>3. /\ UNCHANGED <<log, state, version, mutable, mutable_generation, last_sequence, wal, compaction>>
      /\ Strict' \subseteq Strict
      /\ \/ UNCHANGED <<dir, past>>
         \/ dir' = d /\ past' = past \cup {dir}
         \/ dir' = d /\ past' = {}
    <2>1. Strict' \subseteq Strict
        BY Zenon, StrictStays DEF FlushRemoveWal, FlushRemoveWalFails, Proceed, IoError
    <2> QED BY Zenon, <2>1 DEF FlushRemoveWal, FlushRemoveWalFails, Proceed, IoError, ReturnError,
               Change,
                        ChangeAndSync
<1>4. d.manifest = dir.manifest /\ d.wals = dir.wals \ {immutable.generation}
    BY Zenon, DirectoryOps DEF TypeInv, TypeOK, TypeDisk
<1> HIDE DEF d
<1>5. /\ immutable'.records = immutable.records /\ immutable'.generation = immutable.generation
      /\ immutable'.version_published
    BY Zenon, <1>1 DEF FlushRemoveWal, FlushRemoveWalFails, TypeInv, TypeOK, TypeMemory,
                ImmutableGeneration
<1>6. ~Unpublished' /\ ~Pending' /\ ~Claimed' /\ ~HasCompaction'
    BY Zenon, <1>2, <1>3, <1>5 DEF Unpublished, Pending, Claimed, HasCompaction
<1>7. GenerationsOK'
    BY Zenon, <1>1, <1>2, <1>3, <1>5, <1>6 DEF RunningInv, GenerationsOK, HasImmutable
<1>8. CandidateOK'
    BY Zenon, <1>6 DEF CandidateOK
<1>9. StrictHeld'
    <2>1. ASSUME NEW q \in Strict PROVE Held(q)'
        BY Zenon, <1>2, <1>3 DEF Held, RunningInv, StrictHeld
    <2> QED BY Zenon, <1>3, <2>1 DEF StrictHeld
<1>10. ASSUME NEW e \in past' \cup {dir'}
       PROVE  /\ e.manifest.next_file_number = version.next_file_number
              /\ e.manifest.last_sequence = version.last_sequence
              /\ wal => mutable_generation \in e.wals
              /\ \A g \in e.wals : g <= mutable_generation /\ g \in Nat
    BY <1>2, <1>3, <1>4
<1>11. DiskOK'
    <2>1. ASSUME NEW e \in past' \cup {dir'} PROVE NamesOK(e.manifest, e.wals)'
        BY Zenon, <1>3, <1>6, <1>10 DEF NamesOK, KnownManifest
    <2> QED BY Zenon, <2>1 DEF DiskOK
<1>12. WalsOK'
    <2>1. ASSUME NEW e \in past' \cup {dir'} PROVE NoGap(e.manifest, e.wals)
        BY SMTT(30), <1>2, <1>10 DEF NoGap
    <2>2. ASSUME NEW e \in past' \cup {dir'}, NEW g \in e.wals \ dir'.wals
          PROVE  g < dir'.manifest.next_file_number
        <3>1. CASE g = immutable.generation
            BY Zenon, <1>2, <1>10, <3>1
        <3>2. CASE g # immutable.generation
            BY Zenon, <1>3, <1>4, <3>2 DEF RunningInv, WalsOK
        <3> QED BY Zenon, <3>1, <3>2
    <2> QED BY Zenon, <2>1, <2>2 DEF WalsOK
<1> QED BY Zenon, <1>7, <1>8, <1>9, <1>11, <1>12 DEF RunningInv

------------------------------------------------------------------------------
(* OpenMutableWal *)

\* While nothing is about to be published, every directory that may survive
\* has the frontiers of the Version in memory.
LEMMA Settled ==
    ASSUME TypeInv, RunningInv, state # "down", ~Unpublished, ~Pending, ~Claimed
    PROVE  /\ mutable_generation = version.next_file_number
           /\ mutable_generation \in Generation /\ mutable_generation \in Nat
           /\ \A d \in past \cup {dir} :
                 /\ d.manifest.next_file_number = version.next_file_number
                 /\ d.manifest.last_sequence = version.last_sequence
                 /\ wal => mutable_generation \in d.wals
                 /\ \A g \in d.wals : g <= mutable_generation /\ g \in Nat
<1>1. mutable_generation = version.next_file_number
    BY Zenon DEF RunningInv, GenerationsOK
<1>2. mutable_generation \in Generation /\ mutable_generation \in Nat
    BY SMTT(30), MutableGeneration, Numbers
<1>3. \A d \in past \cup {dir} :
          /\ d.manifest.next_file_number = version.next_file_number
          /\ d.manifest.last_sequence = version.last_sequence
          /\ wal => mutable_generation \in d.wals
          /\ \A g \in d.wals : g <= mutable_generation
    BY Zenon DEF RunningInv, DiskOK, NamesOK, KnownManifest
<1>4. \A d \in past \cup {dir} : \A g \in d.wals : g \in Nat
    BY SMTT(30), Numbers DEF Generation
<1> QED BY Zenon, <1>1, <1>2, <1>3, <1>4

\* Creating a WAL adds its name to the directory.
LEMMA WithWalFacts ==
    ASSUME TypeInv, NEW g \in Generation
    PROVE  WithWal(dir, g).manifest = dir.manifest /\ WithWal(dir, g).wals = dir.wals \cup {g}
BY Zenon, DirectoryOps DEF TypeInv, TypeOK, TypeDisk

\* The WAL that follows a published Version is opened, at the end of a flush or
\* of a compaction, which are then done, or the attempt fails.
LEMMA NextWalDurable ==
    ASSUME TypeInv, RunningInv, state # "down", ~Unpublished, ~Pending, ~Claimed,
           UNCHANGED <<state, version, mutable, mutable_generation, last_sequence>>,
           Strict' \subseteq Strict,
           \/ UNCHANGED diskVars
           \/ /\ ~wal /\ log' = Created(mutable_generation)
              /\ dir' = WithWal(dir, mutable_generation)
              /\ past' \subseteq past \cup {dir},
           \/ UNCHANGED <<immutable, compaction, wal>>
           \/ /\ ~HasImmutable' /\ ~HasCompaction'
              /\ immutable'.wal_removed_and_synced => immutable'.version_published
              /\ wal' = wal \/ (mutable_generation \in dir'.wals /\ wal' = TRUE)
              /\ past' = {} \/ wal' = wal
    PROVE  RunningInv'
<1>1. /\ mutable_generation = version.next_file_number
      /\ mutable_generation \in Generation /\ mutable_generation \in Nat
      /\ \A d \in past \cup {dir} :
            /\ d.manifest.next_file_number = version.next_file_number
            /\ d.manifest.last_sequence = version.last_sequence
            /\ wal => mutable_generation \in d.wals
            /\ \A g \in d.wals : g <= mutable_generation /\ g \in Nat
    BY Zenon, Settled
<1>2. ~Unpublished' /\ ~Pending' /\ ~Claimed'
    BY Zenon DEF Unpublished, Pending, Claimed, HasImmutable, HasCompaction
<1>3. GenerationsOK'
    BY Zenon, <1>1, <1>2 DEF RunningInv, GenerationsOK, HasImmutable, HasCompaction
<1>4. CandidateOK'
    BY Zenon, <1>2 DEF CandidateOK
<1>5. /\ dir'.manifest = dir.manifest
      /\ dir'.wals = dir.wals \/ dir'.wals = dir.wals \cup {mutable_generation}
    <2>1. LET d == WithWal(dir, mutable_generation)
          IN  d.manifest = dir.manifest /\ d.wals = dir.wals \cup {mutable_generation}
        BY Zenon, <1>1, WithWalFacts
    <2> QED BY Zenon, <2>1
<1>6. past' \subseteq past \cup {dir}
    BY Zenon
<1>7. ASSUME NEW e \in past' \cup {dir'}
      PROVE  /\ e.manifest.next_file_number = version.next_file_number
             /\ e.manifest.last_sequence = version.last_sequence
             /\ wal => mutable_generation \in e.wals
             /\ \A g \in e.wals : g <= mutable_generation /\ g \in Nat
    BY SMTT(30), <1>1, <1>5, <1>6
<1>8. DiskOK'
    <2>1. ASSUME NEW e \in past' \cup {dir'} PROVE NamesOK(e.manifest, e.wals)'
        <3>1. KnownManifest(e.manifest)'
            BY Zenon, <1>7 DEF KnownManifest
        <3>2. wal' => mutable_generation \in e.wals
            <4>1. CASE wal' = wal
                BY Zenon, <1>7, <4>1
            <4>2. CASE past' = {} /\ mutable_generation \in dir'.wals
                BY Zenon, <4>2
            <4> QED BY Zenon, <4>1, <4>2
        <3> QED BY Zenon, <1>2, <1>7, <3>1, <3>2 DEF NamesOK
    <2> QED BY Zenon, <2>1 DEF DiskOK
<1>9. WalsOK'
    <2>1. ASSUME NEW e \in past' \cup {dir'} PROVE NoGap(e.manifest, e.wals)
        BY SMTT(30), <1>1, <1>7 DEF NoGap
    <2>2. ASSUME NEW e \in past' \cup {dir'}, NEW g \in e.wals \ dir'.wals
          PROVE  g < dir'.manifest.next_file_number
        BY Zenon, <1>5, <1>6 DEF RunningInv, WalsOK
    <2> QED BY Zenon, <2>1, <2>2 DEF WalsOK
<1>10. StrictHeld'
    <2>1. mutable # {} => log' = log
        BY Zenon DEF RunningInv, GenerationsOK
    <2>2. ASSUME NEW q \in Strict PROVE Held(q)'
        BY Zenon, <2>1 DEF Held, RunningInv, StrictHeld
    <2> QED BY Zenon, <2>2 DEF StrictHeld
<1> QED BY Zenon, <1>3, <1>4, <1>8, <1>9, <1>10 DEF RunningInv

\* A flush ends with the WAL of the Mutable, if that was not opened before.
LEMMA FlushFinishDurable ==
    ASSUME TypeInv, ExclusionOK, RunningInv, FlushFinish \/ FlushFinishFails
    PROVE  RunningInv'
<1>1. pc = "flush" /\ HasImmutable /\ immutable.wal_removed_and_synced
    BY Zenon DEF FlushFinish, FlushFinishFails
<1>2. ~HasCompaction /\ ~Claimed /\ ~Pending /\ state # "down"
    BY Zenon, <1>1, FlushAlone
<1>3. ~Unpublished
    BY Zenon, <1>1, <1>2 DEF RunningInv, GenerationsOK, Unpublished
<1>4. mutable_generation \in Generation
    BY Zenon, <1>2, <1>3, Settled
<1>5. mutable_generation \in WithWal(dir, mutable_generation).wals
    BY Zenon, <1>4, WithWalFacts
<1>6. CASE FlushFinishFails
    <2>1. UNCHANGED <<memoryVars, state>> /\ acked' = acked /\ ReturnError
        BY Zenon, <1>6 DEF FlushFinishFails, OpenMutableWalFails, IoError, ReturnError
    <2>2. Strict' \subseteq Strict
        BY Zenon, <2>1, StrictStays
    <2>3. \/ UNCHANGED diskVars
          \/ /\ ~wal /\ log' = Created(mutable_generation)
             /\ dir' = WithWal(dir, mutable_generation)
             /\ past' \subseteq past \cup {dir}
        BY Zenon, <1>6 DEF FlushFinishFails, OpenMutableWalFails, Change
    <2> QED BY Zenon, <1>2, <1>3, <2>1, <2>2, <2>3, NextWalDurable
<1>7. CASE FlushFinish
    <2>1. /\ UNCHANGED <<state, version, mutable, mutable_generation, last_sequence, compaction>>
          /\ UNCHANGED <<op, arg, acked>> /\ wal' = TRUE /\ immutable' = NoImmutable
        BY Zenon, <1>7 DEF FlushFinish, Proceed, OpenMutableWal
    <2>2. Strict' \subseteq Strict
        BY Zenon, <2>1, StrictStays
    <2>3. ~HasImmutable' /\ ~immutable'.wal_removed_and_synced /\ ~HasCompaction'
        BY Zenon, <1>2, <2>1 DEF HasImmutable, NoImmutable, HasCompaction
    <2>4. CASE wal
        <3>1. UNCHANGED diskVars /\ wal' = wal
            BY Zenon, <1>7, <2>1, <2>4 DEF FlushFinish, OpenMutableWal, TypeInv, TypeOK,
               TypeFlags
        <3> QED BY Zenon, <1>2, <1>3, <2>1, <2>2, <2>3, <3>1, NextWalDurable
    <2>5. CASE ~wal
        <3>1. /\ log' = Created(mutable_generation) /\ dir' = WithWal(dir, mutable_generation)
              /\ past' = {}
            BY Zenon, <1>7, <2>5 DEF FlushFinish, OpenMutableWal, ChangeAndSync
        <3> QED BY Zenon, <1>2, <1>3, <1>5, <2>1, <2>2, <2>3, <2>5, <3>1, NextWalDurable
    <2> QED BY Zenon, <2>4, <2>5
<1> QED BY Zenon, <1>6, <1>7

\* What a compaction excludes.
LEMMA CompactionAlone ==
    ASSUME TypeInv, ExclusionOK, RunningInv, HasCompaction, pc = "compaction"
    PROVE  /\ state # "down" /\ ~HasImmutable /\ ~Unpublished /\ mutable = {}
           /\ mutable_generation = version.next_file_number
           /\ mutable_generation \in Generation /\ mutable_generation \in Nat
           /\ \A q \in Strict : q.sequence <= last_sequence /\ q.sequence <= version.last_sequence
<1>1. state # "down" /\ ~HasImmutable /\ mutable = {}
    BY Zenon, CallMeansUp DEF ExclusionOK
<1>2. ~Unpublished
    BY Zenon, <1>1 DEF Unpublished
<1>3. mutable_generation = version.next_file_number
    BY Zenon, <1>1, <1>2 DEF RunningInv, GenerationsOK
<1>4. mutable_generation \in Generation /\ mutable_generation \in Nat
    BY SMTT(30), <1>1, MutableGeneration, Numbers
<1>5. \A q \in Strict : q.sequence <= last_sequence /\ q.sequence <= version.last_sequence
    BY Zenon, <1>1, <1>2 DEF RunningInv, StrictHeld, Held
<1> QED BY Zenon, <1>1, <1>2, <1>3, <1>4, <1>5

\* A compaction ends with the WAL behind its outputs.
LEMMA CompactionFinishDurable ==
    ASSUME TypeInv, ExclusionOK, RunningInv, CompactionFinish \/ CompactionFinishFails
    PROVE  RunningInv'
<1>1. pc = "compaction" /\ HasCompaction /\ compaction.version_published
    BY Zenon DEF CompactionFinish, CompactionFinishFails, CleanupDone
<1>2. state # "down" /\ ~HasImmutable /\ ~Unpublished /\ mutable_generation \in Generation
    BY Zenon, <1>1, CompactionAlone
<1>3. ~Claimed /\ ~Pending
    BY Zenon, <1>1 DEF Claimed, Pending
<1>4. compaction.wal_generation_advanced => ~wal
    BY Zenon, <1>1, <1>2 DEF RunningInv, GenerationsOK
<1>5. mutable_generation \in WithWal(dir, mutable_generation).wals
    BY Zenon, <1>2, WithWalFacts
<1>6. CASE CompactionFinishFails
    <2>1. UNCHANGED <<memoryVars, state>> /\ acked' = acked /\ ReturnError
        BY Zenon, <1>6 DEF CompactionFinishFails, OpenMutableWalFails, IoError, ReturnError
    <2>2. Strict' \subseteq Strict
        BY Zenon, <2>1, StrictStays
    <2>3. \/ UNCHANGED diskVars
          \/ /\ ~wal /\ log' = Created(mutable_generation)
             /\ dir' = WithWal(dir, mutable_generation)
             /\ past' \subseteq past \cup {dir}
        BY Zenon, <1>6 DEF CompactionFinishFails, OpenMutableWalFails, Change
    <2> QED BY Zenon, <1>2, <1>3, <2>1, <2>2, <2>3, NextWalDurable
<1>7. CASE CompactionFinish
    <2>1. /\ UNCHANGED <<state, version, mutable, mutable_generation, last_sequence, immutable>>
          /\ UNCHANGED <<op, arg, acked>> /\ compaction' = NoCompaction
        BY Zenon, <1>7 DEF CompactionFinish, Proceed
    <2>2. Strict' \subseteq Strict
        BY Zenon, <2>1, StrictStays
    <2>3. ~HasImmutable' /\ ~HasCompaction'
        BY Zenon, <1>2, <2>1 DEF HasImmutable, NoCompaction, HasCompaction
    <2>4. immutable'.wal_removed_and_synced => immutable'.version_published
        BY Zenon, <1>2, <2>1 DEF RunningInv, GenerationsOK
    <2>5. CASE ~compaction.wal_generation_advanced
        <3>1. UNCHANGED diskVars /\ wal' = wal
            BY Zenon, <1>7, <2>5 DEF CompactionFinish
        <3>2. /\ ~HasImmutable' /\ ~HasCompaction'
              /\ immutable'.wal_removed_and_synced => immutable'.version_published
              /\ wal' = wal \/ (mutable_generation \in dir'.wals /\ wal' = TRUE)
              /\ past' = {} \/ wal' = wal
            BY Zenon, <2>3, <2>4, <3>1
        <3> QED BY Zenon, <1>2, <1>3, <2>1, <2>2, <3>1, <3>2, NextWalDurable
    <2>6. CASE compaction.wal_generation_advanced
        <3>1. /\ log' = Created(mutable_generation) /\ dir' = WithWal(dir, mutable_generation)
              /\ past' = {} /\ wal' = TRUE
            BY Zenon, <1>4, <1>7, <2>6 DEF CompactionFinish, OpenMutableWal, ChangeAndSync
        <3> QED BY Zenon, <1>2, <1>3, <1>4, <1>5, <2>1, <2>2, <2>3, <2>4, <2>6, <3>1,
                   NextWalDurable
    <2> QED BY Zenon, <2>5, <2>6
<1> QED BY Zenon, <1>6, <1>7

------------------------------------------------------------------------------
(* PrepareCompaction and ContinueCompaction *)

\* Planning a compaction gives its outputs the number of the empty active WAL,
\* which from here on holds nothing to be recovered.
LEMMA PrepareDurable ==
    ASSUME TypeInv, RunningInv, Prepare
    PROVE  RunningInv'
<1>1. /\ mutable = {} /\ ~HasImmutable /\ ~HasCompaction /\ pc # "idle"
    BY Zenon DEF Prepare, MayCompact, PrepareAccepted
<1>2. state # "down" /\ ~Unpublished /\ ~Pending /\ ~Claimed
    BY Zenon, <1>1, CallMeansUp DEF Unpublished, Pending, Claimed
<1>3. /\ UNCHANGED <<dir, past, log, state, version, mutable, mutable_generation, last_sequence,
                     wal, immutable, op, arg, acked>>
      /\ compaction' = PreparedCompaction
    BY Zenon DEF Prepare, Proceed
<1>4. /\ compaction'.candidate = NoVersion /\ compaction'.version_published = FALSE
      /\ compaction'.stale_wal = 0 /\ compaction'.wal_generation_advanced = FALSE
    BY Zenon, <1>3 DEF PreparedCompaction, NoCompaction
<1>5. ~HasImmutable' /\ ~Unpublished' /\ ~Pending'
    BY Zenon, <1>1, <1>2, <1>3, <1>4 DEF HasImmutable, Unpublished, Pending
<1>6. GenerationsOK'
    BY Zenon, <1>1, <1>2, <1>3, <1>4, <1>5 DEF RunningInv, GenerationsOK
<1>7. CandidateOK'
    BY Zenon, <1>5 DEF CandidateOK
<1>8. \A m, wals : NamesOK(m, wals) => NamesOK(m, wals)'
    BY Zenon, <1>2, <1>3, <1>5 DEF NamesOK, KnownManifest
<1>9. DiskOK'
    BY Zenon, <1>2, <1>3, <1>8 DEF RunningInv, DiskOK
<1>10. WalsOK'
    BY Zenon, <1>3 DEF RunningInv, WalsOK
<1>11. StrictHeld'
    <2>1. ASSUME NEW q \in Strict PROVE Held(q)'
        BY Zenon, <1>1, <1>2, <1>3 DEF Held, RunningInv, StrictHeld
    <2> QED BY Zenon, <1>3, <2>1, StrictStays DEF StrictHeld
<1> QED BY Zenon, <1>6, <1>7, <1>9, <1>10, <1>11 DEF RunningInv

\* Publishing the compacted Version: nothing is in a WAL, and the WAL whose
\* number the first output took is given up.
LEMMA CompactionManifestDurable ==
    ASSUME TypeInv, TypeInv', ExclusionOK, RunningInv, CompactionManifest,
           compaction.candidate # NoVersion \/ CompactionEditAccepted
    PROVE  RunningInv'
<1> DEFINE c == CompactionCandidate
           advanced == compaction.outputs # {}
<1>1. HasCompaction /\ pc = "compaction" /\ ~compaction.version_published
    BY Zenon DEF CompactionManifest, CompactionManifestDue
<1>2. /\ state # "down" /\ ~HasImmutable /\ ~Unpublished /\ mutable = {}
      /\ mutable_generation = version.next_file_number
      /\ mutable_generation \in Generation /\ mutable_generation \in Nat
      /\ \A q \in Strict : q.sequence <= last_sequence /\ q.sequence <= version.last_sequence
    BY Zenon, <1>1, CompactionAlone
<1>3. /\ c.last_sequence = version.last_sequence
      /\ ~advanced => c.next_file_number = version.next_file_number
      /\ advanced => c.next_file_number > version.next_file_number
      /\ c.next_file_number >= version.next_file_number /\ c.next_file_number \in Nat
    BY Zenon, <1>1, CandidateFrontiers
<1>4. dir'.manifest = c /\ dir'.wals = dir.wals /\ past' = {}
    <2>1. c \in VersionType
        BY Zenon, <1>1, CandidateFacts
    <2>2. LET d == WithManifest(dir, c) IN d.manifest = c /\ d.wals = dir.wals
        BY Zenon, <2>1, DirectoryOps DEF TypeInv, TypeOK, TypeDisk
    <2> QED BY Zenon, <2>2 DEF CompactionManifest, ChangeAndSync
<1>5. /\ UNCHANGED <<log, state, mutable, last_sequence, immutable, op, arg, acked>>
      /\ version' = c
      /\ mutable_generation' = IF advanced THEN c.next_file_number ELSE mutable_generation
      /\ advanced => ~wal'
      /\ wal' => wal
    BY Zenon DEF CompactionManifest, Proceed
<1>6. /\ compaction'.version_published /\ compaction'.outputs = compaction.outputs
      /\ compaction'.wal_generation_advanced <=> advanced
      /\ compaction'.stale_wal = IF advanced THEN mutable_generation ELSE 0
    BY Zenon DEF CompactionManifest, TypeInv, TypeOK, TypeMemory, CompactionState
<1> HIDE DEF c
<1>7. ~HasImmutable' /\ ~Unpublished' /\ ~Pending' /\ ~Claimed'
    BY Zenon, <1>2, <1>5, <1>6 DEF HasImmutable, Unpublished, Pending, Claimed
<1>8. GenerationsOK'
    BY Zenon, <1>2, <1>3, <1>5, <1>6, <1>7 DEF RunningInv, GenerationsOK
<1>9. CandidateOK'
    BY Zenon, <1>7 DEF CandidateOK
<1>10. \A g \in dir.wals : g <= mutable_generation /\ g \in Nat
    <2>1. dir.wals \subseteq Nat
        BY Zenon, DirectoryNumbers
    <2> QED BY Zenon, <1>2, <2>1 DEF RunningInv, DiskOK, NamesOK
<1>11. DiskOK'
    <2>1. wal' => mutable_generation \in dir.wals /\ mutable_generation' = mutable_generation
        BY Zenon, <1>2, <1>5 DEF RunningInv, DiskOK, NamesOK, Claimed
    <2>2. \A g \in dir.wals : g <= mutable_generation'
        <3>1. mutable_generation' >= mutable_generation
            BY Zenon, <1>2, <1>3, <1>5
        <3>2. mutable_generation \in Nat /\ mutable_generation' \in Nat
            BY Zenon, <1>3, <1>5, FileNumbers
        <3> QED BY SMTT(30), <1>10, <3>1, <3>2
    <2>3. NamesOK(dir.manifest, dir.wals)'
        BY Zenon, <1>4, <1>5, <1>7, <2>1, <2>2 DEF NamesOK, KnownManifest
    <2> QED BY Zenon, <1>4, <2>3 DEF DiskOK
<1>12. WalsOK'
    <2>1. c.next_file_number + 1 \notin dir.wals
        <3>1. mutable_generation <= c.next_file_number
            BY Zenon, <1>2, <1>3
        <3>2. mutable_generation \in Nat /\ c.next_file_number \in Nat
            BY Zenon, <1>2, <1>3
        <3> QED BY <1>10, <3>1, <3>2
    <2> QED BY Zenon, <1>4, <2>1 DEF WalsOK, NoGap
<1>13. StrictHeld'
    <2>1. ASSUME NEW q \in Strict PROVE Held(q)'
        BY Zenon, <1>2, <1>3, <1>5 DEF Held
    <2> QED BY Zenon, <1>5, <2>1, StrictStays DEF StrictHeld
<1> QED BY Zenon, <1>8, <1>9, <1>11, <1>12, <1>13 DEF RunningInv

\* A compaction whose MANIFEST was renamed but not synced keeps its candidate.
LEMMA CompactionManifestFailsDurable ==
    ASSUME TypeInv, TypeInv', ExclusionOK, RunningInv, CompactionManifestFails
    PROVE  RunningInv'
<1> DEFINE c == CompactionCandidate
           d == WithManifest(dir, c)
<1>1. HasCompaction /\ pc = "compaction" /\ ~compaction.version_published
    BY Zenon DEF CompactionManifestFails, CompactionManifestDue
<1>2. /\ state # "down" /\ ~HasImmutable /\ ~Unpublished /\ mutable = {}
      /\ mutable_generation = version.next_file_number
      /\ mutable_generation \in Generation /\ mutable_generation \in Nat
      /\ \A q \in Strict : q.sequence <= last_sequence /\ q.sequence <= version.last_sequence
    BY Zenon, <1>1, CompactionAlone
<1>3. /\ c.last_sequence = version.last_sequence
      /\ compaction.outputs = {} => c.next_file_number = version.next_file_number
      /\ compaction.outputs # {} => c.next_file_number > version.next_file_number
      /\ c.next_file_number >= version.next_file_number /\ c.next_file_number \in Nat
      /\ c # NoVersion
      /\ compaction.candidate # NoVersion => c = compaction.candidate
    BY Zenon, <1>1, CandidateFrontiers DEF CompactionManifestFails
<1>4. d.manifest = c /\ d.wals = dir.wals
    <2>1. c \in VersionType
        BY Zenon, <1>1, CandidateFacts
    <2> QED BY Zenon, <2>1, DirectoryOps DEF TypeInv, TypeOK, TypeDisk
<1>5. /\ UNCHANGED <<log, state, version, mutable, mutable_generation, last_sequence, wal, immutable>>
      /\ (UNCHANGED <<dir, past>>) \/ (dir' = d /\ past' = past \cup {dir})
      /\ acked' = acked /\ ReturnError
    BY Zenon DEF CompactionManifestFails, IoError, ReturnError, Change
<1>6. /\ compaction'.candidate = c /\ compaction'.inputs = compaction.inputs
      /\ compaction'.version_published = compaction.version_published
      /\ compaction'.outputs = compaction.outputs
      /\ compaction'.wal_generation_advanced = compaction.wal_generation_advanced
      /\ compaction'.stale_wal = compaction.stale_wal
    BY Zenon DEF CompactionManifestFails, TypeInv, TypeOK, TypeMemory, CompactionState
<1> HIDE DEF c, d
<1>7. /\ ~HasImmutable' /\ ~Unpublished' /\ Pending' /\ Claimed' = Claimed
      /\ HasCompaction' = HasCompaction
    BY Zenon, <1>1, <1>2, <1>3, <1>5, <1>6 DEF HasImmutable, Unpublished, Pending, Claimed,
       HasCompaction
<1>8. GenerationsOK'
    BY Zenon, <1>2, <1>5, <1>6, <1>7 DEF RunningInv, GenerationsOK
<1>9. CandidateOK'
    BY Zenon, <1>3, <1>5, <1>6 DEF CandidateOK
<1>10. ASSUME NEW e \in past \cup {dir}
       PROVE  /\ NamesOK(e.manifest, e.wals)
              /\ \/ /\ e.manifest.next_file_number = version.next_file_number
                    /\ e.manifest.last_sequence = version.last_sequence
                 \/ /\ e.manifest.next_file_number = c.next_file_number
                    /\ e.manifest.last_sequence = c.last_sequence
              /\ \A g \in e.wals : g <= mutable_generation /\ g \in Nat
    <2>1. NamesOK(e.manifest, e.wals)
        BY Zenon, <1>2 DEF RunningInv, DiskOK
    <2>2. \A g \in e.wals : g \in Nat
        BY Zenon, DirectoryNumbers
    <2> QED BY Zenon, <1>2, <1>3, <2>1, <2>2 DEF NamesOK, KnownManifest, Pending
<1>11. DiskOK'
    <2>1. ASSUME NEW e \in past \cup {dir} PROVE NamesOK(e.manifest, e.wals)'
        BY Zenon, <1>5, <1>6, <1>7, <1>10 DEF NamesOK, KnownManifest
    <2>2. ASSUME NEW e, e = d PROVE NamesOK(e.manifest, e.wals)'
        <3>1. NamesOK(dir.manifest, dir.wals)
            BY Zenon, <1>10
        <3>2. KnownManifest(e.manifest)'
            BY Zenon, <1>4, <1>6, <1>7, <2>2 DEF KnownManifest
        <3> QED BY Zenon, <1>4, <1>5, <1>7, <2>2, <3>1, <3>2 DEF NamesOK
    <2> QED BY Zenon, <1>5, <2>1, <2>2 DEF DiskOK
<1>12. WalsOK'
    <2>1. NoGap(d.manifest, d.wals)
        <3>1. c.next_file_number + 1 \notin dir.wals
            <4>1. mutable_generation <= c.next_file_number
                BY Zenon, <1>2, <1>3
            <4>2. mutable_generation \in Nat /\ c.next_file_number \in Nat
                BY Zenon, <1>2, <1>3
            <4>3. \A g \in dir.wals : g <= mutable_generation /\ g \in Nat
                BY Zenon, <1>10
            <4> QED BY <4>1, <4>2, <4>3
        <3> QED BY Zenon, <1>4, <3>1 DEF NoGap
    <2>2. ASSUME NEW e \in past \cup {dir}, NEW g \in e.wals \ dir.wals
          PROVE  g < c.next_file_number
        <3>1. g < dir.manifest.next_file_number /\ g \in Nat
            BY Zenon, <1>10 DEF RunningInv, WalsOK
        <3>2. dir.manifest.next_file_number <= c.next_file_number
              /\ dir.manifest.next_file_number \in Nat
            <4>1. dir.manifest.next_file_number \in Nat
                BY Zenon, DirectoryNumbers
            <4>2. version.next_file_number \in Nat
                BY Zenon, FileNumbers
            <4>3. \/ dir.manifest.next_file_number = version.next_file_number
                  \/ dir.manifest.next_file_number = c.next_file_number
                BY Zenon, <1>10
            <4>4. c.next_file_number >= version.next_file_number /\ c.next_file_number \in Nat
                BY Zenon, <1>3
            <4> QED BY SMTT(30), <4>1, <4>2, <4>3, <4>4
        <3> QED BY <1>3, <3>1, <3>2
    <2> QED BY Zenon, <1>4, <1>5, <2>1, <2>2 DEF RunningInv, WalsOK
<1>13. StrictHeld'
    <2>1. ASSUME NEW q \in Strict PROVE Held(q)'
        BY Zenon, <1>2, <1>5 DEF Held
    <2> QED BY Zenon, <1>5, <2>1, StrictStays DEF StrictHeld
<1> QED BY Zenon, <1>8, <1>9, <1>11, <1>12, <1>13 DEF RunningInv

\* The WAL that a compaction unlinks last is behind the frontier.
LEMMA CompactionRemoveWalDurable ==
    ASSUME TypeInv, ExclusionOK, RunningInv, CompactionRemove, compaction.cleanup = {}
    PROVE  RunningInv'
<1> DEFINE s == compaction.stale_wal
           d == WithoutWal(dir, s)
<1>1. HasCompaction /\ pc = "compaction" /\ compaction.version_published /\ s # 0
    BY Zenon DEF CompactionRemove, CleanupDue
<1>2. /\ state # "down" /\ ~HasImmutable /\ ~Unpublished /\ mutable = {}
      /\ \A q \in Strict : q.sequence <= last_sequence /\ q.sequence <= version.last_sequence
    BY Zenon, <1>1, CompactionAlone
<1>3. ~Pending /\ ~Claimed
    BY Zenon, <1>1 DEF Pending, Claimed
<1>4. /\ mutable_generation = version.next_file_number
      /\ mutable_generation \in Generation /\ mutable_generation \in Nat
      /\ \A e \in past \cup {dir} :
            /\ e.manifest.next_file_number = version.next_file_number
            /\ e.manifest.last_sequence = version.last_sequence
            /\ wal => mutable_generation \in e.wals
            /\ \A g \in e.wals : g <= mutable_generation /\ g \in Nat
    BY Zenon, <1>2, <1>3, Settled
<1>5. ~wal /\ s < version.next_file_number
    BY Zenon, <1>1, <1>2 DEF RunningInv, GenerationsOK
<1>6. d.manifest = dir.manifest /\ d.wals = dir.wals \ {s}
    BY Zenon, DirectoryOps DEF TypeInv, TypeOK, TypeDisk
<1>7. /\ UNCHANGED <<log, state, version, mutable, mutable_generation, last_sequence, wal,
                     immutable, op, arg, acked>>
      /\ dir' = d /\ past' = past \cup {dir}
    BY Zenon DEF CompactionRemove, Change, Proceed
<1>8. /\ compaction'.stale_wal = 0 /\ compaction'.inputs = compaction.inputs
      /\ compaction'.version_published = compaction.version_published
      /\ compaction'.outputs = compaction.outputs
      /\ compaction'.wal_generation_advanced = compaction.wal_generation_advanced
    BY Zenon DEF CompactionRemove, TypeInv, TypeOK, TypeMemory, CompactionState
<1> HIDE DEF d, s
<1>9. ~HasImmutable' /\ ~Unpublished' /\ ~Pending' /\ HasCompaction' = HasCompaction
    BY Zenon, <1>1, <1>2, <1>7, <1>8 DEF HasImmutable, Unpublished, Pending, HasCompaction
<1>10. GenerationsOK'
    BY Zenon, <1>2, <1>7, <1>8, <1>9 DEF RunningInv, GenerationsOK
<1>11. CandidateOK'
    BY Zenon, <1>9 DEF CandidateOK
<1>12. ASSUME NEW e \in past' \cup {dir'}
       PROVE  /\ e.manifest.next_file_number = version.next_file_number
              /\ e.manifest.last_sequence = version.last_sequence
              /\ \A g \in e.wals : g <= mutable_generation /\ g \in Nat
    BY Zenon, <1>4, <1>6, <1>7
<1>13. DiskOK'
    <2>1. ASSUME NEW e \in past' \cup {dir'} PROVE NamesOK(e.manifest, e.wals)'
        BY Zenon, <1>5, <1>7, <1>9, <1>12 DEF NamesOK, KnownManifest
    <2> QED BY Zenon, <2>1 DEF DiskOK
<1>14. WalsOK'
    <2>1. ASSUME NEW e \in past' \cup {dir'} PROVE NoGap(e.manifest, e.wals)
        <3>1. mutable_generation \in Nat /\ mutable_generation = version.next_file_number
            BY Zenon, <1>4
        <3>2. e.manifest.next_file_number + 1 \notin e.wals
            BY SMTT(30), <1>12, <3>1
        <3> QED BY Zenon, <3>2 DEF NoGap
    <2>2. ASSUME NEW e \in past' \cup {dir'}, NEW g \in e.wals \ dir'.wals
          PROVE  g < dir'.manifest.next_file_number
        <3>1. CASE g = s
            BY Zenon, <1>5, <1>12, <3>1
        <3>2. CASE g # s
            BY Zenon, <1>6, <1>7, <3>2 DEF RunningInv, WalsOK
        <3> QED BY Zenon, <3>1, <3>2
    <2> QED BY Zenon, <2>1, <2>2 DEF WalsOK
<1>15. StrictHeld'
    <2>1. ASSUME NEW q \in Strict PROVE Held(q)'
        BY Zenon, <1>2, <1>7 DEF Held
    <2> QED BY Zenon, <1>7, <2>1, StrictStays DEF StrictHeld
<1> QED BY Zenon, <1>10, <1>11, <1>13, <1>14, <1>15 DEF RunningInv

\* A check that refuses to go on leaves disk and memory alone.
LEMMA RefusedDurable ==
    ASSUME RunningInv, state # "down", Refused PROVE RunningInv'
<1>1. SameMemory /\ SameNames /\ log' = log
    BY Zenon DEF Refused, SameMemory, SameNames
<1>2. Strict' \subseteq Strict
    BY Zenon, StrictStays DEF Refused
<1> QED BY Zenon, <1>1, <1>2, QuietStep

------------------------------------------------------------------------------
(* Crashes, and the end of Close *)

\* Nothing is running, and the disk holds every strict write.
LEMMA DownDurable ==
    ASSUME state' = "down", compaction' = NoCompaction, WalsOK', StrictDurable'
    PROVE  RunningInv' /\ StrictDurable'
<1>1. CandidateOK'
    BY Zenon DEF CandidateOK, Pending, HasCompaction, NoCompaction
<1> QED BY Zenon, <1>1 DEF RunningInv, GenerationsOK, DiskOK, StrictHeld

\* A process that is killed, or that closes the database, leaves the disk alone.
LEMMA GoneDurable ==
    ASSUME TypeInv, RunningInv, StrictDurable, ProcessCrash \/ (Return /\ op = "close")
    PROVE  RunningInv' /\ StrictDurable'
<1>1. UNCHANGED diskVars /\ state' = "down" /\ compaction' = NoCompaction
    BY Zenon DEF ProcessCrash, Return, Forget
<1>2. Strict' \subseteq Strict
    BY Zenon, StrictStays DEF ProcessCrash, Forget
<1>3. WalsOK'
    BY Zenon, <1>1 DEF RunningInv, WalsOK
<1>4. StrictDurable'
    BY Zenon, <1>1, <1>2 DEF StrictDurable, Recoverable
<1> QED BY Zenon, <1>1, <1>3, <1>4, DownDurable

\* A power failure keeps what a SyncDirectory or an fdatasync reported durable.
LEMMA PowerFailureDurable ==
    ASSUME StrictSetting, TypeInv, RunningInv, StrictDurable, PowerFailure
    PROVE  RunningInv' /\ StrictDurable'
<1> DEFINE Kept(g, cut) == {r \in log[g].records :
                               r.sequence <= cut[g] \/ r.sequence <= log[g].synced}
<1>1. state' = "down" /\ compaction' = NoCompaction /\ past' = {}
    BY Zenon DEF PowerFailure, Forget
<1>2. Strict' \subseteq Strict
    BY Zenon, StrictStays DEF PowerFailure, Forget
<1>3. PICK d \in Survivors :
          /\ dir' = d
          /\ \E cut \in [d.wals -> {0} \cup Sequences(UNION {log[g].records : g \in d.wals})] :
                log' = [g \in Generation |->
                          IF g \notin d.wals THEN EmptyWal
                          ELSE [records |-> Kept(g, cut),
                                synced |-> MaximumSequence(Kept(g, cut))]]
    BY Zenon DEF PowerFailure
<1>4. d \in past \cup {dir}
    BY SMTT(30) DEF Survivors, StrictSetting
<1>5. PICK cut : log' = [g \in Generation |->
                          IF g \notin d.wals THEN EmptyWal
                          ELSE [records |-> Kept(g, cut),
                                synced |-> MaximumSequence(Kept(g, cut))]]
    BY Zenon, <1>3
<1>6. WalsOK'
    BY Zenon, <1>1, <1>3, <1>4 DEF RunningInv, WalsOK
<1>7. StrictDurable'
    <2>1. ASSUME NEW r \in Strict PROVE Recoverable(d, r)'
        <3>1. Recoverable(d, r)
            BY Zenon, <1>4 DEF StrictDurable
        <3>2. CASE r.sequence <= d.manifest.last_sequence
            BY Zenon, <3>2 DEF Recoverable
        <3>3. CASE \E g \in Unmatched(d) : r \in log[g].records /\ r.sequence <= log[g].synced
            <4>1. PICK g \in Unmatched(d) : r \in log[g].records /\ r.sequence <= log[g].synced
                BY Zenon, <3>3
            <4>2. g \in d.wals /\ g \in Generation /\ log[g].records \in SUBSET Record
                BY Zenon, <1>4, Numbers DEF Unmatched
            <4>3. r \in Kept(g, cut) /\ Kept(g, cut) \in SUBSET Record
                BY Zenon, <4>1, <4>2
            <4>4. r.sequence <= MaximumSequence(Kept(g, cut))
                BY Zenon, <4>3, MaximumSequenceOf
            <4>5. /\ log'[g].records = Kept(g, cut)
                  /\ log'[g].synced = MaximumSequence(Kept(g, cut))
                BY Zenon, <1>5, <4>2
            <4> QED BY Zenon, <4>3, <4>4, <4>5 DEF Recoverable
        <3> QED BY Zenon, <3>1, <3>2, <3>3 DEF Recoverable
    <2> QED BY Zenon, <1>1, <1>2, <1>3, <2>1 DEF StrictDurable
<1> QED BY Zenon, <1>1, <1>6, <1>7, DownDurable

------------------------------------------------------------------------------
(* Open *)

\* Open puts the strict writes of the WALs into the Mutable and the Immutable.
LEMMA OpenDurable ==
    ASSUME TypeInv, TypeInv', RunningInv, StrictDurable, Open
    PROVE  RunningInv'
<1> DEFINE d == Founded(dir)
           v == d.manifest
           next == v.next_file_number
           unmatched == Unmatched(d)
           two == unmatched = {next, next + 1}
           active == ActiveGeneration(d)
           recovered == UNION {log[g].records : g \in unmatched}
           last == MaximumSequence(recovered)
           frontier == IF last > v.last_sequence THEN last ELSE v.last_sequence
<1>0. OpenAccepts(dir, log) /\ state = "down"
    BY Zenon DEF Open
<1>1. /\ next \in Generation /\ active \in Generation
      /\ dir.manifest # NoVersion => d = dir
      /\ dir.manifest = NoVersion => Strict = {} /\ dir.wals = {}
      /\ unmatched \subseteq {next, next + 1}
      /\ next + 1 \in unmatched => active = next + 1 /\ next \in unmatched
      /\ next + 1 \notin unmatched => active = next
    BY Zenon, <1>0, Accepted
<1>2. /\ Opened(d).manifest = v /\ Opened(d).wals = unmatched \cup {active}
      /\ \A g \in unmatched \cup {active} : g <= active
      /\ next + 1 \in unmatched \cup {active} => next \in unmatched \cup {active}
    BY Zenon, <1>0, OpenedWals
<1>3. /\ d \in Directory /\ d.wals = dir.wals
    BY Zenon, <1>0, OpenFacts DEF TypeInv, TypeOK, TypeDisk
<1>4. /\ v \in VersionType /\ v.last_sequence \in 0 .. MaxSequence
      /\ unmatched \in SUBSET Generation
    BY Zenon, <1>3, DirectoryOps, VersionOps DEF Unmatched
<1>5. /\ state' = "running" /\ version' = v /\ mutable_generation' = active /\ wal' = TRUE
      /\ mutable' = Newest(IF active \in unmatched THEN log[active].records ELSE {})
      /\ immutable' = IF two
                      THEN [NoImmutable EXCEPT !.generation = next,
                                               !.records = Newest(log[next].records)]
                      ELSE NoImmutable
      /\ last_sequence' = frontier
      /\ dir' = Opened(d) /\ past' = {} /\ log' = Created(active)
      /\ UNCHANGED <<compaction, op, arg, acked>>
    BY Zenon DEF Open, ChangeAndSync
<1>6. last \in Nat /\ \A r \in recovered : r.sequence <= last
    <2>1. recovered \in SUBSET Record
        BY Zenon, <1>4, Numbers
    <2> QED BY <2>1, MaximumSequenceOf
<1>7. active \in unmatched => log' = log
    BY Zenon, <1>3, <1>5 DEF Created, Unmatched
<1>8. compaction' = NoCompaction
    BY Zenon, <1>0, <1>5 DEF TypeInv, DownIsEmpty
<1>9. two => log[next].records # {} /\ next + 1 \in unmatched
    <2>1. two => d = dir
        BY Zenon, <1>1, <1>3 DEF Unmatched
    <2>2. two => log[next].records # {}
        BY Zenon, <1>0, <1>1, <1>3, <2>1 DEF OpenAccepts, Unmatched
    <2> QED BY Zenon, <2>2
<1>10. ~two => active = next
    BY Zenon, <1>1
<1> HIDE DEF d, v, next, two, active, recovered, last, frontier, unmatched
<1>11. /\ ~HasCompaction' /\ ~Pending' /\ ~Claimed'
    BY Zenon, <1>8 DEF HasCompaction, NoCompaction, Pending, Claimed
<1>12. ASSUME two
       PROVE  /\ immutable'.generation = next /\ immutable'.records = Newest(log[next].records)
              /\ ~immutable'.version_published /\ ~immutable'.wal_removed_and_synced
              /\ HasImmutable' /\ Unpublished'
              /\ \A r \in log[next].records : r.sequence <= MaximumSequence(immutable'.records)
    <2>1. log[next].records \in SUBSET Record /\ log[next].records # {}
        BY Zenon, <1>1, <1>9, <1>12, Numbers
    <2>2. /\ Newest(log[next].records) \in SUBSET Record /\ Newest(log[next].records) # {}
          /\ \A r \in log[next].records : r.sequence <= MaximumSequence(Newest(log[next].records))
        BY Zenon, <2>1, NewestOf
    <2>3. /\ immutable'.generation = next /\ immutable'.records = Newest(log[next].records)
          /\ ~immutable'.version_published /\ ~immutable'.wal_removed_and_synced
        BY Zenon, <1>1, <1>5, <1>12, <2>2, ImmutableOf
    <2> QED BY Zenon, <2>2, <2>3 DEF HasImmutable, Unpublished
<1>13. ASSUME ~two
       PROVE  ~HasImmutable' /\ ~Unpublished' /\ ~immutable'.wal_removed_and_synced
    BY Zenon, <1>5, <1>13 DEF HasImmutable, Unpublished, NoImmutable
<1>14. GenerationsOK'
    <2>1. CASE two
        BY SMTT(30), <1>1, <1>5, <1>9, <1>11, <1>12, <2>1 DEF GenerationsOK, Generation, next
    <2>2. CASE ~two
        BY Zenon, <1>5, <1>10, <1>11, <1>13, <2>2 DEF GenerationsOK, next
    <2> QED BY Zenon, <2>1, <2>2
<1>15. CandidateOK'
    BY Zenon, <1>11 DEF CandidateOK
<1>16. DiskOK'
    <2>1. Unpublished' => immutable'.generation \in unmatched
        BY Zenon, <1>1, <1>9, <1>12, <1>13
    <2>2. NamesOK(dir.manifest, dir.wals)'
        BY Zenon, <1>2, <1>5, <2>1 DEF NamesOK, KnownManifest
    <2> QED BY Zenon, <1>5, <2>2 DEF DiskOK
<1>17. WalsOK'
    BY Zenon, <1>2, <1>5 DEF WalsOK, NoGap, next
<1>18. StrictHeld'
    <2>1. ASSUME NEW r \in Strict PROVE Held(r)'
        <3>1. d = dir /\ Recoverable(dir, r) /\ r.sequence \in Nat
            BY SMTT(30), <1>1, Numbers DEF StrictDurable
        <3>2. frontier >= last /\ frontier >= v.last_sequence /\ frontier \in Nat
              /\ v.last_sequence \in Nat
            BY SMTT(30), <1>4, <1>6 DEF frontier
        <3>3. CASE r.sequence <= v.last_sequence
            BY SMTT(30), <1>5, <3>1, <3>2, <3>3 DEF Held
        <3>4. CASE \E g \in unmatched : r \in log[g].records /\ r.sequence <= log[g].synced
            <4>1. PICK g \in unmatched : r \in log[g].records /\ r.sequence <= log[g].synced
                BY Zenon, <3>4
            <4>2. r \in recovered
                BY Zenon, <4>1 DEF recovered
            <4>3. r.sequence <= last_sequence'
                BY SMTT(30), <1>5, <1>6, <3>1, <3>2, <4>2
            <4>4. CASE g = active
                <5>1. log[active].records \in SUBSET Record
                    BY Zenon, <1>1, Numbers
                <5>2. mutable' = Newest(log[active].records) /\ log' = log
                    BY Zenon, <1>5, <1>7, <4>1, <4>4
                <5>3. mutable' # {} /\ r.sequence <= MaximumSequence(mutable')
                    BY Zenon, <4>1, <4>4, <5>1, <5>2, NewestOf
                <5> QED BY Zenon, <1>5, <4>1, <4>3, <4>4, <5>2, <5>3 DEF Held
            <4>5. CASE g # active
                <5>1. g = next /\ next + 1 \in unmatched /\ active = next + 1
                    BY <1>1, <4>1, <4>5
                <5>2. two /\ log' = log
                    BY Zenon, <1>1, <1>7, <5>1 DEF two
                <5> QED BY Zenon, <1>5, <1>12, <4>1, <4>3, <5>1, <5>2 DEF Held
            <4> QED BY Zenon, <4>4, <4>5
        <3> QED BY Zenon, <3>1, <3>3, <3>4 DEF Recoverable, v, unmatched
    <2> QED BY Zenon, <1>5, <2>1, StrictStays DEF StrictHeld
<1> QED BY Zenon, <1>14, <1>15, <1>16, <1>17, <1>18 DEF RunningInv

\* A strict write stays in a directory whose frontier and replayed WALs stay.
LEMMA SameReplay ==
    ASSUME NEW e, NEW f, NEW r, Recoverable(e, r), f.manifest = e.manifest,
           \A g \in Unmatched(e) : g \in f.wals /\ log'[g] = log[g]
    PROVE  Recoverable(f, r)'
<1>1. Unmatched(e) \subseteq Unmatched(f)
    BY Zenon DEF Unmatched
<1> QED BY Zenon, <1>1 DEF Recoverable

\* Open that fails or is cut short has founded the database, removed obsolete
\* files or created the WAL it goes on with.
LEMMA OpenFailsDurable ==
    ASSUME TypeInv, TypeInv', RunningInv, StrictDurable, OpenFails
    PROVE  RunningInv' /\ StrictDurable'
<1> DEFINE d == Founded(dir)
           next == d.manifest.next_file_number
           active == ActiveGeneration(d)
           cleaned == Cleaned(d, OrphanTables(d), ObsoleteWals(d))
<1>0. OpenAccepts(dir, log) /\ state = "down" /\ state' = "down"
    BY Zenon DEF OpenFails
<1>1. compaction' = NoCompaction
    BY Zenon, <1>0 DEF OpenFails, TypeInv, DownIsEmpty
<1>2. Strict' = Strict
    BY Zenon, StrictStays DEF OpenFails
<1>3. /\ next \in Generation /\ active \in Generation /\ active >= next
      /\ dir.manifest # NoVersion => d = dir
      /\ dir.manifest = NoVersion =>
            /\ d = WithManifest(dir, NewDatabase) /\ Strict = {}
            /\ \A e \in past \cup {dir} : e.wals = {}
    <2>1. /\ next \in Generation /\ active \in Generation
          /\ active = next \/ active = next + 1
          /\ dir.manifest # NoVersion => d = dir
          /\ dir.manifest = NoVersion =>
                /\ d = WithManifest(dir, NewDatabase) /\ Strict = {}
                /\ \A e \in past \cup {dir} : e.wals = {}
        BY Zenon, <1>0, Accepted
    <2> HIDE DEF d, next, active
    <2>2. active >= next
        BY SMTT(30), <2>1 DEF Generation
    <2> QED BY Zenon, <2>1, <2>2
<1>4. /\ d.wals = dir.wals
      /\ \A dead, wals : /\ Cleaned(d, dead, wals).manifest = d.manifest
                         /\ Cleaned(d, dead, wals).wals = d.wals \ wals
    BY ZenonT(30), <1>0, OpenFacts DEF TypeInv, TypeOK, TypeDisk
<1>5. /\ Opened(d).manifest = d.manifest /\ Opened(d).wals = Unmatched(d) \cup {active}
      /\ next + 1 \in Opened(d).wals => next \in Opened(d).wals
    BY Zenon, <1>0, OpenedWals
<1>6. \A e \in past \cup {dir} : \A g \in e.wals : g \in Nat
    BY Numbers DEF Generation
<1>7. Unmatched(d) = d.wals \ ObsoleteWals(d)
    <2>1. next \in Nat
        BY <1>3 DEF Generation
    <2>2. \A g \in d.wals : g \in Nat
        BY Zenon, <1>4, <1>6
    <2>3. \A g \in d.wals : g >= next <=> ~(g < next)
        BY SMTT(30), <2>1, <2>2
    <2> QED BY Zenon, <2>3 DEF Unmatched, ObsoleteWals
<1>8. /\ \A e \in past \cup {dir} : NoGap(e.manifest, e.wals)
      /\ \A e \in past \cup {dir} : \A g \in e.wals \ dir.wals : g < dir.manifest.next_file_number
    BY Zenon DEF RunningInv, WalsOK
<1>9. \A e \in past \cup {dir}, r \in Strict : Recoverable(e, r)
    BY Zenon DEF StrictDurable
<1>a. \/ dir # d /\ Change(d) /\ log' = log
      \/ /\ dir = d
         /\ \E dead \in SUBSET OrphanTables(d), wals \in SUBSET ObsoleteWals(d) :
               /\ dir' = Cleaned(d, dead, wals)
               /\ past' = past \cup PartlyCleaned(d, dead, wals)
         /\ log' = log
      \/ /\ dir' = Opened(d)
         /\ past' = {cleaned} \cup (IF cleaned = dir THEN past ELSE {})
         /\ log' = Created(active)
    BY Zenon DEF OpenFails
<1> HIDE DEF d, next, active, cleaned
<1>10. CASE dir # d /\ Change(d) /\ log' = log
    <2>1. dir.manifest = NoVersion
        BY Zenon, <1>3, <1>10
    <2>2. past' \cup {dir'} = past \cup {dir} \cup {d}
        BY Zenon, <1>10 DEF Change
    <2>3. \A e \in past' \cup {dir'} : e.wals = {}
        BY Zenon, <1>3, <1>4, <2>1, <2>2
    <2>4. WalsOK'
        BY Zenon, <2>3 DEF WalsOK, NoGap
    <2>5. StrictDurable'
        BY Zenon, <1>2, <1>3, <2>1 DEF StrictDurable
    <2> QED BY Zenon, <1>0, <1>1, <2>4, <2>5, DownDurable
<1>11. CASE /\ dir = d
            /\ \E dead \in SUBSET OrphanTables(d), wals \in SUBSET ObsoleteWals(d) :
                  /\ dir' = Cleaned(d, dead, wals)
                  /\ past' = past \cup PartlyCleaned(d, dead, wals)
            /\ log' = log
    <2>0. PICK dead \in SUBSET OrphanTables(d), wals \in SUBSET ObsoleteWals(d) :
              /\ dir' = Cleaned(d, dead, wals)
              /\ past' = past \cup PartlyCleaned(d, dead, wals)
        BY Zenon, <1>11
    <2>1. /\ dir'.manifest = dir.manifest /\ dir'.wals = dir.wals \ wals
          /\ \A e \in past' : \/ e \in past
                              \/ \E w \in SUBSET wals :
                                    /\ e.manifest = dir.manifest
                                    /\ e.wals = dir.wals \ w
        <3>1. dir'.manifest = dir.manifest /\ dir'.wals = dir.wals \ wals
            BY Zenon, <1>4, <1>11, <2>0
        <3>2. ASSUME NEW e \in past', e \notin past
              PROVE  \E w \in SUBSET wals : e.manifest = dir.manifest /\ e.wals = dir.wals \ w
            <4>1. PICK s \in SUBSET dead, w \in SUBSET wals : e = Cleaned(d, s, w)
                BY SMTT(30), <2>0, <3>2 DEF PartlyCleaned
            <4> QED BY Zenon, <1>4, <1>11, <4>1
        <3> QED BY Zenon, <3>1, <3>2
    <2>2. \A e \in past' \cup {dir'} :
              \/ e \in past
              \/ \E w \in SUBSET ObsoleteWals(d) : /\ e.manifest = dir.manifest
                                                   /\ e.wals = dir.wals \ w
        BY Zenon, <2>1
    <2>3. \A g \in ObsoleteWals(d) : g < dir.manifest.next_file_number
        BY Zenon, <1>11 DEF ObsoleteWals
    <2>4. WalsOK'
        <3>1. ASSUME NEW e \in past' \cup {dir'} PROVE NoGap(e.manifest, e.wals)
            <4>1. CASE e \in past
                BY Zenon, <1>8, <4>1
            <4>2. ASSUME NEW w \in SUBSET ObsoleteWals(d), e.manifest = dir.manifest,
                         e.wals = dir.wals \ w
                  PROVE  NoGap(e.manifest, e.wals)
                <5>1. next = dir.manifest.next_file_number /\ next \notin w /\ next \in Nat
                    BY SMTT(30), <1>3, <1>11, <2>3 DEF next, Generation
                <5> QED BY Zenon, <1>8, <4>2, <5>1 DEF NoGap
            <4> QED BY Zenon, <2>2, <4>1, <4>2
        <3>2. ASSUME NEW e \in past' \cup {dir'}, NEW g \in e.wals \ dir'.wals
              PROVE  g < dir'.manifest.next_file_number
            <4>1. CASE g \in dir.wals
                BY Zenon, <2>1, <2>3, <4>1
            <4>2. CASE g \notin dir.wals
                BY Zenon, <1>8, <2>1, <2>2, <4>2
            <4> QED BY Zenon, <4>1, <4>2
        <3> QED BY Zenon, <3>1, <3>2 DEF WalsOK
    <2>5. ASSUME NEW e \in past' \cup {dir'}, NEW r \in Strict PROVE Recoverable(e, r)'
        <3>1. CASE e \in past
            BY Zenon, <1>9, <1>11, <3>1 DEF Recoverable
        <3>2. ASSUME NEW w \in SUBSET ObsoleteWals(d), e.manifest = dir.manifest,
                     e.wals = dir.wals \ w
              PROVE  Recoverable(e, r)'
            <4>1. Unmatched(dir) \subseteq e.wals
                BY Zenon, <1>7, <1>11, <3>2
            <4> QED BY Zenon, <1>9, <1>11, <3>2, <4>1, SameReplay
        <3> QED BY Zenon, <2>2, <3>1, <3>2
    <2>6. StrictDurable'
        BY Zenon, <1>2, <2>5 DEF StrictDurable
    <2> QED BY Zenon, <1>0, <1>1, <2>4, <2>6, DownDurable
<1>12. CASE /\ dir' = Opened(d)
            /\ past' = {cleaned} \cup (IF cleaned = dir THEN past ELSE {})
            /\ log' = Created(active)
    <2>1. cleaned.manifest = d.manifest /\ cleaned.wals = Unmatched(d)
        BY Zenon, <1>4, <1>7 DEF cleaned
    <2>2. ASSUME NEW e \in past \cup {dir}, active \notin dir.wals PROVE active \notin e.wals
        <3>1. CASE dir.manifest = NoVersion
            BY Zenon, <1>3, <3>1
        <3>2. CASE dir.manifest # NoVersion
            BY SMTT(30), <1>3, <1>8, <2>2, <3>2 DEF next, Generation
        <3> QED BY Zenon, <3>1, <3>2
    <2>3. \A e \in past \cup {dir} : \A g \in e.wals : log'[g] = log[g]
        <3>1. CASE active \in dir.wals
            BY Zenon, <1>12, <3>1 DEF Created
        <3>2. ASSUME active \notin dir.wals, NEW e \in past \cup {dir}, NEW g \in e.wals
              PROVE  log'[g] = log[g]
            <4>1. g # active /\ g \in Generation
                BY Zenon, <2>2, <3>2, Numbers
            <4> QED BY Zenon, <1>12, <3>2, <4>1, LogType DEF Created, Log
        <3> QED BY Zenon, <3>1, <3>2
    <2>4. WalsOK'
        <3>1. next + 1 \in Unmatched(d) => next \in Unmatched(d)
            BY Zenon, <1>0, Accepted DEF d, next
        <3>2. NoGap(cleaned.manifest, cleaned.wals)
            BY Zenon, <2>1, <3>1 DEF NoGap, next
        <3>3. NoGap(dir'.manifest, dir'.wals)
            BY Zenon, <1>5, <1>12 DEF NoGap, next
        <3>4. ASSUME NEW e \in past, cleaned = dir, NEW g \in e.wals \ dir'.wals
              PROVE  g < dir'.manifest.next_file_number
            BY Zenon, <1>5, <1>8, <1>12, <2>1, <3>4
        <3>5. cleaned.wals \subseteq dir'.wals
            BY Zenon, <1>5, <1>12, <2>1
        <3>6. \A e \in past : NoGap(e.manifest, e.wals)
            BY Zenon, <1>8
        <3>7. \A e \in past' : e = cleaned \/ (e \in past /\ cleaned = dir)
            BY Zenon, <1>12
        <3> QED BY Zenon, <3>2, <3>3, <3>4, <3>5, <3>6, <3>7 DEF WalsOK
    <2>5. ASSUME NEW e \in past' \cup {dir'}, NEW r \in Strict PROVE Recoverable(e, r)'
        <3>1. CASE e \in past
            <4>1. \A g \in Unmatched(e) : g \in e.wals
                BY Zenon DEF Unmatched
            <4> QED BY Zenon, <1>9, <2>3, <3>1, <4>1, SameReplay
        <3>2. CASE e = cleaned \/ e = Opened(d)
            <4>1. d = dir
                BY Zenon, <1>3
            <4>2. e.manifest = dir.manifest /\ Unmatched(dir) \subseteq e.wals
                BY Zenon, <1>5, <2>1, <3>2, <4>1
            <4>3. \A g \in Unmatched(dir) : log'[g] = log[g]
                BY Zenon, <2>3 DEF Unmatched
            <4> QED BY Zenon, <1>9, <4>2, <4>3, SameReplay
        <3> QED BY Zenon, <1>12, <3>1, <3>2
    <2>6. StrictDurable'
        BY Zenon, <1>2, <2>5 DEF StrictDurable
    <2> QED BY Zenon, <1>0, <1>1, <2>4, <2>6, DownDurable
<1> QED BY Zenon, <1>a, <1>10, <1>11, <1>12

------------------------------------------------------------------------------
(* Every step *)

\* The empty directory holds every strict write, there being none.
LEMMA InitDurable == Init => DurableInv
<1> SUFFICES ASSUME Init PROVE DurableInv
    BY Zenon
<1>1. ~HasCompaction /\ state = "down"
    BY Zenon DEF Init, HasCompaction, NoCompaction
<1>2. ExclusionOK
    BY Zenon, <1>1 DEF Init, ExclusionOK
<1>3. past \cup {dir} = {dir} /\ dir.wals = {}
    BY Zenon DEF Init
<1>4. WalsOK
    BY Zenon, <1>3 DEF WalsOK, NoGap
<1>5. RunningInv
    BY Zenon, <1>1, <1>4 DEF RunningInv, GenerationsOK, CandidateOK, Pending, DiskOK,
       StrictHeld
<1>6. Strict = {}
    BY Zenon DEF Init, Strict, InFlight
<1>7. StrictDurable
    BY Zenon, <1>6 DEF StrictDurable
<1> QED BY Zenon, <1>2, <1>5, <1>7 DEF DurableInv

\* A step of a call or of the worker keeps what a running process keeps.
LEMMA StepDurable ==
    ASSUME TypeInv, TypeInv', ExclusionOK, RunningInv,
           WriteStep \/ FlushStep \/ CompactionStep
    PROVE  RunningInv'
<1>1. state # "down"
    BY Zenon, StepRuns
<1>2. CASE WriteStep
    <2>1. Append /\ ~wal => Refused
        BY Zenon DEF Append
    <2> QED BY Zenon, <1>1, <1>2, <2>1, AppendDurable, RefusedDurable, AppendFailsDurable,
               FreezeDurable,
               RotateDurable, QuietCall DEF WriteStep
<1>3. CASE FlushStep
    <2>1. FlushManifest /\ ~FlushEditAccepted => Refused
        BY Zenon DEF FlushManifest
    <2> QED BY Zenon, <1>1, <1>3, <2>1, QuietTable, FlushManifestDurable, RefusedDurable,
               FlushManifestFailsDurable, FlushRemoveWalDurable, FlushFinishDurable
            DEF FlushStep
<1>4. CASE CompactionStep
    <2>1. CompactionManifest /\ ~(compaction.candidate # NoVersion \/ CompactionEditAccepted)
             => Refused
        BY Zenon DEF CompactionManifest
    <2>2. CASE \/ PrepareSkipped \/ PrepareFails \/ PrepareRefused \/ CompactionRemoveFails
               \/ CompactionSyncFails
        BY Zenon, <1>1, <2>2, QuietCall
    <2>3. CASE CompactionPublish \/ CompactionPublishFails \/ CompactionSync
        BY Zenon, <1>1, <2>3, QuietTable
    <2>4. CASE CompactionManifest
        BY Zenon, <1>1, <2>1, <2>4, CompactionManifestDurable, RefusedDurable
    <2>5. CASE CompactionRemove
        BY Zenon, <1>1, <2>5, QuietTable, CompactionRemoveWalDurable
    <2>6. CASE Prepare \/ CompactionManifestFails \/ CompactionFinish \/ CompactionFinishFails
        BY Zenon, <2>6, PrepareDurable, CompactionManifestFailsDurable, CompactionFinishDurable
    <2> QED BY Zenon, <1>4, <2>2, <2>3, <2>4, <2>5, <2>6 DEF CompactionStep
<1> QED BY Zenon, <1>2, <1>3, <1>4

\* What a running process keeps is durable (HeldIsDurable).
LEMMA RunningIsDurable == TypeInv /\ ExclusionOK /\ RunningInv => UpDurable
BY Zenon, HeldIsDurable DEF UpDurable

\* The same of the state after a step.
LEMMA RunningIsDurableNext == TypeInv' /\ ExclusionOK' /\ RunningInv' => UpDurable'
BY RunningIsDurable, PTL

\* Every step keeps the invariant.
LEMMA NextDurable ==
    ASSUME StrictSetting, TypeInv, TypeInv', DurableInv, [Next]_vars
    PROVE  DurableInv'
<1>0. ExclusionOK /\ RunningInv /\ StrictDurable
    BY Zenon DEF DurableInv
<1>1. ExclusionOK'
    BY Zenon, <1>0, NextExclusion
<1>2. ASSUME RunningInv', state' # "down" PROVE DurableInv'
    BY Zenon, <1>1, <1>2, RunningIsDurableNext DEF DurableInv, UpDurable
<1>3. ASSUME RunningInv', StrictDurable' PROVE DurableInv'
    BY Zenon, <1>1, <1>3 DEF DurableInv
<1>4. CASE ProcessCrash \/ (Return /\ op = "close")
    BY Zenon, <1>0, <1>3, <1>4, GoneDurable
<1>5. CASE PowerFailure
    BY Zenon, <1>0, <1>3, <1>5, PowerFailureDurable
<1>6. CASE Open
    <2>1. state' # "down"
        BY Zenon, <1>6 DEF Open
    <2> QED BY Zenon, <1>0, <1>2, <1>6, <2>1, OpenDurable
<1>7. CASE OpenFails
    BY Zenon, <1>0, <1>3, <1>7, OpenFailsDurable
<1>8. CASE state = "down" /\ UNCHANGED vars
    <2>1. RunningInv'
        BY Zenon, <1>0, <1>8 DEF vars, RunningInv, GenerationsOK, CandidateOK, Pending,
           HasCompaction,
                          DiskOK, WalsOK, StrictHeld
    <2>2. StrictDurable'
        BY ZenonT(30), <1>0, <1>8 DEF vars, StrictDurable, Recoverable, Strict, InFlight
    <2> QED BY Zenon, <1>3, <2>1, <2>2
<1>9. CASE WriteStep \/ FlushStep \/ CompactionStep
    <2>1. RunningInv'
        BY Zenon, <1>0, <1>9, StepDurable
    <2>2. state' = state /\ state # "down"
        BY Zenon, <1>9, StepRuns
    <2> QED BY Zenon, <1>2, <2>1, <2>2
<1>10. CASE /\ state # "down"
            /\ \/ \E key \in Key, deleted \in BOOLEAN, sync \in SyncModes : Put(key, deleted, sync)
               \/ Flush \/ Compact \/ Close \/ CloseJoined \/ Skip \/ (Return /\ op # "close")
               \/ WorkerStep \/ UNCHANGED vars
    <2>1. RunningInv'
        BY Zenon, <1>0, <1>10, QuietCall, QuietTable DEF WorkerStep
    <2>2. state' # "down"
        BY Zenon, <1>10 DEF Put, Flush, Compact, Close, CloseJoined, Skip, Proceed, Return,
           WorkerStep,
                     WorkerStart, WorkerPublish, WorkerResume, vars
    <2> QED BY Zenon, <1>2, <2>1, <2>2
<1>11. Skip \/ Return => state # "down"
    BY Zenon, CallMeansUp DEF Skip, Return
<1>12. Flush \/ Compact \/ Close \/ CloseJoined \/ WorkerStart => state # "down"
    BY Zenon DEF Flush, Compact, Close, CloseJoined, WorkerStart
<1>13. WorkerPublish \/ WorkerResume => state # "down"
    BY Zenon DEF WorkerPublish, WorkerResume, TypeInv, DownIsEmpty
<1>14. (\E key \in Key, deleted \in BOOLEAN, sync \in SyncModes : Put(key, deleted, sync))
           => state # "down"
    BY Zenon DEF Put
<1> QED BY Zenon, <1>4, <1>5, <1>6, <1>7, <1>8, <1>9, <1>10, <1>11, <1>12, <1>13, <1>14
        DEF Next, Environment, Call, WorkerStep
==============================================================================
