---------------------------- MODULE DatabaseTypes ----------------------------
(***************************************************************************)
(* Type correctness of module Database, for every value of its constants:  *)
(* every step keeps TypeInv.                                               *)
(*                                                                         *)
(* TypeOK is not inductive: a flush names a table after the Immutable, a   *)
(* compaction numbers its outputs from the frontier, and an acknowledged   *)
(* write has the sequence its Append took, so TypeInv adds what the calls  *)
(* and the worker know of each other.                                      *)
(***************************************************************************)
EXTENDS DatabaseFacts

------------------------------------------------------------------------------
(* Types of what the steps compute *)

\* A power failure leaves a directory.
LEMMA SurvivorsType == TypeDisk => Survivors \subseteq Directory
<1> SUFFICES ASSUME TypeDisk, NEW d \in Survivors PROVE d \in Directory
    BY Zenon
<1> QED BY DirectoryOps DEF TypeDisk, Survivors, Directory

\* Creating a WAL keeps the log a log.
LEMMA CreatedType ==
    ASSUME log \in Log, NEW g PROVE Created(g) \in Log
BY Zenon, EmptyValues DEF Created, Log

\* A MemTable that is full holds a record.
LEMMA FullHasRecords == \A S : Full(S) => S # {}
BY FiniteOrderAssumption, DatabaseAssumption DEF FiniteOrder, Full, DatabaseAssumption

\* The prepared compaction has its types.
LEMMA PreparedType ==
    ASSUME TypeInv, PrepareAccepted, state # "down"
    PROVE  /\ PreparedCompaction \in CompactionState
           /\ \A t \in PreparedCompaction.outputs : t.generation < MaxGeneration
           /\ PreparedCompaction.candidate = NoVersion
<1> DEFINE inputs == CompactionInputs(version)
           outputs == CompactionOutputs(inputs, version.next_file_number)
<1>1. /\ version.tables \in SUBSET Table /\ version.next_file_number \in Nat \ {0}
    BY VersionOps, EmptyValues DEF TypeInv, TypeOK, TypeMemory, NumbersOK
<1>2. inputs \in SUBSET Table
    BY Zenon, <1>1 DEF CompactionInputs, Level
<1>3. PreparedCompaction = [NoCompaction EXCEPT !.inputs = Generations(inputs),
                                               !.outputs = outputs,
                                               !.cleanup = Generations(inputs)]
    BY Zenon DEF PreparedCompaction
<1> HIDE DEF inputs
<1>4. Generations(inputs) \in SUBSET Generation
    BY Zenon, <1>2 DEF Generations, Table
<1>5. PreparedCompaction.outputs = outputs /\ PreparedCompaction.candidate = NoVersion
    BY Zenon, <1>3 DEF NoCompaction
<1>6. \A t \in outputs : t.generation < MaxGeneration
    BY Zenon, <1>5 DEF PrepareAccepted
<1>7. outputs \in SUBSET Table
    BY Zenon, <1>1, <1>2, <1>6, CompactionOutputsType
<1> HIDE DEF outputs
<1>8. PreparedCompaction \in CompactionState
    BY Zenon, <1>3, <1>4, <1>7, EmptyValues DEF NoCompaction, CompactionState
<1> QED BY Zenon, <1>5, <1>6, <1>8

\* The directories that one change makes of the present one.
LEMMA NewDirectories ==
    ASSUME TypeInv
    PROVE  /\ HasImmutable => /\ WithTable(dir, ImmutableTable) \in Directory
                              /\ WithManifest(dir, FlushCandidate) \in Directory
           /\ HasCompaction => WithManifest(dir, CompactionCandidate) \in Directory
           /\ \A g \in Generation : WithWal(dir, g) \in Directory
           /\ \A g \in Generation : WithoutTable(dir, g) \in Directory
           /\ \A g : WithoutWal(dir, g) \in Directory
<1>1. dir \in Directory
    BY Zenon DEF TypeInv, TypeOK, TypeDisk
<1>2. \A t \in Table : WithTable(dir, t) \in Directory
    BY Zenon, <1>1, DirectoryOps
<1>3. \A v \in VersionType : WithManifest(dir, v) \in Directory
    BY Zenon, <1>1, DirectoryOps
<1>4. \A g \in Generation : WithWal(dir, g) \in Directory /\ WithoutTable(dir, g) \in Directory
    BY Zenon, <1>1, DirectoryOps
<1>5. \A g : WithoutWal(dir, g) \in Directory
    BY Zenon, <1>1, DirectoryOps
<1> QED BY Zenon, <1>2, <1>3, <1>4, <1>5, FlushFacts, CandidateFacts

\* A change of the directory, synced or not, keeps the type of the disk.
LEMMA ChangeTyped ==
    ASSUME TypeInv, NEW d \in Directory, log' \in Log,
           Change(d) \/ ChangeAndSync(d) \/ UNCHANGED <<dir, past>>
    PROVE  TypeDisk'
BY Zenon DEF TypeInv, TypeOK, TypeDisk, Change, ChangeAndSync

\* A step that counts one failure, or none, keeps the history's type.
LEMMA FailureCounted ==
    ASSUME TypeInv, UNCHANGED <<historyVars, crashes>>,
           \/ failures < MaxFailures /\ failures' = failures + 1
           \/ UNCHANGED failures
    PROVE  TypeHistory'
<1>1. /\ written \subseteq Record /\ doubt \subseteq Record /\ acked \subseteq Record
      /\ crashes \in 0 .. MaxCrashes /\ failures \in 0 .. MaxFailures
    BY Zenon DEF TypeInv, TypeOK, TypeHistory
<1>2. MaxFailures \in Nat
    BY Zenon, DatabaseAssumption
<1>3. failures' \in 0 .. MaxFailures
    <2>1. CASE failures < MaxFailures /\ failures' = failures + 1
        BY <1>1, <1>2, <2>1
    <2>2. CASE UNCHANGED failures
        BY Zenon, <1>1, <2>2
    <2> QED BY Zenon, <2>1, <2>2
<1>4. written' = written /\ doubt' = doubt /\ acked' = acked /\ crashes' = crashes
    BY Zenon DEF historyVars
<1> QED BY Zenon, <1>1, <1>3, <1>4 DEF TypeHistory

------------------------------------------------------------------------------
(* Every step keeps the types *)

\* The initial state has its types.
LEMMA InitTyped == Init => TypeInv
<1> SUFFICES ASSUME Init PROVE TypeInv
    BY Zenon
<1>1. TypeDisk
    <2>1. dir \in Directory
        BY Zenon, VersionOps DEF Init, Directory
    <2>2. log \in Log
        BY VersionAssumption DEF Init, Log, EmptyWal, VersionAssumption
    <2> QED BY Zenon, <2>1, <2>2 DEF Init, TypeDisk
<1>2. TypeMemory
    <2>1. NoImmutable \in ImmutableGeneration
        BY VersionAssumption DEF ImmutableGeneration, NoImmutable, VersionAssumption
    <2>2. NoCompaction \in CompactionState
        BY Zenon, VersionAssumption, VersionOps DEF CompactionState, NoCompaction, VersionAssumption
    <2> QED BY <2>1, <2>2, VersionOps, VersionAssumption
            DEF Init, TypeMemory, VersionAssumption
<1>3. TypeFlags
    BY Zenon DEF Init, TypeFlags
<1>4. TypeCall
    BY VersionAssumption DEF Init, TypeCall, Argument, NoArgument, VersionAssumption
<1>5. TypeHistory
    BY DatabaseAssumption DEF Init, TypeHistory, DatabaseAssumption
<1>6. DownIsEmpty
    BY Zenon DEF Init, DownIsEmpty
<1>7. CallOK
    BY Zenon DEF Init, CallOK
<1>8. NumbersOK
    BY Zenon DEF Init, NumbersOK, HasImmutable, NoImmutable, NoCompaction
<1>9. WorkerOK
    BY Zenon DEF Init, WorkerOK
<1> QED BY Zenon, <1>1, <1>2, <1>3, <1>4, <1>5, <1>6, <1>7, <1>8, <1>9 DEF TypeInv, TypeOK

USE DEF diskVars, memoryVars, allButImmutable, allButCompaction, workerVars, callVars,
        historyVars, boundVars

\* Returning an error leaves the call variables well typed.
LEMMA ReturnErrorTyped ==
    ASSUME TypeInv, ReturnError
    PROVE  TypeCall' /\ CallOK' /\ background_status' \in BOOLEAN /\ requested' \in BOOLEAN
<1>1. background_status' \in BOOLEAN /\ requested' \in BOOLEAN
    BY Zenon DEF TypeInv, TypeOK, TypeFlags, ReturnError
<1>2. TypeCall'
    BY Zenon, EmptyValues DEF TypeInv, TypeOK, TypeCall, ReturnError
<1>3. CallOK'
    BY Zenon DEF TypeInv, CallOK, ReturnError
<1> QED BY Zenon, <1>1, <1>2, <1>3

\* So does a failing system call.
LEMMA IoErrorTyped ==
    ASSUME TypeInv, IoError
    PROVE  /\ TypeCall' /\ CallOK' /\ TypeHistory' /\ state' = state
           /\ background_status' \in BOOLEAN /\ requested' \in BOOLEAN
<1>1. TypeHistory'
    BY EmptyValues DEF TypeInv, TypeOK, TypeHistory, IoError
<1> QED BY Zenon, <1>1, ReturnErrorTyped DEF IoError, ReturnError

\* Refusing to go on keeps the types.
LEMMA RefusedTyped == TypeInv /\ pc # "idle" /\ Refused => TypeInv'
<1> SUFFICES ASSUME TypeInv, pc # "idle", Refused PROVE TypeInv'
    BY Zenon
<1>1. TypeDisk' /\ TypeMemory' /\ TypeHistory'
    BY Zenon DEF TypeInv, TypeOK, TypeDisk, TypeMemory, TypeHistory, Refused
<1>2. TypeCall' /\ CallOK' /\ TypeFlags'
    BY Zenon, ReturnErrorTyped DEF TypeInv, TypeOK, TypeFlags, Refused
<1>3. DownIsEmpty'
    BY Zenon, CallMeansUp DEF DownIsEmpty, Refused, ReturnError
<1>4. NumbersOK'
    BY Zenon DEF TypeInv, NumbersOK, Refused, ReturnError, HasImmutable
<1>5. WorkerOK'
    BY Zenon DEF TypeInv, WorkerOK, Refused, ReturnError, HasImmutable
<1> QED BY Zenon, <1>1, <1>2, <1>3, <1>4, <1>5 DEF TypeInv, TypeOK

\* A part of a call that fails and leaves memory alone keeps the types.
LEMMA FailedTyped ==
    ASSUME TypeInv, pc # "idle", IoError, UNCHANGED memoryVars, TypeDisk'
    PROVE  TypeInv'
<1> USE DEF TypeInv, TypeOK
<1>1. TypeMemory'
    BY Zenon DEF TypeMemory
<1>2. TypeFlags' /\ TypeCall' /\ CallOK' /\ TypeHistory'
    BY Zenon, IoErrorTyped DEF TypeFlags
<1>3. DownIsEmpty' /\ NumbersOK'
    BY Zenon, CallMeansUp, IoErrorTyped DEF DownIsEmpty, NumbersOK, HasImmutable
<1>4. WorkerOK'
    BY Zenon DEF WorkerOK, HasImmutable, IoError, ReturnError
<1> QED BY Zenon, <1>1, <1>2, <1>3, <1>4

\* A part that is done and goes on with part p.
LEMMA ProceedTyped ==
    ASSUME TypeInv, pc # "idle", wal' \in BOOLEAN, status' = status,
           NEW p \in {"compaction", "flush", "append", "freeze", "prepare", "trigger", "return"},
           Proceed(p)
    PROVE  TypeFlags' /\ TypeCall' /\ TypeHistory' /\ DownIsEmpty'
<1> USE DEF TypeInv, TypeOK, Proceed
<1>1. TypeFlags'
    BY Zenon DEF TypeFlags
<1>2. TypeCall' /\ TypeHistory'
    BY DEF TypeCall, TypeHistory
<1>3. DownIsEmpty'
    BY Zenon, CallMeansUp DEF DownIsEmpty
<1> QED BY Zenon, <1>1, <1>2, <1>3

\* A step of a running process that leaves disk and memory alone.
LEMMA QuietTyped ==
    ASSUME TypeInv, state # "down", UNCHANGED <<diskVars, memoryVars>>
    PROVE  TypeDisk' /\ TypeMemory' /\ NumbersOK'
<1> USE DEF TypeInv, TypeOK
<1>1. TypeDisk' /\ TypeMemory'
    BY Zenon DEF TypeDisk, TypeMemory
<1>2. NumbersOK'
    BY Zenon DEF NumbersOK, HasImmutable
<1> QED BY Zenon, <1>1, <1>2

\* Entering Flush, Compact and Close keeps the types.
LEMMA EnterTyped ==
    ASSUME TypeInv, Flush \/ Compact \/ Close \/ CloseJoined
    PROVE  TypeInv'
<1> USE DEF TypeInv, TypeOK, Flush, Compact, Close, CloseJoined, Begin
<1>1. TypeDisk' /\ TypeMemory' /\ NumbersOK'
    BY Zenon, QuietTyped
<1>2. TypeFlags'
    BY Zenon DEF TypeFlags
<1>3. TypeCall' /\ TypeHistory'
    BY Zenon DEF TypeCall, TypeHistory
<1>4. DownIsEmpty' /\ CallOK'
    BY Zenon DEF DownIsEmpty, CallOK
<1>5. WorkerOK'
    <2>1. CASE Close
        BY Zenon, <2>1 DEF WorkerOK, HasImmutable
    <2>2. CASE CloseJoined
        BY Zenon, <2>2 DEF WorkerOK, HasImmutable
    <2>3. CASE Flush \/ Compact
        <3>1. /\ worker = "idle" /\ worker' = worker /\ requested' = requested
              /\ op' # "worker" /\ op' # "put" /\ pc' # "rotate"
            BY Zenon, <2>3
        <3> QED BY Zenon, <3>1 DEF WorkerOK
    <2> QED BY Zenon, <2>1, <2>2, <2>3
<1> QED BY Zenon, <1>1, <1>2, <1>3, <1>4, <1>5

\* Entering Put or Delete keeps the types.
LEMMA PutTyped ==
    ASSUME TypeInv, NEW key \in Key, NEW deleted \in BOOLEAN, NEW sync \in SyncModes,
           Put(key, deleted, sync)
    PROVE  TypeInv'
<1> USE DEF TypeInv, TypeOK, Put, Begin
<1>1. TypeDisk' /\ TypeMemory' /\ TypeFlags' /\ TypeHistory'
    BY Zenon DEF TypeDisk, TypeMemory, TypeFlags, TypeHistory
<1>2. TypeCall'
    <2>1. sync \in BOOLEAN /\ 0 \in 0 .. MaxSequence
        BY EmptyValues, DatabaseAssumption DEF DatabaseAssumption
    <2>2. arg' \in Argument
        BY Zenon, <2>1 DEF Argument
    <2> QED BY Zenon, <2>2 DEF TypeCall
<1>3. DownIsEmpty'
    BY Zenon DEF DownIsEmpty
<1>4. CallOK'
    BY Zenon DEF CallOK
<1>5. NumbersOK'
    BY Zenon DEF NumbersOK, HasImmutable
<1>6. WorkerOK'
    BY Zenon DEF WorkerOK, HasImmutable
<1> QED BY Zenon, <1>1, <1>2, <1>3, <1>4, <1>5, <1>6

\* ContinueFlush or ContinueCompaction without work keeps the types.
LEMMA SkipTyped == TypeInv /\ Skip => TypeInv'
<1> SUFFICES ASSUME TypeInv, Skip PROVE TypeInv'
    BY Zenon
<1> USE DEF TypeInv, TypeOK, Skip
<1>1. TypeDisk' /\ TypeMemory' /\ NumbersOK'
    BY Zenon, QuietTyped, CallMeansUp
<1>2. TypeFlags' /\ TypeCall' /\ TypeHistory' /\ DownIsEmpty'
    BY Zenon, ProceedTyped DEF AfterCompaction, AfterFlush, TypeFlags
<1>3. CallOK'
    BY Zenon, FullHasRecords DEF CallOK, TypeMemory, Proceed, AfterCompaction, AfterFlush
<1>4. WorkerOK'
    BY DEF WorkerOK, HasImmutable, Proceed, AfterCompaction, AfterFlush
<1> QED BY Zenon, <1>1, <1>2, <1>3, <1>4

\* FreezeMutable without work keeps the types.
LEMMA FreezeSkippedTyped == TypeInv /\ FreezeSkipped => TypeInv'
<1> SUFFICES ASSUME TypeInv, FreezeSkipped PROVE TypeInv'
    BY Zenon
<1> USE DEF TypeInv, TypeOK, FreezeSkipped
<1>1. TypeDisk' /\ TypeMemory' /\ NumbersOK'
    BY Zenon, QuietTyped, CallMeansUp
<1>2. TypeFlags' /\ TypeCall' /\ TypeHistory' /\ DownIsEmpty'
    BY Zenon, ProceedTyped DEF TypeFlags
<1>3. CallOK'
    BY Zenon DEF CallOK, Proceed
<1>4. WorkerOK'
    BY Zenon DEF WorkerOK, HasImmutable, Proceed
<1> QED BY Zenon, <1>1, <1>2, <1>3, <1>4

\* PrepareCompaction without work keeps the types.
LEMMA PrepareSkippedTyped == TypeInv /\ PrepareSkipped => TypeInv'
<1> SUFFICES ASSUME TypeInv, PrepareSkipped PROVE TypeInv'
    BY Zenon
<1> USE DEF TypeInv, TypeOK, PrepareSkipped
<1>1. TypeDisk' /\ TypeMemory' /\ NumbersOK'
    BY Zenon, QuietTyped, CallMeansUp
<1>2. TypeFlags' /\ TypeCall' /\ TypeHistory' /\ DownIsEmpty'
    BY Zenon, ProceedTyped DEF TypeFlags
<1>3. CallOK'
    BY Zenon DEF CallOK, Proceed
<1>4. WorkerOK'
    BY Zenon DEF WorkerOK, HasImmutable, Proceed
<1> QED BY Zenon, <1>1, <1>2, <1>3, <1>4

\* FreezeMutable(true) that is refused keeps the types.
LEMMA RotateRefusedTyped == TypeInv /\ RotateRefused => TypeInv'
<1> SUFFICES ASSUME TypeInv, RotateRefused PROVE TypeInv'
    BY Zenon
<1> USE DEF TypeInv, TypeOK, RotateRefused
<1>1. TypeDisk' /\ TypeMemory' /\ NumbersOK'
    BY Zenon, QuietTyped, CallMeansUp
<1>2. TypeFlags'
    BY Zenon DEF TypeFlags
<1>3. TypeCall' /\ TypeHistory'
    BY Zenon DEF TypeCall, TypeHistory
<1>4. DownIsEmpty' /\ CallOK'
    BY Zenon, CallMeansUp DEF DownIsEmpty, CallOK
<1>5. WorkerOK'
    BY Zenon DEF WorkerOK, CallOK, TypeCall, HasImmutable
<1> QED BY Zenon, <1>1, <1>2, <1>3, <1>4, <1>5

\* Forgetting the process keeps the types of memory.
LEMMA ForgetTyped ==
    ASSUME Forget
    PROVE  /\ TypeMemory' /\ TypeFlags' /\ TypeCall' /\ DownIsEmpty' /\ CallOK' /\ NumbersOK'
           /\ WorkerOK'
<1> USE DEF Forget
<1>1. TypeMemory'
    BY EmptyValues, VersionOps DEF TypeMemory
<1>2. TypeFlags' /\ DownIsEmpty'
    BY Zenon DEF TypeFlags, DownIsEmpty
<1>3. TypeCall'
    BY Zenon, EmptyValues DEF TypeCall
<1>4. CallOK' /\ WorkerOK'
    BY Zenon DEF CallOK, WorkerOK
<1>5. NumbersOK'
    BY Zenon DEF NumbersOK, HasImmutable, NoImmutable, NoCompaction
<1> QED BY Zenon, <1>1, <1>2, <1>3, <1>4, <1>5

\* A process crash keeps the types.
LEMMA ProcessCrashTyped == TypeInv /\ ProcessCrash => TypeInv'
<1> SUFFICES ASSUME TypeInv, ProcessCrash PROVE TypeInv'
    BY Zenon
<1>1. TypeDisk' /\ TypeHistory'
    BY SMTT(30), EmptyValues DEF TypeInv, TypeOK, TypeDisk, TypeHistory, ProcessCrash
<1> QED BY Zenon, <1>1, ForgetTyped DEF TypeInv, TypeOK, ProcessCrash

\* A power failure, which keeps a prefix of every WAL, keeps the types.
LEMMA PowerFailureTyped == TypeInv /\ PowerFailure => TypeInv'
<1> SUFFICES ASSUME TypeInv, PowerFailure PROVE TypeInv'
    BY Zenon
<1>1. TypeHistory'
    <2>1. TypeHistory
        BY Zenon DEF TypeInv, TypeOK
    <2>2. /\ crashes < MaxCrashes /\ crashes' = crashes + 1
          /\ UNCHANGED <<historyVars, failures>>
        BY Zenon DEF PowerFailure
    <2> QED BY <2>1, <2>2, EmptyValues DEF TypeHistory
<1>2. TypeDisk'
    <2>1. dir' \in Directory /\ past' \subseteq Directory
        BY Zenon, SurvivorsType DEF TypeInv, TypeOK, PowerFailure
    <2>2. log' \in Log
        <3>1. PICK d \in Survivors : \E cut \in [d.wals ->
                           {0} \cup Sequences(UNION {log[g].records : g \in d.wals})] :
                log' = [g \in Generation |->
                          IF g \notin d.wals THEN EmptyWal
                          ELSE LET kept == {r \in log[g].records :
                                              \/ r.sequence <= cut[g]
                                              \/ r.sequence <= log[g].synced}
                               IN  [records |-> kept,
                                    synced |-> MaximumSequence(kept)]]
            BY Zenon DEF PowerFailure
        <3>2. PICK cut : log' = [g \in Generation |->
                          IF g \notin d.wals THEN EmptyWal
                          ELSE LET kept == {r \in log[g].records :
                                              \/ r.sequence <= cut[g]
                                              \/ r.sequence <= log[g].synced}
                               IN  [records |-> kept,
                                    synced |-> MaximumSequence(kept)]]
            BY Zenon, <3>1
        <3> DEFINE kept(g) == {r \in log[g].records :
                                  \/ r.sequence <= cut[g]
                                  \/ r.sequence <= log[g].synced}
        <3>3. ASSUME NEW g \in Generation
              PROVE  kept(g) \in SUBSET Record /\ MaximumSequence(kept(g)) \in 0 .. MaxSequence
            <4>1. kept(g) \in SUBSET Record
                BY Zenon DEF TypeInv, TypeOK, TypeDisk, Log
            <4> HIDE DEF kept
            <4> QED BY Zenon, <4>1, MaximumSequenceOf
        <3>4. log' = [g \in Generation |->
                        IF g \notin d.wals THEN EmptyWal
                        ELSE [records |-> kept(g), synced |-> MaximumSequence(kept(g))]]
            BY Zenon, <3>2
        <3> HIDE DEF kept
        <3> QED BY Zenon, <3>3, <3>4, EmptyValues DEF Log
    <2> QED BY Zenon, <2>1, <2>2 DEF TypeDisk
<1> QED BY Zenon, <1>1, <1>2, ForgetTyped DEF TypeInv, TypeOK, PowerFailure

\* A call that returns keeps the types.
LEMMA ReturnTyped == TypeInv /\ Return => TypeInv'
<1> SUFFICES ASSUME TypeInv, Return PROVE TypeInv'
    BY Zenon
<1> USE DEF TypeInv, TypeOK, Return
<1>1. TypeDisk'
    BY Zenon DEF TypeDisk
<1>2. TypeHistory'
    <2>1. ASSUME op = "put"
          PROVE  [sequence |-> arg.sequence, key |-> arg.key, deleted |-> arg.deleted] \in Record
        BY SMTT(30), <2>1, EmptyValues DEF CallOK, TypeCall, Argument, Record
    <2> QED BY Zenon, <2>1 DEF TypeHistory
<1>3. CASE op = "close"
    BY Zenon, <1>1, <1>2, <1>3, ForgetTyped
<1>4. CASE op # "close"
    <2>1. TypeMemory'
        BY Zenon, <1>4 DEF TypeMemory
    <2>2. TypeFlags'
        BY Zenon, <1>4 DEF TypeFlags
    <2>3. TypeCall'
        BY Zenon, <1>4, EmptyValues DEF TypeCall
    <2>4. DownIsEmpty'
        BY Zenon, <1>4, CallMeansUp DEF DownIsEmpty
    <2>5. CallOK'
        BY Zenon, <1>4 DEF CallOK
    <2>6. NumbersOK'
        BY Zenon, <1>4 DEF NumbersOK, HasImmutable
    <2>7. WorkerOK'
        BY Zenon, <1>4, CallMeansUp DEF WorkerOK, HasImmutable
    <2> QED BY Zenon, <1>1, <1>2, <2>1, <2>2, <2>3, <2>4, <2>5, <2>6, <2>7
<1> QED BY Zenon, <1>3, <1>4

\* OpenWithEnvironment, which recovers memory from the directory, keeps the types.
LEMMA OpenTyped == TypeInv /\ Open => TypeInv'
<1> SUFFICES ASSUME TypeInv, Open PROVE TypeInv'
    BY Zenon
<1> USE DEF TypeInv, TypeOK, Open
<1> DEFINE d == Founded(dir)
           next == d.manifest.next_file_number
           unmatched == Unmatched(d)
           two == unmatched = {next, next + 1}
           active == ActiveGeneration(d)
           recovered == UNION {log[g].records : g \in unmatched}
           last == MaximumSequence(recovered)
<1>a. /\ d \in Directory /\ d.manifest \in VersionType /\ next \in Generation
      /\ active \in Generation /\ Opened(d) \in Directory /\ unmatched \in SUBSET Generation
      /\ d.manifest.last_sequence \in 0 .. MaxSequence
      /\ d.manifest.tables \in SUBSET Table
    BY Zenon, OpenFacts, DirectoryOps, VersionOps DEF TypeDisk, Unmatched
<1>b. /\ log \in Log /\ Created(active) \in Log
      /\ \A g \in Generation : log[g].records \in SUBSET Record
    BY Zenon, CreatedType DEF TypeDisk, Log
<1>c. /\ state' = "running" /\ version' = d.manifest /\ tables' = d.manifest.tables
      /\ mutable_generation' = active
      /\ mutable' = Newest(IF active \in unmatched THEN log[active].records ELSE {})
      /\ immutable' = IF two THEN [NoImmutable EXCEPT !.generation = next,
                                                      !.records = Newest(log[next].records)]
                             ELSE NoImmutable
      /\ last_sequence' = (IF last > d.manifest.last_sequence THEN last ELSE d.manifest.last_sequence)
      /\ ChangeAndSync(Opened(d)) /\ log' = Created(active)
      /\ requested' = (Background /\ two)
    BY Zenon
<1> HIDE DEF d
<1>d. last \in 0 .. MaxSequence
    <2>1. recovered \in SUBSET Record
        BY Zenon, <1>a, <1>b
    <2> HIDE DEF recovered
    <2> QED BY Zenon, <2>1, MaximumSequenceOf DEF last
<1>e. /\ Newest(log[next].records) \in SUBSET Record
      /\ Newest(IF active \in unmatched THEN log[active].records ELSE {}) \in SUBSET Record
    BY Zenon, <1>a, <1>b, NewestOf
<1> DEFINE im == [NoImmutable EXCEPT !.generation = next, !.records = Newest(log[next].records)]
<1> HIDE DEF next, unmatched, active, last
<1>f. im \in ImmutableGeneration /\ im.generation = next /\ next # 0
    <2>1. next \in Generation /\ next # 0
        BY <1>a DEF Generation
    <2> QED BY Zenon, <1>e, <2>1, ImmutableOf
<1>g. immutable' = im \/ immutable' = NoImmutable
    BY Zenon, <1>c
<1> HIDE DEF im, two
<1>1. TypeDisk'
    BY Zenon, <1>a, <1>b, <1>c DEF TypeDisk, ChangeAndSync
<1>2. TypeMemory'
    <2>1. immutable' \in ImmutableGeneration
        BY Zenon, <1>f, <1>g, EmptyValues
    <2>2. version' \in VersionType /\ tables' \subseteq Table /\ mutable' \subseteq Record
        BY Zenon, <1>a, <1>c, <1>e
    <2>3. mutable_generation' \in 0 .. MaxGeneration
        BY <1>a, <1>c DEF Generation
    <2>4. last_sequence' \in 0 .. MaxSequence
        BY Zenon, <1>a, <1>c, <1>d
    <2>5. compaction' \in CompactionState
        BY Zenon DEF TypeMemory
    <2> QED BY Zenon, <2>1, <2>2, <2>3, <2>4, <2>5 DEF TypeMemory
<1>3. TypeFlags'
    BY Zenon, <1>c, DatabaseAssumption DEF TypeFlags, DatabaseAssumption
<1>4. TypeCall'
    BY Zenon DEF TypeCall
<1>5. TypeHistory'
    BY Zenon DEF TypeHistory
<1>6. DownIsEmpty'
    BY Zenon, <1>c DEF DownIsEmpty
<1>7. CallOK'
    BY Zenon DEF CallOK, DownIsEmpty
<1>8. NumbersOK'
    <2>1. HasImmutable' => immutable'.generation # 0
        BY Zenon, <1>f, <1>g DEF HasImmutable, NoImmutable
    <2>2. version'.next_file_number # 0 /\ mutable_generation' # 0 /\ compaction' = compaction
        BY <1>a, <1>c DEF Generation, next
    <2> QED BY Zenon, <2>1, <2>2 DEF NumbersOK
<1>9. WorkerOK'
    BY Zenon, <1>c DEF WorkerOK, DownIsEmpty, CallOK
<1> QED BY Zenon, <1>1, <1>2, <1>3, <1>4, <1>5, <1>6, <1>7, <1>8, <1>9

\* A failed OpenWithEnvironment keeps the types.
LEMMA OpenFailsTyped == TypeInv /\ OpenFails => TypeInv'
<1> SUFFICES ASSUME TypeInv, OpenFails PROVE TypeInv'
    BY Zenon
<1>5. TypeHistory'
    BY Zenon, FailureCounted DEF OpenFails
<1> DEFINE d == Founded(dir)
<1>a. /\ d \in Directory /\ Opened(d) \in Directory
      /\ \A dead, wals : Cleaned(d, dead, wals) \in Directory
      /\ Created(ActiveGeneration(d)) \in Log
    <2>1. dir \in Directory /\ log \in Log /\ OpenAccepts(dir, log)
        BY Zenon DEF TypeInv, TypeOK, TypeDisk, OpenFails
    <2> QED BY Zenon, <2>1, OpenFacts, CreatedType
<1>1. TypeDisk'
    <2>1. CASE Change(d) /\ log' = log
        BY Zenon, <1>a, <2>1, ChangeTyped, LogType
    <2>2. CASE /\ \E dead \in SUBSET OrphanTables(d), wals \in SUBSET ObsoleteWals(d) :
                     /\ dir' = Cleaned(d, dead, wals)
                     /\ past' = past \cup PartlyCleaned(d, dead, wals)
               /\ log' = log
        BY <1>a, <2>2 DEF TypeInv, TypeOK, TypeDisk, PartlyCleaned
    <2>3. CASE /\ dir' = Opened(d)
               /\ past' \subseteq past \cup {Cleaned(d, OrphanTables(d), ObsoleteWals(d))}
               /\ log' = Created(ActiveGeneration(d))
        BY Zenon, <1>a, <2>3 DEF TypeInv, TypeOK, TypeDisk
    <2> HIDE DEF d
    <2> QED BY Zenon, <2>1, <2>2, <2>3 DEF OpenFails, d
<1> USE DEF TypeInv, TypeOK, OpenFails
<1>2. TypeMemory'
    BY Zenon DEF TypeMemory
<1>3. TypeFlags'
    BY Zenon DEF TypeFlags
<1>4. TypeCall'
    BY Zenon DEF TypeCall
<1>6. DownIsEmpty'
    BY Zenon DEF DownIsEmpty
<1>7. CallOK'
    BY Zenon DEF CallOK
<1>8. NumbersOK'
    BY Zenon DEF NumbersOK, HasImmutable
<1>9. WorkerOK'
    BY Zenon DEF WorkerOK, HasImmutable
<1> QED BY Zenon, <1>1, <1>2, <1>3, <1>4, <1>5, <1>6, <1>7, <1>8, <1>9

\* The append of a write, whose sequence number is still in range, keeps the types.
LEMMA AppendTyped == TypeInv /\ Append => TypeInv'
<1> SUFFICES ASSUME TypeInv, Append PROVE TypeInv'
    BY Zenon
<1>0. CASE ~wal
    BY Zenon, <1>0, RefusedTyped DEF Append
<1> SUFFICES ASSUME wal PROVE TypeInv'
    BY Zenon, <1>0
<1>a. pc = "append" /\ op = "put" /\ arg.sequence = 0
    BY Zenon DEF Append, TypeInv, CallOK
<1> DEFINE r == NewRecord
           m == Insert(mutable, NewRecord)
<1>b. /\ r \in Record /\ r.sequence = last_sequence + 1 /\ last_sequence + 1 \in 1 .. MaxSequence
      /\ mutable_generation \in Generation /\ m \in SUBSET Record /\ m # {}
    BY Zenon, <1>a, NewRecordType
<1>c. /\ log' = [log EXCEPT ![mutable_generation] =
                   [records |-> @.records \cup {r},
                    synced |-> IF arg.sync THEN r.sequence ELSE @.synced]]
      /\ last_sequence' = r.sequence
      /\ mutable' = m
      /\ arg' = [arg EXCEPT !.sequence = r.sequence]
      /\ written' = written \cup {r}
      /\ pc' = AfterAppend(m)
      /\ UNCHANGED <<dir, past, state, version, tables, mutable_generation, status,
                     wal, immutable, compaction, workerVars, op, doubt, acked, boundVars>>
    BY Zenon DEF Append
<1>d. pc' \in {"return", "freeze", "rotate"} /\ (pc' = "rotate" => Background /\ ~HasImmutable)
      /\ (Background => pc' # "freeze")
    BY Zenon, <1>c, DatabaseAssumption DEF AfterAppend, DatabaseAssumption
<1> HIDE DEF r, m
<1> USE DEF TypeInv, TypeOK
<1>1. TypeDisk'
    BY SMTT(30), <1>b, <1>c, EmptyValues DEF TypeDisk, Log
<1>2. TypeMemory'
    BY <1>b, <1>c DEF TypeMemory
<1>3. TypeFlags'
    BY Zenon, <1>c DEF TypeFlags
<1>4. TypeCall'
    BY SMTT(30), <1>b, <1>c, <1>d DEF TypeCall, Argument
<1>5. TypeHistory'
    BY Zenon, <1>b, <1>c DEF TypeHistory
<1>6. DownIsEmpty'
    BY Zenon, <1>a, <1>c, CallMeansUp DEF DownIsEmpty
<1>7. CallOK'
    BY SMTT(30), <1>a, <1>b, <1>c, <1>d DEF CallOK, TypeCall, Argument
<1>8. NumbersOK'
    BY Zenon, <1>c DEF NumbersOK, HasImmutable
<1>9. WorkerOK'
    BY Zenon, <1>a, <1>c, <1>d DEF WorkerOK, HasImmutable
<1> QED BY Zenon, <1>1, <1>2, <1>3, <1>4, <1>5, <1>6, <1>7, <1>8, <1>9

\* A failed append, which spends the sequence number, keeps the types.
LEMMA AppendFailsTyped == TypeInv /\ AppendFails => TypeInv'
<1> SUFFICES ASSUME TypeInv, AppendFails PROVE TypeInv'
    BY Zenon
<1> USE DEF TypeInv, TypeOK, AppendFails
<1>1. TypeDisk'
    BY NewRecordType DEF TypeDisk, Log
<1>2. TypeMemory'
    BY NewRecordType DEF TypeMemory
<1>3. TypeFlags'
    BY Zenon, ReturnErrorTyped DEF TypeFlags
<1>4. TypeCall' /\ CallOK'
    BY Zenon, ReturnErrorTyped
<1>5. TypeHistory'
    BY NewRecordType, EmptyValues DEF TypeHistory
<1>6. DownIsEmpty'
    BY Zenon, CallMeansUp DEF DownIsEmpty, ReturnError
<1>7. NumbersOK'
    BY Zenon DEF NumbersOK, HasImmutable, ReturnError
<1>8. WorkerOK'
    BY Zenon DEF WorkerOK, HasImmutable, ReturnError
<1> QED BY Zenon, <1>1, <1>2, <1>3, <1>4, <1>5, <1>6, <1>7, <1>8

\* FreezeMutable that is refused keeps the types.
LEMMA FreezeRefusedTyped == TypeInv /\ FreezeRefused => TypeInv'
BY Zenon, RefusedTyped DEF FreezeRefused

\* FreezeMutable(false) keeps the types.
LEMMA FreezeTyped == TypeInv /\ Freeze => TypeInv'
<1> SUFFICES ASSUME TypeInv, Freeze PROVE TypeInv'
    BY Zenon
<1>a. CanFreeze /\ state # "down"
    BY Zenon, CallMeansUp DEF Freeze
<1>b. /\ mutable_generation + 1 \in 0 .. MaxGeneration /\ mutable_generation + 1 # 0
      /\ FrozenMutable \in ImmutableGeneration /\ FrozenMutable.generation # 0
    BY <1>a, FrozenFacts DEF Generation
<1> USE DEF TypeInv, TypeOK, Freeze
<1>1. TypeDisk'
    BY Zenon DEF TypeDisk
<1>2. TypeMemory'
    BY Zenon, <1>b DEF TypeMemory
<1>3. TypeFlags' /\ TypeCall' /\ TypeHistory' /\ DownIsEmpty'
    BY Zenon, ProceedTyped DEF TypeFlags
<1>4. CallOK'
    BY Zenon DEF CallOK, Proceed
<1>5. NumbersOK'
    BY Zenon, <1>a, <1>b DEF NumbersOK, HasImmutable, Proceed
<1>6. WorkerOK'
    BY Zenon DEF WorkerOK, CallOK, CanFreeze, Proceed
<1> QED BY Zenon, <1>1, <1>2, <1>3, <1>4, <1>5, <1>6

\* FreezeMutable(true) keeps the types.
LEMMA RotateTyped == TypeInv /\ Rotate => TypeInv'
<1> SUFFICES ASSUME TypeInv, Rotate PROVE TypeInv'
    BY Zenon
<1>5. TypeHistory'
    BY Zenon, FailureCounted DEF Rotate
<1>a. CanFreeze /\ state # "down" /\ op = "put" /\ arg.sequence # 0 /\ Background /\ worker = "idle"
    BY Zenon, CallMeansUp DEF TypeInv, TypeOK, Rotate, CallOK, WorkerOK, TypeCall
<1>b. /\ mutable_generation + 1 \in Generation /\ mutable_generation + 1 \in 0 .. MaxGeneration
      /\ FrozenMutable \in ImmutableGeneration /\ FrozenMutable.generation # 0
      /\ mutable_generation + 1 # 0
    BY SMTT(30), <1>a, FrozenFacts DEF Generation
<1> USE DEF TypeInv, TypeOK, Rotate
<1>c. WithWal(dir, mutable_generation + 1) \in Directory /\ Created(mutable_generation + 1) \in Log
    BY Zenon, <1>b, NewDirectories, CreatedType, LogType
<1>1. TypeDisk'
    BY Zenon, <1>c, ChangeTyped DEF TypeDisk
<1>2. TypeMemory'
    BY Zenon, <1>b DEF TypeMemory
<1>3. TypeFlags'
    BY Zenon DEF TypeFlags
<1>4. TypeCall'
    BY Zenon DEF TypeCall
<1>6. DownIsEmpty'
    BY Zenon, <1>a DEF DownIsEmpty
<1>7. CallOK'
    BY Zenon, <1>a DEF CallOK
<1>8. NumbersOK'
    BY Zenon, <1>a, <1>b DEF NumbersOK, HasImmutable
<1>9. WorkerOK'
    BY Zenon, <1>a DEF WorkerOK
<1> QED BY Zenon, <1>1, <1>2, <1>3, <1>4, <1>5, <1>6, <1>7, <1>8, <1>9

\* Publishing the table of the Immutable keeps the types.
LEMMA FlushTableTyped == TypeInv /\ FlushTable => TypeInv'
<1> SUFFICES ASSUME TypeInv, FlushTable PROVE TypeInv'
    BY Zenon
<1> USE DEF TypeInv, TypeOK, FlushTable
<1>1. TypeDisk'
    BY Zenon, NewDirectories, ChangeTyped, LogType
<1>2. TypeMemory'
    BY Zenon DEF TypeMemory, ImmutableGeneration
<1>3. TypeFlags' /\ TypeCall' /\ TypeHistory' /\ DownIsEmpty'
    BY Zenon, ProceedTyped DEF TypeFlags
<1>4. CallOK'
    BY Zenon DEF CallOK, Proceed
<1>5. NumbersOK'
    BY Zenon DEF NumbersOK, HasImmutable, TypeMemory, ImmutableGeneration, Proceed
<1>6. WorkerOK'
    BY Zenon DEF WorkerOK, HasImmutable, TypeMemory, ImmutableGeneration, Proceed
<1> QED BY Zenon, <1>1, <1>2, <1>3, <1>4, <1>5, <1>6

\* A failed PublishTable keeps the types.
LEMMA FlushTableFailsTyped == TypeInv /\ FlushTableFails => TypeInv'
<1> SUFFICES ASSUME TypeInv, FlushTableFails PROVE TypeInv'
    BY Zenon
<1> USE DEF TypeInv, TypeOK, FlushTableFails
<1>1. TypeDisk'
    BY Zenon, NewDirectories, ChangeTyped, LogType
<1> QED BY Zenon, <1>1, FailedTyped

\* PublishManifest of a flush keeps the types.
LEMMA FlushManifestTyped == TypeInv /\ FlushManifest => TypeInv'
<1> SUFFICES ASSUME TypeInv, FlushManifest PROVE TypeInv'
    BY Zenon
<1>0. CASE ~FlushEditAccepted
    BY Zenon, <1>0, RefusedTyped DEF FlushManifest, FlushManifestDue
<1> SUFFICES ASSUME FlushEditAccepted PROVE TypeInv'
    BY Zenon, <1>0
<1>a. pc = "flush" /\ HasImmutable /\ op # "none" /\ state # "down"
    BY Zenon, CallMeansUp DEF FlushManifest, FlushManifestDue
<1>b. /\ ImmutableTable \in Table /\ FlushCandidate \in VersionType
      /\ FlushCandidate.next_file_number = mutable_generation
    BY Zenon, <1>a, FlushFacts
<1>c. /\ ChangeAndSync(WithManifest(dir, FlushCandidate))
      /\ version' = FlushCandidate
      /\ tables' = tables \cup {ImmutableTable}
      /\ immutable' = [immutable EXCEPT !.version_published = TRUE]
      /\ Proceed("flush")
      /\ UNCHANGED <<log, mutable, mutable_generation, last_sequence, status, wal, compaction>>
    BY Zenon DEF FlushManifest
<1> USE DEF TypeInv, TypeOK, Proceed
<1>1. TypeDisk'
    BY Zenon, <1>a, <1>c, NewDirectories, ChangeTyped, LogType
<1>2. TypeMemory'
    BY Zenon, <1>b, <1>c DEF TypeMemory, ImmutableGeneration
<1>3. TypeFlags'
    BY Zenon, <1>c DEF TypeFlags
<1>4. TypeCall' /\ TypeHistory'
    BY Zenon, <1>c DEF TypeCall, TypeHistory
<1>5. DownIsEmpty'
    BY Zenon, <1>a, <1>c DEF DownIsEmpty
<1>6. CallOK'
    BY Zenon, <1>a, <1>c DEF CallOK
<1>7. NumbersOK'
    <2>1. immutable'.records = immutable.records /\ immutable'.generation = immutable.generation
        BY Zenon, <1>c DEF TypeMemory, ImmutableGeneration
    <2> QED BY Zenon, <1>a, <1>b, <1>c, <2>1 DEF NumbersOK, HasImmutable
<1>8. WorkerOK'
    <2>1. worker \in {"idle", "locked"}
        BY Zenon, <1>a DEF WorkerOK, TypeCall
    <2> QED BY Zenon, <1>a, <1>c, <2>1 DEF WorkerOK
<1> QED BY Zenon, <1>1, <1>2, <1>3, <1>4, <1>5, <1>6, <1>7, <1>8

\* A failed PublishManifest of a flush keeps the types.
LEMMA FlushManifestFailsTyped == TypeInv /\ FlushManifestFails => TypeInv'
<1> SUFFICES ASSUME TypeInv, FlushManifestFails PROVE TypeInv'
    BY Zenon
<1> USE DEF TypeInv, TypeOK, FlushManifestFails, FlushManifestDue
<1>1. TypeDisk'
    BY Zenon, NewDirectories, ChangeTyped, LogType
<1> QED BY Zenon, <1>1, FailedTyped

\* Removing the WAL of the Immutable keeps the types.
LEMMA FlushRemoveWalTyped == TypeInv /\ FlushRemoveWal => TypeInv'
<1> SUFFICES ASSUME TypeInv, FlushRemoveWal PROVE TypeInv'
    BY Zenon
<1> USE DEF TypeInv, TypeOK, FlushRemoveWal
<1>1. TypeDisk'
    BY Zenon, NewDirectories, ChangeTyped, LogType
<1>2. TypeMemory'
    BY Zenon DEF TypeMemory, ImmutableGeneration
<1>3. TypeFlags' /\ TypeCall' /\ TypeHistory' /\ DownIsEmpty'
    BY Zenon, ProceedTyped DEF TypeFlags
<1>4. CallOK'
    BY Zenon DEF CallOK, Proceed
<1>5. NumbersOK'
    BY Zenon DEF NumbersOK, HasImmutable, TypeMemory, ImmutableGeneration, Proceed
<1>6. WorkerOK'
    BY Zenon DEF WorkerOK, HasImmutable, TypeMemory, ImmutableGeneration, Proceed
<1> QED BY Zenon, <1>1, <1>2, <1>3, <1>4, <1>5, <1>6

\* A failed removal of it keeps the types.
LEMMA FlushRemoveWalFailsTyped == TypeInv /\ FlushRemoveWalFails => TypeInv'
<1> SUFFICES ASSUME TypeInv, FlushRemoveWalFails PROVE TypeInv'
    BY Zenon
<1> USE DEF TypeInv, TypeOK, FlushRemoveWalFails
<1>1. TypeDisk'
    BY Zenon, NewDirectories, ChangeTyped, LogType
<1> QED BY Zenon, <1>1, FailedTyped

\* OpenMutableWal creates a WAL with a valid number, and so does one that fails.
LEMMA OpenMutableWalTyped ==
    ASSUME TypeInv, pc # "idle"
    PROVE  /\ OpenMutableWal => TypeDisk' /\ wal' \in BOOLEAN
           /\ OpenMutableWalFails => TypeInv'
<1> USE DEF TypeInv, TypeOK
<1>1. mutable_generation \in Generation
    BY Zenon, CallMeansUp, MutableGeneration
<1>2. WithWal(dir, mutable_generation) \in Directory /\ Created(mutable_generation) \in Log
    BY Zenon, <1>1, NewDirectories, CreatedType, LogType
<1>3. OpenMutableWal => TypeDisk' /\ wal' \in BOOLEAN
    BY Zenon, <1>2, ChangeTyped DEF OpenMutableWal, TypeDisk
<1>4. OpenMutableWalFails => TypeDisk'
    BY Zenon, <1>2, ChangeTyped DEF OpenMutableWalFails, TypeDisk
<1> QED BY Zenon, <1>3, <1>4, FailedTyped DEF OpenMutableWalFails

\* The end of ContinueFlush keeps the types.
LEMMA FlushFinishTyped == TypeInv /\ FlushFinish => TypeInv'
<1> SUFFICES ASSUME TypeInv, FlushFinish PROVE TypeInv'
    BY Zenon
<1> USE DEF TypeInv, TypeOK, FlushFinish
<1>1. TypeDisk' /\ wal' \in BOOLEAN
    BY Zenon, OpenMutableWalTyped
<1>2. TypeMemory'
    BY Zenon, EmptyValues DEF TypeMemory
<1>3. TypeFlags' /\ TypeCall' /\ TypeHistory' /\ DownIsEmpty'
    BY Zenon, <1>1, ProceedTyped DEF AfterFlush
<1>4. CallOK'
    BY Zenon, FullHasRecords DEF CallOK, Proceed, AfterFlush
<1>5. NumbersOK'
    BY Zenon DEF NumbersOK, HasImmutable, NoImmutable, Proceed
<1>6. WorkerOK'
    BY Zenon, CallMeansUp DEF WorkerOK, TypeCall, CallOK, Proceed, AfterFlush
<1> QED BY Zenon, <1>1, <1>2, <1>3, <1>4, <1>5, <1>6

\* A failed OpenMutableWal at the end of ContinueFlush keeps the types.
LEMMA FlushFinishFailsTyped == TypeInv /\ FlushFinishFails => TypeInv'
BY Zenon, OpenMutableWalTyped DEF FlushFinishFails

\* PrepareCompaction, which numbers the outputs below the last file number, keeps the types.
LEMMA PrepareTyped == TypeInv /\ Prepare => TypeInv'
<1> SUFFICES ASSUME TypeInv, Prepare PROVE TypeInv'
    BY Zenon
<1> USE DEF TypeInv, TypeOK, Prepare
<1>1. TypeDisk'
    BY Zenon DEF TypeDisk
<1>2. TypeMemory'
    BY Zenon, PreparedType, CallMeansUp DEF TypeMemory
<1>3. TypeFlags' /\ TypeCall' /\ TypeHistory' /\ DownIsEmpty'
    BY Zenon, ProceedTyped DEF TypeFlags
<1>4. CallOK'
    BY Zenon DEF CallOK, Proceed
<1>5. NumbersOK'
    BY Zenon, PreparedType, CallMeansUp DEF NumbersOK, HasImmutable, Proceed
<1>6. WorkerOK'
    BY Zenon DEF WorkerOK, HasImmutable, Proceed
<1> QED BY Zenon, <1>1, <1>2, <1>3, <1>4, <1>5, <1>6

\* PrepareCompaction that is refused keeps the types.
LEMMA PrepareRefusedTyped == TypeInv /\ PrepareRefused => TypeInv'
BY Zenon, RefusedTyped DEF PrepareRefused

\* PrepareCompaction that cannot read its inputs keeps the types.
LEMMA PrepareFailsTyped == TypeInv /\ PrepareFails => TypeInv'
<1> SUFFICES ASSUME TypeInv, PrepareFails PROVE TypeInv'
    BY Zenon
<1> USE DEF TypeInv, TypeOK, PrepareFails
<1>1. TypeDisk'
    BY Zenon DEF TypeDisk
<1> QED BY Zenon, <1>1, FailedTyped

\* PublishCompactionTables keeps the types.
LEMMA CompactionPublishTyped == TypeInv /\ CompactionPublish => TypeInv'
<1> SUFFICES ASSUME TypeInv, CompactionPublish PROVE TypeInv'
    BY Zenon
<1> USE DEF TypeInv, TypeOK, CompactionPublish, CompactionPublishDue
<1>1. TypeDisk'
    BY Zenon, RenamedBelowFacts DEF TypeDisk, ChangeAndSync
<1>2. TypeMemory'
    BY Zenon DEF TypeMemory, CompactionState
<1>3. TypeFlags' /\ TypeCall' /\ TypeHistory' /\ DownIsEmpty'
    BY Zenon, ProceedTyped DEF TypeFlags
<1>4. CallOK'
    BY Zenon DEF CallOK, Proceed
<1>5. NumbersOK'
    BY Zenon DEF NumbersOK, HasImmutable, TypeMemory, CompactionState, Proceed
<1>6. WorkerOK'
    BY Zenon DEF WorkerOK, HasImmutable, Proceed
<1> QED BY Zenon, <1>1, <1>2, <1>3, <1>4, <1>5, <1>6

\* A failed PublishCompactionTables keeps the types.
LEMMA CompactionPublishFailsTyped == TypeInv /\ CompactionPublishFails => TypeInv'
<1> SUFFICES ASSUME TypeInv, CompactionPublishFails PROVE TypeInv'
    BY Zenon
<1> USE DEF TypeInv, TypeOK, CompactionPublishFails, CompactionPublishDue
<1>1. TypeDisk'
    BY Zenon, RenamedBelowFacts DEF TypeDisk, ChangeAndSync
<1> QED BY Zenon, <1>1, FailedTyped

\* PublishManifest of a compaction, which moves the active generation, keeps the types.
LEMMA CompactionManifestTyped == TypeInv /\ CompactionManifest => TypeInv'
<1> SUFFICES ASSUME TypeInv, CompactionManifest PROVE TypeInv'
    BY Zenon
<1>0. CASE ~(compaction.candidate # NoVersion \/ CompactionEditAccepted)
    BY Zenon, <1>0, RefusedTyped DEF CompactionManifest, CompactionManifestDue
<1> SUFFICES ASSUME compaction.candidate # NoVersion \/ CompactionEditAccepted PROVE TypeInv'
    BY Zenon, <1>0
<1> DEFINE advanced == compaction.outputs # {}
           v == CompactionCandidate
<1>a. pc = "compaction" /\ HasCompaction /\ op # "none" /\ state # "down"
    BY Zenon, CallMeansUp DEF CompactionManifest, CompactionManifestDue
<1>b. v \in VersionType /\ v.next_file_number # 0 /\ v.next_file_number \in 0 .. MaxGeneration
    BY Zenon, <1>a, CandidateFacts, VersionOps
<1>c. /\ ChangeAndSync(WithManifest(dir, v))
      /\ version' = v
      /\ tables' = {t \in tables : t.generation \notin compaction.inputs} \cup compaction.outputs
      /\ compaction' = [compaction EXCEPT !.candidate = v,
                                          !.version_published = TRUE,
                                          !.stale_wal = IF advanced THEN mutable_generation ELSE 0,
                                          !.wal_generation_advanced = advanced]
      /\ wal' = (wal /\ ~advanced)
      /\ mutable_generation' = IF advanced THEN v.next_file_number ELSE mutable_generation
      /\ Proceed("compaction")
      /\ UNCHANGED <<log, mutable, last_sequence, status, immutable>>
    BY Zenon DEF CompactionManifest
<1>e. advanced \in BOOLEAN
    BY Zenon
<1> HIDE DEF v, advanced
<1> USE DEF TypeInv, TypeOK, Proceed
<1>d. /\ compaction' \in CompactionState
      /\ compaction'.outputs = compaction.outputs /\ compaction'.candidate = v
    <2> DEFINE stale == IF advanced THEN mutable_generation ELSE 0
    <2>1. stale \in 0 .. MaxGeneration
        BY EmptyValues DEF TypeMemory
    <2>2. compaction' = [compaction EXCEPT !.candidate = v, !.version_published = TRUE,
                                           !.stale_wal = stale,
                                           !.wal_generation_advanced = advanced]
        BY Zenon, <1>c
    <2>3. compaction \in CompactionState
        BY Zenon DEF TypeMemory
    <2> HIDE DEF stale
    <2> QED BY ONLY Zenon, <1>b, <1>e, <2>1, <2>2, <2>3 DEF CompactionState
<1>1. TypeDisk'
    BY Zenon, <1>a, <1>c, NewDirectories, ChangeTyped, LogType DEF v
<1>2. TypeMemory'
    <2>1. tables' \subseteq Table
        BY Zenon, <1>c DEF TypeMemory, CompactionState
    <2> QED BY Zenon, <1>b, <1>c, <1>d, <2>1 DEF TypeMemory
<1>3. TypeFlags'
    BY Zenon, <1>c, <1>e DEF TypeFlags
<1>4. TypeCall' /\ TypeHistory'
    BY Zenon, <1>c DEF TypeCall, TypeHistory
<1>5. DownIsEmpty'
    BY Zenon, <1>a, <1>c DEF DownIsEmpty
<1>6. CallOK'
    BY Zenon, <1>a, <1>c DEF CallOK
<1>7. NumbersOK'
    BY Zenon, <1>a, <1>b, <1>c, <1>d DEF NumbersOK, HasImmutable
<1>8. WorkerOK'
    BY Zenon, <1>a, <1>c DEF WorkerOK, HasImmutable
<1> QED BY Zenon, <1>1, <1>2, <1>3, <1>4, <1>5, <1>6, <1>7, <1>8

\* A failed PublishManifest of a compaction, which keeps the candidate, keeps the types.
LEMMA CompactionManifestFailsTyped == TypeInv /\ CompactionManifestFails => TypeInv'
<1> SUFFICES ASSUME TypeInv, CompactionManifestFails PROVE TypeInv'
    BY Zenon
<1> USE DEF TypeInv, TypeOK, CompactionManifestFails, CompactionManifestDue
<1>a. /\ CompactionCandidate \in VersionType /\ CompactionCandidate.next_file_number # 0
      /\ compaction' \in CompactionState
      /\ compaction'.outputs = compaction.outputs /\ compaction'.candidate = CompactionCandidate
    BY Zenon, CandidateFacts DEF TypeMemory, CompactionState
<1>1. TypeDisk'
    BY Zenon, NewDirectories, ChangeTyped, LogType
<1>2. TypeMemory'
    BY Zenon, <1>a DEF TypeMemory
<1>3. TypeFlags'
    BY Zenon, IoErrorTyped DEF TypeFlags
<1>4. TypeCall'
    BY Zenon, IoErrorTyped
<1>5. TypeHistory'
    BY Zenon, IoErrorTyped
<1>6. DownIsEmpty'
    BY Zenon, IoErrorTyped, CallMeansUp DEF DownIsEmpty
<1>7. CallOK'
    BY Zenon, IoErrorTyped
<1>8. NumbersOK'
    BY Zenon, <1>a, IoErrorTyped DEF NumbersOK, HasImmutable
<1>9. WorkerOK'
    BY Zenon DEF WorkerOK, HasImmutable, IoError, ReturnError
<1> QED BY Zenon, <1>1, <1>2, <1>3, <1>4, <1>5, <1>6, <1>7, <1>8, <1>9

\* Removing a compacted file keeps the types.
LEMMA CompactionRemoveTyped == TypeInv /\ CompactionRemove => TypeInv'
<1> SUFFICES ASSUME TypeInv, CompactionRemove PROVE TypeInv'
    BY Zenon
<1> USE DEF TypeInv, TypeOK, CompactionRemove, CleanupDue
<1>a. /\ compaction' \in CompactionState
      /\ compaction'.outputs = compaction.outputs /\ compaction'.candidate = compaction.candidate
    BY EmptyValues DEF TypeMemory, CompactionState
<1>b. compaction.cleanup \subseteq Generation
    BY Zenon DEF TypeMemory, CompactionState
<1>1. TypeDisk'
    BY Zenon, <1>b, NewDirectories, ChangeTyped, LogType
<1>2. TypeMemory'
    BY Zenon, <1>a DEF TypeMemory
<1>3. TypeFlags' /\ TypeCall' /\ TypeHistory' /\ DownIsEmpty'
    BY Zenon, ProceedTyped DEF TypeFlags
<1>4. CallOK'
    BY Zenon DEF CallOK, Proceed
<1>5. NumbersOK'
    BY Zenon, <1>a DEF NumbersOK, HasImmutable, Proceed
<1>6. WorkerOK'
    BY Zenon DEF WorkerOK, HasImmutable, Proceed
<1> QED BY Zenon, <1>1, <1>2, <1>3, <1>4, <1>5, <1>6

\* A failed removal of a compacted file keeps the types.
LEMMA CompactionRemoveFailsTyped == TypeInv /\ CompactionRemoveFails => TypeInv'
<1> SUFFICES ASSUME TypeInv, CompactionRemoveFails PROVE TypeInv'
    BY Zenon
<1> USE DEF TypeInv, TypeOK, CompactionRemoveFails, CleanupDue
<1>1. TypeDisk'
    BY Zenon DEF TypeDisk
<1> QED BY Zenon, <1>1, FailedTyped

\* The directory sync after the removals keeps the types.
LEMMA CompactionSyncTyped == TypeInv /\ CompactionSync => TypeInv'
<1> SUFFICES ASSUME TypeInv, CompactionSync PROVE TypeInv'
    BY Zenon
<1> USE DEF TypeInv, TypeOK, CompactionSync, CleanupDone
<1>1. TypeDisk'
    BY Zenon DEF TypeDisk, ChangeAndSync
<1>2. TypeMemory'
    BY Zenon DEF TypeMemory, CompactionState
<1>3. TypeFlags' /\ TypeCall' /\ TypeHistory' /\ DownIsEmpty'
    BY Zenon, ProceedTyped DEF TypeFlags
<1>4. CallOK'
    BY Zenon DEF CallOK, Proceed
<1>5. NumbersOK'
    BY Zenon DEF NumbersOK, HasImmutable, TypeMemory, CompactionState, Proceed
<1>6. WorkerOK'
    BY Zenon DEF WorkerOK, HasImmutable, Proceed
<1> QED BY Zenon, <1>1, <1>2, <1>3, <1>4, <1>5, <1>6

\* A failed directory sync after the removals keeps the types.
LEMMA CompactionSyncFailsTyped == TypeInv /\ CompactionSyncFails => TypeInv'
<1> SUFFICES ASSUME TypeInv, CompactionSyncFails PROVE TypeInv'
    BY Zenon
<1> USE DEF TypeInv, TypeOK, CompactionSyncFails, CleanupDone
<1>1. TypeDisk'
    BY Zenon DEF TypeDisk
<1> QED BY Zenon, <1>1, FailedTyped

\* The end of ContinueCompaction keeps the types.
LEMMA CompactionFinishTyped == TypeInv /\ CompactionFinish => TypeInv'
<1> SUFFICES ASSUME TypeInv, CompactionFinish PROVE TypeInv'
    BY Zenon
<1> USE DEF TypeInv, TypeOK, CompactionFinish, CleanupDone
<1>1. TypeDisk' /\ wal' \in BOOLEAN
    BY Zenon, OpenMutableWalTyped DEF TypeDisk, TypeFlags
<1>2. TypeMemory'
    BY Zenon, EmptyValues DEF TypeMemory
<1>3. TypeFlags' /\ TypeCall' /\ TypeHistory' /\ DownIsEmpty'
    BY Zenon, <1>1, ProceedTyped DEF AfterCompaction
<1>4. CallOK'
    BY Zenon DEF CallOK, Proceed, AfterCompaction
<1>5. NumbersOK'
    BY Zenon DEF NumbersOK, HasImmutable, NoCompaction, Proceed
<1>6. WorkerOK'
    BY Zenon DEF WorkerOK, HasImmutable, Proceed, AfterCompaction
<1> QED BY Zenon, <1>1, <1>2, <1>3, <1>4, <1>5, <1>6

\* A failed OpenMutableWal at the end of ContinueCompaction keeps the types.
LEMMA CompactionFinishFailsTyped == TypeInv /\ CompactionFinishFails => TypeInv'
BY Zenon, OpenMutableWalTyped DEF CompactionFinishFails, CleanupDone

\* The worker taking a request keeps the types.
LEMMA WorkerStartTyped == TypeInv /\ WorkerStart => TypeInv'
<1> SUFFICES ASSUME TypeInv, WorkerStart PROVE TypeInv'
    BY Zenon
<1> USE DEF TypeInv, TypeOK, WorkerStart, Begin
<1>1. TypeDisk' /\ TypeMemory' /\ NumbersOK'
    BY Zenon, QuietTyped, CallMeansUp
<1>2. TypeFlags'
    BY Zenon DEF TypeFlags
<1>3. TypeCall' /\ TypeHistory'
    BY Zenon DEF TypeCall, TypeHistory
<1>4. DownIsEmpty' /\ CallOK'
    BY Zenon DEF DownIsEmpty, CallOK
<1>5. WorkerOK'
    BY Zenon DEF WorkerOK, HasImmutable
<1> QED BY Zenon, <1>1, <1>2, <1>3, <1>4, <1>5

\* The worker's PublishTable, without the mutex keeps the types.
LEMMA WorkerPublishTyped == TypeInv /\ WorkerPublish => TypeInv'
<1> SUFFICES ASSUME TypeInv, WorkerPublish PROVE TypeInv'
    BY Zenon
<1>5. TypeHistory'
    BY Zenon, FailureCounted DEF WorkerPublish
<1> USE DEF TypeInv, TypeOK, WorkerPublish, ChangeAndSync, Change
<1>a. WithTable(dir, ImmutableTable) \in Directory
    BY Zenon, NewDirectories DEF WorkerOK
<1>1. TypeDisk'
    BY Zenon, <1>a, ChangeTyped, LogType
<1>2. TypeMemory'
    BY Zenon DEF TypeMemory
<1>3. TypeFlags'
    BY Zenon DEF TypeFlags
<1>4. TypeCall'
    BY Zenon DEF TypeCall
<1>6. DownIsEmpty'
    BY Zenon DEF DownIsEmpty
<1>7. CallOK'
    BY Zenon DEF CallOK
<1>8. NumbersOK'
    BY Zenon DEF NumbersOK, HasImmutable
<1>9. WorkerOK'
    BY Zenon DEF WorkerOK, HasImmutable
<1> QED BY Zenon, <1>1, <1>2, <1>3, <1>4, <1>5, <1>6, <1>7, <1>8, <1>9

\* The worker taking the mutex again keeps the types.
LEMMA WorkerResumeTyped == TypeInv /\ WorkerResume => TypeInv'
<1> SUFFICES ASSUME TypeInv, WorkerResume PROVE TypeInv'
    BY Zenon
<1> USE DEF TypeInv, TypeOK, WorkerResume, Begin
<1>1. TypeDisk'
    BY Zenon DEF TypeDisk
<1>2. TypeMemory'
    BY Zenon DEF TypeMemory, ImmutableGeneration
<1>3. TypeFlags'
    BY Zenon DEF TypeFlags
<1>4. TypeCall'
    BY Zenon DEF TypeCall
<1>5. TypeHistory'
    BY Zenon DEF TypeHistory
<1>6. DownIsEmpty'
    BY Zenon DEF DownIsEmpty
<1>7. CallOK'
    BY Zenon DEF CallOK
<1>8. NumbersOK'
    BY Zenon DEF NumbersOK, HasImmutable, TypeMemory, ImmutableGeneration
<1>9. WorkerOK'
    BY Zenon DEF WorkerOK, HasImmutable, TypeMemory, ImmutableGeneration
<1> QED BY Zenon, <1>1, <1>2, <1>3, <1>4, <1>5, <1>6, <1>7, <1>8, <1>9

\* Every step keeps the types.
LEMMA NextTyped == TypeInv /\ [Next]_vars => TypeInv'
<1> SUFFICES ASSUME TypeInv, [Next]_vars PROVE TypeInv'
    BY Zenon
<1>1. CASE Environment
    BY Zenon, <1>1, ProcessCrashTyped, PowerFailureTyped DEF Environment
<1>2. CASE Call
    BY Zenon, <1>2, OpenTyped, OpenFailsTyped, PutTyped, EnterTyped DEF Call
<1>3. CASE Skip \/ Return
    BY Zenon, <1>3, SkipTyped, ReturnTyped
<1>4. CASE WriteStep
    BY Zenon, <1>4, AppendTyped, AppendFailsTyped, FreezeTyped, FreezeSkippedTyped,
       FreezeRefusedTyped, RotateTyped, RotateRefusedTyped DEF WriteStep
<1>5. CASE FlushStep
    BY Zenon, <1>5, FlushTableTyped, FlushTableFailsTyped, FlushManifestTyped,
       FlushManifestFailsTyped, FlushRemoveWalTyped, FlushRemoveWalFailsTyped,
       FlushFinishTyped, FlushFinishFailsTyped DEF FlushStep
<1>6. CASE CompactionStep
    BY Zenon, <1>6, PrepareTyped, PrepareSkippedTyped, PrepareFailsTyped, PrepareRefusedTyped,
       CompactionPublishTyped, CompactionPublishFailsTyped, CompactionManifestTyped,
       CompactionManifestFailsTyped, CompactionRemoveTyped, CompactionRemoveFailsTyped,
       CompactionSyncTyped, CompactionSyncFailsTyped, CompactionFinishTyped,
       CompactionFinishFailsTyped DEF CompactionStep
<1>7. CASE WorkerStep
    BY Zenon, <1>7, WorkerStartTyped, WorkerPublishTyped, WorkerResumeTyped DEF WorkerStep
<1>8. CASE UNCHANGED vars
    <2> USE <1>8 DEF vars, TypeInv, TypeOK
    <2>1. TypeDisk' /\ TypeMemory' /\ TypeCall' /\ TypeHistory'
        BY ZenonT(30) DEF TypeDisk, TypeMemory, TypeCall, TypeHistory
    <2>2. TypeFlags'
        BY Zenon DEF TypeFlags
    <2>3. DownIsEmpty' /\ CallOK'
        BY Zenon DEF DownIsEmpty, CallOK
    <2>4. NumbersOK' /\ WorkerOK'
        BY Zenon DEF NumbersOK, WorkerOK, HasImmutable
    <2> QED BY Zenon, <2>1, <2>2, <2>3, <2>4
<1> QED BY Zenon, <1>1, <1>2, <1>3, <1>4, <1>5, <1>6, <1>7, <1>8 DEF Next

\* The invariant the other proofs start from.
LEMMA TypeInvariant == Spec => []TypeInv
BY InitTyped, NextTyped, PTL DEF Spec

\* Type correctness of the engine for every number of keys, writes, generations,
\* crashes and failures: file numbers and sequence numbers never leave their
\* range, whatever maintenance was interrupted and however often it is resumed.
THEOREM TypeCorrectness == Spec => []TypeOK
<1>1. TypeInv => TypeOK
    BY Zenon DEF TypeInv
<1> QED BY <1>1, TypeInvariant, PTL
==============================================================================
