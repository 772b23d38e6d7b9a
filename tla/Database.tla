------------------------------ MODULE Database ------------------------------
(***************************************************************************)
(* The storage engine of src/src/database.cpp: Open, Put and Delete, Flush, *)
(* Compact, Close, the background worker, and what a process crash, a power *)
(* failure or a failing system call leave in the database directory.        *)
(*                                                                          *)
(* Every operation runs under the exclusive state_mutex_, except the        *)
(* worker's PublishTable.  `op` is the call that holds the mutex and `pc`   *)
(* the part of it that comes next; one action is one group of system calls. *)
(* ContinueFlush and ContinueCompaction are re-entrant: flags in            *)
(* `immutable` and `compaction` say how far they came, so a call that       *)
(* failed is resumed by the next one exactly there.  A crash inside a call  *)
(* is the crash after the same call failed at that point.                   *)
(***************************************************************************)
EXTENDS Version

CONSTANTS
    Background,     \* Options::background_maintenance
    MemTableLimit,  \* keys that make ApproximateDataSize >= memtable_size_limit
    Level0Trigger,  \* Options::level0_compaction_trigger
    Calls,          \* which of "flush" and "compact" the application uses
    Deletable,      \* the keys the application deletes
    SyncModes,      \* which of TRUE (kSync) and FALSE (kAsync) it writes with
    Ordered,        \* directory changes reach the disk in the order made
    MaxCrashes,     \* bound: process crashes and power failures
    MaxFailures     \* bound: failing system calls

ASSUME DatabaseAssumption ==
    /\ Background \in BOOLEAN
    /\ MemTableLimit \in Nat \ {0}
    /\ Level0Trigger \in Nat \ {0}
    /\ Calls \subseteq {"flush", "compact"}
    /\ Deletable \subseteq Key
    /\ SyncModes \subseteq BOOLEAN
    /\ Ordered \in BOOLEAN
    /\ MaxCrashes \in Nat
    /\ MaxFailures \in Nat

VARIABLES
    dir,    \* the directory as the process sees it: the MANIFEST, the tables
            \* by number ({} where there is none) and the numbers of the WALs
    past,   \* the directories it was since the last SyncDirectory
    log,    \* WAL contents by number, and the last sequence known on disk
    state,  \* "down", "running" or "closing"
    version, tables, mutable, mutable_generation, last_sequence, status,
    wal,                \* wal_ # nullptr
    immutable, compaction,
    background_status, requested,
    worker,             \* the worker's part in RunBackgroundWorkLocked
    op, pc, arg,        \* the call that holds the mutex
    written,            \* history: the writes the database answers for
    doubt,              \* history: a failed Append whose record is in the WAL
    acked,              \* history: strict writes that returned Ok
    crashes, failures

diskVars == <<dir, past, log>>
memoryVars ==
    <<version, tables, mutable, mutable_generation, last_sequence, status,
      wal, immutable, compaction>>
allButImmutable ==
    <<version, tables, mutable, mutable_generation, last_sequence, status, wal, compaction>>
allButCompaction ==
    <<version, tables, mutable, mutable_generation, last_sequence, status, wal, immutable>>
workerVars == <<background_status, requested, worker>>
callVars == <<op, pc, arg>>
historyVars == <<written, doubt, acked>>
boundVars == <<crashes, failures>>
vars ==
    <<diskVars, state, memoryVars, workerVars, callVars, historyVars,
      boundVars>>

------------------------------------------------------------------------------
(* Types *)

Directory ==
    [manifest : VersionType, sst : [Generation -> SUBSET Record],
     wals : SUBSET Generation]

Log == [Generation -> [records : SUBSET Record, synced : 0 .. MaxSequence]]

\* immutable_: nullptr when it has no records, which a frozen MemTable has.
ImmutableGeneration ==
    [generation : 0 .. MaxGeneration, records : SUBSET Record,
     pending_table : BOOLEAN, version_published : BOOLEAN,
     wal_removed_and_synced : BOOLEAN]

NoImmutable ==
    [generation |-> 0, records |-> {}, pending_table |-> FALSE,
     version_published |-> FALSE, wal_removed_and_synced |-> FALSE]

\* compaction_: nullptr when it has no inputs.  `cleanup` and `stale_wal` are
\* what cleanup_paths still holds from cleanup_index on; candidate_ready is
\* candidate # NoVersion.
CompactionState ==
    [inputs : SUBSET Generation, outputs : SUBSET Table, published : BOOLEAN,
     candidate : VersionType, version_published : BOOLEAN,
     cleanup : SUBSET Generation, stale_wal : 0 .. MaxGeneration,
     cleanup_synced : BOOLEAN, wal_generation_advanced : BOOLEAN]

NoCompaction ==
    [inputs |-> {}, outputs |-> {}, published |-> FALSE,
     candidate |-> NoVersion, version_published |-> FALSE, cleanup |-> {},
     stale_wal |-> 0, cleanup_synced |-> FALSE,
     wal_generation_advanced |-> FALSE]

\* The write in flight; its sequence is 0 until Append is called.
Argument ==
    [key : Key \cup {0}, deleted : BOOLEAN, sync : BOOLEAN,
     sequence : 0 .. MaxSequence]

NoArgument == [key |-> 0, deleted |-> FALSE, sync |-> FALSE, sequence |-> 0]

HasImmutable == immutable.records # {}

HasCompaction == compaction.inputs # {}

Full(memtable) == Cardinality(memtable) >= MemTableLimit

EmptyWal == [records |-> {}, synced |-> 0]
------------------------------------------------------------------------------
(* The directory.  A change is seen at once and is durable after the next    *)
(* SyncDirectory; until then a power failure may undo it.                    *)

WithTable(d, t) == [d EXCEPT !.sst[t.generation] = t.records]

WithManifest(d, v) == [d EXCEPT !.manifest = v]

WithoutTable(d, g) == [d EXCEPT !.sst[g] = {}]

WithWal(d, g) == [d EXCEPT !.wals = @ \cup {g}]

WithoutWal(d, g) == [d EXCEPT !.wals = @ \ {g}]

\* The change, followed by a SyncDirectory that succeeds.
ChangeAndSync(d) == dir' = d /\ past' = {}

\* The change alone.
Change(d) == dir' = d /\ past' = past \cup {dir}

\* A power failure leaves one of these.  File systems that journal metadata
\* keep the order of changes; POSIX promises no order between two names.
Survivors ==
    LET seen == past \cup {dir}
    IN  IF Ordered
        THEN seen
        ELSE {[manifest |-> a.manifest, sst |-> b.sst, wals |-> c.wals] :
                 a, b, c \in seen}

\* WalWriter::Open creates the file unless it is there.
Created(g) == IF g \in dir.wals THEN log ELSE [log EXCEPT ![g] = EmptyWal]

------------------------------------------------------------------------------
(* Open *)

\* Mutant of Unmatched: the WAL at the frontier is not replayed.
UnmatchedOffByOne(d) == {g \in d.wals : g > d.manifest.next_file_number}

\* The WALs at or ahead of the file-number frontier: those Open replays.
Unmatched(d) == {g \in d.wals : g >= d.manifest.next_file_number}

\* What LoadManifest and the checks of OpenWithEnvironment accept, for a
\* directory d and WAL contents l.
OpenAccepts(d, l) ==
    LET next == d.manifest.next_file_number
        unmatched == Unmatched(d)
    IN  IF d.manifest = NoVersion
        THEN d.wals = {} /\ \A g \in Generation : d.sst[g] = {}
        ELSE /\ ValidateVersion(d.manifest)
             /\ \A t \in d.manifest.tables : d.sst[t.generation] = t.records
             /\ unmatched \subseteq {next, next + 1}
             /\ \A g \in unmatched : \A r \in l[g].records :
                   r.sequence > d.manifest.last_sequence
             /\ unmatched = {next, next + 1} =>
                   /\ l[next].records # {}
                   /\ \A r \in l[next].records, q \in l[next + 1].records :
                         r.sequence < q.sequence

\* Mutant of OrphanTables: Open leaves tables that are not live.
NoOrphanTables(d) == {}

\* The files Open removes: tables that are not live, WALs behind the frontier.
OrphanTables(d) == {g \in Generation : d.sst[g] # {}} \ Generations(d.manifest.tables)

ObsoleteWals(d) == {g \in d.wals : g < d.manifest.next_file_number}

Cleaned(d, dead, wals) ==
    [d EXCEPT !.sst = [g \in Generation |-> IF g \in dead THEN {} ELSE d.sst[g]],
              !.wals = @ \ wals]

\* The directories on the way there, the files being removed in any order.
PartlyCleaned(d, dead, wals) ==
    {Cleaned(d, s, w) : s \in SUBSET dead, w \in SUBSET wals}

\* The directory with a MANIFEST: a new database publishes its first one.
Founded(d) == IF d.manifest = NoVersion THEN WithManifest(d, NewDatabase) ELSE d

\* Mutant of ActiveGeneration: Open goes on with the first of two WALs.
FirstGeneration(d) == d.manifest.next_file_number

\* The generation Open goes on writing to: the later of two WALs.
ActiveGeneration(d) ==
    LET next == d.manifest.next_file_number
    IN  IF next + 1 \in Unmatched(d) THEN next + 1 ELSE next

Opened(d) ==
    WithWal(Cleaned(d, OrphanTables(d), ObsoleteWals(d)), ActiveGeneration(d))

\* OpenWithEnvironment and StartBackgroundWorker.  With two WALs the first is
\* the Immutable generation of the process that died.
Open ==
    LET d == Founded(dir)
        v == d.manifest
        next == v.next_file_number
        unmatched == Unmatched(d)
        two == unmatched = {next, next + 1}
        active == ActiveGeneration(d)
        recovered == UNION {log[g].records : g \in unmatched}
        last == MaximumSequence(recovered)
        frontier == IF last > v.last_sequence THEN last ELSE v.last_sequence
    IN  /\ state = "down"
        /\ OpenAccepts(dir, log)
        /\ state' = "running"
        /\ version' = v
        /\ tables' = v.tables
        /\ mutable_generation' = active
        /\ mutable' = Newest(IF active \in unmatched THEN log[active].records ELSE {})
        /\ immutable' =
              IF two
              THEN [NoImmutable EXCEPT !.generation = next,
                                       !.records = Newest(log[next].records)]
              ELSE NoImmutable
        /\ last_sequence' = frontier
        /\ wal' = TRUE
        /\ ChangeAndSync(Opened(d))
        /\ log' = Created(active)
        /\ requested' = (Background /\ two)
        /\ written' = {w \in written \cup doubt : w.sequence <= frontier}
        /\ doubt' = {}
        /\ UNCHANGED <<compaction, status, background_status, worker, callVars,
                       acked, boundVars>>

\* Open stopped by an error or a crash: while it publishes the first MANIFEST,
\* while it removes files (in any order), or when the active WAL is created.
\* What it published or removed is synced before the WAL is created.
OpenFails ==
    LET d == Founded(dir)
        cleaned == Cleaned(d, OrphanTables(d), ObsoleteWals(d))
    IN  /\ state = "down"
        /\ failures < MaxFailures
        /\ OpenAccepts(dir, log)
        /\ \/ dir # d /\ Change(d) /\ log' = log
           \/ /\ dir = d
              /\ \E dead \in SUBSET OrphanTables(d), wals \in SUBSET ObsoleteWals(d) :
                    /\ dir' = Cleaned(d, dead, wals)
                    /\ past' = past \cup PartlyCleaned(d, dead, wals)
              /\ log' = log
           \/ /\ dir' = Opened(d)
              /\ past' = {cleaned} \cup (IF cleaned = dir THEN past ELSE {})
              /\ log' = Created(ActiveGeneration(d))
        /\ failures' = failures + 1
        /\ UNCHANGED <<state, memoryVars, workerVars, callVars,
                       historyVars, crashes>>

\* The process is gone, by a crash or at the end of Close.
Forget ==
    /\ state' = "down"
    /\ version' = NoVersion
    /\ tables' = {}
    /\ mutable' = {}
    /\ mutable_generation' = 0
    /\ last_sequence' = 0
    /\ status' = TRUE
    /\ wal' = FALSE
    /\ immutable' = NoImmutable
    /\ compaction' = NoCompaction
    /\ background_status' = TRUE
    /\ requested' = FALSE
    /\ worker' = "idle"
    /\ op' = "none"
    /\ pc' = "idle"
    /\ arg' = NoArgument

\* The process is killed: what it wrote is in the page cache and stays.
ProcessCrash ==
    /\ state # "down"
    /\ crashes < MaxCrashes
    /\ Forget
    /\ crashes' = crashes + 1
    /\ UNCHANGED <<diskVars, historyVars, failures>>

\* The machine loses power: one of the surviving directories is found, and of
\* every WAL a prefix that holds at least what fdatasync reported durable.
\* (RecoverWal cuts the torn record that may follow it.)
PowerFailure ==
    /\ crashes < MaxCrashes
    /\ Forget
    /\ \E d \in Survivors :
          /\ dir' = d
          /\ \E cut \in [d.wals ->
                           {0} \cup Sequences(UNION {log[g].records : g \in d.wals})] :
                log' = [g \in Generation |->
                          IF g \notin d.wals THEN EmptyWal
                          ELSE LET kept == {r \in log[g].records :
                                              \/ r.sequence <= cut[g]
                                              \/ r.sequence <= log[g].synced}
                               IN  [records |-> kept,
                                    synced |-> MaximumSequence(kept)]]
    /\ past' = {}
    /\ crashes' = crashes + 1
    /\ UNCHANGED <<historyVars, failures>>

------------------------------------------------------------------------------
(* Calls: how they take the mutex and how they return *)

Begin(call, first) == op' = call /\ pc' = first

\* Leave a call early with an error.  Close goes on to release what it holds.
ReturnError ==
    /\ IF op = "close"
       THEN pc' = "return" /\ UNCHANGED <<op, arg>>
       ELSE op' = "none" /\ pc' = "idle" /\ arg' = NoArgument
    /\ background_status' = (op # "worker" /\ background_status)
    /\ worker' = IF op = "worker" THEN "idle" ELSE worker
    /\ UNCHANGED <<state, requested>>

\* A system call fails, and the call that made it returns the error.
IoError ==
    /\ failures < MaxFailures
    /\ failures' = failures + 1
    /\ ReturnError
    /\ UNCHANGED <<historyVars, crashes>>

\* A check in the code refuses to go on.
Refused ==
    /\ ReturnError
    /\ UNCHANGED <<diskVars, memoryVars, historyVars, boundVars>>

\* The call goes on with part p.
Proceed(p) ==
    /\ pc' = p
    /\ UNCHANGED <<state, workerVars, op, arg, historyVars, boundVars>>

\* A foreground Write first finishes what maintenance left undone.  In
\* background mode it waits until the Immutable slot is free, and gives up when
\* the worker has failed.
Put(key, deleted, sync) ==
    /\ state = "running" /\ op = "none" /\ status
    /\ last_sequence < MaxSequence
    /\ deleted => key \in Deletable
    /\ IF Background
       THEN /\ ~(HasImmutable /\ Full(mutable))
            /\ background_status
            /\ Begin("put", "append")
       ELSE Begin("put", "compaction")
    /\ arg' = [key |-> key, deleted |-> deleted, sync |-> sync, sequence |-> 0]
    /\ UNCHANGED <<diskVars, state, memoryVars, workerVars, historyVars, boundVars>>

Flush ==
    /\ "flush" \in Calls
    /\ state = "running" /\ op = "none" /\ worker = "idle" /\ status
    /\ Begin("flush", "compaction")
    /\ UNCHANGED <<diskVars, state, memoryVars, workerVars, arg, historyVars, boundVars>>

Compact ==
    /\ "compact" \in Calls
    /\ state = "running" /\ op = "none" /\ worker = "idle" /\ status
    /\ IF HasCompaction THEN Begin("resume", "compaction") ELSE Begin("compact", "freeze")
    /\ UNCHANGED <<diskVars, state, memoryVars, workerVars, arg, historyVars, boundVars>>

\* Close stops the worker, which finishes what it is doing, ...
Close ==
    /\ state = "running" /\ op = "none"
    /\ state' = "closing"
    /\ UNCHANGED <<diskVars, memoryVars, workerVars, callVars, historyVars, boundVars>>

\* ... joins it, and takes the mutex again.
CloseJoined ==
    /\ state = "closing" /\ op = "none" /\ worker = "idle"
    /\ Begin("close", "compaction")
    /\ UNCHANGED <<diskVars, state, memoryVars, workerVars, arg, historyVars, boundVars>>

\* What a call does after ContinueCompaction, and after ContinueFlush.
AfterCompaction ==
    CASE op = "put"   -> "flush"
      [] op = "flush" -> "freeze"
      [] op = "close" -> "flush"
      [] OTHER        -> "return"

AfterFlush ==
    CASE op = "put" /\ arg.sequence = 0 -> IF Full(mutable) THEN "freeze" ELSE "append"
      [] op = "compact"                 -> "prepare"
      [] op = "close"                   -> "freeze"
      [] op = "worker"                  -> "trigger"
      [] OTHER                          -> "return"

\* A call that ran to its end.
Return ==
    /\ pc = "return"
    /\ IF op = "close"
       THEN Forget
       ELSE /\ op' = "none" /\ pc' = "idle" /\ arg' = NoArgument
            /\ background_status' = (op # "put" \/ background_status)
            /\ worker' = IF op = "worker" THEN "idle" ELSE worker
            /\ UNCHANGED <<state, memoryVars, requested>>
    /\ acked' = IF op = "put" /\ arg.sync
                THEN acked \cup {[sequence |-> arg.sequence, key |-> arg.key,
                                  deleted |-> arg.deleted]}
                ELSE acked
    /\ UNCHANGED <<diskVars, written, doubt, boundVars>>

\* The parts that find nothing to do.
Skip ==
    /\ \/ pc = "compaction" /\ ~HasCompaction /\ Proceed(AfterCompaction)
       \/ pc = "flush" /\ ~HasImmutable /\ Proceed(AfterFlush)
    /\ UNCHANGED <<diskVars, memoryVars>>

------------------------------------------------------------------------------
(* Write: the WAL append and the MemTable update *)

\* The record of the write in flight.
NewRecord ==
    [sequence |-> last_sequence + 1, key |-> arg.key, deleted |-> arg.deleted]

\* A foreground write that fills the MemTable ends with FlushLocked, a
\* background one with FreezeMutable(true) if the Immutable slot is free.
AfterAppend(memtable) ==
    CASE ~Full(memtable)               -> "return"
      [] Full(memtable) /\ ~Background -> "freeze"
      [] Full(memtable) /\ Background  -> IF HasImmutable THEN "return" ELSE "rotate"

Append ==
    /\ pc = "append"
    /\ IF wal
       THEN /\ log' = [log EXCEPT ![mutable_generation] =
                         [records |-> @.records \cup {NewRecord},
                          synced |-> IF arg.sync THEN NewRecord.sequence ELSE @.synced]]
            /\ last_sequence' = NewRecord.sequence
            /\ mutable' = Insert(mutable, NewRecord)
            /\ arg' = [arg EXCEPT !.sequence = NewRecord.sequence]
            /\ written' = written \cup {NewRecord}
            /\ pc' = AfterAppend(Insert(mutable, NewRecord))
            /\ UNCHANGED <<dir, past, state, version, tables, mutable_generation, status,
                           wal, immutable, compaction, workerVars, op, doubt, acked,
                           boundVars>>
       ELSE Refused

\* The write or the fdatasync fails; the complete record may be in the file.
\* status_ stays bad: the sequence is spent and no record follows.
AppendFails ==
    /\ pc = "append" /\ wal
    /\ failures < MaxFailures
    /\ failures' = failures + 1
    /\ last_sequence' = NewRecord.sequence
    /\ status' = FALSE
    /\ \/ log' = log /\ doubt' = doubt
       \/ /\ log' = [log EXCEPT ![mutable_generation].records = @ \cup {NewRecord}]
          /\ doubt' = {NewRecord}
    /\ ReturnError
    /\ UNCHANGED <<dir, past, version, tables, mutable, mutable_generation, wal, immutable,
                   compaction, written, acked, crashes>>

------------------------------------------------------------------------------
(* FreezeMutable and OpenMutableWal *)

\* Mutant of CanFreeze: the end of the generation space is not checked.
CanFreezeUnbounded == ~HasImmutable /\ mutable # {} /\ wal

CanFreeze == ~HasImmutable /\ mutable # {} /\ wal /\ mutable_generation < MaxGeneration

FrozenMutable ==
    [NoImmutable EXCEPT !.generation = mutable_generation, !.records = mutable]

\* FreezeMutable(false), of Flush, Compact, Close and a foreground Write.
Freeze ==
    /\ pc = "freeze"
    /\ CanFreeze
    /\ wal' = FALSE
    /\ immutable' = FrozenMutable
    /\ mutable' = {}
    /\ mutable_generation' = mutable_generation + 1
    /\ Proceed("flush")
    /\ UNCHANGED <<diskVars, version, tables, last_sequence, status, compaction>>

\* Nothing to freeze: an Immutable is waiting, or nothing was written.
FreezeSkipped ==
    /\ pc = "freeze"
    /\ HasImmutable \/ mutable = {}
    /\ Proceed(CASE HasImmutable                       -> "flush"
                 [] ~HasImmutable /\ op = "compact"     -> "prepare"
                 [] ~HasImmutable /\ op # "compact"     -> "return")
    /\ UNCHANGED <<diskVars, memoryVars>>

FreezeRefused ==
    /\ pc = "freeze"
    /\ ~HasImmutable /\ mutable # {} /\ ~CanFreeze
    /\ Refused

\* FreezeMutable(true), of a background Write, and the worker is asked to
\* flush.  The write is acknowledged whether or not the next WAL opens.
Rotate ==
    LET next == mutable_generation + 1
    IN  /\ pc = "rotate"
        /\ CanFreeze
        /\ immutable' = FrozenMutable
        /\ mutable' = {}
        /\ mutable_generation' = next
        /\ requested' = TRUE
        /\ pc' = "return"
        /\ \/ /\ wal' = TRUE
              /\ ChangeAndSync(WithWal(dir, next))
              /\ log' = Created(next)
              /\ UNCHANGED <<background_status, failures>>
           \/ /\ failures < MaxFailures
              /\ failures' = failures + 1
              /\ wal' = FALSE
              /\ background_status' = FALSE
              /\ \/ UNCHANGED diskVars
                 \/ Change(WithWal(dir, next)) /\ log' = Created(next)
        /\ UNCHANGED <<state, version, tables, last_sequence, status, compaction, worker, op, arg,
                       historyVars, crashes>>

RotateRefused ==
    /\ pc = "rotate"
    /\ ~CanFreeze
    /\ background_status' = FALSE
    /\ requested' = TRUE
    /\ pc' = "return"
    /\ UNCHANGED <<diskVars, state, memoryVars, worker, op, arg, historyVars, boundVars>>

\* Mutant of OpenMutableWal: the directory is not synced.
OpenMutableWalUnsynced ==
    /\ wal' = TRUE
    /\ IF wal
       THEN UNCHANGED diskVars
       ELSE /\ Change(WithWal(dir, mutable_generation))
            /\ log' = Created(mutable_generation)

\* OpenMutableWal at the end of ContinueFlush and ContinueCompaction.
OpenMutableWal ==
    /\ wal' = TRUE
    /\ IF wal
       THEN UNCHANGED diskVars
       ELSE /\ ChangeAndSync(WithWal(dir, mutable_generation))
            /\ log' = Created(mutable_generation)

OpenMutableWalFails ==
    /\ ~wal
    /\ \/ UNCHANGED diskVars
       \/ /\ Change(WithWal(dir, mutable_generation))
          /\ log' = Created(mutable_generation)
    /\ IoError
    /\ UNCHANGED memoryVars

------------------------------------------------------------------------------
(* ContinueFlush *)

ImmutableTable ==
    [generation |-> immutable.generation, level |-> 0, records |-> immutable.records]

\* PublishTable: write and sync a temporary file, rename it, sync the directory.
FlushTable ==
    /\ pc = "flush" /\ HasImmutable
    /\ ~immutable.version_published /\ ~immutable.pending_table
    /\ ChangeAndSync(WithTable(dir, ImmutableTable))
    /\ immutable' = [immutable EXCEPT !.pending_table = TRUE]
    /\ Proceed("flush")
    /\ UNCHANGED <<log, allButImmutable>>

\* It failed before the rename, after it, or when the table was read back.
FlushTableFails ==
    /\ pc = "flush" /\ HasImmutable
    /\ ~immutable.version_published /\ ~immutable.pending_table
    /\ \/ UNCHANGED <<dir, past>>
       \/ Change(WithTable(dir, ImmutableTable))
       \/ ChangeAndSync(WithTable(dir, ImmutableTable))
    /\ IoError
    /\ UNCHANGED <<log, memoryVars>>

\* The edit moves the sequence frontier to the newest record of the Immutable,
\* and the file-number frontier to the generation that follows it.
FlushEditAccepted ==
    EditAccepted(version, {}, {ImmutableTable}, mutable_generation,
                 MaximumSequence(immutable.records))

\* Mutant of FlushCandidate: the frontier moves to last_sequence_.
FlushCandidateToLast ==
    Apply(version, {}, {ImmutableTable}, mutable_generation, last_sequence)

\* Mutant of FlushCandidate: the file-number frontier stays at the Immutable.
FlushCandidateStays ==
    Apply(version, {}, {ImmutableTable}, immutable.generation,
          MaximumSequence(immutable.records))

FlushCandidate ==
    Apply(version, {}, {ImmutableTable}, mutable_generation,
          MaximumSequence(immutable.records))

FlushManifestDue ==
    /\ pc = "flush" /\ HasImmutable
    /\ ~immutable.version_published /\ immutable.pending_table

FlushManifest ==
    /\ FlushManifestDue
    /\ IF FlushEditAccepted
       THEN /\ ChangeAndSync(WithManifest(dir, FlushCandidate))
            /\ version' = FlushCandidate
            /\ tables' = tables \cup {ImmutableTable}
            /\ immutable' = [immutable EXCEPT !.version_published = TRUE]
            /\ Proceed("flush")
            /\ UNCHANGED <<log, mutable, mutable_generation, last_sequence, status, wal,
                           compaction>>
       ELSE Refused

\* PublishManifest failed before the rename, or the directory sync after it did.
FlushManifestFails ==
    /\ FlushManifestDue
    /\ FlushEditAccepted
    /\ \/ UNCHANGED <<dir, past>>
       \/ Change(WithManifest(dir, FlushCandidate))
    /\ IoError
    /\ UNCHANGED <<log, memoryVars>>

FlushRemoveWal ==
    /\ pc = "flush" /\ HasImmutable
    /\ immutable.version_published /\ ~immutable.wal_removed_and_synced
    /\ ChangeAndSync(WithoutWal(dir, immutable.generation))
    /\ immutable' = [immutable EXCEPT !.wal_removed_and_synced = TRUE]
    /\ Proceed("flush")
    /\ UNCHANGED <<log, allButImmutable>>

FlushRemoveWalFails ==
    /\ pc = "flush" /\ HasImmutable
    /\ immutable.version_published /\ ~immutable.wal_removed_and_synced
    /\ \/ UNCHANGED <<dir, past>>
       \/ Change(WithoutWal(dir, immutable.generation))
    /\ IoError
    /\ UNCHANGED <<log, memoryVars>>

FlushFinish ==
    /\ pc = "flush" /\ HasImmutable /\ immutable.wal_removed_and_synced
    /\ OpenMutableWal
    /\ immutable' = NoImmutable
    /\ Proceed(AfterFlush)
    /\ UNCHANGED <<version, tables, mutable, mutable_generation, last_sequence, status, compaction>>

FlushFinishFails ==
    /\ pc = "flush" /\ HasImmutable /\ immutable.wal_removed_and_synced
    /\ OpenMutableWalFails

------------------------------------------------------------------------------
(* PrepareCompaction and ContinueCompaction *)

\* Mutant of PreparedCompaction: outputs are numbered from one too low.
PreparedCompactionTooLow ==
    LET inputs == CompactionInputs(version)
    IN  [NoCompaction EXCEPT
            !.inputs = Generations(inputs),
            !.outputs = CompactionOutputs(inputs, version.next_file_number - 1),
            !.cleanup = Generations(inputs)]

\* The first output takes the file number of the active, empty WAL.
PreparedCompaction ==
    LET inputs == CompactionInputs(version)
    IN  [NoCompaction EXCEPT
            !.inputs = Generations(inputs),
            !.outputs = CompactionOutputs(inputs, version.next_file_number),
            !.cleanup = Generations(inputs)]

\* Mutant of MayCompact: the active WAL may hold records.
MayCompactWithMutable ==
    /\ ~HasImmutable
    /\ pc = "prepare" => wal
    /\ pc = "trigger" =>
          /\ state = "running"
          /\ Cardinality(Level(version.tables, 0)) >= Level0Trigger

\* CompactLocked's check, or the worker's condition; without one, "trigger" ends
\* the work and "prepare" is an error.
MayCompact ==
    /\ mutable = {} /\ ~HasImmutable
    /\ pc = "prepare" => wal
    /\ pc = "trigger" =>
          /\ state = "running"
          /\ Cardinality(Level(version.tables, 0)) >= Level0Trigger

\* BuildCompactionOutputs succeeds, and the outputs and the WAL behind them have
\* file numbers.
PrepareAccepted ==
    /\ ~HasCompaction /\ tables = version.tables
    /\ MergeAccepted(CompactionInputs(version))
    /\ \A t \in PreparedCompaction.outputs : t.generation < MaxGeneration

Prepare ==
    /\ pc \in {"prepare", "trigger"} /\ MayCompact
    /\ Level(version.tables, 0) # {}
    /\ PrepareAccepted
    /\ compaction' = PreparedCompaction
    /\ Proceed("compaction")
    /\ UNCHANGED <<diskVars, allButCompaction>>

\* No L0 table to compact, or the worker finds the trigger not reached.
PrepareSkipped ==
    /\ \/ pc = "prepare" /\ MayCompact /\ ~HasCompaction /\ Level(version.tables, 0) = {}
       \/ pc = "trigger" /\ ~MayCompact
    /\ Proceed("return")
    /\ UNCHANGED <<diskVars, memoryVars>>

PrepareRefused ==
    /\ \/ pc = "prepare" /\ ~MayCompact
       \/ /\ pc \in {"prepare", "trigger"} /\ MayCompact
          /\ Level(version.tables, 0) # {} /\ ~PrepareAccepted
    /\ Refused

\* The inputs could not be read.
PrepareFails ==
    /\ pc \in {"prepare", "trigger"} /\ MayCompact
    /\ Level(version.tables, 0) # {}
    /\ IoError
    /\ UNCHANGED <<diskVars, memoryVars>>

\* The directory after the outputs numbered below n are renamed into place.
RenamedBelow(n) ==
    [dir EXCEPT !.sst = [g \in Generation |->
        LET renamed == {t \in compaction.outputs : t.generation = g /\ g < n}
        IN  IF renamed = {} THEN @[g] ELSE Records(renamed)]]

CompactionPublishDue ==
    /\ pc = "compaction" /\ HasCompaction
    /\ compaction.outputs # {} /\ ~compaction.published

\* PublishCompactionTables
CompactionPublish ==
    /\ CompactionPublishDue
    /\ ChangeAndSync(RenamedBelow(MaxGeneration + 1))
    /\ compaction' = [compaction EXCEPT !.published = TRUE]
    /\ Proceed("compaction")
    /\ UNCHANGED <<log, allButCompaction>>

\* It failed with none, some or all of the outputs renamed, or when they were
\* read back.
CompactionPublishFails ==
    /\ CompactionPublishDue
    /\ \/ \E n \in Generations(compaction.outputs) \cup {MaxGeneration + 1} :
             /\ dir' = RenamedBelow(n)
             /\ past' = past \cup {RenamedBelow(m) :
                                    m \in {g \in Generations(compaction.outputs) : g < n}}
       \/ ChangeAndSync(RenamedBelow(MaxGeneration + 1))
    /\ IoError
    /\ UNCHANGED <<log, memoryVars>>

\* The file number behind the outputs, which were numbered when the compaction
\* was prepared; without outputs the frontier stays.
NumberBehindOutputs ==
    IF compaction.outputs = {}
    THEN version.next_file_number
    ELSE 1 + CHOOSE g \in Generations(compaction.outputs) :
                 \A h \in Generations(compaction.outputs) : h <= g

CompactionEditAccepted ==
    EditAccepted(version, compaction.inputs, compaction.outputs, NumberBehindOutputs,
                 version.last_sequence)

\* The candidate is built once and kept for every later attempt.
CompactionCandidate ==
    IF compaction.candidate # NoVersion
    THEN compaction.candidate
    ELSE Apply(version, compaction.inputs, compaction.outputs, NumberBehindOutputs,
               version.last_sequence)

CompactionManifestDue ==
    /\ pc = "compaction" /\ HasCompaction
    /\ compaction.outputs = {} \/ compaction.published
    /\ ~compaction.version_published

\* The outputs used the file number of the active WAL, so that WAL is given up
\* and the next one takes the number behind the outputs.
CompactionManifest ==
    LET advanced == compaction.outputs # {}
    IN  /\ CompactionManifestDue
        /\ IF compaction.candidate # NoVersion \/ CompactionEditAccepted
           THEN /\ ChangeAndSync(WithManifest(dir, CompactionCandidate))
                /\ version' = CompactionCandidate
                /\ tables' = {t \in tables : t.generation \notin compaction.inputs}
                               \cup compaction.outputs
                /\ compaction' =
                      [compaction EXCEPT !.candidate = CompactionCandidate,
                                         !.version_published = TRUE,
                                         !.stale_wal = IF advanced THEN mutable_generation ELSE 0,
                                         !.wal_generation_advanced = advanced]
                /\ wal' = (wal /\ ~advanced)
                /\ mutable_generation' = IF advanced
                                         THEN CompactionCandidate.next_file_number
                                         ELSE mutable_generation
                /\ Proceed("compaction")
                /\ UNCHANGED <<log, mutable, last_sequence, status, immutable>>
           ELSE Refused

CompactionManifestFails ==
    /\ CompactionManifestDue
    /\ compaction.candidate # NoVersion \/ CompactionEditAccepted
    /\ \/ UNCHANGED <<dir, past>>
       \/ Change(WithManifest(dir, CompactionCandidate))
    /\ compaction' = [compaction EXCEPT !.candidate = CompactionCandidate]
    /\ IoError
    /\ UNCHANGED <<log, allButCompaction>>

\* Mutant of CleanupDue: the inputs are removed before the MANIFEST is published.
CleanupDueEarly ==
    /\ pc = "compaction" /\ HasCompaction
    /\ compaction.cleanup # {} \/ compaction.stale_wal # 0

CleanupDue ==
    /\ pc = "compaction" /\ HasCompaction /\ compaction.version_published
    /\ compaction.cleanup # {} \/ compaction.stale_wal # 0

\* One RemoveFile of cleanup_paths: the inputs in order, then the WAL.
CompactionRemove ==
    /\ CleanupDue
    /\ IF compaction.cleanup # {}
       THEN \E g \in compaction.cleanup :
               /\ \A h \in compaction.cleanup : g <= h
               /\ Change(WithoutTable(dir, g))
               /\ compaction' = [compaction EXCEPT !.cleanup = @ \ {g}]
       ELSE /\ Change(WithoutWal(dir, compaction.stale_wal))
            /\ compaction' = [compaction EXCEPT !.stale_wal = 0]
    /\ Proceed("compaction")
    /\ UNCHANGED <<log, allButCompaction>>

CompactionRemoveFails ==
    /\ CleanupDue
    /\ IoError
    /\ UNCHANGED <<diskVars, memoryVars>>

CleanupDone ==
    /\ pc = "compaction" /\ HasCompaction /\ compaction.version_published
    /\ compaction.cleanup = {} /\ compaction.stale_wal = 0

CompactionSync ==
    /\ CleanupDone /\ ~compaction.cleanup_synced
    /\ ChangeAndSync(dir)
    /\ compaction' = [compaction EXCEPT !.cleanup_synced = TRUE]
    /\ Proceed("compaction")
    /\ UNCHANGED <<log, allButCompaction>>

CompactionSyncFails ==
    /\ CleanupDone /\ ~compaction.cleanup_synced
    /\ IoError
    /\ UNCHANGED <<diskVars, memoryVars>>

CompactionFinish ==
    /\ CleanupDone /\ compaction.cleanup_synced
    /\ IF compaction.wal_generation_advanced
       THEN OpenMutableWal
       ELSE UNCHANGED <<diskVars, wal>>
    /\ compaction' = NoCompaction
    /\ Proceed(AfterCompaction)
    /\ UNCHANGED <<version, tables, mutable, mutable_generation, last_sequence, status, immutable>>

CompactionFinishFails ==
    /\ CleanupDone /\ compaction.cleanup_synced
    /\ compaction.wal_generation_advanced
    /\ OpenMutableWalFails

------------------------------------------------------------------------------
(* BackgroundLoop and RunBackgroundWorkLocked *)

\* The worker takes a request.  It gives the mutex up to build the table.
WorkerStart ==
    /\ state = "running" /\ op = "none" /\ requested
    /\ requested' = FALSE
    /\ IF HasImmutable /\ ~immutable.version_published /\ ~immutable.pending_table
       THEN worker' = "publishing" /\ UNCHANGED <<op, pc>>
       ELSE worker' = "locked" /\ Begin("worker", "flush")
    /\ UNCHANGED <<diskVars, state, memoryVars, background_status, arg, historyVars, boundVars>>

\* PublishTable without the mutex, while writers go on.
WorkerPublish ==
    /\ worker = "publishing"
    /\ \/ /\ ChangeAndSync(WithTable(dir, ImmutableTable))
          /\ worker' = "published"
          /\ UNCHANGED failures
       \/ /\ failures < MaxFailures
          /\ failures' = failures + 1
          /\ worker' = "failed"
          /\ \/ UNCHANGED <<dir, past>>
             \/ Change(WithTable(dir, ImmutableTable))
             \/ ChangeAndSync(WithTable(dir, ImmutableTable))
    /\ UNCHANGED <<log, state, memoryVars, background_status, requested, callVars,
                   historyVars, crashes>>

\* It takes the mutex again and goes on with ContinueFlush, or reports.
WorkerResume ==
    /\ worker \in {"published", "failed"} /\ op = "none"
    /\ IF worker = "published"
       THEN /\ immutable' = [immutable EXCEPT !.pending_table = TRUE]
            /\ worker' = "locked"
            /\ Begin("worker", "flush")
            /\ UNCHANGED background_status
       ELSE /\ background_status' = FALSE
            /\ worker' = "idle"
            /\ UNCHANGED <<immutable, op, pc>>
    /\ UNCHANGED <<diskVars, state, version, tables, mutable, mutable_generation, last_sequence,
                   status, wal, compaction, requested, arg, historyVars, boundVars>>

------------------------------------------------------------------------------
(* The specification *)

\* An empty directory, and no process.
Init ==
    /\ dir = [manifest |-> NoVersion, sst |-> [g \in Generation |-> {}], wals |-> {}]
    /\ past = {}
    /\ log = [g \in Generation |-> EmptyWal]
    /\ state = "down"
    /\ version = NoVersion
    /\ tables = {}
    /\ mutable = {}
    /\ mutable_generation = 0
    /\ last_sequence = 0
    /\ status = TRUE
    /\ wal = FALSE
    /\ immutable = NoImmutable
    /\ compaction = NoCompaction
    /\ background_status = TRUE
    /\ requested = FALSE
    /\ worker = "idle"
    /\ op = "none"
    /\ pc = "idle"
    /\ arg = NoArgument
    /\ written = {}
    /\ doubt = {}
    /\ acked = {}
    /\ crashes = 0
    /\ failures = 0

Environment == ProcessCrash \/ PowerFailure

Call ==
    \/ Open \/ OpenFails
    \/ \E key \in Key, deleted \in BOOLEAN, sync \in SyncModes : Put(key, deleted, sync)
    \/ Flush \/ Compact \/ Close \/ CloseJoined

WriteStep ==
    \/ Append \/ AppendFails
    \/ Freeze \/ FreezeSkipped \/ FreezeRefused
    \/ Rotate \/ RotateRefused

FlushStep ==
    \/ FlushTable \/ FlushTableFails
    \/ FlushManifest \/ FlushManifestFails
    \/ FlushRemoveWal \/ FlushRemoveWalFails
    \/ FlushFinish \/ FlushFinishFails

CompactionStep ==
    \/ Prepare \/ PrepareSkipped \/ PrepareFails \/ PrepareRefused
    \/ CompactionPublish \/ CompactionPublishFails
    \/ CompactionManifest \/ CompactionManifestFails
    \/ CompactionRemove \/ CompactionRemoveFails
    \/ CompactionSync \/ CompactionSyncFails
    \/ CompactionFinish \/ CompactionFinishFails

WorkerStep == WorkerStart \/ WorkerPublish \/ WorkerResume

Next ==
    \/ Environment \/ Call \/ Skip \/ Return
    \/ WriteStep \/ FlushStep \/ CompactionStep \/ WorkerStep

Spec == Init /\ [][Next]_vars

------------------------------------------------------------------------------
(* Properties *)

TypeDisk == dir \in Directory /\ past \subseteq Directory /\ log \in Log

TypeMemory ==
    /\ version \in VersionType
    /\ tables \subseteq Table
    /\ mutable \subseteq Record
    /\ mutable_generation \in 0 .. MaxGeneration
    /\ last_sequence \in 0 .. MaxSequence
    /\ immutable \in ImmutableGeneration
    /\ compaction \in CompactionState

TypeFlags ==
    /\ status \in BOOLEAN /\ wal \in BOOLEAN
    /\ background_status \in BOOLEAN /\ requested \in BOOLEAN

TypeCall ==
    /\ state \in {"down", "running", "closing"}
    /\ worker \in {"idle", "publishing", "published", "failed", "locked"}
    /\ op \in {"none", "put", "flush", "compact", "resume", "close", "worker"}
    /\ pc \in {"idle", "compaction", "flush", "append", "freeze", "rotate",
               "prepare", "trigger", "return"}
    /\ arg \in Argument

TypeHistory ==
    /\ written \subseteq Record /\ doubt \subseteq Record /\ acked \subseteq Record
    /\ crashes \in 0 .. MaxCrashes /\ failures \in 0 .. MaxFailures

\* Every variable has its type; in particular file numbers and sequence numbers
\* stay in range, and what is acknowledged is a record.
TypeOK == TypeDisk /\ TypeMemory /\ TypeFlags /\ TypeCall /\ TypeHistory

\* Database::Get: the Mutable, then the Immutable, then the newest record of
\* all tables; at most one record.
Get(key) ==
    UserVisible(
        CASE Lookup(mutable, key) # {} -> Lookup(mutable, key)
          [] Lookup(mutable, key) = {} /\ Lookup(immutable.records, key) # {} ->
                Lookup(immutable.records, key)
          [] OTHER -> Newest(Lookup(Records(tables), key)))

\* Get returns the last write of the key that the database answers for, across
\* rotation, flush, compaction, failed maintenance, crashes and recovery.
ReadsMatchHistory ==
    state = "running" =>
        \A key \in Key : Get(key) = UserVisible(Newest(Lookup(written, key)))

\* The record is covered by the frontier of d's MANIFEST or is durable in a WAL
\* that Open would replay.
Recoverable(d, r) ==
    \/ r.sequence <= d.manifest.last_sequence
    \/ \E g \in Unmatched(d) : r \in log[g].records /\ r.sequence <= log[g].synced

\* Whatever directory a power failure leaves, it still holds every strict
\* write that returned Ok: WALs are unlinked only after a durable MANIFEST
\* covers them.
AckedDurable ==
    \A d \in Survivors, r \in acked : Recoverable(d, r)

SyncedLog ==
    [g \in Generation |->
        [log[g] EXCEPT !.records = {r \in @ : r.sequence <= log[g].synced}]]

\* Open accepts every directory a crash can leave, whether the WALs lose
\* nothing or everything that was not synced: no missing or foreign table, no
\* WAL ahead of the frontier, no overlapping sequences, no empty Immutable WAL.
DirectoryOpens ==
    \A d \in Survivors : OpenAccepts(d, log) /\ OpenAccepts(d, SyncedLog)

\* The tables of every MANIFEST that may survive answer for exactly the writes
\* up to its sequence frontier: the frontier claims nothing that only the next
\* WAL holds, and compaction drops nothing that is still visible.
FrontierIsComplete ==
    \A d \in Survivors, key \in Key :
        UserVisible(Newest(Lookup(Records(d.manifest.tables), key))) =
        UserVisible(Newest({w \in Lookup(written, key) :
                               w.sequence <= d.manifest.last_sequence}))

\* While a table file exists its content stays: no file number is given out
\* twice, whatever maintenance failed or was cut short before.
FileNumbersKept ==
    [][\A g \in Generation :
          dir.sst[g] # {} /\ dir'.sst[g] # {} => dir'.sst[g] = dir.sst[g]]_vars

\* Maintenance that stopped half-way can be finished: Version::Apply never
\* refuses the edit that is due.
PendingEditAccepted ==
    /\ FlushManifestDue => FlushEditAccepted
    /\ CompactionManifestDue /\ compaction.candidate = NoVersion => CompactionEditAccepted
==============================================================================
