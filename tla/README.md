# A TLA+ verification of the MiniKV storage engine

MiniKV is an embedded key-value store built as a log-structured merge tree: a
write-ahead log (WAL) and an ordered MemTable, sorted tables on two levels, a
MANIFEST that names the live tables, and one optional background thread. This
directory holds a model of the engine, the model-checking runs over it, and
machine-checked proofs. `PROJECT.json` is the index: components, runs, the map
from definitions to source lines, hazards, findings and theorems.

## 1. Inventory

| component | state it keeps | operations | what makes it correct |
|---|---|---|---|
| Database engine (`src/src/database.cpp`) | `version_`, `tables_`, `mutable_` and its generation, `wal_`, `immutable_`, `compaction_`, `last_sequence_`, three statuses, worker flags | Open, Put, Delete, Get, Scan, Flush, Compact, Close, WaitForBackgroundWork, the worker | reads see the last write; acknowledged strict writes survive; every crash leaves a directory that opens; interrupted maintenance can be finished |
| MANIFEST and Version (`manifest.cpp`) | id, file-number frontier, sequence frontier, live tables | NewDatabase, Apply, Encode/Decode, Load, Publish | frontiers never regress; file numbers are unique; L1 ranges are disjoint |
| Compaction (`compaction.cpp`) | none | BuildCompactionOutputs, PublishCompactionTables | the newest record of a key survives; a tombstone goes only when nothing older is left |
| Flush environment (`flush.cpp`) | the directory | CreateTruncated, Rename, RemoveFile, SyncDirectory, PublishTable | a table is complete and durable before a MANIFEST names it |
| MemTable (`memtable.cpp`) | one entry per key, size estimate | Put, Delete, Lookup, Records | sequence numbers of a key increase |
| WAL (`wal.cpp`) and recovery (`recovery.cpp`) | the log file, sticky failure | Append, RecoverWal, TruncateIncompleteTail | exactly the complete records come back; only a torn tail is cut |
| WritePath (`write_path.cpp`) | WAL, MemTable, last sequence | Create, Open, Write | as the engine's Write |
| Range scan (`scan.cpp`) | none; continuation tokens | Scan, ScanPrefix | pages concatenate to one consistent listing |
| SSTable, Bloom filter (`table.cpp`, `bloom_filter.cpp`) | the encoded table | EncodeTable, Open, Get, iterator | lookup equals the record set; no false negatives |
| File layer (`file.cpp`), lock (`database_lock.cpp`) | descriptors | WriteAll, ReadAllAt, flock | short transfers continue; one process per directory |
| Coding, Status, tools, benchmarks | - | conversions, a dump, a benchmark | not part of the model |

**Interaction.** Callers and the worker share the state under `state_mutex_`.
Reads hold it shared, everything else holds it exclusively, except the
worker's `PublishTable`, which runs without it. A write goes to the WAL, then
to the MemTable. A full MemTable is frozen into the *Immutable* and its WAL
stays until ContinueFlush has published a table and a MANIFEST. Compaction
requires an empty Mutable. Its first output takes the file number of the active,
empty WAL, so that WAL is abandoned and one with a higher number is opened.

**What is hard.** ContinueFlush and ContinueCompaction are re-entrant: after an
error they stop with flags set, and the next call (a write, Flush, Compact,
Close, or recovery in another process) resumes. A system call may fail after it
took effect, such as a rename whose directory sync fails. A power failure may undo
every directory change since the last sync and cut unsynced WAL tails. WALs,
tables and compaction outputs draw on one file-number space, in which three
parties must agree who owns the next number. The hazards in `PROJECT.json` are
listed at the lines where these things bite.

## 2. Modules

| module | what it is |
|---|---|
| `Version` | records, tables, Versions; Apply with its validation, compaction inputs, merge and outputs, as operators |
| `Database` | the engine: state machine, crashes, failures, properties |
| `DurableLog` | what a WAL promises: records that only a power failure shortens, never below the last sync |
| `Maintenance` | the threads: callers, the worker, both condition variables, the join, the directory lock; states fairness |
| `SSTable` | one table file and its Bloom filter: layout, Open, Get, the iterator, as operators |
| `Scan` | range scans with continuation tokens over Mutable, Immutable and `SSTable` files that change between pages |
| `MCScan` | keys, calls and hash functions of the `Scan` instance |
| `WritePath` | one WAL byte by byte with the stand-alone WritePath above it; implements `DurableLog` |
| `MCDatabase` | the module TLC runs; the instances are in the `.cfg` files |
| `DatabaseInvariants` | the invariants `TypeInv` and `DurableInv`, and the setting of the second |
| `HistoryInvariants` | the invariants `FilesInv` and `HistoryInv` on top of them |
| `DatabaseFacts` | lemmas on the operators of `Version` and `Database` that several proofs use |
| `DatabaseTypes` | every step keeps `TypeInv`; theorem `TypeCorrectness` |
| `DatabaseDurability` | every step keeps `DurableInv` |
| `HistoryFacts` | lemmas on answers, table files, Open and what crashes leave; every step keeps `FilesInv`; what follows from `HistoryInv` |
| `DatabaseHistory` | the steps that write, publish, crash or open keep `HistoryInv` |
| `DatabaseCorrectness` | the invariants together; the theorems on durability, files, reads and reopening |
| `MaintenanceProofs` | theorems `WorkerAlone`, `CloseFinishes`, `FlagsAgree`, `WritersHaveCause`, `FlushStaysDue` |
| `WritePathInvariant` | the invariant `WritePathInv` |
| `WritePathProofs` | every step keeps it; the theorems on the log, and that it implements `DurableLog` |

### State of `Database`

| variable | code |
|---|---|
| `dir` | the directory the process sees: MANIFEST, table contents by number, WAL numbers |
| `past` | the directories it was since the last `SyncDirectory`; a power failure may bring one back |
| `log` | records of each WAL and the last sequence that `fdatasync` confirmed |
| `state` | no process, `kRunning`, `kClosing` |
| `version`, `tables`, `mutable`, `mutable_generation`, `last_sequence`, `wal`, `immutable`, `compaction`, `status`, `background_status` | the members of the same name |
| `requested`, `worker` | `background_work_requested_`; where the worker is in RunBackgroundWorkLocked |
| `op`, `pc`, `arg` | the call that holds the mutex, its next part, the write in flight |
| `written`, `doubt`, `acked` | history: writes the database answers for; a failed append whose record is in the file; strict writes that returned Ok |
| `crashes`, `failures` | bounds |

### Actions of `Database`

One action is one group of system calls of an operation: `FlushTable`,
`FlushManifest`, `FlushRemoveWal`, `FlushFinish` are the four parts of
ContinueFlush, and `CompactionPublish`, `CompactionManifest`,
`CompactionRemove`, `CompactionSync`, `CompactionFinish` those of
ContinueCompaction. Each has a `...Fails` action with every outcome the failing
call can leave on disk. A check in the code that returns an error is the
action's `Refused` branch. Calls chain the parts through `pc` (`AfterCompaction`,
`AfterFlush`, `AfterAppend`), in the code's order. Readers hold the mutex
shared and change nothing, so Get is an operator and not an action. The worker
has `WorkerStart`, `WorkerPublish` (without the mutex, interleaved with writes)
and `WorkerResume`; the rest of its work is the same ContinueFlush and
ContinueCompaction actions with `op = "worker"`.

### Data abstraction

A record is (sequence, key, deleted): sequences are unique, so the value bytes
add nothing. A table is the set of its records. The MANIFEST entry of a table
carries the records, so "metadata agrees" is equality of contents. Sizes are
numbers of keys. Temporary files are left out: nothing reads them and Open
removes them. When Open fails its checks it has already removed orphans; such
a refusal is not an action of the model, because `DirectoryOpens` shows that
Open refuses no reachable directory in the passing runs.

### Maintenance

`Database` lets one call at a time hold the mutex and shows what happens to the
files. `Maintenance` shows who gets the mutex, and when. Everything a thread does
from taking `state_mutex_` to giving it up is one step. It gives it up when it
waits on a condition variable, joins, returns, or (the worker) builds a table.

| variable | code |
|---|---|
| `state`, `stop_background`, `requested`, `running`, `status`, `background_status`, `close_status` | the members of the same name; the worker's flags are `background_work_requested_` and `background_work_running_` |
| `engine` | what maintenance works on: size of `mutable_`, whether `wal_` is open, the stages of `immutable_` and `compaction_`, the number of L0 tables, who owns the contested file number, whether `tables_` and `version_` agree |
| `lock` | who holds the `flock` on LOCK |
| `worker`, `at`, `call` | the place of the worker and of every caller: `waiting` on `background_cv_`, `lifecycle` on `lifecycle_cv_`, `ready` when notified, `join` |

ContinueFlush, ContinueCompaction, FlushLocked, CompactLocked and
RunBackgroundWorkLocked are operators that return the set of their possible
results: the engine left behind, Ok or not, and whether a system call failed.
`Then` is the code's early return between two parts. A failed call leaves the
stage that was reached, so the next call resumes there.

| action | code |
|---|---|
| `Start`, `ReturnClosed` | a caller enters; IsRunningLocked() is false |
| `WriteWaits`, `WriteRefused`, `Write`, `WriteFails` | Write in background mode, with rotation and the request for work |
| `MaintenanceWait`, `Maintain` | Flush and Compact |
| `WaitForBackgroundWork` | the function of that name |
| `CloseFirst`, `CloseAgain`, `CloseFinish` | the first Close up to the join, any other Close, the first one after the join |
| `WorkerLooks`, `WorkerTakes`, `WorkerResumes` | BackgroundLoop and RunBackgroundWorkLocked |
| `SpuriousWakeup`, `OtherOpens` | the condition variable's licence; another Database on the directory |

### Scan and SSTable

A key is a sequence of bytes, ordered as `std::string` orders it. A table file is
the record its regions decode to: blocks by offset, sparse index, Bloom filter,
footer summary. The sizes that decide where a block ends are kept, scaled
down. The filter's two hash functions are parameters, so the filter may collide
in any way. `Scan` has the sources of a scan (`mutable`, `immutable`, `tables`),
the two numbers a token carries (`version_id`, `last_sequence`), and a `reader`
who goes through the pages of one call with changing limits. Scan and Get hold
the mutex shared, so a page is one step; `Write`, `Freeze`, `Flush` and
`FlushFails` happen between pages. `newest` and `reader.listing` are history.

### WritePath and DurableLog

`Database` treats a WAL file as a set of records and a last synced sequence
number. `DurableLog` states that contract: append a record, sync, and a power
failure that keeps at least what was synced. `WritePath` is the code below it.
`file` is the sequence of bytes a process reads, `disk` the bytes the last
`fdatasync` covered. A byte knows its record and its place in the encoding, so
decoding succeeds exactly on what was encoded; CRC32C is taken to detect every
mixture. A header has no checksum of its own, so a byte also carries `size`, the
record size its field says, or 0 for a field that is not valid. The first byte of a
header stands for magic, version, type and the sizes of key and value, the second for
`record_size`, the others for the sequence number and the checksum. HeaderDecodes is
what DecodeWalRecordHeader checks: no field is invalid, and the two sizes agree. So
RecoverWal believes a damaged header whose two sizes were raised alike, as the code
does. `Damage` lets the storage change what a byte says. With `Detectable = TRUE` it
leaves no header that announces more bytes than its record has; with `FALSE` it may.

| action | code |
|---|---|
| `Open`, `RecoverRecord`, `RecoverEnd`, `RecoverTail`, `RecoverCorruption` | WritePath::Open and the loop of RecoverWal, one record a step |
| `Truncate`, `SyncTail` | TruncateIncompleteTail: `ftruncate`, then `fdatasync` |
| `Write`, `WriteSome`, `Sync`, `ApplyRecord` | WritePath::Write, one turn of WriteAll, `fdatasync`, MemTable |
| `OpenFails`, `AppendFails` | any call of the two fails |
| `ProcessCrash`, `PowerFailure`, `Damage` | memory is lost; any prefix between `disk` and `file` is left; the storage flips bits of a byte |

`pc` is the next step, `offset` counts the bytes RecoverWal has read or WriteAll
has written, `acked` and `answered` are the strict and all acknowledged writes.

## 3. Runs

| run | instance | checks |
|---|---|---|
| `foreground` | no worker, 2 keys, 3 writes, 5 file numbers, outputs of 1 record, 1 crash, 1 failure | all seven properties |
| `background` | worker, rotation at every write, trigger 2, 1 crash, 1 failure | five properties |
| `async_writes` | kSync and kAsync mixed, 3 keys, 3 writes, 9 file numbers, outputs of up to 2 records, 1 crash | reads, durability, openability, frontier, edits |
| `wal_bytes` | one WAL, 1 key, 2 writes, headers of 3 bytes, 2 crashes, 1 failure, 2 damaged bytes, `Detectable` | nine properties of `WritePath` |
| `disguised_tail` | 2 writes, 2 damaged bytes, not `Detectable` | finds `RecordsKept` violated |
| `compact_then_write` | worker, foreground Compact, 1 failure | finds `AckedDurable` violated |
| `async_rotation` | worker, kAsync | finds `DirectoryOpens` violated |
| `maintenance` | 2 callers, all five calls, 2 writes, rotation at every write, trigger 1, 2 failures | three invariants, an action property, two liveness properties |
| `cleared_error` | 1 caller of Put and Compact, 3 writes, trigger 2, 2 failures | finds `WritesReturn` violated |
| `scan` | bytes 0 and 1, 4 keys, 3 writes, blocks of one or two records, limits 1 and 2, 1 failed flush | six properties of `Scan` |
| `closed_maintenance` | 2 callers of Put, Flush and Close, 1 failure | finds `DirectoryOwned` violated |
| `scan_after_failed_flush` | the instance of `scan` | finds `ImmutableScannable` violated |

* `TypeOK`: the type invariant; numbers stay in range at the end of the
  generation space.
* `ReadsMatchHistory`: Get equals the newest write the database answers for, in
  every state of a running process, also in the middle of maintenance.
* `AckedDurable`: in every directory that may survive, an acknowledged strict
  write is covered by the sequence frontier or durable in a WAL Open replays.
* `DirectoryOpens`: Open accepts every directory that may survive.
* `FrontierIsComplete`: the tables of every MANIFEST that may survive answer for
  exactly the writes up to its frontier. `AckedDurable` counts a record below
  the frontier as safe; this property is what makes that right.
* `FileNumbersKept`: while a table file exists its content stays.
* `PendingEditAccepted`: Version::Apply never refuses the edit of resumed work.

Of `WritePath`:

* `StrictSurvives`, `AnsweredInFile`: strict writes have all their bytes in every file
  a power failure may leave, and all acknowledged ones in the file a process
  crash leaves, also in the middle of a repair.
* `RecoversPrefix`: the complete records of every file that may survive have the
  sequence numbers 1 to n, so no later write outlives an earlier one.
* `MemtableIsLog`: the MemTable is the newest complete record of each key, apart
  from a record whose Append failed.
* `NeverCorrupt`: without damage RecoverWal never reports corruption, and the
  MemTable never refuses a record that the WAL took.
* `OpenedUndamaged`, `RecordsKept`: Open never accepts a damaged record, and no step
  but a crash removes a record of full length, damaged or not.
* `ImplementsLog`: `WritePath` implements `DurableLog`, with the complete records
  of `file` as the log and the last one of `disk` as the synced number.

Of `Maintenance`:

* `PublishingAlone`: while the worker reads the Immutable without the mutex, nobody
  else flushes, replaces or frees it, and the directory is locked.
* `CloseComplete`: a Close that reports Ok leaves nothing to flush or to finish,
  also when calls that waited go on after it.
* `FlushIsDue`: no step leaves an Immutable that nobody will flush (`Abandoned`: the
  database runs, no error is set, nothing is requested or running), but a Compact that
  clears an error, which is finding 5.
* `CallsReturn`: every call other than a write returns, and so does every write unless
  the Immutable stays abandoned. `RequestsServed`: every request is taken by the worker
  or dropped by Close.
* `WritesReturn`: every write returns, without that exception.
* `DirectoryOwned`: the files of a flush or a compaction change only under the
  directory lock.

Of `Scan` and `SSTable`:

* `TablesOpen`: every file EncodeTable lays out passes all checks of Open. Its blocks,
  index and footer are what could fail. That the filter holds every key cannot, because
  `AddToFilter` and `MayContain` share `Probes`, as the code has one loop twice.
* `GetMatchesHistory`: Get, through key ranges, filters and sparse indexes, returns
  the newest write.
* `ScanListsAll`: LoadAll lists exactly the live keys, in order, from whatever mix
  of sources, unless a flush stopped half-way (see finding 4).
* `PagesConsistent`, `PagesComplete`: the pages joined by accepted tokens are a
  prefix of what the first page's moment held for the call, and all of it when a
  page comes without a token. `reader.listing` is computed from the prefix
  itself, so this also checks PrefixUpperBound.
* `ImmutableScannable`: what the repository's test says of a failed flush.

**Bounds.** Three writes on two keys give an overwrite, a deletion and a second
generation; two L0 tables and an L1 table need three generations and one
compaction. The last file number is reached in `background` and `foreground`,
so the refusals there are exercised. One failure and one crash in sequence show
every retry and every recovery from a half-done step; a crash inside a call is
a crash after that call failed at the same place. `async_writes` gives up failures
for a third key, with which an L1 range can enclose a key it does not hold. In
`wal_bytes` every cut of a record is reached: within the header, after it, and before
the last byte; the second crash hits the repair of the first. Two damaged bytes are
what a disguise takes, and headers of 3 bytes are the shortest that have both sizes and
a byte that only the checksum covers. `MaxRecordSize` exceeds the longest record by
one, which is enough to announce more than a file holds. There is no SYMMETRY: keys are ordered.

In `maintenance` two callers and the worker give every pair of waiting threads.
Open may find an Immutable WAL, so the first write fills the Mutable behind a pending
Immutable and the second has to wait. Two failures are what finding 5 takes, and both
occur: a Compact and the worker's flush. There is no SYMMETRY because liveness is
checked.

In `scan`, byte 1 plays 0xff. The keys are prefixes of one another, with and
without a successor of their length. Three writes give an overwrite or deletion
across two sources and a table of two blocks; limit 1 puts a page boundary after
every record.

**Fairness.** `Maintenance` assumes weak fairness of each caller's steps after it
has entered a call, and of the worker's: a thread that can run and take the mutex
does so in the end, and the system calls of PublishTable return. That is what the
operating system's scheduler and mutex give the code. Nothing is assumed of
`Start` (nobody has to call), `SpuriousWakeup` or `OtherOpens`, so no call returns
thanks to a later call or an accidental wake-up. The other specifications state
no fairness and claim no liveness. Deadlock is checked in every run.

### Findings

1. `compact_then_write`: in background mode a failed foreground Compact leaves
   `compaction_` pending, and Write neither resumes it nor refuses
   (`database.cpp:755`). A strict write then goes to the WAL whose number the
   outputs own; the retry unlinks that WAL.
2. `async_rotation`: rotation does not sync the frozen WAL. After kAsync writes
   a power failure may leave it empty beside its successor, and Open refuses the
   directory (`database.cpp:395`), although only recent asynchronous writes
   were lost.
3. `closed_maintenance`: Flush and Compact check that the database is running and
   then wait for the worker without checking again (`database.cpp:830`). If Close
   fails to flush meanwhile, it releases the lock, and the waiting Flush then
   flushes into a directory that another process may have opened.
4. `scan_after_failed_flush`: a flush that fails after publishing its table leaves
   the records in the Immutable and in the table. Scan finds one sequence number
   in two sources and reports corruption (`scan.cpp:435`) until a retry succeeds;
   Get is not affected.
5. `cleared_error`: Compact clears `background_status_` whenever it succeeds
   (`database.cpp:875`). It succeeds without flushing when it only finishes a compaction
   that was left pending. If the worker's flush failed before, the Immutable stays, no
   error is set and nothing is requested; once the Mutable is full the next writer waits
   until some other call flushes or closes.
6. `disguised_tail`: RecoverWal takes the rest of a file for a torn tail on the word
   of a header whose only protection, the checksum of the whole record, has not been
   computed yet (`recovery.cpp:104`). One damaged byte is always found. Two that raise
   `record_size` and `value_size` alike make it truncate a complete record and all
   behind it, and Open succeeds.

The passing runs of `Database` stay clear of the first two: `Calls` of
`background` has no `compact`, `async_writes` has no worker. In `scan` the
property `ScanListsAll` excludes finding 4. `maintenance` has the interleaving of
finding 3 and its properties hold in spite of it; it has that of finding 5 too, which
`FlushIsDue` and `CallsReturn` name and exclude. `wal_bytes` excludes finding 6 by
`Detectable`. This rules out slightly more than it must: also a header that announces
more than its record has but no more than the file holds, which the checksum finds.

**Ordered directory changes** (`Ordered = TRUE`) are an assumption of all runs. Open
unlinks a WAL on the word of a MANIFEST whose rename may not be durable
(`database.cpp:322`). With `Ordered = FALSE`, where two names of one directory may
reach the disk in any order, TLC finds `AckedDurable` violated: a power failure
brings the old MANIFEST back without the WAL. On file systems that keep the order
of changes in one directory the property holds, as the runs show.

## 4. Proofs

The theorems hold for every set of keys, every bound and every option that the
named assumptions `VersionAssumption`, `DatabaseAssumption`,
`MaintenanceAssumption` and `WritePathAssumption` allow. `Version` has one more
assumption, `FiniteOrder`: non-empty sets of file numbers, sequence numbers and
keys have ends, and counting keys is monotonic. Theorem `FiniteOrderHolds` (in
`WritePathProofs`) derives it from `VersionAssumption`, so it excludes no
instance. It is an assumption because the proofs about the engine are checked
several times faster without the theory of finite sets in their context.

**`TypeCorrectness`: Spec => []TypeOK.** `TypeOK` is not inductive, because an
action's result is typed only if it was due: a flush names its table after the
Immutable, outputs must end below the last file number, an acknowledged write
must have taken its sequence. `TypeInv` adds four parts: a process that is down
has no memory (`DownIsEmpty`), which parts belong to which call (`CallOK`),
numbers in use are not 0 (`NumbersOK`), and what the worker and a writer may
assume of each other (`WorkerOK`). One lemma per action.

**`StrictDurability`: StrictSetting => (Spec => []AckedDurable).** The setting is
ordered metadata, and no Compact() in background mode: without either, TLC finds
a violation (section 3, "Ordered directory changes" and finding 1). Asynchronous writes and all other options are allowed.
`AckedDurable` speaks of the disk only and a flush unlinks a WAL because of
what memory says, so the invariant `DurableInv` ties the two together:

* `ExclusionOK`: a pending compaction excludes an Immutable, unflushed writes
  and, in background mode, writers;
* `GenerationsOK`, `CandidateOK`: frontier, Immutable and Mutable have
  consecutive numbers; what a pending compaction will publish;
* `DiskOK`, `WalsOK`: every directory that may survive has a MANIFEST that memory
  knows of and the WALs that memory relies on, without a gap;
* `StrictHeld`: where each strict write is: below the frontier, in the
  Immutable's WAL or in the Mutable's WAL, and synced there;
* `StrictDurable`: the claim itself, the only part left when no process runs.

While a process runs, `StrictDurable` follows from the others (`HeldIsDurable`),
so each step only has to keep those. A crash keeps `StrictDurable`, and Open
rebuilds the rest from it. TLC found no violation of `DurableInv` on the
instances of `foreground` and `background`.

**`EditsNeverRefused`: StrictSetting => (Spec => []PendingEditAccepted)** and
**`TablesKept`: StrictSetting => (Spec => FileNumbersKept).** Version::Apply refuses an
edit that reuses a number, moves a frontier back or lets L1 ranges meet, and a
refusal would leave the maintenance pending for ever. `FilesInv`, on top of
`DurableInv`, says why none happens:

* `SequencesOK`: frontier, Immutable and Mutable hold increasing sequence numbers;
* `VersionOK`, `PreparedOK`: the Version is valid, and a pending compaction is what
  would be prepared from it now, so an interrupted one cannot go stale;
* `SparesOK`, `FilesAgree`: a table file at or ahead of the frontier, in any
  directory that may survive, has the content pending maintenance would write
  there, and no two such directories disagree on a file.

The lemmas on `Version` in `DatabaseFacts` do the rest: the inputs of a compaction are apart
from the tables it leaves, and its outputs are apart from one another.

**`ReadsAreRight`: HistorySetting => (Spec => []ReadsMatchHistory)**,
**`FrontierComplete`** (`FrontierIsComplete`) and **`DatabaseReopens`**
(`DirectoryOpens`). `HistorySetting` is `StrictSetting`, and only strict writes in
background mode, because of finding 2. The invariant `HistoryInv` relates memory and
disk to `written`:

* `HistoryOK`: sequence numbers are given out once; a write in doubt is the last;
* `MemoryOK`, `LogsOK`: Mutable and Immutable are the newest of the writes above
  the frontier, each in its interval, and their WALs hold the same writes and at most
  the one in doubt;
* `DirsOK`: every MANIFEST that may survive is the Version in memory or the one
  maintenance is about to publish, with its tables there;
* `CoveredOK`: the tables answer for the writes up to the frontier;
* `DisksOK`: what Open needs and finds in every directory that may survive.

As with durability, `DisksOK` follows from the other parts while a process runs
(`UpRecovers`), is all that is left after a crash, and Open rebuilds the others
from it. A power failure takes an older directory and shorter WALs together; the
proof needs that a WAL left by a rotation is synced, which is where the setting is
used. `FlushCovers` and `CompactionCovers` show that a flush and a merge keep the
answers, deletions included.

**`WorkerAlone`: Spec => []PublishingAlone**, **`CloseFinishes`: Spec =>
[]CloseComplete** and **`FlagsAgree`: Spec => []TypeOK**, in `MaintenanceProofs`, for
any set of callers and calls, any limits and any number of failures
(`MaintenanceAssumption`). The three share one invariant, `IInv`: `TypeOK`,
`PublishingAlone`, and `CloseInv`. Neither property is inductive alone. A Flush
leaves the worker's Immutable alone because `running` says where the worker is,
which is a conjunct of `TypeOK`. Close leaves it alone because the join waits for
the worker. After a Close that was Ok, a Flush that wakes up late finds nothing,
which needs that at most one caller is at the join and that a result of Close
exists exactly when the state is closed (`CloseInv`). The lemmas on the results
of ContinueFlush, ContinueCompaction and what calls them are stated once, one
per operator; then there is one lemma per action.

**`WritersHaveCause`: "compact" \notin Calls => (Spec => []WaitHasCause).** A writer
that waits for the Immutable slot waits for work that is requested or running. The
hypothesis is needed: with Compact there is finding 5. Without Compact a compaction
is pending only after the worker failed in it, with `background_status_` set, and an
Immutable that a foreground Flush could not write has no worker, but then the WAL is
gone and the Mutable empty, so nobody waits; `WaitInv` says both. **`FlushStaysDue`:
"compact" \notin Calls => (Spec => FlushIsDue)** follows from the same invariant.

**`WritePath`.** One invariant, `WritePathInv`, gives all theorems of
`WritePathProofs`. Its centre is `WellFormed`: a log is a row of encodings with
sequence numbers 1, 2, 3, ..., all whole but the last. It is stated position by
position (where the encoding of a byte starts, that two bytes belong to one
encoding or to two in order), so that no step needs an induction over the
file. `LogsOK` says that `file` and `disk` are well formed and agree on the whole
records of `disk`, and that no header announces more than its record has (`SizesOK`); `RecoveryOK`, `AppendOK` and `MemoryOK` say how far recovery or an
append has come and what the MemTable holds. From it follow

* `WritePathTypes`, `StrictWritesSurvive`, `AnswersInFile`, `PrefixRecovered`,
  `MemtableMatchesLog`, `NothingCorrupt`, `DamageFound` and `RecordsStay` (`TypeOK`,
  `StrictSurvives`, `AnsweredInFile`, `RecoversPrefix`, `MemtableIsLog`,
  `NeverCorrupt`, `OpenedUndamaged`, `RecordsKept`);
* `BytesImplementLog`: every step of `WritePath` is a step of `DurableLog` or a stutter
  (`ImplementsLog`).

All of them assume `NoDisguise`: `Detectable`, or `MaxDamage <= 1`. The second case is
a result on the code: for one damaged byte nothing is excluded, because the damaged
size disagrees with the other one (`DamageSizes`). For two, finding 6 shows that the
assumption is needed.

**Only model-checked:** everything about `Scan` and `SSTable`, whose merge, pages and
filters are recursive computations over sequences (no induction over data is in the
prover's reach); liveness (`CallsReturn`, `RequestsServed`); `FlushIsDue` with Compact
among the calls; `DirectoryOpens`, `ReadsMatchHistory` and `FrontierIsComplete`
with asynchronous writes and a worker, where the first is violated (finding 2). The
theorems of `Database` cover asynchronous writes without a worker.

## 5. Not modelled, and the plan

Not modelled: checksums, magic numbers and headers of tables, tokens and the
MANIFEST; statistics; Options validation; a failing thread start in
StartBackgroundWorker; tools and benchmarks. In `WritePath` appended bytes reach
the disk in order, and a successful `fdatasync` covers the whole file even after an
earlier one failed. In `Scan` there is no compaction and no restart. Tokens carry
the Version id and the last sequence; a crash that loses asynchronous or failed
writes lets both come back to earlier values, and an old token is then accepted
over different content. `DEVELOPMENT_DETAILS.md:154` promises tokens only while
logical and physical state are unchanged, so no property states more.
`Maintenance` has no foreground-only mode (no worker, nothing to wait for) and no
crash: both are in `Database`.

Next, in this order:

1. `KVStore`: the abstract promise (a map, writes that may be lost only if they
   were asynchronous or failed), and `Database` shown to implement it through
   `written` and `acked`.
2. `Scan`: compaction between pages, and restarts.
3. Proofs: `FlushIsDue` with Compact among the calls; `ReadsMatchHistory` in
   background mode with asynchronous writes, up to the first power failure.
