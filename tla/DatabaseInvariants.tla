------------------------- MODULE DatabaseInvariants --------------------------
(***************************************************************************)
(* The inductive invariants of module Database for types (TypeInv) and for *)
(* the durability of strict writes (DurableInv). The second takes the      *)
(* first for granted. The modules DatabaseTypes and DatabaseDurability     *)
(* prove that the steps keep them.                                         *)
(***************************************************************************)
EXTENDS Database

------------------------------------------------------------------------------
(* Types *)

\* A process that is not there has no memory, and no call or worker.
DownIsEmpty ==
    state = "down" =>
        /\ op = "none" /\ arg = NoArgument
        /\ mutable = {} /\ ~wal
        /\ immutable = NoImmutable /\ compaction = NoCompaction
        /\ worker = "idle" /\ ~requested

\* How far a call has come: the parts only some calls have, and the write in
\* flight before and after its Append.
CallOK ==
    /\ op = "none" <=> pc = "idle"
    /\ pc = "append" => op = "put" /\ arg.sequence = 0
    /\ pc = "rotate" => op = "put" /\ arg.sequence # 0
    /\ pc = "prepare" => op = "compact"
    /\ pc = "trigger" => op = "worker"
    /\ op = "put" => arg.key \in Key
    /\ op = "put" /\ arg.sequence = 0 => last_sequence < MaxSequence
    /\ op = "put" /\ pc = "return" => arg.sequence # 0
    /\ op = "put" /\ pc = "freeze" => mutable # {}

\* File numbers in use are numbers of files.
NumbersOK ==
    /\ state # "down" => version.next_file_number # 0 /\ mutable_generation # 0
    /\ HasImmutable => immutable.generation # 0
    /\ \A t \in compaction.outputs : t.generation < MaxGeneration
    /\ compaction.candidate # NoVersion => compaction.candidate.next_file_number # 0

\* The worker and a writer share only the Immutable, which stays as it is
\* while the worker builds its table without the mutex.
WorkerOK ==
    /\ worker # "idle" => Background /\ ~requested
    /\ worker = "locked" <=> op = "worker"
    /\ worker \in {"publishing", "published", "failed"} =>
          /\ HasImmutable /\ ~immutable.version_published
          /\ op \in {"none", "put"}
    /\ pc = "rotate" => Background /\ ~HasImmutable
    /\ requested => Background
    /\ Background /\ op = "put" => pc \in {"append", "rotate", "return"}

TypeInv == TypeOK /\ DownIsEmpty /\ CallOK /\ NumbersOK /\ WorkerOK

------------------------------------------------------------------------------
(* Durability of strict writes *)

\* The setting of the theorem.
StrictSetting == Ordered /\ (Background => "compact" \notin Calls)

\* A pending compaction excludes a pending flush and unflushed writes, and in
\* background mode it keeps writers out.
ExclusionOK ==
    /\ HasCompaction =>
          /\ ~HasImmutable /\ mutable = {} /\ ~requested
          /\ pc \in {"compaction", "idle"} \/ (op = "close" /\ pc = "return")
          /\ Background => op = "worker" \/ ~background_status
    /\ Background => op \notin {"compact", "resume"}

Unpublished == HasImmutable /\ ~immutable.version_published

\* The outputs of a compaction have the number of the active WAL.
Claimed == HasCompaction /\ compaction.outputs # {} /\ ~compaction.version_published

\* Generations are consecutive: the frontier, the Immutable and the Mutable.
GenerationsOK ==
    state # "down" =>
        /\ Unpublished => /\ immutable.generation = version.next_file_number
                          /\ mutable_generation = immutable.generation + 1
        /\ ~Unpublished => mutable_generation = version.next_file_number
        /\ HasImmutable => immutable.generation < mutable_generation
        /\ immutable.wal_removed_and_synced => immutable.version_published
        /\ mutable # {} => wal
        /\ HasCompaction /\ compaction.version_published /\ compaction.outputs # {} =>
              ~wal /\ compaction.wal_generation_advanced
        /\ HasCompaction /\ compaction.wal_generation_advanced =>
              compaction.version_published /\ compaction.outputs # {}
        /\ HasCompaction /\ compaction.stale_wal # 0 =>
              /\ ~wal /\ compaction.version_published
              /\ compaction.stale_wal < version.next_file_number

\* The candidate of a compaction moves the file-number frontier behind the
\* outputs, and leaves the sequence frontier.
Pending == HasCompaction /\ ~compaction.version_published /\ compaction.candidate # NoVersion

CandidateOK ==
    Pending =>
        /\ compaction.candidate.last_sequence = version.last_sequence
        /\ compaction.outputs = {} =>
              compaction.candidate.next_file_number = version.next_file_number
        /\ compaction.outputs # {} =>
              compaction.candidate.next_file_number > version.next_file_number

\* The frontiers of a MANIFEST that may survive are those of the Version in
\* memory, or of the one that pending maintenance tried to publish.
KnownManifest(m) ==
    \/ /\ m.next_file_number = version.next_file_number
       /\ m.last_sequence = version.last_sequence
    \/ /\ Unpublished
       /\ m.next_file_number = mutable_generation
       /\ m.last_sequence = MaximumSequence(immutable.records)
       /\ m.last_sequence >= version.last_sequence
    \/ /\ Pending
       /\ m.next_file_number = compaction.candidate.next_file_number
       /\ m.last_sequence = compaction.candidate.last_sequence

\* The WALs that memory relies on are in every directory that may survive.
NamesOK(m, wals) ==
    /\ KnownManifest(m)
    /\ Unpublished /\ m.next_file_number = version.next_file_number =>
          immutable.generation \in wals
    /\ wal /\ ~Claimed => mutable_generation \in wals
    /\ \A g \in wals : g <= mutable_generation

DiskOK == state # "down" => \A d \in past \cup {dir} : NamesOK(d.manifest, d.wals)

\* There is no WAL behind a gap, and a WAL that was unlinked is obsolete.
NoGap(m, wals) == m.next_file_number + 1 \in wals => m.next_file_number \in wals

WalsOK ==
    \A d \in past \cup {dir} :
        /\ NoGap(d.manifest, d.wals)
        /\ \A g \in d.wals \ dir.wals : g < dir.manifest.next_file_number

\* The strict writes that must not be lost: acknowledged, or about to be.
InFlight ==
    IF op = "put" /\ arg.sync /\ arg.sequence # 0
    THEN {[sequence |-> arg.sequence, key |-> arg.key, deleted |-> arg.deleted]}
    ELSE {}

Strict == acked \cup InFlight

\* Where a strict write is while the process runs.
Held(r) ==
    /\ r.sequence <= last_sequence
    /\ \/ r.sequence <= version.last_sequence
       \/ /\ Unpublished
          /\ r.sequence <= MaximumSequence(immutable.records)
          /\ r \in log[immutable.generation].records
          /\ r.sequence <= log[immutable.generation].synced
       \/ /\ mutable # {}
          /\ r.sequence <= MaximumSequence(mutable)
          /\ r \in log[mutable_generation].records
          /\ r.sequence <= log[mutable_generation].synced

StrictHeld == state # "down" => \A r \in Strict : Held(r)

StrictDurable == \A d \in past \cup {dir}, r \in Strict : Recoverable(d, r)

\* What a running process keeps; StrictDurable follows from it.
RunningInv == GenerationsOK /\ CandidateOK /\ DiskOK /\ WalsOK /\ StrictHeld

DurableInv == ExclusionOK /\ RunningInv /\ StrictDurable

\* A process that is there has every strict write on disk.
UpDurable == state # "down" => StrictDurable

------------------------------------------------------------------------------
(* What a step leaves alone *)

\* Memory as far as the invariant looks at it.
SameMemory ==
    /\ UNCHANGED <<version, mutable_generation, wal, mutable, last_sequence>>
    /\ immutable'.generation = immutable.generation
    /\ immutable'.records = immutable.records
    /\ immutable'.version_published = immutable.version_published
    /\ immutable'.wal_removed_and_synced = immutable.wal_removed_and_synced
    /\ compaction'.inputs = compaction.inputs
    /\ compaction'.outputs = compaction.outputs
    /\ compaction'.candidate = compaction.candidate
    /\ compaction'.version_published = compaction.version_published
    /\ compaction'.stale_wal = compaction.stale_wal
    /\ compaction'.wal_generation_advanced = compaction.wal_generation_advanced

\* The directories hold the MANIFESTs and the WALs they held before.
SameNames ==
    /\ dir'.manifest = dir.manifest /\ dir'.wals = dir.wals
    /\ \A d \in past' : \E e \in past \cup {dir} : d.manifest = e.manifest /\ d.wals = e.wals
==============================================================================
