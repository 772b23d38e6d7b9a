-------------------------- MODULE HistoryInvariants --------------------------
(***************************************************************************)
(* The inductive invariants of module Database for file numbers and        *)
(* Versions (FilesInv) and for what the database answers (HistoryInv).     *)
(* Each one takes TypeInv, DurableInv and those before it for granted. The *)
(* modules HistoryFacts and DatabaseHistory prove that the steps keep      *)
(* them.                                                                   *)
(*                                                                         *)
(* The last two sections name what the proofs speak of: kinds of steps, by *)
(* what they change in memory, and relations between the directories       *)
(* before and after a step.                                                *)
(***************************************************************************)
EXTENDS DatabaseInvariants

------------------------------------------------------------------------------
(* File numbers and Versions *)

\* The sequence numbers in memory: the frontier, the Immutable, the Mutable and
\* the last write.
SequencesOK ==
    state # "down" =>
        /\ version.last_sequence <= last_sequence
        /\ \A r \in mutable : /\ version.last_sequence < r.sequence
                              /\ r.sequence <= last_sequence
        /\ Unpublished =>
              \A r \in immutable.records :
                  /\ version.last_sequence < r.sequence /\ r.sequence <= last_sequence
                  /\ \A q \in mutable : r.sequence < q.sequence

VersionOK == state # "down" => ValidateVersion(version) /\ tables = version.tables

\* A compaction whose MANIFEST is not published yet.
Merging == HasCompaction /\ ~compaction.version_published

\* It was prepared from the Version that is still there, and a candidate that
\* was kept is the Version it would build now.
PreparedOK ==
    Merging =>
        /\ Level(version.tables, 0) # {}
        /\ compaction.inputs = Generations(CompactionInputs(version))
        /\ compaction.outputs =
              CompactionOutputs(CompactionInputs(version), version.next_file_number)
        /\ compaction.candidate # NoVersion =>
              compaction.candidate =
                 Apply(version, compaction.inputs, compaction.outputs, NumberBehindOutputs,
                       version.last_sequence)

\* The MANIFEST of a compaction follows its tables.
PublishedOK ==
    HasCompaction /\ compaction.version_published =>
        compaction.outputs = {} \/ compaction.published

\* S is what pending maintenance writes under number g.
OwnFile(g, S) ==
    \/ Unpublished /\ g = immutable.generation /\ S = immutable.records
    \/ Merging /\ \E t \in compaction.outputs : g = t.generation /\ S = t.records

\* A table file that is in both directories has one content.
Agree(d, e) ==
    \A g \in Generation : d.sst[g] # {} /\ e.sst[g] # {} => d.sst[g] = e.sst[g]

FilesAgree == \A d, e \in past \cup {dir} : Agree(d, e)

\* The files at or ahead of the frontier are those of pending maintenance.
SparesOK ==
    state # "down" =>
        \A d \in past \cup {dir}, g \in Generation :
            g >= version.next_file_number /\ d.sst[g] # {} => OwnFile(g, d.sst[g])

FilesInv ==
    SequencesOK /\ VersionOK /\ PreparedOK /\ PublishedOK /\ FilesAgree /\ SparesOK

------------------------------------------------------------------------------
(* What the database answers *)

\* The setting of the theorems: StrictSetting, and in background mode only
\* synced writes, because a rotation does not sync the WAL it leaves.
HistorySetting == StrictSetting /\ (Background => FALSE \notin SyncModes)

Unique(S) == \A r, q \in S : r.sequence = q.sequence => r = q

\* The writes after sequence number lo, and those of them up to hi.
After(W, lo) == {w \in W : lo < w.sequence}

Between(W, lo, hi) == {w \in W : lo < w.sequence /\ w.sequence <= hi}

\* The last write that is not the Mutable's.
Base == IF Unpublished THEN MaximumSequence(immutable.records) ELSE version.last_sequence

\* Sequence numbers are given out once, in order; a write whose append failed is
\* the last one, and no other follows it.
HistoryOK ==
    /\ Unique(written)
    /\ \A q \in doubt, w \in written : w.sequence < q.sequence
    /\ \A p, q \in doubt : p = q
    /\ state # "down" =>
          /\ \A w \in written : w.sequence <= last_sequence
          /\ \A q \in doubt : version.last_sequence < q.sequence /\ q.sequence <= last_sequence
          /\ status => doubt = {}
          /\ op = "put" /\ arg.sequence = 0 => status
          /\ op = "put" => arg.sync \in SyncModes

\* The MemTables are the newest of the writes that the tables do not hold.
MemoryOK ==
    state # "down" =>
        /\ mutable = Newest(After(written, Base))
        /\ Unpublished =>
              immutable.records = Newest(Between(written, version.last_sequence, Base))
        /\ HasImmutable /\ immutable.version_published =>
              immutable.records \subseteq Newest(Between(written, 0, version.last_sequence))

InWal(g) == \E d \in past \cup {dir} : g \in d.wals

Synced(wlog) == \A r \in wlog.records : r.sequence <= wlog.synced

\* Their WALs hold the same writes, and at most the one in doubt.  The WAL that a
\* rotation leaves is synced.
LogsOK ==
    state # "down" =>
        /\ InWal(mutable_generation) =>
              /\ log[mutable_generation].records \subseteq written \cup doubt
              /\ written \cap log[mutable_generation].records = After(written, Base)
        /\ Unpublished =>
              /\ log[immutable.generation].records \subseteq written \cup doubt
              /\ written \cap log[immutable.generation].records =
                    Between(written, version.last_sequence, Base)
        /\ Unpublished /\ InWal(mutable_generation) =>
              /\ log[immutable.generation].records \subseteq written
              /\ Synced(log[immutable.generation])
        /\ pc = "rotate" =>
              /\ log[mutable_generation].records \subseteq written
              /\ Synced(log[mutable_generation])

\* The tables of the MANIFEST are there.
FilesOf(d) == \A t \in d.manifest.tables : d.sst[t.generation] = t.records

KnownVersion(v) ==
    \/ v = version
    \/ Unpublished /\ v = FlushCandidate
    \/ Pending /\ v = compaction.candidate

DirsOK ==
    state # "down" =>
        /\ \A d \in past \cup {dir} : KnownVersion(d.manifest) /\ FilesOf(d)
        /\ Unpublished /\ (immutable.pending_table \/ worker = "published") =>
              dir.sst[immutable.generation] = immutable.records
        /\ Merging => compaction.cleanup \subseteq compaction.inputs
        /\ Merging /\ compaction.published =>
              \A t \in compaction.outputs : dir.sst[t.generation] = t.records
        /\ HasCompaction /\ compaction.version_published =>
              /\ compaction.cleanup \cap Generations(version.tables) = {}
              /\ \A d \in past \cup {dir} : d.manifest = version

CoveredOK == state # "down" => Covers(version.tables, version.last_sequence, written)

\* The records Open replays.
Replay(d, l) == UNION {l[g].records : g \in Unmatched(d)}

\* What Open finds in directory d with WALs l: the tables answer for the writes
\* up to the frontier, and the WALs hold those after it, without a gap.
RecoverOK(d, l, W, D) ==
    /\ OpenAccepts(d, l)
    /\ Replay(d, l) \subseteq W \cup D
    /\ \A w \in W \cup D, r \in Replay(d, l) :
          d.manifest.last_sequence < w.sequence /\ w.sequence <= r.sequence => w \in Replay(d, l)
    /\ \A q \in D : q.sequence > d.manifest.last_sequence
    /\ Covers(d.manifest.tables, d.manifest.last_sequence, W)
    /\ Unmatched(d) = {d.manifest.next_file_number, d.manifest.next_file_number + 1} =>
          Synced(l[d.manifest.next_file_number])

DisksOK == \A d \in past \cup {dir} : RecoverOK(d, log, written, doubt)

RunningHistory ==
    HistoryOK /\ MemoryOK /\ LogsOK /\ DirsOK /\ CoveredOK

HistoryInv == RunningHistory /\ DisksOK

\* What a running process may have on the disk is what Open can recover.
UpRecovers == state # "down" => DisksOK

------------------------------------------------------------------------------
(* The steps, by what they change in memory *)

\* Memory as far as FilesInv and HistoryInv look at it; a published Immutable and a published compaction may be released.
Still ==
    /\ state # "down" /\ state' # "down"
    /\ UNCHANGED <<version, tables, mutable, mutable_generation, last_sequence, status,
                   written, doubt>>
    /\ HasImmutable' =>
          /\ HasImmutable
          /\ immutable'.generation = immutable.generation
          /\ immutable'.records = immutable.records
          /\ immutable'.version_published = immutable.version_published
    /\ Unpublished => HasImmutable'
    /\ HasCompaction' =>
          /\ HasCompaction
          /\ compaction'.inputs = compaction.inputs
          /\ compaction'.outputs = compaction.outputs
          /\ compaction'.candidate = compaction.candidate
          /\ compaction'.version_published = compaction.version_published
          /\ compaction.published => compaction'.published
          /\ compaction'.cleanup \subseteq compaction.cleanup
    /\ Merging => HasCompaction'

\* Entering a call, skipping a part of it, and errors that leave no trace.
Waiting ==
    \/ \E key \in Key, deleted \in BOOLEAN, sync \in SyncModes : Put(key, deleted, sync)
    \/ Flush \/ Compact \/ Close \/ CloseJoined \/ Skip \/ (Return /\ op # "close")
    \/ FreezeSkipped \/ FreezeRefused \/ RotateRefused
    \/ PrepareSkipped \/ PrepareFails \/ PrepareRefused
    \/ CompactionRemoveFails \/ CompactionSyncFails
    \/ WorkerStart \/ UNCHANGED vars \/ Refused

\* Maintenance that changes the directory and nothing in memory.
Trying ==
    \/ FlushTableFails \/ FlushManifestFails \/ FlushRemoveWalFails \/ FlushFinishFails
    \/ CompactionPublishFails \/ CompactionFinishFails \/ WorkerPublish

\* The parts of a flush and of a compaction that only note how far they came, and
\* the ends of both.
Noting ==
    \/ FlushTable \/ FlushRemoveWal \/ FlushFinish
    \/ CompactionPublish \/ CompactionRemove \/ CompactionSync \/ CompactionFinish
    \/ WorkerResume

\* The steps that change memory in a way the invariants look at.
Turning ==
    \/ (Append /\ wal) \/ AppendFails \/ Freeze \/ Rotate
    \/ FlushManifest /\ FlushEditAccepted
    \/ Prepare
    \/ CompactionManifest /\ (compaction.candidate # NoVersion \/ CompactionEditAccepted)
    \/ CompactionManifestFails

\* The steps that end the process or find it gone.
Ending ==
    \/ ProcessCrash \/ PowerFailure \/ (Return /\ op = "close") \/ OpenFails \/ UNCHANGED vars

------------------------------------------------------------------------------
(* Directories before and after a step *)

\* Every file of d is a file of a directory that may survive, with its content
\* there, or one that pending maintenance writes.
Origin(d) ==
    \A g \in Generation :
        \/ d.sst[g] = {}
        \/ \E e \in past \cup {dir} : d.sst[g] = e.sst[g]
        \/ OwnFile(g, d.sst[g])

\* Only the input of a published compaction is removed.
KeepsFiles(e) ==
    \A g \in Generation : dir.sst[g] # {} /\ e.sst[g] = {} =>
        HasCompaction /\ compaction.version_published /\ g \in compaction.cleanup

\* A directory is as it was, has the MANIFEST it had, or has that of a flush whose
\* table is there.
DirsKept ==
    /\ KeepsFiles(dir')
    /\ \A e \in past' \cup {dir'} :
          \/ e \in past \cup {dir}
          \/ e.manifest = dir.manifest /\ KeepsFiles(e)
          \/ Unpublished /\ immutable.pending_table /\ e = WithManifest(dir, FlushCandidate)

\* The WALs stay, or the Mutable gets a new one.
LogKept ==
    \/ /\ log' = log
       /\ (\E e \in past' \cup {dir'} : mutable_generation \in e.wals) => InWal(mutable_generation)
    \/ ~wal /\ ~Unpublished /\ log' = Created(mutable_generation)

\* Maintenance that says that its tables are there put them there.
TablesThere ==
    /\ Unpublished /\ (immutable'.pending_table \/ worker' = "published") =>
          \/ immutable.pending_table \/ worker = "published"
          \/ dir'.sst[immutable.generation] = immutable.records
    /\ Merging /\ compaction'.published =>
          \/ compaction.published
          \/ \A t \in compaction.outputs : dir'.sst[t.generation] = t.records
    /\ pc' = "rotate" => pc = "rotate" /\ log' = log

\* A WAL that lost its tail: what is left is a prefix, with all that was synced.
Shorter(short, long) ==
    /\ short.records \subseteq long.records
    /\ \A r \in long.records, q \in short.records :
          r.sequence <= q.sequence => r \in short.records
    /\ \A r \in long.records : r.sequence <= long.synced => r \in short.records
    /\ Synced(short)
==============================================================================
