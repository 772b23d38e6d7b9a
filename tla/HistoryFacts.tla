---------------------------- MODULE HistoryFacts -----------------------------
(***************************************************************************)
(* Facts that the proofs about file numbers, Versions and answers rest on: *)
(* what the tables of a Version answer after a flush or a compaction,      *)
(* whose table files there are, what Open builds, which steps leave memory *)
(* alone, what a crash leaves of the WALs, and how the disk follows from   *)
(* memory while the process runs.                                          *)
(*                                                                         *)
(* Then, that every step keeps FilesInv: no file number is given out       *)
(* twice, and Version::Apply accepts every edit that is due, whatever      *)
(* maintenance failed or was cut short. Neither property is inductive.     *)
(* That an edit is accepted rests on the Version in memory being valid, on *)
(* the order of the sequence numbers in the two MemTables, and on a        *)
(* pending compaction being the one that was prepared from this Version;   *)
(* that no number is given out twice rests on every file at or ahead of    *)
(* the frontier belonging to the maintenance that is pending.              *)
(*                                                                         *)
(* Last, that HistoryInv, which module DatabaseHistory is about, is enough *)
(* for Get to return the last write of a key (ReadsMatchHistory), for      *)
(* every MANIFEST that may survive to answer for exactly the writes up to  *)
(* its sequence frontier (FrontierIsComplete), and for Open to accept      *)
(* every directory a crash can leave (DirectoryOpens).                     *)
(***************************************************************************)
EXTENDS HistoryInvariants, DatabaseFacts

------------------------------------------------------------------------------
(* What the tables of a Version answer *)

\* A MemTable after MemTable::Add is the newest of one record more.
LEMMA InsertNewest ==
    ASSUME NEW S \in SUBSET Record, NEW r \in Record,
           \A q \in S : q.sequence < r.sequence
    PROVE  Newest(S \cup {r}) = Insert(Newest(S), r)
<1>1. r.sequence \in Int /\ \A q \in S : q.sequence \in Int
    BY DEF Record
<1>2. \A q \in S : ~(r.sequence <= q.sequence) /\ q.sequence <= r.sequence
    BY <1>1
<1>3. r.sequence <= r.sequence
    BY <1>1
<1>4. ASSUME NEW q \in Newest(S \cup {r}) PROVE q \in Insert(Newest(S), r)
    BY Zenon, <1>2 DEF Newest, Insert
<1>5. ASSUME NEW q \in Insert(Newest(S), r) PROVE q \in Newest(S \cup {r})
    BY Zenon, <1>2, <1>3 DEF Newest, Insert
<1> QED BY Zenon, <1>4, <1>5

\* Newest works key by key, and looking a key up twice or thrice finds the same.
LEMMA NewestOfKey ==
    ASSUME NEW S \in SUBSET Record, NEW key
    PROVE  /\ Lookup(S, key) \in SUBSET Record
           /\ Newest(Lookup(S, key)) = Lookup(Newest(S), key)
           /\ Newest(Newest(S)) = Newest(S)
           /\ \A r, q \in Newest(Lookup(S, key)) : r.sequence = q.sequence
           /\ Newest(UserVisible(Newest(Lookup(S, key)))) = UserVisible(Newest(Lookup(S, key)))
           /\ Lookup(S, key) # {} => Newest(Lookup(S, key)) # {}
<1>1. \A r \in S : r.sequence \in Int
    BY DEF Record
<1>2. Lookup(S, key) \in SUBSET Record
    BY Zenon DEF Lookup
<1>3. Newest(Lookup(S, key)) = Lookup(Newest(S), key)
    BY Zenon DEF Newest, Lookup
<1>4. Newest(Newest(S)) = Newest(S)
    BY Zenon DEF Newest
<1>5. \A r, q \in Newest(Lookup(S, key)) : r.sequence = q.sequence
    BY <1>1 DEF Newest, Lookup
<1>6. Newest(UserVisible(Newest(Lookup(S, key)))) = UserVisible(Newest(Lookup(S, key)))
    <2>1. \A r, q \in UserVisible(Newest(Lookup(S, key))) : r.sequence <= q.sequence
        BY Zenon, <1>1 DEF Newest, Lookup, UserVisible
    <2> QED BY Zenon, <2>1 DEF Newest
<1> QED BY Zenon, <1>2, <1>3, <1>4, <1>5, <1>6, NewestOf

\* Where a key has records after sequence number n, they decide.
LEMMA NewestAfter ==
    ASSUME NEW S \in SUBSET Record, NEW key, NEW n \in Nat,
           Lookup({r \in S : n < r.sequence}, key) # {}
    PROVE  Newest(Lookup(S, key)) = Newest(Lookup({r \in S : n < r.sequence}, key))
<1> DEFINE above == Lookup({r \in S : n < r.sequence}, key)
<1>1. \A r \in S : r.sequence \in Int
    BY DEF Record
<1>2. PICK q \in above : TRUE
    BY Zenon
<1>3. \A r \in Lookup(S, key) : r \notin above => r.sequence < q.sequence
    BY <1>1, <1>2 DEF Lookup
<1>4. above \subseteq Lookup(S, key) /\ q.key = key /\ q \in S
    BY Zenon, <1>2 DEF Lookup
<1>5. \A r \in Newest(Lookup(S, key)) : r \in above
    BY <1>1, <1>3, <1>4 DEF Newest, Lookup
<1>6. ASSUME NEW r \in Newest(Lookup(S, key)) PROVE r \in Newest(above)
    <2> HIDE DEF above
    <2> QED BY Zenon, <1>4, <1>5, <1>6 DEF Newest
<1>7. ASSUME NEW r \in Newest(above) PROVE r \in Newest(Lookup(S, key))
    <2>1. r \in Lookup(S, key) /\ r \in above
        BY Zenon, <1>4, <1>7 DEF Newest
    <2>2. q.sequence <= r.sequence
        BY Zenon, <1>2, <1>4, <1>7 DEF Newest, Lookup
    <2> SUFFICES ASSUME NEW p \in Lookup(S, key) PROVE p.sequence <= r.sequence
        BY Zenon, <2>1 DEF Newest
    <2>3. CASE p \in above
        BY Zenon, <1>7, <2>3 DEF Newest, Lookup
    <2>4. CASE p \notin above
        <3>1. p.sequence \in Int /\ q.sequence \in Int /\ r.sequence \in Int
            BY Zenon, <1>1, <1>4, <2>1 DEF Lookup
        <3> QED BY <1>3, <2>2, <2>4, <3>1
    <2> QED BY Zenon, <2>3, <2>4
<1> QED BY Zenon, <1>6, <1>7

\* A flush: the tables and the MemTable of the next writes answer for both.
LEMMA FlushCovers ==
    ASSUME NEW T \in SUBSET Table, NEW t \in Table, NEW W \in SUBSET Record, NEW n \in Nat,
           NEW m \in Nat, n <= m, Covers(T, n, W), \A r \in Records(T) : r.sequence <= n,
           t.records = Newest({w \in W : n < w.sequence /\ w.sequence <= m})
    PROVE  Covers(T \cup {t}, m, W)
<1> SUFFICES ASSUME NEW key \in Key
             PROVE  Newest(Lookup(Records(T \cup {t}), key)) =
                       Newest(Lookup({w \in W : w.sequence <= m}, key))
                    \/ UserVisible(Newest(Lookup(Records(T \cup {t}), key))) =
                       UserVisible(Newest(Lookup({w \in W : w.sequence <= m}, key)))
    BY Zenon DEF Covers
<1> DEFINE new == {w \in W : n < w.sequence /\ w.sequence <= m}
           upto == {w \in W : w.sequence <= m}
           all == Records(T \cup {t})
<1>1. all = Records(T) \cup t.records
    BY Zenon DEF Records
<1>2. new \in SUBSET Record /\ upto \in SUBSET Record /\ all \in SUBSET Record
    BY <1>1 DEF Records, Table
<1>3. \A r \in Record : r.sequence \in Int
    BY DEF Record
<1>4. {r \in all : n < r.sequence} = t.records
    <2>1. \A r \in Records(T) : r.sequence \in Int
        BY Zenon, <1>1, <1>2, <1>3
    <2>2. \A r \in t.records : n < r.sequence
        BY Zenon DEF Newest
    <2>3. \A r \in Records(T) : ~(n < r.sequence)
        BY <2>1
    <2> HIDE DEF all
    <2> QED BY Zenon, <1>1, <2>2, <2>3
<1>5. {w \in upto : n < w.sequence} = new
    BY Zenon
<1>6. /\ Newest(Lookup(t.records, key)) = Newest(Lookup(new, key))
      /\ Lookup(t.records, key) = Newest(Lookup(new, key))
      /\ Lookup(new, key) # {} => Lookup(t.records, key) # {}
    <2>1. t.records = Newest(new)
        BY Zenon
    <2> HIDE DEF new
    <2>2. /\ Newest(Lookup(new, key)) = Lookup(Newest(new), key)
          /\ Lookup(new, key) # {} => Newest(Lookup(new, key)) # {}
          /\ Lookup(new, key) \in SUBSET Record
        BY Zenon, <1>2, NewestOfKey
    <2>3. Newest(Newest(Lookup(new, key))) = Newest(Lookup(new, key))
        BY Zenon, <2>2, NewestOfKey
    <2> QED BY Zenon, <2>1, <2>2, <2>3
<1>7. CASE Lookup(new, key) # {}
    <2> HIDE DEF new, upto, all
    <2>1. Newest(Lookup(upto, key)) = Newest(Lookup(new, key))
        BY Zenon, <1>2, <1>5, <1>7, NewestAfter
    <2>2. Newest(Lookup(all, key)) = Newest(Lookup(t.records, key))
        <3>1. Lookup({r \in all : n < r.sequence}, key) # {}
            BY Zenon, <1>4, <1>6, <1>7
        <3>2. Newest(Lookup(all, key)) = Newest(Lookup({r \in all : n < r.sequence}, key))
            BY Zenon, <1>2, <3>1, NewestAfter
        <3> QED BY Zenon, <1>4, <3>2
    <2> QED BY Zenon, <1>6, <2>1, <2>2 DEF upto, all
<1>8. CASE Lookup(new, key) = {}
    <2>1. Lookup(t.records, key) = {}
        BY Zenon, <1>6, <1>8 DEF Newest
    <2>2. Lookup(all, key) = Lookup(Records(T), key)
        BY Zenon, <1>1, <2>1 DEF Lookup
    <2>3. Lookup(upto, key) = Lookup({w \in W : w.sequence <= n}, key)
        BY <1>3, <1>8 DEF Lookup
    <2> QED BY Zenon, <2>2, <2>3 DEF Covers
<1> QED BY Zenon, <1>7, <1>8

\* A compaction: the tables that are left and the outputs answer as before.
LEMMA CompactionCovers ==
    ASSUME NEW v \in VersionType, ValidateVersion(v), Level(v.tables, 0) # {}, NEW first \in Nat,
           NEW W, NEW n, Covers(v.tables, n, W)
    PROVE  Covers({t \in v.tables : t.generation \notin Generations(CompactionInputs(v))}
                    \cup CompactionOutputs(CompactionInputs(v), first), n, W)
<1> DEFINE inputs == CompactionInputs(v)
           kept == {t \in v.tables : t.generation \notin Generations(inputs)}
           outputs == CompactionOutputs(inputs, first)
<1>1. /\ inputs \in SUBSET v.tables
      /\ \A u \in kept : KeysBelow(u.records, Records(inputs)) \/ KeysBelow(Records(inputs), u.records)
    BY Zenon, InputsOf
<1>2. v.tables \in SUBSET Table
    BY Zenon DEF VersionType
<1>3. inputs \in SUBSET Table /\ Records(v.tables) \in SUBSET Record
    BY Zenon, <1>1, <1>2 DEF Records, Table
<1>4. Records(outputs) = Merge(inputs) /\ Records(inputs) \in SUBSET Record
    BY Zenon, <1>3, OutputsOf, MergeType
<1>5. v.tables = kept \cup inputs
    <2>1. \A t \in v.tables : t.generation \in Generations(inputs) => t \in inputs
        BY Zenon, <1>1 DEF Generations, ValidateVersion
    <2> HIDE DEF inputs
    <2> QED BY Zenon, <1>1, <2>1
<1>6. Records(kept \cup outputs) = Records(kept) \cup Merge(inputs)
    BY Zenon, <1>4 DEF Records
<1>7. Records(v.tables) = Records(kept) \cup Records(inputs)
    BY Zenon, <1>5 DEF Records
<1>8. \A r \in Records(kept), q \in Records(inputs) : r.key # q.key
    <2> SUFFICES ASSUME NEW r \in Records(kept), NEW q \in Records(inputs), r.key = q.key
                 PROVE  FALSE
        BY Zenon
    <2>1. PICK u \in kept : r \in u.records
        BY Zenon DEF Records
    <2>2. q.key \in Int
        BY Zenon, <1>4, VersionAssumption DEF Record
    <2> HIDE DEF inputs, kept
    <2>3. q.key < q.key
        BY Zenon, <1>1, <2>1 DEF KeysBelow
    <2> QED BY <2>2, <2>3
<1> HIDE DEF inputs, kept, outputs
<1> SUFFICES ASSUME NEW key \in Key
             PROVE  UserVisible(Newest(Lookup(Records(kept \cup outputs), key))) =
                       UserVisible(Newest(Lookup(Records(v.tables), key)))
    BY Zenon DEF Covers, inputs, kept, outputs
<1>9. Lookup(Merge(inputs), key) = UserVisible(Newest(Lookup(Records(inputs), key)))
    BY Zenon DEF Merge, Lookup, UserVisible, Newest
<1>10. CASE Lookup(Records(inputs), key) = {}
    <2>1. Lookup(Merge(inputs), key) = {}
        BY Zenon, <1>10 DEF Merge, Lookup, UserVisible, Newest
    <2> QED BY Zenon, <1>6, <1>7, <1>10, <2>1 DEF Lookup
<1>11. CASE Lookup(Records(inputs), key) # {}
    <2>1. Lookup(Records(kept), key) = {}
        BY Zenon, <1>8, <1>11 DEF Lookup
    <2>2. /\ Lookup(Records(kept \cup outputs), key) = Lookup(Merge(inputs), key)
          /\ Lookup(Records(v.tables), key) = Lookup(Records(inputs), key)
        BY Zenon, <1>6, <1>7, <2>1 DEF Lookup
    <2>3. Newest(Lookup(Merge(inputs), key)) = UserVisible(Newest(Lookup(Records(inputs), key)))
        BY <1>4, <1>9, NewestOfKey
    <2>4. \A S : UserVisible(UserVisible(S)) = UserVisible(S)
        BY Zenon DEF UserVisible
    <2> QED BY Zenon, <2>2, <2>3, <2>4
<1> QED BY Zenon, <1>10, <1>11

\* What the changes of a directory do to its table files.
LEMMA DirectoryTables ==
    ASSUME NEW d \in Directory
    PROVE  /\ d.sst \in [Generation -> SUBSET Record]
           /\ \A v : WithManifest(d, v).sst = d.sst
           /\ \A g : WithWal(d, g).sst = d.sst /\ WithoutWal(d, g).sst = d.sst
           /\ \A t \in Table, g \in Generation :
                 WithTable(d, t).sst[g] = IF g = t.generation THEN t.records ELSE d.sst[g]
           /\ \A x, g \in Generation :
                 WithoutTable(d, x).sst[g] = IF g = x THEN {} ELSE d.sst[g]
           /\ \A dead, wals : \A g \in Generation :
                 Cleaned(d, dead, wals).sst[g] = IF g \in dead THEN {} ELSE d.sst[g]
<1>1. d.sst \in [Generation -> SUBSET Record]
    BY Zenon DEF Directory
<1>2. \A v : WithManifest(d, v).sst = d.sst
    BY Zenon DEF WithManifest, Directory
<1>3. \A g : WithWal(d, g).sst = d.sst /\ WithoutWal(d, g).sst = d.sst
    BY Zenon DEF WithWal, WithoutWal, Directory
<1>4. ASSUME NEW t \in Table, NEW g \in Generation
      PROVE  WithTable(d, t).sst[g] = IF g = t.generation THEN t.records ELSE d.sst[g]
    <2>1. WithTable(d, t).sst = [d.sst EXCEPT ![t.generation] = t.records]
        BY Zenon DEF WithTable, Directory
    <2> QED BY Zenon, <1>1, <2>1
<1>5. ASSUME NEW x \in Generation, NEW g \in Generation
      PROVE  WithoutTable(d, x).sst[g] = IF g = x THEN {} ELSE d.sst[g]
    <2>1. WithoutTable(d, x).sst = [d.sst EXCEPT ![x] = {}]
        BY Zenon DEF WithoutTable, Directory
    <2> QED BY Zenon, <1>1, <2>1
<1>6. ASSUME NEW dead, NEW wals, NEW g \in Generation
      PROVE  Cleaned(d, dead, wals).sst[g] = IF g \in dead THEN {} ELSE d.sst[g]
    <2>1. Cleaned(d, dead, wals).sst = [h \in Generation |-> IF h \in dead THEN {} ELSE d.sst[h]]
        BY Zenon DEF Cleaned, Directory
    <2> QED BY Zenon, <2>1
<1> QED BY Zenon, <1>1, <1>2, <1>3, <1>4, <1>5, <1>6

\* The tables of a directory with one more.
LEMMA TableWritten ==
    ASSUME NEW d \in Directory, NEW t \in Table, NEW g \in Generation
    PROVE  /\ g = t.generation => WithTable(d, t).sst[g] = t.records
           /\ g # t.generation => WithTable(d, t).sst[g] = d.sst[g]
BY SMT, DirectoryTables

\* The tables of a directory with one less.
LEMMA TableRemoved ==
    ASSUME NEW d \in Directory, NEW x \in Generation, NEW g \in Generation
    PROVE  WithoutTable(d, x).sst[g] = {} \/ WithoutTable(d, x).sst[g] = d.sst[g]
BY SMT, DirectoryTables

\* The tables of a directory that is cleaned.
LEMMA TablesCleaned ==
    ASSUME NEW d \in Directory, NEW dead, NEW wals, NEW g \in Generation
    PROVE  /\ g \in dead => Cleaned(d, dead, wals).sst[g] = {}
           /\ g \notin dead => Cleaned(d, dead, wals).sst[g] = d.sst[g]
BY SMT, DirectoryTables

\* The tables of a directory that was opened.
LEMMA OpenedTables ==
    ASSUME NEW d \in Directory, Cleaned(d, OrphanTables(d), ObsoleteWals(d)) \in Directory
    PROVE  \A g \in Generation :
              Opened(d).sst[g] = IF g \in OrphanTables(d) THEN {} ELSE d.sst[g]
<1>1. Opened(d).sst = Cleaned(d, OrphanTables(d), ObsoleteWals(d)).sst
    BY Zenon, DirectoryTables DEF Opened
<1>2. \A g \in Generation : Cleaned(d, OrphanTables(d), ObsoleteWals(d)).sst[g] =
                                IF g \in OrphanTables(d) THEN {} ELSE d.sst[g]
    BY SMT, DirectoryTables
<1> QED BY Zenon, <1>1, <1>2

\* What survives a power failure when directory changes are ordered.
LEMMA OrderedSurvivors == Ordered => Survivors = past \cup {dir}
BY SMT DEF Survivors

\* File numbers are natural numbers.
LEMMA GenerationIsNat == \A g \in Generation : g \in Nat
BY SMT DEF Generation

\* File and sequence numbers are ordered.
LEMMA NumberOrder ==
    \A m, n \in Nat : /\ m >= m /\ m + 1 >= m /\ ~(m >= m + 1)
                      /\ m < n => ~(m >= n)
                      /\ m <= n \/ n < m
BY SMT

\* Numbers in order.
LEMMA OrderTransitive ==
    \A k, m, n \in Nat : k <= m /\ m <= n => k <= n
BY SMT

USE DEF diskVars, memoryVars, allButImmutable, allButCompaction, workerVars, callVars,
        historyVars, boundVars

------------------------------------------------------------------------------
(* Edits and table files *)

\* The edits of pending maintenance are accepted.
LEMMA EditsAccepted ==
    ASSUME TypeInv, GenerationsOK, SequencesOK, VersionOK, PreparedOK
    PROVE  /\ Unpublished => FlushEditAccepted
           /\ Merging => CompactionEditAccepted
<1>1. version \in VersionType
    BY Zenon DEF TypeInv, TypeOK, TypeMemory
<1>2. HasImmutable \/ HasCompaction => state # "down" /\ ValidateVersion(version)
    BY DEF TypeInv, DownIsEmpty, HasImmutable, HasCompaction, NoImmutable, NoCompaction, VersionOK
<1>3. ASSUME Unpublished PROVE FlushEditAccepted
    <2>1. /\ ImmutableTable \in Table /\ ImmutableTable.generation = immutable.generation
          /\ ImmutableTable.level = 0 /\ ImmutableTable.records = immutable.records
        BY Zenon, <1>3, FlushFacts DEF ImmutableTable, Unpublished
    <2>2. /\ immutable.generation = version.next_file_number
          /\ mutable_generation = immutable.generation + 1
          /\ mutable_generation \in Nat /\ version.next_file_number \in Nat
        BY Zenon, <1>2, <1>3, FileNumbers DEF GenerationsOK, Unpublished
    <2>3. /\ immutable.records # {}
          /\ \A r \in immutable.records : version.last_sequence < r.sequence
        BY Zenon, <1>2, <1>3 DEF SequencesOK, Unpublished, HasImmutable
    <2>4. mutable_generation > version.next_file_number
        BY <2>2
    <2>5. EditAccepted(version, {}, {ImmutableTable}, mutable_generation,
                       MaximumSequence(ImmutableTable.records))
        BY Zenon, <1>1, <1>2, <1>3, <2>1, <2>2, <2>3, <2>4, FlushEdit DEF Unpublished
    <2> QED BY Zenon, <2>1, <2>5 DEF FlushEditAccepted
<1>4. ASSUME Merging PROVE CompactionEditAccepted
    <2>1. /\ Level(version.tables, 0) # {}
          /\ compaction.inputs = Generations(CompactionInputs(version))
          /\ compaction.outputs =
                CompactionOutputs(CompactionInputs(version), version.next_file_number)
        BY Zenon, <1>4 DEF PreparedOK
    <2>2. HasCompaction /\ ValidateVersion(version)
        BY Zenon, <1>2, <1>4 DEF Merging
    <2>3. /\ NumberBehindOutputs \in Nat
          /\ \A t \in compaction.outputs : t.generation < NumberBehindOutputs
        BY <2>2, CandidateFacts, VersionAssumption
    <2>4. compaction.outputs \in SUBSET Table
        BY Zenon DEF TypeInv, TypeOK, TypeMemory, CompactionState
    <2>5. version.next_file_number \in Nat
        BY Zenon, FileNumbers
    <2>6. NumberBehindOutputs >= version.next_file_number
        <3>1. CASE compaction.outputs = {}
            BY <2>5, <3>1 DEF NumberBehindOutputs
        <3>2. CASE compaction.outputs # {}
            <4>1. PICK t \in compaction.outputs : TRUE
                BY Zenon, <3>2
            <4>2. CompactionInputs(version) \in SUBSET Table
                BY Zenon, <1>1, <2>1, <2>2, InputsOf, VersionOps
            <4>3. t.generation \in Nat /\ t.generation >= version.next_file_number
                BY Zenon, <2>1, <2>5, <4>1, <4>2, OutputsOf
            <4> QED BY <2>3, <2>5, <4>1, <4>3
        <3> QED BY Zenon, <3>1, <3>2
    <2>7. EditAccepted(version, Generations(CompactionInputs(version)),
                       CompactionOutputs(CompactionInputs(version), version.next_file_number),
                       NumberBehindOutputs, version.last_sequence)
        BY Zenon, <1>1, <2>1, <2>2, <2>3, <2>4, <2>6, CompactionEdit
    <2> QED BY Zenon, <2>1, <2>7 DEF CompactionEditAccepted
<1> QED BY Zenon, <1>3, <1>4

\* The Version a pending compaction publishes, kept from an earlier attempt or not.
LEMMA CandidateOf ==
    ASSUME PreparedOK, Merging
    PROVE  CompactionCandidate = Apply(version, compaction.inputs, compaction.outputs,
                                       NumberBehindOutputs, version.last_sequence)
BY Zenon DEF PreparedOK, CompactionCandidate

\* An Immutable that is not published, and a compaction that is not, stay so.
LEMMA StillPending ==
    ASSUME Still
    PROVE  /\ Unpublished' = Unpublished /\ Merging' = Merging /\ Pending' = Pending
           /\ Unpublished => /\ immutable'.generation = immutable.generation
                             /\ immutable'.records = immutable.records
           /\ Merging => /\ compaction'.inputs = compaction.inputs
                         /\ compaction'.outputs = compaction.outputs
                         /\ compaction'.candidate = compaction.candidate
BY Zenon DEF Still, Unpublished, Merging, Pending

\* The files that pending maintenance writes are at or ahead of the frontier, and
\* it writes one content under a number.
LEMMA OwnFileFacts ==
    ASSUME TypeInv, ExclusionOK, GenerationsOK, VersionOK, PreparedOK
    PROVE  /\ \A g, S : OwnFile(g, S) =>
                 state # "down" /\ g \in Nat /\ g >= version.next_file_number
           /\ \A g, S, T : OwnFile(g, S) /\ OwnFile(g, T) => S = T
           /\ Merging => \A t, u \in compaction.outputs : t.generation = u.generation => t = u
<1>1. /\ Unpublished => state # "down" /\ ~Merging
      /\ Merging => state # "down" /\ ~Unpublished
    BY DEF TypeInv, DownIsEmpty, ExclusionOK, Unpublished, Merging, HasImmutable, HasCompaction,
           NoImmutable, NoCompaction
<1>2. version \in VersionType /\ version.next_file_number \in Nat
    BY Zenon, FileNumbers DEF TypeInv, TypeOK, TypeMemory
<1>3. Unpublished => immutable.generation \in Nat /\ immutable.generation >= version.next_file_number
    BY <1>1, <1>2, FileNumbers DEF GenerationsOK
<1>4. ASSUME Merging
      PROVE  /\ \A t \in compaction.outputs :
                   t.generation \in Nat /\ t.generation >= version.next_file_number
             /\ \A t, u \in compaction.outputs : t.generation = u.generation => t = u
    <2>1. /\ Level(version.tables, 0) # {} /\ ValidateVersion(version)
          /\ compaction.outputs =
                CompactionOutputs(CompactionInputs(version), version.next_file_number)
        BY Zenon, <1>1, <1>4 DEF PreparedOK, VersionOK
    <2>2. CompactionInputs(version) \in SUBSET Table
        BY Zenon, <1>2, <2>1, InputsOf, VersionOps
    <2> QED BY <1>2, <2>1, <2>2, OutputsOf
<1>5. ASSUME NEW g, NEW S, OwnFile(g, S)
      PROVE  state # "down" /\ g \in Nat /\ g >= version.next_file_number
    BY Zenon, <1>1, <1>3, <1>4, <1>5 DEF OwnFile
<1>6. ASSUME NEW g, NEW S, NEW T, OwnFile(g, S), OwnFile(g, T)
      PROVE  S = T
    BY Zenon, <1>1, <1>4, <1>6 DEF OwnFile
<1> QED BY Zenon, <1>4, <1>5, <1>6

\* Renamed outputs are files of the pending compaction.
LEMMA RenamedOrigin ==
    ASSUME TypeInv, ExclusionOK, GenerationsOK, VersionOK, PreparedOK, Merging, NEW n
    PROVE  /\ Origin(RenamedBelow(n))
           /\ \A g \in Generation :
                 \/ RenamedBelow(n).sst[g] = dir.sst[g] /\ ~\E t \in compaction.outputs :
                                                              t.generation = g /\ g < n
                 \/ \E t \in compaction.outputs : /\ t.generation = g /\ g < n
                                                  /\ RenamedBelow(n).sst[g] = t.records
<1> DEFINE renamed(g) == {t \in compaction.outputs : t.generation = g /\ g < n}
<1>1. dir \in Directory
    BY Zenon DEF TypeInv, TypeOK, TypeDisk
<1>2. RenamedBelow(n).sst =
          [g \in Generation |-> IF renamed(g) = {} THEN dir.sst[g] ELSE Records(renamed(g))]
    BY Zenon, <1>1 DEF RenamedBelow, Directory
<1>3. ASSUME NEW g \in Generation, renamed(g) # {}
      PROVE  \E t \in compaction.outputs : /\ t.generation = g /\ g < n
                                           /\ RenamedBelow(n).sst[g] = t.records
    <2>1. PICK t \in renamed(g) : TRUE
        BY Zenon, <1>3
    <2>2. renamed(g) = {t}
        BY Zenon, <2>1, OwnFileFacts
    <2>3. Records(renamed(g)) = t.records
        BY Zenon, <2>2 DEF Records
    <2> QED BY Zenon, <1>2, <1>3, <2>1, <2>3
<1>4. \A g \in Generation : renamed(g) = {} => RenamedBelow(n).sst[g] = dir.sst[g]
    BY Zenon, <1>2
<1>5. \A g \in Generation :
          \/ RenamedBelow(n).sst[g] = dir.sst[g] /\ ~\E t \in compaction.outputs :
                                                       t.generation = g /\ g < n
          \/ \E t \in compaction.outputs : /\ t.generation = g /\ g < n
                                           /\ RenamedBelow(n).sst[g] = t.records
    <2> SUFFICES ASSUME NEW g \in Generation
                 PROVE  \/ /\ RenamedBelow(n).sst[g] = dir.sst[g]
                           /\ ~\E t \in compaction.outputs : t.generation = g /\ g < n
                        \/ \E t \in compaction.outputs : /\ t.generation = g /\ g < n
                                                         /\ RenamedBelow(n).sst[g] = t.records
        BY Zenon
    <2>1. CASE renamed(g) = {}
        BY Zenon, <1>4, <2>1
    <2>2. CASE renamed(g) # {}
        BY Zenon, <1>3, <2>2
    <2> QED BY Zenon, <2>1, <2>2
<1>6. Origin(RenamedBelow(n))
    BY Zenon, <1>5 DEF Origin, OwnFile
<1> QED BY Zenon, <1>5, <1>6

------------------------------------------------------------------------------
(* What Open builds *)

\* What Open accepts in the directory d it goes on with: a valid Version, WALs
\* with newer records than it, and an Immutable WAL that is not empty and older
\* than the Mutable's.
LEMMA OpenedDirectory ==
    ASSUME TypeInv, RunningInv, StrictDurable, OpenAccepts(dir, log)
    PROVE  LET d == Founded(dir)
               v == d.manifest
               next == v.next_file_number
           IN  /\ v \in VersionType /\ ValidateVersion(v) /\ next \in Nat
               /\ \A t \in v.tables : d.sst[t.generation] = t.records
               /\ dir.manifest = NoVersion => v = NewDatabase /\ d.sst = dir.sst
               /\ \A r \in Replay(d, log) : r.sequence > v.last_sequence
               /\ next + 1 \in Unmatched(d) =>
                     /\ Unmatched(d) = {next, next + 1}
                     /\ log[next].records # {}
                     /\ \A r \in log[next].records, q \in log[next + 1].records :
                           r.sequence < q.sequence
               /\ next + 1 \notin Unmatched(d) =>
                     Unmatched(d) \subseteq {next} /\ Unmatched(d) # {next, next + 1}
<1> DEFINE d == Founded(dir)
           v == d.manifest
           next == v.next_file_number
<1>1. /\ next \in Generation /\ Unmatched(d) \subseteq {next, next + 1}
      /\ next + 1 \in Unmatched(d) => next \in Unmatched(d)
    BY Zenon, Accepted
<1>2. d \in Directory /\ d.wals = dir.wals /\ dir \in Directory
    BY Zenon, OpenFacts DEF TypeInv, TypeOK, TypeDisk
<1>3. v \in VersionType /\ next \in Nat
    BY SMTT(30), <1>1, <1>2, DirectoryOps DEF Generation
<1>4. CASE dir.manifest = NoVersion
    <2>1. d = WithManifest(dir, NewDatabase)
        BY Zenon, <1>4 DEF Founded
    <2>2. v = NewDatabase /\ d.sst = dir.sst
        BY Zenon, <1>2, <2>1 DEF WithManifest, Directory
    <2>3. ValidateVersion(v) /\ v.tables = {}
        BY <2>2 DEF ValidateVersion, NewDatabase
    <2>4. Unmatched(d) = {}
        BY Zenon, <1>2, <1>4 DEF OpenAccepts, Unmatched
    <2> HIDE DEF d
    <2>5. Replay(d, log) = {} /\ next + 1 \notin Unmatched(d)
        BY Zenon, <2>4 DEF Replay
    <2>6. {} # {next, next + 1}
        BY Zenon
    <2> QED BY Zenon, <1>3, <2>2, <2>3, <2>4, <2>5, <2>6 DEF d
<1>5. CASE dir.manifest # NoVersion
    <2>1. d = dir
        BY Zenon, <1>5 DEF Founded
    <2>2. /\ ValidateVersion(v) /\ \A t \in v.tables : d.sst[t.generation] = t.records
          /\ \A g \in Unmatched(d) : \A r \in log[g].records : r.sequence > v.last_sequence
          /\ Unmatched(d) = {next, next + 1} =>
                /\ log[next].records # {}
                /\ \A r \in log[next].records, q \in log[next + 1].records : r.sequence < q.sequence
        BY Zenon, <1>5, <2>1 DEF OpenAccepts
    <2>3. \A r \in Replay(d, log) : r.sequence > v.last_sequence
        BY Zenon, <2>2 DEF Replay
    <2>4. next + 1 \in Unmatched(d) => Unmatched(d) = {next, next + 1}
        BY Zenon, <1>1
    <2>5. next + 1 \notin Unmatched(d) => Unmatched(d) \subseteq {next} /\ Unmatched(d) # {next, next + 1}
        BY Zenon, <1>1, <1>3
    <2> HIDE DEF d
    <2> QED BY Zenon, <1>3, <1>5, <2>2, <2>3, <2>4, <2>5 DEF d
<1> QED BY Zenon, <1>4, <1>5

\* The memory Open builds.
LEMMA OpenedMemory ==
    ASSUME TypeInv, RunningInv, StrictDurable, Open
    PROVE  LET d == Founded(dir)
               v == d.manifest
               next == v.next_file_number
           IN  /\ state = "down" /\ state' = "running" /\ OpenAccepts(dir, log)
               /\ version' = v /\ tables' = v.tables
               /\ mutable_generation' = ActiveGeneration(d)
               /\ dir' = Opened(d) /\ past' = {}
               /\ compaction' = NoCompaction
               /\ last_sequence' \in Nat /\ last_sequence' >= v.last_sequence
               /\ \A r \in Replay(d, log) : r.sequence <= last_sequence'
               /\ Replay(d, log) # {} => \E r \in Replay(d, log) : r.sequence = last_sequence'
               /\ Replay(d, log) = {} => last_sequence' = v.last_sequence
               /\ next + 1 \in Unmatched(d) =>
                     /\ immutable'.generation = next
                     /\ immutable'.records = Newest(log[next].records)
                     /\ ~immutable'.version_published /\ ~immutable'.pending_table
                     /\ mutable' = Newest(log[next + 1].records)
               /\ next + 1 \notin Unmatched(d) =>
                     /\ immutable' = NoImmutable
                     /\ next \in Unmatched(d) => mutable' = Newest(log[next].records)
                     /\ next \notin Unmatched(d) => mutable' = {}
<1> DEFINE d == Founded(dir)
           v == d.manifest
           next == v.next_file_number
           last == MaximumSequence(Replay(d, log))
<1>1. OpenAccepts(dir, log) /\ state = "down" /\ compaction' = compaction
    BY Zenon DEF Open
<1>2. /\ v \in VersionType /\ next \in Nat
      /\ \A r \in Replay(d, log) : r.sequence > v.last_sequence
      /\ next + 1 \in Unmatched(d) => Unmatched(d) = {next, next + 1}
      /\ next + 1 \notin Unmatched(d) => Unmatched(d) # {next, next + 1}
    BY Zenon, <1>1, OpenedDirectory
<1>3. /\ next + 1 \in Unmatched(d) => ActiveGeneration(d) = next + 1
      /\ next + 1 \notin Unmatched(d) => ActiveGeneration(d) = next
    BY Zenon, <1>1, Accepted
<1>4. compaction' = NoCompaction
    BY Zenon, <1>1 DEF TypeInv, DownIsEmpty
<1>5. Replay(d, log) \in SUBSET Record
    <2>1. d.wals \in SUBSET Generation
        BY Zenon, <1>1, OpenFacts, DirectoryOps DEF TypeInv, TypeOK, TypeDisk
    <2>2. \A g \in Unmatched(d) : log[g].records \in SUBSET Record
        BY Zenon, <2>1, Numbers DEF Unmatched
    <2> QED BY Zenon, <2>2 DEF Replay
<1>6. /\ last \in Nat /\ v.last_sequence \in Nat
      /\ \A r \in Replay(d, log) : r.sequence <= last /\ r.sequence \in Nat
      /\ Replay(d, log) # {} => \E r \in Replay(d, log) : r.sequence = last
      /\ Replay(d, log) = {} => last = 0
    <2>1. v.last_sequence \in 0 .. MaxSequence
        BY Zenon, <1>2, VersionOps
    <2>2. Replay(d, log) = {} => last = 0
        BY Zenon DEF MaximumSequence
    <2>3. \A r \in Replay(d, log) : r.sequence \in Nat
        BY <1>5, VersionAssumption DEF Record
    <2> HIDE DEF d
    <2> QED BY SMTT(30), <1>5, <2>1, <2>2, <2>3, MaximumSequenceOf, VersionAssumption
<1>7. last_sequence' = IF last > v.last_sequence THEN last ELSE v.last_sequence
    BY Zenon DEF Open, Replay
<1>8. /\ state' = "running" /\ version' = v /\ tables' = v.tables
      /\ mutable_generation' = ActiveGeneration(d) /\ dir' = Opened(d) /\ past' = {}
    BY Zenon DEF Open, ChangeAndSync
<1>9. /\ immutable' = IF Unmatched(d) = {next, next + 1}
                      THEN [NoImmutable EXCEPT !.generation = next,
                                               !.records = Newest(log[next].records)]
                      ELSE NoImmutable
      /\ mutable' = Newest(IF ActiveGeneration(d) \in Unmatched(d)
                           THEN log[ActiveGeneration(d)].records ELSE {})
    BY Zenon DEF Open
<1> HIDE DEF d, last
<1>10. /\ last_sequence' \in Nat /\ last_sequence' >= v.last_sequence
       /\ \A r \in Replay(d, log) : r.sequence <= last_sequence'
       /\ Replay(d, log) # {} => \E r \in Replay(d, log) : r.sequence = last_sequence'
       /\ Replay(d, log) = {} => last_sequence' = v.last_sequence
    BY <1>2, <1>6, <1>7
<1>11. next + 1 \in Unmatched(d) =>
           /\ immutable'.generation = next
           /\ immutable'.records = Newest(log[next].records)
           /\ ~immutable'.version_published /\ ~immutable'.pending_table
           /\ mutable' = Newest(log[next + 1].records)
    BY Zenon, <1>2, <1>3, <1>9 DEF NoImmutable
<1>12. next + 1 \notin Unmatched(d) =>
           /\ immutable' = NoImmutable
           /\ next \in Unmatched(d) => mutable' = Newest(log[next].records)
           /\ next \notin Unmatched(d) => mutable' = {}
    BY Zenon, <1>2, <1>3, <1>9 DEF Newest
<1> QED BY Zenon, <1>1, <1>4, <1>8, <1>10, <1>11, <1>12 DEF d

------------------------------------------------------------------------------
(* The steps, by what they change in memory *)

\* Steps that change nothing in memory.
LEMMA SameIsStill ==
    ASSUME state # "down", state' # "down", UNCHANGED <<memoryVars, written, doubt>>
    PROVE  Still
BY Zenon DEF Still, HasImmutable, HasCompaction, Unpublished, Merging

\* Memory stays.
LEMMA CallStill ==
    ASSUME TypeInv, state # "down", Waiting \/ Trying
    PROVE  Still
<1> USE DEF Waiting, Trying
<1>1. UNCHANGED <<memoryVars, written, doubt>>
    BY Zenon DEF Put, Flush, Compact, Close, CloseJoined, Skip, Proceed, Return, FreezeSkipped,
           FreezeRefused, RotateRefused, PrepareSkipped, PrepareFails, PrepareRefused,
           CompactionRemoveFails, CompactionSyncFails, WorkerStart, Refused, IoError, vars,
           FlushTableFails, FlushManifestFails, FlushRemoveWalFails, FlushFinishFails,
           CompactionPublishFails, CompactionFinishFails, OpenMutableWalFails, WorkerPublish
<1>2. state' # "down"
    BY Zenon DEF Put, Flush, Compact, Close, CloseJoined, Skip, Proceed, Return, FreezeSkipped,
           FreezeRefused, RotateRefused, PrepareSkipped, PrepareFails, PrepareRefused,
           CompactionRemoveFails, CompactionSyncFails, WorkerStart, Refused, IoError, ReturnError,
           vars, FlushTableFails, FlushManifestFails, FlushRemoveWalFails, FlushFinishFails,
           CompactionPublishFails, CompactionFinishFails, OpenMutableWalFails, WorkerPublish
<1> QED BY Zenon, <1>1, <1>2, SameIsStill

\* What is pending stays, and what is not may be released.
LEMMA MaintenanceStill ==
    ASSUME TypeInv, GenerationsOK, state # "down", Noting
    PROVE  Still
<1> USE DEF Noting
<1>1. immutable \in ImmutableGeneration /\ compaction \in CompactionState
    BY Zenon DEF TypeInv, TypeOK, TypeMemory
<1>2. state' # "down"
    BY Zenon DEF FlushTable, FlushRemoveWal, FlushFinish, CompactionPublish, CompactionRemove,
           CompactionSync, CompactionFinish, WorkerResume, Proceed
<1>3. UNCHANGED <<version, tables, mutable, mutable_generation, last_sequence, status,
                  written, doubt>>
    BY Zenon DEF FlushTable, FlushRemoveWal, FlushFinish, CompactionPublish, CompactionRemove,
           CompactionSync, CompactionFinish, WorkerResume, Proceed
<1>4. /\ HasImmutable' => /\ HasImmutable
                          /\ immutable'.generation = immutable.generation
                          /\ immutable'.records = immutable.records
                          /\ immutable'.version_published = immutable.version_published
      /\ Unpublished => HasImmutable'
    <2>1. CASE FlushTable \/ FlushRemoveWal
        BY Zenon, <1>1, <2>1 DEF FlushTable, FlushRemoveWal, ImmutableGeneration, HasImmutable
    <2>2. CASE WorkerResume
        BY Zenon, <1>1, <2>2 DEF WorkerResume, ImmutableGeneration, HasImmutable, Unpublished
    <2>3. CASE FlushFinish
        BY Zenon, <2>3 DEF FlushFinish, HasImmutable, NoImmutable, Unpublished, GenerationsOK
    <2>4. CASE CompactionPublish \/ CompactionRemove \/ CompactionSync \/ CompactionFinish
        BY Zenon, <2>4 DEF CompactionPublish, CompactionRemove, CompactionSync, CompactionFinish,
                    HasImmutable, Unpublished
    <2> QED BY Zenon, <2>1, <2>2, <2>3, <2>4
<1>5. /\ HasCompaction' => /\ HasCompaction
                           /\ compaction'.inputs = compaction.inputs
                           /\ compaction'.outputs = compaction.outputs
                           /\ compaction'.candidate = compaction.candidate
                           /\ compaction'.version_published = compaction.version_published
                           /\ compaction.published => compaction'.published
                           /\ compaction'.cleanup \subseteq compaction.cleanup
      /\ Merging => HasCompaction'
    <2>1. CASE CompactionPublish \/ CompactionSync
        BY Zenon, <1>1, <2>1 DEF CompactionPublish, CompactionSync, CompactionState, HasCompaction,
           Merging
    <2>2. CASE CompactionRemove
        BY Zenon, <1>1, <2>2 DEF CompactionRemove, CompactionState, HasCompaction, Merging
    <2>3. CASE CompactionFinish
        BY Zenon, <2>3 DEF CompactionFinish, CleanupDone, HasCompaction, NoCompaction, Merging
    <2>4. CASE FlushTable \/ FlushRemoveWal \/ FlushFinish \/ WorkerResume
        BY Zenon, <2>4 DEF FlushTable, FlushRemoveWal, FlushFinish, WorkerResume, HasCompaction,
           Merging
    <2> QED BY Zenon, <2>1, <2>2, <2>3, <2>4
<1> QED BY Zenon, <1>2, <1>3, <1>4, <1>5 DEF Still

\* Every step ends the process or finds it gone, opens the database, is one of
\* those, or leaves memory alone.
LEMMA StepKinds ==
    ASSUME TypeInv, GenerationsOK, [Next]_vars
    PROVE  \/ state' = "down" /\ Ending
           \/ Open
           \/ state # "down" /\ Turning
           \/ Still /\ (Waiting \/ Trying \/ Noting)
<1> USE DEF Waiting, Trying, Noting, Ending
<1>1. CASE state = "down"
    <2>1. pc = "idle" /\ op = "none" /\ worker = "idle"
        BY Zenon, <1>1, CallMeansUp DEF TypeInv, DownIsEmpty, CallOK
    <2>2. CASE UNCHANGED vars
        BY Zenon, <1>1, <2>2 DEF vars
    <2>3. CASE Environment \/ Call
        BY Zenon, <1>1, <2>3 DEF Environment, ProcessCrash, PowerFailure, Forget, Call, OpenFails,
           Put,
                          Flush, Compact, Close, CloseJoined
    <2>4. CASE Skip \/ Return
        BY Zenon, <2>1, <2>4 DEF Skip, Return
    <2>5. CASE WriteStep \/ FlushStep \/ CompactionStep
        BY Zenon, <1>1, <2>5, StepRuns
    <2>6. CASE WorkerStep
        BY Zenon, <1>1, <2>1, <2>6 DEF WorkerStep, WorkerStart, WorkerPublish, WorkerResume
    <2> QED BY Zenon, <2>2, <2>3, <2>4, <2>5, <2>6 DEF Next
<1>2. CASE state # "down"
    <2>1. CASE Environment \/ (Return /\ op = "close")
        BY Zenon, <2>1 DEF Environment, ProcessCrash, PowerFailure, Return, Forget
    <2>2. CASE Call \/ UNCHANGED vars
        BY Zenon, <1>2, <2>2, CallStill DEF Call, OpenFails
    <2>3. CASE Skip \/ (Return /\ op # "close")
        BY Zenon, <1>2, <2>3, CallStill
    <2>4. CASE WriteStep
        <3>1. Append /\ ~wal => Refused
            BY Zenon DEF Append
        <3> QED BY Zenon, <1>2, <2>4, <3>1, CallStill DEF WriteStep, Turning
    <2>5. CASE FlushStep
        <3>1. FlushManifest /\ ~FlushEditAccepted => Refused
            BY Zenon DEF FlushManifest
        <3> QED BY Zenon, <1>2, <2>5, <3>1, CallStill, MaintenanceStill DEF FlushStep, Turning
    <2>6. CASE CompactionStep
        <3>1. CompactionManifest /\ ~(compaction.candidate # NoVersion \/ CompactionEditAccepted)
                 => Refused
            BY Zenon DEF CompactionManifest
        <3> QED BY Zenon, <1>2, <2>6, <3>1, CallStill, MaintenanceStill DEF CompactionStep, Turning
    <2>7. CASE WorkerStep
        BY Zenon, <1>2, <2>7, CallStill, MaintenanceStill DEF WorkerStep
    <2> QED BY Zenon, <2>1, <2>2, <2>3, <2>4, <2>5, <2>6, <2>7 DEF Next
<1> QED BY Zenon, <1>1, <1>2

------------------------------------------------------------------------------
(* What a crash leaves of the WALs *)

\* A record is replayed from one of the WALs.
LEMMA ReplayOf ==
    ASSUME NEW d, NEW l
    PROVE  \A r : r \in Replay(d, l) <=> \E g \in Unmatched(d) : r \in l[g].records
BY Zenon DEF Replay

\* A directory is recovered from shorter WALs as well.
LEMMA ShorterRecovers ==
    ASSUME NEW d, NEW l, NEW k, NEW W \in SUBSET Record, NEW D \in SUBSET Record,
           RecoverOK(d, l, W, D), \A g \in Unmatched(d) : Shorter(k[g], l[g])
    PROVE  RecoverOK(d, k, W, D)
<1> DEFINE next == d.manifest.next_file_number
           last == d.manifest.last_sequence
           two == Unmatched(d) = {next, next + 1}
<1>1. \A r \in W \cup D : r.sequence \in Nat
    BY SMTT(30), VersionAssumption DEF Record
<1>2. Replay(d, k) \subseteq Replay(d, l) /\ Replay(d, l) \subseteq W \cup D
    BY SMTT(30), ReplayOf DEF Shorter, RecoverOK
<1>3. CASE d.manifest = NoVersion
    <2>1. OpenAccepts(d, k) /\ Unmatched(d) = {}
        BY Zenon, <1>3 DEF OpenAccepts, RecoverOK, Unmatched
    <2>2. Replay(d, k) = {} /\ Replay(d, l) = {}
        BY Zenon, <2>1, ReplayOf
    <2> QED BY Zenon, <2>1, <2>2 DEF RecoverOK
<1>4. CASE d.manifest # NoVersion
    <2>1. /\ ValidateVersion(d.manifest) /\ Unmatched(d) \subseteq {next, next + 1}
          /\ \A t \in d.manifest.tables : d.sst[t.generation] = t.records
          /\ \A g \in Unmatched(d) : \A r \in l[g].records : r.sequence > last
          /\ two => /\ l[next].records # {}
                    /\ \A r \in l[next].records, q \in l[next + 1].records :
                          r.sequence < q.sequence
        BY Zenon, <1>4 DEF RecoverOK, OpenAccepts
    <2>2. ASSUME two
          PROVE  /\ next \in Unmatched(d) /\ next + 1 \in Unmatched(d)
                 /\ k[next].records = l[next].records
                 /\ k[next + 1].records \subseteq l[next + 1].records
        <3>1. next \in Unmatched(d) /\ next + 1 \in Unmatched(d)
            BY Zenon, <2>2
        <3>2. Shorter(k[next], l[next]) /\ Shorter(k[next + 1], l[next + 1])
            BY Zenon, <3>1
        <3>3. Synced(l[next])
            BY Zenon, <2>2 DEF RecoverOK
        <3> QED BY Zenon, <3>1, <3>2, <3>3 DEF Shorter, Synced
    <2>3. OpenAccepts(d, k)
        <3>1. \A g \in Unmatched(d) : \A r \in k[g].records : r.sequence > last
            BY Zenon, <2>1 DEF Shorter
        <3>2. two => /\ k[next].records # {}
                     /\ \A r \in k[next].records, q \in k[next + 1].records :
                           r.sequence < q.sequence
            BY Zenon, <2>1, <2>2
        <3> QED BY Zenon, <1>4, <2>1, <3>1, <3>2 DEF OpenAccepts
    <2>4. ASSUME NEW w \in W \cup D, NEW r \in Replay(d, k), last < w.sequence,
                 w.sequence <= r.sequence
          PROVE  w \in Replay(d, k)
        <3>1. w \in Replay(d, l)
            BY Zenon, <1>2, <2>4 DEF RecoverOK
        <3>2. PICK g \in Unmatched(d) : w \in l[g].records
            BY Zenon, <3>1, ReplayOf
        <3>3. PICK h \in Unmatched(d) : r \in k[h].records
            BY Zenon, <2>4, ReplayOf
        <3>4. CASE g = h
            BY Zenon, <2>4, <3>2, <3>3, <3>4, ReplayOf DEF Shorter
        <3>5. CASE g # h
            <4>1. two /\ (g = next \/ (g = next + 1 /\ h = next))
                BY SMTT(30), <2>1, <3>5
            <4>2. CASE g = next
                BY Zenon, <2>2, <3>2, <4>1, <4>2, ReplayOf
            <4>3. CASE g = next + 1 /\ h = next
                <5>1. r.sequence < w.sequence
                    BY Zenon, <2>1, <2>2, <3>2, <3>3, <4>1, <4>3
                <5>2. r.sequence \in Nat /\ w.sequence \in Nat
                    BY Zenon, <1>1, <1>2, <2>4
                <5> QED BY SMTT(30), <2>4, <5>1, <5>2
            <4> QED BY Zenon, <4>1, <4>2, <4>3
        <3> QED BY Zenon, <3>4, <3>5
    <2>5. two => Synced(k[next])
        BY Zenon, <2>2 DEF Shorter
    <2> QED BY Zenon, <1>2, <2>3, <2>4, <2>5 DEF RecoverOK
<1> QED BY Zenon, <1>3, <1>4

\* A directory with the same MANIFEST, tables and WALs to replay is recovered, and
\* so is one whose WAL is new.
LEMMA SameRecovers ==
    ASSUME NEW d, NEW e, NEW l, NEW k, NEW W, NEW D, RecoverOK(d, l, W, D),
           e = d \/ d.manifest # NoVersion,
           e.manifest = d.manifest, d.manifest.next_file_number \in Nat,
           \A t \in d.manifest.tables : e.sst[t.generation] = d.sst[t.generation],
           \/ Unmatched(e) = Unmatched(d) /\ \A g \in Unmatched(d) : k[g] = l[g]
           \/ /\ Unmatched(d) = {} /\ Unmatched(e) = {d.manifest.next_file_number} /\ e # d
              /\ k[d.manifest.next_file_number].records = {}
    PROVE  RecoverOK(e, k, W, D)
<1> DEFINE next == d.manifest.next_file_number
<1>1. CASE Unmatched(e) = Unmatched(d) /\ \A g \in Unmatched(d) : k[g] = l[g]
    <2>1. Replay(e, k) = Replay(d, l)
        BY SMTT(30), <1>1 DEF Replay
    <2>2. OpenAccepts(e, k)
        <3>1. CASE d.manifest = NoVersion
            BY Zenon, <3>1 DEF OpenAccepts, RecoverOK
        <3>2. CASE d.manifest # NoVersion
            BY SMTT(30), <1>1, <3>2 DEF OpenAccepts, RecoverOK
        <3> QED BY Zenon, <3>1, <3>2
    <2>3. Unmatched(e) = {next, next + 1} => k[next] = l[next]
        BY Zenon, <1>1
    <2> QED BY Zenon, <1>1, <2>1, <2>2, <2>3 DEF RecoverOK
<1>2. CASE /\ Unmatched(d) = {} /\ Unmatched(e) = {next} /\ e # d
           /\ k[next].records = {}
    <2>1. Replay(e, k) = {} /\ Unmatched(e) # {next, next + 1}
        <3>1. \A r : r \notin Replay(e, k)
            BY Zenon, <1>2, ReplayOf
        <3>2. next + 1 # next
            BY Zenon, NumberOrder
        <3> QED BY Zenon, <1>2, <3>1, <3>2
    <2>2. OpenAccepts(e, k)
        BY Zenon, <1>2, <2>1 DEF OpenAccepts, RecoverOK
    <2> QED BY Zenon, <1>2, <2>1, <2>2 DEF RecoverOK
<1> QED BY Zenon, <1>1, <1>2

\* A directory that Open gives its first MANIFEST is recovered as before.
LEMMA FoundedRecovers ==
    ASSUME dir \in Directory, RecoverOK(dir, log, written, doubt)
    PROVE  /\ RecoverOK(Founded(dir), log, written, doubt)
           /\ Founded(dir).manifest # NoVersion
           /\ dir.manifest # NoVersion => Founded(dir) = dir
<1>1. CASE dir.manifest # NoVersion
    BY Zenon, <1>1 DEF Founded
<1>2. CASE dir.manifest = NoVersion
    <2> DEFINE d == WithManifest(dir, NewDatabase)
    <2>1. Founded(dir) = d
        BY Zenon, <1>2 DEF Founded
    <2>2. d.manifest = NewDatabase /\ d.wals = dir.wals
        BY Zenon, DirectoryOps, VersionOps
    <2>3. dir.wals = {} /\ Unmatched(d) = {} /\ Unmatched(dir) = {}
        BY Zenon, <1>2, <2>2 DEF RecoverOK, OpenAccepts, Unmatched
    <2>4. NewDatabase # NoVersion /\ ValidateVersion(NewDatabase)
        BY DEF NewDatabase, NoVersion, ValidateVersion
    <2>5. /\ NewDatabase.tables = {} /\ NoVersion.tables = {}
          /\ NewDatabase.last_sequence = 0 /\ NoVersion.last_sequence = 0
        BY Zenon DEF NewDatabase, NoVersion
    <2> HIDE DEF d
    <2>6. OpenAccepts(d, log)
        BY Zenon, <2>2, <2>3, <2>4, <2>5 DEF OpenAccepts
    <2>7. Replay(d, log) = {}
        BY Zenon, <2>3, ReplayOf
    <2>8. RecoverOK(d, log, written, doubt)
        BY Zenon, <1>2, <2>2, <2>3, <2>5, <2>6, <2>7 DEF RecoverOK
    <2> QED BY Zenon, <1>2, <2>1, <2>2, <2>4, <2>8
<1> QED BY Zenon, <1>1, <1>2

\* Removing files that are not live, and creating the WAL to go on with, leave what
\* is recovered.
LEMMA CleanedRecovers ==
    ASSUME NEW d \in Directory, RecoverOK(d, log, written, doubt), d.manifest # NoVersion,
           NEW dead \in SUBSET OrphanTables(d), NEW wals \in SUBSET ObsoleteWals(d)
    PROVE  LET e == Cleaned(d, dead, wals)
           IN  /\ RecoverOK(e, log, written, doubt)
               /\ e.manifest = d.manifest /\ Unmatched(e) = Unmatched(d)
               /\ e.wals = d.wals \ wals /\ e \in Directory
               /\ \A t \in d.manifest.tables : e.sst[t.generation] = d.sst[t.generation]
<1> DEFINE e == Cleaned(d, dead, wals)
<1>1. /\ d.manifest \in VersionType /\ d.wals \in SUBSET Generation
      /\ d.sst \in [Generation -> SUBSET Record]
    BY Zenon, DirectoryOps
<1>2. e.manifest = d.manifest /\ e.wals = d.wals \ wals /\ e \in Directory
    BY Zenon DEF Cleaned, Directory
<1>3. /\ d.manifest.next_file_number \in Nat /\ d.manifest.tables \in SUBSET Table
      /\ \A g \in d.wals : g \in Nat
    BY SMTT(30), <1>1, VersionOps, VersionAssumption DEF Generation
<1>4. \A g \in Generation : e.sst[g] = IF g \in dead THEN {} ELSE d.sst[g]
    BY SMTT(30), DirectoryTables
<1>5. \A t \in d.manifest.tables : t.generation \in Generation /\ t.generation \notin dead
    BY Zenon, <1>3 DEF Table, OrphanTables, Generations
<1>6. \A t \in d.manifest.tables : e.sst[t.generation] = d.sst[t.generation]
    BY Zenon, <1>4, <1>5
<1>7. Unmatched(e) = Unmatched(d)
    BY SMTT(30), <1>2, <1>3 DEF Unmatched, ObsoleteWals
<1> HIDE DEF e
<1>8. RecoverOK(e, log, written, doubt)
    BY Zenon, <1>2, <1>3, <1>6, <1>7, SameRecovers
<1> QED BY Zenon, <1>2, <1>6, <1>7, <1>8 DEF e

\* The directory that Open goes on with is recovered, with the WAL it may create.
LEMMA OpenedRecovers ==
    ASSUME TypeInv, RunningInv, StrictDurable, RecoverOK(dir, log, written, doubt),
           log' = Created(ActiveGeneration(Founded(dir)))
    PROVE  LET d == Founded(dir)
               e == Cleaned(d, OrphanTables(d), ObsoleteWals(d))
           IN  /\ RecoverOK(Opened(d), log', written, doubt)
               /\ RecoverOK(e, log', written, doubt)
               /\ e = dir => \A f \in past : RecoverOK(f, log, written, doubt) =>
                                                 RecoverOK(f, log', written, doubt)
<1> DEFINE d == Founded(dir)
           e == Cleaned(d, OrphanTables(d), ObsoleteWals(d))
           next == d.manifest.next_file_number
           active == ActiveGeneration(d)
<1>1. dir \in Directory /\ OpenAccepts(dir, log)
    BY Zenon DEF RecoverOK, TypeInv, TypeOK, TypeDisk
<1>2. /\ RecoverOK(d, log, written, doubt) /\ d.manifest # NoVersion
      /\ dir.manifest # NoVersion => d = dir
    BY Zenon, <1>1, FoundedRecovers
<1>3. d \in Directory /\ d.wals = dir.wals /\ next \in Generation /\ active \in Generation
    BY Zenon, <1>1, OpenFacts
<1>4. /\ RecoverOK(e, log, written, doubt) /\ e.manifest = d.manifest
      /\ Unmatched(e) = Unmatched(d) /\ e \in Directory
      /\ \A t \in d.manifest.tables : e.sst[t.generation] = d.sst[t.generation]
    BY SMTT(30), <1>2, <1>3, CleanedRecovers
<1>5. /\ Unmatched(d) \subseteq {next, next + 1}
      /\ next + 1 \in Unmatched(d) => active = next + 1
      /\ next + 1 \notin Unmatched(d) => active = next
    BY Zenon, <1>1, Accepted
<1>6. /\ Opened(d).manifest = d.manifest /\ Opened(d).wals = Unmatched(d) \cup {active}
      /\ Opened(d).sst = e.sst
    <2>1. Opened(d) = WithWal(e, active)
        BY Zenon DEF Opened
    <2>2. WithWal(e, active).sst = e.sst
        BY Zenon, <1>4, DirectoryTables
    <2>3. Opened(d).manifest = d.manifest /\ Opened(d).wals = Unmatched(d) \cup {active}
        BY Zenon, <1>1, OpenedWals
    <2> QED BY Zenon, <2>1, <2>2, <2>3
<1>7. next \in Nat /\ active >= next
    BY SMTT(30), <1>3, <1>5 DEF Generation
<1>8. Unmatched(Opened(d)) = Unmatched(d) \cup {active}
    BY Zenon, <1>6, <1>7 DEF Unmatched
<1>9. \A t \in d.manifest.tables : Opened(d).sst[t.generation] = d.sst[t.generation]
    BY SMTT(30), <1>4, <1>6
<1>10. Unmatched(d) \subseteq d.wals /\ (active \in d.wals => active \in Unmatched(d))
    BY Zenon, <1>7 DEF Unmatched
<1>11. CASE active \in d.wals
    <2>1. log' = log
        BY Zenon, <1>3, <1>11 DEF Created
    <2>2. Unmatched(Opened(d)) = Unmatched(d)
        BY Zenon, <1>8, <1>10, <1>11
    <2> HIDE DEF d, e
    <2>3. RecoverOK(Opened(d), log, written, doubt)
        BY Zenon, <1>2, <1>6, <1>7, <1>9, <2>2, SameRecovers DEF d
    <2> QED BY Zenon, <1>4, <2>1, <2>3 DEF d, e
<1>12. CASE active \notin d.wals
    <2>1. active = next /\ Unmatched(d) = {}
        BY Zenon, <1>5, <1>10, <1>12
    <2>2. log'[next].records = {} /\ \A g \in Generation : g # next => log'[g] = log[g]
        BY Zenon, <1>3, <1>12, <2>1, LogType DEF Created, Log, EmptyWal
    <2>3. Unmatched(Opened(d)) = {next} /\ Opened(d) # d
        BY Zenon, <1>8, <2>1
    <2>4. ASSUME e = dir, NEW f \in past, RecoverOK(f, log, written, doubt)
          PROVE  RecoverOK(f, log', written, doubt)
        <3>1. d = dir
            BY Zenon, <1>2, <1>4, <2>4
        <3>2. next \notin f.wals
            <4>1. \A g \in f.wals \ dir.wals : g < dir.manifest.next_file_number
                BY Zenon DEF RunningInv, WalsOK
            <4> QED BY SMTT(30), <1>7, <1>12, <2>1, <3>1, <4>1
        <3>3. \A g \in Unmatched(f) : log'[g] = log[g]
            BY Zenon, <2>2, <3>2, Numbers DEF Unmatched
        <3>4. f.manifest.next_file_number \in Nat
            BY Zenon, DirectoryNumbers
        <3> QED BY Zenon, <2>4, <3>3, <3>4, SameRecovers
    <2> HIDE DEF d, e
    <2>5. RecoverOK(Opened(d), log', written, doubt)
        BY Zenon, <1>2, <1>6, <1>7, <1>9, <2>1, <2>2, <2>3, SameRecovers DEF d
    <2>6. RecoverOK(e, log', written, doubt)
        <3>1. \A g \in Unmatched(e) : log'[g] = log[g]
            BY Zenon, <1>4, <2>1
        <3>2. e.manifest.next_file_number \in Nat
            BY Zenon, <1>4, <1>7
        <3> QED BY Zenon, <1>4, <3>1, <3>2, SameRecovers
    <2> QED BY Zenon, <2>4, <2>5, <2>6 DEF d, e
<1> QED BY Zenon, <1>11, <1>12

------------------------------------------------------------------------------
(* From memory to the disk *)

\* The types the proofs below need again and again.
LEMMA HistoryTypes ==
    ASSUME TypeInv
    PROVE  /\ written \in SUBSET Record /\ doubt \in SUBSET Record
           /\ mutable \in SUBSET Record /\ immutable.records \in SUBSET Record
           /\ version \in VersionType
           /\ version.last_sequence \in Nat /\ last_sequence \in Nat /\ Base \in Nat
           /\ \A r \in Record : r.sequence \in Nat /\ 0 < r.sequence
<1>1. written \in SUBSET Record /\ doubt \in SUBSET Record
    BY Zenon DEF TypeInv, TypeOK, TypeHistory
<1>2. /\ version.last_sequence \in 0 .. MaxSequence /\ last_sequence \in 0 .. MaxSequence
      /\ mutable \in SUBSET Record /\ immutable.records \in SUBSET Record
      /\ MaximumSequence(immutable.records) \in 0 .. MaxSequence
      /\ \A r \in Record : r.sequence \in 1 .. MaxSequence
    BY Zenon, Numbers
<1>3. version \in VersionType
    BY Zenon DEF TypeInv, TypeOK, TypeMemory
<1>4. /\ version.last_sequence \in Nat /\ last_sequence \in Nat /\ Base \in Nat
      /\ \A r \in Record : r.sequence \in Nat /\ 0 < r.sequence
    BY <1>2, VersionAssumption DEF Base
<1> QED BY Zenon, <1>1, <1>2, <1>3, <1>4

\* The writes are split by the frontier and by Base.
LEMMA Split ==
    ASSUME TypeInv, SequencesOK, HistoryOK, MemoryOK, state # "down"
    PROVE  /\ version.last_sequence <= Base /\ Base <= last_sequence
           /\ Unpublished => /\ immutable.records \subseteq written
                             /\ \E w \in written : w.sequence = Base
                             /\ Between(written, version.last_sequence, Base) # {}
           /\ \A q \in doubt : Base < q.sequence
           /\ mutable = {} => After(written, Base) = {}
<1>1. /\ After(written, Base) \in SUBSET Record
      /\ Between(written, version.last_sequence, Base) \in SUBSET Record
    BY Zenon, HistoryTypes DEF After, Between
<1>2. mutable = {} => After(written, Base) = {}
    BY Zenon, <1>1, NewestOf DEF MemoryOK
<1>3. ASSUME Unpublished
      PROVE  /\ immutable.records \subseteq written
             /\ Between(written, version.last_sequence, Base) # {}
             /\ \E r \in immutable.records : r.sequence = Base
    <2>1. immutable.records = Newest(Between(written, version.last_sequence, Base))
        BY Zenon, <1>3 DEF MemoryOK
    <2>2. immutable.records \subseteq Between(written, version.last_sequence, Base)
        BY Zenon, <1>1, <2>1, NewestOf
    <2>3. immutable.records # {}
        BY Zenon, <1>3 DEF Unpublished, HasImmutable
    <2>4. \E r \in immutable.records : r.sequence = Base
        BY Zenon, <1>3, <2>3, HistoryTypes, MaximumSequenceOf DEF Base
    <2> QED BY Zenon, <2>2, <2>3, <2>4 DEF Between
<1>4. version.last_sequence <= Base /\ Base <= last_sequence
    <2>1. CASE Unpublished
        <3>1. PICK r \in immutable.records : r.sequence = Base
            BY Zenon, <1>3, <2>1
        <3>2. version.last_sequence < r.sequence /\ r.sequence <= last_sequence
            BY Zenon, <2>1 DEF SequencesOK
        <3> QED BY <3>1, <3>2, HistoryTypes
    <2>2. CASE ~Unpublished
        BY <2>2, HistoryTypes DEF Base, SequencesOK
    <2> QED BY Zenon, <2>1, <2>2
<1>5. \A q \in doubt : Base < q.sequence
    <2>1. CASE Unpublished
        BY Zenon, <1>3, <2>1 DEF HistoryOK
    <2>2. CASE ~Unpublished
        BY Zenon, <2>2 DEF Base, HistoryOK
    <2> QED BY Zenon, <2>1, <2>2
<1> QED BY Zenon, <1>2, <1>3, <1>4, <1>5

\* A directory whose MANIFEST answers for everything but the Mutable's writes.
LEMMA OneWal ==
    ASSUME TypeInv, SequencesOK, HistoryOK, MemoryOK, LogsOK, state # "down",
           NEW d \in past \cup {dir}, d.manifest # NoVersion, ValidateVersion(d.manifest),
           FilesOf(d), d.manifest.last_sequence = Base,
           mutable_generation <= d.manifest.next_file_number,
           Unmatched(d) \subseteq {mutable_generation},
           Covers(d.manifest.tables, Base, written)
    PROVE  RecoverOK(d, log, written, doubt)
<1> DEFINE next == d.manifest.next_file_number
           wrote == log[mutable_generation].records
<1>1. next \in Nat /\ mutable_generation \in Nat
    BY Zenon, DirectoryNumbers, FileNumbers
<1>2. \A g \in Unmatched(d) : g = next /\ g = mutable_generation /\ InWal(mutable_generation)
    BY <1>1 DEF Unmatched, InWal
<1>3. Unmatched(d) # {next, next + 1}
    BY <1>1, <1>2
<1>4. InWal(mutable_generation) =>
          wrote \subseteq written \cup doubt /\ written \cap wrote = After(written, Base)
    BY Zenon DEF LogsOK
<1>5. /\ Replay(d, log) \subseteq wrote
      /\ Replay(d, log) # {} => Replay(d, log) = wrote /\ InWal(mutable_generation)
    BY Zenon, <1>2 DEF Replay
<1>6. \A q \in doubt : Base < q.sequence
    BY Zenon, Split
<1>7. InWal(mutable_generation) => \A r \in wrote : r.sequence > Base
    BY Zenon, <1>4, <1>6, HistoryTypes DEF After
<1>8. OpenAccepts(d, log)
    <2>1. \A g \in Unmatched(d) : \A r \in log[g].records : r.sequence > d.manifest.last_sequence
        BY Zenon, <1>2, <1>7
    <2>2. Unmatched(d) \subseteq {next, next + 1}
        BY Zenon, <1>2
    <2> QED BY Zenon, <1>3, <2>1, <2>2 DEF OpenAccepts, FilesOf
<1>9. ASSUME NEW w \in written \cup doubt, NEW r \in Replay(d, log),
             d.manifest.last_sequence < w.sequence, w.sequence <= r.sequence
      PROVE  w \in Replay(d, log)
    <2>1. Replay(d, log) = wrote /\ InWal(mutable_generation)
        BY Zenon, <1>5
    <2>2. CASE w \in written
        BY Zenon, <1>4, <1>9, <2>1, <2>2 DEF After
    <2>3. CASE w \in doubt
        <3>1. r \in written \cup doubt /\ w \in Record /\ r \in Record
            BY Zenon, <1>4, <2>1, <2>3, HistoryTypes
        <3>2. r \notin written
            BY SMTT(30), <1>9, <2>3, <3>1, HistoryTypes DEF HistoryOK
        <3>3. r = w
            BY Zenon, <2>3, <3>1, <3>2 DEF HistoryOK
        <3> QED BY Zenon, <3>3
    <2> QED BY Zenon, <2>2, <2>3
<1>10. Replay(d, log) \subseteq written \cup doubt
    BY Zenon, <1>4, <1>5
<1>11. \A q \in doubt : q.sequence > d.manifest.last_sequence
    BY Zenon, <1>6, HistoryTypes
<1> QED BY Zenon, <1>3, <1>8, <1>9, <1>10, <1>11 DEF RecoverOK

\* A directory with the MANIFEST of the Version in memory, while an Immutable is
\* not published.
LEMMA TwoWals ==
    ASSUME TypeInv, GenerationsOK, DiskOK, SequencesOK, VersionOK, HistoryOK, MemoryOK, LogsOK,
           CoveredOK, state # "down", Unpublished, ~HasCompaction,
           NEW d \in past \cup {dir}, d.manifest = version, FilesOf(d)
    PROVE  RecoverOK(d, log, written, doubt)
<1> DEFINE next == version.next_file_number
           last == version.last_sequence
           first == log[next].records
           second == log[next + 1].records
<1>1. next \in Nat /\ immutable.generation = next /\ mutable_generation = next + 1
    BY Zenon, FileNumbers DEF GenerationsOK
<1>2. next \in d.wals /\ \A g \in d.wals : g <= next + 1
    BY Zenon, <1>1 DEF DiskOK, NamesOK
<1>3. d.wals \subseteq Nat
    BY Zenon, DirectoryNumbers
<1>4. /\ Unmatched(d) \subseteq {next, next + 1} /\ next \in Unmatched(d)
      /\ next + 1 \in Unmatched(d) => InWal(mutable_generation)
    BY <1>1, <1>2, <1>3 DEF Unmatched, InWal
<1>5. /\ first \subseteq written \cup doubt
      /\ written \cap first = Between(written, last, Base)
    BY Zenon, <1>1 DEF LogsOK
<1>6. InWal(mutable_generation) => /\ first \subseteq written /\ Synced(log[next])
                                   /\ second \subseteq written \cup doubt
                                   /\ written \cap second = After(written, Base)
    BY Zenon, <1>1 DEF LogsOK
<1>7. /\ last \in Nat /\ Base \in Nat /\ last <= Base
      /\ \A r \in written \cup doubt : r.sequence \in Nat
    BY Zenon, HistoryTypes, Split
<1>8. \A q \in doubt : last < q.sequence /\ Base < q.sequence
    BY Zenon, Split DEF HistoryOK
<1>9. \A r \in first : last < r.sequence /\ (r \in written => r.sequence <= Base)
    BY Zenon, <1>5, <1>8 DEF Between
<1>10. InWal(mutable_generation) => \A q \in second : last < q.sequence /\ Base < q.sequence
    BY <1>6, <1>7, <1>8 DEF After
<1>11. /\ next \in Unmatched(d) => first \subseteq Replay(d, log)
       /\ next + 1 \in Unmatched(d) => second \subseteq Replay(d, log)
       /\ \A r \in Replay(d, log) : r \in first \/ (next + 1 \in Unmatched(d) /\ r \in second)
    <2> HIDE DEF next
    <2> QED BY Zenon, <1>4 DEF Replay
<1>12. OpenAccepts(d, log)
    <2>1. version # NoVersion /\ ValidateVersion(version)
        BY DEF VersionOK, ValidateVersion, NoVersion
    <2>2. \A g \in Unmatched(d) : \A r \in log[g].records : r.sequence > last
        BY Zenon, <1>4, <1>7, <1>9, <1>10
    <2>3. ASSUME Unmatched(d) = {next, next + 1}
          PROVE  first # {} /\ \A r \in first, q \in second : r.sequence < q.sequence
        <3>1. InWal(mutable_generation)
            BY Zenon, <1>4, <2>3
        <3>2. first # {}
            BY Zenon, <1>5, Split
        <3>3. \A r \in first, q \in second : r.sequence \in Nat /\ q.sequence \in Nat
            BY Zenon, <1>5, <1>6, <1>7, <3>1
        <3>4. \A r \in first, q \in second : r.sequence <= Base /\ Base < q.sequence
            BY Zenon, <1>6, <1>9, <1>10, <3>1
        <3> QED BY <1>7, <3>2, <3>3, <3>4
    <2> QED BY Zenon, <1>4, <2>1, <2>2, <2>3 DEF OpenAccepts, FilesOf
<1>13. ASSUME NEW w \in written \cup doubt, NEW r \in Replay(d, log),
              last < w.sequence, w.sequence <= r.sequence
       PROVE  w \in Replay(d, log)
    <2>1. r \in written \cup doubt /\ r.sequence \in Nat /\ w.sequence \in Nat
        BY Zenon, <1>4, <1>5, <1>6, <1>7, <1>11
    <2>2. CASE w \in doubt
        <3>1. r \notin written
            BY SMTT(30), <1>13, <2>1, <2>2 DEF HistoryOK
        <3> QED BY Zenon, <2>1, <2>2, <3>1 DEF HistoryOK
    <2>3. CASE w \in written /\ w.sequence <= Base
        BY Zenon, <1>4, <1>5, <1>11, <1>13, <2>3 DEF Between
    <2>4. CASE w \in written /\ ~(w.sequence <= Base)
        <3>1. w \in After(written, Base)
            BY <1>7, <2>1, <2>4 DEF After
        <3>2. mutable # {}
            BY Zenon, <3>1, Split
        <3>3. mutable_generation \in d.wals
            BY Zenon, <3>2 DEF GenerationsOK, DiskOK, NamesOK, Claimed
        <3>4. next + 1 \in Unmatched(d)
            BY <1>1, <3>3 DEF Unmatched
        <3> QED BY Zenon, <1>4, <1>6, <1>11, <3>1, <3>4
    <2> QED BY Zenon, <2>2, <2>3, <2>4
<1>14. Replay(d, log) \subseteq written \cup doubt
    BY Zenon, <1>4, <1>5, <1>6, <1>11
<1>15. Covers(version.tables, last, written)
    BY Zenon DEF CoveredOK
<1>16. Unmatched(d) = {next, next + 1} => Synced(log[next])
    BY Zenon, <1>4, <1>6
<1>17. \A q \in doubt : q.sequence > last
    BY Zenon, <1>7, <1>8
<1> QED BY Zenon, <1>12, <1>13, <1>14, <1>15, <1>16, <1>17 DEF RecoverOK

\* The Version that a pending compaction publishes answers as the present one.
LEMMA CandidateCovers ==
    ASSUME TypeInv, ExclusionOK, GenerationsOK, FilesInv, CoveredOK, Merging,
           NEW v, v = Apply(version, compaction.inputs, compaction.outputs, NumberBehindOutputs,
                            version.last_sequence)
    PROVE  /\ ~HasImmutable /\ mutable = {} /\ state # "down"
           /\ ValidateVersion(v) /\ Covers(v.tables, version.last_sequence, written)
           /\ v.tables = {t \in version.tables : t.generation \notin compaction.inputs}
                           \cup compaction.outputs
           /\ v.last_sequence = version.last_sequence /\ v.next_file_number = NumberBehindOutputs
           /\ v.next_file_number >= mutable_generation
<1> USE DEF FilesInv
<1>1. ~HasImmutable /\ mutable = {} /\ state # "down"
    BY DEF Merging, ExclusionOK, TypeInv, DownIsEmpty, HasCompaction, NoCompaction
<1>2. /\ compaction.inputs = Generations(CompactionInputs(version))
      /\ compaction.outputs = CompactionOutputs(CompactionInputs(version), version.next_file_number)
      /\ Level(version.tables, 0) # {}
    BY Zenon DEF PreparedOK
<1>3. CompactionEditAccepted
    BY Zenon, EditsAccepted
<1>4. ValidateVersion(v) /\ NumberBehindOutputs >= version.next_file_number
    BY Zenon, <1>3 DEF CompactionEditAccepted, EditAccepted
<1>5. /\ v.tables = {t \in version.tables : t.generation \notin compaction.inputs}
                      \cup compaction.outputs
      /\ v.last_sequence = version.last_sequence /\ v.next_file_number = NumberBehindOutputs
    BY Zenon DEF Apply
<1>6. version \in VersionType /\ version.next_file_number \in Nat /\ ValidateVersion(version)
    BY Zenon, <1>1, HistoryTypes, FileNumbers DEF VersionOK
<1>7. Covers(v.tables, version.last_sequence, written)
    BY SMTT(30), <1>1, <1>2, <1>5, <1>6, CompactionCovers DEF CoveredOK
<1>8. mutable_generation = version.next_file_number
    BY Zenon, <1>1 DEF GenerationsOK, Unpublished
<1> QED BY Zenon, <1>1, <1>4, <1>5, <1>7, <1>8

\* The Versions that may be in a MANIFEST while the process runs are valid, hold
\* records and answer for the writes up to their frontier.
LEMMA KnownVersions ==
    ASSUME TypeInv, ExclusionOK, GenerationsOK, FilesInv, HistoryOK, MemoryOK, CoveredOK,
           state # "down", NEW v, KnownVersion(v)
    PROVE  /\ v # NoVersion /\ ValidateVersion(v) /\ Covers(v.tables, v.last_sequence, written)
           /\ v # version => v.last_sequence = Base /\ v.next_file_number >= mutable_generation
           /\ v # version /\ Unpublished => v = FlushCandidate
           /\ v # version /\ ~Unpublished =>
                 /\ Pending
                 /\ v = Apply(version, compaction.inputs, compaction.outputs, NumberBehindOutputs,
                              version.last_sequence)
<1> USE DEF FilesInv
<1>1. \A u : ValidateVersion(u) => u # NoVersion
    BY DEF ValidateVersion, NoVersion
<1>2. CASE v = version
    BY Zenon, <1>1, <1>2 DEF VersionOK, CoveredOK
<1>3. CASE v # version /\ Unpublished /\ v = FlushCandidate
    <2>1. FlushEditAccepted
        BY Zenon, <1>3, EditsAccepted
    <2>2. /\ ImmutableTable \in Table /\ v.next_file_number = mutable_generation
          /\ v.last_sequence = Base /\ v.tables = version.tables \cup {ImmutableTable}
        BY Zenon, <1>3, FlushFacts DEF Unpublished, Base, FlushCandidate, Apply
    <2>3. ImmutableTable.records = Newest(Between(written, version.last_sequence, Base))
        BY Zenon, <1>3 DEF MemoryOK, ImmutableTable
    <2>4. /\ version.tables \in SUBSET Table /\ written \in SUBSET Record
          /\ version.last_sequence \in Nat /\ Base \in Nat /\ version.last_sequence <= Base
        BY Zenon, HistoryTypes, Split DEF VersionType
    <2>5. \A r \in Records(version.tables) : r.sequence <= version.last_sequence
        BY Zenon DEF VersionOK, ValidateVersion, Records
    <2>6. Covers(version.tables \cup {ImmutableTable}, Base, written)
        BY Zenon, <2>2, <2>3, <2>4, <2>5, FlushCovers DEF CoveredOK, Between
    <2>7. ValidateVersion(v)
        BY Zenon, <1>3, <2>1 DEF FlushEditAccepted, EditAccepted, FlushCandidate
    <2>8. mutable_generation >= mutable_generation
        BY FileNumbers
    <2> QED BY Zenon, <1>1, <1>3, <2>2, <2>6, <2>7, <2>8
<1>4. CASE v # version /\ Pending /\ v = compaction.candidate
    <2>1. /\ Merging
          /\ v = Apply(version, compaction.inputs, compaction.outputs, NumberBehindOutputs,
                       version.last_sequence)
        BY Zenon, <1>4 DEF Pending, Merging, PreparedOK
    <2>2. /\ ~HasImmutable /\ ValidateVersion(v) /\ v.last_sequence = version.last_sequence
          /\ Covers(v.tables, version.last_sequence, written)
          /\ v.next_file_number >= mutable_generation
        BY Zenon, <2>1, CandidateCovers
    <2>3. ~Unpublished /\ version.last_sequence = Base
        BY Zenon, <2>2 DEF Base, Unpublished
    <2> QED BY Zenon, <1>1, <1>4, <2>1, <2>2, <2>3
<1> QED BY Zenon, <1>2, <1>3, <1>4 DEF KnownVersion

\* Every directory that may survive a running process recovers.
LEMMA RunningRecovers ==
    TypeInv /\ ExclusionOK /\ RunningInv /\ FilesInv /\ RunningHistory => UpRecovers
<1> SUFFICES ASSUME TypeInv, ExclusionOK, RunningInv, FilesInv, RunningHistory, state # "down",
                    NEW d \in past \cup {dir}
             PROVE  RecoverOK(d, log, written, doubt)
    BY Zenon DEF UpRecovers, DisksOK
<1> USE DEF RunningHistory, RunningInv, FilesInv
<1>1. KnownVersion(d.manifest) /\ FilesOf(d) /\ NamesOK(d.manifest, d.wals)
    BY Zenon DEF DirsOK, DiskOK
<1>2. /\ d.manifest # NoVersion /\ ValidateVersion(d.manifest)
      /\ Covers(d.manifest.tables, d.manifest.last_sequence, written)
      /\ d.manifest # version => /\ d.manifest.last_sequence = Base
                                 /\ d.manifest.next_file_number >= mutable_generation
    BY Zenon, <1>1, KnownVersions
<1>3. CASE d.manifest = version /\ Unpublished
    BY Zenon, <1>1, <1>3, TwoWals DEF ExclusionOK, Unpublished
<1>4. CASE d.manifest # version \/ ~Unpublished
    <2>1. d.manifest.last_sequence = Base /\ mutable_generation <= d.manifest.next_file_number
        <3>1. mutable_generation \in Nat /\ d.manifest.next_file_number \in Nat
            BY Zenon, FileNumbers, DirectoryNumbers
        <3> QED BY SMTT(30), <1>2, <1>4, <3>1 DEF Base, GenerationsOK
    <2>2. Unmatched(d) \subseteq {mutable_generation}
        <3>1. \A g \in d.wals : g <= mutable_generation
            BY Zenon, <1>1 DEF NamesOK
        <3> QED BY SMTT(30), <2>1, <3>1, FileNumbers, DirectoryNumbers DEF Unmatched
    <2> QED BY Zenon, <1>1, <1>2, <2>1, <2>2, OneWal
<1> QED BY Zenon, <1>3, <1>4

\* The same after a step.
LEMMA RunningRecoversNext ==
    TypeInv' /\ ExclusionOK' /\ RunningInv' /\ FilesInv' /\ RunningHistory' => UpRecovers'
BY RunningRecovers, PTL

------------------------------------------------------------------------------
(* Sequence numbers *)

\* The types of the sequence numbers in memory.
LEMMA SequenceTypes ==
    ASSUME TypeInv
    PROVE  /\ version.last_sequence \in Nat /\ last_sequence \in Nat
           /\ \A r \in mutable \cup immutable.records : r.sequence \in Nat
           /\ \A r \in Record : r.sequence \in Nat
<1>1. /\ version.last_sequence \in 0 .. MaxSequence /\ last_sequence \in 0 .. MaxSequence
      /\ mutable \in SUBSET Record /\ immutable.records \in SUBSET Record
      /\ \A r \in Record : r.sequence \in 1 .. MaxSequence
    BY Zenon, Numbers
<1> QED BY SMTT(30), <1>1, VersionAssumption

\* Every step keeps the order of the sequence numbers in memory.
LEMMA NextSequences ==
    ASSUME TypeInv, TypeInv', DurableInv, SequencesOK, [Next]_vars
    PROVE  SequencesOK'
<1>0. ExclusionOK /\ RunningInv /\ StrictDurable /\ GenerationsOK
    BY Zenon DEF DurableInv, RunningInv
<1>1. CASE state' = "down"
    BY Zenon, <1>1 DEF SequencesOK
<1>2. CASE Still
    BY Zenon, <1>0, <1>2, StillPending DEF Still, SequencesOK
<1>3. CASE Open
    <2> DEFINE d == Founded(dir)
               v == d.manifest
               next == v.next_file_number
    <2>1. /\ version' = v /\ last_sequence' \in Nat /\ last_sequence' >= v.last_sequence
          /\ \A r \in Replay(d, log) : r.sequence <= last_sequence'
          /\ next + 1 \in Unmatched(d) => /\ immutable'.records = Newest(log[next].records)
                                          /\ mutable' = Newest(log[next + 1].records)
          /\ next + 1 \notin Unmatched(d) =>
                /\ immutable' = NoImmutable
                /\ next \in Unmatched(d) => mutable' = Newest(log[next].records)
                /\ next \notin Unmatched(d) => mutable' = {}
        BY Zenon, <1>0, <1>3, OpenedMemory
    <2>2. /\ \A r \in Replay(d, log) : r.sequence > v.last_sequence
          /\ next + 1 \in Unmatched(d) =>
                /\ Unmatched(d) = {next, next + 1}
                /\ \A r \in log[next].records, q \in log[next + 1].records : r.sequence < q.sequence
        BY Zenon, <1>0, <1>3, OpenedDirectory DEF Open
    <2>3. v.last_sequence \in Nat
        BY SMTT(30), <1>0, <1>3, OpenedDirectory, VersionOps, VersionAssumption DEF Open
    <2> HIDE DEF d, next
    <2>4. \A g \in Unmatched(d) : Newest(log[g].records) \in SUBSET Replay(d, log)
        BY Zenon DEF Newest, Replay
    <2>5. mutable' \in SUBSET Replay(d, log)
        BY Zenon, <2>1, <2>2, <2>4
    <2>6. Unpublished' => next + 1 \in Unmatched(d)
        BY SMTT(30), <2>1 DEF Unpublished, HasImmutable, NoImmutable
    <2>7. Unpublished' => immutable'.records \in SUBSET Replay(d, log)
        BY Zenon, <2>1, <2>2, <2>4, <2>6
    <2>8. Unpublished' => \A r \in immutable'.records, q \in mutable' : r.sequence < q.sequence
        BY Zenon, <2>1, <2>2, <2>6 DEF Newest
    <2> QED BY Zenon, <2>1, <2>2, <2>3, <2>5, <2>7, <2>8 DEF SequencesOK
<1>4. CASE state # "down" /\ Append /\ wal
    <2>1. /\ version' = version /\ immutable' = immutable /\ last_sequence' = last_sequence + 1
          /\ mutable' = Insert(mutable, NewRecord) /\ NewRecord.sequence = last_sequence + 1
        BY Zenon, <1>0, <1>4 DEF Append, NewRecord
    <2>2. \A r \in mutable' : r \in mutable \/ r.sequence = last_sequence + 1
        BY Zenon, <2>1 DEF Insert
    <2>3. Unpublished' = Unpublished
        BY Zenon, <2>1 DEF Unpublished, HasImmutable
    <2> QED BY SMTT(30), <1>0, <1>4, <2>1, <2>2, <2>3, SequenceTypes DEF SequencesOK
<1>5. CASE state # "down" /\ AppendFails
    <2>1. /\ version' = version /\ immutable' = immutable /\ last_sequence' = last_sequence + 1
          /\ mutable' = mutable
        BY Zenon, <1>0, <1>5 DEF AppendFails, NewRecord
    <2>2. Unpublished' = Unpublished
        BY Zenon, <2>1 DEF Unpublished, HasImmutable
    <2> QED BY SMTT(30), <1>0, <1>5, <2>1, <2>2, SequenceTypes DEF SequencesOK
<1>6. CASE state # "down" /\ (Freeze \/ Rotate)
    <2>1. /\ version' = version /\ last_sequence' = last_sequence /\ mutable' = {}
          /\ immutable' = FrozenMutable
        BY Zenon, <1>0, <1>6 DEF Freeze, Rotate
    <2>2. immutable'.records = mutable
        BY Zenon, <2>1 DEF FrozenMutable, NoImmutable
    <2> QED BY Zenon, <1>0, <1>6, <2>1, <2>2 DEF SequencesOK
<1>7. CASE state # "down" /\ FlushManifest /\ FlushEditAccepted
    <2>1. /\ version' = FlushCandidate /\ last_sequence' = last_sequence /\ mutable' = mutable
          /\ immutable' = [immutable EXCEPT !.version_published = TRUE]
          /\ Unpublished
        BY Zenon, <1>0, <1>7 DEF FlushManifest, FlushManifestDue, Unpublished
    <2>2. immutable \in ImmutableGeneration
        BY Zenon DEF TypeInv, TypeOK, TypeMemory
    <2>3. ~Unpublished'
        BY Zenon, <2>1, <2>2 DEF Unpublished, ImmutableGeneration
    <2>4. version'.last_sequence = MaximumSequence(immutable.records)
        BY Zenon, <2>1 DEF FlushCandidate, Apply
    <2>5. PICK r \in immutable.records : r.sequence = MaximumSequence(immutable.records)
        BY Zenon, <2>1, Numbers, MaximumSequenceOf DEF Unpublished, HasImmutable
    <2> QED BY Zenon, <1>0, <1>7, <2>1, <2>3, <2>4, <2>5 DEF SequencesOK
<1>8. CASE state # "down" /\ (Prepare \/ CompactionManifestFails)
    <2>1. UNCHANGED <<version, mutable, last_sequence, immutable>>
        BY Zenon, <1>0, <1>8 DEF Prepare, CompactionManifestFails
    <2>2. Unpublished' = Unpublished
        BY Zenon, <2>1 DEF Unpublished, HasImmutable
    <2> QED BY Zenon, <1>0, <1>8, <2>1, <2>2 DEF SequencesOK
<1>9. CASE /\ state # "down" /\ CompactionManifest
           /\ compaction.candidate # NoVersion \/ CompactionEditAccepted
    <2>1. HasCompaction /\ ~compaction.version_published /\ ~HasImmutable /\ mutable = {}
        BY Zenon, <1>0, <1>9 DEF CompactionManifest, CompactionManifestDue, ExclusionOK
    <2>2. version'.last_sequence = version.last_sequence
        BY Zenon, <1>0, <1>9, <2>1, CandidateFrontiers DEF CompactionManifest
    <2>3. UNCHANGED <<mutable, last_sequence, immutable>>
        BY Zenon, <1>0, <1>9 DEF CompactionManifest
    <2> QED BY Zenon, <1>0, <1>9, <2>1, <2>2, <2>3 DEF SequencesOK, Unpublished, HasImmutable
<1> QED BY Zenon, <1>0, <1>1, <1>2, <1>3, <1>4, <1>5, <1>6, <1>7, <1>8, <1>9, StepKinds DEF Turning

------------------------------------------------------------------------------
(* Versions and edits *)

\* Every step keeps the Version valid and a pending compaction what was prepared.
LEMMA NextVersion ==
    ASSUME TypeInv, TypeInv', DurableInv, SequencesOK, VersionOK, PreparedOK, [Next]_vars
    PROVE  VersionOK' /\ PreparedOK'
<1>0. ExclusionOK /\ RunningInv /\ StrictDurable /\ GenerationsOK
    BY Zenon DEF DurableInv, RunningInv
<1>a. compaction \in CompactionState /\ immutable \in ImmutableGeneration
    BY Zenon DEF TypeInv, TypeOK, TypeMemory
<1>1. CASE state' = "down"
    <2>1. compaction' = NoCompaction
        BY ZenonT(30), <1>1 DEF TypeInv, DownIsEmpty
    <2> QED BY Zenon, <1>1, <2>1 DEF VersionOK, PreparedOK, Merging, HasCompaction, NoCompaction
<1>2. CASE Still
    <2>1. ASSUME Merging' PROVE NumberBehindOutputs' = NumberBehindOutputs
        <3>1. compaction'.outputs = compaction.outputs /\ version' = version
            BY Zenon, <1>2, <2>1, StillPending DEF Still
        <3> QED BY SMTT(30), <3>1 DEF NumberBehindOutputs
    <2> QED BY SMTT(30), <1>2, <2>1, StillPending DEF Still, VersionOK, PreparedOK
<1>3. CASE Open
    <2>1. ValidateVersion(version') /\ tables' = version'.tables
        BY Zenon, <1>0, <1>3, OpenedMemory, OpenedDirectory
    <2>2. compaction' = NoCompaction
        BY Zenon, <1>0, <1>3, OpenedMemory
    <2> QED BY Zenon, <2>1, <2>2 DEF VersionOK, PreparedOK, Merging, HasCompaction, NoCompaction
<1>4. CASE state # "down" /\ ((Append /\ wal) \/ AppendFails \/ Freeze \/ Rotate)
    <2>1. UNCHANGED <<version, tables, compaction>>
        BY Zenon, <1>4 DEF Append, AppendFails, Freeze, Rotate
    <2> QED BY Zenon, <1>4, <2>1 DEF VersionOK, PreparedOK, Merging, HasCompaction,
               NumberBehindOutputs
<1>5. CASE state # "down" /\ FlushManifest /\ FlushEditAccepted
    <2>1. /\ version' = FlushCandidate /\ tables' = tables \cup {ImmutableTable}
          /\ compaction' = compaction /\ HasImmutable
        BY Zenon, <1>5 DEF FlushManifest, FlushManifestDue
    <2>2. ValidateVersion(FlushCandidate)
        BY Zenon, <1>5 DEF FlushEditAccepted, FlushCandidate, EditAccepted
    <2>3. FlushCandidate.tables = version.tables \cup {ImmutableTable}
        BY Zenon DEF FlushCandidate, Apply
    <2>4. ~Merging'
        BY Zenon, <1>0, <2>1 DEF ExclusionOK, Merging, HasCompaction
    <2> QED BY Zenon, <1>5, <2>1, <2>2, <2>3, <2>4 DEF VersionOK, PreparedOK
<1>6. CASE state # "down" /\ Prepare
    <2>1. /\ UNCHANGED <<version, tables>> /\ compaction' = PreparedCompaction
          /\ Level(version.tables, 0) # {}
        BY Zenon, <1>6 DEF Prepare
    <2>2. /\ compaction'.inputs = Generations(CompactionInputs(version))
          /\ compaction'.outputs =
                CompactionOutputs(CompactionInputs(version), version.next_file_number)
          /\ compaction'.candidate = NoVersion
        BY Zenon, <2>1 DEF PreparedCompaction, NoCompaction
    <2> QED BY Zenon, <1>6, <2>1, <2>2 DEF VersionOK, PreparedOK
<1>7. CASE /\ state # "down" /\ CompactionManifest
           /\ compaction.candidate # NoVersion \/ CompactionEditAccepted
    <2>1. Merging
        BY Zenon, <1>7 DEF CompactionManifest, CompactionManifestDue, Merging
    <2>2. /\ version' = CompactionCandidate
          /\ tables' = {t \in tables : t.generation \notin compaction.inputs} \cup compaction.outputs
          /\ compaction'.version_published
        BY Zenon, <1>a, <1>7 DEF CompactionManifest, CompactionState
    <2>3. CompactionCandidate = Apply(version, compaction.inputs, compaction.outputs,
                                      NumberBehindOutputs, version.last_sequence)
        BY Zenon, <2>1, CandidateOf
    <2>4. CompactionEditAccepted
        BY Zenon, <1>0, <2>1, EditsAccepted
    <2>5. ValidateVersion(version')
        BY Zenon, <2>2, <2>3, <2>4 DEF CompactionEditAccepted, EditAccepted
    <2>6. tables' = version'.tables
        BY Zenon, <1>7, <2>2, <2>3 DEF Apply, VersionOK
    <2> QED BY Zenon, <2>2, <2>5, <2>6 DEF VersionOK, PreparedOK, Merging
<1>8. CASE state # "down" /\ CompactionManifestFails
    <2>1. Merging /\ UNCHANGED <<version, tables>>
        BY Zenon, <1>8 DEF CompactionManifestFails, CompactionManifestDue, Merging
    <2>2. /\ compaction'.inputs = compaction.inputs /\ compaction'.outputs = compaction.outputs
          /\ compaction'.candidate = CompactionCandidate
        BY Zenon, <1>a, <1>8 DEF CompactionManifestFails, CompactionState
    <2>3. NumberBehindOutputs' = NumberBehindOutputs
        BY SMTT(30), <2>1, <2>2 DEF NumberBehindOutputs
    <2> QED BY Zenon, <1>8, <2>1, <2>2, <2>3, CandidateOf DEF VersionOK, PreparedOK
<1> QED BY Zenon, <1>0, <1>1, <1>2, <1>3, <1>4, <1>5, <1>6, <1>7, <1>8, StepKinds DEF Turning

\* A compaction publishes its MANIFEST once its tables are there.
LEMMA NextPublished ==
    ASSUME TypeInv, TypeInv', GenerationsOK, PublishedOK, [Next]_vars
    PROVE  PublishedOK'
<1>1. compaction \in CompactionState
    BY ZenonT(30) DEF TypeInv, TypeOK, TypeMemory
<1>2. CASE state' = "down"
    BY SMTT(30), <1>2 DEF TypeInv, DownIsEmpty, PublishedOK, HasCompaction, NoCompaction
<1>3. CASE Open
    BY Zenon, <1>3 DEF Open, PublishedOK, HasCompaction, NoCompaction
<1>4. CASE Still
    BY Zenon, <1>4 DEF Still, PublishedOK
<1>5. CASE Turning
    <2>1. CASE Append \/ AppendFails \/ Freeze \/ Rotate \/ FlushManifest
        BY Zenon, <2>1 DEF Append, AppendFails, Freeze, Rotate, FlushManifest, Refused, PublishedOK,
                    HasCompaction
    <2>2. CASE Prepare
        BY Zenon, <2>2, EmptyValues DEF Prepare, PreparedCompaction, NoCompaction, PublishedOK
    <2>3. CASE CompactionManifest \/ CompactionManifestFails
        BY Zenon, <1>1, <2>3 DEF CompactionManifest, CompactionManifestFails, CompactionManifestDue,
                    CompactionState, Refused, PublishedOK, HasCompaction
    <2> QED BY Zenon, <1>5, <2>1, <2>2, <2>3 DEF Turning
<1> QED BY Zenon, <1>2, <1>3, <1>4, <1>5, StepKinds

------------------------------------------------------------------------------
(* Table files *)

\* Two such directories agree, with each other and with those that are there.
LEMMA OriginsAgree ==
    ASSUME TypeInv, ExclusionOK, GenerationsOK, VersionOK, PreparedOK, FilesAgree, SparesOK,
           NEW d, NEW e, Origin(d), Origin(e)
    PROVE  Agree(d, e)
<1> SUFFICES ASSUME NEW g \in Generation, d.sst[g] # {}, e.sst[g] # {} PROVE d.sst[g] = e.sst[g]
    BY Zenon DEF Agree
<1>1. ASSUME NEW S, NEW x \in past \cup {dir}, OwnFile(g, S), x.sst[g] # {} PROVE x.sst[g] = S
    <2>1. state # "down" /\ g >= version.next_file_number
        BY Zenon, <1>1, OwnFileFacts
    <2>2. OwnFile(g, x.sst[g])
        BY Zenon, <1>1, <2>1 DEF SparesOK
    <2> QED BY Zenon, <1>1, <2>2, OwnFileFacts
<1>2. CASE OwnFile(g, d.sst[g])
    BY Zenon, <1>1, <1>2, OwnFileFacts DEF Origin
<1>3. CASE OwnFile(g, e.sst[g])
    BY Zenon, <1>1, <1>3, OwnFileFacts DEF Origin
<1>4. CASE ~OwnFile(g, d.sst[g]) /\ ~OwnFile(g, e.sst[g])
    <2>1. PICK x \in past \cup {dir} : d.sst[g] = x.sst[g]
        BY Zenon, <1>4 DEF Origin
    <2>2. PICK y \in past \cup {dir} : e.sst[g] = y.sst[g]
        BY Zenon, <1>4 DEF Origin
    <2> QED BY Zenon, <2>1, <2>2 DEF FilesAgree, Agree
<1> QED BY Zenon, <1>2, <1>3, <1>4

\* The directories that are there have their own files.
LEMMA SeenOrigin == \A d \in past \cup {dir} : Origin(d)
BY Zenon DEF Origin

\* A directory with no other files than those of one that is there.
LEMMA FewerFiles ==
    ASSUME NEW d, NEW e \in past \cup {dir}, \A g \in Generation : d.sst[g] \in {{}, e.sst[g]}
    PROVE  Origin(d)
BY Zenon DEF Origin

\* What every step leaves in the directories: files that were there, or that
\* pending maintenance writes.
LEMMA NextOrigins ==
    ASSUME TypeInv, DurableInv, VersionOK, PreparedOK, PublishedOK, [Next]_vars
    PROVE  \A d \in past' \cup {dir'} : Origin(d)
<1>0. ExclusionOK /\ RunningInv /\ StrictDurable /\ GenerationsOK
    BY Zenon DEF DurableInv, RunningInv
<1>1. dir \in Directory /\ past \in SUBSET Directory
    BY Zenon DEF TypeInv, TypeOK, TypeDisk
<1>2. ASSUME \A d \in past' \cup {dir'} : d \in past \cup {dir} \/ Origin(d)
      PROVE  \A d \in past' \cup {dir'} : Origin(d)
    BY Zenon, <1>2, SeenOrigin
<1>3. ASSUME NEW d, Origin(d), Change(d) \/ ChangeAndSync(d)
      PROVE  \A e \in past' \cup {dir'} : Origin(e)
    BY Zenon, <1>2, <1>3 DEF Change, ChangeAndSync
<1>4. ASSUME UNCHANGED <<dir, past>> PROVE \A d \in past' \cup {dir'} : Origin(d)
    BY Zenon, <1>2, <1>4
<1>5. /\ \A v : Origin(WithManifest(dir, v))
      /\ \A g : Origin(WithWal(dir, g)) /\ Origin(WithoutWal(dir, g))
      /\ \A g \in Generation : Origin(WithoutTable(dir, g))
    <2>1. ASSUME NEW d, d.sst = dir.sst PROVE Origin(d)
        BY Zenon, <2>1 DEF Origin
    <2>2. /\ \A v : WithManifest(dir, v).sst = dir.sst
          /\ \A g : WithWal(dir, g).sst = dir.sst /\ WithoutWal(dir, g).sst = dir.sst
        BY Zenon, <1>1, DirectoryTables
    <2>3. ASSUME NEW x \in Generation PROVE Origin(WithoutTable(dir, x))
        <3>1. \A g \in Generation : \/ WithoutTable(dir, x).sst[g] = {}
                                    \/ WithoutTable(dir, x).sst[g] = dir.sst[g]
            BY Zenon, <1>1, TableRemoved
        <3> QED BY Zenon, <3>1 DEF Origin
    <2> QED BY Zenon, <2>1, <2>2, <2>3
<1>6. Unpublished => Origin(WithTable(dir, ImmutableTable))
    <2>1. ASSUME Unpublished, NEW g \in Generation
          PROVE  WithTable(dir, ImmutableTable).sst[g] =
                    IF g = immutable.generation THEN immutable.records ELSE dir.sst[g]
        <3>1. /\ ImmutableTable \in Table /\ ImmutableTable.generation = immutable.generation
              /\ ImmutableTable.records = immutable.records
            BY Zenon, <2>1, FlushFacts DEF ImmutableTable, Unpublished
        <3>2. /\ g = ImmutableTable.generation =>
                    WithTable(dir, ImmutableTable).sst[g] = ImmutableTable.records
              /\ g # ImmutableTable.generation =>
                    WithTable(dir, ImmutableTable).sst[g] = dir.sst[g]
            BY Zenon, <1>1, <3>1, TableWritten
        <3> QED BY Zenon, <3>1, <3>2
    <2> QED BY Zenon, <2>1 DEF Origin, OwnFile
<1>7. CASE Environment
    <2>1. CASE ProcessCrash
        BY Zenon, <1>4, <2>1 DEF ProcessCrash
    <2>2. CASE PowerFailure
        <3>1. dir' \in Survivors /\ past' = {}
            BY Zenon, <2>2 DEF PowerFailure
        <3>2. PICK b \in past \cup {dir} : dir'.sst = b.sst
            BY SMTT(30), <3>1 DEF Survivors
        <3>3. Origin(dir')
            BY Zenon, <3>2 DEF Origin
        <3> QED BY Zenon, <3>1, <3>3
    <2> QED BY Zenon, <1>7, <2>1, <2>2 DEF Environment
<1>8. CASE Open \/ OpenFails
    <2> DEFINE d == Founded(dir)
               cleaned == Cleaned(d, OrphanTables(d), ObsoleteWals(d))
    <2>1. d \in Directory /\ d.sst = dir.sst
        BY Zenon, <1>1, <1>8, OpenFacts, DirectoryTables DEF Founded, Open, OpenFails
    <2>2. \A dead, wals : Origin(Cleaned(d, dead, wals)) /\ Cleaned(d, dead, wals) \in Directory
        <3>1. \A dead, wals : Cleaned(d, dead, wals) \in Directory
            BY Zenon, <1>1, <1>8, OpenFacts DEF Open, OpenFails
        <3>2. ASSUME NEW dead, NEW wals
              PROVE  \A g \in Generation : Cleaned(d, dead, wals).sst[g] \in {{}, dir.sst[g]}
            <4> HIDE DEF d
            <4>1. \A g \in Generation : \/ Cleaned(d, dead, wals).sst[g] = {}
                                        \/ Cleaned(d, dead, wals).sst[g] = d.sst[g]
                BY Zenon, <2>1, TablesCleaned
            <4> QED BY Zenon, <2>1, <4>1
        <3>3. ASSUME NEW dead, NEW wals PROVE Origin(Cleaned(d, dead, wals))
            <4>1. dir \in past \cup {dir}
                BY Zenon
            <4> QED BY Zenon, <3>2, <4>1, FewerFiles
        <3> QED BY Zenon, <3>1, <3>3
    <2>3. Origin(d)
        BY Zenon, <2>1 DEF Origin
    <2>4. Origin(Opened(d))
        <3>1. cleaned \in Directory /\ Origin(cleaned)
            BY Zenon, <2>2
        <3>2. Opened(d).sst = cleaned.sst
            BY Zenon, <3>1, DirectoryTables DEF Opened
        <3> HIDE DEF cleaned, d
        <3> QED BY Zenon, <3>1, <3>2 DEF Origin
    <2>5. CASE Open
        BY Zenon, <1>3, <2>4, <2>5 DEF Open
    <2>6. CASE OpenFails
        <3>1. CASE Change(d)
            BY Zenon, <1>3, <2>3, <3>1
        <3>2. CASE \E dead \in SUBSET OrphanTables(d), wals \in SUBSET ObsoleteWals(d) :
                      /\ dir' = Cleaned(d, dead, wals)
                      /\ past' = past \cup PartlyCleaned(d, dead, wals)
            <4>1. \A dead, wals : \A e \in PartlyCleaned(d, dead, wals) : Origin(e)
                BY SMTT(30), <2>2 DEF PartlyCleaned
            <4> QED BY Zenon, <1>2, <2>2, <3>2, <4>1
        <3>3. CASE /\ dir' = Opened(d)
                   /\ past' = {cleaned} \cup (IF cleaned = dir THEN past ELSE {})
            <4> HIDE DEF cleaned, d
            <4>1. \A e \in past' : e = cleaned \/ e \in past
                BY Zenon, <3>3
            <4>2. Origin(cleaned)
                BY Zenon, <2>2 DEF cleaned
            <4> QED BY Zenon, <1>2, <2>4, <3>3, <4>1, <4>2
        <3> QED BY Zenon, <2>6, <3>1, <3>2, <3>3 DEF OpenFails
    <2> QED BY Zenon, <1>8, <2>5, <2>6
<1>9. CASE \/ \E key \in Key, deleted \in BOOLEAN, sync \in SyncModes : Put(key, deleted, sync)
           \/ Flush \/ Compact \/ Close \/ CloseJoined \/ Skip \/ Return \/ UNCHANGED vars
    BY Zenon, <1>4, <1>9 DEF Put, Flush, Compact, Close, CloseJoined, Skip, Return, vars
<1>10. CASE WriteStep
    <2>1. CASE Rotate
        BY Zenon, <1>3, <1>4, <1>5, <2>1 DEF Rotate
    <2>2. CASE ~Rotate
        BY Zenon, <1>4, <1>10, <2>2 DEF WriteStep, Append, AppendFails, Freeze, FreezeSkipped,
                                 FreezeRefused, RotateRefused, Refused
    <2> QED BY Zenon, <2>1, <2>2
<1>11. OpenMutableWal \/ OpenMutableWalFails => \A d \in past' \cup {dir'} : Origin(d)
    BY Zenon, <1>3, <1>4, <1>5 DEF OpenMutableWal, OpenMutableWalFails
<1>12. CASE FlushStep
    <2>1. CASE FlushTable \/ FlushTableFails
        BY Zenon, <1>3, <1>4, <1>6, <2>1 DEF FlushTable, FlushTableFails, Unpublished
    <2>2. CASE FlushManifest \/ FlushManifestFails
        BY Zenon, <1>3, <1>4, <1>5, <2>2 DEF FlushManifest, FlushManifestFails, Refused
    <2>3. CASE FlushRemoveWal \/ FlushRemoveWalFails
        BY Zenon, <1>3, <1>4, <1>5, <2>3 DEF FlushRemoveWal, FlushRemoveWalFails
    <2>4. CASE FlushFinish \/ FlushFinishFails
        BY Zenon, <1>11, <2>4 DEF FlushFinish, FlushFinishFails
    <2> QED BY Zenon, <1>12, <2>1, <2>2, <2>3, <2>4 DEF FlushStep
<1>13. CASE CompactionStep
    <2>1. CASE Prepare \/ PrepareSkipped \/ PrepareFails \/ PrepareRefused
        BY Zenon, <1>4, <2>1 DEF Prepare, PrepareSkipped, PrepareFails, PrepareRefused, Refused
    <2>2. CompactionPublish \/ CompactionPublishFails => Merging
        <3>1. CompactionPublishDue => Merging
            BY Zenon DEF CompactionPublishDue, Merging, PublishedOK
        <3> QED BY Zenon, <3>1 DEF CompactionPublish, CompactionPublishFails
    <2>3. CASE CompactionPublish
        BY Zenon, <1>0, <1>3, <2>2, <2>3, RenamedOrigin DEF CompactionPublish
    <2>4. CASE CompactionPublishFails
        <3>1. \A n : Origin(RenamedBelow(n))
            BY Zenon, <1>0, <2>2, <2>4, RenamedOrigin
        <3>2. CASE ChangeAndSync(RenamedBelow(MaxGeneration + 1))
            BY Zenon, <1>3, <3>1, <3>2
        <3>3. CASE \E n \in Generations(compaction.outputs) \cup {MaxGeneration + 1} :
                     /\ dir' = RenamedBelow(n)
                     /\ past' = past \cup {RenamedBelow(m) :
                                    m \in {g \in Generations(compaction.outputs) : g < n}}
            BY Zenon, <1>2, <3>1, <3>3
        <3> QED BY Zenon, <2>4, <3>2, <3>3 DEF CompactionPublishFails
    <2>5. CASE CompactionManifest \/ CompactionManifestFails
        BY Zenon, <1>3, <1>4, <1>5, <2>5 DEF CompactionManifest, CompactionManifestFails, Refused
    <2>6. CASE CompactionRemove
        <3>1. compaction.cleanup \in SUBSET Generation
            BY Zenon DEF TypeInv, TypeOK, TypeMemory, CompactionState
        <3> QED BY Zenon, <1>3, <1>5, <2>6, <3>1 DEF CompactionRemove
    <2>7. CASE CompactionSync
        BY Zenon, <1>3, <2>7, SeenOrigin DEF CompactionSync
    <2>8. CASE CompactionRemoveFails \/ CompactionSyncFails
        BY Zenon, <1>4, <2>8 DEF CompactionRemoveFails, CompactionSyncFails
    <2>9. CASE CompactionFinish \/ CompactionFinishFails
        BY Zenon, <1>4, <1>11, <2>9 DEF CompactionFinish, CompactionFinishFails
    <2> QED BY Zenon, <1>13, <2>1, <2>3, <2>4, <2>5, <2>6, <2>7, <2>8, <2>9 DEF CompactionStep
<1>14. CASE WorkerStep
    <2>1. CASE WorkerPublish
        <3>1. Unpublished
            BY Zenon, <2>1 DEF WorkerPublish, TypeInv, WorkerOK, Unpublished
        <3> QED BY Zenon, <1>3, <1>4, <1>6, <2>1, <3>1 DEF WorkerPublish
    <2>2. CASE WorkerStart \/ WorkerResume
        BY Zenon, <1>4, <2>2 DEF WorkerStart, WorkerResume
    <2> QED BY Zenon, <1>14, <2>1, <2>2 DEF WorkerStep
<1> QED BY Zenon, <1>7, <1>8, <1>9, <1>10, <1>12, <1>13, <1>14 DEF Next, Call

\* The files of every step agree with those before it.
LEMMA NextFilesAgree ==
    ASSUME TypeInv, DurableInv, VersionOK, PreparedOK, PublishedOK, FilesAgree, SparesOK,
           [Next]_vars
    PROVE  FilesAgree' /\ \A d \in past \cup {dir}, e \in past' \cup {dir'} : Agree(d, e)
<1>1. ExclusionOK /\ GenerationsOK
    BY Zenon DEF DurableInv, RunningInv
<1>2. \A d \in past \cup {dir} \cup past' \cup {dir'} : Origin(d)
    BY Zenon, NextOrigins, SeenOrigin
<1>3. \A d, e \in past \cup {dir} \cup past' \cup {dir'} : Agree(d, e)
    BY Zenon, <1>1, <1>2, OriginsAgree
<1>4. \A d, e \in past' \cup {dir'} : Agree(d, e)'
    BY Zenon, <1>3 DEF Agree
<1> QED BY Zenon, <1>3, <1>4 DEF FilesAgree

\* A file at or ahead of the frontier after a step, the frontier not having moved
\* back, is one of the maintenance that was pending.
LEMMA SparesBefore ==
    ASSUME TypeInv, DurableInv, VersionOK, PreparedOK, PublishedOK, SparesOK, [Next]_vars,
           state # "down", version'.next_file_number \in Nat,
           version'.next_file_number >= version.next_file_number,
           NEW d \in past' \cup {dir'}, NEW g \in Generation,
           g >= version'.next_file_number, d.sst[g] # {}
    PROVE  OwnFile(g, d.sst[g])
<1>1. g \in Nat /\ version.next_file_number \in Nat
    BY SMTT(30), FileNumbers DEF Generation
<1>2. g >= version.next_file_number
    BY SMTT(30), <1>1
<1>3. Origin(d)
    BY Zenon, NextOrigins
<1> QED BY Zenon, <1>2, <1>3 DEF Origin, SparesOK

\* The spare files of the next state.
LEMMA NextSpares ==
    ASSUME TypeInv, TypeInv', DurableInv, SequencesOK, VersionOK, PreparedOK, PublishedOK,
           SparesOK, [Next]_vars
    PROVE  SparesOK'
<1>0. ExclusionOK /\ RunningInv /\ StrictDurable /\ GenerationsOK
    BY Zenon DEF DurableInv, RunningInv
<1>a. compaction \in CompactionState /\ immutable \in ImmutableGeneration
    BY ZenonT(30) DEF TypeInv, TypeOK, TypeMemory
<1>b. version.next_file_number \in Nat /\ version'.next_file_number \in Nat
    BY SMTT(30), FileNumbers DEF TypeInv, TypeOK, TypeMemory, VersionType
<1>1. CASE state' = "down"
    BY Zenon, <1>1 DEF SparesOK
<1>c. ASSUME state # "down", version'.next_file_number >= version.next_file_number,
             \A g, S : OwnFile(g, S) /\ g >= version'.next_file_number => OwnFile(g, S)'
      PROVE  SparesOK'
    BY Zenon, <1>b, <1>c, SparesBefore DEF SparesOK
<1>d. ASSUME state # "down", version' = version, Unpublished' = Unpublished, Merging' = Merging,
             Unpublished => /\ immutable'.generation = immutable.generation
                            /\ immutable'.records = immutable.records,
             Merging => compaction'.outputs = compaction.outputs
      PROVE  SparesOK'
    <2>1. \A g, S : OwnFile(g, S) => OwnFile(g, S)'
        BY Zenon, <1>d DEF OwnFile
    <2>2. version'.next_file_number >= version.next_file_number
        BY Zenon, <1>b, <1>d, NumberOrder
    <2> QED BY Zenon, <1>c, <1>d, <2>1, <2>2
<1>2. CASE Still
    <2>1. state # "down" /\ version' = version
        BY Zenon, <1>2 DEF Still
    <2> QED BY Zenon, <1>2, <1>d, <2>1, StillPending
<1>3. CASE Open
    <2> DEFINE d == Founded(dir)
               v == d.manifest
    <2>1. version' = v /\ dir' = Opened(d) /\ past' = {} /\ OpenAccepts(dir, log)
        BY Zenon, <1>0, <1>3, OpenedMemory
    <2>2. ValidateVersion(v) /\ d \in Directory
        BY Zenon, <1>0, <2>1, OpenedDirectory, OpenFacts DEF TypeInv, TypeOK, TypeDisk
    <2>3. \A g \in Generation :
             Opened(d).sst[g] = IF g \in OrphanTables(d) THEN {} ELSE d.sst[g]
        <3>1. Cleaned(d, OrphanTables(d), ObsoleteWals(d)) \in Directory
            BY Zenon, <2>1, OpenFacts DEF TypeInv, TypeOK, TypeDisk
        <3> HIDE DEF d
        <3> QED BY Zenon, <2>2, <3>1, OpenedTables
    <2> SUFFICES ASSUME NEW g \in Generation, g >= v.next_file_number, Opened(d).sst[g] # {}
                 PROVE  FALSE
        BY Zenon, <2>1 DEF SparesOK
    <2>4. g \in Generations(v.tables)
        BY Zenon, <2>3 DEF OrphanTables
    <2>5. g < v.next_file_number
        BY Zenon, <2>2, <2>4 DEF ValidateVersion, Generations
    <2>6. g \in Nat /\ v.next_file_number \in Nat
        BY Zenon, <1>b, <2>1, GenerationIsNat
    <2> QED BY Zenon, <2>5, <2>6, NumberOrder
<1>4. CASE state # "down" /\ ((Append /\ wal) \/ AppendFails)
    <2>1. UNCHANGED <<version, immutable, compaction>>
        BY Zenon, <1>4 DEF Append, AppendFails
    <2> QED BY Zenon, <1>4, <1>d, <2>1 DEF Unpublished, Merging, HasImmutable, HasCompaction
<1>5. CASE state # "down" /\ (Freeze \/ Rotate \/ Prepare)
    <2>1. version' = version
        BY Zenon, <1>5 DEF Freeze, Rotate, Prepare
    <2>2. mutable # {} \/ ~HasCompaction
        BY Zenon, <1>5 DEF Freeze, Rotate, Prepare, CanFreeze, PrepareAccepted
    <2>3. ~HasImmutable
        BY Zenon, <1>5 DEF Freeze, Rotate, Prepare, CanFreeze, MayCompact
    <2>4. \A g, S : ~OwnFile(g, S)
        BY Zenon, <1>0, <2>2, <2>3 DEF OwnFile, Unpublished, Merging, ExclusionOK
    <2>5. version'.next_file_number >= version.next_file_number
        BY Zenon, <1>b, <2>1, NumberOrder
    <2> QED BY Zenon, <1>5, <1>c, <2>4, <2>5
<1>6. CASE state # "down" /\ FlushManifest /\ FlushEditAccepted
    <2>1. version' = FlushCandidate /\ Unpublished
        BY Zenon, <1>6 DEF FlushManifest, FlushManifestDue, Unpublished
    <2>2. version'.next_file_number = mutable_generation
        BY Zenon, <2>1 DEF FlushCandidate, Apply
    <2>3. /\ immutable.generation = version.next_file_number
          /\ mutable_generation = version.next_file_number + 1
        BY Zenon, <1>0, <1>6, <2>1 DEF GenerationsOK
    <2>4. ~Merging
        BY Zenon, <1>0, <2>1 DEF ExclusionOK, Merging, Unpublished
    <2>5. \A g, S : OwnFile(g, S) => ~(g >= version'.next_file_number)
        <3>1. ~(version.next_file_number >= version'.next_file_number)
            BY Zenon, <1>b, <2>2, <2>3, NumberOrder
        <3> QED BY Zenon, <2>3, <2>4, <3>1 DEF OwnFile
    <2>6. version'.next_file_number >= version.next_file_number
        BY Zenon, <1>b, <2>2, <2>3, NumberOrder
    <2> QED BY Zenon, <1>6, <1>c, <2>5, <2>6
<1>7. CASE /\ state # "down" /\ CompactionManifest
           /\ compaction.candidate # NoVersion \/ CompactionEditAccepted
    <2>1. Merging /\ version' = CompactionCandidate
        BY Zenon, <1>7 DEF CompactionManifest, CompactionManifestDue, Merging
    <2>2. CompactionCandidate = Apply(version, compaction.inputs, compaction.outputs,
                                      NumberBehindOutputs, version.last_sequence)
        BY Zenon, <2>1, CandidateOf
    <2>3. version'.next_file_number = NumberBehindOutputs
        BY Zenon, <2>1, <2>2 DEF Apply
    <2>4. CompactionEditAccepted
        BY Zenon, <1>0, <2>1, EditsAccepted
    <2>5. version'.next_file_number >= version.next_file_number
        BY Zenon, <2>3, <2>4 DEF CompactionEditAccepted, EditAccepted
    <2>6. \A t \in version'.tables : t.generation < version'.next_file_number
        BY Zenon, <2>1, <2>2, <2>4 DEF CompactionEditAccepted, EditAccepted, ValidateVersion
    <2>7. compaction.outputs \subseteq version'.tables
        BY Zenon, <2>1, <2>2 DEF Apply
    <2>8. ~Unpublished
        BY Zenon, <1>0, <2>1 DEF ExclusionOK, Merging, Unpublished
    <2>9. \A t \in compaction.outputs : t.generation \in Nat
        BY Zenon, <1>a, GenerationIsNat DEF CompactionState, Table
    <2>10. \A g, S : OwnFile(g, S) => ~(g >= version'.next_file_number)
        <3>1. \A t \in compaction.outputs : ~(t.generation >= version'.next_file_number)
            BY Zenon, <1>b, <2>6, <2>7, <2>9, NumberOrder
        <3> QED BY Zenon, <2>8, <3>1 DEF OwnFile
    <2> QED BY Zenon, <1>7, <1>c, <2>5, <2>10
<1>8. CASE state # "down" /\ CompactionManifestFails
    <2>1. /\ UNCHANGED <<version, immutable>> /\ compaction'.outputs = compaction.outputs
          /\ compaction'.inputs = compaction.inputs
          /\ compaction'.version_published = compaction.version_published
        BY Zenon, <1>a, <1>8 DEF CompactionManifestFails, CompactionState
    <2> QED BY Zenon, <1>8, <1>d, <2>1 DEF Unpublished, Merging, HasImmutable, HasCompaction
<1> QED BY Zenon, <1>0, <1>1, <1>2, <1>3, <1>4, <1>5, <1>6, <1>7, <1>8, StepKinds DEF Turning

------------------------------------------------------------------------------
(* FilesInv as a whole *)

\* A fresh directory has no file.
LEMMA InitFiles == Init => FilesInv
<1> SUFFICES ASSUME Init PROVE FilesInv
    BY Zenon
<1>1. /\ state = "down" /\ past = {} /\ \A g \in Generation : dir.sst[g] = {}
      /\ compaction = NoCompaction
    BY Zenon DEF Init
<1>2. ~HasCompaction
    BY Zenon, <1>1 DEF HasCompaction, NoCompaction
<1>3. SequencesOK /\ VersionOK /\ SparesOK
    BY Zenon, <1>1 DEF SequencesOK, VersionOK, SparesOK
<1>4. PreparedOK /\ PublishedOK
    BY Zenon, <1>2 DEF PreparedOK, PublishedOK, Merging
<1>5. FilesAgree
    BY Zenon, <1>1 DEF FilesAgree, Agree
<1> QED BY Zenon, <1>3, <1>4, <1>5 DEF FilesInv

\* Every step keeps FilesInv.
LEMMA NextFiles ==
    TypeInv /\ TypeInv' /\ DurableInv /\ FilesInv /\ [Next]_vars => FilesInv'
<1> SUFFICES ASSUME TypeInv, TypeInv', DurableInv, FilesInv, [Next]_vars PROVE FilesInv'
    BY Zenon
<1>1. GenerationsOK
    BY Zenon DEF DurableInv, RunningInv
<1> USE DEF FilesInv
<1>2. SequencesOK'
    BY Zenon, NextSequences
<1>3. VersionOK' /\ PreparedOK'
    BY Zenon, NextVersion
<1>4. PublishedOK'
    BY Zenon, <1>1, NextPublished
<1>5. FilesAgree' /\ SparesOK'
    BY Zenon, NextFilesAgree, NextSpares
<1> QED BY Zenon, <1>2, <1>3, <1>4, <1>5

------------------------------------------------------------------------------
(* What follows from HistoryInv *)

\* An empty directory is that of a new database.
LEMMA InitHistory == Init => HistoryInv
<1> SUFFICES ASSUME Init PROVE HistoryInv
    BY Zenon
<1>1. /\ state = "down" /\ written = {} /\ doubt = {} /\ past = {} /\ dir.manifest = NoVersion
      /\ dir.wals = {} /\ \A g \in Generation : dir.sst[g] = {}
    BY Zenon DEF Init
<1>2. RunningHistory
    BY Zenon, <1>1 DEF RunningHistory, HistoryOK, Unique, MemoryOK, LogsOK, DirsOK, CoveredOK
<1>3. RecoverOK(dir, log, written, doubt)
    <2>1. Unmatched(dir) = {} /\ Replay(dir, log) = {}
        BY Zenon, <1>1 DEF Unmatched, Replay
    <2>2. NoVersion.tables = {}
        BY Zenon DEF NoVersion
    <2>3. Covers({}, NoVersion.last_sequence, {})
        BY Zenon DEF Covers, Records, Lookup, Newest, UserVisible
    <2> QED BY Zenon, <1>1, <2>1, <2>2, <2>3 DEF RecoverOK, OpenAccepts
<1> QED BY Zenon, <1>1, <1>2, <1>3 DEF HistoryInv, DisksOK

\* The tables of a MANIFEST that may survive answer for the writes up to its
\* frontier.
LEMMA DiskCovers ==
    Ordered /\ HistoryInv => FrontierIsComplete
<1> SUFFICES ASSUME Ordered, HistoryInv, NEW d \in Survivors, NEW key \in Key
             PROVE  UserVisible(Newest(Lookup(Records(d.manifest.tables), key))) =
                    UserVisible(Newest({w \in Lookup(written, key) :
                                           w.sequence <= d.manifest.last_sequence}))
    BY Zenon DEF FrontierIsComplete
<1> DEFINE n == d.manifest.last_sequence
<1>1. Covers(d.manifest.tables, n, written)
    <2>1. d \in past \cup {dir}
        BY Zenon, OrderedSurvivors
    <2> QED BY Zenon, <2>1 DEF HistoryInv, DisksOK, RecoverOK
<1>2. {w \in Lookup(written, key) : w.sequence <= n} =
          Lookup({w \in written : w.sequence <= n}, key)
    BY Zenon DEF Lookup
<1> QED BY Zenon, <1>1, <1>2 DEF Covers

\* Open accepts a directory that may survive, with all its WALs or with what was
\* synced of them.
LEMMA DiskOpens ==
    Ordered /\ TypeInv /\ HistoryInv => DirectoryOpens
<1> SUFFICES ASSUME Ordered, TypeInv, HistoryInv, NEW d \in Survivors
             PROVE  OpenAccepts(d, log) /\ OpenAccepts(d, SyncedLog)
    BY Zenon DEF DirectoryOpens
<1>1. d \in past \cup {dir} /\ RecoverOK(d, log, written, doubt)
    <2>1. d \in past \cup {dir}
        BY Zenon, OrderedSurvivors
    <2> QED BY Zenon, <2>1 DEF HistoryInv, DisksOK
<1>2. ASSUME NEW g \in Unmatched(d) PROVE Shorter(SyncedLog[g], log[g])
    <2>1. g \in Generation
        BY Zenon, <1>1, <1>2, Numbers DEF Unmatched
    <2>2. /\ log[g] \in [records : SUBSET Record, synced : 0 .. MaxSequence]
          /\ log[g].synced \in Nat /\ \A r \in log[g].records : r.sequence \in Nat
        BY SMTT(30), <2>1, LogType, Numbers, HistoryTypes, VersionAssumption DEF Log
    <2>3. SyncedLog[g] = [log[g] EXCEPT !.records = {r \in @ : r.sequence <= log[g].synced}]
        BY Zenon, <2>1 DEF SyncedLog
    <2>4. /\ SyncedLog[g].records = {r \in log[g].records : r.sequence <= log[g].synced}
          /\ SyncedLog[g].synced = log[g].synced
        BY Zenon, <2>2, <2>3
    <2> QED BY SMTT(30), <2>2, <2>4 DEF Shorter, Synced
<1>3. written \in SUBSET Record /\ doubt \in SUBSET Record
    BY Zenon, HistoryTypes
<1>4. RecoverOK(d, SyncedLog, written, doubt)
    BY Zenon, <1>1, <1>2, <1>3, ShorterRecovers
<1> QED BY Zenon, <1>1, <1>4 DEF RecoverOK

\* Get asks the Mutable, the Immutable and the tables in this order, and the first
\* that knows the key has its last write.
LEMMA MemoryReads ==
    TypeInv /\ FilesInv /\ HistoryInv => ReadsMatchHistory
<1> SUFFICES ASSUME TypeInv, FilesInv, HistoryInv, state = "running", NEW key \in Key
             PROVE  Get(key) = UserVisible(Newest(Lookup(written, key)))
    BY Zenon DEF ReadsMatchHistory
<1> DEFINE last == version.last_sequence
           old == {w \in written : w.sequence <= Base}
<1>1. /\ written \in SUBSET Record /\ last \in Nat /\ Base \in Nat
      /\ \A w \in written : w.sequence \in Nat /\ 0 < w.sequence
    BY Zenon, HistoryTypes
<1>2. /\ mutable = Newest(After(written, Base)) /\ Unique(written)
      /\ Unpublished => immutable.records = Newest(Between(written, last, Base))
      /\ HasImmutable /\ ~Unpublished => immutable.records \subseteq Newest(Between(written, 0, last))
      /\ ~Unpublished => Base = last
      /\ Covers(tables, last, written)
    BY Zenon DEF HistoryInv, RunningHistory, HistoryOK, MemoryOK, CoveredOK, FilesInv, VersionOK,
           Unpublished, Base
<1>3. last <= Base
    BY Zenon, Split DEF HistoryInv, RunningHistory, FilesInv
<1>4. old \in SUBSET Record /\ After(written, Base) \in SUBSET Record
      /\ Between(written, last, Base) \in SUBSET Record
    BY Zenon, <1>1 DEF After, Between
<1>5. Lookup(mutable, key) = Newest(Lookup(After(written, Base), key))
    BY Zenon, <1>2, <1>4, NewestOfKey
<1>6. CASE Lookup(mutable, key) # {}
    <2>1. Lookup(After(written, Base), key) # {}
        BY Zenon, <1>5, <1>6 DEF Newest
    <2>2. Newest(Lookup(written, key)) = Newest(Lookup(After(written, Base), key))
        BY Zenon, <1>1, <2>1, NewestAfter DEF After
    <2> QED BY Zenon, <1>5, <1>6, <2>2 DEF Get
<1>7. ASSUME Lookup(mutable, key) = {} PROVE Lookup(written, key) = Lookup(old, key)
    <2>1. Lookup(After(written, Base), key) # {} => Newest(Lookup(After(written, Base), key)) # {}
        BY Zenon, <1>4, NewestOfKey
    <2>2. Lookup(After(written, Base), key) = {}
        BY Zenon, <1>5, <1>7, <2>1
    <2>3. \A w \in written : w.sequence <= Base \/ Base < w.sequence
        BY Zenon, <1>1, NumberOrder
    <2> QED BY Zenon, <2>2, <2>3 DEF Lookup, After
<1>8. CASE Lookup(mutable, key) = {} /\ Lookup(immutable.records, key) # {}
    <2>1. Get(key) = UserVisible(Lookup(immutable.records, key))
        BY Zenon, <1>8 DEF Get
    <2>2. CASE Unpublished
        <3>1. Lookup(immutable.records, key) = Newest(Lookup(Between(written, last, Base), key))
            BY Zenon, <1>2, <1>4, <2>2, NewestOfKey
        <3>2. Lookup(Between(written, last, Base), key) # {}
            BY Zenon, <1>8, <3>1 DEF Newest
        <3>3. Between(written, last, Base) = {r \in old : last < r.sequence}
            BY Zenon DEF Between
        <3>4. Newest(Lookup(old, key)) = Newest(Lookup(Between(written, last, Base), key))
            <4> HIDE DEF old, last
            <4>1. Lookup({r \in old : last < r.sequence}, key) # {}
                BY Zenon, <3>2, <3>3
            <4>2. Newest(Lookup(old, key)) = Newest(Lookup({r \in old : last < r.sequence}, key))
                BY Zenon, <1>1, <1>4, <4>1, NewestAfter
            <4> QED BY Zenon, <3>3, <4>2
        <3> QED BY Zenon, <1>7, <1>8, <2>1, <3>1, <3>4
    <2>3. CASE ~Unpublished
        <3>1. HasImmutable
            BY Zenon, <1>8 DEF HasImmutable, Lookup
        <3>2. Between(written, 0, last) = old
            BY Zenon, <1>1, <1>2, <2>3 DEF Between
        <3>3. Newest(Lookup(old, key)) = Lookup(Newest(old), key)
              /\ \A r, q \in Newest(Lookup(old, key)) : r.sequence = q.sequence
            BY Zenon, <1>4, NewestOfKey
        <3>4. Lookup(immutable.records, key) \subseteq Newest(Lookup(old, key))
            BY Zenon, <1>2, <2>3, <3>1, <3>2, <3>3 DEF Lookup
        <3>5. Newest(Lookup(old, key)) \subseteq written
            BY Zenon DEF Newest, Lookup
        <3>6. \A r, q \in Newest(Lookup(old, key)) : r = q
            BY Zenon, <1>2, <3>3, <3>5 DEF Unique
        <3>7. Lookup(immutable.records, key) = Newest(Lookup(old, key))
            BY Zenon, <1>8, <3>4, <3>6
        <3> QED BY Zenon, <1>7, <1>8, <2>1, <3>7
    <2> QED BY Zenon, <2>2, <2>3
<1>9. CASE Lookup(mutable, key) = {} /\ Lookup(immutable.records, key) = {}
    <2>1. Get(key) = UserVisible(Newest(Lookup(Records(tables), key)))
        BY Zenon, <1>9 DEF Get
    <2>2. Lookup(old, key) = Lookup({w \in written : w.sequence <= last}, key)
        <3>1. CASE Unpublished
            <4>1. Lookup(immutable.records, key) = Newest(Lookup(Between(written, last, Base), key))
                BY Zenon, <1>2, <1>4, <3>1, NewestOfKey
            <4>2. Lookup(Between(written, last, Base), key) = {}
                BY Zenon, <1>4, <1>9, <4>1, NewestOfKey
            <4>3. \A w \in written : /\ w.sequence <= last \/ last < w.sequence
                                     /\ w.sequence <= last => w.sequence <= Base
                BY Zenon, <1>1, <1>3, NumberOrder, OrderTransitive
            <4> QED BY Zenon, <4>2, <4>3 DEF Lookup, Between
        <3>2. CASE ~Unpublished
            BY Zenon, <1>2, <3>2
        <3> QED BY Zenon, <3>1, <3>2
    <2> QED BY Zenon, <1>2, <1>7, <1>9, <2>1, <2>2 DEF Covers
<1> QED BY Zenon, <1>6, <1>8, <1>9
==============================================================================
