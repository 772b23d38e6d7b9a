------------------------------- MODULE Version -------------------------------
(***************************************************************************)
(* Records, tables and Versions of a MiniKV database, and the pure          *)
(* functions that build a new Version: Version::Apply with its validation   *)
(* (src/src/manifest.cpp) and the L0 -> L1 merge (src/src/compaction.cpp).  *)
(*                                                                          *)
(* A record is its sequence number, its user key and whether it is a        *)
(* deletion: sequence numbers are unique, so a sequence stands for the      *)
(* value bytes.  A table is the set of its records, one per key.  The       *)
(* MANIFEST keeps a table's metadata, which Open compares with the file;    *)
(* here an entry of the Version carries the records themselves, and two     *)
(* contents agree only when they are equal.                                 *)
(***************************************************************************)
EXTENDS Integers, FiniteSets

CONSTANTS
    Key,            \* user keys, integers: they are compared with <
    MaxSequence,    \* bound: the number of writes (sequence numbers are uint64)
    MaxGeneration,  \* the largest file number (uint64 in the code)
    OutputLimit     \* records per compaction output (compaction_output_size_limit)

ASSUME VersionAssumption ==
    /\ Key \subseteq Int
    /\ IsFiniteSet(Key)
    /\ MaxSequence \in Nat \ {0}
    /\ MaxGeneration \in Nat \ {0}
    /\ OutputLimit \in Nat \ {0}

\* S has a greatest element, or a least one.
HasGreatest(S) == \E m \in S : \A k \in S : k <= m
HasLeast(S) == \E m \in S : \A k \in S : m <= k

\* The numbers and the keys of an instance are finitely many, so the non-empty
\* sets of them have ends, and a set of keys has at least as many keys as a
\* part of it.
FiniteOrder ==
    /\ \A S \in SUBSET (0 .. MaxSequence) : S # {} => HasGreatest(S)
    /\ \A S \in SUBSET (0 .. MaxGeneration) : S # {} => HasGreatest(S)
    /\ \A S \in SUBSET Key : S # {} => HasGreatest(S) /\ HasLeast(S)
    /\ \A S \in SUBSET Key :
          /\ Cardinality(S) \in Nat
          /\ \A T \in SUBSET S : Cardinality(T) <= Cardinality(S)
    /\ Cardinality({}) = 0

\* It follows from VersionAssumption (FiniteOrderHolds, in WritePathProofs).
\* As an assumption it lets the proofs about Versions and about the engine do
\* without the theory of finite sets.
ASSUME FiniteOrderAssumption == FiniteOrder

Generation == 1 .. MaxGeneration

Record == [sequence : 1 .. MaxSequence, key : Key, deleted : BOOLEAN]

Table == [generation : Generation, level : {0, 1}, records : SUBSET Record]

VersionType ==
    [id : Nat, next_file_number : 0 .. MaxGeneration,
     last_sequence : 0 .. MaxSequence, tables : SUBSET Table]

\* A directory without a MANIFEST; no Version has id 0.
NoVersion ==
    [id |-> 0, next_file_number |-> 0, last_sequence |-> 0, tables |-> {}]

\* Version::NewDatabase
NewDatabase ==
    [id |-> 1, next_file_number |-> 1, last_sequence |-> 0, tables |-> {}]

------------------------------------------------------------------------------
(* Sets of records *)

Sequences(S) == {r.sequence : r \in S}

Keys(S) == {r.key : r \in S}

\* What an ordered map keeps of a log: the newest record of every key.
Newest(S) ==
    {r \in S : \A q \in S : q.key = r.key => q.sequence <= r.sequence}

\* Database::UserVisible: a deletion is reported as NotFound.
UserVisible(S) == {r \in S : ~r.deleted}

\* Mutant of Insert: the record already there wins.
InsertKeepsOld(S, r) == IF r.key \in Keys(S) THEN S ELSE S \cup {r}

\* MemTable::Add, the record being newer than the one it replaces.
Insert(S, r) == {q \in S : q.key # r.key} \cup {r}

\* MemTable::Lookup
Lookup(S, key) == {r \in S : r.key = key}

MaximumSequence(S) ==
    IF S = {} THEN 0
    ELSE CHOOSE n \in Sequences(S) : \A m \in Sequences(S) : m <= n

Records(T) == UNION {t.records : t \in T}

\* The tables T answer for exactly the writes of W up to sequence number n.
Covers(T, n, W) ==
    \A key \in Key :
        UserVisible(Newest(Lookup(Records(T), key))) =
        UserVisible(Newest(Lookup({w \in W : w.sequence <= n}, key)))

Generations(T) == {t.generation : t \in T}

Level(T, n) == {t \in T : t.level = n}

\* The key ranges of the two tables, ends included, have a key in common.
RangesMeet(t, u) ==
    /\ \E a \in Keys(t.records), b \in Keys(u.records) : a <= b
    /\ \E a \in Keys(t.records), b \in Keys(u.records) : b <= a

------------------------------------------------------------------------------
(* Version::Apply *)

ValidateVersion(v) ==
    /\ v.id # 0
    /\ v.next_file_number # 0
    /\ \A t \in v.tables :
          /\ t.generation < v.next_file_number
          /\ t.records # {}
          /\ \A r \in t.records : r.sequence <= v.last_sequence
    /\ \A t, u \in v.tables :
          t # u => /\ t.generation # u.generation
                   /\ (t.level = 1 /\ u.level = 1) => ~RangesMeet(t, u)

\* An edit deletes the tables with numbers in `deleted`, adds `added` and moves
\* the two frontiers; a frontier the edit leaves out is passed unchanged.
Apply(v, deleted, added, next, last) ==
    [id |-> v.id + 1,
     next_file_number |-> next,
     last_sequence |-> last,
     tables |-> {t \in v.tables : t.generation \notin deleted} \cup added]

EditAccepted(v, deleted, added, next, last) ==
    /\ ValidateVersion(v)
    /\ deleted \subseteq Generations(v.tables)
    /\ \A t \in added : t.generation >= v.next_file_number
    /\ next >= v.next_file_number
    /\ last >= v.last_sequence
    /\ ValidateVersion(Apply(v, deleted, added, next, last))

------------------------------------------------------------------------------
(* PrepareCompaction and BuildCompactionOutputs *)

LowestKey(S) == CHOOSE k \in Keys(S) : \A j \in Keys(S) : k <= j

HighestKey(S) == CHOOSE k \in Keys(S) : \A j \in Keys(S) : j <= k

\* Mutant of CompactionInputs: L1 tables are left out.
LevelZeroInputs(v) == Level(v.tables, 0)

\* Mutant of CompactionInputs: only L1 tables with a key of level 0.
InputsByKey(v) ==
    LET zero == Level(v.tables, 0)
    IN  zero \cup {t \in Level(v.tables, 1) :
                      Keys(t.records) \cap Keys(Records(zero)) # {}}

\* Every L0 table, and the L1 tables that meet the range from the lowest to
\* the highest key of level 0.
CompactionInputs(v) ==
    LET zero == Level(v.tables, 0)
        lowest == LowestKey(Records(zero))
        highest == HighestKey(Records(zero))
    IN  zero \cup {t \in Level(v.tables, 1) :
                      /\ HighestKey(t.records) >= lowest
                      /\ LowestKey(t.records) <= highest}

\* BuildCompactionOutputs refuses inputs in which two records of a key have
\* one sequence number.
MergeAccepted(inputs) ==
    \A t, u \in inputs : t # u =>
        \A r \in t.records, q \in u.records :
            r.key = q.key => r.sequence # q.sequence

\* Mutant of Merge: tombstones are dropped before the newest record is chosen.
MergeTombstonesFirst(inputs) == Newest(UserVisible(Records(inputs)))

\* The merge keeps the newest record of a key, and drops it when it is a
\* tombstone (may_drop_tombstones is true at its only call).
Merge(inputs) == UserVisible(Newest(Records(inputs)))

\* AddOutputRecord: in key order, a new output whenever the last one is full;
\* the merge has left one record of a key.
OutputIndex(r, S) ==
    Cardinality({k \in Keys(S) : k < r.key}) \div OutputLimit

CompactionOutputs(inputs, first) ==
    LET merged == Merge(inputs)
    IN  {[generation |-> first + i,
          level |-> 1,
          records |-> {r \in merged : OutputIndex(r, merged) = i}] :
             i \in {OutputIndex(r, merged) : r \in merged}}
==============================================================================
