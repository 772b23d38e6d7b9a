---------------------------- MODULE DatabaseFacts ----------------------------
(***************************************************************************)
(* Facts that the proofs of several invariants rest on: what the operators *)
(* of module Version return, for every instance of it, what the operators  *)
(* of module Database on directories and Versions return, which file       *)
(* numbers are in use, and what Open finds.                                *)
(***************************************************************************)
EXTENDS DatabaseInvariants, TLAPS

------------------------------------------------------------------------------
(* Numbers, sequences and records *)

\* A set of file numbers has a greatest element.
LEMMA Greatest ==
    ASSUME NEW S \in SUBSET (0 .. MaxGeneration), S # {}
    PROVE  \E m \in S : \A k \in S : k <= m
BY Zenon, FiniteOrderAssumption DEF FiniteOrder, HasGreatest

\* MaximumSequence is a sequence number of the set, and bounds all of them.
LEMMA MaximumSequenceOf ==
    ASSUME NEW S \in SUBSET Record
    PROVE  /\ MaximumSequence(S) \in 0 .. MaxSequence
           /\ \A r \in S : r.sequence <= MaximumSequence(S)
           /\ S # {} => \E r \in S : r.sequence = MaximumSequence(S)
<1>1. CASE S = {}
    BY <1>1, VersionAssumption DEF MaximumSequence, VersionAssumption
<1>2. CASE S # {}
    <2>1. MaxSequence \in Nat /\ Sequences(S) \in SUBSET (0 .. MaxSequence) /\ Sequences(S) # {}
        BY <1>2, VersionAssumption DEF Sequences, Record, VersionAssumption
    <2>2. \E m \in Sequences(S) : \A k \in Sequences(S) : k <= m
        BY Zenon, <2>1, FiniteOrderAssumption DEF FiniteOrder, HasGreatest
    <2>3. /\ MaximumSequence(S) \in Sequences(S)
          /\ \A k \in Sequences(S) : k <= MaximumSequence(S)
        BY Zenon, <1>2, <2>2 DEF MaximumSequence
    <2> QED BY Zenon, <2>1, <2>3 DEF Sequences
<1> QED BY Zenon, <1>1, <1>2

\* The newest records of a log are some of its records, and the last record of
\* the log is one of them.
LEMMA NewestOf ==
    ASSUME NEW S \in SUBSET Record
    PROVE  /\ Newest(S) \in SUBSET S
           /\ S # {} => Newest(S) # {}
           /\ \A r \in S : r.sequence <= MaximumSequence(Newest(S))
<1>1. Newest(S) \in SUBSET S
    BY Zenon DEF Newest
<1>2. ASSUME NEW r \in S PROVE \E q \in Newest(S) : r.sequence <= q.sequence
    <2>1. PICK q \in S : q.sequence = MaximumSequence(S)
        BY Zenon, MaximumSequenceOf
    <2>2. \A p \in S : p.sequence <= q.sequence
        BY Zenon, <2>1, MaximumSequenceOf
    <2> QED BY Zenon, <2>2 DEF Newest
<1>3. ASSUME NEW r \in S PROVE r.sequence <= MaximumSequence(Newest(S))
    <2>1. Newest(S) \in SUBSET Record
        BY Zenon, <1>1
    <2>2. PICK q \in Newest(S) : r.sequence <= q.sequence
        BY Zenon, <1>2
    <2>3. q.sequence <= MaximumSequence(Newest(S)) /\ MaximumSequence(Newest(S)) \in Int
        BY <2>1, MaximumSequenceOf
    <2>4. r.sequence \in Int /\ q.sequence \in Int
        BY <2>1 DEF Record
    <2> QED BY <2>2, <2>3, <2>4
<1> QED BY Zenon, <1>1, <1>2, <1>3

------------------------------------------------------------------------------
(* What PrepareCompaction and BuildCompactionOutputs return *)

\* The number of an output is a number.
LEMMA OutputNumber ==
    ASSUME NEW S \in SUBSET Record, NEW r
    PROVE  /\ {k \in Keys(S) : k < r.key} \in SUBSET Key
           /\ OutputIndex(r, S) \in Nat
<1>1. {k \in Keys(S) : k < r.key} \in SUBSET Key
    BY Zenon DEF Keys, Record
<1>2. Cardinality({k \in Keys(S) : k < r.key}) \in Nat
    BY Zenon, <1>1, FiniteOrderAssumption DEF FiniteOrder
<1> QED BY <1>1, <1>2, VersionAssumption DEF OutputIndex, VersionAssumption

\* Compaction outputs are level-1 tables numbered from `first` on.
LEMMA CompactionOutputsType ==
    ASSUME NEW inputs \in SUBSET Table, NEW first \in Nat \ {0},
           \A t \in CompactionOutputs(inputs, first) : t.generation < MaxGeneration
    PROVE  CompactionOutputs(inputs, first) \in SUBSET Table
<1> DEFINE merged == Merge(inputs)
<1>1. merged \in SUBSET Record
    BY Zenon DEF Merge, UserVisible, Newest, Records, Table
<1>2. ASSUME NEW r \in merged PROVE OutputIndex(r, merged) \in Nat
    BY Zenon, <1>1, OutputNumber
<1>3. ASSUME NEW t \in CompactionOutputs(inputs, first) PROVE t \in Table
    <2>1. PICK r \in merged :
              t = [generation |-> first + OutputIndex(r, merged), level |-> 1,
                   records |-> {q \in merged : OutputIndex(q, merged) = OutputIndex(r, merged)}]
        BY Zenon DEF CompactionOutputs
    <2>2. t.generation \in Generation
        BY <1>2, <2>1, VersionAssumption DEF Generation, VersionAssumption
    <2> HIDE DEF merged
    <2> QED BY Zenon, <1>1, <2>1, <2>2 DEF Table
<1> QED BY Zenon, <1>3

\* The lowest and the highest key of a set of records bound its keys.
LEMMA KeyRange ==
    ASSUME NEW S \in SUBSET Record, S # {}
    PROVE  /\ LowestKey(S) \in Keys(S) /\ HighestKey(S) \in Keys(S)
           /\ Keys(S) \in SUBSET Int
           /\ \A r \in S : LowestKey(S) <= r.key /\ r.key <= HighestKey(S)
<1>1. Keys(S) \in SUBSET Key /\ Keys(S) # {}
    BY Zenon DEF Keys, Record
<1>2. Keys(S) \in SUBSET Int
    BY Zenon, <1>1, VersionAssumption
<1>3. \E k \in Keys(S) : \A j \in Keys(S) : k <= j
    BY Zenon, <1>1, FiniteOrderAssumption DEF FiniteOrder, HasLeast
<1>4. \E k \in Keys(S) : \A j \in Keys(S) : j <= k
    BY Zenon, <1>1, FiniteOrderAssumption DEF FiniteOrder, HasGreatest
<1>5. LowestKey(S) \in Keys(S) /\ \A j \in Keys(S) : LowestKey(S) <= j
    BY Zenon, <1>3 DEF LowestKey
<1>6. HighestKey(S) \in Keys(S) /\ \A j \in Keys(S) : j <= HighestKey(S)
    BY Zenon, <1>4 DEF HighestKey
<1>7. \A r \in S : r.key \in Keys(S)
    BY Zenon DEF Keys
<1> QED BY Zenon, <1>2, <1>5, <1>6, <1>7

\* Outputs are numbered in key order: a record with a smaller key is not in a
\* later output.
LEMMA OutputOrder ==
    ASSUME NEW S \in SUBSET Record, NEW r \in S, NEW q \in S, q.key <= r.key
    PROVE  /\ OutputIndex(q, S) \in Nat /\ OutputIndex(r, S) \in Nat
           /\ OutputIndex(q, S) <= OutputIndex(r, S)
<1> DEFINE below(p) == {k \in Keys(S) : k < p.key}
<1>1. below(r) \in SUBSET Key /\ below(q) \in SUBSET Key
    BY Zenon, OutputNumber
<1>2. r.key \in Int /\ q.key \in Int /\ \A k \in Keys(S) : k \in Int
    BY Zenon, VersionAssumption DEF Record, Keys
<1>3. below(q) \subseteq below(r)
    BY <1>2
<1>4. /\ Cardinality(below(q)) \in Nat /\ Cardinality(below(r)) \in Nat
      /\ Cardinality(below(q)) <= Cardinality(below(r))
    <2> HIDE DEF below
    <2> QED BY Zenon, <1>1, <1>3, FiniteOrderAssumption DEF FiniteOrder
<1>5. ASSUME NEW m \in Nat, NEW n \in Nat, m <= n
      PROVE  /\ m \div OutputLimit \in Nat /\ n \div OutputLimit \in Nat
             /\ m \div OutputLimit <= n \div OutputLimit
    <2>1. OutputLimit \in Nat /\ OutputLimit > 0
        BY VersionAssumption
    <2> DEFINE a == m \div OutputLimit
               b == n \div OutputLimit
    <2>2. a \in Int /\ b \in Int
        BY <2>1
    <2> QED BY <1>5, <2>1
<1> QED BY Zenon, <1>4, <1>5 DEF OutputIndex

\* The merge keeps records of its inputs.
LEMMA MergeType ==
    ASSUME NEW inputs \in SUBSET Table
    PROVE  /\ Records(inputs) \in SUBSET Record
           /\ Merge(inputs) \in SUBSET Records(inputs) /\ Merge(inputs) \in SUBSET Record
<1>1. Records(inputs) \in SUBSET Record
    BY Zenon DEF Records, Table
<1>2. Merge(inputs) \in SUBSET Records(inputs)
    BY Zenon DEF Merge, UserVisible, Newest
<1> QED BY Zenon, <1>1, <1>2

\* Compaction outputs: numbered from `first` on, none empty, no two with one
\* number or with keys in each other's range, and together what the merge kept.
LEMMA OutputsOf ==
    ASSUME NEW inputs \in SUBSET Table, NEW first \in Nat
    PROVE  /\ \A t \in CompactionOutputs(inputs, first) :
                 /\ t.generation \in Nat /\ t.generation >= first /\ t.level = 1
                 /\ t.records # {} /\ t.records \in SUBSET Merge(inputs)
           /\ \A t, u \in CompactionOutputs(inputs, first) :
                 t # u => t.generation # u.generation /\ ~RangesMeet(t, u)
           /\ Records(CompactionOutputs(inputs, first)) = Merge(inputs)
<1> DEFINE merged == Merge(inputs)
           part(i) == {q \in merged : OutputIndex(q, merged) = i}
           out(r) == [generation |-> first + OutputIndex(r, merged), level |-> 1,
                      records |-> part(OutputIndex(r, merged))]
           outs == CompactionOutputs(inputs, first)
<1>1. merged \in SUBSET Record
    BY Zenon, MergeType
<1>2. \A r \in merged : r.key \in Int /\ r.key <= r.key
    <2> HIDE DEF merged
    <2>1. \A r \in merged : r.key \in Int
        BY Zenon, <1>1, VersionAssumption DEF Record
    <2> QED BY <2>1
<1>3. \A r \in merged : OutputIndex(r, merged) \in Nat
    <2> HIDE DEF merged
    <2> QED BY Zenon, <1>1, <1>2, OutputOrder
<1>4. \A t \in outs : \E r \in merged : t = out(r)
    BY Zenon DEF CompactionOutputs
<1>5. \A r \in merged : out(r) \in outs
    BY Zenon DEF CompactionOutputs
<1>6. \A r \in merged : r \in out(r).records
    BY Zenon
<1> HIDE DEF merged, outs
<1>7. ASSUME NEW t \in outs
      PROVE  /\ t.generation \in Nat /\ t.generation >= first /\ t.level = 1
             /\ t.records # {} /\ t.records \in SUBSET merged
    <2>1. PICK r \in merged : t = out(r)
        BY Zenon, <1>4
    <2>2. OutputIndex(r, merged) \in Nat
        BY Zenon, <1>3
    <2>3. r \in t.records
        BY Zenon, <1>6, <2>1
    <2> QED BY <2>1, <2>2, <2>3
<1>8. ASSUME NEW t \in outs, NEW u \in outs, t # u
      PROVE  t.generation # u.generation /\ ~RangesMeet(t, u)
    <2>1. PICK r \in merged : t = out(r)
        BY Zenon, <1>4
    <2>2. PICK q \in merged : u = out(q)
        BY Zenon, <1>4
    <2> DEFINE i == OutputIndex(r, merged)
               j == OutputIndex(q, merged)
    <2>3. i \in Nat /\ j \in Nat
        BY Zenon, <1>3
    <2>4. t.records = part(i) /\ u.records = part(j) /\ t.generation = first + i
          /\ u.generation = first + j
        BY Zenon, <2>1, <2>2
    <2>5. i # j
        BY Zenon, <1>8, <2>1, <2>2
    <2>6. t.generation # u.generation
        BY <2>3, <2>4, <2>5
    <2>7. ASSUME NEW x \in part(i), NEW y \in part(j)
          PROVE  (x.key <= y.key => i < j) /\ (y.key <= x.key => j < i)
        <3>1. x \in merged /\ y \in merged /\ OutputIndex(x, merged) = i
              /\ OutputIndex(y, merged) = j
            BY Zenon
        <3>2. x.key <= y.key => i <= j
            BY Zenon, <1>1, <3>1, OutputOrder
        <3>3. y.key <= x.key => j <= i
            BY Zenon, <1>1, <3>1, OutputOrder
        <3> HIDE DEF i, j
        <3> QED BY <2>3, <2>5, <3>2, <3>3
    <2>8. ~RangesMeet(t, u)
        <3>1. \A a \in Keys(t.records) : \E x \in part(i) : a = x.key
            BY Zenon, <2>4 DEF Keys
        <3>2. \A b \in Keys(u.records) : \E y \in part(j) : b = y.key
            BY Zenon, <2>4 DEF Keys
        <3> HIDE DEF i, j, part
        <3>3. ASSUME RangesMeet(t, u) PROVE i < j /\ j < i
            BY Zenon, <2>7, <3>1, <3>2, <3>3 DEF RangesMeet
        <3> QED BY <2>3, <3>3
    <2> QED BY Zenon, <2>6, <2>8
<1>9. Records(outs) = merged
    <2>1. Records(outs) \subseteq merged
        BY Zenon, <1>7 DEF Records
    <2>2. merged \subseteq Records(outs)
        BY Zenon, <1>5, <1>6 DEF Records
    <2> QED BY Zenon, <2>1, <2>2
<1> QED BY Zenon, <1>7, <1>8, <1>9 DEF merged, outs

\* All keys of one set of records are below those of another.
KeysBelow(S, T) == \A r \in S, q \in T : r.key < q.key

\* Two tables whose ranges do not meet are ordered by their keys.
LEMMA RangesApart ==
    ASSUME NEW t \in Table, NEW u \in Table, ~RangesMeet(t, u)
    PROVE  KeysBelow(t.records, u.records) \/ KeysBelow(u.records, t.records)
<1>1. \A r \in t.records \cup u.records : r.key \in Int
    BY Zenon, VersionAssumption DEF Table, Record
<1>2. (\A r \in t.records : r.key \in Keys(t.records)) /\ \A r \in u.records : r.key \in Keys(u.records)
    BY Zenon DEF Keys
<1> QED BY <1>1, <1>2 DEF RangesMeet, KeysBelow

\* Tables ordered by their keys have ranges that do not meet.
LEMMA ApartRanges ==
    ASSUME NEW t \in Table, NEW u \in Table,
           KeysBelow(t.records, u.records) \/ KeysBelow(u.records, t.records)
    PROVE  ~RangesMeet(t, u)
<1>1. \A r \in t.records \cup u.records : r.key \in Int
    BY Zenon, VersionAssumption DEF Table, Record
<1>2. /\ \A a \in Keys(t.records) : \E r \in t.records : a = r.key
      /\ \A a \in Keys(u.records) : \E r \in u.records : a = r.key
    BY Zenon DEF Keys
<1> QED BY <1>1, <1>2 DEF RangesMeet, KeysBelow

\* A compaction takes tables of the Version, every L0 table among them; an L1
\* table that it leaves out has all its keys below those of the inputs, or
\* above them.
LEMMA InputsOf ==
    ASSUME NEW v \in VersionType, ValidateVersion(v), Level(v.tables, 0) # {}
    PROVE  /\ CompactionInputs(v) \in SUBSET v.tables /\ CompactionInputs(v) # {}
           /\ \A u \in v.tables : u.generation \notin Generations(CompactionInputs(v)) =>
                 /\ u.level = 1
                 /\ \/ KeysBelow(u.records, Records(CompactionInputs(v)))
                    \/ KeysBelow(Records(CompactionInputs(v)), u.records)
<1> DEFINE zero == Level(v.tables, 0)
           inputs == CompactionInputs(v)
           lowest == LowestKey(Records(zero))
           highest == HighestKey(Records(zero))
<1>1. v.tables \in SUBSET Table /\ zero \in SUBSET v.tables
    BY Zenon DEF VersionType, Level
<1>2. \A t \in v.tables : t.records \in SUBSET Record /\ t.records # {} /\ t.level \in {0, 1}
    BY Zenon, <1>1 DEF Table, ValidateVersion
<1>3. Records(zero) \in SUBSET Record /\ Records(zero) # {}
    BY <1>1, <1>2 DEF Records
<1>4. inputs = zero \cup {t \in Level(v.tables, 1) :
                             HighestKey(t.records) >= lowest /\ LowestKey(t.records) <= highest}
    BY Zenon DEF CompactionInputs
<1>5. inputs \in SUBSET v.tables /\ inputs # {}
    BY Zenon, <1>4 DEF Level
<1>6. \A r \in Records(zero) : lowest <= r.key /\ r.key <= highest
    BY Zenon, <1>3, KeyRange
<1>7. lowest \in Int /\ highest \in Int
    BY Zenon, <1>3, KeyRange
<1>8. \A r \in Record : r.key \in Int
    BY Zenon, VersionAssumption DEF Record
<1> HIDE DEF zero, lowest, highest, inputs
<1>9. ASSUME NEW u \in v.tables, u.generation \notin Generations(inputs)
      PROVE  /\ u.level = 1
             /\ KeysBelow(u.records, Records(inputs)) \/ KeysBelow(Records(inputs), u.records)
    <2>1. u \notin inputs
        BY Zenon, <1>9 DEF Generations
    <2>2. u.level = 1 /\ u \in Level(v.tables, 1)
        BY Zenon, <1>2, <1>4, <2>1 DEF Level, zero
    <2>3. /\ HighestKey(u.records) \in Int /\ LowestKey(u.records) \in Int
          /\ \A r \in u.records : LowestKey(u.records) <= r.key /\ r.key <= HighestKey(u.records)
        BY Zenon, <1>2, KeyRange
    <2>4. HighestKey(u.records) < lowest \/ LowestKey(u.records) > highest
        BY <1>4, <1>7, <2>1, <2>2, <2>3
    <2>5. ASSUME NEW w \in inputs, w \notin zero
          PROVE  /\ \E r \in w.records : r.key >= lowest
                 /\ \E r \in w.records : r.key <= highest
                 /\ KeysBelow(w.records, u.records) \/ KeysBelow(u.records, w.records)
        <3>1. /\ w \in v.tables /\ w.level = 1 /\ w # u
              /\ HighestKey(w.records) >= lowest /\ LowestKey(w.records) <= highest
            BY Zenon, <1>4, <2>1, <2>5 DEF Level
        <3>2. \A k \in Keys(w.records) : \E r \in w.records : k = r.key
            BY Zenon DEF Keys
        <3>3. HighestKey(w.records) \in Keys(w.records) /\ LowestKey(w.records) \in Keys(w.records)
            BY Zenon, <1>2, <3>1, KeyRange
        <3>4. w \in Table /\ u \in Table /\ ~RangesMeet(w, u)
            BY Zenon, <1>1, <2>2, <3>1 DEF ValidateVersion
        <3> QED BY Zenon, <3>1, <3>2, <3>3, <3>4, RangesApart
    <2>6. \A w \in inputs : w.records \in SUBSET Record
        BY Zenon, <1>2, <1>5
    <2>7. \A w \in zero : w.records \in SUBSET Records(zero)
        BY Zenon DEF Records
    <2>8. CASE HighestKey(u.records) < lowest
        <3>1. \A r \in u.records : r.key \in Int /\ r.key < lowest
            BY <1>2, <1>7, <1>8, <2>3, <2>8
        <3>2. ASSUME NEW w \in inputs PROVE KeysBelow(u.records, w.records)
            <4>1. CASE w \in zero
                <5>1. \A q \in w.records : q.key \in Int /\ lowest <= q.key
                    BY Zenon, <1>6, <1>8, <2>6, <2>7, <4>1
                <5> QED BY <1>7, <3>1, <5>1 DEF KeysBelow
            <4>2. CASE w \notin zero
                <5>1. PICK q \in w.records : q.key >= lowest
                    BY Zenon, <2>5, <4>2
                <5>2. q.key \in Int
                    BY Zenon, <1>8, <2>6
                <5>3. PICK r \in u.records : TRUE
                    BY Zenon, <1>2
                <5>4. ~KeysBelow(w.records, u.records)
                    BY <1>7, <3>1, <5>1, <5>2, <5>3 DEF KeysBelow
                <5> QED BY Zenon, <2>5, <4>2, <5>4
            <4> QED BY Zenon, <4>1, <4>2
        <3>3. KeysBelow(u.records, Records(inputs))
            BY Zenon, <3>2 DEF KeysBelow, Records
        <3> QED BY Zenon, <2>2, <3>3
    <2>9. CASE LowestKey(u.records) > highest
        <3>1. \A r \in u.records : r.key \in Int /\ r.key > highest
            BY <1>2, <1>7, <1>8, <2>3, <2>9
        <3>2. ASSUME NEW w \in inputs PROVE KeysBelow(w.records, u.records)
            <4>1. CASE w \in zero
                <5>1. \A q \in w.records : q.key \in Int /\ q.key <= highest
                    BY Zenon, <1>6, <1>8, <2>6, <2>7, <4>1
                <5> QED BY <1>7, <3>1, <5>1 DEF KeysBelow
            <4>2. CASE w \notin zero
                <5>1. PICK q \in w.records : q.key <= highest
                    BY Zenon, <2>5, <4>2
                <5>2. q.key \in Int
                    BY Zenon, <1>8, <2>6
                <5>3. PICK r \in u.records : TRUE
                    BY Zenon, <1>2
                <5>4. ~KeysBelow(u.records, w.records)
                    BY <1>7, <3>1, <5>1, <5>2, <5>3 DEF KeysBelow
                <5> QED BY Zenon, <2>5, <4>2, <5>4
            <4> QED BY Zenon, <4>1, <4>2
        <3>3. KeysBelow(Records(inputs), u.records)
            BY Zenon, <3>2 DEF KeysBelow, Records
        <3> QED BY Zenon, <2>2, <3>3
    <2> QED BY Zenon, <2>4, <2>8, <2>9
<1> QED BY Zenon, <1>5, <1>9 DEF inputs

------------------------------------------------------------------------------
(* The edits that Version::Apply accepts *)

\* The edit of a flush: one L0 table at the frontier, with records that are newer
\* than those of the Version.
LEMMA FlushEdit ==
    ASSUME NEW v \in VersionType, ValidateVersion(v), NEW t \in Table, NEW next \in Nat,
           t.generation = v.next_file_number, t.level = 0, t.records # {},
           next > v.next_file_number,
           \A r \in t.records : v.last_sequence < r.sequence
    PROVE  EditAccepted(v, {}, {t}, next, MaximumSequence(t.records))
<1> DEFINE last == MaximumSequence(t.records)
           w == Apply(v, {}, {t}, next, last)
<1>1. /\ v.id \in Nat /\ v.next_file_number \in Nat /\ v.last_sequence \in Nat
      /\ v.tables \in SUBSET Table
    BY VersionAssumption DEF VersionType
<1>2. t.records \in SUBSET Record
    BY Zenon DEF Table
<1>3. last \in Nat /\ \A r \in t.records : r.sequence <= last
    BY <1>2, MaximumSequenceOf, VersionAssumption
<1>4. \A r \in Record : r.sequence \in Nat
    BY VersionAssumption DEF Record
<1>5. last >= v.last_sequence
    <2>1. PICK r \in t.records : TRUE
        BY Zenon
    <2>2. r.sequence \in Nat /\ v.last_sequence < r.sequence /\ r.sequence <= last
        BY Zenon, <1>2, <1>3, <1>4, <2>1
    <2> QED BY <1>1, <1>3, <2>2
<1>6. \A u \in v.tables : /\ u.generation \in Nat /\ u.generation < v.next_file_number
                          /\ u.records # {} /\ u.records \in SUBSET Record
                          /\ \A r \in u.records : r.sequence <= v.last_sequence
    BY <1>1, VersionAssumption DEF ValidateVersion, Table, Generation
<1>7. /\ w.id = v.id + 1 /\ w.next_file_number = next /\ w.last_sequence = last
      /\ w.tables = v.tables \cup {t}
    BY Zenon DEF Apply
<1> HIDE DEF w, last
<1>8. w.id # 0 /\ w.next_file_number # 0
    BY <1>1, <1>7
<1>9. ASSUME NEW u \in w.tables
      PROVE  /\ u.generation < w.next_file_number /\ u.records # {}
             /\ \A r \in u.records : r.sequence <= w.last_sequence
    <2>1. CASE u = t
        BY Zenon, <1>3, <1>7, <2>1
    <2>2. CASE u \in v.tables
        <3>1. \A r \in u.records : r.sequence \in Nat /\ r.sequence <= v.last_sequence
            BY Zenon, <1>4, <1>6, <2>2
        <3>2. \A r \in u.records : r.sequence <= w.last_sequence
            BY <1>1, <1>3, <1>5, <1>7, <3>1
        <3> QED BY <1>1, <1>6, <1>7, <2>2, <3>2
    <2> QED BY Zenon, <1>7, <2>1, <2>2
<1>10. ASSUME NEW x \in w.tables, NEW y \in w.tables, x # y
       PROVE  /\ x.generation # y.generation
              /\ (x.level = 1 /\ y.level = 1) => ~RangesMeet(x, y)
    <2>1. CASE x \in v.tables /\ y \in v.tables
        BY Zenon, <1>10, <2>1 DEF ValidateVersion
    <2>2. CASE x = t \/ y = t
        BY <1>1, <1>6, <1>7, <1>10, <2>2
    <2> QED BY Zenon, <1>7, <2>1, <2>2
<1>11. ValidateVersion(w)
    BY Zenon, <1>8, <1>9, <1>10 DEF ValidateVersion
<1> QED BY <1>1, <1>5, <1>11 DEF EditAccepted, w, last

\* The edit of a compaction, whatever number `next` behind the outputs it moves
\* the file-number frontier to.
LEMMA CompactionEdit ==
    ASSUME NEW v \in VersionType, ValidateVersion(v), Level(v.tables, 0) # {}, NEW next \in Nat,
           next >= v.next_file_number,
           CompactionOutputs(CompactionInputs(v), v.next_file_number) \in SUBSET Table,
           \A t \in CompactionOutputs(CompactionInputs(v), v.next_file_number) :
              t.generation < next
    PROVE  EditAccepted(v, Generations(CompactionInputs(v)),
                        CompactionOutputs(CompactionInputs(v), v.next_file_number), next,
                        v.last_sequence)
<1> DEFINE inputs == CompactionInputs(v)
           outs == CompactionOutputs(inputs, v.next_file_number)
           w == Apply(v, Generations(inputs), outs, next, v.last_sequence)
<1>1. /\ v.id \in Nat /\ v.next_file_number \in Nat /\ v.last_sequence \in Nat
      /\ v.tables \in SUBSET Table /\ v.next_file_number # 0
    BY VersionAssumption DEF VersionType, ValidateVersion
<1>2. /\ inputs \in SUBSET v.tables /\ inputs \in SUBSET Table
      /\ \A u \in v.tables : u.generation \notin Generations(inputs) =>
            KeysBelow(u.records, Records(inputs)) \/ KeysBelow(Records(inputs), u.records)
    BY Zenon, <1>1, InputsOf
<1>3. /\ \A t \in outs : /\ t.generation \in Nat /\ t.generation >= v.next_file_number
                         /\ t.records # {} /\ t.records \in SUBSET Merge(inputs)
      /\ \A t, u \in outs : t # u => t.generation # u.generation /\ ~RangesMeet(t, u)
    BY SMTT(30), <1>1, <1>2, OutputsOf
<1>4. Merge(inputs) \in SUBSET Records(inputs)
    BY Zenon, <1>2, MergeType
<1>5. \A u \in v.tables : /\ u.generation \in Nat /\ u.generation < v.next_file_number
                          /\ u.records # {}
                          /\ \A r \in u.records : r.sequence <= v.last_sequence
    BY <1>1, VersionAssumption DEF ValidateVersion, Table, Generation
<1>6. \A r \in Records(inputs) : r.sequence <= v.last_sequence
    BY Zenon, <1>2, <1>5 DEF Records
<1>7. /\ w.id = v.id + 1 /\ w.next_file_number = next /\ w.last_sequence = v.last_sequence
      /\ w.tables = {t \in v.tables : t.generation \notin Generations(inputs)} \cup outs
    BY Zenon DEF Apply
<1>8. outs \in SUBSET Table /\ \A t \in outs : t.generation < next
    BY Zenon
<1>9. Generations(inputs) \subseteq Generations(v.tables)
    BY Zenon, <1>2 DEF Generations
<1> HIDE DEF w, outs, inputs
<1>10. w.id # 0 /\ w.next_file_number # 0
    BY <1>1, <1>7
<1>11. ASSUME NEW u \in w.tables
       PROVE  /\ u.generation < w.next_file_number /\ u.records # {}
              /\ \A r \in u.records : r.sequence <= w.last_sequence
    <2>1. CASE u \in outs
        BY Zenon, <1>3, <1>4, <1>6, <1>7, <1>8, <2>1
    <2>2. CASE u \in v.tables
        BY <1>1, <1>5, <1>7, <2>2
    <2> QED BY Zenon, <1>7, <2>1, <2>2
<1>12. ASSUME NEW x \in outs, NEW y \in v.tables, y.generation \notin Generations(inputs)
       PROVE  x.generation # y.generation /\ ~RangesMeet(x, y) /\ ~RangesMeet(y, x)
    <2>1. KeysBelow(y.records, x.records) \/ KeysBelow(x.records, y.records)
        BY Zenon, <1>2, <1>3, <1>4, <1>12 DEF KeysBelow
    <2>2. x \in Table /\ y \in Table
        BY Zenon, <1>1, <1>8
    <2> QED BY <1>1, <1>3, <1>5, <2>1, <2>2, ApartRanges
<1>13. ASSUME NEW x \in w.tables, NEW y \in w.tables, x # y
       PROVE  /\ x.generation # y.generation
              /\ (x.level = 1 /\ y.level = 1) => ~RangesMeet(x, y)
    <2>1. CASE x \in v.tables /\ y \in v.tables
        BY Zenon, <1>13, <2>1 DEF ValidateVersion
    <2>2. CASE x \in outs /\ y \in outs
        BY Zenon, <1>3, <1>13, <2>2
    <2>3. CASE x \in outs /\ y \notin outs
        BY Zenon, <1>7, <1>12, <2>3
    <2>4. CASE y \in outs /\ x \notin outs
        BY Zenon, <1>7, <1>12, <2>4
    <2> QED BY Zenon, <1>7, <2>1, <2>2, <2>3, <2>4
<1>14. ValidateVersion(w)
    BY Zenon, <1>10, <1>11, <1>13 DEF ValidateVersion
<1>15. \A t \in outs : t.generation >= v.next_file_number
    BY Zenon, <1>3
<1>16. v.last_sequence >= v.last_sequence
    BY <1>1
<1> QED BY Zenon, <1>9, <1>14, <1>15, <1>16 DEF EditAccepted, w, outs, inputs

------------------------------------------------------------------------------
(* What the operators on directories and Versions return *)

\* Renaming, creating and unlinking a file changes one entry of the directory.
LEMMA DirectoryOps ==
    ASSUME NEW d \in Directory
    PROVE  /\ d.manifest \in VersionType /\ d.wals \in SUBSET Generation
           /\ d.sst \in [Generation -> SUBSET Record]
           /\ \A t \in Table :
                 /\ WithTable(d, t) \in Directory
                 /\ WithTable(d, t).manifest = d.manifest /\ WithTable(d, t).wals = d.wals
           /\ \A v \in VersionType :
                 /\ WithManifest(d, v) \in Directory
                 /\ WithManifest(d, v).manifest = v /\ WithManifest(d, v).wals = d.wals
           /\ \A g \in Generation :
                 /\ WithoutTable(d, g) \in Directory
                 /\ WithoutTable(d, g).manifest = d.manifest /\ WithoutTable(d, g).wals = d.wals
           /\ \A g \in Generation :
                 /\ WithWal(d, g) \in Directory
                 /\ WithWal(d, g).manifest = d.manifest
                 /\ WithWal(d, g).wals = d.wals \cup {g}
           /\ \A g :
                 /\ WithoutWal(d, g) \in Directory
                 /\ WithoutWal(d, g).manifest = d.manifest
                 /\ WithoutWal(d, g).wals = d.wals \ {g}
<1>1. d.manifest \in VersionType /\ d.wals \in SUBSET Generation
      /\ d.sst \in [Generation -> SUBSET Record]
    BY Zenon DEF Directory
<1>2. \A t \in Table : /\ WithTable(d, t) \in Directory
                       /\ WithTable(d, t).manifest = d.manifest /\ WithTable(d, t).wals = d.wals
    BY Zenon DEF Directory, WithTable, Table
<1>3. \A v \in VersionType :
          /\ WithManifest(d, v) \in Directory
          /\ WithManifest(d, v).manifest = v /\ WithManifest(d, v).wals = d.wals
    BY Zenon DEF Directory, WithManifest
<1>4. \A g \in Generation :
          /\ WithoutTable(d, g) \in Directory
          /\ WithoutTable(d, g).manifest = d.manifest /\ WithoutTable(d, g).wals = d.wals
    BY Zenon DEF Directory, WithoutTable
<1>5. \A g \in Generation :
          /\ WithWal(d, g) \in Directory
          /\ WithWal(d, g).manifest = d.manifest /\ WithWal(d, g).wals = d.wals \cup {g}
    BY Zenon DEF Directory, WithWal
<1>6. \A g : /\ WithoutWal(d, g) \in Directory
             /\ WithoutWal(d, g).manifest = d.manifest /\ WithoutWal(d, g).wals = d.wals \ {g}
    BY Zenon DEF Directory, WithoutWal
<1> QED BY Zenon, <1>1, <1>2, <1>3, <1>4, <1>5, <1>6

\* The Versions the code builds are Versions.
LEMMA VersionOps ==
    /\ NoVersion \in VersionType /\ NewDatabase \in VersionType
    /\ NewDatabase.next_file_number = 1 /\ NoVersion.next_file_number = 0
    /\ \A v \in VersionType :
          /\ v.next_file_number \in 0 .. MaxGeneration /\ v.last_sequence \in 0 .. MaxSequence
          /\ v.tables \in SUBSET Table /\ v.id \in Nat
    /\ \A v \in VersionType, added \in SUBSET Table, next \in 0 .. MaxGeneration,
          last \in 0 .. MaxSequence :
          \A dead : Apply(v, dead, added, next, last) \in VersionType
<1>1. NoVersion \in VersionType /\ NewDatabase \in VersionType
      /\ NewDatabase.next_file_number = 1 /\ NoVersion.next_file_number = 0
    BY VersionAssumption DEF NoVersion, NewDatabase, VersionType, VersionAssumption
<1>2. \A v \in VersionType :
          /\ v.next_file_number \in 0 .. MaxGeneration /\ v.last_sequence \in 0 .. MaxSequence
          /\ v.tables \in SUBSET Table /\ v.id \in Nat
    BY Zenon DEF VersionType
<1>3. \A v \in VersionType, added \in SUBSET Table, next \in 0 .. MaxGeneration,
          last \in 0 .. MaxSequence :
          \A dead : Apply(v, dead, added, next, last) \in VersionType
    BY DEF VersionType, Apply
<1> QED BY Zenon, <1>1, <1>2, <1>3

\* The constant values memory starts from have their types.
LEMMA EmptyValues ==
    /\ NoImmutable \in ImmutableGeneration /\ NoCompaction \in CompactionState
    /\ NoArgument \in Argument /\ EmptyWal \in [records : SUBSET Record, synced : 0 .. MaxSequence]
    /\ MaxGeneration \in Nat \ {0} /\ MaxSequence \in Nat \ {0}
    /\ MaxCrashes \in Nat /\ MaxFailures \in Nat
<1>1. NoImmutable \in ImmutableGeneration
    BY VersionAssumption DEF ImmutableGeneration, NoImmutable, VersionAssumption
<1>2. NoCompaction \in CompactionState
    BY Zenon, VersionAssumption, VersionOps DEF CompactionState, NoCompaction, VersionAssumption
<1>3. NoArgument \in Argument
    BY VersionAssumption DEF Argument, NoArgument, VersionAssumption
<1>4. EmptyWal \in [records : SUBSET Record, synced : 0 .. MaxSequence]
    BY VersionAssumption DEF EmptyWal, VersionAssumption
<1> QED BY Zenon, <1>1, <1>2, <1>3, <1>4, VersionAssumption, DatabaseAssumption
        DEF VersionAssumption, DatabaseAssumption

\* An Immutable generation whose maintenance has not begun.
LEMMA ImmutableOf ==
    ASSUME NEW g \in Generation, NEW S \in SUBSET Record
    PROVE  LET im == [NoImmutable EXCEPT !.generation = g, !.records = S]
           IN  /\ im \in ImmutableGeneration /\ im.generation = g /\ im.records = S
               /\ ~im.pending_table /\ ~im.version_published /\ ~im.wal_removed_and_synced
<1>1. g \in 0 .. MaxGeneration
    BY DEF Generation
<1> QED BY Zenon, <1>1 DEF NoImmutable, ImmutableGeneration

\* The directory Open finds and the directories it makes of it.
LEMMA OpenFacts ==
    ASSUME dir \in Directory, OpenAccepts(dir, log)
    PROVE  LET d == Founded(dir)
               next == d.manifest.next_file_number
           IN  /\ d \in Directory /\ d.wals = dir.wals
               /\ next \in Generation
               /\ ActiveGeneration(d) \in Generation
               /\ \A dead, wals : /\ Cleaned(d, dead, wals) \in Directory
                                  /\ Cleaned(d, dead, wals).manifest = d.manifest
                                  /\ Cleaned(d, dead, wals).wals = d.wals \ wals
               /\ Opened(d) \in Directory
               /\ Opened(d).manifest = d.manifest
               /\ Opened(d).wals = (d.wals \ ObsoleteWals(d)) \cup {ActiveGeneration(d)}
<1> DEFINE d == Founded(dir)
           next == d.manifest.next_file_number
<1>1. d \in Directory /\ d.wals = dir.wals
    BY Zenon, DirectoryOps, VersionOps DEF Founded
<1>2. next \in Generation
    <2>1. CASE dir.manifest = NoVersion
        <3>1. d.manifest = NewDatabase
            BY <2>1, DirectoryOps, VersionOps DEF Founded
        <3> QED BY <3>1, VersionOps, EmptyValues DEF Generation
    <2>2. CASE dir.manifest # NoVersion
        <3>1. d = dir /\ d.manifest \in VersionType
            BY Zenon, <2>2, DirectoryOps DEF Founded
        <3>2. next # 0
            BY Zenon, <2>2, <3>1 DEF OpenAccepts, ValidateVersion
        <3> HIDE DEF d
        <3> QED BY <3>1, <3>2, VersionOps, EmptyValues DEF Generation
    <2> QED BY Zenon, <2>1, <2>2
<1>3. ActiveGeneration(d) \in Generation
    BY Zenon, <1>1, <1>2, DirectoryOps DEF ActiveGeneration, Unmatched
<1>4. ASSUME NEW dead, NEW wals
      PROVE  /\ Cleaned(d, dead, wals) \in Directory
             /\ Cleaned(d, dead, wals).manifest = d.manifest
             /\ Cleaned(d, dead, wals).wals = d.wals \ wals
    <2> HIDE DEF d
    <2> QED BY Zenon, <1>1 DEF Cleaned, Directory
<1>5. /\ Opened(d) \in Directory
      /\ Opened(d).manifest = d.manifest
      /\ Opened(d).wals = (d.wals \ ObsoleteWals(d)) \cup {ActiveGeneration(d)}
    <2> DEFINE c == Cleaned(d, OrphanTables(d), ObsoleteWals(d))
    <2>1. c \in Directory /\ c.manifest = d.manifest /\ c.wals = d.wals \ ObsoleteWals(d)
        BY Zenon, <1>4
    <2>2. Opened(d) = WithWal(c, ActiveGeneration(d))
        BY Zenon DEF Opened
    <2> HIDE DEF c, d
    <2>3. ASSUME NEW g \in Generation
          PROVE  /\ WithWal(c, g) \in Directory /\ WithWal(c, g).manifest = c.manifest
                 /\ WithWal(c, g).wals = c.wals \cup {g}
        BY <2>1, DirectoryOps
    <2> QED BY Zenon, <1>3, <2>1, <2>2, <2>3
<1> QED BY Zenon, <1>1, <1>2, <1>3, <1>4, <1>5

\* Renaming outputs into place changes only tables.
LEMMA RenamedBelowFacts ==
    ASSUME TypeDisk, TypeMemory, NEW n
    PROVE  /\ RenamedBelow(n) \in Directory
           /\ RenamedBelow(n).manifest = dir.manifest /\ RenamedBelow(n).wals = dir.wals
<1> DEFINE renamed(g) == {t \in compaction.outputs : t.generation = g /\ g < n}
           sst == [g \in Generation |-> IF renamed(g) = {} THEN dir.sst[g] ELSE Records(renamed(g))]
<1>1. compaction.outputs \in SUBSET Table
    BY Zenon DEF TypeMemory, CompactionState
<1>2. dir \in Directory /\ dir.sst \in [Generation -> SUBSET Record]
    BY Zenon, DirectoryOps DEF TypeDisk
<1>3. sst \in [Generation -> SUBSET Record]
    BY <1>1, <1>2 DEF Records, Table
<1>4. RenamedBelow(n) = [dir EXCEPT !.sst = sst]
    BY Zenon DEF RenamedBelow
<1> HIDE DEF sst
<1> QED BY Zenon, <1>2, <1>3, <1>4 DEF Directory

\* The table, and the Version, of a flush.
LEMMA FlushFacts ==
    ASSUME TypeInv, HasImmutable
    PROVE  /\ ImmutableTable \in Table
           /\ FlushCandidate \in VersionType
           /\ FlushCandidate.next_file_number = mutable_generation
           /\ FlushCandidate.last_sequence = MaximumSequence(immutable.records)
<1>1. immutable.records \in SUBSET Record /\ immutable.generation \in Generation
    BY EmptyValues DEF TypeInv, TypeOK, TypeMemory, ImmutableGeneration, NumbersOK, Generation
<1>2. ImmutableTable \in Table
    BY Zenon, <1>1 DEF ImmutableTable, Table
<1>3. MaximumSequence(immutable.records) \in 0 .. MaxSequence
    BY Zenon, <1>1, MaximumSequenceOf
<1>4. FlushCandidate \in VersionType
    BY Zenon, <1>2, <1>3, VersionOps DEF FlushCandidate, TypeInv, TypeOK, TypeMemory
<1>5. /\ FlushCandidate.next_file_number = mutable_generation
      /\ FlushCandidate.last_sequence = MaximumSequence(immutable.records)
    BY Zenon DEF FlushCandidate, Apply
<1> QED BY Zenon, <1>2, <1>4, <1>5

\* The Version of a compaction.
LEMMA CandidateFacts ==
    ASSUME TypeInv, HasCompaction
    PROVE  /\ NumberBehindOutputs \in 1 .. MaxGeneration
           /\ CompactionCandidate \in VersionType
           /\ CompactionCandidate.next_file_number # 0
           /\ compaction.outputs # {} =>
                 \A t \in compaction.outputs : t.generation < NumberBehindOutputs
<1>1. state # "down"
    BY DEF TypeInv, DownIsEmpty, HasCompaction, NoCompaction
<1>2. /\ compaction.outputs \in SUBSET Table /\ compaction.candidate \in VersionType
      /\ version \in VersionType
    BY Zenon DEF TypeInv, TypeOK, TypeMemory, CompactionState
<1>3. /\ NumberBehindOutputs \in 1 .. MaxGeneration
      /\ compaction.outputs # {} =>
            \A t \in compaction.outputs : t.generation < NumberBehindOutputs
    <2>1. CASE compaction.outputs = {}
        BY <1>1, <1>2, <2>1, VersionOps DEF NumberBehindOutputs, TypeInv, NumbersOK
    <2>2. CASE compaction.outputs # {}
        <3> DEFINE G == Generations(compaction.outputs)
        <3>1. G \in SUBSET (0 .. MaxGeneration) /\ G # {} /\ MaxGeneration \in Nat
            BY <1>2, <2>2, EmptyValues DEF Generations, Table, Generation
        <3>2. \E m \in G : \A k \in G : k <= m
            BY Zenon, <3>1, Greatest
        <3>3. PICK m \in G : NumberBehindOutputs = 1 + m /\ \A k \in G : k <= m
            BY Zenon, <2>2, <3>2 DEF NumberBehindOutputs
        <3>4. m < MaxGeneration
            BY Zenon DEF Generations, TypeInv, NumbersOK
        <3>5. \A t \in compaction.outputs : t.generation \in G
            BY Zenon DEF Generations
        <3> QED BY <3>1, <3>3, <3>4, <3>5
    <2> QED BY Zenon, <2>1, <2>2
<1>4. CompactionCandidate \in VersionType /\ CompactionCandidate.next_file_number # 0
    <2>1. CASE compaction.candidate # NoVersion
        BY Zenon, <1>2, <2>1 DEF CompactionCandidate, TypeInv, NumbersOK
    <2>2. CASE compaction.candidate = NoVersion
        <3>1. CompactionCandidate = Apply(version, compaction.inputs, compaction.outputs,
                                          NumberBehindOutputs, version.last_sequence)
            BY Zenon, <2>2 DEF CompactionCandidate
        <3>2. version.last_sequence \in 0 .. MaxSequence /\ NumberBehindOutputs \in 0 .. MaxGeneration
            BY <1>2, <1>3, VersionOps
        <3>3. CompactionCandidate \in VersionType
            BY Zenon, <1>2, <3>1, <3>2, VersionOps
        <3>4. CompactionCandidate.next_file_number = NumberBehindOutputs
            BY Zenon, <3>1 DEF Apply
        <3> QED BY <1>3, <3>3, <3>4
    <2> QED BY Zenon, <2>1, <2>2
<1> QED BY Zenon, <1>3, <1>4

\* A call that is running belongs to a process that is there.
LEMMA CallMeansUp == TypeInv /\ pc # "idle" => state # "down" /\ op # "none"
BY Zenon DEF TypeInv, DownIsEmpty, CallOK

\* The Immutable made of the Mutable.
LEMMA FrozenFacts ==
    ASSUME TypeInv, CanFreeze, state # "down"
    PROVE  /\ FrozenMutable \in ImmutableGeneration
           /\ FrozenMutable.generation = mutable_generation /\ FrozenMutable.records = mutable
           /\ ~FrozenMutable.pending_table /\ ~FrozenMutable.version_published
           /\ ~FrozenMutable.wal_removed_and_synced
           /\ mutable # {} /\ mutable_generation # 0
           /\ mutable_generation \in Generation /\ mutable_generation + 1 \in Generation
<1>1. /\ mutable_generation \in 0 .. MaxGeneration /\ mutable \in SUBSET Record
      /\ mutable_generation # 0
    BY Zenon DEF TypeInv, TypeOK, TypeMemory, NumbersOK
<1>2. mutable # {} /\ mutable_generation < MaxGeneration
    BY Zenon DEF CanFreeze
<1>3. /\ FrozenMutable \in ImmutableGeneration
      /\ FrozenMutable.generation = mutable_generation /\ FrozenMutable.records = mutable
      /\ ~FrozenMutable.pending_table /\ ~FrozenMutable.version_published
      /\ ~FrozenMutable.wal_removed_and_synced
    BY Zenon, <1>1, EmptyValues DEF FrozenMutable, NoImmutable, ImmutableGeneration
<1> QED BY <1>1, <1>2, <1>3, EmptyValues DEF Generation

\* The record of the write in flight.
LEMMA NewRecordType ==
    ASSUME TypeInv, pc = "append"
    PROVE  /\ NewRecord \in Record /\ NewRecord.sequence = last_sequence + 1
           /\ last_sequence + 1 \in 1 .. MaxSequence /\ mutable_generation \in Generation
           /\ Insert(mutable, NewRecord) \in SUBSET Record /\ Insert(mutable, NewRecord) # {}
<1> USE DEF TypeInv, TypeOK
<1>1. last_sequence + 1 \in 1 .. MaxSequence
    BY EmptyValues DEF CallOK, TypeMemory
<1>2. arg.key \in Key /\ arg.deleted \in BOOLEAN
    BY Zenon DEF CallOK, TypeCall, Argument
<1>3. NewRecord \in Record /\ NewRecord.sequence = last_sequence + 1
    BY Zenon, <1>1, <1>2 DEF NewRecord, Record
<1>4. mutable_generation \in Generation
    BY CallMeansUp, EmptyValues DEF NumbersOK, TypeMemory, Generation
<1>5. Insert(mutable, NewRecord) \in SUBSET Record /\ Insert(mutable, NewRecord) # {}
    BY Zenon, <1>3 DEF Insert, TypeMemory
<1> QED BY Zenon, <1>1, <1>3, <1>4, <1>5

\* The WAL of a running process has a valid number.
LEMMA MutableGeneration ==
    TypeInv /\ state # "down" => mutable_generation \in Generation /\ mutable_generation # 0
BY DEF TypeInv, TypeOK, TypeMemory, NumbersOK, Generation

\* The log is a log.
LEMMA LogType == TypeInv => log \in Log
BY Zenon DEF TypeInv, TypeOK, TypeDisk

USE DEF diskVars, memoryVars, allButImmutable, allButCompaction, workerVars, callVars,
        historyVars, boundVars

------------------------------------------------------------------------------
(* File numbers in use *)

\* The types the proofs below need again and again.
LEMMA Numbers ==
    ASSUME TypeInv
    PROVE  /\ version.next_file_number \in 0 .. MaxGeneration
           /\ version.last_sequence \in 0 .. MaxSequence
           /\ mutable_generation \in 0 .. MaxGeneration
           /\ immutable.generation \in 0 .. MaxGeneration
           /\ compaction.stale_wal \in 0 .. MaxGeneration
           /\ last_sequence \in 0 .. MaxSequence
           /\ immutable.records \in SUBSET Record /\ mutable \in SUBSET Record
           /\ MaximumSequence(immutable.records) \in 0 .. MaxSequence
           /\ compaction.candidate.next_file_number \in 0 .. MaxGeneration
           /\ compaction.candidate.last_sequence \in 0 .. MaxSequence
           /\ Strict \in SUBSET Record
           /\ \A r \in Record : r.sequence \in 1 .. MaxSequence
           /\ \A d \in past \cup {dir} :
                 /\ d \in Directory /\ d.wals \in SUBSET Generation
                 /\ d.manifest.next_file_number \in 0 .. MaxGeneration
                 /\ d.manifest.last_sequence \in 0 .. MaxSequence
           /\ \A g \in Generation : /\ log[g].synced \in 0 .. MaxSequence
                                    /\ log[g].records \in SUBSET Record
<1> USE DEF TypeInv, TypeOK
<1>1. /\ version \in VersionType /\ compaction \in CompactionState
      /\ immutable \in ImmutableGeneration /\ mutable \in SUBSET Record
      /\ mutable_generation \in 0 .. MaxGeneration /\ last_sequence \in 0 .. MaxSequence
    BY Zenon DEF TypeMemory
<1>2. /\ compaction.stale_wal \in 0 .. MaxGeneration /\ compaction.candidate \in VersionType
      /\ immutable.generation \in 0 .. MaxGeneration /\ immutable.records \in SUBSET Record
    BY Zenon, <1>1 DEF CompactionState, ImmutableGeneration
<1>3. \A d \in past \cup {dir} : d \in Directory
    BY Zenon DEF TypeDisk
<1>4. \A d \in past \cup {dir} : /\ d \in Directory /\ d.wals \in SUBSET Generation
                                 /\ d.manifest.next_file_number \in 0 .. MaxGeneration
                                 /\ d.manifest.last_sequence \in 0 .. MaxSequence
    BY Zenon, <1>3, DirectoryOps, VersionOps
<1>5. Strict \in SUBSET Record
    <2>1. acked \in SUBSET Record
        BY Zenon DEF TypeHistory
    <2>2. InFlight \in SUBSET Record
        <3>1. ASSUME op = "put", arg.sequence # 0
              PROVE  [sequence |-> arg.sequence, key |-> arg.key, deleted |-> arg.deleted] \in Record
            BY <3>1, EmptyValues DEF CallOK, TypeCall, Argument, Record
        <3> QED BY Zenon, <3>1 DEF InFlight
    <2> QED BY Zenon, <2>1, <2>2 DEF Strict
<1>6. \A g \in Generation : log[g].synced \in 0 .. MaxSequence /\ log[g].records \in SUBSET Record
    BY Zenon DEF TypeDisk, Log
<1>7. MaximumSequence(immutable.records) \in 0 .. MaxSequence
    BY Zenon, <1>2, MaximumSequenceOf
<1>8. \A r \in Record : r.sequence \in 1 .. MaxSequence
    BY Zenon DEF Record
<1>9. \A v \in VersionType : /\ v.next_file_number \in 0 .. MaxGeneration
                             /\ v.last_sequence \in 0 .. MaxSequence
    BY Zenon, VersionOps
<1> QED BY Zenon, <1>1, <1>2, <1>4, <1>5, <1>6, <1>7, <1>8, <1>9

\* The file numbers in memory are natural numbers, and an Immutable that is not
\* published has the number of a WAL.
LEMMA FileNumbers ==
    ASSUME TypeInv
    PROVE  /\ version.next_file_number \in Nat /\ mutable_generation \in Nat
           /\ immutable.generation \in Nat
           /\ Unpublished => immutable.generation \in Generation
<1>1. /\ version.next_file_number \in 0 .. MaxGeneration
      /\ mutable_generation \in 0 .. MaxGeneration
      /\ immutable.generation \in 0 .. MaxGeneration
    BY Zenon, Numbers
<1>2. Unpublished => immutable.generation # 0
    BY Zenon DEF Unpublished, TypeInv, NumbersOK
<1> QED BY <1>1, <1>2, VersionAssumption DEF Generation

\* The names in a directory that may be on the disk are numbers.
LEMMA DirectoryNumbers ==
    ASSUME TypeInv, NEW d \in past \cup {dir}
    PROVE  /\ d.manifest.next_file_number \in Nat /\ d.manifest.last_sequence \in Nat
           /\ d.wals \subseteq Nat
<1>1. /\ d.wals \in SUBSET Generation
      /\ d.manifest.next_file_number \in 0 .. MaxGeneration
      /\ d.manifest.last_sequence \in 0 .. MaxSequence
    BY Zenon, Numbers
<1> QED BY <1>1, VersionAssumption DEF Generation

\* The Version a compaction publishes leaves the sequence frontier, and moves the
\* file-number frontier behind its outputs if there are any.
LEMMA CandidateFrontiers ==
    ASSUME TypeInv, RunningInv, HasCompaction, ~compaction.version_published,
           compaction.candidate # NoVersion \/ CompactionEditAccepted
    PROVE  LET c == CompactionCandidate
           IN  /\ c.last_sequence = version.last_sequence
               /\ compaction.outputs = {} => c.next_file_number = version.next_file_number
               /\ compaction.outputs # {} => c.next_file_number > version.next_file_number
               /\ c.next_file_number >= version.next_file_number /\ c.next_file_number \in Nat
               /\ c.next_file_number # 0 /\ c # NoVersion
               /\ compaction.candidate # NoVersion => c = compaction.candidate
<1> DEFINE c == CompactionCandidate
<1>1. c.next_file_number \in Nat /\ c.next_file_number # 0 /\ c # NoVersion
    <2>1. c \in VersionType /\ c.next_file_number # 0
        BY Zenon, CandidateFacts
    <2> QED BY <2>1, VersionOps
<1>2. CASE compaction.candidate # NoVersion
    <2>1. c = compaction.candidate /\ Pending
        BY Zenon, <1>2 DEF CompactionCandidate, Pending
    <2>2. version.next_file_number \in Nat
        BY Zenon, FileNumbers
    <2>3. CandidateOK
        BY Zenon DEF RunningInv
    <2> QED BY <1>1, <2>1, <2>2, <2>3 DEF CandidateOK
<1>3. CASE compaction.candidate = NoVersion
    <2>1. c.last_sequence = version.last_sequence /\ c.next_file_number = NumberBehindOutputs
        BY Zenon, <1>3 DEF CompactionCandidate, Apply
    <2>2. compaction.outputs = {} => NumberBehindOutputs = version.next_file_number
        BY Zenon DEF NumberBehindOutputs
    <2>3. ASSUME compaction.outputs # {} PROVE NumberBehindOutputs > version.next_file_number
        <3>1. PICK t \in compaction.outputs : TRUE
            BY Zenon, <2>3
        <3>2. t.generation >= version.next_file_number
            BY Zenon, <1>3 DEF CompactionEditAccepted, EditAccepted
        <3>3. t.generation < NumberBehindOutputs /\ NumberBehindOutputs \in Nat
            BY CandidateFacts
        <3>4. t.generation \in Nat
            BY EmptyValues DEF TypeInv, TypeOK, TypeMemory, CompactionState, Table, Generation
        <3> QED BY <3>2, <3>3, <3>4, Numbers
    <2> QED BY <1>1, <1>3, <2>1, <2>2, <2>3, Numbers
<1> QED BY Zenon, <1>2, <1>3

------------------------------------------------------------------------------
(* What Open finds, and which steps run *)

\* The directory that Open accepts: at most two WALs are ahead of the frontier,
\* and Open goes on with the later one; a new database has none, and then no
\* strict write was ever acknowledged.
LEMMA Accepted ==
    ASSUME TypeInv, RunningInv, StrictDurable, OpenAccepts(dir, log)
    PROVE  LET d == Founded(dir)
               next == d.manifest.next_file_number
               active == ActiveGeneration(d)
           IN  /\ next \in Generation /\ active \in Generation
               /\ dir.manifest # NoVersion => d = dir
               /\ dir.manifest = NoVersion =>
                     /\ d = WithManifest(dir, NewDatabase) /\ Strict = {}
                     /\ \A e \in past \cup {dir} : e.wals = {}
               /\ Unmatched(d) \subseteq {next, next + 1}
               /\ next + 1 \in Unmatched(d) => active = next + 1 /\ next \in Unmatched(d)
               /\ next + 1 \notin Unmatched(d) => active = next
<1> DEFINE d == Founded(dir)
           next == d.manifest.next_file_number
           active == ActiveGeneration(d)
<1>1. next \in Generation /\ active \in Generation
    BY Zenon, OpenFacts DEF TypeInv, TypeOK, TypeDisk
<1>2. dir.manifest # NoVersion => d = dir
    BY Zenon DEF Founded
<1>3. ASSUME dir.manifest = NoVersion
      PROVE  /\ d = WithManifest(dir, NewDatabase) /\ Strict = {}
             /\ \A e \in past \cup {dir} : e.wals = {}
    <2>1. d = WithManifest(dir, NewDatabase)
        BY Zenon, <1>3 DEF Founded
    <2>2. dir.wals = {}
        BY Zenon, <1>3 DEF OpenAccepts
    <2>3. ASSUME NEW e \in past \cup {dir}, NEW g \in e.wals PROVE FALSE
        <3>1. g < dir.manifest.next_file_number
            BY Zenon, <2>2 DEF RunningInv, WalsOK
        <3>2. g \in Nat
            BY Numbers DEF Generation
        <3> QED BY <1>3, <3>1, <3>2 DEF NoVersion
    <2>4. ASSUME NEW r \in Strict PROVE FALSE
        <3>1. Recoverable(dir, r) /\ r.sequence \in Nat \ {0}
            BY Numbers DEF StrictDurable
        <3>2. Unmatched(dir) = {}
            BY Zenon, <2>2 DEF Unmatched
        <3> QED BY <1>3, <3>1, <3>2 DEF Recoverable, NoVersion
    <2> QED BY Zenon, <2>1, <2>3, <2>4
<1>4. Unmatched(d) \subseteq {next, next + 1}
    <2>1. CASE dir.manifest = NoVersion
        <3>1. d.wals = {}
            BY Zenon, <1>3, <2>1, OpenFacts DEF TypeInv, TypeOK, TypeDisk
        <3> QED BY Zenon, <3>1 DEF Unmatched
    <2>2. CASE dir.manifest # NoVersion
        <3>1. d = dir
            BY Zenon, <1>2, <2>2
        <3> QED BY Zenon, <2>2, <3>1 DEF OpenAccepts
    <2> QED BY Zenon, <2>1, <2>2
<1>5. ASSUME next + 1 \in Unmatched(d) PROVE active = next + 1 /\ next \in Unmatched(d)
    <2>1. active = next + 1
        BY Zenon, <1>5 DEF ActiveGeneration
    <2>2. d = dir
        <3>1. d.wals = dir.wals /\ next + 1 \in d.wals
            BY Zenon, <1>5, OpenFacts DEF Unmatched, TypeInv, TypeOK, TypeDisk
        <3> QED BY Zenon, <1>2, <1>3, <3>1
    <2>3. next + 1 \in dir.wals
        BY Zenon, <1>5, <2>2 DEF Unmatched
    <2>4. next \in dir.wals
        BY Zenon, <2>2, <2>3 DEF RunningInv, WalsOK, NoGap
    <2> QED BY <1>1, <2>1, <2>2, <2>4 DEF Unmatched, Generation
<1>6. next + 1 \notin Unmatched(d) => active = next
    BY Zenon DEF ActiveGeneration
<1> QED BY Zenon, <1>1, <1>2, <1>3, <1>4, <1>5, <1>6

\* What Open leaves of the WALs: those it replays, and the one it goes on with.
LEMMA OpenedWals ==
    ASSUME TypeInv, RunningInv, StrictDurable, OpenAccepts(dir, log)
    PROVE  LET d == Founded(dir)
               next == d.manifest.next_file_number
               active == ActiveGeneration(d)
               opened == Opened(d)
           IN  /\ opened.manifest = d.manifest
               /\ opened.wals = Unmatched(d) \cup {active}
               /\ \A g \in opened.wals : g <= active
               /\ next + 1 \in opened.wals => next \in opened.wals
<1> DEFINE d == Founded(dir)
           next == d.manifest.next_file_number
           active == ActiveGeneration(d)
           opened == Opened(d)
<1>1. /\ next \in Generation /\ active \in Generation
      /\ Unmatched(d) \subseteq {next, next + 1}
      /\ next + 1 \in Unmatched(d) => active = next + 1 /\ next \in Unmatched(d)
      /\ next + 1 \notin Unmatched(d) => active = next
    BY Zenon, Accepted
<1>2. /\ opened.manifest = d.manifest
      /\ opened.wals = (d.wals \ ObsoleteWals(d)) \cup {active}
      /\ d \in Directory
    BY Zenon, OpenFacts DEF TypeInv, TypeOK, TypeDisk
<1>3. d.wals \ ObsoleteWals(d) = Unmatched(d)
    <2>1. d.wals \in SUBSET Generation
        BY Zenon, <1>2, DirectoryOps
    <2> QED BY <1>1, <2>1 DEF ObsoleteWals, Unmatched, Generation
<1> HIDE DEF d, next, active, opened
<1>4. opened.wals = Unmatched(d) \cup {active}
    BY Zenon, <1>2, <1>3
<1>5. \A g \in opened.wals : g <= active
    BY <1>1, <1>4 DEF Generation
<1>6. next + 1 \in opened.wals => next \in opened.wals
    BY Zenon, <1>1, <1>4 DEF Generation
<1> QED BY Zenon, <1>2, <1>4, <1>5, <1>6 DEF d, next, active, opened

\* The parts of a call run in a process that is there, and leave it there.
LEMMA StepRuns ==
    ASSUME TypeInv, WriteStep \/ FlushStep \/ CompactionStep
    PROVE  state # "down" /\ state' = state
<1>1. state # "down"
    <2>1. pc # "idle"
        <3>1. CASE WriteStep
            BY Zenon, <3>1 DEF WriteStep, Append, AppendFails, Freeze, FreezeSkipped,
               FreezeRefused,
                        Rotate, RotateRefused
        <3>2. CASE FlushStep
            BY Zenon, <3>2 DEF FlushStep, FlushTable, FlushTableFails, FlushManifest,
                        FlushManifestFails, FlushManifestDue, FlushRemoveWal,
                        FlushRemoveWalFails, FlushFinish, FlushFinishFails
        <3>3. CASE CompactionStep
            BY Zenon, <3>3 DEF CompactionStep, Prepare, PrepareSkipped, PrepareFails,
               PrepareRefused,
                        CompactionPublish, CompactionPublishFails, CompactionPublishDue,
                        CompactionManifest, CompactionManifestFails, CompactionManifestDue,
                        CompactionRemove, CompactionRemoveFails, CleanupDue, CompactionSync,
                        CompactionSyncFails, CompactionFinish, CompactionFinishFails,
                        CleanupDone
        <3> QED BY Zenon, <3>1, <3>2, <3>3
    <2> QED BY Zenon, <2>1, CallMeansUp
<1>2. state' = state
    <2> USE DEF Refused, IoError, ReturnError, Proceed
    <2>1. CASE WriteStep
        BY Zenon, <2>1 DEF WriteStep, Append, AppendFails, Freeze, FreezeSkipped,
           FreezeRefused,
                    Rotate, RotateRefused
    <2>2. CASE FlushStep
        BY Zenon, <2>2 DEF FlushStep, FlushTable, FlushTableFails, FlushManifest,
           FlushManifestFails,
                    FlushRemoveWal, FlushRemoveWalFails, FlushFinish, FlushFinishFails,
                    OpenMutableWalFails
    <2>3. CASE CompactionStep
        BY Zenon, <2>3 DEF CompactionStep, Prepare, PrepareSkipped, PrepareFails,
           PrepareRefused,
                    CompactionPublish, CompactionPublishFails, CompactionManifest,
                    CompactionManifestFails, CompactionRemove, CompactionRemoveFails,
                    CompactionSync, CompactionSyncFails, CompactionFinish,
                    CompactionFinishFails, OpenMutableWalFails
    <2> QED BY Zenon, <2>1, <2>2, <2>3
<1> QED BY Zenon, <1>1, <1>2
==============================================================================
