------------------------------ MODULE SSTable ------------------------------
(***************************************************************************)
(* One immutable table file (src/table.cpp) and its Bloom filter           *)
(* (src/bloom_filter.cpp): what EncodeTable lays out, what Open accepts,   *)
(* point lookups through the key range, the filter and the sparse index,   *)
(* and the block-at-a-time iterator that range scans and compaction use.   *)
(*                                                                         *)
(* Keys are byte strings, compared as std::string compares them.  A file   *)
(* is the record its regions decode to: data blocks by their offset, the   *)
(* sparse index, the optional filter and the footer's summary.  Bytes,     *)
(* magic numbers and checksums are left out (WritePath models encoding and *)
(* checksums for the log, whose record format the blocks share); the sizes *)
(* that decide where a block ends are kept, scaled down.                   *)
(***************************************************************************)
EXTENDS Integers, Sequences, FiniteSets, SequencesExt

CONSTANTS
    MaxByte,         \* The greatest byte (0xff in the code)
    MaxKeySize,      \* Options::max_key_size
    MaxValueSize,    \* Options::max_value_size
    RecordHeader,    \* Size of an encoded record without key and value
    BlockHeader,     \* kTableBlockHeaderSize
    BlockSize,       \* Options::sstable_block_size
    BloomEnabled,    \* Options::bloom_filter_enabled
    BitsPerKey,      \* Bits the configured false positive rate asks per key
    MinimumBits,     \* Smallest bit array (64 in the code)
    MaximumHashes,   \* kMaximumBloomHashCount
    HashWidth,       \* Width of the filter's hash words (64 in the code)
    FirstHash(_),    \* The two hash words of a key: any functions
    SecondHash(_)

ASSUME SSTableAssumption ==
    /\ {MaxByte, MaxKeySize, MaxValueSize, RecordHeader, BlockHeader,
        BlockSize, BitsPerKey, MinimumBits, MaximumHashes, HashWidth}
           \subseteq Nat \ {0}
    /\ BloomEnabled \in BOOLEAN

----------------------------------------------------------------------------
(* Byte strings.                                                           *)

Byte == 0..MaxByte

\* a < b for std::string: the first difference decides, a prefix is smaller.
Before(a, b) ==
    \E n \in 1..Len(b) :
        /\ n <= Len(a) + 1
        /\ \A i \in 1..(n - 1) : a[i] = b[i]
        /\ n > Len(a) \/ a[n] < b[n]

NotAfter(a, b) == ~Before(b, a)

\* An optional exclusive end is a set of at most one key.
PastEnd(key, end) == \E e \in end : NotAfter(e, key)

\* UpperBound as std::lower_bound: an index entry with the key itself is
\* counted as after it.
UpperBoundStrict(index, key) ==
    Cardinality({i \in DOMAIN index : Before(index[i].first_key, key)})

\* std::upper_bound and std::lower_bound on a sequence in key order, as the
\* number of elements before the position they return.
UpperBound(index, key) ==
    Cardinality({i \in DOMAIN index : NotAfter(index[i].first_key, key)})

LowerBound(records, key) ==
    Cardinality({i \in DOMAIN records : Before(records[i].key, key)})

----------------------------------------------------------------------------
(* The Bloom filter.                                                       *)

\* Sizing: the requested bits, at least the minimum, in whole bytes; the
\* number of probes is bits / keys * ln 2, rounded, between one and the limit.
CreateFilter(keys) ==
    LET requested == Max({keys * BitsPerKey, MinimumBits})
        bits      == ((requested + 7) \div 8) * 8
        ideal     == (bits * 693 + keys * 500) \div (keys * 1000)
    IN  [bits |-> {}, bit_count |-> bits, key_count |-> 0,
         hash_count |-> Min({Max({1, ideal}), MaximumHashes})]

\* The bits a key probes: double hashing with an odd step, wrapping at the
\* word size before it is reduced to the array.
Probes(filter, key) ==
    LET step == SecondHash(key) + 1 - (SecondHash(key) % 2)
    IN  {((FirstHash(key) + i * step) % 2^HashWidth) % filter.bit_count :
            i \in 0..(filter.hash_count - 1)}

AddToFilter(filter, key) ==
    [filter EXCEPT !.bits = @ \cup Probes(filter, key), !.key_count = @ + 1]

MayContain(filter, key) ==
    /\ filter.key_count # 0
    /\ Probes(filter, key) \subseteq filter.bits

----------------------------------------------------------------------------
(* Building a file from the records of a MemTable.                         *)

SortedRecords(records) ==
    SetToSortSeq(records, LAMBDA a, b : Before(a.key, b.key))

\* A deletion carries no value.
RecordSize(r) ==
    RecordHeader + Len(r.key) + (IF r.deleted THEN 0 ELSE MaxValueSize)

EncodedSize(block) ==
    FoldLeft(LAMBDA size, r : size + RecordSize(r), BlockHeader, block)

\* The largest block Open accepts: one record may exceed the block size.
MaximumBlockSize ==
    BlockHeader
      + Max({BlockSize, RecordHeader + MaxKeySize + MaxValueSize})

\* Appends the open block to the data region and its first key to the index.
FinishBlock(b) ==
    IF b.block = <<>>
    THEN b
    ELSE LET size == EncodedSize(b.block)
         IN  [data   |-> b.data @@ (b.offset :> b.block),
              index  |-> Append(b.index, [first_key |-> b.block[1].key,
                                          offset    |-> b.offset,
                                          size      |-> size]),
              offset |-> b.offset + size,
              block  |-> <<>>]

\* AddRecord when a full block is cut after the record that overflows it and
\* the record is not carried over to the next block.
AddRecordDropped(b, r) ==
    IF b.block # <<>> /\ EncodedSize(b.block) + RecordSize(r) > BlockSize
    THEN FinishBlock(b)
    ELSE [b EXCEPT !.block = Append(@, r)]

\* A record that would overflow a non-empty block starts the next one.
AddRecord(b, r) ==
    LET full == /\ b.block # <<>>
                /\ EncodedSize(b.block) + RecordSize(r) > BlockSize
        room == IF full THEN FinishBlock(b) ELSE b
    IN  [room EXCEPT !.block = Append(@, r)]

EncodeTable(generation, records) ==
    LET sorted == SortedRecords(records)
        built  == FinishBlock(FoldLeft(AddRecord,
                    [data |-> <<>>, index |-> <<>>, offset |-> 0,
                     block |-> <<>>], sorted))
        filter == FoldLeft(LAMBDA f, r : AddToFilter(f, r.key),
                           CreateFilter(Len(sorted)), sorted)
        numbers == {r.sequence : r \in records}
    IN  [generation |-> generation,
         data |-> built.data, index |-> built.index,
         data_size |-> built.offset,
         bloom |-> IF BloomEnabled THEN {filter} ELSE {},
         record_count |-> Cardinality(records),
         minimum_sequence |-> Min(numbers),
         maximum_sequence |-> Max(numbers)]

----------------------------------------------------------------------------
(* Opening and reading a file.                                             *)

ReadBlock(file, block) == file.data[file.index[block].offset]

ReadRecords(file) ==
    FoldLeft(LAMBDA records, entry : records \o file.data[entry.offset],
             <<>>, file.index)

MinimumKey(file) == ReadBlock(file, 1)[1].key

MaximumKey(file) == Last(ReadBlock(file, Len(file.index))).key

\* The sparse index: bounded non-empty keys in strict order, and blocks that
\* tile the data region from its start to its end.
IndexIsValid(file) ==
    LET index == file.index
        After(i) == IF i = 0 THEN 0 ELSE index[i].offset + index[i].size
    IN  /\ \A i \in DOMAIN index :
              /\ Len(index[i].first_key) \in 1..MaxKeySize
              /\ index[i].size \in BlockHeader..MaximumBlockSize
              /\ index[i].offset = After(i - 1)
              /\ i > 1 => Before(index[i - 1].first_key, index[i].first_key)
        /\ After(Len(index)) = file.data_size

\* The verification pass over every block: non-empty, in strict key order
\* within and across blocks, in agreement with the index, the filter and the
\* footer's summary.
BlocksAreValid(file) ==
    LET records == ReadRecords(file)
        numbers == {records[i].sequence : i \in DOMAIN records}
    IN  /\ \A b \in DOMAIN file.index :
              /\ ReadBlock(file, b) # <<>>
              /\ ReadBlock(file, b)[1].key = file.index[b].first_key
        /\ \A i \in 1..(Len(records) - 1) :
              Before(records[i].key, records[i + 1].key)
        /\ \A f \in file.bloom, i \in DOMAIN records :
              MayContain(f, records[i].key)
        /\ Len(records) = file.record_count
        /\ Min(numbers) = file.minimum_sequence
        /\ Max(numbers) = file.maximum_sequence

\* SSTableReader::Open succeeds.
Opens(file) ==
    /\ file.generation # 0
    /\ file.index # <<>>
    /\ \A f \in file.bloom : f.key_count = file.record_count
    /\ IndexIsValid(file)
    /\ BlocksAreValid(file)

\* SSTableReader::Get: the record of key, as a set of at most one.
TableGet(file, key) ==
    LET block == UpperBound(file.index, key)
        records == ReadBlock(file, block)
        found == LowerBound(records, key) + 1
    IN  IF \/ Before(key, MinimumKey(file))
           \/ Before(MaximumKey(file), key)
           \/ BloomEnabled /\ \E f \in file.bloom : ~MayContain(f, key)
           \/ block = 0
           \/ found > Len(records)
        THEN {}
        ELSE {r \in {records[found]} : r.key = key}

----------------------------------------------------------------------------
(* SSTableIterator: a cursor that holds one decoded block.                 *)

\* The current record, as a set of at most one.
IteratorRecord(it) ==
    IF it.valid /\ it.position <= Len(it.records)
    THEN {it.records[it.position]} ELSE {}

LoadBlock(it, block) ==
    IF block > Len(it.file.index)
    THEN [it EXCEPT !.records = <<>>, !.position = 1, !.valid = FALSE]
    ELSE [it EXCEPT !.block = block, !.records = ReadBlock(it.file, block),
                    !.position = 1, !.valid = TRUE]

\* SkipToRecord when a cursor at the end of its block is taken for exhausted.
SkipToRecordStops(it) ==
    IF it.position > Len(it.records)
    THEN [it EXCEPT !.records = <<>>, !.position = 1, !.valid = FALSE]
    ELSE it

\* The loop that moves past the end of a block.  It goes round once: a block
\* of an open file is never empty, so the next one has a first record.
SkipToRecord(it) ==
    IF it.position > Len(it.records) THEN LoadBlock(it, it.block + 1) ELSE it

EnforceUpperBound(it) ==
    IF \E r \in IteratorRecord(it) : PastEnd(r.key, it.end)
    THEN [it EXCEPT !.records = <<>>, !.position = 1, !.valid = FALSE]
    ELSE it

\* NewIterator and Initialize: seek to the last block whose first key is not
\* after begin, then within it.
NewIterator(file, begin, end) ==
    LET it    == [file |-> file, end |-> end, block |-> 1, records |-> <<>>,
                  position |-> 1, valid |-> FALSE]
        first == LoadBlock(it, Max({1, UpperBound(file.index, begin)}))
    IN  IF \/ Before(MaximumKey(file), begin)
           \/ PastEnd(MinimumKey(file), end)
           \/ end = {begin}
        THEN it
        ELSE EnforceUpperBound(SkipToRecord(
                [first EXCEPT !.position =
                    LowerBound(first.records, begin) + 1]))

NextRecord(it) ==
    IF it.valid
    THEN EnforceUpperBound(SkipToRecord([it EXCEPT !.position = @ + 1]))
    ELSE it
=============================================================================
