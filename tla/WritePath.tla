------------------------------ MODULE WritePath ------------------------------
(***************************************************************************)
(* One write-ahead log, byte by byte: WalWriter::Append over WriteAll       *)
(* (src/src/wal.cpp, src/src/file.cpp), RecoverWal with its repair of a     *)
(* torn tail (src/src/recovery.cpp), and the class WritePath that puts a    *)
(* MemTable on top of them (src/src/write_path.cpp).                        *)
(*                                                                          *)
(* The file is a sequence of bytes.  A byte knows the record it encodes     *)
(* and its place in the encoding, so that two encodings share no byte and   *)
(* a decoder succeeds only on what an encoder wrote: CRC32C is taken to     *)
(* detect every mixture.  A damaged byte is one the storage returns with    *)
(* flipped bits.  A header has no checksum of its own, so a byte also knows *)
(* the record size that its field says: the first byte of a header stands   *)
(* for magic, version, type and the sizes of key and value, the second for  *)
(* record_size, the others for sequence and checksum.                       *)
(***************************************************************************)
EXTENDS Version, Sequences

CONSTANTS
    HeaderSize,     \* kWalHeaderSize
    ValueSize,      \* bytes of a value; a key has one
    MaxRecordSize,  \* the longest record max_key_size and max_value_size allow
    MaxCrashes,     \* bound: process crashes and power failures
    MaxFailures,    \* bound: system calls that fail
    MaxDamage,      \* bound: bytes the storage damages
    Detectable      \* damage never makes a header announce a record too long

ASSUME WritePathAssumption ==
    /\ HeaderSize \in Nat \ {0, 1, 2}
    /\ ValueSize \in Nat
    /\ MaxRecordSize \in Nat /\ MaxRecordSize >= HeaderSize + 1 + ValueSize
    /\ MaxCrashes \in Nat /\ MaxFailures \in Nat /\ MaxDamage \in Nat
    /\ Detectable \in BOOLEAN

VARIABLES
    file,           \* the bytes of the WAL as a process reads them
    disk,           \* the bytes the last fdatasync made durable
    pc,             \* where the process is: "down" when there is none
    offset,         \* RecoverWal: bytes recovered; WriteAll: bytes written
    recovered,      \* RecoverWal: the MemTable it builds
    max_sequence,   \* RecoverWal: the last sequence number it met
    memtable,       \* memtable_
    last_sequence,  \* last_sequence_
    failed,         \* status_ of the WritePath or the WalWriter is an error
    record,         \* the record being written
    sync,           \* its sync mode is kSync
    acked,          \* history: strict writes acknowledged
    answered,       \* history: writes acknowledged since the last power failure,
                    \* and the strict ones
    crashes, failures, damages

logVars == <<file, disk>>
recoveryVars == <<recovered, max_sequence>>
memoryVars == <<memtable, last_sequence, failed>>
callVars == <<record, sync>>
historyVars == <<acked, answered>>
boundVars == <<crashes, failures, damages>>
vars == <<logVars, pc, offset, recoveryVars, memoryVars, callVars, historyVars, boundVars>>

NoRecord == [sequence |-> 0, key |-> 0, deleted |-> FALSE]

------------------------------------------------------------------------------
(* Bytes *)

\* EncodeWalRecord: header, key and, unless the record is a deletion, value.
Size(r) == HeaderSize + 1 + (IF r.deleted THEN 0 ELSE ValueSize)

Encode(r) ==
    [i \in 1 .. Size(r) |-> [record |-> r, place |-> i, size |-> Size(r), damaged |-> FALSE]]

\* What a field of a header says: the size of a record that ValidateLengths lets
\* pass, or 0, which is not valid.
Announced == {0} \cup (HeaderSize + 1 .. MaxRecordSize)

Byte ==
    [record : Record, place : 1 .. HeaderSize + 1 + ValueSize, size : Announced,
     damaged : BOOLEAN]

Prefix(s, n) == SubSeq(s, 1, n)

\* The places of the n bytes of s behind o are those of one encoding of r.
EncodesAt(s, o, n, r) ==
    /\ o + n <= Len(s)
    /\ \A i \in 1 .. n : s[o + i].record = r /\ s[o + i].place = i

Undamaged(s, o, n) == \A i \in 1 .. n : ~s[o + i].damaged

\* DecodeWalRecordHeader of the bytes behind o, which hold a header: its fields
\* are valid, and record_size is what the other sizes amount to.
HeaderDecodes(s, o) ==
    /\ EncodesAt(s, o, HeaderSize, s[o + 1].record)
    /\ \A i \in 1 .. HeaderSize : s[o + i].size # 0
    /\ s[o + 2].size = s[o + 1].size

\* Mutant of ChecksumMatches: the checksum is not compared.
ChecksumIgnored(s, o) == EncodesAt(s, o, Size(s[o + 1].record), s[o + 1].record)

\* DecodeWalRecord: the checksum over header and payload is right.
ChecksumMatches(s, o) ==
    /\ EncodesAt(s, o, Size(s[o + 1].record), s[o + 1].record)
    /\ Undamaged(s, o, Size(s[o + 1].record))

\* The records that are in s from their first byte to their last, wherever
\* they are and damaged or not: what a recovery must find, or report.
Complete(s) ==
    {s[o + 1].record : o \in {p \in 0 .. Len(s) - 1 :
        EncodesAt(s, p, Size(s[p + 1].record), s[p + 1].record)}}

------------------------------------------------------------------------------
(* The process *)

Init ==
    /\ file = <<>> /\ disk = <<>>
    /\ pc = "down"
    /\ offset = 0
    /\ recovered = {} /\ max_sequence = 0
    /\ memtable = {} /\ last_sequence = 0 /\ failed = FALSE
    /\ record = NoRecord /\ sync = FALSE
    /\ acked = {} /\ answered = {}
    /\ crashes = 0 /\ failures = 0 /\ damages = 0

\* The process is gone: its memory is.
Forget ==
    /\ pc' = "down"
    /\ offset' = 0
    /\ recovered' = {} /\ max_sequence' = 0
    /\ memtable' = {} /\ last_sequence' = 0 /\ failed' = FALSE
    /\ record' = NoRecord /\ sync' = FALSE

\* The destructor; WritePath has no Close.
Destroy ==
    /\ pc = "ready"
    /\ Forget
    /\ UNCHANGED <<logVars, historyVars, boundVars>>

\* The process is killed: what it wrote is in the page cache and stays.
ProcessCrash ==
    /\ pc # "down"
    /\ crashes < MaxCrashes
    /\ Forget
    /\ crashes' = crashes + 1
    /\ UNCHANGED <<logVars, historyVars, failures, damages>>

\* How far the file has its bytes in common with the disk: what was synced and
\* not truncated since.
Agreed ==
    {m \in 0 .. Len(file) : m <= Len(disk) /\ Prefix(file, m) = Prefix(disk, m)}

\* What a power failure may leave: appended bytes reach the disk in order, and
\* a truncation that was not synced may be undone, as a whole or in part.
Survivors ==
    LET agreed == Agreed
        Kept(s) == {n \in 0 .. Len(s) : \A m \in agreed : m <= n}
    IN  {Prefix(file, n) : n \in Kept(file)} \cup {Prefix(disk, n) : n \in Kept(disk)}

PowerFailure ==
    /\ crashes < MaxCrashes
    /\ Forget
    /\ file' \in Survivors
    /\ disk' = file'
    /\ answered' = acked
    /\ crashes' = crashes + 1
    /\ UNCHANGED <<acked, failures, damages>>

\* What the field of byte b may say once the byte is damaged: the first stands
\* for fields that say nothing of a size too, and a sequence may become zero.
MayRead(b) ==
    CASE b.place = 1 -> Announced
      [] b.place = 2 -> Announced \ {b.size}
      [] b.place \in 3 .. HeaderSize -> {0, b.size}
      [] b.place > HeaderSize -> {b.size}

\* No header of s that decodes announces more than the record it is of.
NoneDisguised(s) ==
    \A o \in 0 .. Len(s) - HeaderSize :
        HeaderDecodes(s, o) => s[o + 1].size <= Size(s[o + 1].record)

\* The storage flips bits of a byte at rest.
Damage ==
    /\ pc = "down"
    /\ damages < MaxDamage
    /\ \E i \in 1 .. Len(file) : \E size \in MayRead(file[i]) :
          /\ ~file[i].damaged
          /\ file' = [file EXCEPT ![i] = [@ EXCEPT !.size = size, !.damaged = TRUE]]
    /\ Detectable => NoneDisguised(file')
    /\ disk = file /\ disk' = file'
    /\ damages' = damages + 1
    /\ UNCHANGED <<pc, offset, recoveryVars, memoryVars, callVars, historyVars,
                   crashes, failures>>

------------------------------------------------------------------------------
(* WritePath::Open: RecoverWal, one step per turn of its loop *)

Remaining == Len(file) - offset

Open ==
    /\ pc = "down"
    /\ pc' = "recover"
    /\ offset' = 0 /\ recovered' = {} /\ max_sequence' = 0
    /\ UNCHANGED <<logVars, memoryVars, callVars, historyVars, boundVars>>

\* A call of Open, RecoverWal or OpenAppend fails; Open returns its error.
OpenFails ==
    /\ pc \in {"recover", "truncate", "sync_tail"}
    /\ failures < MaxFailures
    /\ Forget
    /\ failures' = failures + 1
    /\ UNCHANGED <<logVars, historyVars, crashes, damages>>

\* Mutant of TailIsTorn: a record that ends with the file counts as torn.
TailIsTornOffByOne ==
    \/ Remaining < HeaderSize
    \/ HeaderDecodes(file, offset) /\ file[offset + 1].size >= Remaining

\* Mutant of TailIsTorn: so does a last record with a wrong checksum.
TailIsTornOrWrong ==
    \/ Remaining < HeaderSize
    \/ HeaderDecodes(file, offset) /\ file[offset + 1].size > Remaining
    \/ HeaderDecodes(file, offset) /\ ~ChecksumMatches(file, offset)

\* The rest of the file is shorter than a header, or than the record that a
\* valid header announces; no checksum is looked at before that.
TailIsTorn ==
    \/ Remaining < HeaderSize
    \/ HeaderDecodes(file, offset) /\ file[offset + 1].size > Remaining

\* MemTable::Add accepts only a sequence number above that of the key's entry.
AddAccepts(S, r) == \A q \in S : q.key = r.key => q.sequence < r.sequence

\* A record that decodes, with a sequence number above the ones before it.
RecordIsNext ==
    /\ Remaining >= HeaderSize
    /\ HeaderDecodes(file, offset)
    /\ ~TailIsTorn
    /\ ChecksumMatches(file, offset)
    /\ file[offset + 1].record.sequence > max_sequence
    /\ AddAccepts(recovered, file[offset + 1].record)

RecoverRecord ==
    LET r == file[offset + 1].record
    IN  /\ pc = "recover"
        /\ Remaining > 0
        /\ RecordIsNext
        /\ recovered' = Insert(recovered, r)
        /\ max_sequence' = r.sequence
        /\ offset' = offset + Size(r)
        /\ UNCHANGED <<logVars, pc, memoryVars, callVars, historyVars, boundVars>>

\* Everything else in the file is corruption: Open returns the error and the
\* file stays as it is.
Corruption == Remaining > 0 /\ ~TailIsTorn /\ ~RecordIsNext

RecoverCorruption ==
    /\ pc = "recover"
    /\ Corruption
    /\ Forget
    /\ UNCHANGED <<logVars, historyVars, boundVars>>

\* RecoverWal has returned and OpenAppend succeeds.
Recovered ==
    /\ pc' = "ready"
    /\ memtable' = recovered /\ last_sequence' = max_sequence
    /\ recovered' = {} /\ max_sequence' = 0 /\ offset' = 0

RecoverEnd ==
    /\ pc = "recover"
    /\ Remaining = 0
    /\ Recovered
    /\ UNCHANGED <<logVars, failed, callVars, historyVars, boundVars>>

RecoverTail ==
    /\ pc = "recover"
    /\ Remaining > 0 /\ TailIsTorn
    /\ pc' = "truncate"
    /\ UNCHANGED <<logVars, offset, recoveryVars, memoryVars, callVars, historyVars, boundVars>>

\* Mutant of Truncate: the tail is skipped and not removed.
TruncateSkipped ==
    /\ pc = "truncate"
    /\ pc' = "sync_tail"
    /\ UNCHANGED <<logVars, offset, recoveryVars, memoryVars, callVars, historyVars, boundVars>>

\* TruncateIncompleteTail: ftruncate, then fdatasync.
Truncate ==
    /\ pc = "truncate"
    /\ file' = Prefix(file, offset)
    /\ pc' = "sync_tail"
    /\ UNCHANGED <<disk, offset, recoveryVars, memoryVars, callVars, historyVars, boundVars>>

SyncTail ==
    /\ pc = "sync_tail"
    /\ disk' = file
    /\ Recovered
    /\ UNCHANGED <<file, failed, callVars, historyVars, boundVars>>

------------------------------------------------------------------------------
(* WritePath::Write: WalWriter::Append, then the MemTable *)

Begin(key, deleted, strict) ==
    /\ last_sequence' = last_sequence + 1
    /\ record' = [sequence |-> last_sequence + 1, key |-> key, deleted |-> deleted]
    /\ sync' = strict
    /\ offset' = 0
    /\ pc' = "write"
    /\ UNCHANGED <<logVars, recoveryVars, memtable, failed, historyVars, boundVars>>

\* Mutant of Write: the sequence numbers wrap without a check.
WriteUnbounded(key, deleted, strict) ==
    pc = "ready" /\ ~failed /\ Begin(key, deleted, strict)

\* Mutant of Write: a log that failed is written to again.
WriteAfterFailure(key, deleted, strict) ==
    pc = "ready" /\ last_sequence < MaxSequence /\ Begin(key, deleted, strict)

\* A sticky error is returned before anything is written; the last sequence
\* number is never passed.
Write(key, deleted, strict) ==
    /\ pc = "ready"
    /\ ~failed
    /\ last_sequence < MaxSequence
    /\ Begin(key, deleted, strict)

\* Mutant of Written: no fdatasync in strict mode.
WrittenUnsynced == "apply"

\* Append goes on with fdatasync in strict mode.
Written == IF sync THEN "sync" ELSE "apply"

\* One turn of WriteAll: write(2) takes some of the bytes.
WriteSome ==
    /\ pc = "write"
    /\ \E n \in 1 .. Size(record) - offset :
          /\ file' = file \o SubSeq(Encode(record), offset + 1, offset + n)
          /\ offset' = offset + n
          /\ pc' = IF offset + n = Size(record) THEN Written ELSE "write"
    /\ UNCHANGED <<disk, recoveryVars, memoryVars, callVars, historyVars, boundVars>>

\* fdatasync, of this record and everything before it.
Sync ==
    /\ pc = "sync"
    /\ disk' = file
    /\ pc' = "apply"
    /\ UNCHANGED <<file, offset, recoveryVars, memoryVars, callVars, historyVars, boundVars>>

\* write(2), or fdatasync, fails: the WalWriter and the WritePath remember it.
AppendFails ==
    /\ pc \in {"write", "sync"}
    /\ failures < MaxFailures
    /\ failures' = failures + 1
    /\ failed' = TRUE
    /\ pc' = "ready" /\ offset' = 0 /\ record' = NoRecord /\ sync' = FALSE
    /\ UNCHANGED <<logVars, recoveryVars, memtable, last_sequence, historyVars,
                   crashes, damages>>

\* The MemTable takes the record and Write returns OK.
ApplyRecord ==
    /\ pc = "apply"
    /\ AddAccepts(memtable, record)
    /\ memtable' = Insert(memtable, record)
    /\ answered' = answered \cup {record}
    /\ acked' = IF sync THEN acked \cup {record} ELSE acked
    /\ pc' = "ready" /\ offset' = 0 /\ record' = NoRecord /\ sync' = FALSE
    /\ UNCHANGED <<logVars, recoveryVars, last_sequence, failed, boundVars>>

------------------------------------------------------------------------------

Recovery ==
    \/ Open \/ OpenFails
    \/ RecoverRecord \/ RecoverEnd \/ RecoverTail \/ RecoverCorruption
    \/ Truncate \/ SyncTail

Writing ==
    \/ \E key \in Key, deleted \in BOOLEAN, strict \in BOOLEAN : Write(key, deleted, strict)
    \/ WriteSome \/ Sync \/ AppendFails \/ ApplyRecord

Next ==
    \/ Recovery \/ Writing \/ Destroy
    \/ ProcessCrash \/ PowerFailure \/ Damage

Spec == Init /\ [][Next]_vars

------------------------------------------------------------------------------
(* Properties *)

Up == {"ready", "write", "sync", "apply"}

\* Every variable has its type; sequence numbers stay in range, and neither
\* offset passes the bytes it counts.
TypeOK ==
    /\ file \in Seq(Byte) /\ disk \in Seq(Byte)
    /\ pc \in Up \cup {"down", "recover", "truncate", "sync_tail"}
    /\ offset \in Nat
    /\ pc \in {"recover", "truncate", "sync_tail"} => offset <= Len(file)
    /\ pc \in Up => offset <= Size(record)
    /\ recovered \subseteq Record /\ memtable \subseteq Record
    /\ max_sequence \in 0 .. MaxSequence /\ last_sequence \in 0 .. MaxSequence
    /\ failed \in BOOLEAN /\ sync \in BOOLEAN
    /\ record \in Record \cup {NoRecord}
    /\ pc \in {"write", "sync", "apply"} => record \in Record
    /\ acked \subseteq answered /\ answered \subseteq Record
    /\ crashes \in 0 .. MaxCrashes /\ failures \in 0 .. MaxFailures
    /\ damages \in 0 .. MaxDamage

\* A strict write that Write acknowledged is there, all its bytes, in every file
\* a power failure may leave, also while a later Open repairs the tail and when
\* the storage damaged some of them.
StrictSurvives == \A s \in Survivors : acked \subseteq Complete(s)

\* Every acknowledged write, an asynchronous one too, is in the file a process
\* crash leaves, and the repair of a torn tail does not cut it, damaged or not.
AnsweredInFile == answered \subseteq Complete(file)

\* Whatever a power failure leaves, the complete records in it are the first
\* ones written: no sequence number is missing below another, so an outcome
\* where a later write survives and an earlier one does not is impossible.
RecoversPrefix ==
    \A s \in Survivors : Sequences(Complete(s)) = 1 .. MaximumSequence(Complete(s))

\* Between calls the MemTable is the newest complete record of every key; a
\* record whose Append returned an error may be in the file and is not visible
\* before the next Open.
MemtableIsLog ==
    pc \in Up =>
        LET settled == pc = "ready" /\ ~failed
        IN  memtable = Newest({r \in Complete(file) : settled \/ r.sequence # last_sequence})

\* Without damage RecoverWal never meets what it calls corruption, whatever
\* the crashes, failed calls and repairs before, and the MemTable never
\* refuses a record the WAL has taken.
NeverCorrupt ==
    /\ pc = "recover" /\ damages = 0 => ~Corruption
    /\ pc = "apply" => AddAccepts(memtable, record)

\* A log that Open accepted has no damaged byte: damage is found, or was in
\* the torn tail that Open removed.
OpenedUndamaged == pc \in Up => Undamaged(file, 0, Len(file))

\* No step of the program removes a record whose bytes are all in the file: a
\* damaged one is reported, not taken for a torn tail and truncated, nor is
\* anything behind it.
RecordsKept ==
    [][crashes' = crashes => Complete(file) \subseteq Complete(file')]_vars

\* The bytes implement the log that Database assumes: a record appears with its
\* last byte, fdatasync covers everything before it, a repair changes nothing,
\* and a power failure leaves a prefix that holds what was synced.
Log == INSTANCE DurableLog WITH records <- Complete(file),
                                synced <- MaximumSequence(Complete(disk))

ImplementsLog == Log!Spec
==============================================================================
