-------------------------------- MODULE Scan --------------------------------
(***************************************************************************)
(* Range scans (src/scan.cpp) over a changing database: Scan merges one    *)
(* cursor per live source (Mutable, Immutable, every table file) and cuts  *)
(* the answer into pages joined by continuation tokens, while writers put  *)
(* and delete keys and maintenance freezes and flushes.                    *)
(*                                                                         *)
(* Scan and Get hold the state lock shared and writers hold it exclusively *)
(* (module Database), so one call is one step; what interleaves is writes  *)
(* and flushes between the pages of one reader.  The steps of the engine   *)
(* are kept to what changes the sources of a scan: module Database has     *)
(* their I/O, module Maintenance their scheduling.                         *)
(***************************************************************************)
EXTENDS SSTable

CONSTANTS
    Key,             \* The keys writers use
    Call,            \* The scans a reader may start
    Limit,           \* The page limits a reader may pass
    MaximumScanEntries,  \* Options::maximum_scan_entries
    MaxWrites,       \* Bound on writes
    MaxFailures      \* Bound on flushes that fail after publishing

ASSUME ScanAssumption ==
    /\ Key \subseteq BoundedSeq(Byte, MaxKeySize) \ {<<>>}
    /\ Limit \subseteq Nat
    /\ {MaximumScanEntries, MaxWrites, MaxFailures} \subseteq Nat

VARIABLES
    mutable,         \* mutable_: records, at most one per key
    immutable,       \* immutable_->memtable, empty when there is none
    published,       \* immutable_->version_published
    tables,          \* tables_, oldest first
    version_id,      \* version_.id()
    last_sequence,   \* last_sequence_
    newest,          \* History: the newest write of every key written
    failures,        \* History: failed flushes so far
    reader           \* A caller going through the pages of one scan

engine == <<mutable, immutable, published, tables, version_id,
            last_sequence, newest, failures>>

vars == <<engine, reader>>

Record == [key : Key, sequence : 1..MaxWrites, deleted : BOOLEAN]

----------------------------------------------------------------------------
(* Bounds and tokens.                                                      *)

\* PrefixUpperBound without the truncation after the incremented byte.
PrefixUpperBoundUntruncated(prefix) ==
    LET small == {i \in DOMAIN prefix : prefix[i] # MaxByte}
    IN  {[prefix EXCEPT ![o] = @ + 1] :
            o \in {i \in small : \A j \in small : j <= i}}

\* The exclusive end of the keys that start with prefix: drop trailing
\* greatest bytes and increment the last one left; none left means no end.
PrefixUpperBound(prefix) ==
    LET small == {i \in DOMAIN prefix : prefix[i] # MaxByte}
    IN  {Append(SubSeq(prefix, 1, o - 1), prefix[o] + 1) :
            o \in {i \in small : \A j \in small : j <= i}}

\* ScanPrefix and LoadAll (the empty prefix) turn a prefix into a range.
PrefixBounds(prefix) == [begin |-> prefix, end |-> PrefixUpperBound(prefix)]

EncodeScanToken(bounds, last_key) ==
    [bounds |-> bounds, version_id |-> version_id,
     last_sequence |-> last_sequence, last_key |-> last_key]

\* TokenAccepted without the sequence frontier: only a new Version is noticed.
TokenAcceptedByVersion(token, bounds) ==
    /\ token.bounds = bounds
    /\ token.version_id = version_id
    /\ NotAfter(bounds.begin, token.last_key)
    /\ ~PastEnd(token.last_key, bounds.end)

\* DecodeScanToken accepts: the same range, the same Version and sequence
\* frontier, and a resume key inside the range.
TokenAccepted(token, bounds) ==
    /\ token.bounds = bounds
    /\ token.version_id = version_id
    /\ token.last_sequence = last_sequence
    /\ NotAfter(bounds.begin, token.last_key)
    /\ ~PastEnd(token.last_key, bounds.end)

----------------------------------------------------------------------------
(* Sources: a cursor over a MemTable copy, or a table iterator.            *)

\* The record under the cursor, as a set of at most one.
Current(source) ==
    IF "file" \in DOMAIN source
    THEN IteratorRecord(source)
    ELSE {source.records[i] : i \in
            {p \in {source.position} \cap DOMAIN source.records :
                ~PastEnd(source.records[p].key, source.end)}}

Advance(source) ==
    IF "file" \in DOMAIN source
    THEN NextRecord(source)
    ELSE [source EXCEPT !.position = Min({@, Len(source.records)}) + 1]

\* A resumed source starts strictly after the last returned key.
AfterResume(source, resume) ==
    IF \E r \in Current(source) : r.key = resume THEN Advance(source)
                                                 ELSE source

AddMemorySource(memtable, bounds, lower, resume) ==
    LET records == SortedRecords(memtable)
        source  == [records |-> records, end |-> bounds.end,
                    position |-> LowerBound(records, lower) + 1]
    IN  IF memtable = {} THEN <<>> ELSE <<AfterResume(source, resume)>>

\* Tables whose key range misses the scanned one contribute no source.
TableSources(bounds, lower, resume) ==
    LET Meets(file) == /\ NotAfter(lower, MaximumKey(file))
                       /\ ~PastEnd(MinimumKey(file), bounds.end)
        met == SelectSeq(tables, Meets)
    IN  [i \in DOMAIN met |->
            AfterResume(NewIterator(met[i], lower, bounds.end), resume)]

Sources(bounds, resume) ==
    LET lower == IF resume = <<>> THEN bounds.begin ELSE resume
    IN  AddMemorySource(mutable, bounds, lower, resume)
          \o AddMemorySource(immutable, bounds, lower, resume)
          \o TableSources(bounds, lower, resume)

----------------------------------------------------------------------------
(* One page.                                                               *)

\* The heap merge, until one entry more than the limit is found: all sources
\* at the least key advance, the greatest sequence wins, a winning deletion
\* is skipped, and a winning sequence found in two sources is an error.
RECURSIVE MergePage(_, _, _)
MergePage(sources, limit, entries) ==
    LET heads == UNION {Current(sources[i]) : i \in DOMAIN sources}
        first == CHOOSE r \in heads :
                    \A o \in heads : NotAfter(r.key, o.key)
        same  == {r \in heads : r.key = first.key}
        winner == CHOOSE r \in same : \A o \in same : o.sequence <= r.sequence
        holders == {i \in DOMAIN sources : winner \in Current(sources[i])}
        moved == [i \in DOMAIN sources |->
                    IF Current(sources[i]) \cap same = {}
                    THEN sources[i] ELSE Advance(sources[i])]
    IN  IF heads = {} \/ Len(entries) > limit
        THEN [status |-> "ok", entries |-> entries]
        ELSE IF Cardinality(holders) > 1
        THEN [status |-> "corruption", entries |-> <<>>]
        ELSE MergePage(moved, limit,
                IF winner.deleted THEN entries ELSE Append(entries, winner))

Refusal(status) == [status |-> status, entries |-> <<>>, token |-> {}]

\* Database::Scan: argument checks, token check, merge, and a token for the
\* rest when the page is truncated.
DatabaseScan(bounds, limit, token) ==
    LET resume == IF token = {} THEN <<>>
                  ELSE (CHOOSE t \in token : TRUE).last_key
        page   == MergePage(Sources(bounds, resume), limit, <<>>)
        kept   == SubSeq(page.entries, 1, limit)
    IN  IF \/ limit = 0 \/ limit > MaximumScanEntries
           \/ \E b \in {bounds.begin} \cup bounds.end : Len(b) > MaxKeySize
           \/ \E e \in bounds.end : Before(e, bounds.begin)
           \/ \E t \in token : ~TokenAccepted(t, bounds)
        THEN Refusal("invalid")
        ELSE IF bounds.end = {bounds.begin} THEN Refusal("ok")
        ELSE IF page.status # "ok" THEN Refusal(page.status)
        ELSE IF Len(page.entries) > limit
        THEN [status |-> "ok", entries |-> kept,
              token |-> {EncodeScanToken(bounds, Last(kept).key)}]
        ELSE [status |-> "ok", entries |-> page.entries, token |-> {}]

\* Database::Get: Mutable, then Immutable, then the newest of all tables.
DatabaseGet(key) ==
    LET In(records) == {r \in records : r.key = key}
        found == UNION {TableGet(tables[i], key) : i \in DOMAIN tables}
        stored == IF In(mutable) # {} THEN In(mutable)
                  ELSE IF In(immutable) # {} THEN In(immutable)
                  ELSE {r \in found :
                            \A o \in found : o.sequence <= r.sequence}
    IN  {r \in stored : ~r.deleted}

----------------------------------------------------------------------------
(* The engine's steps that change what a scan reads.                       *)

NoReader == [state |-> "idle"]

Init ==
    /\ mutable = {} /\ immutable = {} /\ published = FALSE
    /\ tables = <<>> /\ version_id = 0 /\ last_sequence = 0
    /\ newest = {} /\ failures = 0
    /\ reader = NoReader

Replace(records, r) == {o \in records : o.key # r.key} \cup {r}

\* Put and Delete.
Write(key, deleted) ==
    LET r == [key |-> key, sequence |-> last_sequence + 1,
              deleted |-> deleted]
    IN  /\ last_sequence < MaxWrites
        /\ mutable' = Replace(mutable, r)
        /\ newest' = Replace(newest, r)
        /\ last_sequence' = last_sequence + 1
        /\ UNCHANGED <<immutable, published, tables, version_id, failures,
                       reader>>

\* FreezeMutable: the Mutable becomes the Immutable a flush works on.  The
\* flush of a background rotation, or one that failed, comes later.
Freeze ==
    /\ immutable = {} /\ mutable # {}
    /\ immutable' = mutable
    /\ mutable' = {}
    /\ UNCHANGED <<published, tables, version_id, last_sequence, newest,
                   failures, reader>>

\* ContinueFlush up to the switch to the Version with the new table.
Publish ==
    /\ tables' = Append(tables, EncodeTable(Len(tables) + 1, immutable))
    /\ version_id' = version_id + 1

\* Flush that drops the Immutable and leaves its published mark behind.
FlushKeepsMark ==
    /\ immutable # {}
    /\ IF published THEN UNCHANGED <<tables, version_id>> ELSE Publish
    /\ immutable' = {}
    /\ UNCHANGED <<published, mutable, last_sequence, newest, failures, reader>>

\* ContinueFlush that gets through.
Flush ==
    /\ immutable # {}
    /\ IF published THEN UNCHANGED <<tables, version_id>> ELSE Publish
    /\ immutable' = {}
    /\ published' = FALSE
    /\ UNCHANGED <<mutable, last_sequence, newest, failures, reader>>

\* ContinueFlush that fails after the switch, when the old log cannot be
\* removed or the new one opened: the Immutable stays until a retry.
FlushFails ==
    /\ immutable # {} /\ ~published
    /\ failures < MaxFailures
    /\ Publish
    /\ published' = TRUE
    /\ failures' = failures + 1
    /\ UNCHANGED <<mutable, immutable, last_sequence, newest, reader>>

----------------------------------------------------------------------------
(* A reader.                                                               *)

\* The newest live records among keys, in order: what a scan should list.
Listing(keys) == SortedRecords({r \in newest : r.key \in keys /\ ~r.deleted})

\* A call is a prefix scan or a range scan.
Bounds(c) == IF "prefix" \in DOMAIN c THEN PrefixBounds(c.prefix)
             ELSE [begin |-> c.begin, end |-> c.end]

\* The keys a call asks for, by definition rather than by its bounds.
Wanted(c) ==
    IF "prefix" \in DOMAIN c THEN {k \in Key : IsPrefix(c.prefix, k)}
    ELSE {k \in Key : NotAfter(c.begin, k) /\ ~PastEnd(k, c.end)}

PageState(page) == IF page.token = {} THEN "done" ELSE "paging"

FirstPage(c, limit) ==
    LET page == DatabaseScan(Bounds(c), limit, {})
    IN  /\ reader = NoReader
        /\ page.status = "ok"
        /\ reader' = [state |-> PageState(page), call |-> c,
                      entries |-> page.entries, token |-> page.token,
                      listing |-> Listing(Wanted(c))]
        /\ UNCHANGED engine

\* The next page, possibly of another size.
NextPage(limit) ==
    LET page == DatabaseScan(Bounds(reader.call), limit, reader.token)
    IN  /\ reader.state = "paging"
        /\ page.status = "ok"
        /\ reader' = [reader EXCEPT !.state = PageState(page),
                                    !.entries = @ \o page.entries,
                                    !.token = page.token]
        /\ UNCHANGED engine

\* The token is refused, the scan fails, or the caller has all it wants.
StopReading(limit) ==
    /\ \/ reader.state = "done"
       \/ /\ reader.state = "paging"
          /\ DatabaseScan(Bounds(reader.call), limit, reader.token).status
                # "ok"
    /\ reader' = NoReader
    /\ UNCHANGED engine

Next ==
    \/ \E key \in Key, deleted \in BOOLEAN : Write(key, deleted)
    \/ Freeze
    \/ Flush
    \/ FlushFails
    \/ \E c \in Call, limit \in Limit : FirstPage(c, limit)
    \/ \E limit \in Limit : NextPage(limit) \/ StopReading(limit)

Spec == Init /\ [][Next]_vars

----------------------------------------------------------------------------
(* Properties.                                                             *)

\* Types; a flush is half done only while there is an Immutable.
TypeOK ==
    /\ mutable \subseteq Record
    /\ immutable \subseteq Record
    /\ published \in BOOLEAN /\ (published => immutable # {})
    /\ version_id = Len(tables)
    /\ last_sequence \in 0..MaxWrites
    /\ failures \in 0..MaxFailures
    /\ reader.state \in {"idle", "paging", "done"}

\* Every file EncodeTable lays out passes SSTableReader::Open: its blocks
\* tile the data region, agree with the sparse index and the footer, and the
\* Bloom filter was made for as many keys as the file has.
TablesOpen == \A i \in DOMAIN tables : Opens(tables[i])

\* Database::Get of any key, through key ranges, Bloom filters and sparse
\* indexes of every table, returns the newest write of that key.
GetMatchesHistory ==
    \A key \in Key :
        DatabaseGet(key) = {r \in newest : r.key = key /\ ~r.deleted}

\* LoadAll lists exactly the newest live record of every key, in order.
LoadAllLists ==
    LET page == DatabaseScan(PrefixBounds(<<>>), MaximumScanEntries, {})
    IN  page.status = "ok" /\ page.entries = Listing(Key)

\* A scan of everything lists exactly the live keys, once each and in order,
\* from whatever mix of sources holds them, unless a flush stopped between
\* publishing its table and releasing the Immutable.
ScanListsAll == published \/ LoadAllLists

\* The pages of one scan, joined by accepted tokens, are together the start
\* of what the first page's moment holds for the call, whatever is written
\* or flushed in between and however the limit changes: no key twice, none
\* left out, no entry of a later moment.
PagesConsistent ==
    reader.state # "idle" => IsPrefix(reader.entries, reader.listing)

\* They are all of it once a page comes without a token.  A prefix scan asks
\* for the keys with that prefix, so this covers the end computed for it.
PagesComplete == reader.state = "done" => reader.entries = reader.listing

\* What a test says of a failed flush: the records of the Immutable it leaves
\* behind remain visible to Scan.
ImmutableScannable == immutable # {} => LoadAllLists
=============================================================================
