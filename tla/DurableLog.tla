----------------------------- MODULE DurableLog -----------------------------
(***************************************************************************)
(* What a write-ahead log promises the engine above it: a set of records    *)
(* with increasing sequence numbers that only a power failure shortens,     *)
(* and then never below the last record that was synced.  Database takes    *)
(* every WAL file to behave like this; WritePath shows that the bytes       *)
(* written by wal.cpp and repaired by recovery.cpp do.                      *)
(***************************************************************************)
EXTENDS Version

VARIABLES
    records,    \* the records a recovery would return
    synced      \* no power failure removes the records up to this number

Init == records = {} /\ synced = 0

\* A record is in the log as soon as its last byte is.
AppendRecord(r) ==
    /\ r.sequence > MaximumSequence(records)
    /\ records' = records \cup {r}
    /\ UNCHANGED synced

Sync ==
    /\ synced' = MaximumSequence(records)
    /\ UNCHANGED records

PowerFailure(cut) ==
    /\ records' = {r \in records : r.sequence <= cut \/ r.sequence <= synced}
    /\ synced' = MaximumSequence(records')

Next ==
    \/ \E r \in Record : AppendRecord(r)
    \/ Sync
    \/ \E cut \in 0 .. MaxSequence : PowerFailure(cut)

Spec == Init /\ [][Next]_<<records, synced>>
==============================================================================
