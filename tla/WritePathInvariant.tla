------------------------- MODULE WritePathInvariant --------------------------
(***************************************************************************)
(* The inductive invariant of module WritePath (WritePathInv), which       *)
(* module WritePathProofs proves.                                          *)
(*                                                                         *)
(* It rests on one picture of the bytes: whatever was written, cut,        *)
(* restored and repaired, a log is a row of encodings with sequence        *)
(* numbers 1, 2, 3, ..., all whole but the last. WellFormed says this      *)
(* position by position, so that no step needs an induction over the file. *)
(***************************************************************************)
EXTENDS WritePath

\* Where the encoding that byte i belongs to starts: the bytes before it.
Start(s, i) == i - s[i].place

\* The positions where a record ends, and the records that end somewhere.
Ends(s) == {i \in 1 .. Len(s) : s[i].place = Size(s[i].record)}

Ended(s) == {s[i].record : i \in Ends(s)}

PlacesOK(s) ==
    \A i \in 1 .. Len(s) : s[i].place <= i /\ s[i].place <= Size(s[i].record)

\* The bytes of an encoding follow each other from its first one.
RunsOK(s) ==
    \A i \in 1 .. Len(s) : \A j \in Start(s, i) + 1 .. i :
        s[j].record = s[i].record /\ s[j].place = j - Start(s, i)

\* Two bytes are of one encoding, or that of the first is whole, ends before
\* the other starts and has a smaller sequence number.
OrderOK(s) ==
    \A i, j \in 1 .. Len(s) : i <= j =>
        \/ Start(s, i) = Start(s, j)
        \/ /\ Start(s, i) + Size(s[i].record) <= Start(s, j)
           /\ s[i].record.sequence < s[j].record.sequence

\* Every smaller sequence number belongs to a record that ended before.
NoHole(s) ==
    \A i \in 1 .. Len(s) : \A n \in 1 .. s[i].record.sequence - 1 :
        \E j \in Ends(s) : j < i /\ s[j].record.sequence = n

WellFormed(s) == PlacesOK(s) /\ RunsOK(s) /\ OrderOK(s) /\ NoHole(s)

\* An undamaged byte says the size of its record, and damage has not made a
\* header announce more.
SizesOK(s) ==
    /\ \A i \in 1 .. Len(s) : ~s[i].damaged => s[i].size = Size(s[i].record)
    /\ NoneDisguised(s)

\* The first o bytes are whole records, the last one with sequence number n.
Boundary(s, o, n) ==
    \/ o = 0 /\ n = 0
    \/ o \in Ends(s) /\ s[o].record.sequence = n

\* The log ends with o bytes of r, everything before them being whole.
EndsWith(s, r, o) ==
    IF o = 0 THEN Boundary(s, Len(s), r.sequence - 1)
    ELSE Len(s) # 0 /\ s[Len(s)].record = r /\ s[Len(s)].place = o

\* The two files, and what was acknowledged: a record that ended on the disk is
\* in the file too, at the same place.
LogsOK ==
    /\ WellFormed(file) /\ WellFormed(disk)
    /\ SizesOK(file) /\ SizesOK(disk)
    /\ \A e \in Ends(disk) : e <= Len(file) /\ \A j \in 1 .. e : file[j] = disk[j]
    /\ acked \subseteq Ended(disk)
    /\ answered \subseteq Ended(file)
    /\ damages = 0 => Undamaged(file, 0, Len(file)) /\ Undamaged(disk, 0, Len(disk))

\* RecoverWal has read whole, undamaged records up to offset; it takes for a
\* torn tail only bytes in which no record ends.
RecoveryOK ==
    pc \in {"recover", "truncate", "sync_tail"} =>
        /\ Boundary(file, offset, max_sequence)
        /\ Undamaged(file, 0, offset)
        /\ recovered = Newest({file[i].record : i \in Ends(file) \cap 1 .. offset})
        /\ pc = "truncate" => \A e \in Ends(file) : e <= offset
        /\ pc = "sync_tail" => Len(file) = offset

\* Append writes behind the last whole record, and the MemTable holds every
\* record but the one of an Append that is not finished or failed.
MemoryOK ==
    /\ pc \in Up =>
          /\ Undamaged(file, 0, Len(file))
          /\ LET settled == pc = "ready" /\ ~failed
             IN  memtable = Newest({r \in Ended(file) : settled \/ r.sequence # last_sequence})
          /\ pc = "ready" /\ ~failed => Boundary(file, Len(file), last_sequence)
    /\ pc \notin Up => ~failed

AppendOK ==
    pc \in {"write", "sync", "apply"} =>
        /\ ~failed
        /\ record.sequence = last_sequence
        /\ pc = "write" => offset < Size(record) /\ EndsWith(file, record, offset)
        /\ pc \in {"sync", "apply"} => EndsWith(file, record, Size(record))
        /\ pc = "apply" /\ sync => disk = file

WritePathInv == TypeOK /\ LogsOK /\ RecoveryOK /\ MemoryOK /\ AppendOK

\* t is s and k bytes of r, from the one at place o + 1 on.
Appended(s, t, r, o, k) ==
    /\ Len(t) = Len(s) + k
    /\ \A i \in 1 .. Len(s) : t[i] = s[i]
    /\ \A i \in Len(s) + 1 .. Len(t) :
          t[i].record = r /\ t[i].place = o + (i - Len(s))

\* Two damaged bytes are needed to disguise a header: either the storage damages
\* one at most, or never these.
NoDisguise == Detectable \/ MaxDamage <= 1

\* The sets of positions that hold with each position all those before it, and
\* the records that end in one.
Beginnings(s) == {P \in SUBSET (1 .. Len(s)) : \A i \in P : 1 .. i \subseteq P}

EndedBy(s, P) == {s[i].record : i \in Ends(s) \cap P}
==============================================================================
