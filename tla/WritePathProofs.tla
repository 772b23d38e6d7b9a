--------------------------- MODULE WritePathProofs ---------------------------
(***************************************************************************)
(* Proofs about module WritePath, for every value of its constants: every  *)
(* step keeps WritePathInv, the properties follow from it, and the bytes   *)
(* implement the abstract log of module DurableLog.                        *)
(***************************************************************************)
EXTENDS WritePathInvariant, TLAPS

------------------------------------------------------------------------------
(* Sequences and sets of records *)

\* A sequence is a function on the numbers up to its length.
LEMMA SeqShape ==
    ASSUME NEW S, NEW s \in Seq(S)
    PROVE  Len(s) \in Nat /\ s \in [1 .. Len(s) -> S] /\ DOMAIN s = 1 .. Len(s)
OBVIOUS

\* Its elements are of the set it is over.
LEMMA SeqElement ==
    ASSUME NEW S, NEW s \in Seq(S), NEW n \in 1 .. Len(s)
    PROVE  s[n] \in S
OBVIOUS

\* Two sequences of the same length and elements are one.
LEMMA SeqSame ==
    ASSUME NEW S, NEW s \in Seq(S), NEW t \in Seq(S), Len(s) = Len(t),
           \A i \in 1 .. Len(s) : s[i] = t[i]
    PROVE  s = t
OBVIOUS

\* What EXCEPT returns.
LEMMA SeqExcept ==
    ASSUME NEW S, NEW s \in Seq(S), NEW i \in 1 .. Len(s), NEW e \in S
    PROVE  /\ [s EXCEPT ![i] = e] \in Seq(S)
           /\ Len([s EXCEPT ![i] = e]) = Len(s)
           /\ \A j \in 1 .. Len(s) :
                 [s EXCEPT ![i] = e][j] = IF j = i THEN e ELSE s[j]
OBVIOUS

\* What \o returns.
LEMMA SeqConcat ==
    ASSUME NEW S, NEW s \in Seq(S), NEW t \in Seq(S)
    PROVE  /\ s \o t \in Seq(S)
           /\ Len(s \o t) = Len(s) + Len(t)
           /\ \A i \in 1 .. Len(s) + Len(t) :
                 (s \o t)[i] = IF i <= Len(s) THEN s[i] ELSE t[i - Len(s)]
OBVIOUS

\* What SubSeq returns.
LEMMA SeqPart ==
    ASSUME NEW S, NEW s, NEW m \in Int, NEW n \in Int, \A i \in m .. n : s[i] \in S
    PROVE  /\ SubSeq(s, m, n) \in Seq(S)
           /\ Len(SubSeq(s, m, n)) = IF m <= n THEN n - m + 1 ELSE 0
           /\ \A i \in 1 .. n - m + 1 : SubSeq(s, m, n)[i] = s[m + i - 1]
OBVIOUS

\* MaximumSequence is a sequence number of the set, and bounds all of them.
LEMMA MaximumSequenceOf ==
    ASSUME NEW S \in SUBSET Record
    PROVE  /\ MaximumSequence(S) \in 0 .. MaxSequence
           /\ \A r \in S : r.sequence <= MaximumSequence(S)
           /\ S # {} => \E r \in S : r.sequence = MaximumSequence(S)
<1>1. CASE S = {}
    BY <1>1, VersionAssumption DEF MaximumSequence, VersionAssumption
<1>2. CASE S # {}
    <2>1. MaxSequence \in Nat /\ Sequences(S) \in SUBSET (0 .. MaxSequence) /\ Sequences(S) # {}
        BY <1>2, VersionAssumption DEF Sequences, Record, VersionAssumption
    <2>2. \E m \in Sequences(S) : \A k \in Sequences(S) : k <= m
        BY Zenon, <2>1, FiniteOrderAssumption DEF FiniteOrder, HasGreatest
    <2>3. /\ MaximumSequence(S) \in Sequences(S)
          /\ \A k \in Sequences(S) : k <= MaximumSequence(S)
        BY Zenon, <1>2, <2>2 DEF MaximumSequence
    <2> QED BY Zenon, <2>1, <2>3 DEF Sequences
<1> QED BY Zenon, <1>1, <1>2

\* A MemTable after MemTable::Add is the newest of one record more.
LEMMA InsertNewest ==
    ASSUME NEW S \in SUBSET Record, NEW r \in Record,
           \A q \in S : q.sequence < r.sequence
    PROVE  Newest(S \cup {r}) = Insert(Newest(S), r)
<1>1. r.sequence \in Int /\ \A q \in S : q.sequence \in Int
    BY DEF Record
<1>2. \A q \in S : ~(r.sequence <= q.sequence) /\ q.sequence <= r.sequence
    BY <1>1
<1>3. r.sequence <= r.sequence
    BY <1>1
<1>4. ASSUME NEW q \in Newest(S \cup {r}) PROVE q \in Insert(Newest(S), r)
    BY Zenon, <1>2 DEF Newest, Insert
<1>5. ASSUME NEW q \in Insert(Newest(S), r) PROVE q \in Newest(S \cup {r})
    BY Zenon, <1>2, <1>3 DEF Newest, Insert
<1> QED BY Zenon, <1>4, <1>5

------------------------------------------------------------------------------
(* Facts about well-formed logs *)

\* A header is not empty, and a record is longer than its header.
LEMMA SizeOf ==
    ASSUME NEW r \in Record
    PROVE  /\ Size(r) \in Nat /\ HeaderSize \in Nat /\ HeaderSize > 1
           /\ Size(r) > HeaderSize /\ Size(r) \in Announced
           /\ Size(r) <= HeaderSize + 1 + ValueSize
<1>1. HeaderSize \in Nat /\ HeaderSize > 1 /\ ValueSize \in Nat
      /\ MaxRecordSize \in Nat /\ MaxRecordSize >= HeaderSize + 1 + ValueSize
    BY WritePathAssumption DEF WritePathAssumption
<1> QED BY <1>1 DEF Size, Announced

\* A header has at least two bytes.
LEMMA HeaderIsNat == HeaderSize \in Nat /\ HeaderSize > 1
BY WritePathAssumption DEF WritePathAssumption

\* The types of what a byte holds.
LEMMA ByteOf ==
    ASSUME NEW s \in Seq(Byte), NEW i \in 1 .. Len(s)
    PROVE  /\ Len(s) \in Nat /\ i \in Nat
           /\ s[i].record \in Record
           /\ s[i].record.sequence \in 1 .. MaxSequence
           /\ s[i].record.sequence \in Nat
           /\ s[i].place \in Nat /\ s[i].place >= 1
           /\ s[i].damaged \in BOOLEAN
           /\ s[i].size \in Int
           /\ Size(s[i].record) \in Nat
           /\ Start(s, i) \in Int /\ Start(s, i) = i - s[i].place
<1>1. Len(s) \in Nat /\ s[i] \in Byte
    BY Zenon, SeqShape, SeqElement
<1>2. s[i].record \in Record /\ s[i].place \in 1 .. HeaderSize + 1 + ValueSize
      /\ s[i].damaged \in BOOLEAN /\ s[i].size \in Announced
    BY Zenon, <1>1 DEF Byte
<1>a. s[i].size \in Int
    BY <1>2, WritePathAssumption DEF Announced, WritePathAssumption
<1>3. s[i].record.sequence \in 1 .. MaxSequence
    BY Zenon, <1>2 DEF Record
<1>4. MaxSequence \in Nat /\ HeaderSize \in Nat /\ ValueSize \in Nat
    BY Zenon, VersionAssumption, WritePathAssumption DEF VersionAssumption, WritePathAssumption
<1>5. Size(s[i].record) \in Nat
    BY Zenon, <1>2, SizeOf
<1> QED BY SMTT(30), <1>1, <1>2, <1>a, <1>3, <1>4, <1>5 DEF Start

\* What a damaged field may say.
LEMMA MayReadTyped ==
    ASSUME NEW b \in Byte, NEW size \in MayRead(b)
    PROVE  size \in Announced
<1>1. b.size \in Announced /\ b.place \in Nat /\ b.place >= 1
    <2>1. b.size \in Announced /\ b.place \in 1 .. HeaderSize + 1 + ValueSize
        BY Zenon DEF Byte
    <2> QED BY <2>1, WritePathAssumption DEF WritePathAssumption
<1>2. b.place = 1 \/ b.place = 2 \/ b.place \in 3 .. HeaderSize \/ b.place > HeaderSize
    BY <1>1, HeaderIsNat
<1>3. 0 \in Announced
    BY Zenon DEF Announced
<1> QED BY Zenon, <1>1, <1>2, <1>3 DEF MayRead

\* The positions where a record ends, and what is there.
LEMMA EndOf ==
    ASSUME NEW s \in Seq(Byte), NEW e \in Ends(s)
    PROVE  /\ e \in 1 .. Len(s) /\ e \in Nat
           /\ s[e].record \in Record
           /\ s[e].place = Size(s[e].record)
           /\ Start(s, e) = e - Size(s[e].record)
BY Zenon, ByteOf DEF Ends

\* Sequence numbers do not decrease along a log.
LEMMA SequencesGrow ==
    ASSUME NEW s \in Seq(Byte), WellFormed(s),
           NEW i \in 1 .. Len(s), NEW j \in 1 .. Len(s), i <= j
    PROVE  s[i].record.sequence <= s[j].record.sequence
<1>1. CASE Start(s, i) = Start(s, j)
    <2>1. i \in Start(s, j) + 1 .. j
        <3>1. i \in Nat /\ j \in Nat /\ s[i].place \in Nat /\ s[i].place >= 1
              /\ Start(s, i) = i - s[i].place
            BY Zenon, ByteOf DEF Start
        <3> QED BY <1>1, <3>1
    <2>2. s[i].record = s[j].record
        BY Zenon, <2>1 DEF WellFormed, RunsOK
    <2> QED BY <2>2, ByteOf
<1>2. CASE Start(s, i) # Start(s, j)
    <2>1. s[i].record.sequence < s[j].record.sequence
        BY Zenon, <1>2 DEF WellFormed, OrderOK
    <2> QED BY SMTT(30), <2>1, ByteOf
<1> QED BY Zenon, <1>1, <1>2

\* Two records with one sequence number are one record.
LEMMA SameSequence ==
    ASSUME NEW s \in Seq(Byte), WellFormed(s),
           NEW i \in 1 .. Len(s), NEW j \in 1 .. Len(s),
           s[i].record.sequence = s[j].record.sequence
    PROVE  s[i].record = s[j].record /\ Start(s, i) = Start(s, j)
<1>1. ASSUME NEW a \in 1 .. Len(s), NEW b \in 1 .. Len(s), a <= b,
             s[a].record.sequence = s[b].record.sequence
      PROVE  s[a].record = s[b].record /\ Start(s, a) = Start(s, b)
    <2>1. ~(s[a].record.sequence < s[b].record.sequence)
        BY SMTT(30), <1>1, ByteOf
    <2>2. Start(s, a) = Start(s, b)
        BY Zenon, <1>1, <2>1 DEF WellFormed, OrderOK
    <2>3. a \in Start(s, b) + 1 .. b
        <3>1. /\ a \in Nat /\ s[a].place \in Nat /\ s[a].place >= 1
              /\ Start(s, a) = a - s[a].place
              /\ b \in Nat /\ Start(s, b) \in Int
            BY Zenon, ByteOf
        <3> QED BY <1>1, <2>2, <3>1
    <2> QED BY Zenon, <2>2, <2>3 DEF WellFormed, RunsOK
<1>2. i <= j \/ j <= i
    BY ByteOf
<1> QED BY Zenon, <1>1, <1>2

\* Behind the end of a record, or at the beginning, another record starts.
LEMMA BehindBoundary ==
    ASSUME NEW s \in Seq(Byte), WellFormed(s), NEW n, NEW o, Boundary(s, o, n),
           NEW i \in 1 .. Len(s), o < i
    PROVE  /\ o \in Nat /\ n \in Nat
           /\ o <= Start(s, i)
           /\ n < s[i].record.sequence
<1>1. CASE o = 0 /\ n = 0
    <2>1. s[i].place <= i
        BY Zenon DEF WellFormed, PlacesOK
    <2> QED BY <1>1, <2>1, ByteOf
<1>2. CASE o \in Ends(s) /\ s[o].record.sequence = n
    <2>1. o \in 1 .. Len(s) /\ o \in Nat /\ s[o].place = Size(s[o].record)
          /\ Start(s, o) = o - Size(s[o].record) /\ n \in Nat
        BY Zenon, <1>2, EndOf, ByteOf
    <2>2. o <= i
        BY <2>1, ByteOf
    <2>3. CASE Start(s, o) = Start(s, i)
        <3>1. o \in Start(s, i) + 1 .. i
            <4>1. i \in Nat /\ Start(s, i) \in Int /\ Size(s[o].record) >= 1
                BY Zenon, <2>1, ByteOf
            <4>2. Size(s[o].record) \in Nat
                BY Zenon, <2>1, ByteOf
            <4> QED BY <2>1, <2>2, <2>3, <4>1, <4>2
        <3>2. s[o].record = s[i].record
            BY Zenon, <3>1 DEF WellFormed, RunsOK
        <3>3. s[i].place <= Size(s[i].record)
            BY Zenon DEF WellFormed, PlacesOK
        <3> QED BY <2>1, <2>3, <3>2, <3>3, ByteOf
    <2>4. CASE Start(s, o) # Start(s, i)
        <3>1. Start(s, o) + Size(s[o].record) <= Start(s, i)
              /\ s[o].record.sequence < s[i].record.sequence
            BY Zenon, <2>1, <2>2, <2>4 DEF WellFormed, OrderOK
        <3> QED BY <1>2, <2>1, <3>1, ByteOf
    <2> QED BY Zenon, <2>3, <2>4
<1> QED BY Zenon, <1>1, <1>2 DEF Boundary

\* The bytes behind a boundary are those of one encoding, as far as it goes.
LEMMA NextEncoding ==
    ASSUME NEW s \in Seq(Byte), WellFormed(s), NEW n, NEW o, Boundary(s, o, n), o < Len(s),
           NEW k \in Nat \ {0}, o + k <= Len(s), k <= Size(s[o + 1].record)
    PROVE  /\ s[o + k].record = s[o + 1].record
           /\ s[o + k].place = k
<1>1. o \in Nat /\ o + 1 \in 1 .. Len(s) /\ o + k \in 1 .. Len(s) /\ Len(s) \in Nat
    <2>1. o \in Nat /\ Len(s) \in Nat
        BY SeqShape, EndOf DEF Boundary
    <2> QED BY <2>1
<1>2. Start(s, o + 1) = o /\ s[o + 1].place = 1
    <2>1. o <= Start(s, o + 1)
        BY <1>1, BehindBoundary
    <2> QED BY SMTT(30), <1>1, <2>1, ByteOf
<1>3. Start(s, o + k) = o
    <2>1. o + 1 <= o + k
        BY <1>1
    <2>2. ASSUME o + Size(s[o + 1].record) <= Start(s, o + k) PROVE FALSE
        <3>1. /\ Start(s, o + k) = o + k - s[o + k].place /\ s[o + k].place \in Nat
              /\ s[o + k].place >= 1 /\ Size(s[o + 1].record) \in Nat
            BY SMTT(30), <1>1, ByteOf
        <3> QED BY SMTT(30), <1>1, <2>2, <3>1
    <2> QED BY Zenon, <1>1, <1>2, <2>1, <2>2 DEF WellFormed, OrderOK
<1>4. o + 1 \in Start(s, o + k) + 1 .. o + k
    BY <1>1, <1>3
<1>5. s[o + k].record = s[o + 1].record
    BY Zenon, <1>1, <1>4 DEF WellFormed, RunsOK
<1> QED BY SMTT(30), <1>1, <1>3, <1>5, ByteOf

\* A prefix of a log.
LEMMA PrefixOf ==
    ASSUME NEW s \in Seq(Byte), NEW n \in 0 .. Len(s)
    PROVE  /\ Prefix(s, n) \in Seq(Byte)
           /\ Len(Prefix(s, n)) = n
           /\ \A i \in 1 .. n : Prefix(s, n)[i] = s[i]
<1>1. Len(s) \in Nat /\ n \in Nat
    BY SeqShape
<1>2. \A i \in 1 .. n : s[i] \in Byte
    BY <1>1, SeqElement
<1>3. /\ SubSeq(s, 1, n) \in Seq(Byte)
      /\ Len(SubSeq(s, 1, n)) = IF 1 <= n THEN n - 1 + 1 ELSE 0
      /\ \A i \in 1 .. n - 1 + 1 : SubSeq(s, 1, n)[i] = s[1 + i - 1]
    BY <1>1, <1>2, SeqPart, 1 \in Int, n \in Int
<1>4. n - 1 + 1 = n /\ \A i \in 1 .. n : 1 + i - 1 = i
    BY <1>1
<1> QED BY <1>1, <1>3, <1>4 DEF Prefix

\* What begins like a well-formed log is well formed: being damaged or not does
\* not matter, and a record ends in it where it ends in the longer one.
LEMMA BeginningWellFormed ==
    ASSUME NEW s \in Seq(Byte), NEW t \in Seq(Byte), WellFormed(s), Len(t) <= Len(s),
           \A i \in 1 .. Len(t) : t[i].record = s[i].record /\ t[i].place = s[i].place
    PROVE  /\ WellFormed(t)
           /\ Ends(t) = Ends(s) \cap 1 .. Len(t)
           /\ Ended(t) = {s[i].record : i \in Ends(s) \cap 1 .. Len(t)}
<1>1. Len(s) \in Nat /\ Len(t) \in Nat /\ 1 .. Len(t) \subseteq 1 .. Len(s)
    <2>1. Len(s) \in Nat /\ Len(t) \in Nat
        BY Zenon, SeqShape
    <2> QED BY <2>1
<1>2. \A i \in 1 .. Len(t) : Start(t, i) = Start(s, i)
    BY Zenon DEF Start
<1>3. Ends(t) = Ends(s) \cap 1 .. Len(t)
    BY Zenon, <1>1 DEF Ends
<1>4. PlacesOK(t)
    BY Zenon, <1>1 DEF WellFormed, PlacesOK
<1>5. RunsOK(t)
    <2> SUFFICES ASSUME NEW i \in 1 .. Len(t), NEW j \in Start(t, i) + 1 .. i
                 PROVE  t[j].record = t[i].record /\ t[j].place = j - Start(t, i)
        BY Zenon DEF RunsOK
    <2>1. i \in 1 .. Len(s) /\ j \in Start(s, i) + 1 .. i
        BY Zenon, <1>1, <1>2
    <2>2. s[j].record = s[i].record /\ s[j].place = j - Start(s, i)
        BY Zenon, <2>1 DEF WellFormed, RunsOK
    <2>3. j \in 1 .. Len(t)
        <3>1. s[i].place <= i /\ Start(s, i) \in Int /\ Start(s, i) = i - s[i].place
              /\ i \in Nat /\ s[i].place \in Nat
            BY Zenon, <2>1, ByteOf DEF WellFormed, PlacesOK
        <3> QED BY SMTT(30), <1>1, <2>1, <3>1
    <2> QED BY Zenon, <1>2, <2>2, <2>3
<1>6. OrderOK(t)
    BY Zenon, <1>1, <1>2 DEF WellFormed, OrderOK
<1>7. NoHole(t)
    <2> SUFFICES ASSUME NEW i \in 1 .. Len(t), NEW n \in 1 .. t[i].record.sequence - 1
                 PROVE  \E j \in Ends(t) : j < i /\ t[j].record.sequence = n
        BY Zenon DEF NoHole
    <2>1. i \in 1 .. Len(s) /\ n \in 1 .. s[i].record.sequence - 1
        BY Zenon, <1>1
    <2>2. PICK j \in Ends(s) : j < i /\ s[j].record.sequence = n
        BY Zenon, <2>1 DEF WellFormed, NoHole
    <2>3. j \in 1 .. Len(t)
        BY <1>1, <2>2, EndOf
    <2> QED BY Zenon, <1>3, <2>2, <2>3
<1>8. Ended(t) = {s[i].record : i \in Ends(s) \cap 1 .. Len(t)}
    BY Zenon, <1>3 DEF Ended
<1> QED BY Zenon, <1>3, <1>4, <1>5, <1>6, <1>7, <1>8 DEF WellFormed

\* The same of a prefix.
LEMMA PrefixWellFormed ==
    ASSUME NEW s \in Seq(Byte), WellFormed(s), NEW n \in 0 .. Len(s)
    PROVE  /\ WellFormed(Prefix(s, n))
           /\ Ends(Prefix(s, n)) = Ends(s) \cap 1 .. n
           /\ Ended(Prefix(s, n)) = {s[i].record : i \in Ends(s) \cap 1 .. n}
<1> DEFINE t == Prefix(s, n)
<1>1. t \in Seq(Byte) /\ Len(t) = n /\ \A i \in 1 .. n : t[i] = s[i]
    BY Zenon, PrefixOf
<1>2. Len(t) <= Len(s)
    BY <1>1, SeqShape
<1> HIDE DEF t
<1>3. WellFormed(t) /\ Ends(t) = Ends(s) \cap 1 .. Len(t)
      /\ Ended(t) = {s[i].record : i \in Ends(s) \cap 1 .. Len(t)}
    BY Zenon, <1>1, <1>2, BeginningWellFormed
<1> QED BY Zenon, <1>1, <1>3 DEF t

\* MemTable::Add of a record newer than all others: Newest of the longer log.
LEMMA NewestInsert ==
    ASSUME NEW S \in SUBSET Record, NEW r \in Record,
           \A q \in S : q.sequence < r.sequence
    PROVE  /\ Newest(S \cup {r}) = Insert(Newest(S), r)
           /\ AddAccepts(Newest(S), r)
BY Zenon, InsertNewest DEF AddAccepts, Newest

\* write(2) of the next k bytes of r, behind the o bytes of r that are there:
\* the log stays well formed, and r ends in it when its last byte is written.
LEMMA AppendWellFormed ==
    ASSUME NEW s \in Seq(Byte), WellFormed(s), NEW r \in Record, NEW o \in Nat,
           EndsWith(s, r, o), NEW k \in Nat \ {0}, o + k <= Size(r),
           NEW t \in Seq(Byte), Appended(s, t, r, o, k)
    PROVE  /\ WellFormed(t)
           /\ EndsWith(t, r, o + k)
           /\ Ends(t) = Ends(s) \cup (IF o + k = Size(r) THEN {Len(t)} ELSE {})
           /\ \A i \in 1 .. Len(s) : o < Size(r) /\ i \in Ends(s) =>
                                         s[i].record.sequence < r.sequence
<1> DEFINE L == Len(s)
           b == L - o
           New == L + 1 .. Len(t)
<1> USE DEF Appended
<1>1. /\ L \in Nat /\ Len(t) \in Nat /\ Len(t) = L + k
      /\ Size(r) \in Nat /\ r.sequence \in Nat /\ r.sequence >= 1
    BY SeqShape, SizeOf, VersionAssumption DEF Record, VersionAssumption
<1>2. b \in Int /\ b >= 0
    <2>1. CASE o = 0
        BY <1>1, <2>1
    <2>2. CASE o # 0
        <3>1. L \in 1 .. L /\ s[L].place = o
            BY <1>1, <2>2 DEF EndsWith
        <3>2. o <= L
            BY Zenon, <3>1 DEF WellFormed, PlacesOK
        <3> QED BY <1>1, <3>2
    <2> QED BY Zenon, <2>1, <2>2
<1>3. 1 .. Len(t) = 1 .. L \cup New /\ 1 .. L \cap New = {} /\ New # {}
    BY SMTT(30), <1>1
<1>4. \A i \in 1 .. L : /\ Start(t, i) = Start(s, i)
                        /\ t[i].record = s[i].record /\ t[i].place = s[i].place
    BY Zenon DEF Start
<1>5. \A i \in New : Start(t, i) = b /\ i > L /\ i \in Nat /\ t[i].place = i - b
    BY <1>1 DEF Start
<1>6. ASSUME NEW j \in b + 1 .. L
      PROVE  j \in 1 .. L /\ s[j].record = r /\ s[j].place = j - b
    <2>1. o # 0 /\ L \in 1 .. L /\ j \in 1 .. L
        BY <1>1, <1>2, <1>6
    <2>2. s[L].record = r /\ s[L].place = o
        BY Zenon, <2>1 DEF EndsWith
    <2>3. Start(s, L) = b
        BY Zenon, <2>2 DEF Start
    <2> QED BY Zenon, <1>6, <2>1, <2>2, <2>3 DEF WellFormed, RunsOK
<1>7. ASSUME NEW i \in 1 .. L
      PROVE  \/ Start(s, i) = b /\ s[i].record = r
             \/ /\ Start(s, i) + Size(s[i].record) <= b
                /\ s[i].record.sequence < r.sequence
    <2>1. L \in 1 .. L /\ i <= L /\ L # 0
        BY <1>1
    <2>2. i \in Nat /\ Start(s, i) \in Int /\ Start(s, i) = i - s[i].place
          /\ s[i].place \in Nat /\ s[i].place >= 1
          /\ Size(s[i].record) \in Nat /\ s[i].record.sequence \in Nat
        BY Zenon, ByteOf
    <2>3. \/ Start(s, i) = Start(s, L)
          \/ /\ Start(s, i) + Size(s[i].record) <= Start(s, L)
             /\ s[i].record.sequence < s[L].record.sequence
        BY Zenon, <2>1 DEF WellFormed, OrderOK
    <2>4. Start(s, i) = Start(s, L) => s[i].record = s[L].record
        <3>1. Start(s, i) = Start(s, L) => i \in Start(s, L) + 1 .. L
            BY SMTT(30), <1>1, <2>1, <2>2
        <3> QED BY Zenon, <2>1, <3>1 DEF WellFormed, RunsOK
    <2>5. CASE o # 0
        <3>1. s[L].record = r /\ Start(s, L) = b
            BY Zenon, <2>5 DEF EndsWith, Start
        <3> QED BY Zenon, <2>3, <2>4, <3>1
    <2>6. CASE o = 0
        <3>1. L \in Ends(s) /\ s[L].record.sequence = r.sequence - 1
            BY Zenon, <2>1, <2>6 DEF EndsWith, Boundary
        <3>2. Start(s, L) = L - Size(s[L].record) /\ b = L /\ Size(s[L].record) \in Nat
            BY <1>1, <2>1, <2>6, <3>1, EndOf, ByteOf
        <3>3. CASE Start(s, i) = Start(s, L)
            <4>1. Start(s, i) + Size(s[i].record) = L
                BY <1>1, <2>4, <3>2, <3>3
            <4>2. s[i].record.sequence < r.sequence
                BY SMTT(30), <1>1, <2>4, <3>1, <3>3
            <4> QED BY SMTT(30), <1>1, <3>2, <4>1, <4>2
        <3>4. CASE Start(s, i) # Start(s, L)
            <4>1. Start(s, i) + Size(s[i].record) <= L - Size(s[L].record)
                BY Zenon, <2>3, <3>2, <3>4
            <4>2. Start(s, i) + Size(s[i].record) <= L
                BY SMTT(30), <1>1, <2>2, <3>2, <4>1
            <4>3. s[i].record.sequence < r.sequence - 1
                BY Zenon, <2>3, <3>1, <3>4
            <4>4. s[i].record.sequence < r.sequence
                BY SMTT(30), <1>1, <2>2, <4>3
            <4> QED BY Zenon, <3>2, <4>2, <4>4
        <3> QED BY Zenon, <3>3, <3>4
    <2> QED BY Zenon, <2>5, <2>6
<1> HIDE DEF L, b, New
<1>8. Ends(t) = Ends(s) \cup (IF o + k = Size(r) THEN {Len(t)} ELSE {})
    <2>1. \A i \in 1 .. L : i \in Ends(t) <=> i \in Ends(s)
        BY Zenon, <1>3, <1>4 DEF Ends, L
    <2>2. \A i \in New : i \in Ends(t) <=> o + k = Size(r) /\ i = Len(t)
        <3>1. \A i \in New : t[i].record = r /\ t[i].place = o + (i - L) /\ i \in 1 .. Len(t)
                             /\ i \in Nat /\ i <= L + k
            BY SMTT(30), <1>1, <1>3 DEF L, New
        <3>2. ASSUME NEW i \in New
              PROVE  o + (i - L) = Size(r) <=> o + k = Size(r) /\ i = Len(t)
            <4>1. i \in Nat /\ i <= L + k
                BY Zenon, <3>1
            <4> HIDE DEF Appended
            <4> QED BY SMTT(30), <1>1, <4>1
        <3> QED BY Zenon, <3>1, <3>2 DEF Ends
    <2>3. Ends(t) \subseteq 1 .. L \cup New /\ Ends(s) \subseteq 1 .. L
        BY Zenon, <1>3 DEF Ends, L
    <2>4. Len(t) \in New
        BY <1>1 DEF New
    <2> QED BY Zenon, <2>1, <2>2, <2>3, <2>4
<1>9. PlacesOK(t)
    <2>1. \A i \in 1 .. L : t[i].place <= i /\ t[i].place <= Size(t[i].record)
        BY Zenon, <1>4 DEF WellFormed, PlacesOK, L
    <2>2. \A i \in New : t[i].place <= i /\ t[i].place <= Size(t[i].record)
        <3>1. \A i \in New : t[i].record = r /\ t[i].place = o + (i - L)
                             /\ i \in Nat /\ i <= L + k
            BY <1>1, <1>3 DEF L, New
        <3> QED BY SMTT(30), <1>1, <1>2, <1>5, <3>1 DEF b
    <2> QED BY Zenon, <1>3, <2>1, <2>2 DEF PlacesOK
<1>10. RunsOK(t)
    <2> SUFFICES ASSUME NEW i \in 1 .. Len(t), NEW j \in Start(t, i) + 1 .. i
                 PROVE  t[j].record = t[i].record /\ t[j].place = j - Start(t, i)
        BY Zenon DEF RunsOK
    <2>1. CASE i \in 1 .. L
        <3>1. s[j].record = s[i].record /\ s[j].place = j - Start(s, i)
            BY Zenon, <1>4, <2>1 DEF WellFormed, RunsOK, L
        <3>2. j \in 1 .. L
            <4>1. s[i].place <= i /\ Start(s, i) \in Int /\ Start(s, i) = i - s[i].place
                  /\ i \in Nat /\ s[i].place \in Nat
                BY Zenon, <2>1, ByteOf DEF WellFormed, PlacesOK, L
            <4> QED BY SMTT(30), <1>1, <1>4, <2>1, <4>1
        <3> QED BY Zenon, <1>4, <2>1, <3>1, <3>2
    <2>2. CASE i \in New
        <3>1. t[i].record = r /\ Start(t, i) = b
            BY Zenon, <1>5, <2>2 DEF L, New
        <3>2. CASE j \in New
            BY Zenon, <1>5, <3>1, <3>2 DEF L, New
        <3>3. CASE j \notin New
            <4>1. j \in b + 1 .. L
                BY SMTT(30), <1>1, <1>2, <2>2, <3>1, <3>3 DEF New
            <4> QED BY Zenon, <1>4, <1>6, <3>1, <4>1
        <3> QED BY Zenon, <3>2, <3>3
    <2> QED BY Zenon, <1>3, <2>1, <2>2
<1>11. OrderOK(t)
    <2> SUFFICES ASSUME NEW i \in 1 .. Len(t), NEW j \in 1 .. Len(t), i <= j
                 PROVE  \/ Start(t, i) = Start(t, j)
                        \/ /\ Start(t, i) + Size(t[i].record) <= Start(t, j)
                           /\ t[i].record.sequence < t[j].record.sequence
        BY Zenon DEF OrderOK
    <2>1. CASE i \in 1 .. L /\ j \in 1 .. L
        BY Zenon, <1>4, <2>1 DEF WellFormed, OrderOK, L
    <2>2. CASE i \in New /\ j \in New
        BY Zenon, <1>5, <2>2
    <2>3. CASE i \in 1 .. L /\ j \in New
        BY Zenon, <1>4, <1>5, <1>7, <2>3 DEF L, New
    <2>4. CASE i \in New /\ j \in 1 .. L
        BY <1>1, <1>5, <2>4
    <2> QED BY Zenon, <1>3, <2>1, <2>2, <2>3, <2>4
<1>12. NoHole(t)
    <2> SUFFICES ASSUME NEW i \in 1 .. Len(t), NEW n \in 1 .. t[i].record.sequence - 1
                 PROVE  \E j \in Ends(t) : j < i /\ t[j].record.sequence = n
        BY Zenon DEF NoHole
    <2>1. \A j \in Ends(s) : j \in Ends(t) /\ j \in Nat /\ j <= L /\ t[j] = s[j]
        BY <1>1, <1>8, EndOf DEF L
    <2>2. CASE i \in 1 .. L
        <3>1. PICK j \in Ends(s) : j < i /\ s[j].record.sequence = n
            BY Zenon, <1>4, <2>2 DEF WellFormed, NoHole, L
        <3> QED BY Zenon, <2>1, <3>1
    <2>3. CASE i \in New
        <3>1. n \in 1 .. r.sequence - 1 /\ i > L /\ i \in Nat
            BY Zenon, <1>5, <2>3 DEF New, L
        <3>2. L # 0
            <4>1. L = 0 => o = 0
                BY Zenon DEF EndsWith, L
            <4>2. L = 0 => L \notin Ends(s)
                BY DEF Ends, L
            <4>3. L = 0 => r.sequence - 1 = 0
                BY Zenon, <4>1, <4>2 DEF EndsWith, Boundary, L
            <4> QED BY <1>1, <3>1, <4>3
        <3>3. L \in 1 .. Len(s)
            BY <1>1, <3>2 DEF L
        <3>4. CASE n \in 1 .. s[L].record.sequence - 1
            <4>1. PICK j \in Ends(s) : j < L /\ s[j].record.sequence = n
                BY Zenon, <3>3, <3>4 DEF WellFormed, NoHole
            <4>2. j < i
                BY <1>1, <2>1, <3>1, <4>1
            <4> QED BY Zenon, <2>1, <4>1, <4>2
        <3>5. CASE n \notin 1 .. s[L].record.sequence - 1
            <4>1. s[L].record.sequence \in Nat
                BY Zenon, <3>3, ByteOf
            <4>2. o = 0
                BY Zenon, <3>1, <3>2, <3>5 DEF EndsWith, L
            <4>3. L \in Ends(s) /\ s[L].record.sequence = r.sequence - 1
                BY Zenon, <3>2, <4>2 DEF EndsWith, Boundary, L
            <4>4. n = s[L].record.sequence
                BY SMTT(30), <1>1, <3>1, <3>5, <4>1, <4>3
            <4> QED BY Zenon, <2>1, <3>1, <4>3, <4>4
        <3> QED BY Zenon, <3>4, <3>5
    <2> QED BY Zenon, <1>3, <2>2, <2>3
<1>13. EndsWith(t, r, o + k)
    <2>1. Len(t) \in New /\ Len(t) # 0 /\ o + k # 0
        BY <1>1 DEF New
    <2> QED BY <1>1, <2>1 DEF EndsWith, New, L
<1>14. \A i \in 1 .. L : o < Size(r) /\ i \in Ends(s) => s[i].record.sequence < r.sequence
    <2> SUFFICES ASSUME NEW i \in 1 .. L, o < Size(r), i \in Ends(s),
                        Start(s, i) = b, s[i].record = r
                 PROVE  FALSE
        BY Zenon, <1>7
    <2>1. Start(s, i) = i - Size(r) /\ i \in Nat /\ i <= L
        BY <1>1, EndOf DEF L
    <2> QED BY <1>1, <2>1 DEF b
<1> QED BY Zenon, <1>8, <1>9, <1>10, <1>11, <1>12, <1>13, <1>14 DEF WellFormed, L

\* A record that ends at e is encoded in the bytes before e, and nowhere else
\* does a decoder find a record.
LEMMA EncodedBefore ==
    ASSUME NEW s \in Seq(Byte), WellFormed(s), NEW e \in Ends(s)
    PROVE  LET p == e - Size(s[e].record)
           IN  /\ p \in 0 .. Len(s) - 1
               /\ s[p + 1].record = s[e].record
               /\ EncodesAt(s, p, Size(s[e].record), s[e].record)
<1> DEFINE r == s[e].record
           p == e - Size(r)
<1>1. /\ e \in 1 .. Len(s) /\ e \in Nat /\ Len(s) \in Nat
      /\ r \in Record /\ Size(r) \in Nat /\ Size(r) >= 1
      /\ Start(s, e) = p /\ s[e].place = Size(r)
    <2>1. r \in Record /\ Start(s, e) = p /\ e \in 1 .. Len(s) /\ s[e].place = Size(r)
        BY Zenon, EndOf
    <2>2. Size(r) \in Nat /\ Size(r) >= 1 /\ Len(s) \in Nat /\ e \in Nat
        BY Zenon, <2>1, ByteOf
    <2> QED BY Zenon, <2>1, <2>2
<1>2. Size(r) <= e
    BY Zenon, <1>1 DEF WellFormed, PlacesOK
<1> HIDE DEF r
<1>3. p \in 0 .. Len(s) - 1 /\ p + Size(r) = e /\ p + Size(r) <= Len(s)
    BY <1>1, <1>2
<1> HIDE DEF p
<1>4. ASSUME NEW i \in 1 .. Size(r) PROVE s[p + i].record = r /\ s[p + i].place = i
    <2>1. p + i \in Start(s, e) + 1 .. e
        BY <1>1, <1>3
    <2>2. \A j \in Start(s, e) + 1 .. e : s[j].record = r /\ s[j].place = j - Start(s, e)
        BY Zenon, <1>1 DEF WellFormed, RunsOK, r
    <2>3. s[p + i].record = r /\ s[p + i].place = p + i - Start(s, e)
        BY SMTT(30), <1>1, <1>3, <2>1, <2>2
    <2> QED BY <1>1, <1>3, <2>3
<1>5. s[p + 1].record = r
    BY <1>1, <1>4
<1> QED BY Zenon, <1>3, <1>4, <1>5 DEF EncodesAt, r, p

\* A decoder that finds a record behind o finds one that ends there.
LEMMA EncodedEnds ==
    ASSUME NEW s \in Seq(Byte), NEW p \in 0 .. Len(s) - 1,
           EncodesAt(s, p, Size(s[p + 1].record), s[p + 1].record)
    PROVE  /\ p \in Nat /\ Size(s[p + 1].record) \in Nat
           /\ p + Size(s[p + 1].record) \in Ends(s)
           /\ s[p + Size(s[p + 1].record)].record = s[p + 1].record
<1> DEFINE r == s[p + 1].record
<1>1. p \in Nat /\ Len(s) \in Nat /\ p + 1 \in 1 .. Len(s)
    BY SeqShape
<1>2. Size(r) \in Nat /\ Size(r) >= 1
    BY <1>1, ByteOf, SizeOf
<1>3. p + Size(r) \in 1 .. Len(s) /\ Size(r) \in 1 .. Size(r)
    BY <1>1, <1>2 DEF EncodesAt
<1>4. s[p + Size(r)].record = r /\ s[p + Size(r)].place = Size(r)
    BY Zenon, <1>3 DEF EncodesAt
<1> QED BY Zenon, <1>1, <1>2, <1>3, <1>4 DEF Ends

\* What a recovery must find or report are the records that end in the log.
LEMMA CompleteIsEnded ==
    ASSUME NEW s \in Seq(Byte), WellFormed(s)
    PROVE  Complete(s) = Ended(s)
<1>1. ASSUME NEW r \in Complete(s) PROVE r \in Ended(s)
    <2>1. PICK p \in 0 .. Len(s) - 1 :
              /\ EncodesAt(s, p, Size(s[p + 1].record), s[p + 1].record)
              /\ r = s[p + 1].record
        BY Zenon DEF Complete
    <2> QED BY Zenon, <2>1, EncodedEnds DEF Ended
<1>2. ASSUME NEW e \in Ends(s) PROVE s[e].record \in Complete(s)
    <2> DEFINE r == s[e].record
               p == e - Size(r)
    <2>1. p \in 0 .. Len(s) - 1 /\ s[p + 1].record = r /\ EncodesAt(s, p, Size(r), r)
        BY Zenon, EncodedBefore
    <2> HIDE DEF r, p
    <2> QED BY Zenon, <2>1 DEF Complete, r
<1> QED BY Zenon, <1>1, <1>2 DEF Ended

\* The records that end in a log have the sequence numbers from 1 on.
LEMMA EndedSequences ==
    ASSUME NEW s \in Seq(Byte), WellFormed(s)
    PROVE  /\ Ended(s) \in SUBSET Record
           /\ Sequences(Ended(s)) = 1 .. MaximumSequence(Ended(s))
<1>1. Ended(s) \in SUBSET Record
    BY Zenon, EndOf DEF Ended
<1> DEFINE m == MaximumSequence(Ended(s))
<1>2. m \in 0 .. MaxSequence /\ m \in Nat
    BY <1>1, MaximumSequenceOf, VersionAssumption DEF VersionAssumption
<1>3. ASSUME NEW n \in Sequences(Ended(s)) PROVE n \in 1 .. m
    <2>1. PICK r \in Ended(s) : n = r.sequence
        BY Zenon DEF Sequences
    <2>2. n <= m /\ n \in 1 .. MaxSequence
        BY Zenon, <1>1, <2>1, MaximumSequenceOf DEF Record
    <2> QED BY <1>2, <2>2
<1>4. ASSUME NEW n \in 1 .. m PROVE n \in Sequences(Ended(s))
    <2>1. m # 0
        BY <1>2
    <2>2. Ended(s) # {}
        BY Zenon, <2>1 DEF MaximumSequence
    <2>3. PICK e \in Ends(s) : s[e].record.sequence = m
        BY Zenon, <1>1, <2>2, MaximumSequenceOf DEF Ended
    <2>4. CASE n = m
        BY Zenon, <2>3, <2>4 DEF Ended, Sequences
    <2>5. CASE n # m
        <3>1. n \in 1 .. s[e].record.sequence - 1 /\ e \in 1 .. Len(s)
            BY SMTT(30), <1>2, <2>3, <2>5, EndOf
        <3>2. PICK j \in Ends(s) : s[j].record.sequence = n
            BY Zenon, <3>1 DEF WellFormed, NoHole
        <3> QED BY Zenon, <3>2 DEF Ended, Sequences
    <2> QED BY Zenon, <2>4, <2>5
<1> QED BY Zenon, <1>1, <1>3, <1>4

\* What begins like a log whose sizes are right has right sizes.
LEMMA BeginningSizes ==
    ASSUME NEW s \in Seq(Byte), NEW t \in Seq(Byte), SizesOK(s), Len(t) <= Len(s),
           \A i \in 1 .. Len(t) : t[i] = s[i]
    PROVE  SizesOK(t)
<1>1. Len(s) \in Nat /\ Len(t) \in Nat /\ HeaderSize \in Nat /\ HeaderSize > 1
    BY Zenon, SeqShape, HeaderIsNat
<1>2. 1 .. Len(t) \subseteq 1 .. Len(s)
    BY <1>1
<1>3. ASSUME NEW o \in 0 .. Len(t) - HeaderSize, HeaderDecodes(t, o)
      PROVE  t[o + 1].size <= Size(t[o + 1].record)
    <2>1. /\ o \in 0 .. Len(s) - HeaderSize /\ o + HeaderSize <= Len(s)
          /\ \A i \in 1 .. HeaderSize : o + i \in 1 .. Len(t)
          /\ 1 \in 1 .. HeaderSize /\ 2 \in 1 .. HeaderSize
        BY <1>1
    <2>2. \A i \in 1 .. HeaderSize : t[o + i] = s[o + i]
        BY Zenon, <2>1
    <2>3. t[o + 1] = s[o + 1] /\ t[o + 2] = s[o + 2]
        BY Zenon, <2>1, <2>2
    <2>4. HeaderDecodes(s, o)
        BY Zenon, <1>3, <2>1, <2>2, <2>3 DEF HeaderDecodes, EncodesAt
    <2> QED BY Zenon, <2>1, <2>3, <2>4 DEF SizesOK, NoneDisguised
<1>4. \A i \in 1 .. Len(t) : ~t[i].damaged => t[i].size = Size(t[i].record)
    BY Zenon, <1>2 DEF SizesOK
<1> QED BY Zenon, <1>3, <1>4 DEF SizesOK, NoneDisguised

\* A header is disguised only when both its first bytes are damaged.
LEMMA HalfDisguised ==
    ASSUME NEW s \in Seq(Byte), NEW o \in 0 .. Len(s) - HeaderSize, HeaderDecodes(s, o),
           \A i \in {o + 1, o + 2} : ~s[i].damaged => s[i].size = Size(s[i].record),
           ~s[o + 1].damaged \/ ~s[o + 2].damaged
    PROVE  s[o + 1].size <= Size(s[o + 1].record)
<1>1. 1 \in 1 .. HeaderSize /\ 2 \in 1 .. HeaderSize /\ o + 1 \in 1 .. Len(s)
    BY SeqShape, HeaderIsNat
<1>2. s[o + 2].record = s[o + 1].record /\ s[o + 2].size = s[o + 1].size
    BY Zenon, <1>1 DEF HeaderDecodes, EncodesAt
<1>3. s[o + 1].size = Size(s[o + 1].record)
    BY Zenon, <1>2
<1>4. Size(s[o + 1].record) \in Nat
    BY Zenon, <1>1, ByteOf
<1> QED BY <1>3, <1>4

\* The sizes of a log that has only bytes as Encode made them are right.
LEMMA UndamagedSizes ==
    ASSUME NEW s \in Seq(Byte),
           \A i \in 1 .. Len(s) : ~s[i].damaged /\ s[i].size = Size(s[i].record)
    PROVE  SizesOK(s)
<1>1. ASSUME NEW o \in 0 .. Len(s) - HeaderSize, HeaderDecodes(s, o)
      PROVE  s[o + 1].size <= Size(s[o + 1].record)
    <2>1. o + 1 \in 1 .. Len(s) /\ o + 2 \in 1 .. Len(s)
        BY SeqShape, HeaderIsNat
    <2> QED BY Zenon, <1>1, <2>1, HalfDisguised
<1> QED BY Zenon, <1>1 DEF SizesOK, NoneDisguised

------------------------------------------------------------------------------
(* What a power failure leaves *)

\* A survivor holds the records that end in some beginning of the file, and
\* those that end on the disk are among them.
LEMMA SurvivorOf ==
    ASSUME file \in Seq(Byte), disk \in Seq(Byte), LogsOK, NEW s \in Survivors
    PROVE  /\ s \in Seq(Byte) /\ WellFormed(s) /\ SizesOK(s)
           /\ damages = 0 => Undamaged(s, 0, Len(s))
           /\ Ended(disk) \subseteq Ended(s)
           /\ \E P \in Beginnings(file) : Ended(s) = EndedBy(file, P)
<1>1. Len(file) \in Nat /\ Len(disk) \in Nat
    BY Zenon, SeqShape
<1>2. ASSUME NEW e \in Ends(disk)
      PROVE  /\ e \in 1 .. Len(file) /\ e \in Ends(file) /\ e \in Nat
             /\ \A j \in 1 .. e : file[j] = disk[j] /\ j \in 1 .. Len(disk)
             /\ file[e].record = disk[e].record
             /\ e \in Agreed
    <2>1. e \in 1 .. Len(disk) /\ e \in Nat
        BY Zenon, EndOf
    <2>2. e <= Len(file) /\ \A j \in 1 .. e : file[j] = disk[j]
        BY Zenon DEF LogsOK
    <2>3. /\ e \in 1 .. Len(file) /\ e \in 1 .. e /\ e \in 0 .. Len(file)
          /\ e \in 0 .. Len(disk) /\ e <= Len(disk) /\ \A j \in 1 .. e : j \in 1 .. Len(disk)
        BY <1>1, <2>1, <2>2
    <2>4. e \in Ends(file)
        BY Zenon, <2>2, <2>3 DEF Ends
    <2>5. /\ Prefix(file, e) \in Seq(Byte) /\ Len(Prefix(file, e)) = e
          /\ \A i \in 1 .. e : Prefix(file, e)[i] = file[i]
          /\ Prefix(disk, e) \in Seq(Byte) /\ Len(Prefix(disk, e)) = e
          /\ \A i \in 1 .. e : Prefix(disk, e)[i] = disk[i]
        BY Zenon, <2>3, PrefixOf
    <2>6. Prefix(file, e) = Prefix(disk, e)
        BY Zenon, <2>2, <2>5, SeqSame
    <2> QED BY Zenon, <2>1, <2>2, <2>3, <2>4, <2>6 DEF Agreed
<1>3. CASE \E n \in 0 .. Len(file) : (\A m \in Agreed : m <= n) /\ s = Prefix(file, n)
    <2>1. PICK n \in 0 .. Len(file) : (\A m \in Agreed : m <= n) /\ s = Prefix(file, n)
        BY Zenon, <1>3
    <2>2. s \in Seq(Byte) /\ Len(s) = n /\ \A i \in 1 .. n : s[i] = file[i]
        BY Zenon, <2>1, PrefixOf
    <2>a. SizesOK(s)
        <3>1. Len(s) <= Len(file)
            BY <1>1, <2>2
        <3> QED BY Zenon, <2>2, <3>1, BeginningSizes DEF LogsOK
    <2>3. WellFormed(s) /\ Ended(s) = EndedBy(file, 1 .. n)
        BY Zenon, <2>1, PrefixWellFormed DEF LogsOK, EndedBy
    <2>4. damages = 0 => Undamaged(s, 0, Len(s))
        <3>1. \A i \in 1 .. n : 0 + i = i /\ i \in 1 .. Len(file)
            BY <1>1
        <3> QED BY Zenon, <2>2, <3>1 DEF LogsOK, Undamaged
    <2>5. ASSUME NEW e \in Ends(disk) PROVE disk[e].record \in Ended(s)
        <3>1. e <= n
            BY Zenon, <1>2, <2>1
        <3>2. e \in Ends(file) /\ e \in 1 .. Len(file) /\ disk[e].record = file[e].record
            BY Zenon, <1>2
        <3>3. e \in 1 .. n
            BY <1>1, <3>1, <3>2
        <3> QED BY Zenon, <2>3, <3>2, <3>3 DEF EndedBy
    <2>6. 1 .. n \in Beginnings(file)
        BY <1>1 DEF Beginnings
    <2> QED BY Zenon, <2>2, <2>a, <2>3, <2>4, <2>5, <2>6 DEF Ended
<1>4. CASE \E n \in 0 .. Len(disk) : (\A m \in Agreed : m <= n) /\ s = Prefix(disk, n)
    <2> DEFINE P == {j \in 1 .. Len(file) : \E e \in Ends(disk) : j <= e}
    <2>1. PICK n \in 0 .. Len(disk) : (\A m \in Agreed : m <= n) /\ s = Prefix(disk, n)
        BY Zenon, <1>4
    <2>2. s \in Seq(Byte) /\ Len(s) = n /\ \A i \in 1 .. n : s[i] = disk[i]
        BY Zenon, <2>1, PrefixOf
    <2>a. SizesOK(s)
        <3>1. Len(s) <= Len(disk)
            BY <1>1, <2>2
        <3> QED BY Zenon, <2>2, <3>1, BeginningSizes DEF LogsOK
    <2>3. WellFormed(s) /\ Ended(s) = {disk[i].record : i \in Ends(disk) \cap 1 .. n}
        BY Zenon, <2>1, PrefixWellFormed DEF LogsOK
    <2>4. damages = 0 => Undamaged(s, 0, Len(s))
        <3>1. \A i \in 1 .. n : 0 + i = i /\ i \in 1 .. Len(disk)
            BY <1>1
        <3> QED BY Zenon, <2>2, <3>1 DEF LogsOK, Undamaged
    <2>5. ASSUME NEW e \in Ends(disk) PROVE e \in 1 .. n
        <3>1. e <= n /\ e \in 1 .. Len(file)
            BY Zenon, <1>2, <2>1
        <3> QED BY <1>1, <3>1
    <2>6. Ended(s) = Ended(disk)
        BY Zenon, <2>3, <2>5 DEF Ended
    <2>7. P \in Beginnings(file)
        <3>1. ASSUME NEW i \in P, NEW j \in 1 .. i PROVE j \in P
            <4>1. PICK e \in Ends(disk) : i <= e
                BY Zenon
            <4>2. e \in Nat /\ i \in 1 .. Len(file)
                BY Zenon, <1>2
            <4>3. j <= e /\ j \in 1 .. Len(file)
                BY <1>1, <4>1, <4>2
            <4> QED BY Zenon, <4>3
        <3> QED BY Zenon, <3>1 DEF Beginnings
    <2>8. ASSUME NEW i \in Ends(file) \cap P
          PROVE  i \in Ends(disk) /\ file[i].record = disk[i].record
        <3>1. PICK e \in Ends(disk) : i <= e
            BY Zenon
        <3>2. i \in 1 .. e
            <4>1. i \in 1 .. Len(file) /\ e \in Nat
                BY Zenon, <1>2
            <4> QED BY <1>1, <3>1, <4>1
        <3>3. file[i] = disk[i] /\ i \in 1 .. Len(disk)
            BY Zenon, <1>2, <3>2
        <3> QED BY Zenon, <3>3 DEF Ends
    <2>9. ASSUME NEW e \in Ends(disk) PROVE e \in P
        <3>1. e \in 1 .. Len(file) /\ e \in Nat
            BY Zenon, <1>2
        <3>2. e <= e
            BY <3>1
        <3> QED BY Zenon, <3>1, <3>2
    <2> HIDE DEF P
    <2>10. Ended(disk) = EndedBy(file, P)
        BY Zenon, <1>2, <2>8, <2>9 DEF Ended, EndedBy
    <2> QED BY Zenon, <2>2, <2>a, <2>3, <2>4, <2>6, <2>7, <2>10
<1> QED BY Zenon, <1>3, <1>4 DEF Survivors

------------------------------------------------------------------------------
(* The invariant is inductive: one lemma per action *)

USE DEF logVars, recoveryVars, memoryVars, callVars, historyVars, boundVars

\* No record is in an empty log.
LEMMA InitInv == Init => WritePathInv
<1> SUFFICES ASSUME Init PROVE WritePathInv
    BY Zenon
<1>1. /\ <<>> \in Seq(Byte) /\ Len(<<>>) = 0 /\ 1 .. Len(<<>>) = {}
    OBVIOUS
<1>2. MaxSequence \in Nat /\ MaxCrashes \in Nat /\ MaxFailures \in Nat /\ MaxDamage \in Nat
    BY Zenon, VersionAssumption, WritePathAssumption DEF VersionAssumption, WritePathAssumption
<1>3. TypeOK
    <2>1. failed \in BOOLEAN /\ sync \in BOOLEAN
        BY Zenon DEF Init
    <2> QED BY <1>1, <1>2, <2>1 DEF Init, TypeOK, Up
<1>4. Ends(<<>>) = {}
    BY Zenon, <1>1 DEF Ends
<1>5. WellFormed(<<>>)
    BY Zenon, <1>1 DEF WellFormed, PlacesOK, RunsOK, OrderOK, NoHole
<1>6. SizesOK(<<>>)
    BY Zenon, <1>1, UndamagedSizes
<1>7. LogsOK
    BY Zenon, <1>1, <1>4, <1>5, <1>6 DEF Init, LogsOK, Undamaged
<1> QED BY Zenon, <1>3, <1>7 DEF Init, WritePathInv, RecoveryOK, MemoryOK, AppendOK, Up

\* What a process that is gone leaves: the files, and no memory.
LEMMA ForgetInv ==
    ASSUME WritePathInv, Forget, UNCHANGED <<file, disk, acked, answered, damages>>,
           crashes' \in 0 .. MaxCrashes, failures' \in 0 .. MaxFailures
    PROVE  WritePathInv'
<1>1. MaxSequence \in Nat
    BY Zenon, VersionAssumption DEF VersionAssumption
<1>2. TypeOK'
    <2>1. failed' \in BOOLEAN /\ sync' \in BOOLEAN
        BY Zenon DEF Forget
    <2> QED BY <1>1, <2>1 DEF WritePathInv, TypeOK, Forget, Up
<1>3. LogsOK'
    BY Zenon DEF WritePathInv, LogsOK
<1> QED BY Zenon, <1>2, <1>3 DEF Forget, WritePathInv, RecoveryOK, MemoryOK, AppendOK, Up

\* The destructor, a process crash, and an Open that fails.
LEMMA GoneInv ==
    ASSUME WritePathInv, Destroy \/ ProcessCrash \/ OpenFails \/ RecoverCorruption
    PROVE  WritePathInv'
<1>1. Forget /\ UNCHANGED <<file, disk, acked, answered, damages>>
    BY Zenon DEF Destroy, ProcessCrash, OpenFails, RecoverCorruption
<1>2. crashes' \in 0 .. MaxCrashes /\ failures' \in 0 .. MaxFailures
    <2>1. /\ crashes \in 0 .. MaxCrashes /\ failures \in 0 .. MaxFailures
          /\ MaxCrashes \in Nat /\ MaxFailures \in Nat
        BY Zenon, WritePathAssumption DEF WritePathInv, TypeOK, WritePathAssumption
    <2>2. \/ crashes' = crashes
          \/ crashes < MaxCrashes /\ crashes' = crashes + 1
        BY Zenon DEF Destroy, ProcessCrash, OpenFails, RecoverCorruption
    <2>3. \/ failures' = failures
          \/ failures < MaxFailures /\ failures' = failures + 1
        BY Zenon DEF Destroy, ProcessCrash, OpenFails, RecoverCorruption
    <2> QED BY <2>1, <2>2, <2>3
<1> QED BY Zenon, <1>1, <1>2, ForgetInv

\* A power failure leaves one of the survivors, in memory and on disk.
LEMMA PowerFailureInv ==
    ASSUME WritePathInv, PowerFailure
    PROVE  WritePathInv'
<1>1. /\ file' \in Seq(Byte) /\ WellFormed(file') /\ SizesOK(file')
      /\ damages = 0 => Undamaged(file', 0, Len(file'))
      /\ Ended(disk) \subseteq Ended(file')
    BY Zenon, SurvivorOf DEF PowerFailure, WritePathInv, TypeOK
<1>2. disk' = file' /\ answered' = acked /\ UNCHANGED <<acked, damages>>
    BY Zenon DEF PowerFailure
<1>3. TypeOK'
    <2>1. MaxSequence \in Nat /\ MaxCrashes \in Nat /\ crashes \in 0 .. MaxCrashes
        BY Zenon, VersionAssumption, WritePathAssumption
        DEF VersionAssumption, WritePathAssumption, WritePathInv, TypeOK
    <2>2. crashes' \in 0 .. MaxCrashes
        BY <2>1 DEF PowerFailure
    <2>3. failed' \in BOOLEAN /\ sync' \in BOOLEAN
        BY Zenon DEF PowerFailure, Forget
    <2> QED BY <1>1, <1>2, <2>1, <2>2, <2>3 DEF PowerFailure, WritePathInv, TypeOK, Forget, Up
<1>4. LogsOK'
    <2>1. \A e \in Ends(file') : e <= Len(file')
        BY <1>1, EndOf, SeqShape
    <2>2. acked \subseteq Ended(disk)
        BY Zenon DEF WritePathInv, LogsOK
    <2> QED BY Zenon, <1>1, <1>2, <2>1, <2>2 DEF LogsOK
<1> QED BY Zenon, <1>3, <1>4
    DEF PowerFailure, Forget, WritePathInv, RecoveryOK, MemoryOK, AppendOK, Up

\* A damaged byte keeps its place, and the others are as they were.
LEMMA DamageShape ==
    ASSUME file \in Seq(Byte), Damage
    PROVE  /\ file' \in Seq(Byte) /\ Len(file') = Len(file)
           /\ \A j \in 1 .. Len(file) : /\ file'[j].record = file[j].record
                                        /\ file'[j].place = file[j].place
           /\ \E i \in 1 .. Len(file) :
                 /\ file'[i].damaged
                 /\ \A j \in 1 .. Len(file) : j # i => file'[j] = file[j]
<1>1. PICK i \in 1 .. Len(file) : \E size \in MayRead(file[i]) :
          file' = [file EXCEPT ![i] = [file[i] EXCEPT !.size = size, !.damaged = TRUE]]
    BY Zenon DEF Damage
<1>2. PICK size \in MayRead(file[i]) :
          file' = [file EXCEPT ![i] = [file[i] EXCEPT !.size = size, !.damaged = TRUE]]
    BY Zenon, <1>1
<1> DEFINE b == [file[i] EXCEPT !.size = size, !.damaged = TRUE]
<1>3. file[i] \in Byte
    BY Zenon, SeqElement
<1>4. size \in Announced
    BY Zenon, <1>3, MayReadTyped
<1>5. b \in Byte /\ b.record = file[i].record /\ b.place = file[i].place /\ b.damaged
    BY Zenon, <1>3, <1>4 DEF Byte
<1>6. file' = [file EXCEPT ![i] = b]
    BY Zenon, <1>2
<1> HIDE DEF b
<1>7. /\ file' \in Seq(Byte) /\ Len(file') = Len(file)
      /\ \A j \in 1 .. Len(file) : file'[j] = IF j = i THEN b ELSE file[j]
    BY <1>5, <1>6, SeqExcept
<1> QED BY Zenon, <1>5, <1>7

\* What the storage may damage leaves no header disguised: such damage is ruled
\* out, or needs a second damaged byte.
LEMMA DamageSizes ==
    ASSUME NoDisguise, file \in Seq(Byte), SizesOK(file), damages \in Nat,
           damages = 0 => Undamaged(file, 0, Len(file)), Damage
    PROVE  SizesOK(file')
<1>1. /\ file' \in Seq(Byte) /\ Len(file') = Len(file) /\ Len(file) \in Nat
      /\ \A j \in 1 .. Len(file) : /\ file'[j].record = file[j].record
                                   /\ file'[j].place = file[j].place
    BY Zenon, DamageShape, SeqShape
<1>2. PICK i \in 1 .. Len(file) :
          /\ file'[i].damaged
          /\ \A j \in 1 .. Len(file) : j # i => file'[j] = file[j]
    BY Zenon, DamageShape
<1>3. \A j \in 1 .. Len(file') : ~file'[j].damaged => file'[j].size = Size(file'[j].record)
    BY Zenon, <1>1, <1>2 DEF SizesOK
<1>4. CASE Detectable
    BY Zenon, <1>3, <1>4 DEF Damage, SizesOK
<1>5. CASE MaxDamage <= 1
    <2>1. damages = 0
        BY <1>5, WritePathAssumption DEF Damage, WritePathAssumption
    <2>2. \A j \in 1 .. Len(file) : 0 + j = j
        BY <1>1
    <2>3. \A j \in 1 .. Len(file) : j # i => ~file'[j].damaged
        BY Zenon, <1>2, <2>1, <2>2 DEF Undamaged
    <2>4. ASSUME NEW o \in 0 .. Len(file') - HeaderSize, HeaderDecodes(file', o)
          PROVE  file'[o + 1].size <= Size(file'[o + 1].record)
        <3>1. /\ o + 1 \in 1 .. Len(file') /\ o + 2 \in 1 .. Len(file') /\ o + 1 # o + 2
            BY <1>1, HeaderIsNat
        <3>2. ~file'[o + 1].damaged \/ ~file'[o + 2].damaged
            BY Zenon, <1>1, <2>3, <3>1
        <3> QED BY Zenon, <1>1, <1>3, <2>4, <3>1, <3>2, HalfDisguised
    <2> QED BY Zenon, <1>3, <2>4 DEF SizesOK, NoneDisguised
<1> QED BY Zenon, <1>4, <1>5 DEF NoDisguise

\* Damage leaves every record that ends in the log where it is.
LEMMA DamageEnded ==
    ASSUME WritePathInv, Damage
    PROVE  WellFormed(file') /\ Ended(file') = Ended(file)
<1>1. file \in Seq(Byte) /\ WellFormed(file)
    BY Zenon DEF WritePathInv, TypeOK, LogsOK
<1>2. /\ file' \in Seq(Byte) /\ Len(file') = Len(file) /\ Len(file) \in Nat
      /\ \A j \in 1 .. Len(file) : /\ file'[j].record = file[j].record
                                   /\ file'[j].place = file[j].place
    BY Zenon, <1>1, DamageShape, SeqShape
<1>3. Len(file') <= Len(file)
    BY <1>2
<1>4. /\ WellFormed(file')
      /\ Ended(file') = {file[i].record : i \in Ends(file) \cap 1 .. Len(file')}
    BY Zenon, <1>1, <1>2, <1>3, BeginningWellFormed
<1>5. Ends(file) \subseteq 1 .. Len(file)
    BY Zenon DEF Ends
<1> QED BY Zenon, <1>2, <1>4, <1>5 DEF Ended

\* Damage changes nothing that the shape of a log depends on.
LEMMA DamageInv ==
    ASSUME NoDisguise, WritePathInv, Damage
    PROVE  WritePathInv'
<1>1. file \in Seq(Byte) /\ WellFormed(file) /\ damages \in 0 .. MaxDamage /\ MaxDamage \in Nat
    BY Zenon, WritePathAssumption DEF WritePathInv, TypeOK, LogsOK, WritePathAssumption
<1>2. /\ file' \in Seq(Byte) /\ Len(file') = Len(file) /\ Len(file) \in Nat
      /\ \A j \in 1 .. Len(file) : /\ file'[j].record = file[j].record
                                   /\ file'[j].place = file[j].place
    BY Zenon, <1>1, DamageShape, SeqShape
<1>3. disk' = file' /\ disk = file /\ UNCHANGED <<pc, acked, answered, failed>>
      /\ pc = "down" /\ damages' # 0 /\ damages' \in 0 .. MaxDamage
    BY <1>1 DEF Damage
<1>5. WellFormed(file') /\ Ended(file') = Ended(file)
    BY Zenon, DamageEnded
<1>8. \A e \in Ends(file') : e <= Len(file')
    BY SMTT(30), <1>2, EndOf
<1>9. LogsOK'
    <2>1. damages \in Nat
        BY <1>1
    <2>2. SizesOK(file')
        BY Zenon, <1>1, <2>1, DamageSizes DEF WritePathInv, LogsOK
    <2> QED BY Zenon, <1>3, <1>5, <1>8, <2>2 DEF WritePathInv, LogsOK
<1>10. TypeOK'
    BY Zenon, <1>2, <1>3 DEF WritePathInv, TypeOK, Damage, Up
<1> QED BY Zenon, <1>3, <1>9, <1>10 DEF WritePathInv, RecoveryOK, MemoryOK, AppendOK, Up

\* Where RecoverWal stands: behind the last record it recovered.
LEMMA RecoveryState ==
    ASSUME WritePathInv, pc \in {"recover", "truncate", "sync_tail"}
    PROVE  /\ file \in Seq(Byte) /\ WellFormed(file) /\ Len(file) \in Nat
           /\ offset \in Nat /\ offset <= Len(file) /\ Remaining = Len(file) - offset
           /\ max_sequence \in Nat
           /\ Boundary(file, offset, max_sequence)
           /\ Undamaged(file, 0, offset)
           /\ recovered = Newest({file[i].record : i \in Ends(file) \cap 1 .. offset})
           /\ \A i \in 1 .. offset : file[i].record.sequence <= max_sequence
           /\ ~failed /\ pc \notin Up
<1>1. /\ file \in Seq(Byte) /\ WellFormed(file) /\ offset \in Nat /\ offset <= Len(file)
      /\ Boundary(file, offset, max_sequence)
      /\ max_sequence \in 0 .. MaxSequence
    BY Zenon DEF WritePathInv, TypeOK, LogsOK, RecoveryOK
<1>2. MaxSequence \in Nat
    BY Zenon, VersionAssumption DEF VersionAssumption
<1>3. \A i \in 1 .. offset : file[i].record.sequence <= max_sequence
    <2> SUFFICES ASSUME NEW i \in 1 .. offset
                 PROVE  file[i].record.sequence <= max_sequence
        BY Zenon
    <2>1. offset \in Ends(file) /\ file[offset].record.sequence = max_sequence
        BY SMTT(30), <1>1 DEF Boundary
    <2>2. offset \in 1 .. Len(file) /\ i \in 1 .. Len(file) /\ i <= offset
        BY <1>1, <2>1, EndOf, SeqShape
    <2> QED BY Zenon, <1>1, <2>1, <2>2, SequencesGrow
<1>4. pc \notin Up /\ ~failed
    BY Zenon DEF Up, WritePathInv, MemoryOK
<1>5. /\ Undamaged(file, 0, offset)
      /\ recovered = Newest({file[i].record : i \in Ends(file) \cap 1 .. offset})
    BY Zenon DEF WritePathInv, RecoveryOK
<1> QED BY <1>1, <1>2, <1>3, <1>4, <1>5, SeqShape DEF Remaining

\* Open starts at the beginning of the file.
LEMMA OpenInv ==
    ASSUME WritePathInv, Open
    PROVE  WritePathInv'
<1>1. file \in Seq(Byte) /\ Len(file) \in Nat
    BY Zenon, SeqShape DEF WritePathInv, TypeOK
<1>2. MaxSequence \in Nat
    BY Zenon, VersionAssumption DEF VersionAssumption
<1>3. TypeOK'
    BY <1>1, <1>2 DEF WritePathInv, TypeOK, Open, Up
<1>4. LogsOK'
    BY Zenon DEF WritePathInv, LogsOK, Open
<1>5. RecoveryOK'
    <2>1. 1 .. 0 = {} /\ Ends(file) \cap 1 .. 0 = {}
        OBVIOUS
    <2>2. {file[i].record : i \in Ends(file) \cap 1 .. 0} = {}
        BY Zenon, <2>1
    <2>3. Newest({}) = {}
        BY Zenon DEF Newest
    <2> QED BY Zenon, <2>1, <2>2, <2>3 DEF RecoveryOK, Boundary, Undamaged, Open
<1> QED BY Zenon, <1>3, <1>4, <1>5 DEF WritePathInv, MemoryOK, AppendOK, Up, Open

\* A turn of the loop recovers the next record.
LEMMA RecoverRecordInv ==
    ASSUME WritePathInv, RecoverRecord
    PROVE  WritePathInv'
<1> DEFINE r == file[offset + 1].record
           e == offset + Size(r)
           S == {file[i].record : i \in Ends(file) \cap 1 .. offset}
<1>1. pc = "recover"
    BY Zenon DEF RecoverRecord
<1>2. /\ file \in Seq(Byte) /\ WellFormed(file) /\ Len(file) \in Nat
      /\ offset \in Nat /\ offset <= Len(file) /\ max_sequence \in Nat
      /\ Boundary(file, offset, max_sequence) /\ Undamaged(file, 0, offset)
      /\ recovered = Newest(S)
      /\ \A i \in 1 .. offset : file[i].record.sequence <= max_sequence
    BY Zenon, <1>1, RecoveryState
<1>3. offset < Len(file) /\ offset + 1 \in 1 .. Len(file) /\ offset \in 0 .. Len(file) - 1
    BY <1>2 DEF RecoverRecord, Remaining
<1>4. r \in Record /\ Size(r) \in Nat /\ r.sequence \in 1 .. MaxSequence /\ r.sequence \in Nat
    BY Zenon, <1>2, <1>3, ByteOf
<1>5. EncodesAt(file, offset, Size(r), r) /\ Undamaged(file, offset, Size(r))
    BY Zenon DEF RecoverRecord, RecordIsNext, ChecksumMatches
<1>6. r.sequence > max_sequence
    BY Zenon DEF RecoverRecord, RecordIsNext
<1>7. e \in Ends(file) /\ file[e].record = r
    BY Zenon, <1>2, <1>3, <1>5, EncodedEnds
<1>8. /\ offset' = e /\ max_sequence' = r.sequence /\ recovered' = Insert(recovered, r)
      /\ UNCHANGED <<logVars, pc, memoryVars, callVars, historyVars, boundVars>>
    BY Zenon DEF RecoverRecord
<1>9. S \in SUBSET Record /\ \A q \in S : q.sequence < r.sequence
    <2>1. ASSUME NEW i \in Ends(file) \cap 1 .. offset
          PROVE  file[i].record \in Record /\ file[i].record.sequence < r.sequence
        <3>1. i \in 1 .. Len(file)
            BY Zenon DEF Ends
        <3>2. file[i].record \in Record /\ file[i].record.sequence \in Nat
            BY Zenon, <1>2, <3>1, ByteOf
        <3>3. file[i].record.sequence <= max_sequence
            BY Zenon, <1>2
        <3> QED BY SMTT(30), <1>2, <1>4, <1>6, <3>2, <3>3
    <2> QED BY Zenon, <2>1
<1>10. e \in Nat /\ e <= Len(file) /\ offset < e
    <2>1. e <= Len(file) /\ Size(r) >= 1
        BY SMTT(30), <1>2, <1>4, <1>7, EndOf, SizeOf
    <2> QED BY SMTT(30), <1>2, <1>4, <2>1
<1>11. {file[i].record : i \in Ends(file) \cap 1 .. e} = S \cup {r}
    <2>1. ASSUME NEW i \in Ends(file) \cap 1 .. e, i \notin 1 .. offset
          PROVE  file[i].record = r
        <3>1. i \in Nat /\ i - offset \in Nat \ {0} /\ offset + (i - offset) = i
              /\ i <= Len(file) /\ i - offset <= Size(r)
            BY SMTT(30), <1>2, <1>4, <1>10, <2>1
        <3> QED BY SMTT(30), <1>2, <1>3, <3>1, NextEncoding
    <2>2. e \in Ends(file) \cap 1 .. e /\ 1 .. offset \subseteq 1 .. e
        BY <1>2, <1>7, <1>10
    <2> HIDE DEF r, e
    <2> QED BY Zenon, <1>7, <2>1, <2>2
<1> HIDE DEF r, e, S
<1>12. recovered' = Newest(S \cup {r}) /\ recovered' \subseteq Record
    <2>1. Newest(S \cup {r}) = Insert(Newest(S), r)
        BY Zenon, <1>4, <1>9, NewestInsert
    <2>2. Newest(S \cup {r}) \subseteq S \cup {r}
        BY Zenon DEF Newest
    <2> QED BY Zenon, <1>2, <1>4, <1>8, <1>9, <2>1, <2>2
<1>13. TypeOK'
    <2>1. max_sequence' \in 0 .. MaxSequence
        BY <1>4, <1>8
    <2> QED BY Zenon, <1>1, <1>8, <1>10, <1>12, <2>1 DEF WritePathInv, TypeOK, Up
<1>14. LogsOK'
    BY Zenon, <1>8 DEF WritePathInv, LogsOK
<1>15. Undamaged(file, 0, e)
    <2>1. ASSUME NEW i \in 1 .. e PROVE ~file[0 + i].damaged
        <3>1. CASE i \in 1 .. offset
            BY Zenon, <1>2, <3>1 DEF Undamaged
        <3>2. CASE i \notin 1 .. offset
            <4>1. i - offset \in 1 .. Size(r) /\ offset + (i - offset) = i /\ 0 + i = i
                BY SMTT(30), <1>2, <1>4, <1>10, <3>2 DEF e
            <4> QED BY Zenon, <1>5, <4>1 DEF Undamaged
        <3> QED BY Zenon, <3>1, <3>2
    <2> QED BY Zenon, <2>1 DEF Undamaged
<1>16. RecoveryOK'
    BY Zenon, <1>1, <1>7, <1>8, <1>11, <1>12, <1>15 DEF RecoveryOK, Boundary
<1> QED BY Zenon, <1>1, <1>8, <1>13, <1>14, <1>16 DEF WritePathInv, MemoryOK, AppendOK, Up

\* The tail that RecoverWal takes for torn holds the end of no record.
LEMMA RecoverTailInv ==
    ASSUME WritePathInv, RecoverTail
    PROVE  WritePathInv'
<1> DEFINE r == file[offset + 1].record
<1>1. /\ pc = "recover" /\ pc' = "truncate" /\ TailIsTorn /\ Remaining > 0
      /\ UNCHANGED <<logVars, offset, recoveryVars, memoryVars, callVars, historyVars, boundVars>>
    BY Zenon DEF RecoverTail
<1>2. /\ file \in Seq(Byte) /\ WellFormed(file) /\ Len(file) \in Nat
      /\ offset \in Nat /\ offset <= Len(file) /\ Remaining = Len(file) - offset
      /\ Boundary(file, offset, max_sequence)
    BY Zenon, <1>1, RecoveryState
<1>3. offset < Len(file) /\ offset + 1 \in 1 .. Len(file)
    BY <1>1, <1>2
<1>4. ASSUME NEW i \in Ends(file), ~(i <= offset) PROVE FALSE
    <2>1. /\ i \in 1 .. Len(file) /\ i \in Nat /\ offset < i
          /\ file[i].record \in Record /\ Start(file, i) = i - Size(file[i].record)
        BY SMTT(30), <1>2, <1>4, EndOf
    <2>2. Size(file[i].record) \in Nat /\ Size(file[i].record) > HeaderSize /\ HeaderSize \in Nat
        BY Zenon, <2>1, SizeOf
    <2>3. offset <= Start(file, i)
        BY Zenon, <1>2, <2>1, BehindBoundary
    <2>4. CASE Remaining < HeaderSize
        BY SMTT(30), <1>2, <2>1, <2>2, <2>3, <2>4
    <2>5. CASE Remaining >= HeaderSize /\ HeaderDecodes(file, offset)
               /\ file[offset + 1].size > Remaining
        <3>0. Size(r) > Remaining
            <4>1. offset \in 0 .. Len(file) - HeaderSize
                BY <1>2, <2>2, <2>5
            <4>2. file[offset + 1].size <= Size(r)
                BY Zenon, <2>5, <4>1 DEF WritePathInv, LogsOK, SizesOK, NoneDisguised
            <4>3. file[offset + 1].size \in Int /\ Size(r) \in Int
                <5>1. file[offset + 1].size \in Int /\ Size(r) \in Nat
                    BY Zenon, <1>2, <1>3, ByteOf
                <5> QED BY <5>1
            <4> QED BY <1>2, <2>5, <4>2, <4>3
        <3>1. r \in Record /\ Size(r) \in Nat
            BY Zenon, <1>2, <1>3, ByteOf
        <3>2. i - offset \in Nat \ {0} /\ offset + (i - offset) = i /\ i - offset <= Size(r)
            BY SMTT(30), <1>2, <2>1, <3>0, <3>1
        <3>3. file[i].record = r
            BY SMTT(30), <1>2, <1>3, <2>1, <3>2, NextEncoding
        <3> QED BY <1>2, <2>1, <2>3, <3>0, <3>1, <3>3
    <2>6. Remaining < HeaderSize \/ Remaining >= HeaderSize
        BY <1>2, <2>2
    <2> QED BY Zenon, <1>1, <2>4, <2>5, <2>6 DEF TailIsTorn
<1>5. TypeOK'
    BY Zenon, <1>1 DEF WritePathInv, TypeOK, Up
<1>6. LogsOK'
    BY Zenon, <1>1 DEF WritePathInv, LogsOK
<1>7. RecoveryOK'
    BY Zenon, <1>1, <1>4 DEF WritePathInv, RecoveryOK
<1> QED BY Zenon, <1>1, <1>5, <1>6, <1>7 DEF WritePathInv, MemoryOK, AppendOK, Up

\* TruncateIncompleteTail removes no record that ended.
LEMMA TruncateShape ==
    ASSUME WritePathInv, Truncate
    PROVE  /\ file' \in Seq(Byte) /\ Len(file') = offset /\ WellFormed(file')
           /\ \A i \in 1 .. offset : file'[i] = file[i]
           /\ Ends(file') = Ends(file)
           /\ Ended(file') = Ended(file)
           /\ \A e \in Ends(file) : e \in 1 .. offset
<1>1. pc = "truncate" /\ file' = Prefix(file, offset)
    BY Zenon DEF Truncate
<1>2. /\ file \in Seq(Byte) /\ WellFormed(file) /\ Len(file) \in Nat
      /\ offset \in Nat /\ offset <= Len(file)
    BY Zenon, <1>1, RecoveryState
<1>3. offset \in 0 .. Len(file)
    BY <1>2
<1>4. \A e \in Ends(file) : e \in 1 .. offset
    <2>1. ASSUME NEW e \in Ends(file) PROVE e \in 1 .. offset
        <3>1. e <= offset
            BY Zenon, <1>1 DEF WritePathInv, RecoveryOK
        <3>2. e \in 1 .. Len(file)
            BY Zenon DEF Ends
        <3> QED BY SMTT(30), <1>2, <3>1, <3>2
    <2> QED BY Zenon, <2>1
<1>5. Ends(file) \cap 1 .. offset = Ends(file)
    BY Zenon, <1>4
<1>6. /\ WellFormed(file') /\ Ends(file') = Ends(file)
      /\ Ended(file') = Ended(file)
    <2>1. /\ WellFormed(file') /\ Ends(file') = Ends(file) \cap 1 .. offset
          /\ Ended(file') = {file[i].record : i \in Ends(file) \cap 1 .. offset}
        BY Zenon, <1>1, <1>2, <1>3, PrefixWellFormed
    <2> QED BY Zenon, <1>5, <2>1 DEF Ended
<1>7. file' \in Seq(Byte) /\ Len(file') = offset /\ \A i \in 1 .. offset : file'[i] = file[i]
    BY Zenon, <1>1, <1>2, <1>3, PrefixOf
<1> QED BY Zenon, <1>4, <1>6, <1>7

\* The repair keeps the invariant.
LEMMA TruncateInv ==
    ASSUME WritePathInv, Truncate
    PROVE  WritePathInv'
<1>1. /\ pc = "truncate" /\ pc' = "sync_tail"
      /\ UNCHANGED <<disk, offset, recoveryVars, memoryVars, callVars, historyVars, boundVars>>
    BY Zenon DEF Truncate
<1>2. /\ file \in Seq(Byte) /\ Len(file) \in Nat /\ offset \in Nat /\ offset <= Len(file)
      /\ Boundary(file, offset, max_sequence) /\ Undamaged(file, 0, offset)
      /\ recovered = Newest({file[i].record : i \in Ends(file) \cap 1 .. offset})
    BY Zenon, <1>1, RecoveryState
<1>3. /\ file' \in Seq(Byte) /\ Len(file') = offset /\ WellFormed(file')
      /\ \A i \in 1 .. offset : file'[i] = file[i]
      /\ Ends(file') = Ends(file) /\ Ended(file') = Ended(file)
      /\ \A e \in Ends(file) : e \in 1 .. offset
    BY Zenon, TruncateShape
<1>4. TypeOK'
    <2>1. offset <= offset
        BY SMTT(30), <1>2
    <2> QED BY Zenon, <1>1, <1>3, <2>1 DEF WritePathInv, TypeOK, Up
<1>5. Undamaged(file', 0, offset)
    <2>1. \A i \in 1 .. offset : 0 + i = i
        OBVIOUS
    <2> QED BY Zenon, <1>2, <1>3, <2>1 DEF Undamaged
<1>6. ASSUME NEW e \in Ends(disk)
      PROVE  e <= Len(file') /\ \A j \in 1 .. e : file'[j] = disk[j]
    <2>1. disk \in Seq(Byte) /\ e <= Len(file) /\ \A j \in 1 .. e : file[j] = disk[j]
        BY Zenon DEF WritePathInv, TypeOK, LogsOK
    <2>2. e \in Nat /\ e \in 1 .. Len(file) /\ e \in 1 .. e
        BY SMTT(30), <1>2, <2>1, EndOf
    <2>3. e \in Ends(file)
        BY Zenon, <2>1, <2>2 DEF Ends
    <2>4. e <= offset /\ 1 .. e \subseteq 1 .. offset
        BY SMTT(30), <1>2, <1>3, <2>2, <2>3
    <2> QED BY Zenon, <1>3, <2>1, <2>4
<1>7. LogsOK'
    <2>1. SizesOK(file')
        BY Zenon, <1>2, <1>3, BeginningSizes DEF WritePathInv, LogsOK
    <2> QED BY Zenon, <1>1, <1>3, <1>5, <1>6, <2>1 DEF WritePathInv, LogsOK
<1>8. {file'[i].record : i \in Ends(file') \cap 1 .. offset}
          = {file[i].record : i \in Ends(file) \cap 1 .. offset}
    BY Zenon, <1>3
<1>9. Boundary(file', offset, max_sequence)
    BY Zenon, <1>2, <1>3 DEF Boundary
<1>10. RecoveryOK'
    BY Zenon, <1>1, <1>2, <1>3, <1>5, <1>8, <1>9 DEF RecoveryOK
<1> QED BY Zenon, <1>1, <1>4, <1>7, <1>10 DEF WritePathInv, MemoryOK, AppendOK, Up

\* The MemTable that RecoverWal returns is the newest record of every key.
LEMMA RecoveredInv ==
    ASSUME WritePathInv, pc \in {"recover", "truncate", "sync_tail"}, offset = Len(file),
           Recovered, disk' \in {disk, file},
           UNCHANGED <<file, failed, callVars, historyVars, boundVars>>
    PROVE  WritePathInv'
<1>1. /\ file \in Seq(Byte) /\ WellFormed(file) /\ Len(file) \in Nat
      /\ Boundary(file, Len(file), max_sequence) /\ Undamaged(file, 0, Len(file))
      /\ recovered = Newest({file[i].record : i \in Ends(file) \cap 1 .. Len(file)})
      /\ ~failed
    BY Zenon, RecoveryState
<1>2. /\ pc' = "ready" /\ offset' = 0
      /\ memtable' = recovered /\ last_sequence' = max_sequence
      /\ recovered' = {} /\ max_sequence' = 0
    BY Zenon DEF Recovered
<1>3. {file[i].record : i \in Ends(file) \cap 1 .. Len(file)} = Ended(file)
    <2>1. Ends(file) \cap 1 .. Len(file) = Ends(file)
        BY Zenon DEF Ends
    <2> QED BY Zenon, <2>1 DEF Ended
<1>4. MaxSequence \in Nat /\ ValueSize \in Nat /\ HeaderSize \in Nat
    BY Zenon, VersionAssumption, WritePathAssumption DEF VersionAssumption, WritePathAssumption
<1>5. TypeOK'
    <2>1. 0 <= Size(record)
        BY <1>4 DEF Size
    <2> QED BY SMTT(30), <1>2, <1>4, <2>1 DEF WritePathInv, TypeOK, Up
<1>6. LogsOK'
    <2>1. CASE disk' = disk
        BY Zenon, <2>1 DEF WritePathInv, LogsOK
    <2>2. CASE disk' = file
        <3>1. \A e \in Ends(file) : e <= Len(file)
            BY SMTT(30), <1>1, EndOf
        <3>2. acked \subseteq Ended(file)
            BY Zenon DEF WritePathInv, LogsOK, TypeOK
        <3> QED BY ZenonT(30), <2>2, <3>1, <3>2 DEF WritePathInv, LogsOK
    <2> QED BY Zenon, <2>1, <2>2
<1>7. MemoryOK'
    <2>1. {r \in Ended(file) : TRUE} = Ended(file)
        BY Zenon
    <2> QED BY Zenon, <1>1, <1>2, <1>3, <2>1 DEF MemoryOK, Up
<1> QED BY Zenon, <1>2, <1>5, <1>6, <1>7 DEF WritePathInv, RecoveryOK, AppendOK

\* RecoverWal returns at the end of the file, or after the repair of its tail.
LEMMA RecoverEndInv ==
    ASSUME WritePathInv, RecoverEnd \/ SyncTail
    PROVE  WritePathInv'
<1>1. CASE RecoverEnd
    <2>1. pc = "recover" /\ Remaining = 0 /\ Recovered /\ disk' \in {disk, file}
          /\ UNCHANGED <<file, failed, callVars, historyVars, boundVars>>
        BY Zenon, <1>1 DEF RecoverEnd
    <2>2. offset = Len(file)
        BY <2>1, RecoveryState
    <2> QED BY Zenon, <2>1, <2>2, RecoveredInv
<1>2. CASE SyncTail
    <2>1. pc = "sync_tail" /\ Recovered /\ disk' \in {disk, file}
          /\ UNCHANGED <<file, failed, callVars, historyVars, boundVars>>
        BY Zenon, <1>2 DEF SyncTail
    <2>2. offset = Len(file)
        BY Zenon, <2>1 DEF WritePathInv, RecoveryOK
    <2> QED BY Zenon, <2>1, <2>2, RecoveredInv
<1> QED BY Zenon, <1>1, <1>2

\* Write begins an Append behind the last whole record.
LEMMA WriteInv ==
    ASSUME WritePathInv, NEW key \in Key, NEW deleted \in BOOLEAN, NEW strict \in BOOLEAN,
           Write(key, deleted, strict)
    PROVE  WritePathInv'
<1>1. /\ pc = "ready" /\ ~failed /\ last_sequence < MaxSequence
      /\ last_sequence' = last_sequence + 1 /\ sync' = strict /\ offset' = 0 /\ pc' = "write"
      /\ record' = [sequence |-> last_sequence + 1, key |-> key, deleted |-> deleted]
      /\ UNCHANGED <<logVars, recoveryVars, memtable, failed, historyVars, boundVars>>
    BY Zenon DEF Write, Begin
<1>2. MaxSequence \in Nat /\ last_sequence \in 0 .. MaxSequence /\ last_sequence \in Nat
    BY VersionAssumption DEF VersionAssumption, WritePathInv, TypeOK
<1>3. last_sequence + 1 \in 1 .. MaxSequence /\ last_sequence + 1 - 1 = last_sequence
    BY SMTT(30), <1>1, <1>2
<1>4. record' \in Record /\ record'.sequence = last_sequence + 1
    BY Zenon, <1>1, <1>3 DEF Record
<1>5. Size(record') \in Nat /\ 0 < Size(record') /\ 0 <= Size(record')
    BY SMTT(30), <1>4, SizeOf
<1>6. /\ file \in Seq(Byte) /\ WellFormed(file) /\ Undamaged(file, 0, Len(file))
      /\ memtable = Newest({r \in Ended(file) : TRUE})
      /\ Boundary(file, Len(file), last_sequence)
    BY Zenon, <1>1 DEF WritePathInv, TypeOK, LogsOK, MemoryOK, Up
<1>7. ASSUME NEW e \in Ends(file) PROVE file[e].record.sequence # last_sequence + 1
    <2>1. e \in 1 .. Len(file) /\ Len(file) # 0
        BY SMTT(30), <1>6, EndOf, SeqShape
    <2>2. Len(file) \in Ends(file) /\ file[Len(file)].record.sequence = last_sequence
        BY Zenon, <1>6, <2>1 DEF Boundary
    <2>3. Len(file) \in 1 .. Len(file) /\ e <= Len(file)
        BY SMTT(30), <1>6, <2>1, SeqShape
    <2>4. file[e].record.sequence <= last_sequence /\ file[e].record.sequence \in Nat
        BY Zenon, <1>6, <2>1, <2>2, <2>3, SequencesGrow, ByteOf
    <2> QED BY SMTT(30), <1>2, <2>4
<1>8. {r \in Ended(file) : r.sequence # last_sequence + 1} = {r \in Ended(file) : TRUE}
    BY Zenon, <1>7 DEF Ended
<1>9. TypeOK'
    BY <1>1, <1>3, <1>4, <1>5 DEF WritePathInv, TypeOK, Up
<1>10. LogsOK'
    BY Zenon, <1>1 DEF WritePathInv, LogsOK
<1>11. MemoryOK'
    BY Zenon, <1>1, <1>6, <1>8 DEF MemoryOK, Up
<1>12. AppendOK'
    <2>1. record'.sequence - 1 = last_sequence
        BY SMTT(30), <1>2, <1>3, <1>4
    <2>2. EndsWith(file, record', 0)
        BY Zenon, <1>6, <2>1 DEF EndsWith
    <2> QED BY Zenon, <1>1, <1>4, <1>5, <2>2 DEF AppendOK
<1> QED BY Zenon, <1>1, <1>9, <1>10, <1>11, <1>12 DEF WritePathInv, RecoveryOK

\* What one write(2) does to the file: the bytes it appends.
LEMMA WriteSomeShape ==
    ASSUME WritePathInv, WriteSome
    PROVE  /\ record \in Record /\ offset \in Nat /\ Len(file) \in Nat
           /\ \E n \in Nat \ {0} :
                 /\ offset + n <= Size(record) /\ offset' = offset + n
                 /\ pc' = IF offset + n = Size(record) THEN Written ELSE "write"
                 /\ file' \in Seq(Byte) /\ Len(file') = Len(file) + n
                 /\ \A i \in 1 .. Len(file) : file'[i] = file[i]
                 /\ \A i \in Len(file) + 1 .. Len(file') :
                       /\ file'[i].record = record
                       /\ file'[i].place = offset + (i - Len(file))
                       /\ ~file'[i].damaged /\ file'[i].size = Size(record)
<1>1. pc = "write" /\ record \in Record /\ offset \in Nat /\ file \in Seq(Byte)
    BY Zenon DEF WriteSome, WritePathInv, TypeOK
<1>2. Len(file) \in Nat /\ Size(record) \in Nat
      /\ Size(record) <= HeaderSize + 1 + ValueSize
      /\ HeaderSize \in Nat /\ ValueSize \in Nat
    BY Zenon, <1>1, SeqShape, SizeOf, WritePathAssumption DEF WritePathAssumption
<1>3. PICK n \in 1 .. Size(record) - offset :
          /\ file' = file \o SubSeq(Encode(record), offset + 1, offset + n)
          /\ offset' = offset + n
          /\ pc' = IF offset + n = Size(record) THEN Written ELSE "write"
    BY Zenon DEF WriteSome
<1>4. n \in Nat \ {0} /\ offset + n \in Nat /\ offset + n <= Size(record)
    BY SMTT(30), <1>1, <1>2
<1> DEFINE part == SubSeq(Encode(record), offset + 1, offset + n)
<1>5. ASSUME NEW i \in offset + 1 .. offset + n
      PROVE  /\ Encode(record)[i] = [record |-> record, place |-> i, size |-> Size(record),
                                    damaged |-> FALSE]
             /\ Encode(record)[i] \in Byte
    <2>1. i \in 1 .. Size(record) /\ i \in 1 .. HeaderSize + 1 + ValueSize
        BY SMTT(30), <1>1, <1>2, <1>4
    <2>2. Encode(record)[i] = [record |-> record, place |-> i, size |-> Size(record),
                                    damaged |-> FALSE]
        BY Zenon, <2>1 DEF Encode
    <2>3. Size(record) \in Announced
        BY Zenon, <1>1, SizeOf
    <2> QED BY <1>1, <2>1, <2>2, <2>3 DEF Byte
<1>6. /\ part \in Seq(Byte) /\ Len(part) = n
      /\ \A i \in 1 .. n : part[i] = Encode(record)[offset + i]
    <2>1. offset + 1 \in Int /\ offset + n \in Int /\ offset + n - (offset + 1) + 1 = n
          /\ offset + 1 <= offset + n
          /\ \A i \in 1 .. n : offset + 1 + i - 1 = offset + i
        BY SMTT(30), <1>1, <1>4
    <2>2. /\ part \in Seq(Byte)
          /\ Len(part) = IF offset + 1 <= offset + n THEN offset + n - (offset + 1) + 1 ELSE 0
          /\ \A i \in 1 .. offset + n - (offset + 1) + 1 :
                part[i] = Encode(record)[offset + 1 + i - 1]
        <3> DEFINE lo == offset + 1
                   hi == offset + n
                   code == Encode(record)
        <3>1. lo \in Int /\ hi \in Int /\ \A i \in lo .. hi : code[i] \in Byte
            BY Zenon, <1>5, <2>1
        <3>2. part = SubSeq(code, lo, hi)
            BY Zenon
        <3> HIDE DEF lo, hi, code, part
        <3>3. /\ part \in Seq(Byte)
              /\ Len(part) = IF lo <= hi THEN hi - lo + 1 ELSE 0
              /\ \A i \in 1 .. hi - lo + 1 : part[i] = code[lo + i - 1]
            BY <3>1, <3>2, SeqPart
        <3> QED BY SMTT(30), <1>1, <1>4, <2>1, <3>3 DEF lo, hi, code
    <2> HIDE DEF part
    <2> QED BY Zenon, <2>1, <2>2
<1> HIDE DEF part
<1>7. /\ file' \in Seq(Byte) /\ Len(file') = Len(file) + n
      /\ \A i \in 1 .. Len(file) + n :
            file'[i] = IF i <= Len(file) THEN file[i] ELSE part[i - Len(file)]
    <2>1. file' = file \o part
        BY Zenon, <1>3 DEF part
    <2> QED BY Zenon, <1>1, <1>6, <2>1, SeqConcat
<1>8. \A i \in 1 .. Len(file) : file'[i] = file[i]
    BY <1>2, <1>4, <1>7
<1>9. ASSUME NEW i \in Len(file) + 1 .. Len(file')
      PROVE  /\ file'[i].record = record
             /\ file'[i].place = offset + (i - Len(file))
             /\ ~file'[i].damaged /\ file'[i].size = Size(record)
    <2>1. i \in 1 .. Len(file) + n /\ ~(i <= Len(file)) /\ i - Len(file) \in 1 .. n
        BY <1>2, <1>4, <1>7
    <2>2. offset + (i - Len(file)) \in offset + 1 .. offset + n
        BY SMTT(30), <1>1, <1>2, <1>4, <2>1
    <2>3. file'[i] = Encode(record)[offset + (i - Len(file))]
        BY Zenon, <1>6, <1>7, <2>1
    <2> DEFINE k == offset + (i - Len(file))
    <2> HIDE DEF k
    <2>4. Encode(record)[k] = [record |-> record, place |-> k, size |-> Size(record),
                                damaged |-> FALSE]
        BY Zenon, <1>5, <2>2 DEF k
    <2>5. file'[i].record = record /\ file'[i].place = k /\ ~file'[i].damaged
          /\ file'[i].size = Size(record)
        BY SMTT(30), <2>3, <2>4 DEF k
    <2> QED BY Zenon, <2>5 DEF k
<1> QED BY Zenon, <1>1, <1>2, <1>3, <1>4, <1>7, <1>8, <1>9

\* write(2) appends to the record that is being written, and to no other.
LEMMA WriteSomeInv ==
    ASSUME WritePathInv, WriteSome
    PROVE  /\ WritePathInv'
           /\ Ended(file') = Ended(file) \cup (IF offset' = Size(record) THEN {record} ELSE {})
           /\ \A r \in Ended(file) : r.sequence < record.sequence
<1>1. /\ pc = "write"
      /\ UNCHANGED <<disk, recoveryVars, memoryVars, callVars, historyVars, boundVars>>
    BY Zenon DEF WriteSome
<1>2. /\ file \in Seq(Byte) /\ WellFormed(file) /\ Undamaged(file, 0, Len(file))
      /\ EndsWith(file, record, offset) /\ offset < Size(record)
      /\ ~failed /\ record.sequence = last_sequence
      /\ memtable = Newest({r \in Ended(file) : r.sequence # last_sequence})
    BY Zenon, <1>1 DEF WritePathInv, TypeOK, LogsOK, MemoryOK, AppendOK, Up
<1>3. record \in Record /\ offset \in Nat /\ Len(file) \in Nat /\ Size(record) \in Nat
    BY Zenon, WriteSomeShape, SizeOf
<1>4. PICK n \in Nat \ {0} :
          /\ offset + n <= Size(record) /\ offset' = offset + n
          /\ pc' = IF offset + n = Size(record) THEN Written ELSE "write"
          /\ file' \in Seq(Byte) /\ Len(file') = Len(file) + n
          /\ \A i \in 1 .. Len(file) : file'[i] = file[i]
          /\ \A i \in Len(file) + 1 .. Len(file') :
                /\ file'[i].record = record
                /\ file'[i].place = offset + (i - Len(file))
                /\ ~file'[i].damaged /\ file'[i].size = Size(record)
    BY Zenon, WriteSomeShape
<1>5. /\ WellFormed(file') /\ EndsWith(file', record, offset + n)
      /\ Ends(file') = Ends(file) \cup (IF offset + n = Size(record) THEN {Len(file')} ELSE {})
      /\ \A i \in 1 .. Len(file) : i \in Ends(file) =>
             file[i].record.sequence < record.sequence
    <2>1. Appended(file, file', record, offset, n)
        BY Zenon, <1>4 DEF Appended
    <2>2. offset + n <= Size(record) /\ file' \in Seq(Byte)
        BY Zenon, <1>4
    <2>3. /\ WellFormed(file') /\ EndsWith(file', record, offset + n)
          /\ Ends(file') = Ends(file) \cup (IF offset + n = Size(record) THEN {Len(file')} ELSE {})
          /\ \A i \in 1 .. Len(file) : offset < Size(record) /\ i \in Ends(file) =>
                 file[i].record.sequence < record.sequence
        BY Zenon, <1>2, <1>3, <2>1, <2>2, AppendWellFormed
    <2> QED BY Zenon, <1>2, <2>3
<1>6. \A r \in Ended(file) : r.sequence < record.sequence
    <2>1. \A i \in Ends(file) : i \in 1 .. Len(file)
        BY Zenon DEF Ends
    <2> QED BY Zenon, <1>5, <2>1 DEF Ended
<1>7. Ended(file') = Ended(file) \cup (IF offset + n = Size(record) THEN {record} ELSE {})
    <2>1. \A i \in Ends(file) : file'[i] = file[i]
        BY Zenon, <1>4 DEF Ends
    <2>2. Len(file') \in Len(file) + 1 .. Len(file')
        BY SMTT(30), <1>3, <1>4
    <2>3. file'[Len(file')].record = record
        BY Zenon, <1>4, <2>2
    <2>4. CASE offset + n = Size(record)
        BY <1>5, <2>1, <2>3, <2>4 DEF Ended
    <2>5. CASE offset + n # Size(record)
        BY Zenon, <1>5, <2>1, <2>5 DEF Ended
    <2> QED BY Zenon, <2>4, <2>5
<1>8. pc' \in {"write", "sync", "apply"}
    BY Zenon, <1>4 DEF Written
<1>9. TypeOK'
    BY SMTT(30), <1>1, <1>3, <1>4, <1>8 DEF WritePathInv, TypeOK, Up
<1>10. Undamaged(file', 0, Len(file'))
    <2>1. ASSUME NEW i \in 1 .. Len(file') PROVE ~file'[0 + i].damaged
        <3>1. 0 + i = i /\ (i \in 1 .. Len(file) \/ i \in Len(file) + 1 .. Len(file'))
            BY SMTT(30), <1>3, <1>4
        <3>2. i \in 1 .. Len(file) => ~file[i].damaged
            BY Zenon, <1>2, <3>1 DEF Undamaged
        <3> QED BY Zenon, <1>4, <3>1, <3>2
    <2> QED BY Zenon, <2>1 DEF Undamaged
<1>11. LogsOK'
    <2>1. ASSUME NEW e \in Ends(disk)
          PROVE  e <= Len(file') /\ \A j \in 1 .. e : file'[j] = disk[j]
        <3>1. /\ disk \in Seq(Byte)
              /\ e <= Len(file) /\ \A j \in 1 .. e : file[j] = disk[j]
            BY Zenon DEF WritePathInv, TypeOK, LogsOK
        <3>2. e <= Len(file') /\ 1 .. e \subseteq 1 .. Len(file)
            BY <1>3, <1>4, <3>1, EndOf
        <3> QED BY Zenon, <1>4, <3>1, <3>2
    <2>2. answered \subseteq Ended(file')
        BY Zenon, <1>7 DEF WritePathInv, LogsOK
    <2>3. SizesOK(file')
        <3>1. ASSUME NEW i \in 1 .. Len(file')
              PROVE  ~file'[i].damaged /\ file'[i].size = Size(file'[i].record)
            <4>1. 0 + i = i /\ (i \in 1 .. Len(file) \/ i \in Len(file) + 1 .. Len(file'))
                BY SMTT(30), <1>3, <1>4
            <4>2. ~file'[i].damaged
                BY Zenon, <1>10, <4>1 DEF Undamaged
            <4>3. CASE i \in 1 .. Len(file)
                BY Zenon, <1>4, <4>2, <4>3 DEF WritePathInv, LogsOK, SizesOK
            <4> QED BY Zenon, <1>4, <4>1, <4>2, <4>3
        <3> QED BY Zenon, <1>4, <3>1, UndamagedSizes
    <2> QED BY Zenon, <1>1, <1>5, <1>10, <2>1, <2>2, <2>3 DEF WritePathInv, LogsOK
<1>12. MemoryOK'
    <2>1. {r \in Ended(file') : r.sequence # last_sequence}
              = {r \in Ended(file) : r.sequence # last_sequence}
        BY Zenon, <1>2, <1>7
    <2> QED BY Zenon, <1>1, <1>2, <1>8, <1>10, <2>1 DEF MemoryOK, Up
<1>13. AppendOK'
    <2>1. CASE offset + n = Size(record)
        <3>1. pc' = IF sync THEN "sync" ELSE "apply"
            BY Zenon, <1>4, <2>1 DEF Written
        <3>2. EndsWith(file', record', Size(record'))
            BY Zenon, <1>1, <1>5, <2>1
        <3>3. record'.sequence = last_sequence' /\ ~failed' /\ sync' = sync
            BY Zenon, <1>1, <1>2
        <3> QED BY Zenon, <3>1, <3>2, <3>3 DEF AppendOK
    <2>2. CASE offset + n # Size(record)
        <3>1. pc' = "write" /\ offset + n < Size(record)
            <4>1. pc' = "write" /\ n \in Nat /\ offset + n <= Size(record)
                BY Zenon, <1>4, <2>2
            <4> QED BY <1>3, <2>2, <4>1
        <3> QED BY Zenon, <1>1, <1>2, <1>4, <1>5, <3>1 DEF AppendOK
    <2> QED BY Zenon, <2>1, <2>2
<1> QED BY Zenon, <1>4, <1>6, <1>7, <1>8, <1>9, <1>11, <1>12, <1>13 DEF WritePathInv,
           RecoveryOK

\* fdatasync makes everything in the file durable.
LEMMA SyncInv ==
    ASSUME WritePathInv, Sync
    PROVE  WritePathInv'
<1>1. /\ pc = "sync" /\ disk' = file /\ pc' = "apply"
      /\ UNCHANGED <<file, offset, recoveryVars, memoryVars, callVars, historyVars, boundVars>>
    BY Zenon DEF Sync
<1>2. file \in Seq(Byte)
    BY Zenon DEF WritePathInv, TypeOK
<1>3. TypeOK'
    BY Zenon, <1>1 DEF WritePathInv, TypeOK, Up
<1>4. LogsOK'
    <2>1. \A e \in Ends(file) : e <= Len(file)
        BY SMTT(30), <1>2, EndOf, SeqShape
    <2>2. acked \subseteq Ended(file)
        BY Zenon DEF WritePathInv, LogsOK, TypeOK
    <2> QED BY Zenon, <1>1, <2>1, <2>2 DEF WritePathInv, LogsOK
<1>5. MemoryOK'
    BY Zenon, <1>1 DEF WritePathInv, MemoryOK, Up
<1>6. AppendOK'
    BY Zenon, <1>1 DEF WritePathInv, AppendOK
<1> QED BY Zenon, <1>1, <1>3, <1>4, <1>5, <1>6 DEF WritePathInv, RecoveryOK

\* A record whose Append failed stays out of the MemTable.
LEMMA AppendFailsInv ==
    ASSUME WritePathInv, AppendFails
    PROVE  WritePathInv'
<1>1. /\ pc \in {"write", "sync"} /\ pc' = "ready" /\ offset' = 0 /\ failed'
      /\ record' = NoRecord
      /\ UNCHANGED <<logVars, recoveryVars, memtable, last_sequence, historyVars,
                     crashes, damages>>
    BY Zenon DEF AppendFails
<1>2. failed' \in BOOLEAN /\ sync' \in BOOLEAN
    BY Zenon DEF AppendFails
<1>3. failures' \in 0 .. MaxFailures
    BY WritePathAssumption DEF AppendFails, WritePathInv, TypeOK, WritePathAssumption
<1>4. 0 <= Size(record')
    BY WritePathAssumption DEF WritePathAssumption, Size
<1>5. TypeOK'
    BY Zenon, <1>1, <1>2, <1>3, <1>4 DEF WritePathInv, TypeOK, Up
<1>6. LogsOK'
    BY Zenon, <1>1 DEF WritePathInv, LogsOK
<1>7. MemoryOK'
    BY Zenon, <1>1 DEF WritePathInv, MemoryOK, Up
<1> QED BY Zenon, <1>1, <1>5, <1>6, <1>7 DEF WritePathInv, RecoveryOK, AppendOK

\* Before the MemTable takes the record, it holds every other one, all older.
LEMMA ApplyState ==
    ASSUME WritePathInv, pc = "apply"
    PROVE  /\ record \in Record /\ record \in Ended(file)
           /\ Boundary(file, Len(file), last_sequence)
           /\ AddAccepts(memtable, record)
           /\ Newest(Ended(file)) = Insert(memtable, record)
<1> DEFINE S == {r \in Ended(file) : r.sequence # last_sequence}
<1>1. /\ file \in Seq(Byte) /\ WellFormed(file) /\ record \in Record
      /\ record.sequence = last_sequence /\ EndsWith(file, record, Size(record))
      /\ memtable = Newest(S)
    BY Zenon DEF WritePathInv, TypeOK, LogsOK, MemoryOK, AppendOK, Up
<1>2. Len(file) \in Nat /\ Size(record) \in Nat /\ Size(record) # 0
    BY SMTT(30), <1>1, SeqShape, SizeOf
<1>3. /\ Len(file) \in 1 .. Len(file) /\ file[Len(file)].record = record
      /\ file[Len(file)].place = Size(record)
    BY <1>1, <1>2 DEF EndsWith
<1>4. Len(file) \in Ends(file)
    BY Zenon, <1>3 DEF Ends
<1>5. ASSUME NEW r \in Ended(file)
      PROVE  r \in Record /\ (r = record \/ r.sequence < record.sequence)
    <2>1. PICK e \in Ends(file) : r = file[e].record
        BY Zenon DEF Ended
    <2>2. e \in 1 .. Len(file) /\ e <= Len(file) /\ r \in Record /\ r.sequence \in Nat
        BY <1>1, <1>2, <2>1, EndOf, ByteOf
    <2>3. r.sequence <= record.sequence /\ record.sequence \in Nat
        BY Zenon, <1>1, <1>3, <2>1, <2>2, SequencesGrow, ByteOf
    <2>4. r.sequence = record.sequence => r = record
        BY Zenon, <1>1, <1>3, <2>1, <2>2, SameSequence
    <2> QED BY SMTT(30), <2>2, <2>3, <2>4
<1>6. record \in Ended(file)
    BY Zenon, <1>3, <1>4 DEF Ended
<1>7. Ended(file) = S \cup {record}
    BY SMTT(30), <1>1, <1>5, <1>6 DEF Record
<1>8. S \in SUBSET Record /\ \A q \in S : q.sequence < record.sequence
    BY Zenon, <1>1, <1>5
<1> HIDE DEF S
<1>9. Newest(S \cup {record}) = Insert(Newest(S), record) /\ AddAccepts(Newest(S), record)
    BY Zenon, <1>1, <1>8, NewestInsert
<1> QED BY Zenon, <1>1, <1>3, <1>4, <1>6, <1>7, <1>9 DEF Boundary

\* The MemTable takes the record, and Write acknowledges it.
LEMMA ApplyRecordInv ==
    ASSUME WritePathInv, ApplyRecord
    PROVE  WritePathInv'
<1>1. /\ pc = "apply" /\ pc' = "ready" /\ offset' = 0 /\ record' = NoRecord
      /\ memtable' = Insert(memtable, record)
      /\ answered' = answered \cup {record}
      /\ acked' = IF sync THEN acked \cup {record} ELSE acked
      /\ UNCHANGED <<logVars, recoveryVars, last_sequence, failed, boundVars>>
    BY Zenon DEF ApplyRecord
<1>2. /\ record \in Record /\ record \in Ended(file)
      /\ Boundary(file, Len(file), last_sequence)
      /\ memtable' = Newest(Ended(file))
    BY Zenon, <1>1, ApplyState
<1>3. ~failed /\ (sync => disk = file) /\ Undamaged(file, 0, Len(file))
    BY Zenon, <1>1 DEF WritePathInv, AppendOK, MemoryOK, Up
<1>4. TypeOK'
    <2>1. sync' \in BOOLEAN
        BY Zenon DEF ApplyRecord
    <2>2. 0 <= Size(record')
        BY WritePathAssumption DEF WritePathAssumption, Size
    <2>3. memtable' \subseteq Record
        BY Zenon, <1>1, <1>2 DEF WritePathInv, TypeOK, Insert
    <2>4. acked' \subseteq answered' /\ answered' \subseteq Record
        BY Zenon, <1>1, <1>2 DEF WritePathInv, TypeOK
    <2> QED BY Zenon, <1>1, <2>1, <2>2, <2>3, <2>4 DEF WritePathInv, TypeOK, Up
<1>5. LogsOK'
    <2>1. acked' \subseteq Ended(disk)
        BY Zenon, <1>1, <1>2, <1>3 DEF WritePathInv, LogsOK
    <2>2. answered' \subseteq Ended(file)
        BY Zenon, <1>1, <1>2 DEF WritePathInv, LogsOK
    <2> QED BY Zenon, <1>1, <2>1, <2>2 DEF WritePathInv, LogsOK
<1>6. MemoryOK'
    <2>1. {r \in Ended(file) : TRUE} = Ended(file)
        BY Zenon
    <2> QED BY Zenon, <1>1, <1>2, <1>3, <2>1 DEF MemoryOK, Up
<1> QED BY Zenon, <1>1, <1>4, <1>5, <1>6 DEF WritePathInv, RecoveryOK, AppendOK

\* The invariant holds in every state of every behaviour.
LEMMA NextInv ==
    ASSUME NoDisguise, WritePathInv, [Next]_vars
    PROVE  WritePathInv'
<1>1. CASE Recovery
    BY Zenon, <1>1, OpenInv, GoneInv, RecoverRecordInv, RecoverEndInv, RecoverTailInv, TruncateInv
    DEF Recovery
<1>2. CASE Writing
    BY Zenon, <1>2, WriteInv, WriteSomeInv, SyncInv, AppendFailsInv, ApplyRecordInv DEF Writing
<1>3. CASE Destroy \/ ProcessCrash
    BY Zenon, <1>3, GoneInv
<1>4. CASE PowerFailure
    BY Zenon, <1>4, PowerFailureInv
<1>5. CASE Damage
    BY Zenon, <1>5, DamageInv
<1>6. CASE UNCHANGED vars
    <2>1. TypeOK'
        BY Zenon, <1>6 DEF WritePathInv, TypeOK, vars
    <2>2. LogsOK'
        BY Zenon, <1>6 DEF WritePathInv, LogsOK, vars
    <2>3. RecoveryOK'
        BY Zenon, <1>6 DEF WritePathInv, RecoveryOK, vars
    <2>4. MemoryOK'
        BY Zenon, <1>6 DEF WritePathInv, MemoryOK, vars
    <2>5. AppendOK'
        BY Zenon, <1>6 DEF WritePathInv, AppendOK, vars
    <2> QED BY Zenon, <2>1, <2>2, <2>3, <2>4, <2>5 DEF WritePathInv
<1> QED BY Zenon, <1>1, <1>2, <1>3, <1>4, <1>5, <1>6 DEF Next

\* WritePathInv is an invariant of module WritePath when no damage makes a
\* header announce a longer record.
THEOREM LogInvariant ==
    ASSUME NoDisguise
    PROVE  Spec => []WritePathInv
<1>1. Init => WritePathInv
    BY Zenon, InitInv
<1>2. WritePathInv /\ [Next]_vars => WritePathInv'
    BY Zenon, NextInv
<1> QED BY <1>1, <1>2, PTL DEF Spec

------------------------------------------------------------------------------
(* The theorems *)

\* Every variable of the write path has its type, whatever fails, crashes or is
\* damaged: sequence numbers stay in range and no offset passes its bytes.
THEOREM WritePathTypes ==
    ASSUME NoDisguise
    PROVE  Spec => []TypeOK
<1>1. WritePathInv => TypeOK
    BY Zenon DEF WritePathInv
<1> QED BY <1>1, LogInvariant, PTL

\* A log that WritePath::Open accepted has no damaged byte, however many the
\* storage damaged: RecoverWal found them, or they were in the tail it removed.
THEOREM DamageFound ==
    ASSUME NoDisguise
    PROVE  Spec => []OpenedUndamaged
<1>1. WritePathInv => OpenedUndamaged
    BY Zenon DEF WritePathInv, MemoryOK, OpenedUndamaged
<1> QED BY <1>1, LogInvariant, PTL

\* Between calls the MemTable is the newest record of every key of the log,
\* also after an Append that failed, a repair, and any damage.
THEOREM MemtableMatchesLog ==
    ASSUME NoDisguise
    PROVE  Spec => []MemtableIsLog
<1>1. WritePathInv => MemtableIsLog
    <2> SUFFICES ASSUME WritePathInv, pc \in Up PROVE MemtableIsLog
        BY Zenon DEF MemtableIsLog
    <2>1. file \in Seq(Byte) /\ WellFormed(file)
        BY Zenon DEF WritePathInv, TypeOK, LogsOK
    <2>2. Complete(file) = Ended(file)
        BY Zenon, <2>1, CompleteIsEnded
    <2> QED BY Zenon, <2>2 DEF WritePathInv, MemoryOK, MemtableIsLog
<1> QED BY <1>1, LogInvariant, PTL

\* The complete records of the file and the disk are those that end in it, and
\* so are those of every survivor.
LEMMA CompleteLogs ==
    ASSUME WritePathInv
    PROVE  /\ Complete(file) = Ended(file) /\ Complete(disk) = Ended(disk)
           /\ \A s \in Survivors : Complete(s) = Ended(s) /\ s \in Seq(Byte) /\ WellFormed(s)
<1>1. /\ file \in Seq(Byte) /\ WellFormed(file)
      /\ disk \in Seq(Byte) /\ WellFormed(disk) /\ LogsOK
    BY Zenon DEF WritePathInv, TypeOK, LogsOK
<1>2. Complete(file) = Ended(file) /\ Complete(disk) = Ended(disk)
    BY Zenon, <1>1, CompleteIsEnded
<1>3. ASSUME NEW s \in Survivors
      PROVE  Complete(s) = Ended(s) /\ s \in Seq(Byte) /\ WellFormed(s)
    <2>1. s \in Seq(Byte) /\ WellFormed(s)
        BY Zenon, <1>1, SurvivorOf
    <2> QED BY Zenon, <2>1, CompleteIsEnded
<1> QED BY Zenon, <1>2, <1>3

\* A strict write that WritePath::Write acknowledged is in whatever file a power
\* failure leaves, in every state: also half-way through the repair of a tail.
THEOREM StrictWritesSurvive ==
    ASSUME NoDisguise
    PROVE  Spec => []StrictSurvives
<1>1. WritePathInv => StrictSurvives
    <2> SUFFICES ASSUME WritePathInv, NEW s \in Survivors
                 PROVE  acked \subseteq Complete(s)
        BY Zenon DEF StrictSurvives
    <2>1. file \in Seq(Byte) /\ disk \in Seq(Byte) /\ LogsOK /\ acked \subseteq Ended(disk)
        BY Zenon DEF WritePathInv, TypeOK, LogsOK
    <2>2. Ended(disk) \subseteq Ended(s)
        BY Zenon, <2>1, SurvivorOf
    <2> QED BY Zenon, <2>1, <2>2, CompleteLogs
<1> QED BY <1>1, LogInvariant, PTL

\* Every acknowledged write is in the file a process crash leaves, and no
\* repair of a torn tail cuts it.
THEOREM AnswersInFile ==
    ASSUME NoDisguise
    PROVE  Spec => []AnsweredInFile
<1>1. WritePathInv => AnsweredInFile
    BY Zenon, CompleteLogs DEF WritePathInv, LogsOK, AnsweredInFile
<1> QED BY <1>1, LogInvariant, PTL

\* What a power failure leaves is a prefix of the writes: no sequence number is
\* missing below another one.
THEOREM PrefixRecovered ==
    ASSUME NoDisguise
    PROVE  Spec => []RecoversPrefix
<1>1. WritePathInv => RecoversPrefix
    <2> SUFFICES ASSUME WritePathInv, NEW s \in Survivors
                 PROVE  Sequences(Complete(s)) = 1 .. MaximumSequence(Complete(s))
        BY Zenon DEF RecoversPrefix
    <2>1. Complete(s) = Ended(s) /\ s \in Seq(Byte) /\ WellFormed(s)
        BY Zenon, CompleteLogs
    <2> QED BY Zenon, <2>1, EndedSequences
<1> QED BY <1>1, LogInvariant, PTL

\* RecoverWal finds, behind what it has recovered, a torn tail or a record it
\* accepts.
LEMMA RecordOrTail ==
    ASSUME WritePathInv, damages = 0, pc = "recover", Remaining > 0, ~TailIsTorn
    PROVE  RecordIsNext
<1> DEFINE r == file[offset + 1].record
<1>1. /\ file \in Seq(Byte) /\ WellFormed(file) /\ Len(file) \in Nat
      /\ offset \in Nat /\ offset <= Len(file) /\ Remaining = Len(file) - offset
      /\ max_sequence \in Nat /\ Boundary(file, offset, max_sequence)
      /\ recovered = Newest({file[i].record : i \in Ends(file) \cap 1 .. offset})
      /\ \A i \in 1 .. offset : file[i].record.sequence <= max_sequence
    BY Zenon, RecoveryState
<1>2. offset < Len(file) /\ offset + 1 \in 1 .. Len(file)
    BY SMTT(30), <1>1
<1>3. r \in Record /\ Size(r) \in Nat /\ HeaderSize \in Nat /\ Size(r) > HeaderSize
      /\ r.sequence \in Nat /\ HeaderSize > 1
    BY Zenon, <1>1, <1>2, ByteOf, SizeOf
<1>4. Undamaged(file, 0, Len(file))
    BY Zenon DEF WritePathInv, LogsOK
<1>5. \A i \in 1 .. Len(file) : ~file[i].damaged
    <2>1. \A i \in 1 .. Len(file) : 0 + i = i
        BY <1>1
    <2> QED BY Zenon, <1>4, <2>1 DEF Undamaged
<1>6. Remaining >= HeaderSize
    BY SMTT(30), <1>1, <1>3 DEF TailIsTorn
<1>7. ASSUME NEW n \in Nat, n <= Remaining, n <= Size(r) PROVE EncodesAt(file, offset, n, r)
    <2>1. ASSUME NEW i \in 1 .. n
          PROVE  file[offset + i].record = r /\ file[offset + i].place = i
        <3>1. i \in Nat \ {0} /\ offset + i <= Len(file) /\ i <= Size(r)
            BY SMTT(30), <1>1, <1>3, <1>7
        <3>2. /\ file \in Seq(Byte) /\ WellFormed(file)
              /\ Boundary(file, offset, max_sequence) /\ offset < Len(file)
            BY Zenon, <1>1, <1>2
        <3> QED BY <3>1, <3>2, NextEncoding
    <2>2. offset + n <= Len(file)
        BY <1>1, <1>7
    <2> QED BY Zenon, <2>1, <2>2 DEF EncodesAt
<1>8. HeaderDecodes(file, offset)
    <2>1. EncodesAt(file, offset, HeaderSize, r)
        BY <1>1, <1>3, <1>6, <1>7
    <2>2. ASSUME NEW i \in 1 .. HeaderSize PROVE file[offset + i].size = Size(r)
        <3>1. offset + i \in 1 .. Len(file)
            BY SMTT(30), <1>1, <1>3, <1>6
        <3>2. file[offset + i].record = r
            BY Zenon, <2>1 DEF EncodesAt
        <3> QED BY Zenon, <1>5, <3>1, <3>2 DEF WritePathInv, LogsOK, SizesOK
    <2>3. Size(r) # 0 /\ 1 \in 1 .. HeaderSize /\ 2 \in 1 .. HeaderSize
        BY <1>3
    <2> QED BY Zenon, <2>1, <2>2, <2>3 DEF HeaderDecodes
<1>9. Size(r) <= Remaining
    <2>1. file[offset + 1].size = Size(r)
        BY Zenon, <1>2, <1>5 DEF WritePathInv, LogsOK, SizesOK
    <2> QED BY <1>1, <1>3, <1>8, <2>1 DEF TailIsTorn
<1>10. ChecksumMatches(file, offset)
    <2>1. EncodesAt(file, offset, Size(r), r)
        BY <1>1, <1>3, <1>7, <1>9
    <2>2. \A i \in 1 .. Size(r) : offset + i \in 1 .. Len(file)
        BY SMTT(30), <1>1, <1>3, <1>9
    <2>3. Undamaged(file, offset, Size(r))
        BY Zenon, <1>5, <2>2 DEF Undamaged
    <2> QED BY Zenon, <2>1, <2>3 DEF ChecksumMatches
<1>11. r.sequence > max_sequence
    <2>1. max_sequence < r.sequence
        BY SMTT(30), <1>1, <1>2, BehindBoundary
    <2> QED BY Zenon, <1>1, <1>3, <2>1
<1>12. AddAccepts(recovered, r)
    <2>1. ASSUME NEW q \in recovered PROVE q.sequence < r.sequence
        <3>1. PICK i \in Ends(file) \cap 1 .. offset : q = file[i].record
            BY Zenon, <1>1 DEF Newest
        <3>2. q.sequence <= max_sequence /\ q.sequence \in Nat
            BY Zenon, <1>1, <3>1, EndOf, ByteOf
        <3> QED BY SMTT(30), <1>1, <1>3, <1>11, <3>2
    <2> QED BY Zenon, <2>1 DEF AddAccepts
<1> QED BY Zenon, <1>6, <1>8, <1>10, <1>11, <1>12 DEF RecordIsNext

\* Without damage RecoverWal reports no corruption, whatever crashes, failed
\* calls and repairs came before, and the MemTable refuses no record of the log.
THEOREM NothingCorrupt ==
    ASSUME NoDisguise
    PROVE  Spec => []NeverCorrupt
<1>1. WritePathInv => NeverCorrupt
    BY Zenon, RecordOrTail, ApplyState DEF NeverCorrupt, Corruption
<1> QED BY <1>1, LogInvariant, PTL

\* No step of the program removes a record whose bytes are all in the file, also
\* when some of them are damaged: RecoverWal does not take it for a torn tail.
THEOREM RecordsStay ==
    ASSUME NoDisguise
    PROVE  Spec => RecordsKept
<1> DEFINE Kept == Complete(file) \subseteq Complete(file')
<1>1. ASSUME WritePathInv, WritePathInv', [Next]_vars, crashes' = crashes PROVE Kept
    <2>1. /\ file \in Seq(Byte) /\ WellFormed(file)
          /\ file' \in Seq(Byte) /\ WellFormed(file')
        BY Zenon, <1>1 DEF WritePathInv, TypeOK, LogsOK
    <2>2. Complete(file) = Ended(file) /\ Complete(file') = Ended(file')
        BY Zenon, <2>1, CompleteIsEnded
    <2>3. CASE file' = file
        BY Zenon, <2>3
    <2>4. CASE Truncate
        BY Zenon, <1>1, <2>2, <2>4, TruncateShape
    <2>5. CASE WriteSome
        <3>1. Ended(file) \subseteq Ended(file')
            BY Zenon, <1>1, <2>5, WriteSomeInv
        <3> QED BY Zenon, <2>2, <3>1
    <2>6. CASE Damage
        BY Zenon, <1>1, <2>2, <2>6, DamageEnded
    <2>7. CASE PowerFailure
        BY <1>1, <2>7, WritePathAssumption DEF PowerFailure, WritePathInv, TypeOK,
                                               WritePathAssumption
    <2>8. \/ file' = file \/ Truncate \/ WriteSome \/ Damage \/ PowerFailure
        BY Zenon, <1>1 DEF Next, Recovery, Writing, Open, OpenFails, RecoverRecord, RecoverEnd,
                    RecoverTail, RecoverCorruption, SyncTail, Write, Begin, Sync, AppendFails,
                    ApplyRecord, Destroy, ProcessCrash, vars
    <2> QED BY Zenon, <2>3, <2>4, <2>5, <2>6, <2>7, <2>8
<1>2. WritePathInv /\ WritePathInv' /\ [Next]_vars => [crashes' = crashes => Kept]_vars
    BY Zenon, <1>1
<1> QED BY <1>2, LogInvariant, PTL DEF Spec, RecordsKept

------------------------------------------------------------------------------
(* The bytes implement the abstract log *)

\* A beginning of the file that holds the records of D holds exactly those up
\* to its own last sequence number or that of D.
LEMMA BeginningIsCut ==
    ASSUME NEW s \in Seq(Byte), WellFormed(s), NEW P \in Beginnings(s),
           NEW D \in SUBSET EndedBy(s, P)
    PROVE  LET S == EndedBy(s, P)
           IN  /\ MaximumSequence(S) \in 0 .. MaxSequence
               /\ S = {r \in Ended(s) : \/ r.sequence <= MaximumSequence(S)
                                        \/ r.sequence <= MaximumSequence(D)}
<1> DEFINE S == EndedBy(s, P)
<1>1. P \subseteq 1 .. Len(s) /\ \A i \in P : 1 .. i \subseteq P
    BY Zenon DEF Beginnings
<1>2. Ended(s) \in SUBSET Record /\ S \subseteq Ended(s) /\ S \in SUBSET Record
      /\ D \in SUBSET Record /\ D \subseteq S
    BY Zenon, EndedSequences DEF Ended, EndedBy
<1> HIDE DEF S
<1>3. /\ MaximumSequence(S) \in 0 .. MaxSequence
      /\ MaximumSequence(S) \in Nat /\ MaximumSequence(D) \in Nat
      /\ MaximumSequence({}) = 0
    <2>1. MaximumSequence(S) \in 0 .. MaxSequence /\ MaximumSequence(D) \in 0 .. MaxSequence
        BY Zenon, <1>2, MaximumSequenceOf
    <2>2. MaximumSequence({}) = 0
        BY Zenon DEF MaximumSequence
    <2> QED BY <2>1, <2>2, VersionAssumption DEF VersionAssumption
<1>4. \A r \in S : r.sequence <= MaximumSequence(S)
    BY Zenon, <1>2, MaximumSequenceOf
<1>5. MaximumSequence(D) <= MaximumSequence(S)
    <2>1. CASE D = {}
        BY SMTT(30), <1>3, <2>1
    <2>2. CASE D # {}
        <3>1. PICK r \in D : r.sequence = MaximumSequence(D)
            BY Zenon, <1>2, <2>2, MaximumSequenceOf
        <3> QED BY Zenon, <1>2, <1>4, <3>1
    <2> QED BY Zenon, <2>1, <2>2
<1>6. ASSUME NEW i \in Ends(s), s[i].record.sequence <= MaximumSequence(S)
      PROVE  s[i].record \in S
    <2>1. i \in 1 .. Len(s) /\ s[i].record.sequence \in Nat /\ s[i].record.sequence >= 1
        BY EndOf, ByteOf
    <2>2. S # {}
        <3>1. S = {} => MaximumSequence(S) = 0
            BY Zenon DEF MaximumSequence
        <3>2. MaximumSequence(S) # 0
            BY SMTT(30), <1>3, <1>6, <2>1
        <3> QED BY Zenon, <3>1, <3>2
    <2>3. PICK e \in Ends(s) \cap P : s[e].record.sequence = MaximumSequence(S)
        BY Zenon, <1>2, <2>2, MaximumSequenceOf DEF S, EndedBy
    <2>4. ASSUME i \notin P PROVE FALSE
        <3>1. e < i
            <4>1. i \notin 1 .. e
                BY Zenon, <1>1, <2>3, <2>4
            <4>2. e \in Nat /\ Len(s) \in Nat
                BY Zenon, EndOf, SeqShape
            <4> QED BY <2>1, <4>1, <4>2
        <3>2. Boundary(s, e, MaximumSequence(S))
            BY Zenon, <2>3 DEF Boundary
        <3>3. MaximumSequence(S) < s[i].record.sequence
            BY Zenon, <2>1, <3>1, <3>2, BehindBoundary
        <3> QED BY SMTT(30), <1>3, <1>6, <2>1, <3>3
    <2> QED BY Zenon, <2>4 DEF S, EndedBy
<1>7. ASSUME NEW r \in Ended(s),
             r.sequence <= MaximumSequence(S) \/ r.sequence <= MaximumSequence(D)
      PROVE  r \in S
    <2>1. r.sequence <= MaximumSequence(S)
        <3>1. r.sequence \in Int
            BY SMTT(30), <1>2 DEF Record
        <3> QED BY <1>3, <1>5, <1>7, <3>1
    <2>2. PICK i \in Ends(s) : r = s[i].record
        BY Zenon DEF Ended
    <2> QED BY Zenon, <1>6, <2>1, <2>2
<1> QED BY Zenon, <1>2, <1>3, <1>4, <1>7 DEF S

\* The operators of module Version are those of the instance.
LEMMA SameOperators ==
    /\ Log!Record = Record
    /\ \A S : Log!MaximumSequence(S) = MaximumSequence(S)
BY Zenon DEF Log!Record, Record, Log!MaximumSequence, MaximumSequence, Log!Sequences, Sequences

\* Every step appends a record, syncs, cuts the log at a power failure, or
\* changes nothing that a recovery would see.
LEMMA RefinementStep ==
    ASSUME WritePathInv, WritePathInv', [Next]_vars
    PROVE  [Log!Next]_<<Complete(file), MaximumSequence(Complete(disk))>>
<1>1. /\ Complete(file) = Ended(file) /\ Complete(disk) = Ended(disk)
      /\ \A s \in Survivors : Complete(s) = Ended(s)
    BY Zenon, CompleteLogs
<1>2. file' \in Seq(Byte) /\ disk' \in Seq(Byte) /\ WellFormed(file') /\ WellFormed(disk')
    BY Zenon DEF WritePathInv, TypeOK, LogsOK
<1>3. Complete(file') = Ended(file') /\ Complete(disk') = Ended(disk')
    BY Zenon, <1>2, CompleteIsEnded
<1>4. /\ file \in Seq(Byte) /\ disk \in Seq(Byte) /\ WellFormed(file) /\ WellFormed(disk)
      /\ LogsOK
    BY Zenon DEF WritePathInv, TypeOK, LogsOK
<1>5. Ended(file) \in SUBSET Record
    BY Zenon, <1>4, EndedSequences
<1>6. CASE UNCHANGED <<file, disk>>
    BY Zenon, <1>6
<1>7. CASE Truncate
    <2>1. Ended(file') = Ended(file) /\ disk' = disk
        BY Zenon, <1>7, TruncateShape DEF Truncate
    <2> QED BY Zenon, <1>1, <1>3, <2>1
<1>8. CASE disk' = file /\ file' = file
    <2>1. Log!Sync
        BY Zenon, <1>8, SameOperators DEF Log!Sync
    <2> QED BY Zenon, <2>1 DEF Log!Next
<1>9. CASE WriteSome
    <2>1. /\ Ended(file') = Ended(file) \cup (IF offset' = Size(record) THEN {record} ELSE {})
          /\ \A r \in Ended(file) : r.sequence < record.sequence
          /\ record \in Record /\ disk' = disk
        BY Zenon, <1>9, WriteSomeInv, WriteSomeShape DEF WriteSome
    <2>2. CASE offset' = Size(record)
        <3>1. record.sequence > MaximumSequence(Ended(file))
            <4>1. MaximumSequence(Ended(file)) \in Int /\ record.sequence \in Nat \ {0}
                BY SMTT(30), <1>5, <2>1, MaximumSequenceOf DEF Record
            <4>2. CASE Ended(file) = {}
                BY <4>1, <4>2 DEF MaximumSequence
            <4>3. CASE Ended(file) # {}
                <5>1. PICK r \in Ended(file) : r.sequence = MaximumSequence(Ended(file))
                    BY Zenon, <1>5, <4>3, MaximumSequenceOf
                <5> QED BY Zenon, <2>1, <4>1, <5>1
            <4> QED BY Zenon, <4>2, <4>3
        <3>2. Log!AppendRecord(record)
            BY Zenon, <1>1, <1>3, <2>1, <2>2, <3>1, SameOperators DEF Log!AppendRecord
        <3> QED BY Zenon, <2>1, <3>2, SameOperators DEF Log!Next
    <2>3. CASE offset' # Size(record)
        BY Zenon, <1>1, <1>3, <2>1, <2>3
    <2> QED BY Zenon, <2>2, <2>3
<1>10. CASE PowerFailure
    <2>1. file' \in Survivors /\ disk' = file'
        BY Zenon, <1>10 DEF PowerFailure
    <2>2. Ended(disk) \in SUBSET Ended(file')
        BY Zenon, <1>4, <2>1, SurvivorOf
    <2>3. PICK P \in Beginnings(file) : Ended(file') = EndedBy(file, P)
        BY Zenon, <1>4, <2>1, SurvivorOf
    <2>4. /\ MaximumSequence(Ended(file')) \in 0 .. MaxSequence
          /\ Ended(file') = {r \in Ended(file) :
                                \/ r.sequence <= MaximumSequence(Ended(file'))
                                \/ r.sequence <= MaximumSequence(Ended(disk))}
        <3>1. Ended(disk) \in SUBSET EndedBy(file, P)
            BY Zenon, <2>2, <2>3
        <3>2. /\ MaximumSequence(EndedBy(file, P)) \in 0 .. MaxSequence
              /\ EndedBy(file, P) = {r \in Ended(file) :
                                        \/ r.sequence <= MaximumSequence(EndedBy(file, P))
                                        \/ r.sequence <= MaximumSequence(Ended(disk))}
            BY <1>4, <3>1, BeginningIsCut
        <3> QED BY Zenon, <2>3, <3>2
    <2>5. Log!PowerFailure(MaximumSequence(Ended(file')))
        BY Zenon, <1>1, <1>3, <2>1, <2>4, SameOperators DEF Log!PowerFailure
    <2> QED BY Zenon, <2>4, <2>5 DEF Log!Next
<1>11. CASE Damage
    <2>1. Ended(file') = Ended(file) /\ disk = file /\ disk' = file'
        BY Zenon, <1>11, DamageEnded DEF Damage
    <2> QED BY Zenon, <1>1, <1>3, <2>1
<1>12. \/ UNCHANGED <<file, disk>> \/ Truncate \/ (disk' = file /\ file' = file)
       \/ WriteSome \/ PowerFailure \/ Damage
    BY Zenon DEF Next, Recovery, Writing, Open, OpenFails, RecoverRecord, RecoverEnd,
           RecoverTail, RecoverCorruption, SyncTail, Write, Begin, Sync, AppendFails,
           ApplyRecord, Destroy, ProcessCrash, vars
<1> QED BY Zenon, <1>6, <1>7, <1>8, <1>9, <1>10, <1>11, <1>12

\* The bytes that wal.cpp writes and recovery.cpp repairs implement the log
\* that module Database takes for granted; damage is found, never repaired.
THEOREM BytesImplementLog ==
    ASSUME NoDisguise
    PROVE  Spec => ImplementsLog
<1>1. Init => Log!Init
    <2> SUFFICES ASSUME Init PROVE Log!Init
        BY Zenon
    <2>1. WritePathInv /\ file = <<>> /\ disk = <<>>
        BY Zenon, InitInv DEF Init
    <2>2. Complete(<<>>) = {}
        BY DEF Complete
    <2>3. MaximumSequence({}) = 0
        BY Zenon DEF MaximumSequence
    <2> QED BY Zenon, <2>1, <2>2, <2>3 DEF Log!Init
<1>2. WritePathInv /\ WritePathInv' /\ [Next]_vars
          => [Log!Next]_<<Complete(file), MaximumSequence(Complete(disk))>>
    BY Zenon, RefinementStep
<1> QED BY <1>1, <1>2, LogInvariant, PTL DEF Spec, ImplementsLog, Log!Spec

------------------------------------------------------------------------------
(* Finite sets of numbers *)

INSTANCE FiniteSetTheorems

\* A finite set of integers has a greatest element.
LEMMA GreatestOf ==
    ASSUME NEW S \in SUBSET Int, IsFiniteSet(S), S # {}
    PROVE  \E m \in S : \A k \in S : k <= m
<1> DEFINE above(s) == {m \in S : m >= s}
           T == {above(s) : s \in S}
<1>2. T \subseteq FiniteSubsetsOf(S)
    BY Zenon, FS_Subset DEF FiniteSubsetsOf
<1>3. T # {}
    BY Zenon
<1>4. PICK t \in T : \A u \in T : <<u, t>> \notin StrictSubsetOrdering(S)
    BY Zenon, <1>2, <1>3, WFMin, FS_StrictSubsetOrderingWellFounded
<1>5. PICK s \in S : t = above(s)
    BY Zenon
<1>6. ASSUME NEW k \in S, k > s PROVE FALSE
    <2>1. above(k) \in T /\ above(k) \in SUBSET S /\ t \in SUBSET S
        BY Zenon, <1>5
    <2>2. above(k) \subseteq t /\ s \in t /\ s \notin above(k)
        <3>1. (\A m \in S : m >= k => m >= s) /\ s >= s /\ ~(s >= k)
            BY <1>6
        <3>2. above(k) \subseteq above(s) /\ s \in above(s) /\ s \notin above(k)
            BY Zenon, <3>1
        <3> QED BY Zenon, <3>2, <1>5
    <2>3. <<above(k), t>> \in StrictSubsetOrdering(S)
        BY Zenon, <2>1, <2>2 DEF StrictSubsetOrdering
    <2> QED BY Zenon, <1>4, <2>1, <2>3
<1> QED BY <1>6

\* It has a least element as well.
LEMMA LeastOf ==
    ASSUME NEW S \in SUBSET Int, IsFiniteSet(S), S # {}
    PROVE  \E m \in S : \A k \in S : m <= k
<1> DEFINE N == {-k : k \in S}
<1>1. N \in SUBSET Int /\ N # {}
    <2>1. PICK s \in S : TRUE
        BY Zenon
    <2>2. -s \in N
        BY Zenon, <2>1
    <2>3. \A k \in S : -k \in Int
        OBVIOUS
    <2>4. N \in SUBSET Int
        BY Zenon, <2>3
    <2> QED BY Zenon, <2>2, <2>4
<1>2. IsFiniteSet(N)
    <2>1. [k \in S |-> -k] \in Surjection(S, N)
        BY Zenon DEF Surjection
    <2> QED BY Zenon, <2>1, FS_Surjection
<1>3. PICK n \in N : \A k \in N : k <= n
    <2> HIDE DEF N
    <2> QED BY Zenon, <1>1, <1>2, GreatestOf
<1>4. PICK m \in S : n = -m
    BY Zenon, <1>3
<1>5. ASSUME NEW k \in S PROVE m <= k
    <2>1. -k <= n
        BY Zenon, <1>3
    <2> QED BY SMTT(30), <1>4, <2>1
<1> QED BY Zenon, <1>5

\* A set of numbers with an upper bound has a greatest element.
LEMMA GreatestUpTo ==
    ASSUME NEW n \in Nat, NEW S \in SUBSET (0 .. n), S # {}
    PROVE  \E m \in S : \A k \in S : k <= m
<1>1. 0 \in Int /\ n \in Int /\ S \in SUBSET Int
    OBVIOUS
<1>2. IsFiniteSet(0 .. n)
    BY Zenon, <1>1, FS_Interval
<1>3. IsFiniteSet(S)
    BY Zenon, <1>2, FS_Subset
<1> QED BY Zenon, <1>1, <1>3, GreatestOf

\* FiniteOrder, which module Version assumes, holds of every instance: it
\* follows from VersionAssumption.
THEOREM FiniteOrderHolds == FiniteOrder
<1>1. /\ Key \subseteq Int /\ IsFiniteSet(Key)
      /\ MaxSequence \in Nat /\ MaxGeneration \in Nat
    BY Zenon, VersionAssumption DEF VersionAssumption
<1>2. \A S \in SUBSET (0 .. MaxSequence) : S # {} => HasGreatest(S)
    BY Zenon, <1>1, GreatestUpTo DEF HasGreatest
<1>3. \A S \in SUBSET (0 .. MaxGeneration) : S # {} => HasGreatest(S)
    BY Zenon, <1>1, GreatestUpTo DEF HasGreatest
<1>4. ASSUME NEW S \in SUBSET Key PROVE S \in SUBSET Int /\ IsFiniteSet(S)
    BY Zenon, <1>1, FS_Subset
<1>5. ASSUME NEW S \in SUBSET Key, S # {} PROVE HasGreatest(S) /\ HasLeast(S)
    BY Zenon, <1>4, <1>5, GreatestOf, LeastOf DEF HasGreatest, HasLeast
<1>6. ASSUME NEW S \in SUBSET Key
      PROVE  /\ Cardinality(S) \in Nat
             /\ \A T \in SUBSET S : Cardinality(T) <= Cardinality(S)
    BY Zenon, <1>4, FS_CardinalityType, FS_Subset
<1>7. Cardinality({}) = 0
    BY Zenon, FS_EmptySet
<1> QED BY Zenon, <1>2, <1>3, <1>5, <1>6, <1>7 DEF FiniteOrder
==============================================================================
