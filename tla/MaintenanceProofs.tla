-------------------------- MODULE MaintenanceProofs --------------------------
(***************************************************************************)
(* Safety of the threads of module Maintenance for any set of callers, any *)
(* limits and any number of failing system calls: the flags agree with the *)
(* worker, the worker is alone with the Immutable while it builds a table  *)
(* without the mutex, a Close that reports Ok has finished everything, and *)
(* a writer that waits for the Immutable slot has someone to wait for.     *)
(***************************************************************************)
EXTENDS Maintenance, TLAPS

\* The results of maintenance.
Result == [engine : Engine, ok : BOOLEAN, failed : {0, 1}]

\* The parts of a flush leave the Mutable and the compaction alone.
SameRest(e, f) == f.mutable = e.mutable /\ f.compaction = e.compaction

\* Nothing is left to flush or to finish.
Clean(e) == e.mutable = 0 /\ e.immutable = "none" /\ e.compaction = "none"

\* The first Close is the only one to join the worker, its result stands from
\* the moment it is done, and a clean close leaves no WAL to write to.
CloseInv ==
    /\ \A c \in Caller : at[c] = "join" => state = "closing"
    /\ \A c, d \in Caller : at[c] = "join" /\ at[d] = "join" => c = d
    /\ close_status # "none" <=> state = "closed"
    /\ close_status = "ok" => Clean(engine) /\ ~engine.wal
    /\ state # "closed" => lock = "us"

IInv == TypeOK /\ PublishingAlone /\ CloseInv

------------------------------------------------------------------------------
(* Results have their type. *)

\* The three kinds of result.
LEMMA ResultKinds ==
    ASSUME NEW e \in Engine
    PROVE  /\ Ok(e) \in Result /\ Failed(e) \in Result /\ Refused(e) \in Result
           /\ Ok(e).ok /\ ~Failed(e).ok /\ ~Refused(e).ok
           /\ Ok(e).engine = e /\ Failed(e).engine = e /\ Refused(e).engine = e
BY Zenon DEF Ok, Failed, Refused, Result

\* OpenMutableWal changes the WAL only.
LEMMA OpenMutableWalTyped ==
    ASSUME NEW e \in Engine, NEW r \in OpenMutableWal(e)
    PROVE  r \in Result /\ SameRest(e, r.engine) /\ r.engine.immutable = e.immutable
<1>1. [e EXCEPT !.wal = TRUE] \in Engine
    BY Zenon DEF Engine
<1>2. r = Ok([e EXCEPT !.wal = TRUE]) \/ r = Failed(e)
    BY Zenon DEF OpenMutableWal
<1> QED BY <1>1, <1>2, ResultKinds DEF SameRest, Engine

\* PublishTable changes the stage of the Immutable only.
LEMMA PublishTableTyped ==
    ASSUME NEW e \in Engine, NEW r \in PublishTable(e)
    PROVE  r \in Result /\ SameRest(e, r.engine)
<1>1. [e EXCEPT !.immutable = "pending"] \in Engine
    BY Zenon DEF Engine, Stage
<1>2. r = Ok([e EXCEPT !.immutable = "pending"]) \/ r = Failed(e) \/ r = Ok(e)
    BY Zenon DEF PublishTable
<1> QED BY <1>1, <1>2, ResultKinds DEF SameRest, Engine

\* PublishFlush adds a table to level 0.
LEMMA PublishFlushTyped ==
    ASSUME NEW e \in Engine, NEW r \in PublishFlush(e)
    PROVE  r \in Result /\ SameRest(e, r.engine) /\ r.engine.wal = e.wal
<1> DEFINE n == IF e.number = "shared" THEN "flushed" ELSE e.number
           k == IF e.compaction = "prepared" THEN e.kept + 1 ELSE e.kept
           d == IF e.compaction = "ready" /\ e.readers = "agree" THEN "stale" ELSE e.readers
           f == [e EXCEPT !.immutable = "published", !.level_zero = @ + 1, !.kept = k,
                          !.readers = d, !.number = n]
<1>1. f \in Engine /\ SameRest(e, f) /\ f.wal = e.wal
    <2>1. n \in Number
        BY Zenon DEF Engine, Number
    <2>2. k \in Nat /\ e.level_zero + 1 \in Nat
        BY DEF Engine
    <2>3. d \in {"agree", "stale", "disagree"}
        BY Zenon DEF Engine
    <2> HIDE DEF n, k, d
    <2> QED BY Zenon, <2>1, <2>2, <2>3 DEF Engine, Stage, SameRest
<1>2. r = Ok(f) \/ r = Failed(e) \/ r = Ok(e) \/ r = Refused(e)
    <2>1. CASE e.immutable # "pending"
        BY Zenon, <2>1 DEF PublishFlush
    <2>2. CASE e.immutable = "pending" /\ e.number = "compacted"
        BY Zenon, <2>2 DEF PublishFlush
    <2>3. CASE e.immutable = "pending" /\ e.number # "compacted"
        BY Zenon, <2>3 DEF PublishFlush
    <2> QED BY Zenon, <2>1, <2>2, <2>3
<1> HIDE DEF f
<1> QED BY <1>1, <1>2, ResultKinds DEF SameRest

\* RemoveWal changes the stage of the Immutable only.
LEMMA RemoveWalTyped ==
    ASSUME NEW e \in Engine, NEW r \in RemoveWal(e)
    PROVE  r \in Result /\ SameRest(e, r.engine)
<1>1. [e EXCEPT !.immutable = "removed"] \in Engine
    BY Zenon DEF Engine, Stage
<1>2. r = Ok([e EXCEPT !.immutable = "removed"]) \/ r = Failed(e) \/ r = Ok(e)
    BY Zenon DEF RemoveWal
<1> QED BY <1>1, <1>2, ResultKinds DEF SameRest, Engine

\* The last part of a flush frees the slot.
LEMMA ReleaseImmutableTyped ==
    ASSUME NEW e \in Engine, NEW r \in ReleaseImmutable(e)
    PROVE  r \in Result /\ SameRest(e, r.engine) /\ r.engine.immutable = "none"
<1>1. [e EXCEPT !.immutable = "none"] \in Engine
    BY Zenon DEF Engine, Stage
<1> QED BY <1>1, ResultKinds DEF ReleaseImmutable, SameRest, Engine

\* A flush that ends Ok leaves no Immutable, and the rest as it was.
LEMMA ContinueFlushTyped ==
    ASSUME NEW e \in Engine, NEW r \in ContinueFlush(e)
    PROVE  /\ r \in Result /\ SameRest(e, r.engine)
           /\ r.ok => r.engine.immutable = "none"
<1>1. CASE e.immutable = "none"
    <2>1. r = Ok(e)
        BY Zenon, <1>1 DEF ContinueFlush
    <2> QED BY Zenon, <1>1, <2>1, ResultKinds DEF SameRest
<1>2. CASE e.immutable # "none"
    <2> DEFINE P(s) == s \in Result /\ SameRest(e, s.engine)
               S1 == PublishTable(e)
               S2 == Then(S1, PublishFlush)
               S3 == Then(S2, RemoveWal)
               S4 == Then(S3, OpenMutableWal)
    <2>1. \A s \in S1 : P(s)
        BY Zenon, PublishTableTyped
    <2>2. \A s \in S2 : P(s)
        BY <2>1, PublishFlushTyped DEF Then, Result, SameRest
    <2>3. \A s \in S3 : P(s)
        BY <2>2, RemoveWalTyped DEF Then, Result, SameRest
    <2>4. \A s \in S4 : P(s)
        BY <2>3, OpenMutableWalTyped DEF Then, Result, SameRest
    <2>5. r \in Then(S4, ReleaseImmutable)
        BY Zenon, <1>2 DEF ContinueFlush
    <2> QED BY <2>4, <2>5, ReleaseImmutableTyped DEF Then, Result, SameRest
<1> QED BY Zenon, <1>1, <1>2

\* FreezeMutable moves the Mutable into the free slot.
LEMMA FreezeMutableTyped ==
    ASSUME NEW e \in Engine, NEW r \in FreezeMutable(e)
    PROVE  /\ r \in Result /\ r.engine.compaction = e.compaction
           /\ r.ok => r.engine.mutable = 0 /\ ~r.engine.wal /\ e.immutable = "none"
           /\ ~r.ok => r.engine = e
<1> DEFINE f == [e EXCEPT !.wal = FALSE, !.immutable = "frozen", !.mutable = 0]
<1>1. f \in Engine /\ f.mutable = 0 /\ f.compaction = e.compaction /\ ~f.wal
    BY Zenon DEF Engine, Stage
<1>2. (r = Ok(f) /\ e.immutable = "none") \/ r = Refused(e)
    BY Zenon DEF FreezeMutable
<1> HIDE DEF f
<1> QED BY <1>1, <1>2, ResultKinds

\* After it, in a flush, the Mutable is empty or the slot was taken.
LEMMA FreezeForFlushTyped ==
    ASSUME NEW e \in Engine, NEW r \in FreezeForFlush(e)
    PROVE  /\ r \in Result /\ r.engine.compaction = e.compaction
           /\ r.ok /\ e.immutable = "none" => r.engine.mutable = 0
<1>1. CASE e.immutable = "none" /\ e.mutable > 0
    BY Zenon, <1>1, FreezeMutableTyped DEF FreezeForFlush
<1>2. CASE ~(e.immutable = "none" /\ e.mutable > 0)
    <2>1. r = Ok(e)
        BY Zenon, <1>2 DEF FreezeForFlush
    <2>2. e.mutable \in Nat
        BY Zenon DEF Engine
    <2> QED BY <1>2, <2>1, <2>2, ResultKinds
<1> QED BY Zenon, <1>1, <1>2

\* PrepareCompaction
LEMMA PrepareCompactionTyped ==
    ASSUME NEW e \in Engine, NEW r \in PrepareCompaction(e)
    PROVE  r \in Result /\ r.engine.immutable = e.immutable
<1> DEFINE f(o) == [e EXCEPT !.compaction = "prepared", !.outputs = o, !.kept = 0]
<1>1. \A o \in BOOLEAN : f(o) \in Engine /\ f(o).immutable = e.immutable
    BY Zenon DEF Engine, CompactionStage
<1>2. (\E o \in BOOLEAN : r = Ok(f(o))) \/ r \in {Failed(e), Ok(e), Refused(e)}
    <2>1. CASE e.compaction # "none" \/ e.readers = "disagree"
        BY Zenon, <2>1 DEF PrepareCompaction
    <2>2. CASE e.compaction = "none" /\ e.readers # "disagree" /\ e.level_zero = 0
        BY Zenon, <2>2 DEF PrepareCompaction
    <2>3. CASE e.compaction = "none" /\ e.readers # "disagree" /\ e.level_zero > 0
        <3>1. e.level_zero # 0 /\ ~(e.compaction # "none" \/ e.readers = "disagree")
            BY SMTT(30), <2>3
        <3>2. r \in {Ok(f(o)) : o \in BOOLEAN} \cup {Failed(e)}
            BY Zenon, <2>3, <3>1 DEF PrepareCompaction
        <3> HIDE DEF f
        <3> QED BY Zenon, <3>2
    <2>4. e.level_zero = 0 \/ e.level_zero > 0
        BY DEF Engine
    <2> QED BY Zenon, <2>1, <2>2, <2>3, <2>4
<1> HIDE DEF f
<1> QED BY <1>1, <1>2, ResultKinds

\* BuildCandidate
LEMMA BuildCandidateTyped ==
    ASSUME NEW e \in Engine, NEW r \in BuildCandidate(e)
    PROVE  r \in Result
<1>1. [e EXCEPT !.compaction = "ready"] \in Engine
    BY Zenon DEF Engine, CompactionStage
<1>2. r = Ok([e EXCEPT !.compaction = "ready"]) \/ r \in {Failed(e), Ok(e), Refused(e)}
    <2>1. CASE e.compaction # "prepared"
        BY Zenon, <2>1 DEF BuildCandidate
    <2>2. CASE e.compaction = "prepared" /\ e.outputs /\ e.number = "flushed"
        BY Zenon, <2>2 DEF BuildCandidate
    <2>3. CASE e.compaction = "prepared" /\ ~(e.outputs /\ e.number = "flushed")
        BY Zenon, <2>3 DEF BuildCandidate
    <2> QED BY Zenon, <2>1, <2>2, <2>3
<1> QED BY <1>1, <1>2, ResultKinds

\* PublishCompaction
LEMMA PublishCompactionTyped ==
    ASSUME NEW e \in Engine, NEW r \in PublishCompaction(e)
    PROVE  r \in Result /\ r.engine.immutable = e.immutable
<1> DEFINE w == e.wal /\ ~e.outputs
           n == IF e.outputs /\ e.immutable # "none" THEN "compacted" ELSE "free"
           d == IF e.readers = "stale" THEN "disagree" ELSE e.readers
           f == [e EXCEPT !.compaction = "published", !.level_zero = e.kept, !.wal = w,
                          !.number = n, !.readers = d]
<1>1. f \in Engine /\ f.immutable = e.immutable
    <2>1. n \in Number
        BY Zenon DEF Number
    <2>2. w \in BOOLEAN
        BY Zenon
    <2>3. d \in {"agree", "stale", "disagree"}
        BY Zenon DEF Engine
    <2> HIDE DEF w, n, d
    <2> QED BY Zenon, <2>1, <2>2, <2>3 DEF Engine, CompactionStage
<1>2. r = Ok(f) \/ r = Failed(e) \/ r = Ok(e)
    BY Zenon DEF PublishCompaction
<1> HIDE DEF f
<1> QED BY <1>1, <1>2, ResultKinds

\* ReplaceWal
LEMMA ReplaceWalTyped ==
    ASSUME NEW e \in Engine, NEW r \in ReplaceWal(e)
    PROVE  r \in Result
BY Zenon, OpenMutableWalTyped, ResultKinds DEF ReplaceWal

\* A compaction that ends Ok is gone.
LEMMA ContinueCompactionTyped ==
    ASSUME NEW e \in Engine, NEW r \in ContinueCompaction(e)
    PROVE  r \in Result /\ (r.ok => r.engine.compaction = "none")
<1>1. CASE e.compaction = "none"
    <2>1. r = Ok(e)
        BY Zenon, <1>1 DEF ContinueCompaction
    <2> QED BY Zenon, <1>1, <2>1, ResultKinds
<1>2. CASE e.compaction # "none"
    <2> DEFINE S0 == BuildCandidate(e)
               S1 == Then(S0, PublishCompaction)
               S2 == Then(S1, CleanUp)
               S3 == Then(S2, ReplaceWal)
    <2>0. \A s \in S0 : s \in Result
        BY Zenon, BuildCandidateTyped
    <2>1. \A s \in S1 : s \in Result
        BY <2>0, PublishCompactionTyped DEF Then, Result
    <2>2. \A s \in S2 : s \in Result
        <3>1. \A f \in Engine : \A s \in CleanUp(f) : s \in Result
            BY Zenon, ResultKinds DEF CleanUp
        <3> QED BY Zenon, <2>1, <3>1 DEF Then, Result
    <2>3. \A s \in S3 : s \in Result
        BY Zenon, <2>2, ReplaceWalTyped DEF Then, Result
    <2>4. r \in Then(S3, ReleaseCompaction)
        BY Zenon, <1>2 DEF ContinueCompaction
    <2>5. ASSUME NEW f \in Engine, NEW s \in ReleaseCompaction(f)
          PROVE  s \in Result /\ s.engine.compaction = "none"
        <3> DEFINE g == [f EXCEPT !.compaction = "none", !.outputs = FALSE, !.kept = 0]
        <3>1. g \in Engine /\ g.compaction = "none"
            BY Zenon DEF Engine, CompactionStage
        <3>2. s = Ok(g)
            BY Zenon, <2>5 DEF ReleaseCompaction
        <3> HIDE DEF g
        <3> QED BY Zenon, <3>1, <3>2, ResultKinds
    <2> QED BY Zenon, <2>3, <2>4, <2>5 DEF Then, Result
<1> QED BY Zenon, <1>1, <1>2

\* FlushLocked
LEMMA FlushLockedTyped ==
    ASSUME NEW e \in Engine, NEW r \in FlushLocked(e)
    PROVE  r \in Result
<1> DEFINE S1 == ContinueCompaction(e)
           S2 == Then(S1, FreezeForFlush)
<1>1. \A s \in S1 : s \in Result
    BY Zenon, ContinueCompactionTyped
<1>2. \A s \in S2 : s \in Result
    BY <1>1, FreezeForFlushTyped DEF Then, Result
<1> QED BY Zenon, <1>2, ContinueFlushTyped DEF FlushLocked, Then, Result

\* CompactLocked
LEMMA CompactLockedTyped ==
    ASSUME NEW e \in Engine, NEW r \in CompactLocked(e)
    PROVE  r \in Result
<1>1. CASE e.compaction # "none"
    BY Zenon, <1>1, ContinueCompactionTyped DEF CompactLocked
<1>2. CASE e.compaction = "none"
    <2> DEFINE S1 == FlushForCompact(e)
               S2 == Then(S1, NeedsEmptyWal)
               S3 == Then(S2, PrepareCompaction)
    <2>1. \A s \in S1 : s \in Result
        BY Zenon, FlushLockedTyped, ResultKinds DEF FlushForCompact
    <2>2. \A s \in S2 : s \in Result
        <3>1. \A f \in Engine : \A s \in NeedsEmptyWal(f) : s \in Result
            BY Zenon, ResultKinds DEF NeedsEmptyWal
        <3> QED BY Zenon, <2>1, <3>1 DEF Then, Result
    <2>3. \A s \in S3 : s \in Result
        BY <2>2, PrepareCompactionTyped DEF Then, Result
    <2>4. r \in Then(S3, ContinueCompaction)
        BY Zenon, <1>2 DEF CompactLocked
    <2> QED BY Zenon, <2>3, <2>4, ContinueCompactionTyped DEF Then, Result
<1> QED BY Zenon, <1>1, <1>2

\* RunBackgroundWork
LEMMA RunBackgroundWorkTyped ==
    ASSUME NEW e \in Engine, NEW r \in RunBackgroundWork(e)
    PROVE  r \in Result
<1> DEFINE S1 == PublishTable(e)
           S2 == Then(S1, ContinueFlush)
<1>1. \A s \in S1 : s \in Result
    BY Zenon, PublishTableTyped
<1>2. \A s \in S2 : s \in Result
    BY Zenon, <1>1, ContinueFlushTyped DEF Then, Result
<1>3. ASSUME NEW f \in Engine, NEW s \in AutomaticCompaction(f) PROVE s \in Result
    <2> DEFINE S3 == PrepareCompaction(f)
    <2>1. \A t \in S3 : t \in Result
        BY Zenon, PrepareCompactionTyped
    <2>2. \A t \in Then(S3, ContinueCompaction) : t \in Result
        BY Zenon, <2>1, ContinueCompactionTyped DEF Then, Result
    <2>3. s \in Then(S3, ContinueCompaction) \/ s = Ok(f)
        BY Zenon, <1>3 DEF AutomaticCompaction
    <2> QED BY Zenon, <2>2, <2>3, ResultKinds
<1> QED BY Zenon, <1>2, <1>3 DEF RunBackgroundWork, Then, Result

\* What Close does leaves nothing when it ends Ok: each part keeps what the
\* parts before it finished.
LEMMA CloseWorkClean ==
    ASSUME NEW e \in Engine, NEW r \in CloseWork(e)
    PROVE  r \in Result /\ (r.ok => Clean(r.engine))
<1> DEFINE S1 == ContinueCompaction(e)
           S2 == Then(S1, ContinueFlush)
           S3 == Then(S2, FreezeForFlush)
<1>1. \A s \in S1 : s \in Result /\ (s.ok => s.engine.compaction = "none")
    BY Zenon, ContinueCompactionTyped
<1>2. \A s \in S2 : /\ s \in Result
                    /\ s.ok => s.engine.compaction = "none" /\ s.engine.immutable = "none"
    BY <1>1, ContinueFlushTyped DEF Then, Result, SameRest
<1>3. ASSUME NEW s \in S3
      PROVE  s \in Result /\ (s.ok => s.engine.compaction = "none" /\ s.engine.mutable = 0)
    <2> HIDE DEF S2, S3
    <2>1. s \in Then(S2, FreezeForFlush)
        BY Zenon, <1>3 DEF S3
    <2>2. PICK q \in S2 : IF q.ok THEN s \in FreezeForFlush(q.engine) ELSE s = q
        BY Zenon, <2>1 DEF Then
    <2>3. q \in Result /\ q.engine \in Engine
        <3>1. q \in Result
            BY Zenon, <1>2, <2>2
        <3> QED BY Zenon, <3>1 DEF Result
    <2> QED BY <1>2, <2>2, <2>3, FreezeForFlushTyped
<1>4. PICK q \in S3 : IF q.ok THEN r \in ContinueFlush(q.engine) ELSE r = q
    <2> HIDE DEF S3
    <2>1. r \in Then(S3, ContinueFlush)
        BY Zenon DEF CloseWork, S3
    <2> QED BY Zenon, <2>1 DEF Then
<1>5. q \in Result /\ q.engine \in Engine
    BY Zenon, <1>3 DEF Result
<1> HIDE DEF S3
<1> QED BY <1>3, <1>4, <1>5, ContinueFlushTyped DEF SameRest, Clean

\* A Flush or Compact that goes on after a clean Close finds nothing to do.
LEMMA CleanStays ==
    ASSUME NEW e \in Engine, Clean(e), ~e.wal, NEW r \in FlushLocked(e) \cup CompactLocked(e)
    PROVE  r.engine = e
<1>1. e.mutable = 0 /\ e.immutable = "none" /\ e.compaction = "none" /\ ~(e.mutable > 0)
    BY DEF Clean
<1>2. ContinueCompaction(e) = {Ok(e)} /\ FreezeForFlush(e) = {Ok(e)} /\ ContinueFlush(e) = {Ok(e)}
    BY Zenon, <1>1 DEF ContinueCompaction, FreezeForFlush, ContinueFlush
<1>3. FlushLocked(e) = {Ok(e)}
    <2>1. Then({Ok(e)}, FreezeForFlush) = {Ok(e)}
        BY <1>2, ResultKinds DEF Then
    <2>2. Then({Ok(e)}, ContinueFlush) = {Ok(e)}
        BY <1>2, ResultKinds DEF Then
    <2> QED BY Zenon, <1>2, <2>1, <2>2 DEF FlushLocked
<1>4. CompactLocked(e) = {Refused(e)}
    <2>1. FlushForCompact(e) = {Ok(e)} /\ NeedsEmptyWal(e) = {Refused(e)}
        BY Zenon, <1>1 DEF FlushForCompact, NeedsEmptyWal
    <2>2. Then({Ok(e)}, NeedsEmptyWal) = {Refused(e)}
        BY <2>1, ResultKinds DEF Then
    <2>3. Then({Refused(e)}, PrepareCompaction) = {Refused(e)}
        BY ResultKinds DEF Then
    <2>4. Then({Refused(e)}, ContinueCompaction) = {Refused(e)}
        BY ResultKinds DEF Then
    <2> QED BY Zenon, <1>1, <2>1, <2>2, <2>3, <2>4 DEF CompactLocked
<1> QED BY Zenon, <1>3, <1>4, ResultKinds

------------------------------------------------------------------------------
(* Steps *)

Place == {"idle", "enter", "waiting", "ready", "join", "lifecycle"}

\* A notification moves no thread to or from the join.
LEMMA Notified ==
    ASSUME TypeOK
    PROVE  /\ Woken \in [Caller -> Place] /\ AfterClose \in [Caller -> Place]
           /\ \A c \in Caller : Woken[c] = "join" <=> at[c] = "join"
           /\ \A c \in Caller : AfterClose[c] = "join" <=> at[c] = "join"
           /\ WokenWorker \in {"ready", "waiting", "publishing", "exited"}
           /\ WokenWorker = "publishing" <=> worker = "publishing"
           /\ WokenWorker = "exited" <=> worker = "exited"
BY Zenon DEF TypeOK, Woken, AfterClose, WokenWorker, Place

\* Steps that move one caller, but not to the join, and leave the rest.
LEMMA QuietStep ==
    ASSUME IInv,
           UNCHANGED <<state, workerVars, close_status, engine, lock>>,
           status' \in BOOLEAN, writes' \in 0 .. MaxWrites, failures' \in 0 .. MaxFailures,
           call' \in [Caller -> {"put", "flush", "compact", "wait", "close"}],
           at' \in [Caller -> Place],
           \A c \in Caller : at'[c] = "join" => at[c] = "join"
    PROVE  IInv'
<1>1. TypeOK'
    BY DEF IInv, TypeOK, workerVars, Place
<1>2. PublishingAlone'
    BY Zenon DEF IInv, PublishingAlone, workerVars
<1>3. CloseInv'
    BY Zenon DEF IInv, CloseInv
<1> QED BY Zenon, <1>1, <1>2, <1>3 DEF IInv

\* The caller of a step that is not at the join moves elsewhere.
LEMMA Moved ==
    ASSUME TypeOK, NEW c \in Caller, NEW p \in Place \ {"join"}, at' = [at EXCEPT ![c] = p]
    PROVE  at' \in [Caller -> Place] /\ \A d \in Caller : at'[d] = "join" => at[d] = "join"
BY Zenon DEF TypeOK, Place

\* Steps of a caller that only wait, return or start.
LEMMA CallerQuiet ==
    ASSUME IInv, NEW c \in Caller,
           \/ Start(c) \/ ReturnClosed(c) \/ WriteWaits(c) \/ WriteRefused(c)
           \/ WriteFails(c) \/ MaintenanceWait(c) \/ WaitForBackgroundWork(c) \/ CloseAgain(c)
    PROVE  IInv'
<1> USE DEF IInv
<1>1. CASE Start(c)
    <2>1. at' = [at EXCEPT ![c] = "enter"] /\ writes' \in 0 .. MaxWrites
          /\ UNCHANGED <<state, workerVars, close_status, engine, status, lock, failures>>
        BY <1>1, MaintenanceAssumption DEF Start, TypeOK
    <2>2. call' \in [Caller -> {"put", "flush", "compact", "wait", "close"}]
        BY Zenon, <1>1, MaintenanceAssumption DEF Start, TypeOK
    <2> QED BY Zenon, <2>1, <2>2, Moved, QuietStep DEF TypeOK, Place
<1>2. CASE \/ ReturnClosed(c) \/ WriteWaits(c) \/ WriteRefused(c)
           \/ MaintenanceWait(c) \/ WaitForBackgroundWork(c) \/ CloseAgain(c)
    <2>1. /\ \E p \in Place \ {"join"} : at' = [at EXCEPT ![c] = p]
          /\ UNCHANGED <<state, workerVars, close_status, engine, status, lock, call, writes,
                         failures>>
        BY Zenon, <1>2 DEF ReturnClosed, WriteWaits, WriteRefused, MaintenanceWait,
            WaitForBackgroundWork, CloseAgain, Return, WaitHere, Place
    <2> QED BY Zenon, <2>1, Moved, QuietStep DEF TypeOK
<1>3. CASE WriteFails(c)
    <2>1. /\ at' = [at EXCEPT ![c] = "idle"] /\ status' = FALSE
          /\ failures' \in 0 .. MaxFailures
          /\ UNCHANGED <<state, workerVars, close_status, engine, lock, call, writes>>
        BY <1>3, MaintenanceAssumption DEF WriteFails, Return, TypeOK
    <2> QED BY Zenon, <2>1, Moved, QuietStep DEF TypeOK, Place
<1> QED BY Zenon, <1>1, <1>2, <1>3

\* A step that ends maintenance with a result keeps the types of both.
LEMMA OutcomeTyped ==
    ASSUME TypeOK, NEW r \in Result, Outcome(r)
    PROVE  engine' = r.engine /\ engine' \in Engine /\ failures' \in 0 .. MaxFailures
<1>1. r.failed \in {0, 1} /\ r.engine \in Engine
    BY Zenon DEF Result
<1> QED BY <1>1, MaintenanceAssumption DEF Outcome, TypeOK

\* A write that is accepted finds the database running, and leaves an Immutable
\* alone.
LEMMA WriteSafe ==
    ASSUME IInv, NEW c \in Caller, Write(c)
    PROVE  IInv'
<1> DEFINE f == Appended(engine)
<1>1. TypeOK /\ PublishingAlone /\ CloseInv
    BY Zenon DEF IInv
<1>2. state = "running" /\ close_status = "none"
    BY Zenon, <1>1 DEF Write, WriteAccepted, CloseInv
<1>3. UNCHANGED <<state, stop_background, running, close_status, status, lock, call, writes>>
    BY Zenon DEF Write
<1>4. f \in Engine /\ f.immutable = engine.immutable
    <2> DEFINE n == IF engine.compaction \in {"prepared", "ready"} /\ engine.number = "free"
                    THEN "shared" ELSE engine.number
    <2>1. engine \in Engine
        BY Zenon, <1>1 DEF TypeOK
    <2>2. n \in Number /\ engine.mutable + 1 \in Nat
        BY <2>1 DEF Engine, Number
    <2>3. f = [engine EXCEPT !.mutable = engine.mutable + 1, !.number = n]
        BY Zenon, <2>1 DEF Appended, Engine
    <2> HIDE DEF n, f
    <2> QED BY Zenon, <2>1, <2>2, <2>3 DEF Engine
<1>5. /\ engine' \in Engine /\ failures' \in 0 .. MaxFailures
      /\ engine.immutable # "none" => engine'.immutable = engine.immutable
      /\ background_status' \in BOOLEAN /\ requested' \in BOOLEAN
      /\ \/ at' = [at EXCEPT ![c] = "idle"] /\ worker' = worker
         \/ at' = [Woken EXCEPT ![c] = "idle"] /\ worker' = WokenWorker
    <2>1. CASE engine.mutable + 1 >= MemTableLimit /\ engine.immutable = "none"
        <3>1. PICK r \in Then(FreezeMutable(f), OpenMutableWal) :
                 /\ Outcome(r) /\ background_status' = r.ok /\ requested' = TRUE
                 /\ NotifyAndReturn(c)
            BY Zenon, <2>1 DEF Write
        <3>2. r \in Result
            <4>1. \A q \in FreezeMutable(f) : q \in Result
                BY Zenon, <1>4, FreezeMutableTyped
            <4> HIDE DEF f
            <4> QED BY <4>1, <3>1, OpenMutableWalTyped DEF Then, Result
        <3>3. r.ok \in BOOLEAN
            BY Zenon, <3>2 DEF Result
        <3>4. engine' \in Engine /\ failures' \in 0 .. MaxFailures
            BY Zenon, <1>1, <3>1, <3>2, OutcomeTyped
        <3> QED BY Zenon, <2>1, <3>1, <3>3, <3>4 DEF NotifyAndReturn
    <2>2. CASE ~(engine.mutable + 1 >= MemTableLimit /\ engine.immutable = "none")
        <3>1. engine' = f /\ Return(c) /\ UNCHANGED <<background_status, requested, worker, failures>>
            BY Zenon, <2>2 DEF Write
        <3> HIDE DEF f
        <3> QED BY Zenon, <1>1, <1>4, <3>1 DEF Return, TypeOK
    <2> QED BY Zenon, <2>1, <2>2
<1>6. /\ at' \in [Caller -> Place]
      /\ \A d \in Caller : at'[d] = "join" => at[d] = "join"
      /\ worker' \in {"ready", "waiting", "publishing", "exited"}
      /\ worker' = "publishing" <=> worker = "publishing"
    BY <1>1, <1>5, Notified DEF TypeOK, Place
<1>7. TypeOK'
    BY Zenon, <1>1, <1>2, <1>3, <1>5, <1>6 DEF TypeOK, Place
<1>8. PublishingAlone'
    BY Zenon, <1>1, <1>3, <1>5, <1>6 DEF PublishingAlone
<1>9. CloseInv'
    BY Zenon, <1>1, <1>2, <1>3, <1>6 DEF CloseInv
<1> QED BY Zenon, <1>7, <1>8, <1>9 DEF IInv

\* Flush and Compact run while the worker does not, and even after a clean
\* Close they disturb nothing.
LEMMA MaintainSafe ==
    ASSUME IInv, NEW c \in Caller, Maintain(c)
    PROVE  IInv'
<1>1. TypeOK /\ PublishingAlone /\ CloseInv
    BY Zenon DEF IInv
<1>2. /\ UNCHANGED <<state, stop_background, requested, running, close_status, status, lock,
                     call, writes>>
      /\ ~running /\ NotifyAndReturn(c)
    BY Zenon DEF Maintain, MaintenanceWaits
<1>3. PICK r \in ForegroundWork(c) :
         Outcome(r) /\ background_status' = (r.ok \/ background_status)
    BY Zenon DEF Maintain
<1>4. engine \in Engine
    BY Zenon, <1>1 DEF TypeOK
<1>5. r = Refused(engine) \/ r \in FlushLocked(engine) \cup CompactLocked(engine)
    BY Zenon DEF ForegroundWork
<1>6. r \in Result
    BY Zenon, <1>4, <1>5, ResultKinds, FlushLockedTyped, CompactLockedTyped
<1>7. engine' = r.engine /\ engine' \in Engine /\ failures' \in 0 .. MaxFailures
    BY Zenon, <1>1, <1>3, <1>6, OutcomeTyped
<1>8. Clean(engine) /\ ~engine.wal => engine' = engine
    BY Zenon, <1>4, <1>5, <1>7, CleanStays, ResultKinds
<1>9. background_status' \in BOOLEAN
    BY Zenon, <1>1, <1>3, <1>6 DEF Result, TypeOK
<1>10. /\ at' \in [Caller -> Place]
       /\ \A d \in Caller : at'[d] = "join" => at[d] = "join"
       /\ worker' \in {"ready", "waiting", "publishing", "exited"}
       /\ worker' = "publishing" <=> worker = "publishing"
       /\ worker' = "exited" <=> worker = "exited"
    BY Zenon, <1>1, <1>2, Notified DEF NotifyAndReturn, TypeOK, Place
<1>11. TypeOK'
    BY Zenon, <1>1, <1>2, <1>7, <1>9, <1>10 DEF TypeOK, Place
<1>12. PublishingAlone'
    BY Zenon, <1>1, <1>2, <1>10 DEF PublishingAlone, TypeOK
<1>13. CloseInv'
    BY Zenon, <1>1, <1>2, <1>8, <1>10 DEF CloseInv
<1> QED BY Zenon, <1>11, <1>12, <1>13 DEF IInv

\* The first Close is alone at the join.
LEMMA CloseFirstSafe ==
    ASSUME IInv, NEW c \in Caller, CloseFirst(c)
    PROVE  IInv'
<1>1. TypeOK /\ PublishingAlone /\ CloseInv
    BY Zenon DEF IInv
<1>2. /\ state = "running" /\ state' = "closing" /\ stop_background' = TRUE
      /\ at' = [Woken EXCEPT ![c] = "join"] /\ worker' = WokenWorker
      /\ UNCHANGED <<requested, running, background_status, close_status, engine, status, lock,
                     call, writes, failures>>
    BY Zenon DEF CloseFirst
<1>3. \A d \in Caller : at[d] # "join"
    BY Zenon, <1>1, <1>2 DEF CloseInv
<1>4. at' \in [Caller -> Place] /\ \A d \in Caller : at'[d] = "join" => d = c
    BY Zenon, <1>1, <1>2, <1>3, Notified DEF Place
<1>5. /\ worker' \in {"ready", "waiting", "publishing", "exited"}
      /\ worker' = "publishing" <=> worker = "publishing"
    BY Zenon, <1>1, <1>2, Notified
<1>6. TypeOK'
    BY Zenon, <1>1, <1>2, <1>4, <1>5 DEF TypeOK, Place
<1>7. PublishingAlone'
    BY Zenon, <1>1, <1>2, <1>5 DEF PublishingAlone
<1>8. CloseInv'
    BY Zenon, <1>1, <1>2, <1>4 DEF CloseInv
<1> QED BY Zenon, <1>6, <1>7, <1>8 DEF IInv

\* It reports Ok only with nothing left, and nobody else joins any more.
LEMMA CloseFinishSafe ==
    ASSUME IInv, NEW c \in Caller, CloseFinish(c)
    PROVE  IInv'
<1>1. TypeOK /\ PublishingAlone /\ CloseInv
    BY Zenon DEF IInv
<1>2. /\ at[c] = "join" /\ worker = "exited"
      /\ lock' = "nobody" /\ state' = "closed" /\ requested' = FALSE /\ running' = FALSE
      /\ at' = [AfterClose EXCEPT ![c] = "idle"]
      /\ UNCHANGED <<stop_background, background_status, worker, status, call, writes>>
    BY Zenon DEF CloseFinish
<1>3. PICK r \in CloseWork(engine) :
         /\ failures + r.failed <= MaxFailures /\ failures' = failures + r.failed
         /\ engine' = [r.engine EXCEPT !.wal = FALSE]
         /\ close_status' = IF r.ok THEN "ok" ELSE "error"
    BY Zenon DEF CloseFinish
<1>4. r \in Result /\ (r.ok => Clean(r.engine))
    BY Zenon, <1>1, CloseWorkClean DEF TypeOK
<1>5. /\ engine' \in Engine /\ ~engine'.wal
      /\ r.ok => Clean(engine')
    <2>1. r.engine \in Engine
        BY Zenon, <1>4 DEF Result
    <2> QED BY Zenon, <1>3, <1>4, <2>1 DEF Engine, Clean
<1>6. failures' \in 0 .. MaxFailures
    <2>1. r.failed \in {0, 1}
        BY Zenon, <1>4 DEF Result
    <2> QED BY <1>1, <1>3, <2>1, MaintenanceAssumption DEF TypeOK
<1>7. state = "closing"
    BY Zenon, <1>1, <1>2 DEF CloseInv
<1>8. at' \in [Caller -> Place] /\ \A d \in Caller : at'[d] # "join"
    <2>1. \A d \in Caller : at[d] = "join" => d = c
        BY Zenon, <1>1, <1>2 DEF CloseInv
    <2> QED BY Zenon, <1>1, <1>2, <2>1, Notified DEF Place
<1>9. close_status' \in {"ok", "error"} /\ (close_status' = "ok" => r.ok)
    BY Zenon, <1>3
<1>10. TypeOK'
    BY Zenon, <1>1, <1>2, <1>5, <1>6, <1>7, <1>8, <1>9 DEF TypeOK, Place
<1>11. PublishingAlone'
    BY Zenon, <1>2 DEF PublishingAlone
<1>12. CloseInv'
    BY Zenon, <1>2, <1>5, <1>8, <1>9 DEF CloseInv
<1> QED BY Zenon, <1>10, <1>11, <1>12 DEF IInv

\* Another process takes the lock, or a thread wakes for no reason.
LEMMA EnvironmentSafe ==
    ASSUME IInv, OtherOpens \/ SpuriousWakeup
    PROVE  IInv'
<1>1. TypeOK /\ PublishingAlone /\ CloseInv
    BY Zenon DEF IInv
<1>2. CASE OtherOpens
    <2>1. /\ lock = "nobody" /\ lock' = "other"
          /\ UNCHANGED <<state, workerVars, close_status, engine, status, at, call, writes,
                         failures>>
        BY Zenon, <1>2 DEF OtherOpens
    <2>2. TypeOK'
        BY Zenon, <1>1, <2>1 DEF TypeOK, workerVars
    <2>3. PublishingAlone' /\ CloseInv'
        BY Zenon, <1>1, <2>1 DEF PublishingAlone, CloseInv, workerVars
    <2> QED BY Zenon, <2>2, <2>3 DEF IInv
<1>3. CASE SpuriousWakeup
    <2>1. UNCHANGED <<state, stop_background, requested, running, background_status,
                      close_status, engine, status, lock, call, writes, failures>>
        BY Zenon, <1>3 DEF SpuriousWakeup
    <2>2. CASE \E c \in Caller : at' = [at EXCEPT ![c] = "ready"] /\ UNCHANGED worker
        BY Zenon, <1>1, <2>1, <2>2, Moved, QuietStep DEF IInv, TypeOK, Place, workerVars
    <2>3. CASE worker = "waiting" /\ worker' = "ready" /\ UNCHANGED at
        <3>1. TypeOK'
            BY Zenon, <1>1, <2>1, <2>3 DEF TypeOK
        <3>2. PublishingAlone' /\ CloseInv'
            BY Zenon, <1>1, <2>1, <2>3 DEF PublishingAlone, CloseInv
        <3> QED BY Zenon, <3>1, <3>2 DEF IInv
    <2> QED BY Zenon, <1>3, <2>2, <2>3 DEF SpuriousWakeup
<1> QED BY Zenon, <1>2, <1>3

\* The end of the worker's work.
LEMMA FinishWorkSafe ==
    ASSUME IInv, NEW r \in RunBackgroundWork(engine), NEW more, FinishWork(r, more),
           worker # "exited", requested' \in BOOLEAN,
           UNCHANGED <<state, stop_background, close_status, status, lock, call, writes>>
    PROVE  IInv'
<1>1. TypeOK /\ PublishingAlone /\ CloseInv
    BY Zenon DEF IInv
<1>2. r \in Result
    BY Zenon, <1>1, RunBackgroundWorkTyped DEF TypeOK
<1>3. engine' \in Engine /\ failures' \in 0 .. MaxFailures
    BY Zenon, <1>1, <1>2, OutcomeTyped DEF FinishWork
<1>4. /\ background_status' \in BOOLEAN /\ running' = FALSE /\ at' = Woken
      /\ worker' \in {"exited", "ready", "waiting"}
    BY Zenon, <1>2 DEF FinishWork, AfterWork, Result
<1>5. state # "closed" /\ close_status = "none"
    BY Zenon, <1>1 DEF TypeOK, CloseInv
<1>6. at' \in [Caller -> Place] /\ \A d \in Caller : at'[d] = "join" <=> at[d] = "join"
    BY Zenon, <1>1, <1>4, Notified
<1>7. TypeOK'
    BY Zenon, <1>1, <1>3, <1>4, <1>5, <1>6 DEF TypeOK, Place
<1>8. PublishingAlone'
    BY Zenon, <1>4 DEF PublishingAlone
<1>9. CloseInv'
    BY Zenon, <1>1, <1>5, <1>6 DEF CloseInv
<1> QED BY Zenon, <1>7, <1>8, <1>9 DEF IInv

\* The worker takes a request only while the database runs and holds its lock.
LEMMA WorkerSafe ==
    ASSUME IInv, WorkerStep
    PROVE  IInv'
<1>1. TypeOK /\ PublishingAlone /\ CloseInv
    BY Zenon DEF IInv
<1>2. CASE WorkerLooks
    <2>1. /\ worker = "ready" /\ worker' \in {"exited", "waiting"}
          /\ UNCHANGED <<state, stop_background, requested, running, background_status,
                         close_status, engine, status, lock, at, call, writes, failures>>
        BY Zenon, <1>2 DEF WorkerLooks
    <2>2. TypeOK'
        BY <1>1, <2>1 DEF TypeOK
    <2>3. PublishingAlone' /\ CloseInv'
        BY Zenon, <1>1, <2>1 DEF PublishingAlone, CloseInv
    <2> QED BY Zenon, <2>2, <2>3 DEF IInv
<1>3. CASE WorkerTakes
    <2>1. /\ worker = "ready" /\ ~stop_background /\ requested' = FALSE
          /\ UNCHANGED <<state, stop_background, close_status, status, lock, call, writes>>
        BY Zenon, <1>3 DEF WorkerTakes
    <2>2. CASE engine.immutable = "frozen"
        <3>1. /\ running' = TRUE /\ worker' = "publishing"
              /\ UNCHANGED <<background_status, engine, at, failures>>
            BY Zenon, <1>3, <2>2 DEF WorkerTakes
        <3>2. state = "running" /\ lock = "us"
            BY Zenon, <1>1, <2>1 DEF TypeOK, CloseInv
        <3>3. TypeOK'
            BY Zenon, <1>1, <2>1, <3>1, <3>2 DEF TypeOK
        <3>4. PublishingAlone' /\ CloseInv'
            BY Zenon, <1>1, <2>1, <2>2, <3>1, <3>2 DEF PublishingAlone, CloseInv
        <3> QED BY Zenon, <3>3, <3>4 DEF IInv
    <2>3. CASE engine.immutable # "frozen"
        <3>1. \E r \in RunBackgroundWork(engine) : FinishWork(r, FALSE)
            BY Zenon, <1>3, <2>3 DEF WorkerTakes
        <3> QED BY Zenon, <2>1, <3>1, FinishWorkSafe
    <2> QED BY Zenon, <2>2, <2>3
<1>4. CASE WorkerResumes
    <2>1. /\ worker = "publishing"
          /\ UNCHANGED <<state, stop_background, requested, close_status, status, lock, call,
                         writes>>
        BY Zenon, <1>4 DEF WorkerResumes
    <2>2. \E r \in RunBackgroundWork(engine) : FinishWork(r, requested)
        BY Zenon, <1>4 DEF WorkerResumes
    <2>3. requested' \in BOOLEAN
        BY Zenon, <1>1, <2>1 DEF TypeOK
    <2> QED BY Zenon, <2>1, <2>2, <2>3, FinishWorkSafe
<1> QED BY Zenon, <1>2, <1>3, <1>4 DEF WorkerStep

------------------------------------------------------------------------------
(* Theorems *)

\* The inductive invariant holds when the worker has been started.
LEMMA InitSafe == Init => IInv
<1> SUFFICES ASSUME Init PROVE IInv
    BY Zenon
<1>1. engine \in Engine /\ engine.immutable \in {"none", "frozen"}
    BY DEF Init, Engine, CompactionStage, Stage, Number
<1>2. /\ state = "running" /\ stop_background = FALSE /\ running = FALSE
      /\ background_status = TRUE /\ close_status = "none" /\ status = TRUE /\ lock = "us"
      /\ worker = "ready" /\ requested \in BOOLEAN /\ writes = 0 /\ failures = 0
      /\ at = [c \in Caller |-> "idle"] /\ call = [c \in Caller |-> "put"]
    BY Zenon DEF Init
<1>3. TypeOK
    <2>1. /\ at \in [Caller -> {"idle", "enter", "waiting", "ready", "join", "lifecycle"}]
          /\ call \in [Caller -> {"put", "flush", "compact", "wait", "close"}]
        BY Zenon, <1>2
    <2>2. writes \in 0 .. MaxWrites /\ failures \in 0 .. MaxFailures
        BY <1>2, MaintenanceAssumption
    <2>3. /\ running = (worker = "publishing") /\ stop_background = (state # "running")
          /\ state = "closed" => worker = "exited"
        BY Zenon, <1>2
    <2> QED BY Zenon, <1>1, <1>2, <2>1, <2>2, <2>3 DEF TypeOK
<1>4. PublishingAlone /\ CloseInv
    BY Zenon DEF Init, PublishingAlone, CloseInv
<1> QED BY Zenon, <1>3, <1>4 DEF IInv

\* Every step keeps it.
LEMMA StepSafe == IInv /\ [Next]_vars => IInv'
<1> SUFFICES ASSUME IInv, [Next]_vars PROVE IInv'
    BY Zenon
<1>1. ASSUME NEW c \in Caller, Start(c) \/ Step(c) PROVE IInv'
    BY Zenon, <1>1, CallerQuiet, WriteSafe, MaintainSafe, CloseFirstSafe, CloseFinishSafe DEF Step
<1>2. CASE WorkerStep
    BY Zenon, <1>2, WorkerSafe
<1>3. CASE SpuriousWakeup \/ OtherOpens
    BY Zenon, <1>3, EnvironmentSafe
<1>4. CASE UNCHANGED vars
    <2>1. TypeOK'
        BY <1>4 DEF IInv, TypeOK, vars, workerVars
    <2>2. PublishingAlone'
        BY Zenon, <1>4 DEF IInv, PublishingAlone, vars, workerVars
    <2>3. CloseInv'
        BY Zenon, <1>4 DEF IInv, CloseInv, vars
    <2> QED BY Zenon, <2>1, <2>2, <2>3 DEF IInv
<1> QED BY Zenon, <1>1, <1>2, <1>3, <1>4 DEF Next

\* The inductive invariant holds throughout.
LEMMA Safety == Spec => []IInv
BY InitSafe, StepSafe, PTL DEF Spec

\* For any callers and any failures, the worker that builds a table without
\* the mutex is alone with the Immutable, and the directory is locked.
THEOREM WorkerAlone == Spec => []PublishingAlone
<1>1. IInv => PublishingAlone
    BY Zenon DEF IInv
<1> QED BY <1>1, Safety, PTL

\* For any callers and any failures, a Close that reports Ok has left nothing
\* to flush and no compaction to finish, and no thread that was waiting when it
\* began brings any back.
THEOREM CloseFinishes == Spec => []CloseComplete
<1>1. IInv => CloseComplete
    BY Zenon DEF IInv, CloseInv, CloseComplete, Clean
<1> QED BY <1>1, Safety, PTL

\* The flags of the worker and of Close agree with where the threads are.
THEOREM FlagsAgree == Spec => []TypeOK
<1>1. IInv => TypeOK
    BY Zenon DEF IInv
<1> QED BY <1>1, Safety, PTL
------------------------------------------------------------------------------
(* Waiting writers, where nobody calls Compact *)

\* A writer that waits for the Immutable slot has someone to wait for: work is
\* requested or running, and the end of that work notifies it.
WaitHasCause ==
    \A c \in Caller :
        at[c] = "waiting" /\ call[c] = "put" => requested \/ running

\* A compaction is pending only after it failed in the worker, which paused the
\* writers and had no request left; and an Immutable a Flush could not write
\* has no worker, but then there is no WAL either and the Mutable is empty.
WaitInv ==
    /\ \A c \in Caller : call[c] # "compact"
    /\ engine.compaction # "none" => ~background_status /\ ~requested /\ ~running
    /\ running => ~requested
    /\ state = "running" /\ background_status /\ engine.immutable # "none"
          => requested \/ running \/ (engine.mutable = 0 /\ ~engine.wal)
    /\ WaitHasCause

\* A flush that fails has not replaced the WAL.
LEMMA FailedFlushKeepsWal ==
    ASSUME NEW e \in Engine, NEW r \in ContinueFlush(e), ~r.ok
    PROVE  r.engine.wal = e.wal /\ e.immutable # "none"
<1> DEFINE P(s) == s \in Result /\ s.engine \in Engine /\ s.engine.wal = e.wal
           S1 == PublishTable(e)
           S2 == Then(S1, PublishFlush)
           S3 == Then(S2, RemoveWal)
           S4 == Then(S3, OpenMutableWal)
<1>0. e.immutable # "none"
    BY Zenon, ResultKinds DEF ContinueFlush
<1>1. \A s \in S1 : P(s)
    <2>1. \A s \in S1 : s \in Result
        BY Zenon, PublishTableTyped
    <2>2. \A s \in S1 : s.engine.wal = e.wal
        BY DEF PublishTable, Ok, Failed, Engine
    <2> QED BY Zenon, <2>1, <2>2 DEF Result
<1>2. \A s \in S2 : P(s)
    <2>1. ASSUME NEW f \in Engine, NEW s \in PublishFlush(f)
          PROVE  s \in Result /\ s.engine \in Engine /\ s.engine.wal = f.wal
        <3>1. s \in Result /\ s.engine.wal = f.wal
            BY Zenon, PublishFlushTyped
        <3> QED BY Zenon, <3>1 DEF Result
    <2> QED BY <1>1, <2>1 DEF Then
<1>3. \A s \in S3 : P(s)
    <2>1. ASSUME NEW f \in Engine, NEW s \in RemoveWal(f)
          PROVE  s \in Result /\ s.engine \in Engine /\ s.engine.wal = f.wal
        <3>1. s \in Result
            BY Zenon, RemoveWalTyped
        <3>2. s.engine.wal = f.wal
            BY DEF RemoveWal, Ok, Failed, Engine
        <3> QED BY Zenon, <3>1, <3>2 DEF Result
    <2> QED BY <1>2, <2>1 DEF Then
<1>4. \A s \in S4 : s \in Result /\ s.engine \in Engine /\ (s.ok \/ s.engine.wal = e.wal)
    <2>1. ASSUME NEW f \in Engine, NEW s \in OpenMutableWal(f)
          PROVE  s \in Result /\ s.engine \in Engine /\ (s.ok \/ s.engine.wal = f.wal)
        <3>1. s \in Result
            BY Zenon, OpenMutableWalTyped
        <3>2. s.ok \/ s.engine.wal = f.wal
            BY DEF OpenMutableWal, Ok, Failed, Engine
        <3> QED BY Zenon, <3>1, <3>2 DEF Result
    <2> QED BY <1>3, <2>1 DEF Then
<1>5. r \in Then(S4, ReleaseImmutable)
    BY Zenon, <1>0 DEF ContinueFlush
<1>6. \A f \in Engine : \A s \in ReleaseImmutable(f) : s.ok
    BY DEF ReleaseImmutable, Ok
<1> HIDE DEF S4
<1> QED BY Zenon, <1>0, <1>4, <1>5, <1>6 DEF Then

\* With no compaction pending Flush makes none; when it fails it has left the
\* Mutable and its WAL as they were, or frozen the one and closed the other.
LEMMA FlushLockedLeaves ==
    ASSUME NEW e \in Engine, NEW r \in FlushLocked(e)
    PROVE  /\ r.ok => r.engine.immutable = "none" /\ r.engine.compaction = "none"
           /\ e.compaction = "none" => r.engine.compaction = "none"
           /\ e.compaction = "none" /\ ~r.ok
                => \/ r.engine.immutable = "none"
                   \/ r.engine.mutable = 0 /\ ~r.engine.wal
                   \/ /\ e.immutable # "none"
                      /\ r.engine.mutable = e.mutable /\ r.engine.wal = e.wal
<1> DEFINE S1 == ContinueCompaction(e)
           S2 == Then(S1, FreezeForFlush)
<1>1. PICK s \in S2 : IF s.ok THEN r \in ContinueFlush(s.engine) ELSE r = s
    BY Zenon DEF FlushLocked, Then
<1>2. PICK q \in S1 : IF q.ok THEN s \in FreezeForFlush(q.engine) ELSE s = q
    BY Zenon, <1>1 DEF Then
<1>3. q \in Result /\ q.engine \in Engine /\ (q.ok => q.engine.compaction = "none")
    <2>1. q \in Result /\ (q.ok => q.engine.compaction = "none")
        BY Zenon, <1>2, ContinueCompactionTyped
    <2> QED BY Zenon, <2>1 DEF Result
<1>4. e.compaction = "none" => q.ok /\ q.engine = e
    BY Zenon, <1>2, ResultKinds DEF ContinueCompaction
<1>5. s \in Result /\ s.engine \in Engine /\ (s.ok => s.engine.compaction = "none")
    <2>1. s \in Result /\ (s.ok => s.engine.compaction = "none")
        BY Zenon, <1>2, <1>3, FreezeForFlushTyped
    <2> QED BY Zenon, <2>1 DEF Result
<1>6. ASSUME e.compaction = "none"
      PROVE  /\ s.engine.compaction = "none"
             /\ ~s.ok => s.engine = e /\ e.immutable = "none"
             /\ s.ok => \/ s.engine = e
                        \/ s.engine.mutable = 0 /\ ~s.engine.wal
    <2>1. s \in FreezeForFlush(e)
        BY Zenon, <1>2, <1>4, <1>6
    <2>2. s.engine.compaction = "none"
        BY Zenon, <1>6, <2>1, FreezeForFlushTyped
    <2>3. CASE e.immutable = "none" /\ e.mutable > 0
        <3>1. s \in FreezeMutable(e)
            BY Zenon, <2>1, <2>3 DEF FreezeForFlush
        <3> QED BY Zenon, <2>2, <2>3, <3>1, FreezeMutableTyped
    <2>4. CASE ~(e.immutable = "none" /\ e.mutable > 0)
        <3>1. s = Ok(e)
            BY Zenon, <2>1, <2>4 DEF FreezeForFlush
        <3> QED BY Zenon, <2>2, <3>1, ResultKinds
    <2> QED BY Zenon, <2>3, <2>4
<1>7. CASE ~s.ok
    BY Zenon, <1>1, <1>6, <1>7
<1>8. CASE s.ok
    <2>1. r \in ContinueFlush(s.engine)
        BY Zenon, <1>1, <1>8
    <2>2. /\ r.engine.mutable = s.engine.mutable /\ r.engine.compaction = "none"
          /\ r.ok => r.engine.immutable = "none"
        BY Zenon, <1>5, <1>8, <2>1, ContinueFlushTyped DEF SameRest
    <2>3. ~r.ok => r.engine.wal = s.engine.wal /\ s.engine.immutable # "none"
        BY Zenon, <1>5, <2>1, FailedFlushKeepsWal
    <2> QED BY Zenon, <1>6, <1>8, <2>2, <2>3
<1> QED BY Zenon, <1>7, <1>8

\* The parts of a compaction leave the Immutable alone.
LEMMA CompactionKeepsImmutable ==
    ASSUME NEW e \in Engine, NEW r \in PrepareCompaction(e) \cup ContinueCompaction(e)
    PROVE  r.engine.immutable = e.immutable
<1>1. CASE r \in PrepareCompaction(e)
    BY Zenon, <1>1, PrepareCompactionTyped
<1>2. CASE r \in ContinueCompaction(e)
    <2> DEFINE P(s) == s \in Result /\ s.engine \in Engine /\ s.engine.immutable = e.immutable
               S1 == BuildCandidate(e)
               S2 == Then(S1, PublishCompaction)
               S3 == Then(S2, CleanUp)
               S4 == Then(S3, ReplaceWal)
    <2>1. \A s \in S1 : P(s)
        <3>1. \A s \in S1 : s \in Result
            BY Zenon, BuildCandidateTyped
        <3>2. \A s \in S1 : s.engine.immutable = e.immutable
            BY DEF BuildCandidate, Ok, Failed, Refused, Engine
        <3> QED BY Zenon, <3>1, <3>2 DEF Result
    <2>2. \A s \in S2 : P(s)
        <3>1. ASSUME NEW f \in Engine, NEW s \in PublishCompaction(f)
              PROVE  s \in Result /\ s.engine \in Engine /\ s.engine.immutable = f.immutable
            <4>1. s \in Result /\ s.engine.immutable = f.immutable
                BY Zenon, PublishCompactionTyped
            <4> QED BY Zenon, <4>1 DEF Result
        <3> QED BY <2>1, <3>1 DEF Then
    <2>3. \A s \in S3 : P(s)
        <3>1. ASSUME NEW f \in Engine, NEW s \in CleanUp(f)
              PROVE  s \in Result /\ s.engine = f
            BY Zenon, ResultKinds DEF CleanUp
        <3> QED BY <2>2, <3>1 DEF Then
    <2>4. \A s \in S4 : P(s)
        <3>1. ASSUME NEW f \in Engine, NEW s \in ReplaceWal(f)
              PROVE  s \in Result /\ s.engine \in Engine /\ s.engine.immutable = f.immutable
            <4>1. s \in Result /\ s.engine.immutable = f.immutable
                BY OpenMutableWalTyped, ResultKinds DEF ReplaceWal
            <4> QED BY Zenon, <4>1 DEF Result
        <3> QED BY <2>3, <3>1 DEF Then
    <2>5. ASSUME NEW f \in Engine, NEW s \in ReleaseCompaction(f)
          PROVE  s.engine.immutable = f.immutable
        <3> DEFINE g == [f EXCEPT !.compaction = "none", !.outputs = FALSE, !.kept = 0]
        <3>1. g \in Engine /\ g.immutable = f.immutable
            BY Zenon DEF Engine, CompactionStage
        <3>2. s = Ok(g)
            BY Zenon, <2>5 DEF ReleaseCompaction
        <3> HIDE DEF g
        <3> QED BY Zenon, <3>1, <3>2, ResultKinds
    <2>6. CASE e.compaction = "none"
        BY Zenon, <1>2, <2>6, ResultKinds DEF ContinueCompaction
    <2>7. CASE e.compaction # "none"
        <3>1. r \in Then(S4, ReleaseCompaction)
            BY Zenon, <1>2, <2>7 DEF ContinueCompaction
        <3> HIDE DEF S4
        <3> QED BY <2>4, <2>5, <3>1 DEF Then
    <2> QED BY Zenon, <2>6, <2>7
<1> QED BY Zenon, <1>1, <1>2

\* Work of the worker that ends Ok leaves nothing pending.
LEMMA WorkLeaves ==
    ASSUME NEW e \in Engine, e.compaction = "none", NEW r \in RunBackgroundWork(e), r.ok
    PROVE  r.engine.immutable = "none" /\ r.engine.compaction = "none"
<1> DEFINE S1 == PublishTable(e)
           S2 == Then(S1, ContinueFlush)
<1>1. PICK s \in S2 : IF s.ok THEN r \in AutomaticCompaction(s.engine) ELSE r = s
    BY Zenon DEF RunBackgroundWork, Then
<1>2. PICK q \in S1 : IF q.ok THEN s \in ContinueFlush(q.engine) ELSE s = q
    BY Zenon, <1>1 DEF Then
<1>3. s.ok /\ r \in AutomaticCompaction(s.engine)
    BY Zenon, <1>1
<1>4. q \in Result /\ q.engine \in Engine /\ q.engine.compaction = "none"
    <2>1. q \in Result /\ q.engine.compaction = "none"
        BY Zenon, <1>2, PublishTableTyped DEF SameRest
    <2> QED BY Zenon, <2>1 DEF Result
<1>5. s \in ContinueFlush(q.engine)
    BY Zenon, <1>2, <1>3, <1>4
<1>6. /\ s \in Result /\ s.engine \in Engine
      /\ s.engine.immutable = "none" /\ s.engine.compaction = "none"
    <2>1. s \in Result /\ s.engine.immutable = "none" /\ s.engine.compaction = "none"
        BY Zenon, <1>3, <1>4, <1>5, ContinueFlushTyped DEF SameRest
    <2> QED BY Zenon, <2>1 DEF Result
<1>7. CASE r = Ok(s.engine)
    BY Zenon, <1>6, <1>7, ResultKinds
<1>8. CASE r \in Then(PrepareCompaction(s.engine), ContinueCompaction)
    <2>1. PICK t \in PrepareCompaction(s.engine) :
             IF t.ok THEN r \in ContinueCompaction(t.engine) ELSE r = t
        BY Zenon, <1>8 DEF Then
    <2>2. t.ok /\ r \in ContinueCompaction(t.engine)
        BY Zenon, <2>1
    <2>3. t.engine \in Engine /\ t.engine.immutable = "none"
        <3>1. t \in Result /\ t.engine.immutable = "none"
            BY Zenon, <1>6, <2>1, PrepareCompactionTyped
        <3> QED BY Zenon, <3>1 DEF Result
    <2> QED BY Zenon, <2>2, <2>3, ContinueCompactionTyped, CompactionKeepsImmutable
<1> QED BY Zenon, <1>3, <1>7, <1>8 DEF AutomaticCompaction

\* Close makes no compaction.
LEMMA CloseWorkLeaves ==
    ASSUME NEW e \in Engine, e.compaction = "none", NEW r \in CloseWork(e)
    PROVE  r.engine.compaction = "none"
<1> DEFINE S1 == ContinueCompaction(e)
           S2 == Then(S1, ContinueFlush)
           S3 == Then(S2, FreezeForFlush)
           P(s) == s \in Result /\ s.engine \in Engine /\ s.engine.compaction = "none"
<1>1. \A s \in S1 : P(s)
    BY Zenon, ResultKinds DEF ContinueCompaction
<1>2. \A f \in Engine : \A s \in ContinueFlush(f) :
         s \in Result /\ s.engine \in Engine /\ s.engine.compaction = f.compaction
    <2>1. ASSUME NEW f \in Engine, NEW s \in ContinueFlush(f)
          PROVE  s \in Result /\ s.engine \in Engine /\ s.engine.compaction = f.compaction
        <3>1. s \in Result /\ s.engine.compaction = f.compaction
            BY Zenon, ContinueFlushTyped DEF SameRest
        <3> QED BY Zenon, <3>1 DEF Result
    <2> QED BY Zenon, <2>1
<1>3. \A f \in Engine : \A s \in FreezeForFlush(f) :
         s \in Result /\ s.engine \in Engine /\ s.engine.compaction = f.compaction
    <2>1. ASSUME NEW f \in Engine, NEW s \in FreezeForFlush(f)
          PROVE  s \in Result /\ s.engine \in Engine /\ s.engine.compaction = f.compaction
        <3>1. s \in Result /\ s.engine.compaction = f.compaction
            BY Zenon, FreezeForFlushTyped
        <3> QED BY Zenon, <3>1 DEF Result
    <2> QED BY Zenon, <2>1
<1>4. \A s \in S2 : P(s)
    BY <1>1, <1>2 DEF Then
<1>5. \A s \in S3 : P(s)
    <2> HIDE DEF S2
    <2> QED BY <1>3, <1>4 DEF Then
<1>6. r \in Then(S3, ContinueFlush)
    BY Zenon DEF CloseWork
<1> HIDE DEF S3
<1> QED BY <1>2, <1>5, <1>6 DEF Then

\* Steps that leave the engine and the flags, after which a writer waits only
\* if it did before or there is work.
LEMMA QuietWait ==
    ASSUME WaitInv,
           UNCHANGED <<state, requested, running, background_status, engine>>,
           \A c \in Caller : call'[c] # "compact",
           \A c \in Caller : at'[c] = "waiting" /\ call'[c] = "put"
              => (at[c] = "waiting" /\ call[c] = "put") \/ requested \/ running
    PROVE  WaitInv'
<1>1. WaitHasCause'
    BY Zenon DEF WaitInv, WaitHasCause
<1> QED BY Zenon, <1>1 DEF WaitInv

\* Callers that start, wait, return or fail.  A writer waits for the slot only
\* with a full Mutable, so there is work.
LEMMA CallerWait ==
    ASSUME "compact" \notin Calls, IInv, WaitInv, NEW c \in Caller,
           \/ Start(c) \/ ReturnClosed(c) \/ WriteWaits(c) \/ WriteRefused(c)
           \/ WriteFails(c) \/ MaintenanceWait(c) \/ WaitForBackgroundWork(c) \/ CloseAgain(c)
    PROVE  WaitInv'
<1>1. /\ at \in [Caller -> Place] /\ engine \in Engine
      /\ call \in [Caller -> {"put", "flush", "compact", "wait", "close"}]
    BY Zenon DEF IInv, TypeOK, Place
<1>2. \A d \in Caller : call[d] # "compact"
    BY Zenon DEF WaitInv
<1>3. CASE Start(c)
    <2>1. PICK name \in Calls : call' = [call EXCEPT ![c] = name]
        BY Zenon, <1>3 DEF Start
    <2>2. /\ at' = [at EXCEPT ![c] = "enter"]
          /\ UNCHANGED <<state, requested, running, background_status, engine>>
        BY Zenon, <1>3 DEF Start, workerVars
    <2>3. \A d \in Caller : call'[d] # "compact"
        BY Zenon, <1>1, <1>2, <2>1
    <2>4. \A d \in Caller : at'[d] = "waiting" => at[d] = "waiting" /\ call'[d] = call[d]
        BY Zenon, <1>1, <2>1, <2>2
    <2> QED BY Zenon, <2>2, <2>3, <2>4, QuietWait
<1>4. CASE WriteWaits(c)
    <2>1. /\ at' = [at EXCEPT ![c] = "waiting"] /\ MustWait
          /\ UNCHANGED <<state, requested, running, background_status, engine, call>>
        BY Zenon, <1>4 DEF WriteWaits, WaitHere, workerVars
    <2>2. engine.mutable # 0
        BY <1>1, <2>1, MaintenanceAssumption DEF MustWait, Engine
    <2>3. requested \/ running
        BY Zenon, <2>1, <2>2 DEF MustWait, WaitInv
    <2> QED BY Zenon, <1>2, <2>1, <2>3, QuietWait
<1>5. CASE \/ ReturnClosed(c) \/ WriteRefused(c) \/ WriteFails(c) \/ CloseAgain(c)
    <2>1. /\ at' = [at EXCEPT ![c] = "idle"] \/ at' = [at EXCEPT ![c] = "lifecycle"]
          /\ UNCHANGED <<state, requested, running, background_status, engine, call>>
        BY Zenon, <1>5 DEF ReturnClosed, WriteRefused, WriteFails, CloseAgain, Return, workerVars
    <2>2. \A d \in Caller : at'[d] = "waiting" => at[d] = "waiting"
        BY Zenon, <1>1, <2>1
    <2> QED BY Zenon, <1>2, <2>1, <2>2, QuietWait
<1>6. CASE MaintenanceWait(c) \/ WaitForBackgroundWork(c)
    <2>1. /\ at' = [at EXCEPT ![c] = "idle"] \/ at' = [at EXCEPT ![c] = "waiting"]
          /\ call[c] # "put"
          /\ UNCHANGED <<state, requested, running, background_status, engine, call>>
        BY Zenon, <1>6 DEF MaintenanceWait, EntersMaintenance, Maintains, Looks,
            WaitForBackgroundWork, Return, WaitHere, workerVars
    <2>2. \A d \in Caller : at'[d] = "waiting" => at[d] = "waiting" \/ call[d] # "put"
        BY Zenon, <1>1, <2>1
    <2> QED BY Zenon, <1>2, <2>1, <2>2, QuietWait
<1> QED BY Zenon, <1>3, <1>4, <1>5, <1>6

\* After a notification nobody waits on background_cv_.
LEMMA NobodyWaits ==
    ASSUME TypeOK, NEW c \in Caller, NEW p \in Place \ {"waiting"},
           \/ at' = Woken \/ at' = [Woken EXCEPT ![c] = p] \/ at' = [AfterClose EXCEPT ![c] = p]
    PROVE  WaitHasCause'
<1>1. \A d \in Caller : at'[d] # "waiting"
    BY Zenon DEF TypeOK, Woken, AfterClose
<1> QED BY Zenon, <1>1 DEF WaitHasCause

\* A write is accepted only with a WAL; the one that fills the Mutable asks for
\* work as it takes the slot.
LEMMA WriteWait ==
    ASSUME IInv, WaitInv, NEW c \in Caller, Write(c)
    PROVE  WaitInv'
<1> DEFINE f == Appended(engine)
<1>1. TypeOK /\ PublishingAlone /\ engine \in Engine
    BY Zenon DEF IInv, TypeOK
<1>2. /\ state = "running" /\ background_status /\ engine.wal /\ engine.compaction = "none"
      /\ UNCHANGED <<state, running, call>>
    BY Zenon DEF Write, WriteAccepted, WaitInv
<1>3. f \in Engine /\ f.immutable = engine.immutable /\ f.compaction = "none" /\ f.wal
    <2>1. engine.mutable + 1 \in Nat
        BY <1>1 DEF Engine
    <2>2. f = [engine EXCEPT !.mutable = engine.mutable + 1, !.number = engine.number]
        BY Zenon, <1>1, <1>2 DEF Appended, Engine
    <2> HIDE DEF f
    <2> QED BY Zenon, <1>1, <1>2, <2>1, <2>2 DEF Engine
<1> HIDE DEF f
<1>4. CASE engine.mutable + 1 >= MemTableLimit /\ engine.immutable = "none"
    <2>1. PICK r \in Then(FreezeMutable(f), OpenMutableWal) :
             Outcome(r) /\ requested' = TRUE /\ NotifyAndReturn(c)
        BY Zenon, <1>4 DEF Write, f
    <2>2. PICK q \in FreezeMutable(f) : IF q.ok THEN r \in OpenMutableWal(q.engine) ELSE r = q
        BY Zenon, <2>1 DEF Then
    <2>3. q \in Result /\ q.engine \in Engine /\ q.engine.compaction = "none"
        <3>1. q \in Result /\ q.engine.compaction = "none"
            BY Zenon, <1>3, <2>2, FreezeMutableTyped
        <3> QED BY Zenon, <3>1 DEF Result
    <2>4. engine'.compaction = "none"
        BY Zenon, <2>1, <2>2, <2>3, OpenMutableWalTyped DEF Outcome, SameRest
    <2>5. ~running
        BY Zenon, <1>1, <1>4 DEF TypeOK, PublishingAlone
    <2>6. WaitHasCause'
        BY Zenon, <1>1, <2>1, NobodyWaits DEF NotifyAndReturn, Place
    <2> QED BY Zenon, <1>2, <2>1, <2>4, <2>5, <2>6 DEF WaitInv
<1>5. CASE ~(engine.mutable + 1 >= MemTableLimit /\ engine.immutable = "none")
    <2>1. /\ engine' = f /\ at' = [at EXCEPT ![c] = "idle"]
          /\ UNCHANGED <<background_status, requested>>
        BY Zenon, <1>5 DEF Write, Return, f
    <2>2. engine.immutable # "none" => requested \/ running
        BY Zenon, <1>2 DEF WaitInv
    <2>3. WaitHasCause'
        <3>1. \A d \in Caller : at'[d] = "waiting" => at[d] = "waiting"
            BY Zenon, <1>1, <2>1 DEF TypeOK
        <3> QED BY Zenon, <1>2, <2>1, <3>1 DEF WaitInv, WaitHasCause
    <2> QED BY Zenon, <1>2, <1>3, <2>1, <2>2, <2>3 DEF WaitInv
<1> QED BY Zenon, <1>4, <1>5

\* A Flush that fails leaves the writers a request, or no WAL to write to.
LEMMA MaintainWait ==
    ASSUME IInv, WaitInv, NEW c \in Caller, Maintain(c)
    PROVE  WaitInv'
<1>1. TypeOK /\ engine \in Engine
    BY Zenon DEF IInv, TypeOK
<1>2. /\ UNCHANGED <<state, requested, running, call>>
      /\ ~running /\ NotifyAndReturn(c)
    BY Zenon DEF Maintain, MaintenanceWaits
<1>3. PICK r \in ForegroundWork(c) :
         Outcome(r) /\ background_status' = (r.ok \/ background_status)
    BY Zenon DEF Maintain
<1>4. call[c] = "flush"
    BY Zenon DEF Maintain, EntersMaintenance, Maintains, Looks, WaitInv
<1>5. engine' = r.engine
    BY Zenon, <1>3 DEF Outcome
<1>6. WaitHasCause'
    BY Zenon, <1>1, <1>2, NobodyWaits DEF NotifyAndReturn, Place
<1>7. CASE r = Refused(engine)
    <2>1. engine' = engine /\ background_status' = background_status
        <3>1. r.engine = engine /\ ~r.ok
            BY Zenon, <1>1, <1>7, ResultKinds
        <3>2. background_status \in BOOLEAN
            BY Zenon, <1>1 DEF TypeOK
        <3> QED BY Zenon, <1>3, <1>5, <3>1, <3>2
    <2> QED BY Zenon, <1>2, <1>6, <2>1 DEF WaitInv
<1>8. CASE r \in FlushLocked(engine)
    <2>1. CASE r.ok
        <3>1. engine'.immutable = "none" /\ engine'.compaction = "none"
            BY Zenon, <1>1, <1>5, <1>8, <2>1, FlushLockedLeaves
        <3> QED BY Zenon, <1>2, <1>6, <3>1 DEF WaitInv
    <2>2. CASE ~r.ok
        <3>1. background_status' = background_status
            BY Zenon, <1>1, <1>3, <2>2 DEF TypeOK
        <3>2. CASE engine.compaction # "none"
            BY Zenon, <1>2, <1>6, <3>1, <3>2 DEF WaitInv
        <3>3. CASE engine.compaction = "none"
            <4>1. /\ engine'.compaction = "none"
                  /\ \/ engine'.immutable = "none"
                     \/ engine'.mutable = 0 /\ ~engine'.wal
                     \/ /\ engine.immutable # "none"
                        /\ engine'.mutable = engine.mutable /\ engine'.wal = engine.wal
                BY Zenon, <1>1, <1>5, <1>8, <2>2, <3>3, FlushLockedLeaves
            <4> QED BY Zenon, <1>2, <1>6, <3>1, <4>1 DEF WaitInv
        <3> QED BY Zenon, <3>2, <3>3
    <2> QED BY Zenon, <2>1, <2>2
<1> QED BY Zenon, <1>3, <1>4, <1>7, <1>8 DEF ForegroundWork

\* Close wakes every waiting writer, and none waits from then on.
LEMMA CloseWait ==
    ASSUME IInv, WaitInv, NEW c \in Caller, CloseFirst(c) \/ CloseFinish(c)
    PROVE  WaitInv'
<1>1. TypeOK /\ engine \in Engine
    BY Zenon DEF IInv, TypeOK
<1>2. CASE CloseFirst(c)
    <2>1. /\ state' = "closing" /\ at' = [Woken EXCEPT ![c] = "join"]
          /\ UNCHANGED <<requested, running, background_status, engine, call>>
        BY Zenon, <1>2 DEF CloseFirst
    <2>2. WaitHasCause'
        BY Zenon, <1>1, <2>1, NobodyWaits DEF Place
    <2> QED BY Zenon, <2>1, <2>2 DEF WaitInv
<1>3. CASE CloseFinish(c)
    <2>1. /\ state' = "closed" /\ ~requested' /\ ~running'
          /\ at' = [AfterClose EXCEPT ![c] = "idle"]
          /\ UNCHANGED <<background_status, call>>
        BY Zenon, <1>3 DEF CloseFinish
    <2>2. PICK r \in CloseWork(engine) : engine' = [r.engine EXCEPT !.wal = FALSE]
        BY Zenon, <1>3 DEF CloseFinish
    <2>3. engine.compaction = "none" => engine'.compaction = "none"
        <3>1. r.engine \in Engine
            BY Zenon, <1>1, <2>2, CloseWorkClean DEF Result
        <3>2. engine'.compaction = r.engine.compaction
            BY Zenon, <2>2, <3>1 DEF Engine
        <3> QED BY Zenon, <1>1, <2>2, <3>2, CloseWorkLeaves
    <2>4. WaitHasCause'
        BY Zenon, <1>1, <2>1, NobodyWaits DEF Place
    <2> QED BY Zenon, <2>1, <2>3, <2>4 DEF WaitInv
<1> QED BY Zenon, <1>2, <1>3

\* The worker's work ends with nothing pending or with the writers paused, and
\* wakes them.
LEMMA FinishWorkWait ==
    ASSUME IInv, WaitInv, NEW r \in RunBackgroundWork(engine), NEW more, FinishWork(r, more),
           engine.compaction = "none", ~requested', UNCHANGED <<state, call>>
    PROVE  WaitInv'
<1>1. TypeOK /\ engine \in Engine
    BY Zenon DEF IInv, TypeOK
<1>2. engine' = r.engine /\ background_status' = r.ok /\ ~running' /\ at' = Woken
    BY Zenon DEF FinishWork, Outcome, AfterWork
<1>3. WaitHasCause'
    <2>1. \A d \in Caller : at'[d] # "waiting"
        BY Zenon, <1>1, <1>2 DEF TypeOK, Woken
    <2> QED BY Zenon, <2>1 DEF WaitHasCause
<1>4. r.ok => engine'.immutable = "none" /\ engine'.compaction = "none"
    BY Zenon, <1>1, <1>2, WorkLeaves
<1> QED BY Zenon, <1>2, <1>3, <1>4 DEF WaitInv

\* The worker takes a request only with no compaction pending, and there is no
\* request while it works.
LEMMA WorkerWait ==
    ASSUME IInv, WaitInv, WorkerStep
    PROVE  WaitInv'
<1>1. TypeOK
    BY Zenon DEF IInv
<1>2. CASE WorkerLooks
    BY Zenon, <1>2, QuietWait DEF WorkerLooks, WaitInv
<1>3. CASE WorkerTakes
    <2>1. requested /\ ~requested' /\ UNCHANGED <<state, call>>
        BY Zenon, <1>3 DEF WorkerTakes
    <2>2. engine.compaction = "none"
        BY Zenon, <2>1 DEF WaitInv
    <2>3. CASE engine.immutable = "frozen"
        <3>1. running' = TRUE /\ UNCHANGED <<background_status, engine, at>>
            BY Zenon, <1>3, <2>3 DEF WorkerTakes
        <3>2. WaitHasCause'
            BY Zenon, <3>1 DEF WaitHasCause
        <3> QED BY Zenon, <2>1, <2>2, <3>1, <3>2 DEF WaitInv
    <2>4. CASE engine.immutable # "frozen"
        <3>1. PICK r \in RunBackgroundWork(engine) : FinishWork(r, FALSE)
            BY Zenon, <1>3, <2>4 DEF WorkerTakes
        <3> QED BY Zenon, <2>1, <2>2, <3>1, FinishWorkWait
    <2> QED BY Zenon, <2>3, <2>4
<1>4. CASE WorkerResumes
    <2>1. running /\ UNCHANGED <<state, requested, call>>
        BY Zenon, <1>1, <1>4 DEF WorkerResumes, TypeOK
    <2>2. engine.compaction = "none" /\ ~requested'
        BY Zenon, <2>1 DEF WaitInv
    <2>3. PICK r \in RunBackgroundWork(engine) : FinishWork(r, requested)
        BY Zenon, <1>4 DEF WorkerResumes
    <2> QED BY Zenon, <2>1, <2>2, <2>3, FinishWorkWait
<1> QED BY Zenon, <1>2, <1>3, <1>4 DEF WorkerStep

\* The environment makes no writer wait.
LEMMA EnvironmentWait ==
    ASSUME IInv, WaitInv, OtherOpens \/ SpuriousWakeup
    PROVE  WaitInv'
<1>1. TypeOK
    BY Zenon DEF IInv
<1>2. UNCHANGED <<state, requested, running, background_status, engine, call>>
    BY Zenon DEF OtherOpens, SpuriousWakeup, workerVars
<1>3. \A d \in Caller : at'[d] = "waiting" => at[d] = "waiting"
    BY Zenon, <1>1 DEF OtherOpens, SpuriousWakeup, TypeOK
<1> QED BY Zenon, <1>2, <1>3, QuietWait DEF WaitInv

\* Both invariants together are inductive.
LEMMA WaitAlways ==
    ASSUME "compact" \notin Calls
    PROVE  Spec => []WaitInv
<1>1. Init => WaitInv
    <2> SUFFICES ASSUME Init PROVE WaitInv
        BY Zenon
    <2>1. /\ state = "running" /\ running = FALSE /\ background_status = TRUE
          /\ requested = (engine.immutable # "none") /\ engine.compaction = "none"
          /\ at = [c \in Caller |-> "idle"] /\ call = [c \in Caller |-> "put"]
        BY DEF Init
    <2>2. WaitHasCause
        BY Zenon, <2>1 DEF WaitHasCause
    <2> QED BY Zenon, <2>1, <2>2 DEF WaitInv
<1>2. IInv /\ WaitInv /\ [Next]_vars => WaitInv'
    <2> SUFFICES ASSUME IInv, WaitInv, [Next]_vars PROVE WaitInv'
        BY Zenon
    <2>1. ASSUME NEW c \in Caller, Start(c) \/ Step(c) PROVE WaitInv'
        BY Zenon, <2>1, CallerWait, WriteWait, MaintainWait, CloseWait DEF Step
    <2>2. CASE WorkerStep
        BY Zenon, <2>2, WorkerWait
    <2>3. CASE SpuriousWakeup \/ OtherOpens
        BY Zenon, <2>3, EnvironmentWait
    <2>4. CASE UNCHANGED vars
        BY Zenon, <2>4, QuietWait DEF vars, workerVars, WaitInv
    <2> QED BY Zenon, <2>1, <2>2, <2>3, <2>4 DEF Next
<1> QED BY <1>1, <1>2, Safety, PTL DEF Spec

\* For any callers and any number of failures, as long as nobody calls Compact,
\* a writer that waits for the Immutable slot has work requested or running
\* whose end notifies it.
THEOREM WritersHaveCause ==
    ASSUME "compact" \notin Calls
    PROVE  Spec => []WaitHasCause
<1>1. WaitInv => WaitHasCause
    BY Zenon DEF WaitInv
<1> QED BY <1>1, WaitAlways, PTL

\* As long as nobody calls Compact, no Immutable is ever left without a request,
\* running work or an error that stops writers, for any callers and failures.
THEOREM FlushStaysDue ==
    ASSUME "compact" \notin Calls
    PROVE  Spec => FlushIsDue
<1>1. WaitInv => ~Abandoned
    BY Zenon DEF WaitInv, Abandoned
<1>2. ~Abandoned' => [Abandoned' => Abandoned \/ ClearedByCompaction]_vars
    BY Zenon
<1> QED BY <1>1, <1>2, WaitAlways, PTL DEF FlushIsDue
==============================================================================
