----------------------------- MODULE Maintenance -----------------------------
(***************************************************************************)
(* The threads of a database with background_maintenance                    *)
(* (src/src/database.cpp): any number of callers of Put, Flush, Compact,    *)
(* WaitForBackgroundWork and Close, the worker of BackgroundLoop, the two   *)
(* condition variables, the join, and the lock on the directory.            *)
(*                                                                          *)
(* All state is guarded by state_mutex_, so what a thread does from taking  *)
(* the mutex to giving it up is one step.  It gives it up when it waits on  *)
(* a condition variable, joins the worker, returns, or, the worker only,    *)
(* while it builds a table.  A waiting thread looks at its predicate again  *)
(* only after a notification (or a spurious wake-up).                       *)
(*                                                                          *)
(* Database models what maintenance does to the files; here a part of it    *)
(* succeeds, fails at one of its stages, or is refused.                     *)
(***************************************************************************)
EXTENDS Integers, FiniteSets

CONSTANTS
    Caller,         \* threads that call the database
    Calls,          \* the calls they make
    MemTableLimit,  \* records that make ApproximateDataSize >= memtable_size_limit
    Level0Trigger,  \* Options::level0_compaction_trigger
    MaxWrites,      \* bound: calls of Put
    MaxFailures     \* bound: failing system calls

ASSUME MaintenanceAssumption ==
    /\ Calls \subseteq {"put", "flush", "compact", "wait", "close"}
    /\ MemTableLimit \in Nat \ {0}
    /\ Level0Trigger \in Nat \ {0}
    /\ MaxWrites \in Nat
    /\ MaxFailures \in Nat

VARIABLES
    state,              \* state_: "running", "closing" or "closed"
    stop_background, requested, running, background_status,
    close_status,       \* "none" before Close has a result, then "ok" or "error"
    engine,             \* what maintenance works on
    status,             \* status_: FALSE once an Append failed
    lock,               \* who holds the flock on LOCK: "us", "nobody", "other"
    worker,             \* the worker's place in BackgroundLoop
    at,                 \* every caller's place in its call
    call,               \* and which call that is
    writes, failures

workerVars == <<stop_background, requested, running, background_status, worker>>
vars ==
    <<state, workerVars, close_status, engine, status, lock, at, call, writes, failures>>

\* immutable_: its flags as the stage ContinueFlush has reached.
Stage == {"none", "frozen", "pending", "published", "removed"}

\* The file number of the active WAL when a compaction is prepared is also that
\* of its first output.  A write makes it "shared"; the flush or the compaction
\* that is published first then owns it.
Number == {"free", "shared", "flushed", "compacted"}

\* compaction_: "ready" once its candidate Version is built, then published.
CompactionStage == {"none", "prepared", "ready", "published"}

\* mutable_ and level 0 by their sizes.  Of the compaction, whether it has
\* outputs and how many level-0 tables its candidate keeps; `readers` is
\* whether tables_ and version_ agree.  They come apart ("stale") when a flush
\* is published between the candidate's construction and its publication.
Engine ==
    [mutable : Nat, wal : BOOLEAN, immutable : Stage, level_zero : Nat,
     compaction : CompactionStage, outputs : BOOLEAN, kept : Nat, number : Number,
     readers : {"agree", "stale", "disagree"}]

------------------------------------------------------------------------------
(* Maintenance under the mutex: the set of the ways it can end.  A result is *)
(* the engine it leaves, whether its Status is Ok, and whether an error was  *)
(* a system call's (`failed`) or a check that refused.                       *)

Ok(e) == [engine |-> e, ok |-> TRUE, failed |-> 0]

Failed(e) == [engine |-> e, ok |-> FALSE, failed |-> 1]

Refused(e) == [engine |-> e, ok |-> FALSE, failed |-> 0]

\* "if (!status.ok()) return status;" between two parts.
Then(results, Part(_)) ==
    UNION {IF r.ok THEN Part(r.engine) ELSE {r} : r \in results}

\* OpenMutableWal
OpenMutableWal(e) ==
    {Ok([e EXCEPT !.wal = TRUE])} \cup (IF e.wal THEN {} ELSE {Failed(e)})

\* PublishTable
PublishTable(e) ==
    IF e.immutable = "frozen"
    THEN {Ok([e EXCEPT !.immutable = "pending"]), Failed(e)}
    ELSE {Ok(e)}

\* Version::Apply, which refuses a table number behind the frontier, and
\* PublishManifest.
PublishFlush(e) ==
    CASE e.immutable # "pending" -> {Ok(e)}
      [] e.immutable = "pending" /\ e.number = "compacted" -> {Refused(e)}
      [] e.immutable = "pending" /\ e.number # "compacted" ->
            {Ok([e EXCEPT !.immutable = "published", !.level_zero = @ + 1,
                          !.kept = IF e.compaction = "prepared" THEN @ + 1 ELSE @,
                          !.readers = IF e.compaction = "ready" /\ @ = "agree"
                                      THEN "stale" ELSE @,
                          !.number = IF @ = "shared" THEN "flushed" ELSE @]),
             Failed(e)}

RemoveWal(e) ==
    IF e.immutable = "published"
    THEN {Ok([e EXCEPT !.immutable = "removed"]), Failed(e)}
    ELSE {Ok(e)}

ReleaseImmutable(e) == {Ok([e EXCEPT !.immutable = "none"])}

ContinueFlush(e) ==
    IF e.immutable = "none"
    THEN {Ok(e)}
    ELSE Then(Then(Then(Then(PublishTable(e), PublishFlush), RemoveWal), OpenMutableWal),
              ReleaseImmutable)

\* FreezeMutable(false); FreezeMutable(true) goes on with OpenMutableWal.
FreezeMutable(e) ==
    IF e.immutable = "none" /\ e.mutable > 0 /\ e.wal
    THEN {Ok([e EXCEPT !.wal = FALSE, !.immutable = "frozen", !.mutable = 0])}
    ELSE {Refused(e)}

PrepareCompaction(e) ==
    CASE e.compaction # "none" \/ e.readers = "disagree" -> {Refused(e)}
      [] e.compaction = "none" /\ e.readers # "disagree" /\ e.level_zero = 0 -> {Ok(e)}
      [] e.compaction = "none" /\ e.readers # "disagree" /\ e.level_zero > 0 ->
            {Ok([e EXCEPT !.compaction = "prepared", !.outputs = o, !.kept = 0]) :
                o \in BOOLEAN}
            \cup {Failed(e)}

\* PublishCompactionTables and Version::Apply, which refuses outputs behind the
\* frontier.  The candidate is built once.
BuildCandidate(e) ==
    CASE e.compaction # "prepared" -> {Ok(e)}
      [] e.compaction = "prepared" /\ e.outputs /\ e.number = "flushed" ->
            {Refused(e), Failed(e)}
      [] e.compaction = "prepared" /\ ~(e.outputs /\ e.number = "flushed") ->
            {Ok([e EXCEPT !.compaction = "ready"])}
            \cup (IF e.outputs THEN {Failed(e)} ELSE {})

\* PublishManifest and the switch to the candidate.  With outputs the active
\* WAL is given up: the Mutable goes on under the number behind them, and an
\* Immutable is left with a number they took.
PublishCompaction(e) ==
    IF e.compaction = "ready"
    THEN {Ok([e EXCEPT !.compaction = "published", !.level_zero = e.kept,
                       !.wal = @ /\ ~e.outputs,
                       !.number = IF e.outputs /\ e.immutable # "none"
                                  THEN "compacted" ELSE "free",
                       !.readers = IF @ = "stale" THEN "disagree" ELSE @]),
          Failed(e)}
    ELSE {Ok(e)}

\* Removal of the inputs and the sync.
CleanUp(e) == {Ok(e), Failed(e)}

\* Only a WAL that was given up is replaced.
ReplaceWal(e) == IF e.outputs THEN OpenMutableWal(e) ELSE {Ok(e)}

ReleaseCompaction(e) ==
    {Ok([e EXCEPT !.compaction = "none", !.outputs = FALSE, !.kept = 0])}

ContinueCompaction(e) ==
    IF e.compaction = "none"
    THEN {Ok(e)}
    ELSE Then(Then(Then(Then(BuildCandidate(e), PublishCompaction), CleanUp), ReplaceWal),
              ReleaseCompaction)

\* FlushLocked, after the check of status_.
FreezeForFlush(e) ==
    IF e.immutable = "none" /\ e.mutable > 0 THEN FreezeMutable(e) ELSE {Ok(e)}

FlushLocked(e) ==
    Then(Then(ContinueCompaction(e), FreezeForFlush), ContinueFlush)

\* CompactLocked, after the check of status_.
FlushForCompact(e) ==
    IF e.immutable # "none" \/ e.mutable > 0 THEN FlushLocked(e) ELSE {Ok(e)}

NeedsEmptyWal(e) ==
    IF e.immutable # "none" \/ e.mutable > 0 \/ ~e.wal THEN {Refused(e)} ELSE {Ok(e)}

CompactLocked(e) ==
    IF e.compaction # "none"
    THEN ContinueCompaction(e)
    ELSE Then(Then(Then(FlushForCompact(e), NeedsEmptyWal), PrepareCompaction),
              ContinueCompaction)

\* RunBackgroundWorkLocked from the second time it has the mutex.
AutomaticCompaction(e) ==
    IF /\ ~stop_background
       /\ e.mutable = 0 /\ e.immutable = "none"
       /\ e.level_zero >= Level0Trigger
    THEN Then(PrepareCompaction(e), ContinueCompaction)
    ELSE {Ok(e)}

RunBackgroundWork(e) ==
    Then(Then(PublishTable(e), ContinueFlush), AutomaticCompaction)

\* Mutant of CloseWork: the Mutable is left to recovery.
CloseWorkImmutable(e) == Then(ContinueCompaction(e), ContinueFlush)

\* What Close does after the join.
CloseWork(e) ==
    Then(Then(Then(ContinueCompaction(e), ContinueFlush), FreezeForFlush), ContinueFlush)

\* A step ends maintenance with result r.
Outcome(r) ==
    /\ failures + r.failed <= MaxFailures
    /\ failures' = failures + r.failed
    /\ engine' = r.engine

------------------------------------------------------------------------------
(* Condition variables *)

\* background_cv_.notify_all(), callers' part and worker's part.
Woken == [c \in Caller |-> IF at[c] = "waiting" THEN "ready" ELSE at[c]]

\* Mutant of WokenWorker: the worker is not notified.
WorkerNotWoken == worker

WokenWorker == IF worker = "waiting" THEN "ready" ELSE worker

Return(c) == at' = [at EXCEPT ![c] = "idle"]

WaitHere(c) == at' = [at EXCEPT ![c] = "waiting"]

NotifyAndReturn(c) == at' = [Woken EXCEPT ![c] = "idle"] /\ worker' = WokenWorker

\* The thread holds the mutex and looks at its predicate, on entry or when it
\* was woken.
Looks(c, name) == call[c] = name /\ at[c] \in {"enter", "ready"}

\* A caller starts a call; the mutex is not yet taken.
Start(c) ==
    /\ at[c] = "idle"
    /\ \E name \in Calls :
          /\ name = "put" => writes < MaxWrites
          /\ writes' = IF name = "put" THEN writes + 1 ELSE writes
          /\ call' = [call EXCEPT ![c] = name]
    /\ at' = [at EXCEPT ![c] = "enter"]
    /\ UNCHANGED <<state, workerVars, close_status, engine, status, lock, failures>>

\* A condition variable may return from a wait without a notification.
SpuriousWakeup ==
    /\ \/ \E c \in Caller :
             /\ at[c] \in {"waiting", "lifecycle"}
             /\ at' = [at EXCEPT ![c] = "ready"]
             /\ UNCHANGED worker
       \/ worker = "waiting" /\ worker' = "ready" /\ UNCHANGED at
    /\ UNCHANGED <<state, stop_background, requested, running, background_status,
                   close_status, engine, status, lock, call, writes, failures>>

\* IsRunningLocked() is false on entry: the call returns Closed.
ReturnClosed(c) ==
    /\ at[c] = "enter" /\ call[c] # "close" /\ state # "running"
    /\ Return(c)
    /\ UNCHANGED <<state, workerVars, close_status, engine, status, lock, call, writes,
                   failures>>

------------------------------------------------------------------------------
(* Write *)

\* The writer waits for the Immutable slot.
MustWait ==
    /\ engine.immutable # "none" /\ engine.mutable >= MemTableLimit
    /\ background_status /\ state = "running"

\* status_ is looked at on entry only.
WriteEnters(c) == Looks(c, "put") /\ (at[c] = "enter" => state = "running" /\ status)

WriteAccepted == state = "running" /\ background_status /\ engine.wal

WriteWaits(c) ==
    /\ WriteEnters(c) /\ MustWait
    /\ WaitHere(c)
    /\ UNCHANGED <<state, workerVars, close_status, engine, status, lock, call, writes,
                   failures>>

WriteRefused(c) ==
    /\ \/ Looks(c, "put") /\ at[c] = "enter" /\ state = "running" /\ ~status
       \/ WriteEnters(c) /\ ~MustWait /\ ~WriteAccepted
    /\ Return(c)
    /\ UNCHANGED <<state, workerVars, close_status, engine, status, lock, call, writes,
                   failures>>

\* The engine after the record is in the WAL and in the Mutable.
Appended(e) ==
    [e EXCEPT !.mutable = @ + 1,
              !.number = IF e.compaction \in {"prepared", "ready"} /\ @ = "free"
                         THEN "shared" ELSE @]

\* A write that fills the Mutable freezes it when the slot is free, and asks
\* for background work whether or not the next WAL could be opened.
Write(c) ==
    /\ WriteEnters(c) /\ ~MustWait /\ WriteAccepted
    /\ IF engine.mutable + 1 >= MemTableLimit /\ engine.immutable = "none"
       THEN \E r \in Then(FreezeMutable(Appended(engine)), OpenMutableWal) :
               /\ Outcome(r)
               /\ background_status' = r.ok
               /\ requested' = TRUE
               /\ NotifyAndReturn(c)
       ELSE /\ engine' = Appended(engine)
            /\ Return(c)
            /\ UNCHANGED <<background_status, requested, worker, failures>>
    /\ UNCHANGED <<state, stop_background, running, close_status, status, lock, call, writes>>

\* WalWriter::Append fails.
WriteFails(c) ==
    /\ WriteEnters(c) /\ ~MustWait /\ WriteAccepted
    /\ failures < MaxFailures
    /\ failures' = failures + 1
    /\ status' = FALSE
    /\ Return(c)
    /\ UNCHANGED <<state, workerVars, close_status, engine, lock, call, writes>>

------------------------------------------------------------------------------
(* Flush, Compact, WaitForBackgroundWork *)

Maintains(c) == Looks(c, "flush") \/ Looks(c, "compact")

\* Mutant of MaintenanceWaits: Flush and Compact do not wait for the worker.
NeverWaits == FALSE

\* The predicate of the wait in Flush and Compact is false.
MaintenanceWaits == running

\* The state is looked at on entry only, not after the wait.
EntersMaintenance(c) == Maintains(c) /\ (at[c] = "enter" => state = "running")

MaintenanceWait(c) ==
    /\ EntersMaintenance(c) /\ MaintenanceWaits
    /\ WaitHere(c)
    /\ UNCHANGED <<state, workerVars, close_status, engine, status, lock, call, writes,
                   failures>>

ForegroundWork(c) ==
    IF ~status THEN {Refused(engine)}
    ELSE IF call[c] = "flush" THEN FlushLocked(engine) ELSE CompactLocked(engine)

\* Flush and Compact: Ok ends the pause a background error made, and waiting
\* threads are woken in any case.
Maintain(c) ==
    /\ EntersMaintenance(c) /\ ~MaintenanceWaits
    /\ \E r \in ForegroundWork(c) :
          /\ Outcome(r)
          /\ background_status' = (r.ok \/ background_status)
    /\ NotifyAndReturn(c)
    /\ UNCHANGED <<state, stop_background, requested, running, close_status, status, lock,
                   call, writes>>

WaitForBackgroundWork(c) ==
    /\ Looks(c, "wait") /\ (at[c] = "enter" => state = "running")
    /\ IF requested \/ running THEN WaitHere(c) ELSE Return(c)
    /\ UNCHANGED <<state, workerVars, close_status, engine, status, lock, call, writes,
                   failures>>

------------------------------------------------------------------------------
(* Close *)

\* The first Close stops the worker and joins it without the mutex, ...
CloseFirst(c) ==
    /\ Looks(c, "close") /\ state = "running"
    /\ state' = "closing"
    /\ stop_background' = TRUE
    /\ at' = [Woken EXCEPT ![c] = "join"]
    /\ worker' = WokenWorker
    /\ UNCHANGED <<requested, running, background_status, close_status, engine, status, lock,
                   call, writes, failures>>

\* ... another one waits on lifecycle_cv_ until it is done, ...
CloseAgain(c) ==
    /\ Looks(c, "close") /\ state # "running"
    /\ IF state = "closed" THEN Return(c) ELSE at' = [at EXCEPT ![c] = "lifecycle"]
    /\ UNCHANGED <<state, workerVars, close_status, engine, status, lock, call, writes,
                   failures>>

\* Both condition variables are notified.
AfterClose == [c \in Caller |-> IF at[c] = "lifecycle" THEN "ready" ELSE Woken[c]]

\* ... and the first finishes maintenance, releases WAL and lock whatever came
\* of it, and wakes everyone.
CloseFinish(c) ==
    /\ at[c] = "join" /\ worker = "exited"
    /\ \E r \in CloseWork(engine) :
          /\ failures + r.failed <= MaxFailures
          /\ failures' = failures + r.failed
          /\ engine' = [r.engine EXCEPT !.wal = FALSE]
          /\ close_status' = IF r.ok THEN "ok" ELSE "error"
    /\ lock' = "nobody"
    /\ state' = "closed"
    /\ requested' = FALSE /\ running' = FALSE
    /\ at' = [AfterClose EXCEPT ![c] = "idle"]
    /\ UNCHANGED <<stop_background, background_status, worker, status, call, writes>>

\* DatabaseLock::Acquire in another Database on the directory.
OtherOpens ==
    /\ lock = "nobody"
    /\ lock' = "other"
    /\ UNCHANGED <<state, workerVars, close_status, engine, status, at, call, writes, failures>>

------------------------------------------------------------------------------
(* BackgroundLoop *)

\* The worker has the mutex and finds nothing to do, or must stop.
WorkerLooks ==
    /\ worker = "ready" /\ (stop_background \/ ~requested)
    /\ worker' = IF stop_background THEN "exited" ELSE "waiting"
    /\ UNCHANGED <<state, stop_background, requested, running, background_status,
                   close_status, engine, status, lock, at, call, writes, failures>>

\* Mutant of AfterWork: the end of the work is not notified.
AfterWorkSilent == at

\* The callers after the notification at the end of the work.
AfterWork == Woken

\* Mutant of FinishWork: background_work_running_ stays set.
FinishWorkStillRunning(r, more) ==
    /\ Outcome(r)
    /\ background_status' = r.ok
    /\ UNCHANGED running
    /\ at' = AfterWork
    /\ worker' = IF stop_background THEN "exited"
                 ELSE IF more THEN "ready" ELSE "waiting"

\* Mutant of FinishWork: an error is not kept in background_status_.
FinishWorkForgets(r, more) ==
    /\ Outcome(r)
    /\ running' = FALSE
    /\ at' = AfterWork
    /\ worker' = IF stop_background THEN "exited"
                 ELSE IF more THEN "ready" ELSE "waiting"
    /\ UNCHANGED background_status

\* The end of the loop's body, and the predicate of the next wait; `more` is
\* whether work is requested.
FinishWork(r, more) ==
    /\ Outcome(r)
    /\ background_status' = r.ok
    /\ running' = FALSE
    /\ at' = AfterWork
    /\ worker' = IF stop_background THEN "exited"
                 ELSE IF more THEN "ready" ELSE "waiting"

\* It takes a request.  A table not yet built is built without the mutex, and
\* the other threads go on.
WorkerTakes ==
    /\ worker = "ready" /\ ~stop_background /\ requested
    /\ requested' = FALSE
    /\ IF engine.immutable = "frozen"
       THEN /\ running' = TRUE
            /\ worker' = "publishing"
            /\ UNCHANGED <<background_status, engine, at, failures>>
       ELSE \E r \in RunBackgroundWork(engine) : FinishWork(r, FALSE)
    /\ UNCHANGED <<state, stop_background, close_status, status, lock, call, writes>>

\* It has the mutex again, the table built or not.
WorkerResumes ==
    /\ worker = "publishing"
    /\ \E r \in RunBackgroundWork(engine) : FinishWork(r, requested)
    /\ UNCHANGED <<state, stop_background, requested, close_status, status, lock, call, writes>>

------------------------------------------------------------------------------
(* The specification *)

\* StartBackgroundWorker after Open; recovery may have found an Immutable WAL.
Init ==
    /\ state = "running"
    /\ stop_background = FALSE /\ running = FALSE /\ background_status = TRUE
    /\ close_status = "none"
    /\ \E found \in {"none", "frozen"} :
          engine = [mutable |-> 0, wal |-> TRUE, immutable |-> found, level_zero |-> 0,
                    compaction |-> "none", outputs |-> FALSE, kept |-> 0,
                    number |-> "free", readers |-> "agree"]
    /\ requested = (engine.immutable # "none")
    /\ status = TRUE
    /\ lock = "us"
    /\ worker = "ready"
    /\ at = [c \in Caller |-> "idle"]
    /\ call = [c \in Caller |-> "put"]
    /\ writes = 0 /\ failures = 0

\* The steps of a call, from taking the mutex on.
Step(c) ==
    \/ ReturnClosed(c)
    \/ WriteWaits(c) \/ WriteRefused(c) \/ Write(c) \/ WriteFails(c)
    \/ MaintenanceWait(c) \/ Maintain(c)
    \/ WaitForBackgroundWork(c)
    \/ CloseFirst(c) \/ CloseAgain(c) \/ CloseFinish(c)

WorkerStep == WorkerLooks \/ WorkerTakes \/ WorkerResumes

Next ==
    \/ \E c \in Caller : Start(c) \/ Step(c)
    \/ WorkerStep \/ SpuriousWakeup \/ OtherOpens

\* Every thread that can take the mutex gets it in the end, and PublishTable
\* returns; nothing makes a caller call, or a thread wake spuriously.
Fairness ==
    /\ \A c \in Caller : WF_vars(Step(c))
    /\ WF_vars(WorkerStep)

Spec == Init /\ [][Next]_vars /\ Fairness

------------------------------------------------------------------------------
(* Properties *)

\* Every variable has its type; the flags agree with where the worker is and
\* how far Close has got.
TypeOK ==
    /\ state \in {"running", "closing", "closed"}
    /\ stop_background \in BOOLEAN /\ requested \in BOOLEAN /\ running \in BOOLEAN
    /\ background_status \in BOOLEAN /\ status \in BOOLEAN
    /\ close_status \in {"none", "ok", "error"}
    /\ engine \in Engine
    /\ lock \in {"us", "nobody", "other"}
    /\ worker \in {"ready", "waiting", "publishing", "exited"}
    /\ at \in [Caller -> {"idle", "enter", "waiting", "ready", "join", "lifecycle"}]
    /\ call \in [Caller -> {"put", "flush", "compact", "wait", "close"}]
    /\ writes \in 0 .. MaxWrites /\ failures \in 0 .. MaxFailures
    /\ running = (worker = "publishing")
    /\ stop_background = (state # "running")
    /\ state = "closed" => worker = "exited"

\* While the worker reads the Immutable without the mutex nobody else flushes,
\* replaces or frees it, and the directory is still locked: the check "Immutable
\* generation changed during background Flush" never fires.
PublishingAlone ==
    worker = "publishing" => engine.immutable = "frozen" /\ running /\ lock = "us"

\* A Close that reports Ok leaves nothing to flush or to finish, whatever
\* writers and maintenance were waiting when it began and went on after it.
CloseComplete ==
    close_status = "ok" =>
        /\ engine.mutable = 0 /\ engine.immutable = "none" /\ engine.compaction = "none"

\* There is an Immutable that a full Mutable will have to wait for, nobody is
\* asked to flush it, and no error is there to turn writers away.
Abandoned ==
    /\ state = "running" /\ background_status /\ engine.wal
    /\ engine.immutable # "none"
    /\ ~requested /\ ~running

\* The step clears an error because a pending compaction went through.
ClearedByCompaction ==
    /\ ~background_status /\ background_status'
    /\ engine.compaction # "none" /\ engine'.compaction = "none"

\* An Immutable always has someone asked to flush it, or an error that stops
\* writers until a Flush succeeds: recovery, rotation, failing work, failing
\* calls and Close never leave it alone.  Only a resumed compaction does, whose
\* Ok clears the error of the flush too.
FlushIsDue ==
    /\ ~Abandoned
    /\ [][Abandoned' => Abandoned \/ ClearedByCompaction]_vars

\* Every write returns: none waits for the Immutable slot for ever.
WritesReturn == \A c \in Caller : []<>(at[c] = "idle" \/ call[c] # "put")

\* Every call returns: no Flush, Compact, WaitForBackgroundWork or Close waits
\* for ever for a notification that was lost or never sent, and no write does
\* unless an Immutable stays abandoned.
CallsReturn ==
    /\ \A c \in Caller : []<>(at[c] = "idle" \/ call[c] = "put")
    /\ []<>~Abandoned => WritesReturn

\* A request for background work is taken by the worker or dropped by Close.
RequestsServed == []<>~requested

\* Files of the Immutable and of the compaction change only while this
\* process holds the lock on the directory.
DirectoryOwned ==
    [][(engine'.immutable # engine.immutable \/ engine'.compaction # engine.compaction)
          => lock = "us"]_vars
==============================================================================
