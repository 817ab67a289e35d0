------------------------------ MODULE AuditQueue ------------------------------
(***************************************************************************)
(* The agent's audit queue (platform/agent/audit_queue.go): goroutines that *)
(* log, worker goroutines that write to Postgres with retries, the metrics *)
(* batcher, the JSONL fallback file, shutdown on a signal while the HTTP   *)
(* server keeps serving, crashes, and recovery from the file at startup.   *)
(*                                                                         *)
(* The file is the set of entries at fallbackPath; the descriptor the queue *)
(* opened may outlive it (os.Rename), so what is written to a file that no *)
(* longer has a name is kept apart.                                        *)
(***************************************************************************)
EXTENDS Integers, Sequences, SequencesExt

CONSTANTS
    Callers,       \* goroutines that log
    Workers,       \* worker goroutines
    Entries,       \* audit entries; each is logged at most once
    NoEntry,
    Metrics,       \* entries logged with LogMetric
    Critical,      \* entries that compliance mode writes synchronously
    Unscoped,      \* entries without OrgID: writeToDBSync refuses them
    Unique,        \* entries whose table has a unique id: no second insert
    Compliance,    \* TRUE in compliance mode
    QueueSize, MetricsSize, BatchSize,
    ExecAttempts,  \* maxRetries of execWithRetry
    WorkerRounds,  \* rounds of a worker's retry loop
    MaxOutages, MaxLostAcks, MaxDiskFaults, MaxCrashes, MaxRestarts  \* bounds on what goes wrong

ASSUME EntriesAssumption ==
    /\ NoEntry \notin Entries
    /\ Metrics \subseteq Entries /\ Critical \subseteq Entries \ Metrics
    /\ Unscoped \subseteq Entries /\ Unique \subseteq Entries \ Metrics
\* The agent starts three workers (initAuditManager); without one, a shutdown
\* would not wait for the queue.
ASSUME WorkersAssumption == Workers # {}
ASSUME SizesAssumption ==
    /\ Compliance \in BOOLEAN
    /\ {QueueSize, MetricsSize} \subseteq Nat
    /\ {BatchSize, ExecAttempts, WorkerRounds} \subseteq Nat \ {0}
    /\ {MaxOutages, MaxLostAcks, MaxDiskFaults, MaxCrashes, MaxRestarts} \subseteq Nat

VARIABLES
    life,      \* the process: see Lives
    closed,    \* aq.closed
    queue,     \* aq.queue: its buffer and whether it is closed
    metrics,   \* aq.metricsBatch: its buffer and whether it is closed
    caller,    \* the Log* call each goroutine is in
    worker,    \* the entry each worker has in hand and its failed attempts
    batcher,   \* the metrics batcher and its batch
    recovery,  \* RecoverFromFallback: entries to replay, entries that failed
    disk,      \* entries in the file at fallbackPath
    orphan,    \* entries written to a descriptor whose file has no name
    renamed,   \* aq.fallbackFile is such a descriptor
    replaced,  \* history: a recovery has renamed another file over an open one
    db,        \* rows stored per entry
    dbUp,      \* the database answers
    logged,    \* entries handed to a Log* method
    accepted,  \* history: entries a Log* method returned nil for
    lost,      \* history: entries in memory when the process died, or whose
               \* write to the file failed
    tally      \* outages, lost acknowledgements, disk faults, crashes, restarts so far

memory == <<closed, queue, metrics, caller, worker, batcher, recovery>>
files == <<disk, orphan, renamed, replaced>>
vars == <<life, memory, files, db, dbUp, logged, accepted, lost, tally>>

-----------------------------------------------------------------------------
Lives == {"starting", "running", "marked", "queueClosed", "draining", "exited", "dead"}
Alive == life \notin {"exited", "dead"}
Serving == life \in {"running", "marked", "queueClosed", "draining"}

OpenChannel == [buf |-> <<>>, open |-> TRUE]
IdleTask == [pc |-> "idle", entry |-> NoEntry, tries |-> 0]
IdleBatcher == [pc |-> "collect", batch |-> <<>>, tries |-> 0]
NoRecovery == [pc |-> "scan", entry |-> NoEntry, tries |-> 0, todo |-> {}, failed |-> {}]

Stored == {e \in Entries : db[e] > 0}
InQueue == Range(queue.buf)
InHand == {worker[w].entry : w \in Workers} \ {NoEntry}

\* writeToDBSync's scope check, or a unique id that is already there.
Refused(e) == e \in Unscoped \/ (e \in Unique /\ db[e] > 0)

\* Attempts before writeToDBSync gives up: the scope check is not retried.
GivesUp(e, tries) == e \in Unscoped \/ tries + 1 >= ExecAttempts

\* One db.Exec: ok tells the caller whether it succeeded.  An acknowledgement
\* may be lost after the row was committed.
Exec(e, ok) ==
    \/ /\ dbUp /\ ~Refused(e) /\ ok
       /\ db' = [db EXCEPT ![e] = @ + 1]
       /\ UNCHANGED tally
    \/ /\ ~dbUp \/ Refused(e)
       /\ ~ok
       /\ UNCHANGED <<db, tally>>
    \/ /\ dbUp /\ ~Refused(e) /\ ~ok
       /\ tally.lostAcks < MaxLostAcks
       /\ db' = [db EXCEPT ![e] = @ + 1]
       /\ tally' = [tally EXCEPT !.lostAcks = @ + 1]

\* writeToFallback, under aq.mu: an append through the descriptor and a sync.
Append2Fallback(e) ==
    /\ IF renamed THEN orphan' = orphan \cup {e} /\ UNCHANGED disk
       ELSE disk' = disk \cup {e} /\ UNCHANGED orphan
    /\ UNCHANGED <<renamed, replaced>>

-----------------------------------------------------------------------------
(* Log* calls.                                                             *)

SetCaller(c, pc, e, tries) == caller' = [caller EXCEPT ![c] = [pc |-> pc, entry |-> e, tries |-> tries]]

\* The call returned nil.
Accept(c) ==
    /\ SetCaller(c, "idle", NoEntry, 0)
    /\ accepted' = accepted \cup {caller[c].entry}

\* Mutant: metrics take the way of the other entries.
EntryPointUniform(e) == IF Compliance /\ e \in Critical THEN "sync" ELSE "check"

\* Which Log* method the entry goes to, and what the mode makes of it.
EntryPoint(e) ==
    IF e \in Metrics THEN "metric"
    ELSE IF Compliance /\ e \in Critical THEN "sync" ELSE "check"

Log(c) ==
    /\ Serving /\ caller[c].pc = "idle"
    /\ \E e \in Entries \ logged :
         /\ SetCaller(c, EntryPoint(e), e, 0)
         /\ logged' = logged \cup {e}
    /\ UNCHANGED <<life, closed, queue, metrics, worker, batcher, recovery, files, db, dbUp,
                   accepted, lost, tally>>

\* LogViolation and its siblings in compliance mode: the error goes to the caller.
LogSync(c) ==
    LET e == caller[c].entry IN
    /\ Alive /\ caller[c].pc = "sync"
    /\ \/ Exec(e, TRUE) /\ Accept(c)
       \/ /\ Exec(e, FALSE) /\ UNCHANGED accepted
          /\ IF GivesUp(e, caller[c].tries) THEN SetCaller(c, "idle", NoEntry, 0)
             ELSE SetCaller(c, "sync", e, caller[c].tries + 1)
    /\ UNCHANGED <<life, closed, queue, metrics, worker, batcher, recovery, files, dbUp,
                   logged, lost>>

\* LogMetric: a full channel drops the metric; a closed one panics.
LogMetric(c) ==
    /\ Alive /\ caller[c].pc = "metric"
    /\ \/ ~metrics.open /\ SetCaller(c, "panic", NoEntry, 0) /\ UNCHANGED <<metrics, accepted>>
       \/ /\ metrics.open /\ Len(metrics.buf) < MetricsSize
          /\ metrics' = [metrics EXCEPT !.buf = Append(@, caller[c].entry)]
          /\ Accept(c)
       \/ /\ metrics.open /\ Len(metrics.buf) >= MetricsSize
          /\ Accept(c) /\ UNCHANGED metrics
    /\ UNCHANGED <<life, closed, queue, worker, batcher, recovery, files, db, dbUp, logged,
                   lost, tally>>

\* queueEntry: the check of aq.closed ...
CheckClosed(c) ==
    /\ Alive /\ caller[c].pc = "check"
    /\ SetCaller(c, IF closed THEN "fallback" ELSE "send", caller[c].entry, 0)
    /\ UNCHANGED <<life, closed, queue, metrics, worker, batcher, recovery, files, db, dbUp,
                   logged, accepted, lost, tally>>

\* Mutant: a full queue drops the entry, as it does a metric.
OverflowDropped(c) == Accept(c)

\* default: the queue is full.
Overflow(c) == SetCaller(c, "fallback", caller[c].entry, 0) /\ UNCHANGED accepted

\* ... and the send, which panics if Shutdown closed the channel in between.
Send(c) ==
    /\ Alive /\ caller[c].pc = "send"
    /\ \/ ~queue.open /\ SetCaller(c, "panic", NoEntry, 0) /\ UNCHANGED <<queue, accepted>>
       \/ /\ queue.open /\ Len(queue.buf) < QueueSize
          /\ queue' = [queue EXCEPT !.buf = Append(@, caller[c].entry)]
          /\ Accept(c)
       \/ queue.open /\ Len(queue.buf) >= QueueSize /\ Overflow(c) /\ UNCHANGED queue
    /\ UNCHANGED <<life, closed, metrics, worker, batcher, recovery, files, db, dbUp, logged,
                   lost, tally>>

WriteToFallback(c) ==
    /\ Alive /\ caller[c].pc = "fallback"
    /\ Append2Fallback(caller[c].entry)
    /\ Accept(c)
    /\ UNCHANGED <<life, closed, queue, metrics, worker, batcher, recovery, db, dbUp, logged,
                   lost, tally>>

-----------------------------------------------------------------------------
(* Worker goroutines.                                                      *)

SetWorker(w, pc, e, tries) == worker' = [worker EXCEPT ![w] = [pc |-> pc, entry |-> e, tries |-> tries]]

\* for entry := range aq.queue
Receive(w) ==
    /\ Alive /\ worker[w].pc = "idle"
    /\ \/ /\ queue.buf # <<>>
          /\ SetWorker(w, "write", Head(queue.buf), 0)
          /\ queue' = [queue EXCEPT !.buf = Tail(@)]
       \/ /\ queue.buf = <<>> /\ ~queue.open
          /\ SetWorker(w, "exit", NoEntry, 0) /\ UNCHANGED queue
    /\ UNCHANGED <<life, closed, metrics, caller, batcher, recovery, files, db, dbUp, logged,
                   accepted, lost, tally>>

\* Mutant: after the last retry the worker takes the next entry.
AfterLastRetryDropped(w) == SetWorker(w, "idle", NoEntry, 0)

AfterLastRetry(w) == SetWorker(w, "fallback", worker[w].entry, 0)

\* Each round of the worker's loop is a writeToDBSync of its own.
LastRetry(e, tries) ==
    tries + 1 >= (IF e \in Unscoped THEN WorkerRounds ELSE WorkerRounds * ExecAttempts)

WorkerWrite(w) ==
    LET e == worker[w].entry IN
    /\ Alive /\ worker[w].pc = "write"
    /\ \/ Exec(e, TRUE) /\ SetWorker(w, "idle", NoEntry, 0)
       \/ /\ Exec(e, FALSE)
          /\ IF LastRetry(e, worker[w].tries) THEN AfterLastRetry(w)
             ELSE SetWorker(w, "write", e, worker[w].tries + 1)
    /\ UNCHANGED <<life, closed, queue, metrics, caller, batcher, recovery, files, dbUp, logged,
                   accepted, lost>>

WorkerFallback(w) ==
    /\ Alive /\ worker[w].pc = "fallback"
    /\ Append2Fallback(worker[w].entry)
    /\ SetWorker(w, "idle", NoEntry, 0)
    /\ UNCHANGED <<life, closed, queue, metrics, caller, batcher, recovery, db, dbUp, logged,
                   accepted, lost, tally>>

-----------------------------------------------------------------------------
(* metricsBatcher.                                                         *)

BatchMetric ==
    /\ Alive /\ batcher.pc = "collect" /\ metrics.buf # <<>>
    /\ LET batch == Append(batcher.batch, Head(metrics.buf)) IN
       batcher' = [batcher EXCEPT !.batch = batch,
                                  !.pc = IF Len(batch) >= BatchSize THEN "flush" ELSE "collect"]
    /\ metrics' = [metrics EXCEPT !.buf = Tail(@)]
    /\ UNCHANGED <<life, closed, queue, caller, worker, recovery, files, db, dbUp, logged,
                   accepted, lost, tally>>

\* The ticker fires, or the channel is closed and drained.
StartFlush ==
    /\ Alive /\ batcher.pc = "collect"
    /\ \/ batcher.batch # <<>> /\ batcher' = [batcher EXCEPT !.pc = "flush"]
       \/ /\ ~metrics.open /\ metrics.buf = <<>> /\ batcher.batch = <<>>
          /\ batcher' = [batcher EXCEPT !.pc = "exit"]
    /\ UNCHANGED <<life, closed, queue, metrics, caller, worker, recovery, files, db, dbUp,
                   logged, accepted, lost, tally>>

\* flushMetricsBatch: one upsert per metric, with its retries; one that fails
\* is logged and lost.
FlushMetric ==
    LET e == Head(batcher.batch)
        next == [pc |-> IF Len(batcher.batch) = 1 THEN "collect" ELSE "flush",
                 batch |-> Tail(batcher.batch), tries |-> 0]
    IN
    /\ Alive /\ batcher.pc = "flush"
    /\ \/ Exec(e, TRUE) /\ batcher' = next
       \/ /\ Exec(e, FALSE)
          /\ batcher' = IF GivesUp(e, batcher.tries) THEN next ELSE [batcher EXCEPT !.tries = @ + 1]
    /\ UNCHANGED <<life, closed, queue, metrics, caller, worker, recovery, files, dbUp, logged,
                   accepted, lost>>

-----------------------------------------------------------------------------
(* Shutdown: a deferred call of run.go; the HTTP server is not stopped.    *)

MarkClosed ==
    /\ life = "running"
    /\ life' = "marked" /\ closed' = TRUE
    /\ UNCHANGED <<queue, metrics, caller, worker, batcher, recovery, files, db, dbUp, logged,
                   accepted, lost, tally>>

CloseQueue ==
    /\ life = "marked"
    /\ life' = "queueClosed" /\ queue' = [queue EXCEPT !.open = FALSE]
    /\ UNCHANGED <<closed, metrics, caller, worker, batcher, recovery, files, db, dbUp, logged,
                   accepted, lost, tally>>

\* Mutant: the metrics channel stays open.
CloseMetricsForgotten ==
    /\ life = "queueClosed"
    /\ life' = "draining"
    /\ UNCHANGED <<memory, files, db, dbUp, logged, accepted, lost, tally>>

CloseMetrics ==
    /\ life = "queueClosed"
    /\ life' = "draining" /\ metrics' = [metrics EXCEPT !.open = FALSE]
    /\ UNCHANGED <<closed, queue, caller, worker, batcher, recovery, files, db, dbUp, logged,
                   accepted, lost, tally>>

\* aq.wg.Wait() returned and the process ends; calls in flight end with it.
Exit ==
    /\ life = "draining"
    /\ \A w \in Workers : worker[w].pc = "exit"
    /\ batcher.pc = "exit"
    /\ life' = "exited"
    /\ UNCHANGED <<memory, files, db, dbUp, logged, accepted, lost, tally>>

Crash ==
    /\ Alive /\ tally.crashes < MaxCrashes
    /\ life' = "dead"
    /\ lost' = lost \cup InQueue \cup InHand
    /\ tally' = [tally EXCEPT !.crashes = @ + 1]
    /\ UNCHANGED <<memory, files, db, dbUp, logged, accepted>>

-----------------------------------------------------------------------------
(* Startup: NewAuditQueue, then RecoverFromFallback before any route is     *)
(* registered.                                                             *)

FreshMemory ==
    /\ closed' = FALSE
    /\ queue' = OpenChannel /\ metrics' = OpenChannel
    /\ caller' = [c \in Callers |-> IdleTask]
    /\ worker' = [w \in Workers |-> IdleTask]
    /\ batcher' = IdleBatcher
    /\ recovery' = NoRecovery

NewAuditQueue ==
    /\ life \in {"exited", "dead"} /\ tally.restarts < MaxRestarts
    /\ life' = "starting"
    /\ FreshMemory
    /\ renamed' = FALSE
    /\ tally' = [tally EXCEPT !.restarts = @ + 1]
    /\ UNCHANGED <<disk, orphan, replaced, db, dbUp, logged, accepted, lost>>

ReadFallback ==
    /\ life = "starting" /\ recovery.pc = "scan"
    /\ IF disk = {} THEN life' = "running" /\ UNCHANGED recovery
       ELSE /\ recovery' = [NoRecovery EXCEPT !.pc = "replay", !.todo = disk]
            /\ UNCHANGED life
    /\ UNCHANGED <<closed, queue, metrics, caller, worker, batcher, files, db, dbUp, logged,
                   accepted, lost, tally>>

\* One attempt of writeToDBSync for the entry in hand, or for the next one.
Replay ==
    /\ life = "starting" /\ recovery.pc = "replay"
    /\ \E e \in IF recovery.entry = NoEntry THEN recovery.todo ELSE {recovery.entry} :
         \/ /\ Exec(e, TRUE)
            /\ recovery' = [recovery EXCEPT !.entry = NoEntry, !.tries = 0, !.todo = @ \ {e}]
         \/ /\ Exec(e, FALSE)
            /\ recovery' = IF GivesUp(e, recovery.tries)
                           THEN [recovery EXCEPT !.entry = NoEntry, !.tries = 0,
                                                 !.todo = @ \ {e}, !.failed = @ \cup {e}]
                           ELSE [recovery EXCEPT !.entry = e, !.tries = @ + 1]
    /\ UNCHANGED <<life, closed, queue, metrics, caller, worker, batcher, files, dbUp, logged,
                   accepted, lost>>

\* Mutant: the file is emptied although entries are still to be stored.
RewrittenTruncated(failed) == {}

\* Mutant: the file is left as it is when every entry was recovered.
RewrittenKept(failed) == IF failed = {} THEN disk ELSE failed

\* os.Truncate when every entry was recovered; otherwise the failed entries are
\* written to a temporary file that takes the name of the fallback file.
Rewritten(failed) == failed

RewriteFallback ==
    /\ life = "starting" /\ recovery.pc = "replay" /\ recovery.todo = {}
    /\ disk' = Rewritten(recovery.failed)
    /\ renamed' = (recovery.failed # {})
    /\ replaced' = (replaced \/ recovery.failed # {})
    /\ life' = "running" /\ recovery' = [NoRecovery EXCEPT !.pc = "done"]
    /\ UNCHANGED <<closed, queue, metrics, caller, worker, batcher, orphan, db, dbUp, logged,
                   accepted, lost, tally>>

-----------------------------------------------------------------------------
(* The disk: the caller gets the error, a worker logs it, a recovery that   *)
(* cannot read the file gives up.  A failure to truncate the file, or to   *)
(* create or rename the temporary one, leaves the file alone; one to write *)
(* the temporary file is ignored and the rename goes on.                   *)

DiskFault == tally.diskFaults < MaxDiskFaults /\ tally' = [tally EXCEPT !.diskFaults = @ + 1]

WriteToFallbackFails(c) ==
    /\ Alive /\ caller[c].pc = "fallback" /\ DiskFault
    /\ SetCaller(c, "idle", NoEntry, 0)
    /\ UNCHANGED <<life, closed, queue, metrics, worker, batcher, recovery, files, db, dbUp,
                   logged, accepted, lost>>

WorkerFallbackFails(w) ==
    /\ Alive /\ worker[w].pc = "fallback" /\ DiskFault
    /\ lost' = lost \cup {worker[w].entry}
    /\ SetWorker(w, "idle", NoEntry, 0)
    /\ UNCHANGED <<life, closed, queue, metrics, caller, batcher, recovery, files, db, dbUp,
                   logged, accepted>>

\* The file cannot be opened, or has a line too long for the scanner: the agent starts
\* without having replayed anything.
ReadFallbackFails ==
    /\ life = "starting" /\ recovery.pc = "scan" /\ disk # {} /\ DiskFault
    /\ life' = "running" /\ recovery' = [NoRecovery EXCEPT !.pc = "done"]
    /\ UNCHANGED <<closed, queue, metrics, caller, worker, batcher, files, db, dbUp, logged,
                   accepted, lost>>

RewriteFails ==
    /\ life = "starting" /\ recovery.pc = "replay" /\ recovery.todo = {}
    /\ DiskFault
    /\ \/ UNCHANGED <<files, lost>>
       \/ \E written \in SUBSET recovery.failed :
             /\ recovery.failed # {}
             /\ disk' = written /\ renamed' = TRUE /\ replaced' = TRUE
             /\ lost' = lost \cup (recovery.failed \ written)
             /\ UNCHANGED orphan
    /\ life' = "running" /\ recovery' = [NoRecovery EXCEPT !.pc = "done"]
    /\ UNCHANGED <<closed, queue, metrics, caller, worker, batcher, db, dbUp, logged, accepted>>

-----------------------------------------------------------------------------
(* The database.                                                           *)

Outage ==
    /\ dbUp /\ tally.outages < MaxOutages
    /\ dbUp' = FALSE /\ tally' = [tally EXCEPT !.outages = @ + 1]
    /\ UNCHANGED <<life, memory, files, db, logged, accepted, lost>>

Repair ==
    /\ ~dbUp /\ dbUp' = TRUE
    /\ UNCHANGED <<life, memory, files, db, logged, accepted, lost, tally>>

-----------------------------------------------------------------------------
Init ==
    /\ life = "starting" /\ closed = FALSE
    /\ queue = OpenChannel /\ metrics = OpenChannel
    /\ caller = [c \in Callers |-> IdleTask]
    /\ worker = [w \in Workers |-> IdleTask]
    /\ batcher = IdleBatcher /\ recovery = NoRecovery
    /\ disk = {} /\ orphan = {} /\ renamed = FALSE /\ replaced = FALSE
    /\ db = [e \in Entries |-> 0] /\ dbUp = TRUE
    /\ logged = {} /\ accepted = {} /\ lost = {}
    /\ tally = [outages |-> 0, lostAcks |-> 0, diskFaults |-> 0, crashes |-> 0, restarts |-> 0]

Logging(c) == LogSync(c) \/ LogMetric(c) \/ CheckClosed(c) \/ Send(c) \/ WriteToFallback(c)
Working(w) == Receive(w) \/ WorkerWrite(w) \/ WorkerFallback(w)
DiskFails == ReadFallbackFails \/ RewriteFails \/ (\E c \in Callers : WriteToFallbackFails(c))
                \/ (\E w \in Workers : WorkerFallbackFails(w))
Batching == BatchMetric \/ StartFlush \/ FlushMetric
Shutdown == CloseQueue \/ CloseMetrics \/ Exit
Recovering == ReadFallback \/ Replay \/ RewriteFallback

\* Nothing is left to happen.
Done ==
    /\ ~Alive /\ tally.restarts = MaxRestarts
    /\ UNCHANGED vars

Next ==
    \/ \E c \in Callers : Log(c) \/ Logging(c)
    \/ \E w \in Workers : Working(w)
    \/ Batching
    \/ MarkClosed \/ Shutdown \/ Crash
    \/ NewAuditQueue \/ Recovering
    \/ Outage \/ Repair \/ DiskFails
    \/ Done

Spec == Init /\ [][Next]_vars

\* Goroutines run; nobody has to log, to stop or to restart the process, and
\* the database need not come back: every retry loop is bounded.
FairSpec ==
    /\ Spec
    /\ \A w \in Workers : WF_vars(Working(w))
    /\ WF_vars(Batching) /\ WF_vars(Shutdown) /\ WF_vars(Recovering)
    /\ \A c \in Callers : WF_vars(Logging(c))

-----------------------------------------------------------------------------
(* Properties.                                                             *)

Tasks == [pc: {"idle", "check", "send", "fallback", "sync", "metric", "panic", "write", "exit"},
          entry: Entries \cup {NoEntry}, tries: Nat]

\* The queue, the tasks and the file keep their shape and their limits: the
\* channels never hold more than their buffers (make(chan, n)).
TypeOK ==
    /\ life \in Lives /\ closed \in BOOLEAN
    /\ queue \in [buf: Seq(Entries \ Metrics), open: BOOLEAN] /\ Len(queue.buf) =< QueueSize
    /\ metrics \in [buf: Seq(Metrics), open: BOOLEAN] /\ Len(metrics.buf) =< MetricsSize
    /\ caller \in [Callers -> Tasks] /\ worker \in [Workers -> Tasks]
    /\ batcher \in [pc: {"collect", "flush", "exit"}, batch: Seq(Metrics), tries: Nat]
    /\ recovery \in [pc: {"scan", "replay", "done"}, entry: Entries \cup {NoEntry}, tries: Nat,
                     todo: SUBSET Entries, failed: SUBSET Entries]
    /\ disk \subseteq Entries /\ orphan \subseteq Entries /\ {renamed, replaced} \subseteq BOOLEAN
    /\ db \in [Entries -> Nat] /\ dbUp \in BOOLEAN
    /\ logged \subseteq Entries /\ accepted \subseteq Entries /\ lost \subseteq Entries
    /\ tally \in [outages: Nat, lostAcks: Nat, diskFaults: Nat, crashes: Nat, restarts: Nat]

\* What was written through the descriptor of a file after a recovery had renamed another
\* one over it: no start reads it again.
Unreadable == IF replaced THEN orphan ELSE {}

\* An entry for which a Log* method returned nil is never dropped in silence: it
\* waits in the queue, a worker holds it, it is stored or written to the fallback file,
\* or a crash or a disk error took it.  In particular a clean shutdown drains
\* everything (queueEntry, worker, Shutdown).  Not promised are the unreadable entries,
\* which the rename of RecoverFromFallback does lose.
AcceptedIsAccounted ==
    (accepted \ Metrics) \ Unreadable
        \subseteq InQueue \cup InHand \cup Stored \cup disk \cup lost

\* After a clean shutdown every accepted entry is stored, or is in the file that the next
\* start replays, unless a crash or a disk error took it (Shutdown, NewAuditQueue), as
\* long as no recovery has replaced the file that the queue writes to.
RecoverableAfterExit ==
    life = "exited" /\ ~replaced => accepted \ Metrics \subseteq Stored \cup disk \cup lost

\* What reached the fallback file stays there until it is stored, unless the disk
\* itself fails, although the process may die between any two steps of the
\* recovery (RecoverFromFallback).
FallbackNeverForgets ==
    [][tally'.diskFaults = tally.diskFaults => disk \subseteq disk' \cup Stored']_vars

\* An entry is stored twice only if an acknowledgement was lost or the process
\* died: overflow, retries and replays alone never duplicate one.
StoredOnce ==
    (tally.lostAcks = 0 /\ tally.crashes = 0 /\ tally.diskFaults = 0) => \A e \in Entries : db[e] =< 1

\* Every accepted entry leaves the memory of the process, even if the database
\* never comes back (the bounded loops of worker and execWithRetry).
QueueDrains ==
    \A e \in Entries \ Metrics :
        e \in accepted ~> e \in Stored \cup disk \cup orphan \cup lost

\* A shutdown once begun ends, although Shutdown waits without a timeout, requests
\* keep logging and the database may stay down (wg.Wait over worker and
\* metricsBatcher).
ShutdownEnds == life = "marked" ~> ~Alive

=============================================================================
