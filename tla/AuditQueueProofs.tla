-------------------------- MODULE AuditQueueProofs --------------------------
(***************************************************************************)
(* Theorems about AuditQueue, for any number of goroutines, workers and    *)
(* entries, any sizes and any number of faults, crashes and restarts: types *)
(* and limits, that no accepted entry is dropped in silence, that recovery  *)
(* forgets nothing, and that overflow, retries and replays alone store no   *)
(* entry twice.                                                            *)
(***************************************************************************)
EXTENDS AuditQueue, SequenceTheorems, TLAPS

-----------------------------------------------------------------------------
(* Channels: what Append, Head and Tail make of the entries in a buffer.   *)

\* No entry is twice in the sequence.
Distinct(s) == \A i, j \in 1..Len(s) : s[i] = s[j] => i = j

LEMMA RangeIs ==
    ASSUME NEW S, NEW s \in Seq(S)
    PROVE  /\ Range(s) \subseteq S
           /\ \A x : x \in Range(s) <=> \E i \in 1..Len(s) : s[i] = x
BY DEF Range

LEMMA EmptyRange == Range(<<>>) = {} /\ Distinct(<<>>)
BY DEF Range, Distinct

LEMMA AppendRange ==
    ASSUME NEW S, NEW s \in Seq(S), NEW e \in S
    PROVE  /\ Append(s, e) \in Seq(S) /\ Len(Append(s, e)) = Len(s) + 1
           /\ Range(Append(s, e)) = Range(s) \cup {e}
           /\ Distinct(s) /\ e \notin Range(s) => Distinct(Append(s, e))
<1>1. /\ Append(s, e) \in Seq(S) /\ Len(Append(s, e)) = Len(s) + 1 /\ Len(s) \in Nat
      /\ \A i \in 1..Len(s) : Append(s, e)[i] = s[i]
      /\ Append(s, e)[Len(s) + 1] = e
  BY AppendProperties, LenProperties
<1>2. Range(Append(s, e)) = Range(s) \cup {e}
  <2>1. \A x : x \in Range(s) <=> \E i \in 1..Len(s) : s[i] = x
    BY RangeIs
  <2>2. \A x : x \in Range(Append(s, e)) <=> \E i \in 1..Len(Append(s, e)) : Append(s, e)[i] = x
    BY <1>1, RangeIs
  <2>3. \A x : x \in Range(Append(s, e)) => x \in Range(s) \cup {e}
    BY <1>1, <2>1, <2>2
  <2>4. \A x : x \in Range(s) => x \in Range(Append(s, e))
    BY <1>1, <2>1, <2>2
  <2>5. e \in Range(Append(s, e))
    BY <1>1, <2>2
  <2> QED BY <2>3, <2>4, <2>5
<1>3. ASSUME Distinct(s), e \notin Range(s) PROVE Distinct(Append(s, e))
  BY <1>1, <1>3, RangeIs DEF Distinct
<1> QED BY <1>1, <1>2, <1>3

LEMMA TailRange ==
    ASSUME NEW S, NEW s \in Seq(S), s # <<>>
    PROVE  /\ Head(s) \in S /\ Tail(s) \in Seq(S) /\ Len(Tail(s)) = Len(s) - 1 /\ Len(s) >= 1
           /\ Range(s) = {Head(s)} \cup Range(Tail(s))
           /\ Distinct(s) => Distinct(Tail(s)) /\ Head(s) \notin Range(Tail(s))
<1>1. /\ Head(s) \in S /\ Tail(s) \in Seq(S) /\ Len(Tail(s)) = Len(s) - 1 /\ Len(s) \in Nat
      /\ Len(s) >= 1 /\ Head(s) = s[1]
      /\ \A i \in 1..Len(Tail(s)) : Tail(s)[i] = s[i + 1]
  BY HeadTailProperties, LenProperties, EmptySeq
<1>2. Range(s) = {Head(s)} \cup Range(Tail(s))
  <2>4. \A x : x \in Range(Tail(s)) <=> \E i \in 1..Len(Tail(s)) : Tail(s)[i] = x
    BY <1>1, RangeIs
  <2>5. \A x : x \in Range(s) <=> \E i \in 1..Len(s) : s[i] = x
    BY RangeIs
  <2>1. \A x : x \in Range(Tail(s)) => x \in Range(s)
    BY <1>1, <2>4, <2>5
  <2>2. Head(s) \in Range(s)
    BY <1>1, RangeIs
  <2>3. ASSUME NEW i \in 1..Len(s) PROVE s[i] = Head(s) \/ s[i] \in Range(Tail(s))
    <3>1. CASE i = 1
      BY <3>1, <1>1
    <3>2. CASE i # 1
      <4>1. i - 1 \in 1..Len(Tail(s)) /\ Tail(s)[i - 1] = s[i]
        BY <3>2, <1>1
      <4> QED BY <4>1, <1>1, RangeIs
    <3> QED BY <3>1, <3>2
  <2> QED BY <2>1, <2>2, <2>3, RangeIs
<1>3. ASSUME Distinct(s) PROVE Distinct(Tail(s)) /\ Head(s) \notin Range(Tail(s))
  <2>1. Distinct(Tail(s))
    BY <1>1, <1>3 DEF Distinct
  <2>2. \A i \in 1..Len(Tail(s)) : Tail(s)[i] # Head(s)
    BY <1>1, <1>3 DEF Distinct
  <2>3. \A x : x \in Range(Tail(s)) <=> \E i \in 1..Len(Tail(s)) : Tail(s)[i] = x
    BY <1>1, RangeIs
  <2> QED BY <2>1, <2>2, <2>3
<1> QED BY <1>1, <1>2, <1>3

-----------------------------------------------------------------------------
(* Types: TypeOK, and what a task at each of its steps has in hand.        *)

CallerTasks ==
    [pc: {"idle", "panic"}, entry: {NoEntry}, tries: Nat]
        \cup [pc: {"metric"}, entry: Metrics, tries: Nat]
        \cup [pc: {"sync", "check", "send", "fallback"}, entry: Entries \ Metrics, tries: Nat]

WorkerTasks ==
    [pc: {"idle", "exit"}, entry: {NoEntry}, tries: Nat]
        \cup [pc: {"write", "fallback"}, entry: Entries \ Metrics, tries: Nat]

Tallies == [outages: Nat, lostAcks: Nat, diskFaults: Nat, crashes: Nat, restarts: Nat]

ProcessOK  == life \in Lives /\ closed \in BOOLEAN /\ dbUp \in BOOLEAN /\ tally \in Tallies
QueueOK    == queue \in [buf: Seq(Entries \ Metrics), open: BOOLEAN] /\ Len(queue.buf) =< QueueSize
MetricsOK  == metrics \in [buf: Seq(Metrics), open: BOOLEAN] /\ Len(metrics.buf) =< MetricsSize
CallersOK  == caller \in [Callers -> CallerTasks]
WorkersOK  == worker \in [Workers -> WorkerTasks]
BatcherOK  == /\ batcher \in [pc: {"collect", "flush", "exit"}, batch: Seq(Metrics), tries: Nat]
              /\ batcher.pc = "flush" => batcher.batch # <<>>
RecoveryOK == /\ recovery \in [pc: {"scan", "replay", "done"}, entry: Entries \cup {NoEntry},
                               tries: Nat, todo: SUBSET (Entries \ Metrics),
                               failed: SUBSET (Entries \ Metrics)]
              /\ recovery.entry \in recovery.todo \cup {NoEntry}
\* Only a descriptor whose file was replaced leads to a file without a name.
FilesOK    == /\ disk \subseteq Entries \ Metrics /\ orphan \subseteq Entries
              /\ renamed \in BOOLEAN /\ replaced \in BOOLEAN
              /\ renamed \/ orphan # {} => replaced
DbOK       == db \in [Entries -> Nat]
HistoryOK  == logged \subseteq Entries /\ accepted \subseteq Entries /\ lost \subseteq Entries

TypeInv ==
    /\ ProcessOK /\ QueueOK /\ MetricsOK /\ CallersOK /\ WorkersOK /\ BatcherOK
    /\ RecoveryOK /\ FilesOK /\ DbOK /\ HistoryOK

LEMMA CallerTaskKinds ==
    ASSUME NEW n \in Nat
    PROVE  /\ \A pc \in {"idle", "panic"} : [pc |-> pc, entry |-> NoEntry, tries |-> n] \in CallerTasks
           /\ \A e \in Metrics : [pc |-> "metric", entry |-> e, tries |-> n] \in CallerTasks
           /\ \A pc \in {"sync", "check", "send", "fallback"} : \A e \in Entries \ Metrics :
                 [pc |-> pc, entry |-> e, tries |-> n] \in CallerTasks
BY DEF CallerTasks

LEMMA CallerTaskFields ==
    ASSUME NEW t \in CallerTasks
    PROVE  /\ t.tries \in Nat
           /\ t.pc \in {"idle", "panic"} => t.entry = NoEntry
           /\ t.pc = "metric" => t.entry \in Metrics
           /\ t.pc \in {"sync", "check", "send", "fallback"} => t.entry \in Entries \ Metrics
           /\ t.entry # NoEntry => t.entry \in Entries
           /\ t \in Tasks
BY EntriesAssumption DEF CallerTasks, Tasks

LEMMA WorkerTaskKinds ==
    ASSUME NEW n \in Nat
    PROVE  /\ \A pc \in {"idle", "exit"} : [pc |-> pc, entry |-> NoEntry, tries |-> n] \in WorkerTasks
           /\ \A pc \in {"write", "fallback"} : \A e \in Entries \ Metrics :
                 [pc |-> pc, entry |-> e, tries |-> n] \in WorkerTasks
BY DEF WorkerTasks

LEMMA WorkerTaskFields ==
    ASSUME NEW t \in WorkerTasks
    PROVE  /\ t.tries \in Nat
           /\ t.pc \in {"idle", "exit"} => t.entry = NoEntry
           /\ t.pc \in {"write", "fallback"} => t.entry \in Entries \ Metrics
           /\ t.entry # NoEntry => t.entry \in Entries \ Metrics
           /\ t \in Tasks
BY EntriesAssumption DEF WorkerTasks, Tasks

LEMMA SetCallerEffect ==
    ASSUME CallersOK, NEW c \in Callers, NEW pc, NEW e, NEW n, SetCaller(c, pc, e, n),
           [pc |-> pc, entry |-> e, tries |-> n] \in CallerTasks
    PROVE  /\ CallersOK'
           /\ caller'[c].pc = pc /\ caller'[c].entry = e
           /\ \A d \in Callers \ {c} : caller'[d] = caller[d]
BY DEF SetCaller, CallersOK

LEMMA SetWorkerEffect ==
    ASSUME WorkersOK, NEW w \in Workers, NEW pc, NEW e, NEW n, SetWorker(w, pc, e, n),
           [pc |-> pc, entry |-> e, tries |-> n] \in WorkerTasks
    PROVE  /\ WorkersOK'
           /\ worker'[w].pc = pc /\ worker'[w].entry = e
           /\ \A v \in Workers \ {w} : worker'[v] = worker[v]
BY DEF SetWorker, WorkersOK

\* What one attempt of a write changes.
LEMMA ExecEffect ==
    ASSUME DbOK, tally \in Tallies, NEW e \in Entries, NEW ok \in BOOLEAN, Exec(e, ok)
    PROVE  /\ DbOK' /\ tally' \in Tallies
           /\ \A f \in Entries : f # e => db'[f] = db[f]
           /\ db'[e] = db[e] \/ db'[e] = db[e] + 1
           /\ ok => db'[e] = db[e] + 1
           /\ ~ok /\ tally'.lostAcks = 0 => db'[e] = db[e]
           /\ tally'.lostAcks >= tally.lostAcks
           /\ tally'.diskFaults = tally.diskFaults /\ tally'.crashes = tally.crashes
<1>1. CASE tally' = tally
  BY <1>1 DEF Exec, DbOK, Tallies
<1>2. CASE tally' # tally
  <2>1. /\ ~ok /\ tally' = [tally EXCEPT !.lostAcks = @ + 1] /\ db' = [db EXCEPT ![e] = @ + 1]
    BY <1>2 DEF Exec
  <2>2. /\ tally' \in Tallies /\ tally'.lostAcks = tally.lostAcks + 1 /\ tally.lostAcks \in Nat
        /\ tally'.diskFaults = tally.diskFaults /\ tally'.crashes = tally.crashes
    BY <2>1 DEF Tallies
  <2> QED BY <2>1, <2>2 DEF DbOK
<1> QED BY <1>1, <1>2

LEMMA StoredGrows ==
    ASSUME DbOK, tally \in Tallies, NEW e \in Entries, NEW ok \in BOOLEAN, Exec(e, ok)
    PROVE  Stored \subseteq Stored' /\ (ok => e \in Stored')
<1>1. /\ DbOK' /\ \A f \in Entries : f # e => db'[f] = db[f]
      /\ db'[e] = db[e] \/ db'[e] = db[e] + 1
      /\ ok => db'[e] = db[e] + 1
  BY ExecEffect
<1> QED BY <1>1 DEF Stored, DbOK

LEMMA AppendEffect ==
    ASSUME FilesOK, NEW e \in Entries \ Metrics, Append2Fallback(e)
    PROVE  /\ FilesOK' /\ disk \subseteq disk' /\ orphan \subseteq orphan'
           /\ e \in disk' \cup orphan' /\ disk' \subseteq disk \cup {e}
BY DEF FilesOK, Append2Fallback

LEMMA InitTypes == Init => TypeInv
<1> SUFFICES ASSUME Init PROVE TypeInv
  OBVIOUS
<1> USE DEF Init
<1>1. ProcessOK
  BY DEF ProcessOK, Lives, Tallies
<1>2. QueueOK /\ MetricsOK
  BY SizesAssumption DEF QueueOK, MetricsOK, OpenChannel
<1>3. CallersOK /\ WorkersOK
  BY CallerTaskKinds, WorkerTaskKinds DEF CallersOK, WorkersOK, IdleTask
<1>4. BatcherOK
  BY DEF BatcherOK, IdleBatcher
<1>5. RecoveryOK
  BY DEF RecoveryOK, NoRecovery
<1>6. FilesOK /\ DbOK /\ HistoryOK
  BY DEF FilesOK, DbOK, HistoryOK
<1> QED BY <1>1, <1>2, <1>3, <1>4, <1>5, <1>6 DEF TypeInv

LEMMA LogTypes ==
    ASSUME TypeInv, NEW c \in Callers, Log(c)
    PROVE  TypeInv'
<1>1. PICK e \in Entries \ logged : SetCaller(c, EntryPoint(e), e, 0) /\ logged' = logged \cup {e}
  BY DEF Log
<1>2. [pc |-> EntryPoint(e), entry |-> e, tries |-> 0] \in CallerTasks
  BY EntriesAssumption, CallerTaskKinds DEF EntryPoint
<1>3. CallersOK'
  BY <1>1, <1>2, SetCallerEffect DEF TypeInv
<1>4. HistoryOK'
  BY <1>1 DEF Log, TypeInv, HistoryOK
<1>5. UNCHANGED <<life, closed, queue, metrics, worker, batcher, recovery, disk, orphan, renamed, replaced,
                  db, dbUp, tally>>
  BY DEF Log, files
<1> QED
  BY <1>3, <1>4, <1>5 DEF TypeInv, ProcessOK, QueueOK, MetricsOK, WorkersOK, BatcherOK, RecoveryOK,
     FilesOK, DbOK

\* The call returns: the caller is idle and its entry, which it had in hand, is
\* accepted.
LEMMA AcceptEffect ==
    ASSUME TypeInv, NEW c \in Callers, caller[c].pc \in {"metric", "sync", "send", "fallback"}, Accept(c)
    PROVE  /\ CallersOK' /\ caller'[c].pc = "idle" /\ caller'[c].entry = NoEntry
           /\ \A d \in Callers \ {c} : caller'[d] = caller[d]
           /\ caller[c].entry \in Entries /\ accepted' = accepted \cup {caller[c].entry}
<1>1. caller[c] \in CallerTasks
  BY DEF TypeInv, CallersOK
<1>2. caller[c].entry \in Entries
  BY <1>1, CallerTaskFields, EntriesAssumption
<1>3. SetCaller(c, "idle", NoEntry, 0) /\ accepted' = accepted \cup {caller[c].entry}
  BY DEF Accept
<1> QED BY <1>2, <1>3, SetCallerEffect, CallerTaskKinds DEF TypeInv

LEMMA LogSyncTypes ==
    ASSUME TypeInv, NEW c \in Callers, LogSync(c)
    PROVE  TypeInv'
<1>0. caller[c] \in CallerTasks /\ caller[c].pc = "sync"
  BY DEF LogSync, TypeInv, CallersOK
<1>1. PICK e \in Entries \ Metrics : e = caller[c].entry
  BY <1>0, CallerTaskFields
<1>2. \E ok \in BOOLEAN : Exec(e, ok)
  BY <1>1 DEF LogSync
<1>3. DbOK' /\ tally' \in Tallies
  BY <1>2, ExecEffect DEF TypeInv, ProcessOK
<1>4. CallersOK' /\ HistoryOK'
  <2>1. CASE Accept(c)
    BY <2>1, <1>0, AcceptEffect DEF LogSync, TypeInv, HistoryOK
  <2>2. CASE UNCHANGED accepted /\ SetCaller(c, "idle", NoEntry, 0)
    BY <2>2, CallerTaskKinds, SetCallerEffect DEF LogSync, TypeInv, HistoryOK
  <2>3. CASE UNCHANGED accepted /\ SetCaller(c, "sync", e, caller[c].tries + 1)
    <3>1. caller[c].tries + 1 \in Nat
      BY <1>0, CallerTaskFields
    <3> QED BY <2>3, <3>1, CallerTaskKinds, SetCallerEffect DEF LogSync, TypeInv, HistoryOK
  <2> QED BY <1>1, <2>1, <2>2, <2>3 DEF LogSync
<1>5. UNCHANGED <<life, closed, queue, metrics, worker, batcher, recovery, disk, orphan, renamed, replaced, dbUp>>
  BY DEF LogSync, files
<1> QED
  BY <1>3, <1>4, <1>5 DEF TypeInv, ProcessOK, QueueOK, MetricsOK, WorkersOK, BatcherOK, RecoveryOK,
     FilesOK

LEMMA LogMetricTypes ==
    ASSUME TypeInv, NEW c \in Callers, LogMetric(c)
    PROVE  TypeInv'
<1>0. caller[c] \in CallerTasks /\ caller[c].pc = "metric"
  BY DEF LogMetric, TypeInv, CallersOK
<1>1. caller[c].entry \in Metrics
  BY <1>0, CallerTaskFields
<1>2. CallersOK' /\ HistoryOK'
  <2>1. CASE Accept(c)
    BY <2>1, <1>0, AcceptEffect DEF LogMetric, TypeInv, HistoryOK
  <2>2. CASE SetCaller(c, "panic", NoEntry, 0) /\ UNCHANGED accepted
    BY <2>2, CallerTaskKinds, SetCallerEffect DEF LogMetric, TypeInv, HistoryOK
  <2> QED BY <2>1, <2>2 DEF LogMetric
<1>3. MetricsOK'
  <2>1. CASE UNCHANGED metrics
    BY <2>1 DEF TypeInv, MetricsOK
  <2>2. CASE /\ Len(metrics.buf) < MetricsSize
             /\ metrics' = [metrics EXCEPT !.buf = Append(@, caller[c].entry)]
    <3>1. metrics.buf \in Seq(Metrics) /\ Len(metrics.buf) \in Nat
      BY LenProperties DEF TypeInv, MetricsOK
    <3>2. metrics'.buf = Append(metrics.buf, caller[c].entry) /\ metrics' \in [buf: Seq(Metrics), open: BOOLEAN]
      BY <2>2, <3>1, <1>1, AppendRange DEF TypeInv, MetricsOK
    <3>3. Len(metrics'.buf) = Len(metrics.buf) + 1
      BY <3>1, <3>2, <1>1, AppendRange
    <3> QED BY <2>2, <3>1, <3>2, <3>3, SizesAssumption DEF MetricsOK
  <2> QED BY <2>1, <2>2 DEF LogMetric
<1>4. UNCHANGED <<life, closed, queue, worker, batcher, recovery, disk, orphan, renamed, replaced, db, dbUp, tally>>
  BY DEF LogMetric, files
<1> QED
  BY <1>2, <1>3, <1>4 DEF TypeInv, ProcessOK, QueueOK, WorkersOK, BatcherOK, RecoveryOK, FilesOK, DbOK

LEMMA CheckClosedTypes ==
    ASSUME TypeInv, NEW c \in Callers, CheckClosed(c)
    PROVE  TypeInv'
<1>0. caller[c] \in CallerTasks /\ caller[c].pc = "check"
  BY DEF CheckClosed, TypeInv, CallersOK
<1>1. caller[c].entry \in Entries \ Metrics
  BY <1>0, CallerTaskFields
<1>2. PICK pc \in {"send", "fallback"} : SetCaller(c, pc, caller[c].entry, 0)
  BY DEF CheckClosed
<1>3. CallersOK'
  BY <1>1, <1>2, CallerTaskKinds, SetCallerEffect DEF TypeInv
<1>4. UNCHANGED <<life, closed, queue, metrics, worker, batcher, recovery, disk, orphan, renamed, replaced,
                  db, dbUp, logged, accepted, lost, tally>>
  BY DEF CheckClosed, files
<1> QED
  BY <1>3, <1>4 DEF TypeInv, ProcessOK, QueueOK, MetricsOK, WorkersOK, BatcherOK, RecoveryOK,
     FilesOK, DbOK, HistoryOK

LEMMA SendTypes ==
    ASSUME TypeInv, NEW c \in Callers, Send(c)
    PROVE  TypeInv'
<1>0. caller[c] \in CallerTasks /\ caller[c].pc = "send"
  BY DEF Send, TypeInv, CallersOK
<1>1. caller[c].entry \in Entries \ Metrics
  BY <1>0, CallerTaskFields
<1>2. CallersOK' /\ HistoryOK'
  <2>1. CASE Accept(c)
    BY <2>1, <1>0, AcceptEffect DEF Send, TypeInv, HistoryOK
  <2>2. CASE SetCaller(c, "panic", NoEntry, 0) /\ UNCHANGED accepted
    BY <2>2, CallerTaskKinds, SetCallerEffect DEF Send, TypeInv, HistoryOK
  <2>3. CASE SetCaller(c, "fallback", caller[c].entry, 0) /\ UNCHANGED accepted
    BY <1>1, <2>3, CallerTaskKinds, SetCallerEffect DEF Send, TypeInv, HistoryOK
  <2> QED BY <2>1, <2>2, <2>3 DEF Send, Overflow
<1>3. QueueOK'
  <2>1. CASE UNCHANGED queue
    BY <2>1 DEF TypeInv, QueueOK
  <2>2. CASE Len(queue.buf) < QueueSize /\ queue' = [queue EXCEPT !.buf = Append(@, caller[c].entry)]
    <3>1. queue.buf \in Seq(Entries \ Metrics) /\ Len(queue.buf) \in Nat
      BY LenProperties DEF TypeInv, QueueOK
    <3>2. /\ queue'.buf = Append(queue.buf, caller[c].entry)
          /\ queue' \in [buf: Seq(Entries \ Metrics), open: BOOLEAN]
      BY <2>2, <3>1, <1>1, AppendRange DEF TypeInv, QueueOK
    <3>3. Len(queue'.buf) = Len(queue.buf) + 1
      BY <3>1, <3>2, <1>1, AppendRange
    <3> QED BY <2>2, <3>1, <3>2, <3>3, SizesAssumption DEF QueueOK
  <2> QED BY <2>1, <2>2 DEF Send
<1>4. UNCHANGED <<life, closed, metrics, worker, batcher, recovery, disk, orphan, renamed, replaced, db, dbUp, tally>>
  BY DEF Send, files
<1> QED
  BY <1>2, <1>3, <1>4 DEF TypeInv, ProcessOK, MetricsOK, WorkersOK, BatcherOK, RecoveryOK, FilesOK, DbOK

LEMMA WriteToFallbackTypes ==
    ASSUME TypeInv, NEW c \in Callers, WriteToFallback(c)
    PROVE  TypeInv'
<1>0. caller[c] \in CallerTasks /\ caller[c].pc = "fallback"
  BY DEF WriteToFallback, TypeInv, CallersOK
<1>1. caller[c].entry \in Entries \ Metrics
  BY <1>0, CallerTaskFields
<1>2. CallersOK' /\ HistoryOK'
  BY <1>0, AcceptEffect DEF WriteToFallback, TypeInv, HistoryOK
<1>3. FilesOK'
  BY <1>1, AppendEffect DEF WriteToFallback, TypeInv
<1>4. UNCHANGED <<life, closed, queue, metrics, worker, batcher, recovery, db, dbUp, tally>>
  BY DEF WriteToFallback
<1> QED
  BY <1>2, <1>3, <1>4 DEF TypeInv, ProcessOK, QueueOK, MetricsOK, WorkersOK, BatcherOK, RecoveryOK, DbOK

LEMMA WriteToFallbackFailsTypes ==
    ASSUME TypeInv, NEW c \in Callers, WriteToFallbackFails(c)
    PROVE  TypeInv'
<1>1. CallersOK'
  BY CallerTaskKinds, SetCallerEffect DEF WriteToFallbackFails, TypeInv
<1>2. tally' \in Tallies
  BY DEF WriteToFallbackFails, DiskFault, TypeInv, ProcessOK, Tallies
<1>3. UNCHANGED <<life, closed, queue, metrics, worker, batcher, recovery, disk, orphan, renamed, replaced,
                  db, dbUp, logged, accepted, lost>>
  BY DEF WriteToFallbackFails, files
<1> QED
  BY <1>1, <1>2, <1>3 DEF TypeInv, ProcessOK, QueueOK, MetricsOK, WorkersOK, BatcherOK, RecoveryOK,
     FilesOK, DbOK, HistoryOK

LEMMA ReceiveTypes ==
    ASSUME TypeInv, NEW w \in Workers, Receive(w)
    PROVE  TypeInv'
<1>1. WorkersOK' /\ QueueOK'
  <2>1. CASE queue.buf # <<>> /\ SetWorker(w, "write", Head(queue.buf), 0)
                /\ queue' = [queue EXCEPT !.buf = Tail(@)]
    <3>1. queue.buf \in Seq(Entries \ Metrics) /\ Len(queue.buf) \in Nat
      BY LenProperties DEF TypeInv, QueueOK
    <3>2. /\ Head(queue.buf) \in Entries \ Metrics /\ Tail(queue.buf) \in Seq(Entries \ Metrics)
          /\ Len(Tail(queue.buf)) = Len(queue.buf) - 1
      BY <2>1, <3>1, TailRange
    <3>3. WorkersOK'
      BY <2>1, <3>2, WorkerTaskKinds, SetWorkerEffect DEF TypeInv
    <3>4. queue'.buf = Tail(queue.buf) /\ queue' \in [buf: Seq(Entries \ Metrics), open: BOOLEAN]
      BY <2>1, <3>2 DEF TypeInv, QueueOK
    <3> QED BY <3>1, <3>2, <3>3, <3>4, SizesAssumption DEF TypeInv, QueueOK
  <2>2. CASE SetWorker(w, "exit", NoEntry, 0) /\ UNCHANGED queue
    BY <2>2, WorkerTaskKinds, SetWorkerEffect DEF TypeInv, QueueOK
  <2> QED BY <2>1, <2>2 DEF Receive
<1>2. UNCHANGED <<life, closed, metrics, caller, batcher, recovery, disk, orphan, renamed, replaced, db, dbUp,
                  logged, accepted, lost, tally>>
  BY DEF Receive, files
<1> QED
  BY <1>1, <1>2 DEF TypeInv, ProcessOK, MetricsOK, CallersOK, BatcherOK, RecoveryOK, FilesOK, DbOK,
     HistoryOK

LEMMA WorkerWriteTypes ==
    ASSUME TypeInv, NEW w \in Workers, WorkerWrite(w)
    PROVE  TypeInv'
<1>0. worker[w] \in WorkerTasks /\ worker[w].pc = "write"
  BY DEF WorkerWrite, TypeInv, WorkersOK
<1>1. PICK e \in Entries \ Metrics : e = worker[w].entry
  BY <1>0, WorkerTaskFields
<1>2. DbOK' /\ tally' \in Tallies
  <2>1. \E ok \in BOOLEAN : Exec(e, ok)
    BY <1>1 DEF WorkerWrite
  <2> QED BY <2>1, ExecEffect DEF TypeInv, ProcessOK
<1>3. WorkersOK'
  <2>1. CASE SetWorker(w, "idle", NoEntry, 0)
    BY <2>1, WorkerTaskKinds, SetWorkerEffect DEF TypeInv
  <2>2. CASE SetWorker(w, "fallback", e, 0)
    BY <2>2, WorkerTaskKinds, SetWorkerEffect DEF TypeInv
  <2>3. CASE SetWorker(w, "write", e, worker[w].tries + 1)
    <3>1. worker[w].tries + 1 \in Nat
      BY <1>0, WorkerTaskFields
    <3> QED BY <2>3, <3>1, WorkerTaskKinds, SetWorkerEffect DEF TypeInv
  <2> QED BY <1>1, <2>1, <2>2, <2>3 DEF WorkerWrite, AfterLastRetry
<1>4. UNCHANGED <<life, closed, queue, metrics, caller, batcher, recovery, disk, orphan, renamed, replaced, dbUp,
                  logged, accepted, lost>>
  BY DEF WorkerWrite, files
<1> QED
  BY <1>2, <1>3, <1>4 DEF TypeInv, ProcessOK, QueueOK, MetricsOK, CallersOK, BatcherOK, RecoveryOK,
     FilesOK, HistoryOK

LEMMA WorkerFallbackTypes ==
    ASSUME TypeInv, NEW w \in Workers, WorkerFallback(w)
    PROVE  TypeInv'
<1>0. worker[w] \in WorkerTasks /\ worker[w].pc = "fallback"
  BY DEF WorkerFallback, TypeInv, WorkersOK
<1>1. FilesOK'
  BY <1>0, WorkerTaskFields, AppendEffect DEF WorkerFallback, TypeInv
<1>2. WorkersOK'
  BY WorkerTaskKinds, SetWorkerEffect DEF WorkerFallback, TypeInv
<1>3. UNCHANGED <<life, closed, queue, metrics, caller, batcher, recovery, db, dbUp, logged,
                  accepted, lost, tally>>
  BY DEF WorkerFallback
<1> QED
  BY <1>1, <1>2, <1>3 DEF TypeInv, ProcessOK, QueueOK, MetricsOK, CallersOK, BatcherOK, RecoveryOK,
     DbOK, HistoryOK

LEMMA WorkerFallbackFailsTypes ==
    ASSUME TypeInv, NEW w \in Workers, WorkerFallbackFails(w)
    PROVE  TypeInv'
<1>0. worker[w] \in WorkerTasks /\ worker[w].pc = "fallback"
  BY DEF WorkerFallbackFails, TypeInv, WorkersOK
<1>1. HistoryOK'
  BY <1>0, WorkerTaskFields DEF WorkerFallbackFails, TypeInv, HistoryOK
<1>2. WorkersOK'
  BY WorkerTaskKinds, SetWorkerEffect DEF WorkerFallbackFails, TypeInv
<1>3. tally' \in Tallies
  BY DEF WorkerFallbackFails, DiskFault, TypeInv, ProcessOK, Tallies
<1>4. UNCHANGED <<life, closed, queue, metrics, caller, batcher, recovery, disk, orphan, renamed, replaced,
                  db, dbUp>>
  BY DEF WorkerFallbackFails, files
<1> QED
  BY <1>1, <1>2, <1>3, <1>4 DEF TypeInv, ProcessOK, QueueOK, MetricsOK, CallersOK, BatcherOK,
     RecoveryOK, FilesOK, DbOK

LEMMA BatchMetricTypes ==
    ASSUME TypeInv, BatchMetric
    PROVE  TypeInv'
<1>1. metrics.buf \in Seq(Metrics) /\ metrics.buf # <<>> /\ batcher.batch \in Seq(Metrics)
  BY DEF BatchMetric, TypeInv, MetricsOK, BatcherOK
<1>2. /\ Head(metrics.buf) \in Metrics /\ Tail(metrics.buf) \in Seq(Metrics)
      /\ Len(Tail(metrics.buf)) = Len(metrics.buf) - 1 /\ Len(metrics.buf) \in Nat
  BY <1>1, TailRange, LenProperties
<1>3. PICK batch \in Seq(Metrics) : batch = Append(batcher.batch, Head(metrics.buf)) /\ batch # <<>>
  <2>1. Len(Append(batcher.batch, Head(metrics.buf))) = Len(batcher.batch) + 1 /\ Len(batcher.batch) \in Nat
    BY <1>1, <1>2, AppendRange, LenProperties
  <2>2. Append(batcher.batch, Head(metrics.buf)) \in Seq(Metrics)
    BY <1>1, <1>2, AppendRange
  <2>3. Append(batcher.batch, Head(metrics.buf)) # <<>>
    BY <2>1, <2>2, EmptySeq
  <2> QED BY <2>2, <2>3
<1>4. BatcherOK'
  <2>1. PICK pc \in {"collect", "flush"} : batcher' = [batcher EXCEPT !.batch = batch, !.pc = pc]
    BY <1>3 DEF BatchMetric
  <2> QED BY <1>3, <2>1 DEF TypeInv, BatcherOK
<1>5. MetricsOK'
  <2>1. metrics'.buf = Tail(metrics.buf) /\ metrics' \in [buf: Seq(Metrics), open: BOOLEAN]
    BY <1>2 DEF BatchMetric, TypeInv, MetricsOK
  <2> QED BY <1>2, <2>1, SizesAssumption DEF TypeInv, MetricsOK
<1>6. UNCHANGED <<life, closed, queue, caller, worker, recovery, disk, orphan, renamed, replaced, db, dbUp,
                  logged, accepted, lost, tally>>
  BY DEF BatchMetric, files
<1> QED
  BY <1>4, <1>5, <1>6 DEF TypeInv, ProcessOK, QueueOK, CallersOK, WorkersOK, RecoveryOK, FilesOK,
     DbOK, HistoryOK

LEMMA StartFlushTypes ==
    ASSUME TypeInv, StartFlush
    PROVE  TypeInv'
<1>1. BatcherOK'
  BY DEF StartFlush, TypeInv, BatcherOK
<1>2. UNCHANGED <<life, closed, queue, metrics, caller, worker, recovery, disk, orphan, renamed, replaced, db,
                  dbUp, logged, accepted, lost, tally>>
  BY DEF StartFlush, files
<1> QED
  BY <1>1, <1>2 DEF TypeInv, ProcessOK, QueueOK, MetricsOK, CallersOK, WorkersOK, RecoveryOK, FilesOK,
     DbOK, HistoryOK

\* A metric is written or given up, or its write is tried again.
LEMMA FlushEffect ==
    ASSUME TypeInv, FlushMetric
    PROVE  /\ batcher.batch \in Seq(Metrics) /\ batcher.batch # <<>> /\ Head(batcher.batch) \in Metrics
           /\ BatcherOK'
           /\ \/ /\ Exec(Head(batcher.batch), TRUE) /\ batcher'.batch = Tail(batcher.batch)
              \/ /\ Exec(Head(batcher.batch), FALSE)
                 /\ batcher'.batch \in {batcher.batch, Tail(batcher.batch)}
<1>1. batcher.batch \in Seq(Metrics) /\ batcher.batch # <<>> /\ batcher.pc = "flush" /\ batcher.tries \in Nat
  BY DEF FlushMetric, TypeInv, BatcherOK
<1>2. /\ Head(batcher.batch) \in Metrics /\ Tail(batcher.batch) \in Seq(Metrics)
      /\ Len(Tail(batcher.batch)) = Len(batcher.batch) - 1 /\ Len(batcher.batch) \in Nat
  BY <1>1, TailRange, LenProperties
<1>3. PICK next : next = [pc |-> IF Len(batcher.batch) = 1 THEN "collect" ELSE "flush",
                          batch |-> Tail(batcher.batch), tries |-> 0]
  OBVIOUS
<1>4. \/ Exec(Head(batcher.batch), TRUE) /\ batcher' = next
      \/ Exec(Head(batcher.batch), FALSE) /\ batcher' \in {next, [batcher EXCEPT !.tries = @ + 1]}
  BY <1>3 DEF FlushMetric
<1>5. /\ next.batch = Tail(batcher.batch)
      /\ next \in [pc: {"collect", "flush", "exit"}, batch: Seq(Metrics), tries: Nat]
  BY <1>2, <1>3
<1>6. next.pc = "flush" => next.batch # <<>>
  <2>1. next.pc = "flush" => Len(batcher.batch) # 1
    BY <1>3
  <2>2. Len(batcher.batch) # 0
    BY <1>1, EmptySeq
  <2>3. next.pc = "flush" => Len(Tail(batcher.batch)) # 0
    BY <1>2, <2>1
  <2> QED BY <2>3, <1>5, EmptySeq
<1>7. ASSUME batcher' = [batcher EXCEPT !.tries = @ + 1]
      PROVE  batcher'.batch = batcher.batch /\ BatcherOK'
  BY <1>1, <1>7 DEF TypeInv, BatcherOK
<1>8. ASSUME batcher' = next PROVE batcher'.batch = Tail(batcher.batch) /\ BatcherOK'
  BY <1>5, <1>6, <1>8 DEF BatcherOK
<1> QED BY <1>1, <1>2, <1>4, <1>7, <1>8

LEMMA FlushMetricTypes ==
    ASSUME TypeInv, FlushMetric
    PROVE  TypeInv'
<1>1. PICK e \in Entries : e = Head(batcher.batch)
  BY FlushEffect, EntriesAssumption
<1>2. \E ok \in BOOLEAN : Exec(e, ok)
  BY <1>1, FlushEffect
<1>3. DbOK' /\ tally' \in Tallies
  BY <1>2, ExecEffect DEF TypeInv, ProcessOK
<1>4. UNCHANGED <<life, closed, queue, metrics, caller, worker, recovery, disk, orphan, renamed, replaced, dbUp,
                  logged, accepted, lost>>
  BY DEF FlushMetric, files
<1> QED
  BY <1>3, <1>4, FlushEffect DEF TypeInv, ProcessOK, QueueOK, MetricsOK, CallersOK, WorkersOK,
     RecoveryOK, FilesOK, HistoryOK

LEMMA LifeTypes ==
    ASSUME TypeInv, MarkClosed \/ CloseQueue \/ CloseMetrics \/ Exit \/ Outage \/ Repair
    PROVE  TypeInv'
<1>1. ProcessOK'
  <2>1. CASE Outage
    <3>1. tally' \in Tallies
      BY <2>1 DEF Outage, TypeInv, ProcessOK, Tallies
    <3> QED BY <3>1, <2>1 DEF Outage, memory, TypeInv, ProcessOK
  <2>2. CASE MarkClosed \/ CloseQueue \/ CloseMetrics \/ Exit \/ Repair
    BY <2>2 DEF MarkClosed, CloseQueue, CloseMetrics, Exit, Repair, memory, TypeInv, ProcessOK, Lives
  <2> QED BY <2>1, <2>2
<1>2. QueueOK' /\ MetricsOK'
  BY DEF MarkClosed, CloseQueue, CloseMetrics, Exit, Outage, Repair, memory, TypeInv, QueueOK, MetricsOK
<1>3. UNCHANGED <<caller, worker, batcher, recovery, disk, orphan, renamed, replaced, db, logged, accepted, lost>>
  BY DEF MarkClosed, CloseQueue, CloseMetrics, Exit, Outage, Repair, memory, files
<1> QED
  BY <1>1, <1>2, <1>3 DEF TypeInv, CallersOK, WorkersOK, BatcherOK, RecoveryOK, FilesOK, DbOK, HistoryOK

\* What is in memory is of the set of entries.
LEMMA InMemory ==
    ASSUME TypeInv
    PROVE  /\ InQueue \subseteq Entries \ Metrics
           /\ InHand \subseteq Entries \ Metrics
<1>1. InQueue \subseteq Entries \ Metrics
  <2>1. queue.buf \in Seq(Entries \ Metrics)
    BY DEF TypeInv, QueueOK
  <2> QED BY <2>1, RangeIs DEF InQueue
<1>2. ASSUME NEW w \in Workers, worker[w].entry # NoEntry PROVE worker[w].entry \in Entries \ Metrics
  BY <1>2, WorkerTaskFields DEF TypeInv, WorkersOK
<1> QED BY <1>1, <1>2 DEF InHand

LEMMA CrashTypes ==
    ASSUME TypeInv, Crash
    PROVE  TypeInv'
<1>1. ProcessOK'
  <2>1. tally' \in Tallies
    BY DEF Crash, TypeInv, ProcessOK, Tallies
  <2> QED BY <2>1 DEF Crash, memory, TypeInv, ProcessOK, Lives
<1>2. HistoryOK'
  BY InMemory DEF Crash, TypeInv, HistoryOK
<1>3. UNCHANGED <<queue, metrics, caller, worker, batcher, recovery, disk, orphan, renamed, replaced, db>>
  BY DEF Crash, memory, files
<1> QED
  BY <1>1, <1>2, <1>3 DEF TypeInv, QueueOK, MetricsOK, CallersOK, WorkersOK, BatcherOK, RecoveryOK,
     FilesOK, DbOK

LEMMA NewAuditQueueTypes ==
    ASSUME TypeInv, NewAuditQueue
    PROVE  TypeInv'
<1>1. ProcessOK'
  <2>1. tally' \in Tallies
    BY DEF NewAuditQueue, TypeInv, ProcessOK, Tallies
  <2> QED BY <2>1 DEF NewAuditQueue, FreshMemory, TypeInv, ProcessOK, Lives
<1>2. QueueOK' /\ MetricsOK'
  BY SizesAssumption DEF NewAuditQueue, FreshMemory, QueueOK, MetricsOK, OpenChannel
<1>3. CallersOK' /\ WorkersOK'
  BY CallerTaskKinds, WorkerTaskKinds DEF NewAuditQueue, FreshMemory, CallersOK, WorkersOK, IdleTask
<1>4. BatcherOK'
  BY DEF NewAuditQueue, FreshMemory, BatcherOK, IdleBatcher
<1>5. RecoveryOK'
  BY DEF NewAuditQueue, FreshMemory, RecoveryOK, NoRecovery
<1>6. FilesOK' /\ DbOK' /\ HistoryOK'
  BY DEF NewAuditQueue, TypeInv, FilesOK, DbOK, HistoryOK
<1> QED BY <1>1, <1>2, <1>3, <1>4, <1>5, <1>6 DEF TypeInv

LEMMA ReadFallbackTypes ==
    ASSUME TypeInv, ReadFallback
    PROVE  TypeInv'
<1>1. ProcessOK'
  BY DEF ReadFallback, TypeInv, ProcessOK, Lives
<1>2. RecoveryOK'
  <2>1. CASE UNCHANGED recovery
    BY <2>1 DEF TypeInv, RecoveryOK
  <2>2. CASE recovery' = [NoRecovery EXCEPT !.pc = "replay", !.todo = disk]
    BY <2>2 DEF TypeInv, FilesOK, RecoveryOK, NoRecovery
  <2> QED BY <2>1, <2>2 DEF ReadFallback
<1>3. UNCHANGED <<queue, metrics, caller, worker, batcher, disk, orphan, renamed, replaced, db, logged, accepted, lost>>
  BY DEF ReadFallback, files
<1> QED
  BY <1>1, <1>2, <1>3 DEF TypeInv, QueueOK, MetricsOK, CallersOK, WorkersOK, BatcherOK, FilesOK, DbOK,
     HistoryOK

\* An entry of the file is stored, fails for good, or is tried again.
LEMMA ReplayEffect ==
    ASSUME TypeInv, Replay
    PROVE  \E e \in recovery.todo, ok \in BOOLEAN :
             /\ e \in Entries \ Metrics /\ Exec(e, ok) /\ RecoveryOK' /\ recovery'.pc = "replay"
             /\ \/ /\ ok /\ recovery'.entry = NoEntry
                   /\ recovery'.todo = recovery.todo \ {e} /\ recovery'.failed = recovery.failed
                \/ /\ ~ok /\ recovery'.entry = NoEntry
                   /\ recovery'.todo = recovery.todo \ {e} /\ recovery'.failed = recovery.failed \cup {e}
                \/ /\ ~ok /\ recovery'.entry = e
                   /\ recovery'.todo = recovery.todo /\ recovery'.failed = recovery.failed
<1>1. PICK e \in IF recovery.entry = NoEntry THEN recovery.todo ELSE {recovery.entry} :
         \/ /\ Exec(e, TRUE)
            /\ recovery' = [recovery EXCEPT !.entry = NoEntry, !.tries = 0, !.todo = @ \ {e}]
         \/ /\ Exec(e, FALSE)
            /\ recovery' = IF GivesUp(e, recovery.tries)
                           THEN [recovery EXCEPT !.entry = NoEntry, !.tries = 0,
                                                 !.todo = @ \ {e}, !.failed = @ \cup {e}]
                           ELSE [recovery EXCEPT !.entry = e, !.tries = @ + 1]
  BY DEF Replay
<1>2. e \in recovery.todo /\ e \in Entries \ Metrics
  BY <1>1 DEF TypeInv, RecoveryOK
<1>3. recovery.pc = "replay" /\ RecoveryOK
  BY DEF Replay, TypeInv
<1>4. CASE Exec(e, TRUE) /\ recovery' = [recovery EXCEPT !.entry = NoEntry, !.tries = 0, !.todo = @ \ {e}]
  <2>1. /\ RecoveryOK' /\ recovery'.pc = "replay" /\ recovery'.entry = NoEntry
        /\ recovery'.todo = recovery.todo \ {e} /\ recovery'.failed = recovery.failed
    BY <1>3, <1>4 DEF RecoveryOK
  <2> QED BY <2>1, <1>2, <1>4
<1>5. CASE /\ Exec(e, FALSE)
           /\ recovery' = [recovery EXCEPT !.entry = NoEntry, !.tries = 0,
                                            !.todo = @ \ {e}, !.failed = @ \cup {e}]
  <2>1. /\ RecoveryOK' /\ recovery'.pc = "replay" /\ recovery'.entry = NoEntry
        /\ recovery'.todo = recovery.todo \ {e} /\ recovery'.failed = recovery.failed \cup {e}
    BY <1>2, <1>3, <1>5 DEF RecoveryOK
  <2> QED BY <2>1, <1>2, <1>5
<1>6. CASE Exec(e, FALSE) /\ recovery' = [recovery EXCEPT !.entry = e, !.tries = @ + 1]
  <2>1. PICK n \in Nat : recovery' = [recovery EXCEPT !.entry = e, !.tries = n]
    <3>1. recovery.tries + 1 \in Nat
      BY <1>3 DEF RecoveryOK
    <3>2. recovery' = [recovery EXCEPT !.entry = e, !.tries = recovery.tries + 1]
      BY <1>6, Zenon
    <3> QED BY <3>1, <3>2, Zenon
  <2>2. /\ recovery'.pc = "replay" /\ recovery'.entry = e
        /\ recovery'.todo = recovery.todo /\ recovery'.failed = recovery.failed
    BY <1>3, <2>1 DEF RecoveryOK
  <2>3. RecoveryOK'
    BY <1>2, <1>3, <2>1, <2>2 DEF RecoveryOK
  <2> QED BY <2>2, <2>3, <1>2, <1>6
<1> QED BY <1>1, <1>4, <1>5, <1>6

LEMMA ReplayTypes ==
    ASSUME TypeInv, Replay
    PROVE  TypeInv'
<1>1. PICK e \in Entries, ok \in BOOLEAN : Exec(e, ok) /\ RecoveryOK'
  BY ReplayEffect
<1>2. DbOK' /\ tally' \in Tallies
  BY <1>1, ExecEffect DEF TypeInv, ProcessOK
<1>3. UNCHANGED <<life, closed, queue, metrics, caller, worker, batcher, disk, orphan, renamed, replaced, dbUp,
                  logged, accepted, lost>>
  BY DEF Replay, files
<1> QED
  BY <1>1, <1>2, <1>3 DEF TypeInv, ProcessOK, QueueOK, MetricsOK, CallersOK, WorkersOK, BatcherOK,
     FilesOK, HistoryOK

LEMMA RewriteFallbackTypes ==
    ASSUME TypeInv, RewriteFallback
    PROVE  TypeInv'
<1>1. ProcessOK'
  BY DEF RewriteFallback, TypeInv, ProcessOK, Lives
<1>2. RecoveryOK'
  BY DEF RewriteFallback, RecoveryOK, NoRecovery
<1>3. FilesOK'
  BY DEF RewriteFallback, Rewritten, TypeInv, RecoveryOK, FilesOK
<1>4. UNCHANGED <<queue, metrics, caller, worker, batcher, db, logged, accepted, lost>>
  BY DEF RewriteFallback
<1> QED
  BY <1>1, <1>2, <1>3, <1>4 DEF TypeInv, QueueOK, MetricsOK, CallersOK, WorkersOK, BatcherOK, DbOK,
     HistoryOK

LEMMA ReadFallbackFailsTypes ==
    ASSUME TypeInv, ReadFallbackFails
    PROVE  TypeInv'
<1>1. ProcessOK'
  <2>1. tally' \in Tallies
    BY DEF ReadFallbackFails, DiskFault, TypeInv, ProcessOK, Tallies
  <2> QED BY <2>1 DEF ReadFallbackFails, TypeInv, ProcessOK, Lives
<1>2. RecoveryOK'
  BY DEF ReadFallbackFails, RecoveryOK, NoRecovery
<1>3. UNCHANGED <<queue, metrics, caller, worker, batcher, disk, orphan, renamed, replaced, db, logged,
                  accepted, lost>>
  BY DEF ReadFallbackFails, files
<1> QED
  BY <1>1, <1>2, <1>3 DEF TypeInv, QueueOK, MetricsOK, CallersOK, WorkersOK, BatcherOK, FilesOK, DbOK,
     HistoryOK

LEMMA RewriteFailsTypes ==
    ASSUME TypeInv, RewriteFails
    PROVE  TypeInv'
<1>1. ProcessOK'
  <2>1. tally' \in Tallies
    BY DEF RewriteFails, DiskFault, TypeInv, ProcessOK, Tallies
  <2> QED BY <2>1 DEF RewriteFails, TypeInv, ProcessOK, Lives
<1>2. RecoveryOK'
  BY DEF RewriteFails, RecoveryOK, NoRecovery
<1>3. FilesOK' /\ lost' \subseteq Entries
  <2>1. CASE UNCHANGED <<files, lost>>
    BY <2>1 DEF files, TypeInv, FilesOK, HistoryOK
  <2>2. CASE \E written \in SUBSET recovery.failed :
                /\ disk' = written /\ renamed' = TRUE /\ replaced' = TRUE
                /\ lost' = lost \cup (recovery.failed \ written) /\ UNCHANGED orphan
    BY <2>2 DEF TypeInv, RecoveryOK, FilesOK, HistoryOK
  <2> QED BY <2>1, <2>2 DEF RewriteFails
<1>4. UNCHANGED <<queue, metrics, caller, worker, batcher, db, logged, accepted>>
  BY DEF RewriteFails
<1> QED
  BY <1>1, <1>2, <1>3, <1>4 DEF TypeInv, QueueOK, MetricsOK, CallersOK, WorkersOK, BatcherOK, DbOK,
     HistoryOK

LEMMA SameTypes ==
    ASSUME TypeInv, UNCHANGED vars
    PROVE  TypeInv'
BY DEF vars, memory, files, TypeInv, ProcessOK, QueueOK, MetricsOK, CallersOK, WorkersOK, BatcherOK,
       RecoveryOK, FilesOK, DbOK, HistoryOK

LEMMA NextTypes == TypeInv /\ [Next]_vars => TypeInv'
<1> SUFFICES ASSUME TypeInv, [Next]_vars PROVE TypeInv'
  OBVIOUS
<1>1. CASE UNCHANGED vars \/ Done
  BY <1>1, SameTypes DEF Done
<1>2. CASE \E c \in Callers : Log(c) \/ Logging(c)
  BY <1>2, LogTypes, LogSyncTypes, LogMetricTypes, CheckClosedTypes, SendTypes, WriteToFallbackTypes
     DEF Logging
<1>3. CASE \E w \in Workers : Working(w)
  BY <1>3, ReceiveTypes, WorkerWriteTypes, WorkerFallbackTypes DEF Working
<1>4. CASE Batching
  BY <1>4, BatchMetricTypes, StartFlushTypes, FlushMetricTypes DEF Batching
<1>5. CASE MarkClosed \/ Shutdown \/ Outage \/ Repair
  BY <1>5, LifeTypes DEF Shutdown
<1>6. CASE Crash \/ NewAuditQueue
  BY <1>6, CrashTypes, NewAuditQueueTypes
<1>7. CASE Recovering
  BY <1>7, ReadFallbackTypes, ReplayTypes, RewriteFallbackTypes DEF Recovering
<1>8. CASE DiskFails
  BY <1>8, WriteToFallbackFailsTypes, WorkerFallbackFailsTypes, ReadFallbackFailsTypes,
     RewriteFailsTypes DEF DiskFails
<1> QED BY <1>1, <1>2, <1>3, <1>4, <1>5, <1>6, <1>7, <1>8 DEF Next

LEMMA TypeInvHolds == Spec => []TypeInv
BY InitTypes, NextTypes, PTL DEF Spec

LEMMA TypeInvImplies == TypeInv => TypeOK
<1> SUFFICES ASSUME TypeInv PROVE TypeOK
  OBVIOUS
<1>1. caller \in [Callers -> Tasks] /\ worker \in [Workers -> Tasks]
  BY CallerTaskFields, WorkerTaskFields DEF TypeInv, CallersOK, WorkersOK
<1> QED
  BY <1>1 DEF TypeInv, TypeOK, ProcessOK, QueueOK, MetricsOK, BatcherOK, RecoveryOK, FilesOK, DbOK,
     HistoryOK, Tallies

\* The channels never hold more than their buffers, an entry in a worker's hand
\* is one to be written, and every part of the queue keeps its shape, whatever
\* fails (NewAuditQueue, queueEntry, worker, metricsBatcher).
THEOREM TypeCorrect == Spec => []TypeOK
BY TypeInvHolds, TypeInvImplies, PTL

-----------------------------------------------------------------------------
(* Accepted entries.                                                       *)

\* A worker ends only when the queue is closed and drained, and the process only
\* when every worker has ended.
ExitInv ==
    /\ (\E w \in Workers : worker[w].pc = "exit") => queue.buf = <<>> /\ ~queue.open
    /\ life = "exited" => \A w \in Workers : worker[w].pc = "exit"

\* Until the recovery is over there is nothing in memory.
FreshInv ==
    life = "starting" => /\ queue = OpenChannel
                         /\ \A c \in Callers : caller[c].pc = "idle"
                         /\ \A w \in Workers : worker[w].pc = "idle"

\* The entries of the file are still to be replayed, have failed, or are stored,
\* also if the process died in the middle of it.
ReplayInv ==
    recovery.pc = "replay" =>
        /\ life \in {"starting", "dead"}
        /\ disk \subseteq recovery.todo \cup recovery.failed \cup Stored

\* What a dead process had in memory is lost.
DeadInv == life = "dead" => InQueue \cup InHand \subseteq lost

\* Accepted entries are in memory, stored, in a file, with or without a name, or lost.
Accounted ==
    accepted \ Metrics \subseteq InQueue \cup InHand \cup Stored \cup disk \cup orphan \cup lost

AccountInv == ExitInv /\ FreshInv /\ ReplayInv /\ DeadInv /\ Accounted

LEMMA InHandIs ==
    \A e : e \in InHand <=> e # NoEntry /\ \E w \in Workers : worker[w].entry = e
BY DEF InHand

\* What a worker's step changes of the entries in hand.
LEMMA HandEffect ==
    ASSUME WorkersOK, NEW w \in Workers, NEW pc, NEW e, NEW n, SetWorker(w, pc, e, n),
           [pc |-> pc, entry |-> e, tries |-> n] \in WorkerTasks
    PROVE  /\ InHand \subseteq InHand' \cup {worker[w].entry}
           /\ e # NoEntry => e \in InHand'
<1>1. worker'[w].entry = e /\ \A v \in Workers \ {w} : worker'[v] = worker[v]
  BY SetWorkerEffect
<1>2. \A f : f \in InHand' <=> f # NoEntry /\ \E v \in Workers : worker'[v].entry = f
  BY DEF InHand
<1> QED BY <1>1, <1>2, InHandIs

LEMMA InitAccount == Init => AccountInv
<1> SUFFICES ASSUME Init PROVE AccountInv
  OBVIOUS
<1> USE DEF Init
<1>1. ExitInv
  BY DEF ExitInv, IdleTask
<1>2. FreshInv
  BY DEF FreshInv, IdleTask
<1>3. ReplayInv
  BY DEF ReplayInv, NoRecovery
<1>4. DeadInv
  BY DEF DeadInv
<1>5. Accounted
  BY DEF Accounted
<1> QED BY <1>1, <1>2, <1>3, <1>4, <1>5 DEF AccountInv

\* A goroutine that has something to do runs in a process that serves.
LEMMA BusyIsServing ==
    ASSUME TypeInv, AccountInv, Alive,
           \/ \E c \in Callers : caller[c].pc # "idle"
           \/ \E w \in Workers : worker[w].pc # "idle"
           \/ queue.buf # <<>> \/ ~queue.open
    PROVE  Serving
<1>1. life # "starting"
  BY DEF AccountInv, FreshInv, OpenChannel
<1> QED BY <1>1 DEF TypeInv, ProcessOK, Lives, Alive, Serving

\* A step of a process that serves before and after it.
LEMMA ServingKept ==
    ASSUME AccountInv, Serving, Serving', UNCHANGED recovery,
           ((\E w \in Workers : worker[w].pc = "exit") => queue.buf = <<>> /\ ~queue.open)',
           Accounted'
    PROVE  AccountInv'
BY DEF AccountInv, Serving, ExitInv, FreshInv, ReplayInv, DeadInv

\* A step that leaves the queue and the workers alone.
LEMMA CallerKept ==
    ASSUME TypeInv, AccountInv, Serving, UNCHANGED <<life, recovery, queue, worker, lost>>,
           disk \subseteq disk', orphan \subseteq orphan', Stored \subseteq Stored',
           accepted' \ Metrics \subseteq accepted \cup disk' \cup orphan' \cup Stored'
    PROVE  AccountInv'
<1>1. InQueue' = InQueue /\ InHand' = InHand
  BY DEF InQueue, InHand
<1>2. Accounted'
  BY <1>1 DEF AccountInv, Accounted
<1> QED BY <1>2, ServingKept DEF AccountInv, ExitInv, Serving

LEMMA CallerAccount ==
    ASSUME TypeInv, AccountInv, NEW c \in Callers,
           Log(c) \/ LogMetric(c) \/ CheckClosed(c) \/ WriteToFallback(c) \/ WriteToFallbackFails(c)
    PROVE  AccountInv'
<1>0. caller[c] \in CallerTasks
  BY DEF TypeInv, CallersOK
<1>1. Serving
  <2>1. CASE Log(c)
    BY <2>1 DEF Log
  <2>2. CASE ~Log(c)
    <3>1. Alive /\ caller[c].pc # "idle"
      BY <2>2 DEF LogMetric, CheckClosed, WriteToFallback, WriteToFallbackFails
    <3> QED BY <3>1, BusyIsServing
  <2> QED BY <2>1, <2>2
<1>2. UNCHANGED <<life, recovery, queue, worker, lost, db>>
  BY DEF Log, LogMetric, CheckClosed, WriteToFallback, WriteToFallbackFails
<1>3. Stored' = Stored
  BY <1>2 DEF Stored
<1>4. /\ disk \subseteq disk' /\ orphan \subseteq orphan'
      /\ accepted' \ Metrics \subseteq accepted \cup disk' \cup orphan' \cup Stored'
  <2>1. CASE Log(c) \/ CheckClosed(c) \/ WriteToFallbackFails(c)
    BY <2>1 DEF Log, CheckClosed, WriteToFallbackFails, files
  <2>2. CASE LogMetric(c)
    BY <2>2, <1>0, CallerTaskFields DEF LogMetric, Accept, files
  <2>3. CASE WriteToFallback(c)
    <3>1. caller[c].entry \in Entries \ Metrics
      BY <2>3, <1>0, CallerTaskFields DEF WriteToFallback
    <3> QED BY <2>3, <3>1, AppendEffect DEF WriteToFallback, Accept, TypeInv
  <2> QED BY <2>1, <2>2, <2>3
<1> QED BY <1>1, <1>2, <1>3, <1>4, CallerKept

LEMMA LogSyncAccount ==
    ASSUME TypeInv, AccountInv, NEW c \in Callers, LogSync(c)
    PROVE  AccountInv'
<1>0. caller[c] \in CallerTasks /\ caller[c].pc = "sync" /\ Alive
  BY DEF LogSync, TypeInv, CallersOK
<1>1. Serving
  BY <1>0, BusyIsServing
<1>2. PICK e \in Entries : e = caller[c].entry
  BY <1>0, CallerTaskFields
<1>3. DbOK /\ tally \in Tallies
  BY DEF TypeInv, ProcessOK
<1>4. UNCHANGED <<life, recovery, queue, worker, lost, disk, orphan>>
  BY DEF LogSync, files
<1>5. CASE Exec(e, TRUE) /\ Accept(c)
  <2>1. Stored \subseteq Stored' /\ e \in Stored'
    BY <1>3, <1>5, StoredGrows
  <2>2. accepted' = accepted \cup {e}
    BY <1>2, <1>5 DEF Accept
  <2> QED BY <1>1, <1>4, <2>1, <2>2, CallerKept
<1>6. CASE Exec(e, FALSE) /\ UNCHANGED accepted
  <2>1. Stored \subseteq Stored'
    BY <1>3, <1>6, StoredGrows
  <2> QED BY <1>1, <1>4, <1>6, <2>1, CallerKept
<1> QED BY <1>2, <1>5, <1>6 DEF LogSync

LEMMA SendAccount ==
    ASSUME TypeInv, AccountInv, NEW c \in Callers, Send(c)
    PROVE  AccountInv'
<1>0. caller[c] \in CallerTasks /\ caller[c].pc = "send" /\ Alive
  BY DEF Send, TypeInv, CallersOK
<1>1. Serving
  BY <1>0, BusyIsServing
<1>2. PICK e \in Entries \ Metrics : e = caller[c].entry
  BY <1>0, CallerTaskFields
<1>3. UNCHANGED <<life, recovery, worker, lost, disk, orphan, db>>
  BY DEF Send, files
<1>4. InHand' = InHand /\ Stored' = Stored
  BY <1>3 DEF InHand, Stored
<1>5. CASE UNCHANGED <<queue, accepted>>
  BY <1>1, <1>3, <1>4, <1>5, CallerKept
<1>6. CASE /\ queue.open /\ queue' = [queue EXCEPT !.buf = Append(@, caller[c].entry)]
           /\ Accept(c)
  <2>1. queue.buf \in Seq(Entries \ Metrics)
    BY DEF TypeInv, QueueOK
  <2>2. queue'.buf = Append(queue.buf, e)
    BY <1>2, <1>6 DEF TypeInv, QueueOK
  <2>3. InQueue' = InQueue \cup {e}
    BY <2>1, <2>2, AppendRange DEF InQueue
  <2>4. accepted' = accepted \cup {e}
    BY <1>2, <1>6 DEF Accept
  <2>5. Accounted'
    BY <1>3, <1>4, <2>3, <2>4 DEF AccountInv, Accounted
  <2>6. ~\E w \in Workers : worker'[w].pc = "exit"
    BY <1>3, <1>6 DEF AccountInv, ExitInv
  <2> QED BY <1>1, <1>3, <2>5, <2>6, ServingKept DEF Serving
<1> QED BY <1>5, <1>6 DEF Send, Overflow

LEMMA ReceiveAccount ==
    ASSUME TypeInv, AccountInv, NEW w \in Workers, Receive(w)
    PROVE  AccountInv'
<1>0. worker[w] \in WorkerTasks /\ worker[w].pc = "idle" /\ Alive
  BY DEF Receive, TypeInv, WorkersOK
<1>1. Serving
  BY <1>0, BusyIsServing DEF Receive
<1>2. worker[w].entry = NoEntry
  BY <1>0, WorkerTaskFields
<1>3. UNCHANGED <<life, recovery, accepted, lost, disk, orphan, db>>
  BY DEF Receive, files
<1>4. Stored' = Stored
  BY <1>3 DEF Stored
<1>5. CASE queue.buf # <<>> /\ SetWorker(w, "write", Head(queue.buf), 0)
              /\ queue' = [queue EXCEPT !.buf = Tail(@)]
  <2>1. queue.buf \in Seq(Entries \ Metrics)
    BY DEF TypeInv, QueueOK
  <2>2. queue'.buf = Tail(queue.buf)
    BY <1>5 DEF TypeInv, QueueOK
  <2>3. Head(queue.buf) \in Entries \ Metrics /\ InQueue = {Head(queue.buf)} \cup InQueue'
    BY <1>5, <2>1, <2>2, TailRange DEF InQueue
  <2>4. [pc |-> "write", entry |-> Head(queue.buf), tries |-> 0] \in WorkerTasks
    BY <2>3, WorkerTaskKinds
  <2>5. InHand \subseteq InHand' \cup {NoEntry} /\ Head(queue.buf) \in InHand'
    BY <1>2, <1>5, <2>3, <2>4, HandEffect, EntriesAssumption DEF TypeInv
  <2>6. Accounted'
    BY <1>3, <1>4, <2>3, <2>5, InHandIs DEF AccountInv, Accounted
  <2>7. ~\E v \in Workers : worker'[v].pc = "exit"
    <3>1. \A v \in Workers : worker[v].pc # "exit"
      BY <1>5 DEF AccountInv, ExitInv
    <3>2. worker'[w].pc = "write" /\ \A v \in Workers \ {w} : worker'[v] = worker[v]
      BY <1>5, <2>4, SetWorkerEffect DEF TypeInv
    <3> QED BY <3>1, <3>2
  <2> QED BY <1>1, <1>3, <2>6, <2>7, ServingKept DEF Serving
<1>6. CASE queue.buf = <<>> /\ ~queue.open /\ SetWorker(w, "exit", NoEntry, 0) /\ UNCHANGED queue
  <2>1. InHand \subseteq InHand' \cup {NoEntry}
    BY <1>2, <1>6, WorkerTaskKinds, HandEffect DEF TypeInv
  <2>2. InQueue' = InQueue
    BY <1>6 DEF InQueue
  <2>3. Accounted'
    BY <1>3, <1>4, <2>1, <2>2, InHandIs DEF AccountInv, Accounted
  <2> QED BY <1>1, <1>3, <1>6, <2>3, ServingKept DEF Serving
<1> QED BY <1>5, <1>6 DEF Receive

\* A worker's step that does not touch the queue.
LEMMA WorkerKept ==
    ASSUME TypeInv, AccountInv, Serving, UNCHANGED <<life, recovery, queue, accepted>>,
           NEW w \in Workers, NEW pc, NEW e, NEW n, SetWorker(w, pc, e, n), pc # "exit",
           [pc |-> pc, entry |-> e, tries |-> n] \in WorkerTasks,
           lost \subseteq lost', disk \subseteq disk', orphan \subseteq orphan', Stored \subseteq Stored',
           worker[w].entry \in {e} \cup lost' \cup disk' \cup orphan' \cup Stored'
    PROVE  AccountInv'
<1>1. InQueue' = InQueue
  BY DEF InQueue
<1>2. InHand \subseteq InHand' \cup {worker[w].entry} /\ (e # NoEntry => e \in InHand')
  BY HandEffect DEF TypeInv
<1>3. Accounted'
  BY <1>1, <1>2, InHandIs DEF AccountInv, Accounted
<1>4. worker'[w].pc = pc /\ \A v \in Workers \ {w} : worker'[v] = worker[v]
  BY SetWorkerEffect DEF TypeInv
<1>5. ((\E v \in Workers : worker[v].pc = "exit") => queue.buf = <<>> /\ ~queue.open)'
  BY <1>4 DEF AccountInv, ExitInv
<1> QED BY <1>3, <1>5, ServingKept DEF Serving

LEMMA WorkerWriteAccount ==
    ASSUME TypeInv, AccountInv, NEW w \in Workers, WorkerWrite(w)
    PROVE  AccountInv'
<1>0. worker[w] \in WorkerTasks /\ worker[w].pc = "write" /\ Alive
  BY DEF WorkerWrite, TypeInv, WorkersOK
<1>1. Serving
  BY <1>0, BusyIsServing
<1>2. PICK e \in Entries \ Metrics : e = worker[w].entry
  BY <1>0, WorkerTaskFields
<1>3. DbOK /\ tally \in Tallies
  BY DEF TypeInv, ProcessOK
<1>4. UNCHANGED <<life, recovery, queue, accepted, lost, disk, orphan>>
  BY DEF WorkerWrite, files
<1>5. CASE Exec(e, TRUE) /\ SetWorker(w, "idle", NoEntry, 0)
  <2>1. Stored \subseteq Stored' /\ e \in Stored'
    BY <1>3, <1>5, StoredGrows
  <2>2. [pc |-> "idle", entry |-> NoEntry, tries |-> 0] \in WorkerTasks
    BY WorkerTaskKinds
  <2> QED BY <1>1, <1>2, <1>4, <1>5, <2>1, <2>2, WorkerKept
<1>6. CASE Exec(e, FALSE)
  <2>1. Stored \subseteq Stored'
    BY <1>3, <1>6, StoredGrows
  <2>2. CASE SetWorker(w, "fallback", e, 0)
    <3>1. [pc |-> "fallback", entry |-> e, tries |-> 0] \in WorkerTasks
      BY WorkerTaskKinds
    <3> QED BY <1>1, <1>2, <1>4, <2>1, <2>2, <3>1, WorkerKept
  <2>3. CASE SetWorker(w, "write", e, worker[w].tries + 1)
    <3>1. worker[w].tries + 1 \in Nat
      BY <1>0, WorkerTaskFields
    <3>2. [pc |-> "write", entry |-> e, tries |-> worker[w].tries + 1] \in WorkerTasks
      BY <3>1, WorkerTaskKinds
    <3> QED BY <1>1, <1>2, <1>4, <2>1, <2>3, <3>2, WorkerKept
  <2>4. CASE SetWorker(w, "idle", NoEntry, 0) /\ Exec(e, TRUE)
    BY <2>4, <1>5
  <2> QED BY <1>2, <2>2, <2>3, <2>4 DEF WorkerWrite, AfterLastRetry
<1> QED BY <1>2, <1>5, <1>6 DEF WorkerWrite

LEMMA WorkerFallbackAccount ==
    ASSUME TypeInv, AccountInv, NEW w \in Workers, WorkerFallback(w) \/ WorkerFallbackFails(w)
    PROVE  AccountInv'
<1>0. worker[w] \in WorkerTasks /\ worker[w].pc = "fallback" /\ Alive
  BY DEF WorkerFallback, WorkerFallbackFails, TypeInv, WorkersOK
<1>1. Serving
  BY <1>0, BusyIsServing
<1>2. worker[w].entry \in Entries \ Metrics
  BY <1>0, WorkerTaskFields
<1>3. UNCHANGED <<life, recovery, queue, accepted, db>> /\ SetWorker(w, "idle", NoEntry, 0)
  BY DEF WorkerFallback, WorkerFallbackFails
<1>4. Stored' = Stored
  BY <1>3 DEF Stored
<1>5. /\ lost \subseteq lost' /\ disk \subseteq disk' /\ orphan \subseteq orphan'
      /\ worker[w].entry \in lost' \cup disk' \cup orphan'
  <2>1. CASE WorkerFallback(w)
    BY <2>1, <1>2, AppendEffect DEF WorkerFallback, TypeInv
  <2>2. CASE WorkerFallbackFails(w)
    BY <2>2 DEF WorkerFallbackFails, files
  <2> QED BY <2>1, <2>2
<1>6. [pc |-> "idle", entry |-> NoEntry, tries |-> 0] \in WorkerTasks
  BY WorkerTaskKinds
<1> QED BY <1>1, <1>3, <1>4, <1>5, <1>6, WorkerKept

\* A step that touches neither the memory of the queue nor its file.
LEMMA OutsideKept ==
    ASSUME AccountInv, Stored \subseteq Stored',
           UNCHANGED <<life, queue, worker, caller, recovery, disk, orphan, lost, accepted>>
    PROVE  AccountInv'
<1>1. InQueue' = InQueue /\ InHand' = InHand
  BY DEF InQueue, InHand
<1>2. Accounted'
  BY <1>1 DEF AccountInv, Accounted
<1>3. ReplayInv'
  BY DEF AccountInv, ReplayInv
<1>4. ExitInv' /\ FreshInv'
  BY DEF AccountInv, ExitInv, FreshInv
<1>5. DeadInv'
  BY <1>1 DEF AccountInv, DeadInv
<1> QED BY <1>2, <1>3, <1>4, <1>5 DEF AccountInv

LEMMA OutsideAccount ==
    ASSUME TypeInv, AccountInv, Batching \/ Outage \/ Repair \/ UNCHANGED vars
    PROVE  AccountInv'
<1>1. UNCHANGED <<life, queue, worker, caller, recovery, disk, orphan, lost, accepted>>
  BY DEF Batching, BatchMetric, StartFlush, FlushMetric, Outage, Repair, vars, memory, files
<1>2. Stored \subseteq Stored'
  <2>1. CASE UNCHANGED db
    BY <2>1 DEF Stored
  <2>2. CASE FlushMetric
    <3>1. PICK e \in Entries, ok \in BOOLEAN : Exec(e, ok)
      BY <2>2, FlushEffect, EntriesAssumption
    <3> QED BY <3>1, StoredGrows DEF TypeInv, ProcessOK
  <2> QED BY <2>1, <2>2 DEF Batching, BatchMetric, StartFlush, Outage, Repair, vars
<1> QED BY <1>1, <1>2, OutsideKept

LEMMA ClosingAccount ==
    ASSUME TypeInv, AccountInv, MarkClosed \/ CloseQueue \/ CloseMetrics
    PROVE  AccountInv'
<1>1. Serving /\ Serving' /\ UNCHANGED <<recovery, worker, disk, orphan, lost, accepted, db>>
  BY DEF MarkClosed, CloseQueue, CloseMetrics, Serving, files
<1>2. queue'.buf = queue.buf /\ (~queue.open => ~queue'.open)
  BY DEF MarkClosed, CloseQueue, CloseMetrics, TypeInv, QueueOK
<1>3. InQueue' = InQueue /\ InHand' = InHand /\ Stored' = Stored
  BY <1>1, <1>2 DEF InQueue, InHand, Stored
<1>4. Accounted'
  BY <1>1, <1>3 DEF AccountInv, Accounted
<1>5. ((\E w \in Workers : worker[w].pc = "exit") => queue.buf = <<>> /\ ~queue.open)'
  BY <1>1, <1>2 DEF AccountInv, ExitInv
<1> QED BY <1>1, <1>4, <1>5, ServingKept

LEMMA EndAccount ==
    ASSUME TypeInv, AccountInv, Exit \/ Crash
    PROVE  AccountInv'
<1>1. UNCHANGED <<queue, worker, caller, recovery, disk, orphan, accepted, db>>
  BY DEF Exit, Crash, memory, files
<1>2. InQueue' = InQueue /\ InHand' = InHand /\ Stored' = Stored
  BY <1>1 DEF InQueue, InHand, Stored
<1>3. lost \subseteq lost'
  BY DEF Exit, Crash
<1>4. Accounted'
  BY <1>1, <1>2, <1>3 DEF AccountInv, Accounted
<1>5. ExitInv'
  BY <1>1 DEF AccountInv, ExitInv, Exit, Crash
<1>6. FreshInv'
  BY DEF FreshInv, Exit, Crash
<1>7. ReplayInv'
  BY <1>1, <1>2 DEF AccountInv, ReplayInv, Exit, Crash
<1>8. DeadInv'
  BY <1>2 DEF DeadInv, Exit, Crash
<1> QED BY <1>4, <1>5, <1>6, <1>7, <1>8 DEF AccountInv

\* A process that ended had nothing in memory that is not accounted for.
LEMMA MemoryOfEnded ==
    ASSUME TypeInv, AccountInv, life \in {"exited", "dead"}
    PROVE  InQueue \cup InHand \subseteq lost
<1>1. CASE life = "exited"
  <2>1. \A w \in Workers : worker[w].pc = "exit"
    BY <1>1 DEF AccountInv, ExitInv
  <2>2. InHand = {}
    <3>1. \A w \in Workers : worker[w].entry = NoEntry
      BY <2>1, WorkerTaskFields DEF TypeInv, WorkersOK
    <3> QED BY <3>1, InHandIs
  <2>3. queue.buf = <<>>
    BY <2>1, WorkersAssumption DEF AccountInv, ExitInv
  <2>4. InQueue = {}
    BY <2>3, EmptyRange DEF InQueue
  <2> QED BY <2>2, <2>4
<1>2. CASE life = "dead"
  BY <1>2 DEF AccountInv, DeadInv
<1> QED BY <1>1, <1>2

LEMMA NewAuditQueueAccount ==
    ASSUME TypeInv, AccountInv, NewAuditQueue
    PROVE  AccountInv'
<1>1. UNCHANGED <<disk, orphan, db, accepted, lost>> /\ life' = "starting" /\ queue' = OpenChannel
  BY DEF NewAuditQueue, FreshMemory
<1>2. /\ \A w \in Workers : worker'[w].pc = "idle"
      /\ \A c \in Callers : caller'[c].pc = "idle"
  BY DEF NewAuditQueue, FreshMemory, IdleTask
<1>3. Stored' = Stored
  BY <1>1 DEF Stored
<1>4. InQueue \cup InHand \subseteq lost
  BY MemoryOfEnded DEF NewAuditQueue
<1>5. Accounted'
  BY <1>1, <1>3, <1>4 DEF AccountInv, Accounted
<1>6. ReplayInv'
  BY DEF ReplayInv, NewAuditQueue, FreshMemory, NoRecovery
<1> QED BY <1>1, <1>2, <1>5, <1>6 DEF AccountInv, ExitInv, FreshInv, DeadInv

LEMMA ReadFallbackAccount ==
    ASSUME TypeInv, AccountInv, ReadFallback \/ ReadFallbackFails
    PROVE  AccountInv'
<1>1. UNCHANGED <<queue, worker, caller, disk, orphan, db, accepted, lost>>
  BY DEF ReadFallback, ReadFallbackFails, files
<1>2. InQueue' = InQueue /\ InHand' = InHand /\ Stored' = Stored
  BY <1>1 DEF InQueue, InHand, Stored
<1>3. Accounted'
  BY <1>1, <1>2 DEF AccountInv, Accounted
<1>4. ExitInv' /\ FreshInv' /\ DeadInv'
  BY <1>1 DEF AccountInv, ExitInv, FreshInv, DeadInv, ReadFallback, ReadFallbackFails
<1>5. ReplayInv'
  <2>3. CASE ReadFallbackFails
    BY <2>3 DEF ReplayInv, ReadFallbackFails, NoRecovery
  <2>1. CASE ReadFallback /\ UNCHANGED recovery
    BY <2>1 DEF ReplayInv, ReadFallback
  <2>2. CASE ReadFallback /\ recovery' = [NoRecovery EXCEPT !.pc = "replay", !.todo = disk] /\ UNCHANGED life
    <3>1. recovery'.todo = disk
      BY <2>2 DEF NoRecovery
    <3> QED BY <2>2, <3>1, <1>1 DEF ReplayInv, ReadFallback
  <2> QED BY <2>1, <2>2, <2>3 DEF ReadFallback
<1> QED BY <1>3, <1>4, <1>5 DEF AccountInv

LEMMA ReplayAccount ==
    ASSUME TypeInv, AccountInv, Replay
    PROVE  AccountInv'
<1>1. PICK e \in Entries, ok \in BOOLEAN :
         /\ Exec(e, ok)
         /\ recovery.todo \subseteq recovery'.todo \cup {e} /\ recovery.failed \subseteq recovery'.failed
         /\ e \in recovery'.todo \cup recovery'.failed \cup Stored'
  <2>1. PICK e \in recovery.todo, ok \in BOOLEAN :
             /\ e \in Entries \ Metrics /\ Exec(e, ok)
             /\ \/ /\ ok /\ recovery'.todo = recovery.todo \ {e} /\ recovery'.failed = recovery.failed
                \/ /\ recovery'.todo = recovery.todo \ {e} /\ recovery'.failed = recovery.failed \cup {e}
                \/ /\ recovery'.todo = recovery.todo /\ recovery'.failed = recovery.failed
    BY ReplayEffect
  <2>2. ok => e \in Stored'
    BY <2>1, StoredGrows DEF TypeInv, ProcessOK
  <2> QED BY <2>1, <2>2
<1>2. Stored \subseteq Stored'
  BY <1>1, StoredGrows DEF TypeInv, ProcessOK
<1>3. UNCHANGED <<life, queue, worker, caller, disk, orphan, accepted, lost>>
  BY DEF Replay, files
<1>4. InQueue' = InQueue /\ InHand' = InHand
  BY <1>3 DEF InQueue, InHand
<1>5. Accounted'
  BY <1>2, <1>3, <1>4 DEF AccountInv, Accounted
<1>6. ExitInv' /\ FreshInv' /\ DeadInv'
  BY <1>3, <1>4 DEF AccountInv, ExitInv, FreshInv, DeadInv
<1>7. ReplayInv'
  BY <1>1, <1>2, <1>3 DEF AccountInv, ReplayInv, Replay
<1> QED BY <1>5, <1>6, <1>7 DEF AccountInv

LEMMA RewriteAccount ==
    ASSUME TypeInv, AccountInv, RewriteFallback \/ RewriteFails
    PROVE  AccountInv'
<1>1. /\ UNCHANGED <<queue, worker, caller, orphan, db, accepted>>
      /\ life = "starting" /\ life' = "running" /\ recovery.pc = "replay" /\ recovery.todo = {}
      /\ recovery' = [NoRecovery EXCEPT !.pc = "done"]
  BY DEF RewriteFallback, RewriteFails, files
<1>2. InQueue' = InQueue /\ InHand' = InHand /\ Stored' = Stored
  BY <1>1 DEF InQueue, InHand, Stored
<1>3. lost \subseteq lost' /\ disk \subseteq disk' \cup lost' \cup Stored
  <2>1. disk \subseteq recovery.failed \cup Stored
    BY <1>1 DEF AccountInv, ReplayInv
  <2> QED BY <2>1 DEF RewriteFallback, Rewritten, RewriteFails, files
<1>4. Accounted'
  BY <1>1, <1>2, <1>3 DEF AccountInv, Accounted
<1>5. ExitInv' /\ FreshInv' /\ DeadInv'
  BY <1>1 DEF AccountInv, ExitInv, FreshInv, DeadInv
<1>6. ReplayInv'
  BY <1>1 DEF ReplayInv, NoRecovery
<1> QED BY <1>4, <1>5, <1>6 DEF AccountInv

LEMMA NextAccount == TypeInv /\ AccountInv /\ [Next]_vars => AccountInv'
<1> SUFFICES ASSUME TypeInv, AccountInv, [Next]_vars PROVE AccountInv'
  OBVIOUS
<1>1. CASE UNCHANGED vars \/ Done \/ Batching \/ Outage \/ Repair
  BY <1>1, OutsideAccount DEF Done
<1>2. CASE \E c \in Callers : Log(c) \/ Logging(c)
  BY <1>2, CallerAccount, LogSyncAccount, SendAccount DEF Logging
<1>3. CASE \E w \in Workers : Working(w)
  BY <1>3, ReceiveAccount, WorkerWriteAccount, WorkerFallbackAccount DEF Working
<1>4. CASE MarkClosed \/ Shutdown \/ Crash \/ NewAuditQueue
  BY <1>4, ClosingAccount, EndAccount, NewAuditQueueAccount DEF Shutdown
<1>5. CASE Recovering
  BY <1>5, ReadFallbackAccount, ReplayAccount, RewriteAccount DEF Recovering
<1>6. CASE DiskFails
  BY <1>6, CallerAccount, WorkerFallbackAccount, ReadFallbackAccount, RewriteAccount DEF DiskFails
<1> QED BY <1>1, <1>2, <1>3, <1>4, <1>5, <1>6 DEF Next

LEMMA AccountInvHolds == Spec => []AccountInv
BY InitAccount, NextAccount, TypeInvHolds, PTL DEF Spec

\* No entry for which a Log* method returned nil is dropped in silence, for any
\* sizes of the queue and any number of outages, crashes, disk errors and
\* restarts: a clean shutdown drains the queue and the hands of the workers
\* before the process ends, and recovery keeps what it did not store.  The one
\* exception are the unreadable entries, written to a file that a recovery has
\* replaced (RecoverFromFallback).
THEOREM NothingIsDropped == Spec => []AcceptedIsAccounted
<1>1. TypeInv /\ AccountInv => AcceptedIsAccounted
  <2> SUFFICES ASSUME TypeInv, AccountInv PROVE AcceptedIsAccounted
    OBVIOUS
  <2>1. CASE replaced
    BY <2>1 DEF AccountInv, Accounted, AcceptedIsAccounted, Unreadable
  <2>2. CASE ~replaced
    <3>1. orphan = {}
      BY <2>2 DEF TypeInv, FilesOK
    <3> QED BY <2>2, <3>1 DEF AccountInv, Accounted, AcceptedIsAccounted, Unreadable
  <2> QED BY <2>1, <2>2
<1> QED BY <1>1, TypeInvHolds, AccountInvHolds, PTL

\* As long as no recovery has replaced the file under the queue, a clean shutdown
\* leaves every accepted entry in the database or in the file that the next start
\* replays, unless a crash or a disk error took it: nothing stays in the memory
\* that ends with the process, and nothing in a file without a name.
THEOREM ExitIsRecoverable == Spec => []RecoverableAfterExit
<1>1. TypeInv /\ AccountInv => RecoverableAfterExit
  <2> SUFFICES ASSUME TypeInv, AccountInv, life = "exited", ~replaced
               PROVE  accepted \ Metrics \subseteq Stored \cup disk \cup lost
    BY DEF RecoverableAfterExit
  <2>1. orphan = {}
    BY DEF TypeInv, FilesOK
  <2>2. \A w \in Workers : worker[w].pc = "exit" /\ worker[w].entry = NoEntry
    BY DEF AccountInv, ExitInv, TypeInv, WorkersOK, WorkerTasks
  <2>3. InHand = {}
    BY <2>2, InHandIs
  <2>4. InQueue = {}
    <3>1. queue.buf = <<>>
      BY <2>2, WorkersAssumption DEF AccountInv, ExitInv
    <3> QED BY <3>1 DEF InQueue, Range
  <2> QED BY <2>1, <2>3, <2>4 DEF AccountInv, Accounted
<1> QED BY <1>1, TypeInvHolds, AccountInvHolds, PTL

-----------------------------------------------------------------------------
(* The fallback file.                                                      *)

LEMMA NextForgetsNothing ==
    TypeInv /\ AccountInv /\ [Next]_vars =>
        (tally'.diskFaults = tally.diskFaults => disk \subseteq disk' \cup Stored')
<1> SUFFICES ASSUME TypeInv, AccountInv, [Next]_vars, tally'.diskFaults = tally.diskFaults
             PROVE  disk \subseteq disk' \cup Stored'
  OBVIOUS
<1>1. CASE UNCHANGED vars \/ Done \/ Batching \/ Outage \/ Repair
  BY <1>1 DEF Done, Batching, BatchMetric, StartFlush, FlushMetric, Outage, Repair, vars, files
<1>2. CASE \E c \in Callers : Log(c) \/ Logging(c)
  BY <1>2 DEF Log, Logging, LogSync, LogMetric, CheckClosed, Send, WriteToFallback, Append2Fallback, files
<1>3. CASE \E w \in Workers : Working(w)
  BY <1>3 DEF Working, Receive, WorkerWrite, WorkerFallback, Append2Fallback, files
<1>4. CASE MarkClosed \/ Shutdown \/ Crash \/ NewAuditQueue
  BY <1>4 DEF MarkClosed, Shutdown, CloseQueue, CloseMetrics, Exit, Crash, NewAuditQueue, files
<1>5. CASE ReadFallback \/ Replay
  BY <1>5 DEF ReadFallback, Replay, files
<1>6. CASE RewriteFallback
  <2>1. disk \subseteq recovery.failed \cup Stored /\ disk' = recovery.failed /\ UNCHANGED db
    BY <1>6 DEF RewriteFallback, Rewritten, AccountInv, ReplayInv
  <2>2. Stored' = Stored
    BY <2>1 DEF Stored
  <2> QED BY <2>1, <2>2
<1>7. CASE DiskFails
  <2>1. DiskFault
    BY <1>7 DEF DiskFails, ReadFallbackFails, RewriteFails, WriteToFallbackFails, WorkerFallbackFails
  <2>2. tally \in Tallies /\ tally'.diskFaults = tally.diskFaults + 1
    BY <2>1 DEF DiskFault, TypeInv, ProcessOK, Tallies
  <2> QED BY <2>2 DEF Tallies
<1> QED BY <1>1, <1>2, <1>3, <1>4, <1>5, <1>6, <1>7 DEF Next, Recovering

\* No step takes an entry out of the fallback file that is not in the database,
\* as long as the disk does not fail: neither a replay, nor the rewriting of the
\* file, nor a crash between any two steps (RecoverFromFallback).
THEOREM RecoveryForgetsNothing == Spec => FallbackNeverForgets
<1>1. Spec => [][Next]_vars
  BY DEF Spec
<1>2. TypeInv /\ AccountInv /\ [Next]_vars
         => [tally'.diskFaults = tally.diskFaults => disk \subseteq disk' \cup Stored']_vars
  BY NextForgetsNothing
<1> QED BY <1>1, <1>2, TypeInvHolds, AccountInvHolds, PTL DEF FallbackNeverForgets

-----------------------------------------------------------------------------
(* Stored at most once.  While no acknowledgement was lost, no write to the *)
(* disk failed and no process died, an entry is in one place at a time and *)
(* leaves the last of them when it is stored.                              *)

Clean == tally.lostAcks = 0 /\ tally.crashes = 0 /\ tally.diskFaults = 0

AtCallers == {caller[c].entry : c \in Callers} \ {NoEntry}
InMetrics == Range(metrics.buf)
InBatch   == Range(batcher.batch)

\* Entries of the file that are not stored.
ToReplay == IF recovery.pc = "replay" THEN recovery.todo \cup recovery.failed ELSE disk

Pending == AtCallers \cup InQueue \cup InHand \cup InMetrics \cup InBatch \cup ToReplay
Places  == AtCallers \cup InQueue \cup InHand \cup InMetrics \cup InBatch \cup disk

CallersApart == \A c, d \in Callers :
    caller[c].entry = caller[d].entry /\ caller[c].entry # NoEntry => c = d
WorkersApart == \A v, w \in Workers :
    worker[v].entry = worker[w].entry /\ worker[v].entry # NoEntry => v = w
BuffersDistinct == Distinct(queue.buf) /\ Distinct(metrics.buf) /\ Distinct(batcher.batch)

PlacesDisjoint ==
    /\ AtCallers \cap (InQueue \cup InHand \cup InMetrics \cup InBatch \cup disk) = {}
    /\ InQueue \cap (InHand \cup disk) = {} /\ InHand \cap disk = {}
    /\ InMetrics \cap InBatch = {}

OnePlace == CallersApart /\ WorkersApart /\ BuffersDistinct /\ PlacesDisjoint

ReplayParts ==
    recovery.pc = "replay" => /\ recovery.todo \cup recovery.failed \subseteq disk
                              /\ recovery.todo \cap recovery.failed = {}

StoredInv ==
    /\ \A e \in Pending : db[e] = 0
    /\ Places \cup Stored \subseteq logged
    /\ \A e \in Entries : db[e] =< 1

OnceInv == Clean => life # "dead" /\ OnePlace /\ ReplayParts /\ StoredInv

LEMMA AtCallersIs ==
    \A e : e \in AtCallers <=> e # NoEntry /\ \E c \in Callers : caller[c].entry = e
BY DEF AtCallers

\* Metrics and other entries are never in the same place.
LEMMA PlacesTyped ==
    ASSUME TypeInv
    PROVE  /\ AtCallers \subseteq Entries /\ InQueue \cup InHand \cup disk \subseteq Entries \ Metrics
           /\ InMetrics \cup InBatch \subseteq Metrics
           /\ ToReplay \subseteq Entries \ Metrics
<1>1. \A c \in Callers : caller[c].entry # NoEntry => caller[c].entry \in Entries
  BY CallerTaskFields DEF TypeInv, CallersOK
<1>2. AtCallers \subseteq Entries
  BY <1>1 DEF AtCallers
<1>3. metrics.buf \in Seq(Metrics) /\ batcher.batch \in Seq(Metrics)
  BY DEF TypeInv, MetricsOK, BatcherOK
<1>4. InMetrics \cup InBatch \subseteq Metrics
  BY <1>3, RangeIs DEF InMetrics, InBatch
<1>5. disk \subseteq Entries \ Metrics /\ ToReplay \subseteq Entries \ Metrics
  BY DEF TypeInv, FilesOK, RecoveryOK, ToReplay
<1> QED BY <1>2, <1>4, <1>5, InMemory

LEMMA CallerMove ==
    ASSUME CallersOK, NEW c \in Callers, NEW pc, NEW e, NEW n, SetCaller(c, pc, e, n),
           [pc |-> pc, entry |-> e, tries |-> n] \in CallerTasks,
           CallersApart, e = caller[c].entry \/ e \notin AtCallers
    PROVE  /\ CallersApart'
           /\ AtCallers' = (AtCallers \ {caller[c].entry}) \cup ({e} \ {NoEntry})
<1>1. caller'[c].entry = e /\ \A d \in Callers \ {c} : caller'[d] = caller[d]
  BY SetCallerEffect
<1>2. \A f : f \in AtCallers' <=> f # NoEntry /\ \E d \in Callers : caller'[d].entry = f
  BY DEF AtCallers
<1>3. \A d \in Callers \ {c} : caller[d].entry = e => e = NoEntry
  BY AtCallersIs DEF CallersApart
<1>4. CallersApart'
  BY <1>1, <1>3 DEF CallersApart
<1>5. \A f : f \in AtCallers' <=> f \in (AtCallers \ {caller[c].entry}) \cup ({e} \ {NoEntry})
  <2>1. \A d \in Callers \ {c} : caller[d].entry # NoEntry => caller[d].entry # caller[c].entry
    BY DEF CallersApart
  <2> QED BY <1>1, <1>2, <2>1, AtCallersIs
<1> QED BY <1>4, <1>5

LEMMA WorkerMove ==
    ASSUME WorkersOK, NEW w \in Workers, NEW pc, NEW e, NEW n, SetWorker(w, pc, e, n),
           [pc |-> pc, entry |-> e, tries |-> n] \in WorkerTasks,
           WorkersApart, e = worker[w].entry \/ e \notin InHand
    PROVE  /\ WorkersApart'
           /\ InHand' = (InHand \ {worker[w].entry}) \cup ({e} \ {NoEntry})
<1>1. worker'[w].entry = e /\ \A v \in Workers \ {w} : worker'[v] = worker[v]
  BY SetWorkerEffect
<1>2. \A f : f \in InHand' <=> f # NoEntry /\ \E v \in Workers : worker'[v].entry = f
  BY DEF InHand
<1>3. \A v \in Workers \ {w} : worker[v].entry = e => e = NoEntry
  BY InHandIs DEF WorkersApart
<1>4. WorkersApart'
  BY <1>1, <1>3 DEF WorkersApart
<1>5. \A f : f \in InHand' <=> f \in (InHand \ {worker[w].entry}) \cup ({e} \ {NoEntry})
  <2>1. \A v \in Workers \ {w} : worker[v].entry # NoEntry => worker[v].entry # worker[w].entry
    BY DEF WorkersApart
  <2> QED BY <1>1, <1>2, <2>1, InHandIs
<1> QED BY <1>4, <1>5

\* Steps that write nothing to the database.
LEMMA MovedStored ==
    ASSUME StoredInv, UNCHANGED db, Pending' \subseteq Pending, Places' \subseteq Places, logged' = logged
    PROVE  StoredInv'
<1>1. Stored' = Stored
  BY DEF Stored
<1> QED BY <1>1 DEF StoredInv

\* An attempt to store one of the pending entries.
LEMMA WrittenStored ==
    ASSUME TypeInv, StoredInv, Clean', NEW e \in Entries, NEW ok \in BOOLEAN, Exec(e, ok),
           e \in Pending, e \in Places,
           Pending' \subseteq (IF ok THEN Pending \ {e} ELSE Pending),
           Places' \subseteq Places, logged' = logged
    PROVE  StoredInv'
<1>1. /\ \A f \in Entries : f # e => db'[f] = db[f]
      /\ db'[e] = db[e] \/ db'[e] = db[e] + 1
      /\ ~ok /\ tally'.lostAcks = 0 => db'[e] = db[e]
      /\ DbOK /\ DbOK'
  BY ExecEffect DEF TypeInv, ProcessOK
<1>2. db[e] = 0
  BY DEF StoredInv
<1>3. \A f \in Entries : f \notin Pending' \/ db'[f] = 0
  BY <1>1, <1>2 DEF StoredInv, Clean
<1>4. \A f \in Pending' : db'[f] = 0
  <2>1. Pending \subseteq Entries
    BY PlacesTyped, EntriesAssumption DEF Pending
  <2> QED BY <1>3, <2>1
<1>5. Stored' \subseteq Stored \cup {e}
  BY <1>1 DEF Stored
<1>6. \A f \in Entries : db'[f] =< 1
  BY <1>1, <1>2 DEF StoredInv
<1> QED BY <1>4, <1>5, <1>6 DEF StoredInv

LEMMA CleanBefore ==
    ASSUME TypeInv, UNCHANGED tally
               \/ (\E e \in Entries, ok \in BOOLEAN : Exec(e, ok)) \/ NewAuditQueue \/ Outage,
           Clean'
    PROVE  Clean
<1>1. tally \in Tallies /\ DbOK
  BY DEF TypeInv, ProcessOK
<1>2. CASE UNCHANGED tally
  BY <1>2 DEF Clean
<1>3. CASE \E e \in Entries, ok \in BOOLEAN : Exec(e, ok)
  <2>1. /\ tally'.lostAcks >= tally.lostAcks
        /\ tally'.diskFaults = tally.diskFaults /\ tally'.crashes = tally.crashes
    BY <1>1, <1>3, ExecEffect
  <2> QED BY <1>1, <2>1 DEF Clean, Tallies
<1>4. CASE NewAuditQueue \/ Outage
  BY <1>1, <1>4 DEF Clean, NewAuditQueue, Outage, Tallies
<1> QED BY <1>2, <1>3, <1>4

LEMMA InitOnce == Init => OnceInv
<1> SUFFICES ASSUME Init PROVE OnceInv
  OBVIOUS
<1> USE DEF Init
<1>1. InQueue = {} /\ InMetrics = {} /\ InBatch = {} /\ BuffersDistinct
  BY EmptyRange DEF InQueue, InMetrics, InBatch, BuffersDistinct, OpenChannel, IdleBatcher
<1>2. AtCallers = {} /\ InHand = {} /\ CallersApart /\ WorkersApart
  BY DEF AtCallers, InHand, CallersApart, WorkersApart, IdleTask
<1>3. ToReplay = {} /\ ReplayParts
  BY DEF ToReplay, ReplayParts, NoRecovery
<1>4. Pending = {} /\ Places = {} /\ PlacesDisjoint
  BY <1>1, <1>2, <1>3 DEF Pending, Places, PlacesDisjoint
<1>5. Stored = {} /\ \A e \in Entries : db[e] =< 1
  BY DEF Stored
<1> QED BY <1>1, <1>2, <1>3, <1>4, <1>5 DEF OnceInv, OnePlace, StoredInv

\* A process that serves is not recovering.
LEMMA ServingReplay ==
    ASSUME AccountInv, Serving, UNCHANGED recovery
    PROVE  ToReplay = disk /\ ToReplay' = disk' /\ ReplayParts'
BY DEF AccountInv, ReplayInv, Serving, ToReplay, ReplayParts

LEMMA LogOnce ==
    ASSUME TypeInv, AccountInv, OnceInv, NEW c \in Callers, Log(c), Clean'
    PROVE  OnceInv'
<1>1. /\ Serving /\ caller[c] \in CallerTasks /\ caller[c].pc = "idle"
      /\ UNCHANGED <<life, queue, metrics, worker, batcher, recovery, disk, db, tally>>
  BY DEF Log, files, TypeInv, CallersOK
<1>2. Clean /\ OnePlace /\ ReplayParts /\ StoredInv
  BY <1>1, CleanBefore DEF OnceInv
<1>3. PICK e \in Entries \ logged : SetCaller(c, EntryPoint(e), e, 0) /\ logged' = logged \cup {e}
  BY DEF Log
<1>4. [pc |-> EntryPoint(e), entry |-> e, tries |-> 0] \in CallerTasks
  BY EntriesAssumption, CallerTaskKinds DEF EntryPoint
<1>5. e \notin Places /\ db[e] = 0
  <2>1. db[e] \in Nat /\ e \notin Stored
    BY <1>2 DEF StoredInv, TypeInv, DbOK
  <2> QED BY <1>2, <2>1 DEF StoredInv, Stored
<1>6. caller[c].entry = NoEntry
  BY <1>1, CallerTaskFields
<1>7. CallersApart' /\ AtCallers' = AtCallers \cup {e}
  <2>1. CallersApart' /\ AtCallers' = (AtCallers \ {caller[c].entry}) \cup ({e} \ {NoEntry})
    BY <1>2, <1>3, <1>4, <1>5, CallerMove DEF TypeInv, OnePlace, Places
  <2> QED BY <1>6, <2>1, EntriesAssumption DEF AtCallers
<1>8. InQueue' = InQueue /\ InHand' = InHand /\ InMetrics' = InMetrics /\ InBatch' = InBatch
  BY <1>1 DEF InQueue, InHand, InMetrics, InBatch
<1>9. OnePlace'
  <2>1. PlacesDisjoint'
    BY <1>1, <1>2, <1>5, <1>7, <1>8 DEF OnePlace, PlacesDisjoint, Places
  <2>2. WorkersApart' /\ BuffersDistinct'
    BY <1>1, <1>2 DEF OnePlace, WorkersApart, BuffersDistinct
  <2> QED BY <1>7, <2>1, <2>2 DEF OnePlace
<1>10. ReplayParts' /\ ToReplay' = ToReplay
  BY <1>1, ServingReplay
<1>11. StoredInv'
  <2>1. Stored' = Stored
    BY <1>1 DEF Stored
  <2>2. Pending' = Pending \cup {e} /\ Places' = Places \cup {e}
    BY <1>1, <1>7, <1>8, <1>10 DEF Pending, Places
  <2> QED BY <1>1, <1>2, <1>3, <1>5, <2>1, <2>2 DEF StoredInv
<1> QED BY <1>1, <1>9, <1>10, <1>11 DEF OnceInv, Serving

\* A call that ends, or goes on with its entry: its entry stays with it, goes to
\* the queue, the metrics channel or the file, or is dropped.
LEMMA CallerOnce ==
    ASSUME TypeInv, AccountInv, OnceInv, NEW c \in Callers, Clean',
           LogMetric(c) \/ CheckClosed(c) \/ Send(c) \/ WriteToFallback(c)
    PROVE  OnceInv'
<1>1. /\ Alive /\ caller[c] \in CallerTasks /\ caller[c].pc \in {"metric", "check", "send", "fallback"}
      /\ UNCHANGED <<life, worker, batcher, recovery, db, tally, logged>>
  BY DEF LogMetric, CheckClosed, Send, WriteToFallback, TypeInv, CallersOK
<1>2. Clean /\ OnePlace /\ ReplayParts /\ StoredInv
  BY <1>1, CleanBefore DEF OnceInv
<1>3. Serving
  BY <1>1, BusyIsServing
<1>4. PICK e \in Entries : e = caller[c].entry
  BY <1>1, CallerTaskFields, EntriesAssumption
<1>5. e \in AtCallers
  BY <1>4, AtCallersIs, EntriesAssumption
<1>6. PICK f \in {NoEntry, e} : /\ CallersApart' /\ AtCallers' = (AtCallers \ {e}) \cup ({f} \ {NoEntry})
                                /\ f = NoEntry \/ UNCHANGED <<queue, metrics, disk>>
  <2>1. CASE SetCaller(c, "idle", NoEntry, 0) \/ SetCaller(c, "panic", NoEntry, 0)
    <3>1. PICK pc \in {"idle", "panic"} : SetCaller(c, pc, NoEntry, 0)
      BY <2>1
    <3>2. NoEntry \notin AtCallers
      BY DEF AtCallers
    <3>3. CallersApart' /\ AtCallers' = (AtCallers \ {e}) \cup ({NoEntry} \ {NoEntry})
      BY <1>2, <1>4, <3>1, <3>2, CallerTaskKinds, CallerMove DEF TypeInv, OnePlace
    <3> QED BY <3>3
  <2>2. CASE /\ CheckClosed(c) \/ Send(c)
             /\ UNCHANGED <<queue, metrics, disk>>
             /\ SetCaller(c, "fallback", e, 0) \/ SetCaller(c, "send", e, 0)
    <3>1. PICK pc \in {"fallback", "send"} : SetCaller(c, pc, e, 0)
      BY <2>2
    <3>2. e \in Entries \ Metrics
      BY <1>1, <1>4, <2>2, CallerTaskFields DEF CheckClosed, Send
    <3>3. CallersApart' /\ AtCallers' = (AtCallers \ {e}) \cup ({e} \ {NoEntry})
      BY <1>2, <1>4, <3>1, <3>2, CallerTaskKinds, CallerMove DEF TypeInv, OnePlace
    <3> QED BY <2>2, <3>3
  <2> QED BY <1>4, <2>1, <2>2 DEF LogMetric, CheckClosed, Send, WriteToFallback, Accept, Overflow, files
<1>7. InHand' = InHand /\ InBatch' = InBatch /\ WorkersApart' /\ Distinct(batcher'.batch)
  BY <1>1, <1>2 DEF InHand, InBatch, OnePlace, WorkersApart, BuffersDistinct
<1>8. /\ InQueue' = InQueue \/ (InQueue' = InQueue \cup {e} /\ UNCHANGED <<metrics, disk>>)
      /\ InMetrics' = InMetrics \/ (InMetrics' = InMetrics \cup {e} /\ UNCHANGED <<queue, disk>>)
      /\ Distinct(queue'.buf) /\ Distinct(metrics'.buf)
      /\ disk' = disk \/ (disk' = disk \cup {e} /\ UNCHANGED <<queue, metrics>>)
  <2>1. Distinct(queue.buf) /\ Distinct(metrics.buf) /\ e \notin InQueue /\ e \notin InMetrics
    BY <1>2, <1>5 DEF OnePlace, BuffersDistinct, PlacesDisjoint
  <2>2. CASE UNCHANGED <<queue, metrics>>
    <3>1. disk' = disk \/ disk' = disk \cup {e}
      BY <1>4 DEF LogMetric, CheckClosed, Send, WriteToFallback, Append2Fallback, files
    <3> QED BY <2>1, <2>2, <3>1 DEF InQueue, InMetrics
  <2>3. CASE Send(c) /\ queue' = [queue EXCEPT !.buf = Append(@, caller[c].entry)]
    <3>1. queue.buf \in Seq(Entries \ Metrics) /\ queue'.buf = Append(queue.buf, e) /\ e \in Entries \ Metrics
      BY <1>1, <1>4, <2>3, CallerTaskFields DEF TypeInv, QueueOK, Send
    <3>2. InQueue' = InQueue \cup {e} /\ Distinct(queue'.buf)
      BY <2>1, <3>1, AppendRange DEF InQueue
    <3>3. UNCHANGED <<metrics, disk>>
      BY <2>3 DEF Send, files
    <3> QED BY <2>1, <3>2, <3>3 DEF InMetrics
  <2>4. CASE LogMetric(c) /\ metrics' = [metrics EXCEPT !.buf = Append(@, caller[c].entry)]
    <3>1. metrics.buf \in Seq(Metrics) /\ metrics'.buf = Append(metrics.buf, e) /\ e \in Metrics
      BY <1>1, <1>4, <2>4, CallerTaskFields DEF TypeInv, MetricsOK, LogMetric
    <3>2. InMetrics' = InMetrics \cup {e} /\ Distinct(metrics'.buf)
      BY <2>1, <3>1, AppendRange DEF InMetrics
    <3>3. UNCHANGED <<queue, disk>>
      BY <2>4 DEF LogMetric, files
    <3> QED BY <2>1, <3>2, <3>3 DEF InQueue
  <2> QED BY <2>2, <2>3, <2>4 DEF LogMetric, CheckClosed, Send, WriteToFallback
<1>9. ToReplay = disk /\ ToReplay' = disk' /\ ReplayParts'
  BY <1>1, <1>3, ServingReplay
<1>10. InQueue' = InQueue \/ f = NoEntry
  BY <1>6 DEF InQueue
<1>11. InMetrics' = InMetrics \/ f = NoEntry
  BY <1>6 DEF InMetrics
<1>12. /\ UNCHANGED queue => InQueue' = InQueue
       /\ UNCHANGED metrics => InMetrics' = InMetrics
  BY DEF InQueue, InMetrics
<1>13. PlacesDisjoint'
  BY <1>2, <1>5, <1>6, <1>7, <1>8, <1>10, <1>11, <1>12 DEF OnePlace, PlacesDisjoint
<1>14. Pending' \subseteq Pending /\ Places' \subseteq Places
  BY <1>5, <1>6, <1>7, <1>8, <1>9 DEF Pending, Places
<1>15. StoredInv'
  BY <1>1, <1>2, <1>14, MovedStored
<1> QED BY <1>1, <1>3, <1>6, <1>7, <1>8, <1>9, <1>13, <1>15 DEF OnceInv, OnePlace, BuffersDistinct, Serving

LEMMA LogSyncOnce ==
    ASSUME TypeInv, AccountInv, OnceInv, NEW c \in Callers, LogSync(c), Clean'
    PROVE  OnceInv'
<1>1. /\ Alive /\ caller[c] \in CallerTasks /\ caller[c].pc = "sync"
      /\ UNCHANGED <<life, queue, metrics, worker, batcher, recovery, disk, logged>>
  BY DEF LogSync, files, TypeInv, CallersOK
<1>2. PICK e \in Entries \ Metrics : e = caller[c].entry
  BY <1>1, CallerTaskFields
<1>3. PICK ok \in BOOLEAN : /\ Exec(e, ok)
                            /\ \/ SetCaller(c, "idle", NoEntry, 0)
                               \/ ~ok /\ SetCaller(c, "sync", e, caller[c].tries + 1)
  BY <1>2 DEF LogSync, Accept
<1>4. Clean /\ OnePlace /\ ReplayParts /\ StoredInv
  BY <1>3, CleanBefore DEF OnceInv
<1>5. Serving
  BY <1>1, BusyIsServing
<1>6. e \in AtCallers /\ NoEntry \notin AtCallers
  BY <1>2, AtCallersIs, EntriesAssumption
<1>7. CallersApart' /\ AtCallers' \subseteq (IF ok THEN AtCallers \ {e} ELSE AtCallers)
  <2>1. CASE SetCaller(c, "idle", NoEntry, 0)
    <3>1. CallersApart' /\ AtCallers' = (AtCallers \ {e}) \cup ({NoEntry} \ {NoEntry})
      BY <1>2, <1>4, <1>6, <2>1, CallerTaskKinds, CallerMove DEF TypeInv, OnePlace
    <3> QED BY <3>1
  <2>2. CASE ~ok /\ SetCaller(c, "sync", e, caller[c].tries + 1)
    <3>1. caller[c].tries + 1 \in Nat
      BY <1>1, CallerTaskFields
    <3>2. [pc |-> "sync", entry |-> e, tries |-> caller[c].tries + 1] \in CallerTasks
      BY <3>1, CallerTaskKinds
    <3>3. CallersApart' /\ AtCallers' = (AtCallers \ {e}) \cup ({e} \ {NoEntry})
      BY <1>2, <1>4, <2>2, <3>2, CallerMove DEF TypeInv, OnePlace
    <3> QED BY <1>6, <2>2, <3>3
  <2> QED BY <1>3, <2>1, <2>2
<1>8. InQueue' = InQueue /\ InHand' = InHand /\ InMetrics' = InMetrics /\ InBatch' = InBatch
  BY <1>1 DEF InQueue, InHand, InMetrics, InBatch
<1>9. ToReplay = disk /\ ToReplay' = disk' /\ ReplayParts'
  BY <1>1, <1>5, ServingReplay
<1>10. OnePlace'
  <2>1. PlacesDisjoint'
    BY <1>1, <1>4, <1>7, <1>8 DEF OnePlace, PlacesDisjoint
  <2>2. WorkersApart' /\ BuffersDistinct'
    BY <1>1, <1>4 DEF OnePlace, WorkersApart, BuffersDistinct
  <2> QED BY <1>7, <2>1, <2>2 DEF OnePlace
<1>11. /\ e \in Pending /\ e \in Places /\ Places' \subseteq Places
       /\ Pending' \subseteq (IF ok THEN Pending \ {e} ELSE Pending)
  BY <1>1, <1>4, <1>6, <1>7, <1>8, <1>9 DEF Pending, Places, OnePlace, PlacesDisjoint
<1>12. StoredInv'
  BY <1>1, <1>3, <1>4, <1>11, WrittenStored
<1> QED BY <1>1, <1>5, <1>9, <1>10, <1>12 DEF OnceInv, Serving

LEMMA ReceiveOnce ==
    ASSUME TypeInv, AccountInv, OnceInv, NEW w \in Workers, Receive(w), Clean'
    PROVE  OnceInv'
<1>1. /\ Alive /\ worker[w] \in WorkerTasks /\ worker[w].pc = "idle"
      /\ UNCHANGED <<life, metrics, caller, batcher, recovery, disk, db, tally, logged>>
  BY DEF Receive, files, TypeInv, WorkersOK
<1>2. Clean /\ OnePlace /\ ReplayParts /\ StoredInv
  BY <1>1, CleanBefore DEF OnceInv
<1>3. Serving
  BY <1>1, BusyIsServing DEF Receive
<1>4. worker[w].entry = NoEntry /\ NoEntry \notin InHand
  BY <1>1, WorkerTaskFields, InHandIs
<1>5. AtCallers' = AtCallers /\ InMetrics' = InMetrics /\ InBatch' = InBatch /\ CallersApart'
  BY <1>1, <1>2 DEF AtCallers, InMetrics, InBatch, OnePlace, CallersApart
<1>6. /\ WorkersApart' /\ Distinct(queue'.buf)
      /\ InQueue' \cap InHand' = {} /\ InQueue' \cup InHand' = InQueue \cup InHand
  <2>1. CASE queue.buf # <<>> /\ SetWorker(w, "write", Head(queue.buf), 0)
                /\ queue' = [queue EXCEPT !.buf = Tail(@)]
    <3>1. queue.buf \in Seq(Entries \ Metrics) /\ Distinct(queue.buf)
      BY <1>2 DEF TypeInv, QueueOK, OnePlace, BuffersDistinct
    <3>2. queue'.buf = Tail(queue.buf)
      BY <2>1 DEF TypeInv, QueueOK
    <3>3. /\ Head(queue.buf) \in Entries \ Metrics /\ InQueue = {Head(queue.buf)} \cup InQueue'
          /\ Head(queue.buf) \notin InQueue' /\ Distinct(queue'.buf)
      BY <2>1, <3>1, <3>2, TailRange DEF InQueue
    <3>4. [pc |-> "write", entry |-> Head(queue.buf), tries |-> 0] \in WorkerTasks
      BY <3>3, WorkerTaskKinds
    <3>5. Head(queue.buf) \notin InHand
      BY <1>2, <3>3 DEF OnePlace, PlacesDisjoint
    <3>6. WorkersApart' /\ InHand' = (InHand \ {worker[w].entry}) \cup ({Head(queue.buf)} \ {NoEntry})
      BY <1>2, <2>1, <3>4, <3>5, WorkerMove DEF TypeInv, OnePlace
    <3>7. InHand' = InHand \cup {Head(queue.buf)}
      BY <1>4, <3>3, <3>6, EntriesAssumption
    <3> QED BY <1>2, <3>3, <3>6, <3>7 DEF OnePlace, PlacesDisjoint
  <2>2. CASE SetWorker(w, "exit", NoEntry, 0) /\ UNCHANGED queue
    <3>1. WorkersApart' /\ InHand' = (InHand \ {worker[w].entry}) \cup ({NoEntry} \ {NoEntry})
      BY <1>2, <1>4, <2>2, WorkerTaskKinds, WorkerMove DEF TypeInv, OnePlace
    <3>2. InHand' = InHand
      BY <1>4, <3>1
    <3> QED BY <1>2, <2>2, <3>1, <3>2 DEF InQueue, OnePlace, PlacesDisjoint, BuffersDistinct
  <2> QED BY <2>1, <2>2 DEF Receive
<1>7. OnePlace'
  <2>1. PlacesDisjoint'
    BY <1>1, <1>2, <1>5, <1>6 DEF OnePlace, PlacesDisjoint
  <2> QED BY <1>1, <1>2, <1>5, <1>6, <2>1 DEF OnePlace, BuffersDistinct
<1>8. ToReplay' = ToReplay /\ ReplayParts'
  BY <1>1, <1>3, ServingReplay
<1>9. Pending' = Pending /\ Places' = Places
  BY <1>1, <1>5, <1>6, <1>8 DEF Pending, Places
<1>10. StoredInv'
  BY <1>1, <1>2, <1>9, MovedStored
<1> QED BY <1>1, <1>3, <1>7, <1>8, <1>10 DEF OnceInv, Serving

LEMMA WorkerWriteOnce ==
    ASSUME TypeInv, AccountInv, OnceInv, NEW w \in Workers, WorkerWrite(w), Clean'
    PROVE  OnceInv'
<1>1. /\ Alive /\ worker[w] \in WorkerTasks /\ worker[w].pc = "write"
      /\ UNCHANGED <<life, queue, metrics, caller, batcher, recovery, disk, logged>>
  BY DEF WorkerWrite, files, TypeInv, WorkersOK
<1>2. PICK e \in Entries \ Metrics : e = worker[w].entry
  BY <1>1, WorkerTaskFields
<1>3. PICK ok \in BOOLEAN : /\ Exec(e, ok)
                            /\ \/ ok /\ SetWorker(w, "idle", NoEntry, 0)
                               \/ ~ok /\ SetWorker(w, "fallback", e, 0)
                               \/ ~ok /\ SetWorker(w, "write", e, worker[w].tries + 1)
  BY <1>2 DEF WorkerWrite, AfterLastRetry
<1>4. Clean /\ OnePlace /\ ReplayParts /\ StoredInv
  BY <1>3, CleanBefore DEF OnceInv
<1>5. Serving
  BY <1>1, BusyIsServing
<1>6. e \in InHand /\ NoEntry \notin InHand
  BY <1>2, InHandIs, EntriesAssumption
<1>7. WorkersApart' /\ InHand' = (IF ok THEN InHand \ {e} ELSE InHand)
  <2>1. CASE ok /\ SetWorker(w, "idle", NoEntry, 0)
    <3>1. WorkersApart' /\ InHand' = (InHand \ {e}) \cup ({NoEntry} \ {NoEntry})
      BY <1>2, <1>4, <1>6, <2>1, WorkerTaskKinds, WorkerMove DEF TypeInv, OnePlace
    <3> QED BY <2>1, <3>1
  <2>2. CASE ~ok /\ \E pc \in {"fallback", "write"}, n \in Nat : SetWorker(w, pc, e, n)
    <3>1. PICK pc \in {"fallback", "write"}, n \in Nat : SetWorker(w, pc, e, n)
      BY <2>2
    <3>2. [pc |-> pc, entry |-> e, tries |-> n] \in WorkerTasks
      BY WorkerTaskKinds
    <3>3. WorkersApart' /\ InHand' = (InHand \ {e}) \cup ({e} \ {NoEntry})
      BY <1>2, <1>4, <3>1, <3>2, WorkerMove DEF TypeInv, OnePlace
    <3> QED BY <1>6, <2>2, <3>3
  <2>3. worker[w].tries + 1 \in Nat
    BY <1>1, WorkerTaskFields
  <2> QED BY <1>3, <2>1, <2>2, <2>3
<1>8. AtCallers' = AtCallers /\ InQueue' = InQueue /\ InMetrics' = InMetrics /\ InBatch' = InBatch
  BY <1>1 DEF AtCallers, InQueue, InMetrics, InBatch
<1>9. ToReplay = disk /\ ToReplay' = disk' /\ ReplayParts'
  BY <1>1, <1>5, ServingReplay
<1>10. OnePlace'
  <2>1. PlacesDisjoint'
    BY <1>1, <1>4, <1>7, <1>8 DEF OnePlace, PlacesDisjoint
  <2>2. CallersApart' /\ BuffersDistinct'
    BY <1>1, <1>4 DEF OnePlace, CallersApart, BuffersDistinct
  <2> QED BY <1>7, <2>1, <2>2 DEF OnePlace
<1>11. /\ e \in Pending /\ e \in Places /\ Places' \subseteq Places
       /\ Pending' \subseteq (IF ok THEN Pending \ {e} ELSE Pending)
  <2>1. e \notin InMetrics \cup InBatch
    BY PlacesTyped
  <2> QED BY <1>1, <1>4, <1>6, <1>7, <1>8, <1>9, <2>1 DEF Pending, Places, OnePlace, PlacesDisjoint
<1>12. StoredInv'
  BY <1>1, <1>3, <1>4, <1>11, WrittenStored
<1> QED BY <1>1, <1>5, <1>9, <1>10, <1>12 DEF OnceInv, Serving

LEMMA WorkerFallbackOnce ==
    ASSUME TypeInv, AccountInv, OnceInv, NEW w \in Workers, WorkerFallback(w), Clean'
    PROVE  OnceInv'
<1>1. /\ Alive /\ worker[w] \in WorkerTasks /\ worker[w].pc = "fallback"
      /\ UNCHANGED <<life, queue, metrics, caller, batcher, recovery, db, tally, logged>>
  BY DEF WorkerFallback, TypeInv, WorkersOK
<1>2. Clean /\ OnePlace /\ ReplayParts /\ StoredInv
  BY <1>1, CleanBefore DEF OnceInv
<1>3. Serving
  BY <1>1, BusyIsServing
<1>4. PICK e \in Entries \ Metrics : e = worker[w].entry
  BY <1>1, WorkerTaskFields
<1>5. e \in InHand /\ NoEntry \notin InHand
  BY <1>4, InHandIs, EntriesAssumption
<1>6. WorkersApart' /\ InHand' = InHand \ {e}
  <2>1. SetWorker(w, "idle", NoEntry, 0)
    BY DEF WorkerFallback
  <2>2. WorkersApart' /\ InHand' = (InHand \ {e}) \cup ({NoEntry} \ {NoEntry})
    BY <1>2, <1>4, <1>5, <2>1, WorkerTaskKinds, WorkerMove DEF TypeInv, OnePlace
  <2> QED BY <2>2
<1>7. disk' \subseteq disk \cup {e}
  BY <1>4, AppendEffect DEF WorkerFallback, TypeInv
<1>8. AtCallers' = AtCallers /\ InQueue' = InQueue /\ InMetrics' = InMetrics /\ InBatch' = InBatch
  BY <1>1 DEF AtCallers, InQueue, InMetrics, InBatch
<1>9. ToReplay = disk /\ ToReplay' = disk' /\ ReplayParts'
  BY <1>1, <1>3, ServingReplay
<1>10. OnePlace'
  <2>1. PlacesDisjoint'
    BY <1>2, <1>5, <1>6, <1>7, <1>8 DEF OnePlace, PlacesDisjoint
  <2>2. CallersApart' /\ BuffersDistinct'
    BY <1>1, <1>2 DEF OnePlace, CallersApart, BuffersDistinct
  <2> QED BY <1>6, <2>1, <2>2 DEF OnePlace
<1>11. Pending' \subseteq Pending /\ Places' \subseteq Places
  BY <1>5, <1>6, <1>7, <1>8, <1>9 DEF Pending, Places
<1>12. StoredInv'
  BY <1>1, <1>2, <1>11, MovedStored
<1> QED BY <1>1, <1>3, <1>9, <1>10, <1>12 DEF OnceInv, Serving

\* Nothing changes place.
LEMMA StillOnce ==
    ASSUME TypeInv, OnceInv, Clean, life' # "dead",
           UNCHANGED <<caller, worker, recovery, disk, db, logged>>,
           queue'.buf = queue.buf, metrics'.buf = metrics.buf, batcher'.batch = batcher.batch
    PROVE  OnceInv'
<1>1. OnePlace /\ ReplayParts /\ StoredInv
  BY DEF OnceInv
<1>2. /\ AtCallers' = AtCallers /\ InQueue' = InQueue /\ InHand' = InHand
      /\ InMetrics' = InMetrics /\ InBatch' = InBatch /\ ToReplay' = ToReplay
  BY DEF AtCallers, InQueue, InHand, InMetrics, InBatch, ToReplay
<1>3. OnePlace'
  <2>1. PlacesDisjoint'
    BY <1>1, <1>2 DEF OnePlace, PlacesDisjoint
  <2> QED BY <1>1, <2>1 DEF OnePlace, CallersApart, WorkersApart, BuffersDistinct
<1>4. ReplayParts'
  BY <1>1 DEF ReplayParts
<1>5. Pending' = Pending /\ Places' = Places
  BY <1>2 DEF Pending, Places
<1>6. StoredInv'
  BY <1>1, <1>5, MovedStored
<1> QED BY <1>3, <1>4, <1>6 DEF OnceInv

LEMMA LifeOnce ==
    ASSUME TypeInv, OnceInv, Clean',
           \/ MarkClosed \/ CloseQueue \/ CloseMetrics \/ Exit \/ Outage \/ Repair
           \/ StartFlush \/ UNCHANGED vars
    PROVE  OnceInv'
<1>1. UNCHANGED tally \/ Outage
  BY DEF MarkClosed, CloseQueue, CloseMetrics, Exit, Repair, StartFlush, vars
<1>2. Clean
  BY <1>1, CleanBefore
<1>3. UNCHANGED <<caller, worker, recovery, disk, db, logged>>
  BY DEF MarkClosed, CloseQueue, CloseMetrics, Exit, Outage, Repair, StartFlush, vars, memory, files
<1>4. queue'.buf = queue.buf /\ metrics'.buf = metrics.buf
  BY DEF MarkClosed, CloseQueue, CloseMetrics, Exit, Outage, Repair, StartFlush, vars, memory,
         TypeInv, QueueOK, MetricsOK
<1>5. batcher'.batch = batcher.batch
  BY DEF MarkClosed, CloseQueue, CloseMetrics, Exit, Outage, Repair, StartFlush, vars, memory,
         TypeInv, BatcherOK
<1>6. life' # "dead"
  BY <1>2 DEF OnceInv, MarkClosed, CloseQueue, CloseMetrics, Exit, Outage, Repair, StartFlush, vars
<1> QED BY <1>2, <1>3, <1>4, <1>5, <1>6, StillOnce

\* A step of the batcher leaves everything else where it is.
LEMMA BatcherMove ==
    ASSUME OnePlace, ReplayParts, UNCHANGED <<caller, worker, queue, recovery, disk>>,
           InMetrics' \cup InBatch' \subseteq InMetrics \cup InBatch, InMetrics' \cap InBatch' = {},
           Distinct(metrics'.buf), Distinct(batcher'.batch)
    PROVE  /\ OnePlace' /\ ReplayParts' /\ Places' \subseteq Places
           /\ \A e : e \in Pending' => e \in Pending
           /\ \A e \in InMetrics \cup InBatch :
                  e \notin InMetrics' \cup InBatch' \cup InQueue \cup InHand \cup ToReplay => e \notin Pending'
<1>1. /\ AtCallers' = AtCallers /\ InQueue' = InQueue /\ InHand' = InHand /\ ToReplay' = ToReplay
  BY DEF AtCallers, InQueue, InHand, ToReplay
<1>2. OnePlace'
  <2>1. PlacesDisjoint'
    BY <1>1 DEF OnePlace, PlacesDisjoint
  <2> QED BY <2>1 DEF OnePlace, CallersApart, WorkersApart, BuffersDistinct
<1>3. ReplayParts'
  BY DEF ReplayParts
<1> QED BY <1>1, <1>2, <1>3 DEF Pending, Places, OnePlace, PlacesDisjoint

LEMMA BatchMetricOnce ==
    ASSUME TypeInv, OnceInv, BatchMetric, Clean'
    PROVE  OnceInv'
<1>1. /\ UNCHANGED <<life, queue, caller, worker, recovery, disk, db, logged, tally>>
      /\ metrics.buf # <<>> /\ metrics.buf \in Seq(Metrics) /\ batcher.batch \in Seq(Metrics)
  BY DEF BatchMetric, files, TypeInv, MetricsOK, BatcherOK
<1>2. Clean /\ life # "dead" /\ OnePlace /\ ReplayParts /\ StoredInv
  BY <1>1, CleanBefore DEF OnceInv
<1>3. metrics'.buf = Tail(metrics.buf) /\ batcher'.batch = Append(batcher.batch, Head(metrics.buf))
  BY DEF BatchMetric, TypeInv, MetricsOK, BatcherOK
<1>4. /\ Head(metrics.buf) \in Metrics /\ InMetrics = {Head(metrics.buf)} \cup InMetrics'
      /\ Head(metrics.buf) \notin InMetrics' /\ Distinct(metrics'.buf)
  BY <1>1, <1>2, <1>3, TailRange DEF InMetrics, OnePlace, BuffersDistinct
<1>5. Head(metrics.buf) \notin InBatch
  BY <1>2, <1>4 DEF OnePlace, PlacesDisjoint
<1>6. InBatch' = InBatch \cup {Head(metrics.buf)} /\ Distinct(batcher'.batch)
  BY <1>1, <1>2, <1>3, <1>4, <1>5, AppendRange DEF InBatch, OnePlace, BuffersDistinct
<1>7. InMetrics' \cup InBatch' \subseteq InMetrics \cup InBatch /\ InMetrics' \cap InBatch' = {}
  BY <1>2, <1>4, <1>6 DEF OnePlace, PlacesDisjoint
<1>8. OnePlace' /\ ReplayParts' /\ Places' \subseteq Places /\ \A e : e \in Pending' => e \in Pending
  BY <1>1, <1>2, <1>4, <1>6, <1>7, BatcherMove
<1>9. StoredInv'
  BY <1>1, <1>2, <1>8, MovedStored
<1> QED BY <1>1, <1>2, <1>8, <1>9 DEF OnceInv

LEMMA FlushMetricOnce ==
    ASSUME TypeInv, OnceInv, FlushMetric, Clean'
    PROVE  OnceInv'
<1>1. UNCHANGED <<life, queue, metrics, caller, worker, recovery, disk, logged>>
  BY DEF FlushMetric, files
<1>2. PICK e \in Metrics, ok \in BOOLEAN :
         /\ e = Head(batcher.batch) /\ Exec(e, ok)
         /\ batcher'.batch = Tail(batcher.batch) \/ (~ok /\ batcher'.batch = batcher.batch)
  BY FlushEffect
<1>3. e \in Entries
  BY EntriesAssumption
<1>4. Clean /\ life # "dead" /\ OnePlace /\ ReplayParts /\ StoredInv
  BY <1>2, <1>3, CleanBefore DEF OnceInv
<1>5. batcher.batch \in Seq(Metrics) /\ batcher.batch # <<>> /\ Distinct(batcher.batch)
  BY <1>4, FlushEffect DEF OnePlace, BuffersDistinct
<1>6. /\ Range(batcher.batch) = {e} \cup Range(Tail(batcher.batch))
      /\ e \notin Range(Tail(batcher.batch)) /\ Distinct(Tail(batcher.batch))
  BY <1>2, <1>5, TailRange
<1>7. /\ e \in InBatch /\ Distinct(batcher'.batch)
      /\ InBatch' \subseteq (IF ok THEN InBatch \ {e} ELSE InBatch)
  BY <1>2, <1>5, <1>6 DEF InBatch
<1>8. InMetrics' = InMetrics /\ Distinct(metrics'.buf)
  BY <1>1, <1>4 DEF InMetrics, OnePlace, BuffersDistinct
<1>9. InMetrics' \cup InBatch' \subseteq InMetrics \cup InBatch /\ InMetrics' \cap InBatch' = {}
  BY <1>4, <1>7, <1>8 DEF OnePlace, PlacesDisjoint
<1>10. /\ OnePlace' /\ ReplayParts' /\ Places' \subseteq Places /\ \A f : f \in Pending' => f \in Pending
       /\ e \notin InMetrics' \cup InBatch' \cup InQueue \cup InHand \cup ToReplay => e \notin Pending'
  BY <1>1, <1>4, <1>7, <1>8, <1>9, BatcherMove
<1>11. ok => e \notin InMetrics' \cup InBatch' \cup InQueue \cup InHand \cup ToReplay
  BY <1>4, <1>7, <1>8, PlacesTyped DEF OnePlace, PlacesDisjoint
<1>12. e \in Pending /\ e \in Places
  BY <1>7 DEF Pending, Places
<1>13. Pending' \subseteq (IF ok THEN Pending \ {e} ELSE Pending)
  BY <1>10, <1>11
<1>14. StoredInv'
  BY <1>1, <1>2, <1>3, <1>4, <1>10, <1>12, <1>13, WrittenStored
<1> QED BY <1>1, <1>4, <1>10, <1>14 DEF OnceInv

LEMMA NewAuditQueueOnce ==
    ASSUME TypeInv, AccountInv, OnceInv, NewAuditQueue, Clean'
    PROVE  OnceInv'
<1>1. Clean /\ life # "dead" /\ OnePlace /\ ReplayParts /\ StoredInv
  BY CleanBefore DEF OnceInv
<1>2. /\ life' = "starting" /\ UNCHANGED <<disk, db, logged>>
      /\ queue' = OpenChannel /\ metrics' = OpenChannel /\ batcher' = IdleBatcher /\ recovery' = NoRecovery
  BY DEF NewAuditQueue, FreshMemory
<1>3. ToReplay' = disk /\ ToReplay = disk /\ ReplayParts'
  <2>1. recovery.pc # "replay"
    BY <1>1 DEF AccountInv, ReplayInv, NewAuditQueue
  <2> QED BY <1>2, <2>1 DEF ToReplay, ReplayParts, NoRecovery
<1>4. InQueue' = {} /\ InMetrics' = {} /\ InBatch' = {} /\ BuffersDistinct'
  <2>1. queue'.buf = <<>> /\ metrics'.buf = <<>> /\ batcher'.batch = <<>>
    BY <1>2 DEF OpenChannel, IdleBatcher
  <2> QED BY <2>1, EmptyRange DEF InQueue, InMetrics, InBatch, BuffersDistinct
<1>5. AtCallers' = {} /\ InHand' = {} /\ CallersApart' /\ WorkersApart'
  <2>1. /\ \A c \in Callers : caller'[c].entry = NoEntry
        /\ \A w \in Workers : worker'[w].entry = NoEntry
    BY DEF NewAuditQueue, FreshMemory, IdleTask
  <2> QED BY <2>1 DEF AtCallers, InHand, CallersApart, WorkersApart
<1>6. OnePlace'
  BY <1>4, <1>5 DEF OnePlace, PlacesDisjoint
<1>7. Pending' \subseteq Pending /\ Places' \subseteq Places
  BY <1>2, <1>3, <1>4, <1>5 DEF Pending, Places
<1>8. StoredInv'
  BY <1>1, <1>2, <1>7, MovedStored
<1> QED BY <1>2, <1>3, <1>6, <1>8 DEF OnceInv

\* A step of the recovery that leaves the memory of the queue alone.
LEMMA RecoveryMove ==
    ASSUME OnePlace, UNCHANGED <<queue, metrics, caller, worker, batcher>>, disk' \subseteq disk
    PROVE  /\ OnePlace' /\ Places' \subseteq Places
           /\ ToReplay' \subseteq ToReplay => Pending' \subseteq Pending
           /\ \A e \in disk : e \notin ToReplay' \cup InMetrics \cup InBatch => e \notin Pending'
<1>1. /\ AtCallers' = AtCallers /\ InQueue' = InQueue /\ InHand' = InHand
      /\ InMetrics' = InMetrics /\ InBatch' = InBatch
  BY DEF AtCallers, InQueue, InHand, InMetrics, InBatch
<1>2. OnePlace'
  <2>1. PlacesDisjoint'
    BY <1>1 DEF OnePlace, PlacesDisjoint
  <2> QED BY <2>1 DEF OnePlace, CallersApart, WorkersApart, BuffersDistinct
<1> QED BY <1>1, <1>2 DEF Pending, Places, OnePlace, PlacesDisjoint

LEMMA RecoveryOnce ==
    ASSUME TypeInv, OnceInv, ReadFallback \/ RewriteFallback, Clean'
    PROVE  OnceInv'
<1>1. UNCHANGED <<queue, metrics, caller, worker, batcher, db, logged, tally>> /\ life' # "dead"
  BY DEF ReadFallback, RewriteFallback
<1>2. Clean /\ OnePlace /\ ReplayParts /\ StoredInv
  BY <1>1, CleanBefore DEF OnceInv
<1>3. disk' \subseteq disk /\ ToReplay' \subseteq ToReplay /\ ReplayParts'
  <2>1. CASE ReadFallback /\ UNCHANGED recovery
    BY <2>1, <1>2 DEF ReadFallback, files, ToReplay, ReplayParts
  <2>2. CASE ReadFallback /\ recovery' = [NoRecovery EXCEPT !.pc = "replay", !.todo = disk]
    <3>1. recovery'.pc = "replay" /\ recovery'.todo = disk /\ recovery'.failed = {}
      BY <2>2 DEF NoRecovery
    <3> QED BY <2>2, <3>1 DEF ReadFallback, files, ToReplay, ReplayParts
  <2>3. CASE RewriteFallback
    <3>1. recovery'.pc = "done"
      BY <2>3 DEF RewriteFallback, NoRecovery
    <3>2. recovery.pc = "replay" /\ disk' = recovery.failed
      BY <2>3 DEF RewriteFallback, Rewritten
    <3> QED BY <1>2, <3>1, <3>2 DEF ToReplay, ReplayParts
  <2> QED BY <2>1, <2>2, <2>3 DEF ReadFallback
<1>4. OnePlace' /\ Places' \subseteq Places /\ Pending' \subseteq Pending
  BY <1>1, <1>2, <1>3, RecoveryMove
<1>5. StoredInv'
  BY <1>1, <1>2, <1>4, MovedStored
<1> QED BY <1>1, <1>3, <1>4, <1>5 DEF OnceInv

LEMMA ReplayOnce ==
    ASSUME TypeInv, OnceInv, Replay, Clean'
    PROVE  OnceInv'
<1>1. /\ UNCHANGED <<life, queue, metrics, caller, worker, batcher, disk, logged>>
      /\ life # "dead" /\ recovery.pc = "replay"
  BY DEF Replay, files
<1>2. PICK e \in recovery.todo, ok \in BOOLEAN :
         /\ e \in Entries \ Metrics /\ Exec(e, ok) /\ recovery'.pc = "replay"
         /\ \/ ok /\ recovery'.todo = recovery.todo \ {e} /\ recovery'.failed = recovery.failed
            \/ ~ok /\ recovery'.todo = recovery.todo \ {e} /\ recovery'.failed = recovery.failed \cup {e}
            \/ ~ok /\ recovery'.todo = recovery.todo /\ recovery'.failed = recovery.failed
  BY ReplayEffect
<1>3. Clean /\ OnePlace /\ ReplayParts /\ StoredInv
  BY <1>2, CleanBefore DEF OnceInv
<1>4. /\ ReplayParts' /\ e \in disk /\ e \in ToReplay
      /\ ToReplay' \subseteq (IF ok THEN ToReplay \ {e} ELSE ToReplay)
  BY <1>1, <1>2, <1>3 DEF ReplayParts, ToReplay
<1>5. /\ OnePlace' /\ Places' \subseteq Places /\ Pending' \subseteq Pending
      /\ e \notin ToReplay' \cup InMetrics \cup InBatch => e \notin Pending'
  BY <1>1, <1>3, <1>4, RecoveryMove
<1>6. e \notin InMetrics \cup InBatch
  BY <1>2, PlacesTyped
<1>7. Pending' \subseteq (IF ok THEN Pending \ {e} ELSE Pending)
  BY <1>4, <1>5, <1>6
<1>8. e \in Pending /\ e \in Places
  BY <1>4 DEF Pending, Places
<1>9. StoredInv'
  BY <1>1, <1>2, <1>3, <1>5, <1>7, <1>8, WrittenStored
<1> QED BY <1>1, <1>4, <1>5, <1>9 DEF OnceInv

LEMMA NextOnce == TypeInv /\ AccountInv /\ OnceInv /\ [Next]_vars => OnceInv'
<1> SUFFICES ASSUME TypeInv, AccountInv, OnceInv, [Next]_vars, Clean' PROVE OnceInv'
  BY DEF OnceInv
<1>1. CASE UNCHANGED vars \/ Done \/ Outage \/ Repair \/ MarkClosed \/ Shutdown
  BY <1>1, LifeOnce DEF Done, Shutdown
<1>2. CASE \E c \in Callers : Log(c) \/ Logging(c)
  BY <1>2, LogOnce, LogSyncOnce, CallerOnce DEF Logging
<1>3. CASE \E w \in Workers : Working(w)
  BY <1>3, ReceiveOnce, WorkerWriteOnce, WorkerFallbackOnce DEF Working
<1>4. CASE Batching
  BY <1>4, BatchMetricOnce, LifeOnce, FlushMetricOnce DEF Batching
<1>5. CASE NewAuditQueue
  BY <1>5, NewAuditQueueOnce
<1>6. CASE Recovering
  BY <1>6, RecoveryOnce, ReplayOnce DEF Recovering
<1>7. CASE Crash \/ DiskFails
  <2>1. tally \in Tallies
    BY DEF TypeInv, ProcessOK
  <2>2. CASE Crash
    BY <2>1, <2>2 DEF Crash, Clean, Tallies
  <2>3. CASE DiskFails
    <3>1. DiskFault
      BY <2>3 DEF DiskFails, ReadFallbackFails, RewriteFails, WriteToFallbackFails, WorkerFallbackFails
    <3> QED BY <2>1, <3>1 DEF DiskFault, Clean, Tallies
  <2> QED BY <1>7, <2>2, <2>3
<1> QED BY <1>1, <1>2, <1>3, <1>4, <1>5, <1>6, <1>7 DEF Next

\* Overflow to the file, retries of a write, a shutdown under load, restarts and
\* replays never store an entry twice: only a lost acknowledgement, a crash or a
\* disk error can, because an entry is in one place at a time (queueEntry, worker,
\* flushMetricsBatch, RecoverFromFallback).
THEOREM StoredAtMostOnce == Spec => []StoredOnce
<1>1. OnceInv => StoredOnce
  BY DEF OnceInv, StoredInv, Clean, StoredOnce
<1> QED BY <1>1, InitOnce, NextOnce, TypeInvHolds, AccountInvHolds, PTL DEF Spec

=============================================================================
