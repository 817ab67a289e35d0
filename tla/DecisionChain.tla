---------------------------- MODULE DecisionChain ----------------------------
(***************************************************************************)
(* The signed decision chain (agent/decision_chain.go,                     *)
(* decision_chain_signing.go): agents record decisions through a queue and *)
(* its workers, or synchronously when the queue is full or closed; each    *)
(* record is appended to its chain by a transaction that holds the chain's *)
(* advisory lock, links to the tail it read and is signed.  Agents stop,   *)
(* crash and start again, with another signing key too.                    *)
(*                                                                         *)
(* A chain stands for one (org_id, chain_id) pair, a decision for the      *)
(* goroutine that writes it.  SHA-256 and Ed25519 are free constructors: a *)
(* hash or a signature equals another one only if everything in it does.   *)
(* The derived id of a key is the key itself.                              *)
(***************************************************************************)
EXTENDS Integers, FiniteSets, Sequences

CONSTANTS
    Agents,         \* replicas of the agent on one database
    Chains,         \* chains that are appended to
    MaxDecisions,   \* bound: decisions taken in a behaviour
    Configs,        \* environments an agent may be started with
    NoKey,          \* no AXONFLOW_AUDIT_SIGNING_KEY, or an empty signing_key_id
    QueueSize,      \* AsyncQueueSize
    Workers,        \* workers of an agent
    MaxStarts,      \* bound: starts of agents in a behaviour
    MaxCrashes,     \* bound: crashes of agents in a behaviour
    MaxFaults       \* bound: failed transactions in a behaviour

\* key: AXONFLOW_AUDIT_SIGNING_KEY;  id: the derived id, or the label of
\* AXONFLOW_AUDIT_SIGNING_KEY_ID;  retained: AXONFLOW_AUDIT_VERIFY_KEYS.
ASSUME ConfigAssumption ==
    \A g \in Configs : /\ DOMAIN g = {"key", "id", "retained"}
                       /\ g.key = NoKey <=> g.id = NoKey
                       /\ NoKey \notin g.retained
ASSUME BoundsAssumption ==
    /\ {MaxDecisions, QueueSize, MaxStarts, MaxCrashes, MaxFaults} \subseteq Nat
    /\ Workers \in Nat \ {0}
ASSUME DeploymentAssumption == Agents # {} /\ Chains # {}

\* A label of AXONFLOW_AUDIT_SIGNING_KEY_ID is not the derived id of any key, which is a
\* prefix of the key's SHA-256 (deriveSigningKeyID).
ASSUME LabelAssumption ==
    \A g, h \in Configs : g.id # g.key => g.id # h.key /\ g.id \notin h.retained

Decisions == 1 .. MaxDecisions    \* in the order of created_at, ties by id

VARIABLES
    agent,    \* life and configuration of each agent
    queue,    \* the asyncQueue channel of each agent
    pool,     \* wg: the workers of each agent still in their loop over the channel
    dec,      \* each decision and the goroutine that writes it
    rows,     \* decision_chain: the committed rows of each chain
    lock,     \* the advisory lock of each chain: its holder, or 0
    starts,   \* agents started so far
    crashes,  \* agents crashed so far
    faults    \* transactions failed so far

bounds == <<starts, crashes, faults>>
vars == <<agent, queue, pool, dec, rows, lock, starts, crashes, faults>>

-----------------------------------------------------------------------------
(* Records, hashes and signatures.                                         *)

Genesis == <<>>      \* genesisPrevHash
Absent  == <<0>>     \* COALESCE(prev_hash, ''), COALESCE(record_signature, '')

Digest(r)    == <<r.dec, r.seq>>
ChainHash(r) == <<Digest(r), r.prev>>
Sign(k, h)   == <<k, h>>

\* A row older than migration 125, which added the link and the signature.
LegacyRow == [dec |-> 0, seq |-> 0, prev |-> Absent, sig |-> Absent, id |-> NoKey]
NoRow     == [dec |-> 0, seq |-> 0, prev |-> Genesis, sig |-> Absent, id |-> NoKey]

\* sealEntry: the position, the link, and the signature over the chain-hash.
SealEntry(d, prev, seq, g) ==
    LET r == [dec |-> d, seq |-> seq, prev |-> prev, sig |-> Absent, id |-> g.id]
    IN  IF g.key = NoKey THEN r ELSE [r EXCEPT !.sig = Sign(g.key, ChainHash(r))]

\* ORDER BY chain_seq, created_at, id.
Before(q, r) == q.seq < r.seq \/ (q.seq = r.seq /\ q.dec < r.dec)

\* A tail taken by time instead of by chain_seq.
LastOfByTime(S) == CHOOSE r \in S : \A q \in S \ {r} : q.dec < r.dec
LastOf(S) == CHOOSE r \in S : \A q \in S \ {r} : Before(q, r)

\* fetchChainTailTx, then the entry that continues the chain.
NextRow(d, c, g) ==
    IF rows[c] = {} THEN SealEntry(d, Genesis, 1, g)
    ELSE LET last == LastOf(rows[c]) IN SealEntry(d, ChainHash(last), last.seq + 1, g)

-----------------------------------------------------------------------------
(* Recording.                                                              *)

Writing == {"lock", "tail", "commit"}
InHand  == Writing \cup {"queued"}
Running(a) == agent[a].life \in {"up", "closing"}

\* Workers of a that are writing a record.
Busy(a) == Cardinality({d \in Decisions : dec[d].at = a /\ dec[d].pc \in Writing /\ ~dec[d].sync})

SetDec(d, pc) == dec' = [dec EXCEPT ![d].pc = pc]

\* The decision d before it is taken, or once its goroutine is gone.
Idle(pc, sync) == [pc |-> pc, at |-> CHOOSE a \in Agents : TRUE,
                   chain |-> CHOOSE c \in Chains : TRUE, sync |-> sync, row |-> NoRow]
Settle(d, pc) == dec' = [dec EXCEPT ![d] = Idle(pc, @.sync)]

\* A send that blocks or overfills the channel.
HasRoomPlusOne(a) == Len(queue[a]) <= QueueSize
HasRoom(a) == Len(queue[a]) < QueueSize

\* RecordDecision: the closed check and the send are under queueMu; a full or closed
\* queue falls through to a synchronous write.
RecordDecision(d, a, c) ==
    /\ dec[d].pc = "new" /\ \A e \in 1 .. d - 1 : dec[e].pc # "new"
    /\ Running(a)
    /\ LET queued == agent[a].life = "up" /\ HasRoom(a) IN
        /\ dec' = [dec EXCEPT ![d] = [@ EXCEPT !.pc = IF queued THEN "queued" ELSE "lock",
                                                !.at = a, !.chain = c, !.sync = ~queued]]
        /\ queue' = IF queued THEN [queue EXCEPT ![a] = Append(@, d)] ELSE queue
    /\ UNCHANGED <<agent, pool, rows, lock, bounds>>

\* A worker between two records takes the next one from the channel, open or closed.
Receive(a) ==
    /\ Running(a) /\ queue[a] # <<>> /\ Busy(a) < pool[a]
    /\ SetDec(Head(queue[a]), "lock")
    /\ queue' = [queue EXCEPT ![a] = Tail(@)]
    /\ UNCHANGED <<agent, pool, rows, lock, bounds>>

\* A loop that ends as soon as the channel is closed.
LoopEndsAtClose(a) == agent[a].life = "closing"
\* The range over the channel ends when it is closed and holds nothing any more.
LoopEnds(a) == agent[a].life = "closing" /\ queue[a] = <<>>

\* A worker between two records leaves asyncWorker: wg.Done.
WorkerLeaves(a) ==
    /\ LoopEnds(a) /\ Busy(a) < pool[a]
    /\ pool' = [pool EXCEPT ![a] = @ - 1]
    /\ UNCHANGED <<agent, queue, dec, rows, lock, bounds>>

\* An append that does not wait for the lock.
LockFreeAlways(c) == TRUE
LockFree(c) == lock[c] = 0

\* pg_advisory_xact_lock, before the transaction reads the tail; only the set_config of
\* WithOrgScope is earlier.  The isolation is READ COMMITTED: what another transaction
\* committed before the lock was granted is seen.
Lock(d) ==
    /\ dec[d].pc = "lock" /\ LockFree(dec[d].chain)
    /\ lock' = [lock EXCEPT ![dec[d].chain] = d]
    /\ SetDec(d, "tail")
    /\ UNCHANGED <<agent, queue, pool, rows, bounds>>

ReadTail(d) ==
    /\ dec[d].pc = "tail"
    /\ dec' = [dec EXCEPT ![d] = [@ EXCEPT !.pc = "commit",
                !.row = NextRow(d, dec[d].chain, agent[dec[d].at].config)]]
    /\ UNCHANGED <<agent, queue, pool, rows, lock, bounds>>

\* Locks of the transactions of ds, released as Postgres ends them.
FreedKept(ds) == lock
Freed(ds) == [c \in Chains |-> IF lock[c] \in ds THEN 0 ELSE lock[c]]

\* The INSERT, invisible until COMMIT, which then releases the lock.
Stored(d) == rows' = [rows EXCEPT ![dec[d].chain] = @ \cup {dec[d].row}]

Commit(d) ==
    /\ dec[d].pc = "commit"
    /\ Stored(d) /\ lock' = Freed({d}) /\ Settle(d, "stored")
    /\ UNCHANGED <<agent, queue, pool, bounds>>

\* A statement fails, or the five seconds of the worker or the request's context end:
\* rollback, and recordErrors counts it.
TxFails(d) ==
    /\ dec[d].pc \in Writing /\ faults < MaxFaults
    /\ faults' = faults + 1
    /\ lock' = Freed({d}) /\ Settle(d, "error")
    /\ UNCHANGED <<agent, queue, pool, rows, starts, crashes>>

\* COMMIT succeeds and its acknowledgement is lost: counted as an error all the same.
AckLost(d) ==
    /\ dec[d].pc = "commit" /\ faults < MaxFaults
    /\ faults' = faults + 1
    /\ Stored(d) /\ lock' = Freed({d}) /\ Settle(d, "error")
    /\ UNCHANGED <<agent, queue, pool, starts, crashes>>

-----------------------------------------------------------------------------
(* Lives of an agent.                                                      *)

Start(a, g) ==
    /\ agent[a].life = "down" /\ starts < MaxStarts
    /\ starts' = starts + 1
    /\ agent' = [agent EXCEPT ![a] = [life |-> "up", config |-> g]]
    /\ pool' = [pool EXCEPT ![a] = Workers]
    /\ UNCHANGED <<queue, dec, rows, lock, crashes, faults>>

\* Shutdown up to its wait: no producer is inside its send (queueMu).
Shutdown(a) ==
    /\ agent[a].life = "up"
    /\ agent' = [agent EXCEPT ![a].life = "closing"]
    /\ UNCHANGED <<queue, pool, dec, rows, lock, bounds>>

\* The process is gone and with it what its goroutines held; how: what ended them.  A
\* COMMIT in flight took effect before (Commit) or not at all.
Ends(a, how) ==
    LET cut == {d \in Decisions : dec[d].at = a /\ dec[d].pc \in InHand} IN
    /\ agent' = [agent EXCEPT ![a].life = "down"]
    /\ queue' = [queue EXCEPT ![a] = <<>>]
    /\ pool' = [pool EXCEPT ![a] = 0]
    /\ dec' = [d \in Decisions |-> IF d \in cut THEN Idle(how, dec[d].sync) ELSE dec[d]]
    /\ lock' = Freed(cut)
    /\ UNCHANGED rows

\* wg.Wait returns: main ends, although requests may still be served.
Exit(a) ==
    /\ agent[a].life = "closing" /\ pool[a] = 0
    /\ Ends(a, "left")
    /\ UNCHANGED bounds

\* The six seconds of the shutdown context end first.
ShutdownTimesOut(a) ==
    /\ agent[a].life = "closing" /\ pool[a] # 0
    /\ Ends(a, "killed")
    /\ UNCHANGED bounds

Crash(a) ==
    /\ Running(a) /\ crashes < MaxCrashes
    /\ crashes' = crashes + 1
    /\ Ends(a, "killed")
    /\ UNCHANGED <<starts, faults>>

-----------------------------------------------------------------------------
Unconfigured == [key |-> NoKey, id |-> NoKey, retained |-> {}]

Init ==
    /\ agent = [a \in Agents |-> [life |-> "down", config |-> Unconfigured]]
    /\ queue = [a \in Agents |-> <<>>]
    /\ pool = [a \in Agents |-> 0]
    /\ dec = [d \in Decisions |-> Idle("new", FALSE)]
    /\ rows \in [Chains -> {{}, {LegacyRow}}]
    /\ lock = [c \in Chains |-> 0]
    /\ starts = 0 /\ crashes = 0 /\ faults = 0

Write(d) == Lock(d) \/ ReadTail(d) \/ Commit(d)
Work(a)  == Receive(a) \/ WorkerLeaves(a)
Stop(a)  == Exit(a) \/ ShutdownTimesOut(a)

Next ==
    \/ \E d \in Decisions, a \in Agents, c \in Chains : RecordDecision(d, a, c)
    \/ \E d \in Decisions : Write(d) \/ TxFails(d) \/ AckLost(d)
    \/ \E a \in Agents : Work(a) \/ Shutdown(a) \/ Stop(a) \/ Crash(a)
    \/ \E a \in Agents, g \in Configs : Start(a, g)

\* Goroutines run and the shutdown waits at most six seconds; nobody has to take a
\* decision, to stop an agent or to start one.
Spec ==
    /\ Init /\ [][Next]_vars
    /\ \A d \in Decisions : WF_vars(Write(d))
    /\ \A a \in Agents : WF_vars(Work(a)) /\ WF_vars(Stop(a))

-----------------------------------------------------------------------------
(* Verification, as an agent with configuration g answers it.              *)

\* verifyKeys: the retained keys under their derived ids, and the agent's own key.
VerifyKeys(g) ==
    [i \in g.retained \cup ({g.id} \ {NoKey}) |-> IF i = g.id THEN g.key ELSE i]

IsSigned(r) == r.id # NoKey /\ r.sig # Absent

VerifySignature(g, r) ==
    /\ r.id \in DOMAIN VerifyKeys(g)
    /\ r.sig = Sign(VerifyKeys(g)[r.id], ChainHash(r))

\* The hash verifyEntries expects in r: that of the record before it in the chain.
ExpectedPrev(S, r) ==
    LET earlier == {q \in S : Before(q, r)}
    IN  IF earlier = {} THEN Genesis ELSE ChainHash(LastOf(earlier))

\* res.Valid
VerifyEntries(g, S) ==
    \A r \in S : /\ r.prev = ExpectedPrev(S, r)
                 /\ IsSigned(r) => VerifySignature(g, r)

-----------------------------------------------------------------------------
(* Properties.                                                             *)

\* Shape of agents, queues and writers; a lock is held by exactly the transaction that
\* has taken it and not ended.
TypeOK ==
    /\ \A a \in Agents : /\ agent[a].life \in {"down", "up", "closing"}
                         /\ agent[a].config \in Configs \cup {Unconfigured}
                         /\ Len(queue[a]) <= QueueSize
                         /\ pool[a] \in 0 .. Workers /\ Busy(a) <= pool[a]
                         /\ \A i \in DOMAIN queue[a] : dec[queue[a][i]].pc = "queued"
    /\ \A d \in Decisions : /\ dec[d].pc \in InHand \cup {"new", "stored", "error", "killed", "left"}
                            /\ dec[d].at \in Agents /\ dec[d].chain \in Chains
                            /\ dec[d].sync \in BOOLEAN
    /\ \A c \in Chains : lock[c] \in Decisions \cup {0}
    /\ \A c \in Chains, d \in Decisions :
        lock[c] = d <=> dec[d].chain = c /\ dec[d].pc \in {"tail", "commit"}
    /\ starts \in Nat /\ crashes \in Nat /\ faults \in Nat

\* Whatever interleaving of workers, synchronous writers and replicas, failed
\* transactions, crashes and key rotations produced a chain, an agent that knows the
\* keys of its records under their derived ids finds the chain valid: no fork, no gap,
\* no record whose signature does not cover its place (recordToDB, verifyEntries).
ChainsVerify ==
    \A a \in Agents, c \in {x \in Chains : LegacyRow \notin rows[x]} :
        LET g == agent[a].config
            known == g.retained \cup ({g.key} \cap {g.id}) IN
        (\A r \in rows[c] : IsSigned(r) => r.id \in known)
            => VerifyEntries(g, rows[c])

\* A shutdown that ends because its last worker left (wg.Wait) leaves no queued record
\* behind, although producers raced the close and a worker may leave while another one
\* still writes: what the exit cuts off are only synchronous writes of requests that
\* found the queue full or closed (RecordDecision, asyncWorker, Shutdown).
QueueIsFlushed == \A d \in Decisions : dec[d].pc = "left" => dec[d].sync

\* The chains are ledgers: numbered from one without a gap, appended at the end only,
\* each decision once, also when its commit was not acknowledged (recordToDB).
L == INSTANCE Ledger WITH Entries <- Decisions,
        ledger <- [c \in Chains |-> {<<r.seq, r.dec>> : r \in rows[c] \ {LegacyRow}}]
ChainsAreLedgers == L!Spec

\* A decision taken is settled: its writer gets the lock however many compete for it or
\* died with it, and it is stored, counted as an error, or gone with its process.
DecisionsSettle == <>[](\A d \in Decisions : dec[d].pc \notin InHand)
=============================================================================
