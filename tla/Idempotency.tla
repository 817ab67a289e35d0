----------------------------- MODULE Idempotency -----------------------------
(***************************************************************************)
(* The Idempotency-Key cache (shared/idempotency): requests and their      *)
(* retries go through Wrap, which looks the key up, runs the handler on a  *)
(* miss and stores the answer afterwards, while rows expire and the hourly *)
(* sweep deletes them.  One tenant and endpoint; requests without a key,   *)
(* or with an invalid one, never reach the store.                          *)
(***************************************************************************)
EXTENDS Integers, FiniteSets

CONSTANTS
    Keys,       \* idempotency keys
    Procs,      \* requests that can be in flight at the same time
    MaxCalls,   \* bound: requests in a behaviour
    MaxFaults   \* bound: failed statements, lost connections and crashes

ASSUME RequestAssumption == Keys # {} /\ IsFiniteSet(Procs)
ASSUME BoundAssumption == MaxCalls \in Nat /\ MaxFaults \in Nat

VARIABLES
    row,         \* the idempotency_keys row of each key
    proc,        \* the request each handler serves
    runs,        \* handler runs so far: the identity of the next answer
    whole,       \* history: answers written to their caller without an error
    replayed,    \* history: answers served from the cache, by key
    made,        \* history: cacheable runs since the key's row was last deleted
    overlapped,  \* history: keys two requests in flight shared
    stale,       \* history: keys whose row has expired and is not deleted yet
    faulty,      \* history: keys one of whose requests met a fault
    calls,       \* requests so far
    faults       \* faults so far

vars == <<row, proc, runs, whole, replayed, made, overlapped, stale, faulty, calls, faults>>

-----------------------------------------------------------------------------
(* Rows, answers and requests.                                             *)

None    == 0
Answers == Nat \ {None}
Classes == {"2xx", "4xx", "5xx"}

NoRow == [answer |-> None, live |-> FALSE]
Idle == [pc |-> "idle", key |-> CHOOSE k \in Keys : TRUE, answer |-> None]

At(p, pc)  == proc[p].pc = pc
Key(p)     == proc[p].key
Return(p)  == proc' = [proc EXCEPT ![p] = Idle]

\* SELECT ... AND expires_at > CURRENT_TIMESTAMP.
Fresh(k) == row[k].answer # None /\ row[k].live

\* Mutant: ON CONFLICT DO UPDATE.
StoredLast(k, a) == [row EXCEPT ![k] = [answer |-> a, live |-> TRUE]]

\* INSERT ... ON CONFLICT DO NOTHING: an expired row that is still there wins, too.
Stored(k, a) == IF row[k].answer # None THEN row ELSE [row EXCEPT ![k] = [answer |-> a, live |-> TRUE]]

\* Mutant: refusals are not cached.
ShouldCacheSuccess(class, written) == written /\ class = "2xx"

\* Mutant: the error of the body's writer is ignored.
ShouldCachePartial(class, written) == class # "5xx"

\* shouldCache: 2xx and 4xx answers that were written completely.
ShouldCache(class, written) == written /\ class # "5xx"

\* Mutant: the recorder keeps no copy of what it writes through.
AfterRunEmpty(p, class, written) ==
    IF ShouldCache(class, written) THEN [proc[p] EXCEPT !.pc = "store"] ELSE Idle

\* Cacheable answers go on to Store, any other request is over.
AfterRun(p, class, written) ==
    IF ShouldCache(class, written) THEN [proc[p] EXCEPT !.pc = "store", !.answer = runs + 1] ELSE Idle

-----------------------------------------------------------------------------
(* Wrap.                                                                   *)

Request(p, k) ==
    /\ At(p, "idle")
    /\ calls < MaxCalls
    /\ calls' = calls + 1
    /\ proc' = [proc EXCEPT ![p].pc = "lookup", ![p].key = k]
    /\ overlapped' = IF \E q \in Procs : ~At(q, "idle") /\ Key(q) = k
                     THEN overlapped \cup {k} ELSE overlapped
    /\ UNCHANGED <<row, runs, whole, replayed, made, stale, faulty, faults>>

\* Lookup: a hit writes the cached status and body, a miss goes to the handler.
Lookup(p) ==
    /\ At(p, "lookup")
    /\ IF Fresh(Key(p))
       THEN replayed' = [replayed EXCEPT ![Key(p)] = @ \cup {row[Key(p)].answer}] /\ Return(p)
       ELSE proc' = [proc EXCEPT ![p].pc = "run"] /\ UNCHANGED replayed
    /\ UNCHANGED <<row, runs, whole, made, overlapped, stale, faulty, calls, faults>>

\* The handler runs and writes its answer; the connection may break while it does.
RunHandler(p, class, written) ==
    /\ At(p, "run")
    /\ ~written => faults < MaxFaults
    /\ faults' = IF written THEN faults ELSE faults + 1
    /\ faulty' = IF written THEN faulty ELSE faulty \cup {Key(p)}
    /\ runs' = runs + 1
    /\ whole' = IF written THEN whole \cup {runs + 1} ELSE whole
    /\ made' = IF class = "5xx" THEN made ELSE [made EXCEPT ![Key(p)] = @ + 1]
    /\ proc' = [proc EXCEPT ![p] = AfterRun(p, class, written)]
    /\ UNCHANGED <<row, replayed, overlapped, stale, calls>>

\* Store, on a context that outlives the request.
Store(p) ==
    /\ At(p, "store")
    /\ row' = Stored(Key(p), proc[p].answer)
    /\ Return(p)
    /\ UNCHANGED <<runs, whole, replayed, made, overlapped, stale, faulty, calls, faults>>

\* The lookup fails: logged, and the request is handled as a miss.
LookupFails(p) ==
    /\ At(p, "lookup")
    /\ faults < MaxFaults
    /\ faults' = faults + 1
    /\ faulty' = faulty \cup {Key(p)}
    /\ proc' = [proc EXCEPT ![p].pc = "run"]
    /\ UNCHANGED <<row, runs, whole, replayed, made, overlapped, stale, calls>>

\* The store fails, which is logged, or the process stops anywhere in the request.
Dies(p) ==
    /\ ~At(p, "idle")
    /\ faults < MaxFaults
    /\ faults' = faults + 1
    /\ faulty' = faulty \cup {Key(p)}
    /\ Return(p)
    /\ UNCHANGED <<row, runs, whole, replayed, made, overlapped, stale, calls>>

-----------------------------------------------------------------------------
(* Time and the sweep.                                                     *)

Expire(k) ==
    /\ Fresh(k)
    /\ row' = [row EXCEPT ![k].live = FALSE]
    /\ stale' = stale \cup {k}
    /\ UNCHANGED <<proc, runs, whole, replayed, made, overlapped, faulty, calls, faults>>

\* DELETE ... WHERE expires_at <= CURRENT_TIMESTAMP.
Expired == {k \in Keys : row[k].answer # None /\ ~row[k].live}

Sweep ==
    /\ Expired # {}
    /\ row' = [k \in Keys |-> IF k \in Expired THEN NoRow ELSE row[k]]
    /\ replayed' = [k \in Keys |-> IF k \in Expired THEN {} ELSE replayed[k]]
    /\ made' = [k \in Keys |-> IF k \in Expired THEN Cardinality({p \in Procs : At(p, "store") /\ Key(p) = k})
                               ELSE made[k]]
    /\ stale' = stale \ Expired
    /\ UNCHANGED <<proc, runs, whole, overlapped, faulty, calls, faults>>

-----------------------------------------------------------------------------
Init ==
    /\ row = [k \in Keys |-> NoRow]
    /\ proc = [p \in Procs |-> Idle]
    /\ runs = 0
    /\ whole = {}
    /\ replayed = [k \in Keys |-> {}]
    /\ made = [k \in Keys |-> 0]
    /\ overlapped = {}
    /\ stale = {}
    /\ faulty = {}
    /\ calls = 0
    /\ faults = 0

Wrap(p) == \/ \E k \in Keys : Request(p, k)
           \/ Lookup(p)
           \/ \E class \in Classes, written \in BOOLEAN : RunHandler(p, class, written)
           \/ Store(p)
Fault(p) == LookupFails(p) \/ Dies(p)

Next == \/ \E p \in Procs : Wrap(p) \/ Fault(p)
        \/ \E k \in Keys : Expire(k)
        \/ Sweep

Spec == Init /\ [][Next]_vars

-----------------------------------------------------------------------------
(* Properties.                                                             *)

TypeOK ==
    /\ row \in [Keys -> [answer: Answers \cup {None}, live: BOOLEAN]]
    /\ proc \in [Procs -> [pc: {"idle", "lookup", "run", "store"}, key: Keys,
                           answer: Answers \cup {None}]]
    /\ \A p \in Procs : At(p, "store") => proc[p].answer \in Answers
    /\ runs \in Nat
    /\ whole \subseteq Answers
    /\ replayed \in [Keys -> SUBSET Answers]
    /\ made \in [Keys -> Nat]
    /\ overlapped \subseteq Keys /\ stale \subseteq Keys /\ faulty \subseteq Keys
    /\ calls \in 0 .. MaxCalls /\ faults \in 0 .. MaxFaults

Cache == INSTANCE AnswerCache WITH
    kept <- [k \in Keys |-> IF Fresh(k) THEN row[k].answer ELSE None]

\* Whatever requests race to store, readers of a key get one answer until it expires
\* (ON CONFLICT DO NOTHING, and a Lookup that skips expired rows).
KeepsFirstAnswer == Cache!Spec

\* A retry is only ever served an answer that was written to an earlier caller without error, and
\* all retries of a key are served the same one until its row is deleted.
ReplaysAreOriginal ==
    \A k \in Keys : replayed[k] \subseteq whole /\ Cardinality(replayed[k]) <= 1

\* Retries that come one after the other run the handler once (5xx answers aside) until
\* the row expires: "no double row creation, no double audit record".
SequentialRetriesRunOnce ==
    \A k \in Keys \ (overlapped \cup stale \cup faulty) : made[k] <= 1
=============================================================================
