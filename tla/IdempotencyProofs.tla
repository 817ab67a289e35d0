-------------------------- MODULE IdempotencyProofs --------------------------
(***************************************************************************)
(* Theorems about Idempotency, for any number of keys and of requests in   *)
(* flight: types, the refinement of AnswerCache, what retries are served,  *)
(* and how often the handler runs for retries that do not overlap.         *)
(***************************************************************************)
EXTENDS Idempotency, FiniteSetTheorems, TLAPS

-----------------------------------------------------------------------------
(* Types.                                                                  *)

\* The part of TypeOK about requests: one that is going to store holds an answer.
RequestsOK ==
    /\ proc \in [Procs -> [pc: {"idle", "lookup", "run", "store"}, key: Keys,
                           answer: Answers \cup {None}]]
    /\ \A p \in Procs : At(p, "store") => proc[p].answer \in Answers

\* An idle request holds a key (Keys is not empty) and no answer.
LEMMA IdleType == Idle \in [pc: {"idle", "lookup", "run", "store"}, key: Keys,
                            answer: Answers \cup {None}]
                  /\ Idle.pc = "idle"
<1>1. (CHOOSE k \in Keys : TRUE) \in Keys
  BY RequestAssumption
<1> QED BY <1>1 DEF Idle

\* The requests about to store an answer for a key, counted by Sweep, are finitely many.
LEMMA StoringFinite ==
    ASSUME NEW k
    PROVE  LET S == {p \in Procs : At(p, "store") /\ Key(p) = k}
           IN  IsFiniteSet(S) /\ Cardinality(S) \in Nat
<1> DEFINE S == {p \in Procs : At(p, "store") /\ Key(p) = k}
<1>1. IsFiniteSet(S)
  <2>1. S \subseteq Procs
    OBVIOUS
  <2> QED BY <2>1, RequestAssumption, FS_Subset
<1> QED BY <1>1, FS_CardinalityType

LEMMA InitTypes == Init => TypeOK
BY IdleType, BoundAssumption DEF Init, TypeOK, NoRow, None, Answers, At

LEMMA RequestTypes ==
    ASSUME TypeOK, NEW p \in Procs, NEW k \in Keys, Request(p, k)
    PROVE  TypeOK'
<1>1. calls' \in 0 .. MaxCalls /\ overlapped' \subseteq Keys
  BY BoundAssumption DEF Request, TypeOK
<1>2. PICK r : r = [proc[p] EXCEPT !.pc = "lookup", !.key = k]
  OBVIOUS
<1>3. r \in [pc: {"idle", "lookup", "run", "store"}, key: Keys, answer: Answers \cup {None}]
  <2>1. proc[p] \in [pc: {"idle", "lookup", "run", "store"}, key: Keys, answer: Answers \cup {None}]
    BY DEF TypeOK
  <2> QED BY <1>2, <2>1
<1>4. r.pc = "lookup"
  BY <1>2 DEF TypeOK
<1>5. proc' = [proc EXCEPT ![p] = r]
  BY <1>2 DEF Request, TypeOK
<1>6. RequestsOK'
  BY <1>3, <1>4, <1>5 DEF TypeOK, RequestsOK, At
<1> QED BY <1>1, <1>6 DEF Request, TypeOK, RequestsOK

LEMMA LookupTypes ==
    ASSUME TypeOK, NEW p \in Procs, Lookup(p)
    PROVE  TypeOK'
<1>1. CASE Fresh(Key(p))
  <2>1. replayed' \in [Keys -> SUBSET Answers]
    <3>1. Key(p) \in Keys /\ row[Key(p)].answer \in Answers
      BY <1>1 DEF TypeOK, Key, Fresh
    <3> QED BY <1>1, <3>1 DEF Lookup, TypeOK
  <2>2. proc' = [proc EXCEPT ![p] = Idle]
    BY <1>1 DEF Lookup, Return
  <2>3. RequestsOK'
    BY <2>2, IdleType DEF TypeOK, At, RequestsOK
  <2> QED BY <2>1, <2>3 DEF Lookup, TypeOK, RequestsOK
<1>2. CASE ~Fresh(Key(p))
  <2>1. proc' = [proc EXCEPT ![p].pc = "run"] /\ UNCHANGED replayed
    BY <1>2 DEF Lookup
  <2>2. RequestsOK'
    BY <2>1 DEF RequestsOK, TypeOK, At
  <2> QED BY <2>1, <2>2 DEF Lookup, TypeOK, RequestsOK
<1> QED BY <1>1, <1>2

LEMMA RunHandlerTypes ==
    ASSUME TypeOK, NEW p \in Procs, NEW class \in Classes, NEW written \in BOOLEAN,
           RunHandler(p, class, written)
    PROVE  TypeOK'
<1>1. runs + 1 \in Answers
  BY DEF TypeOK, Answers, None
<1>2. runs' \in Nat /\ whole' \subseteq Answers /\ faulty' \subseteq Keys /\ faults' \in 0 .. MaxFaults
  BY <1>1, BoundAssumption DEF RunHandler, TypeOK, Key
<1>3. made' \in [Keys -> Nat]
  BY DEF RunHandler, TypeOK, Key
<1>4. RequestsOK'
  BY <1>1, IdleType DEF RunHandler, AfterRun, TypeOK, At, RequestsOK
<1> QED BY <1>2, <1>3, <1>4 DEF RunHandler, TypeOK, RequestsOK

LEMMA StoreTypes ==
    ASSUME TypeOK, NEW p \in Procs, Store(p)
    PROVE  TypeOK'
<1>1. row' \in [Keys -> [answer: Answers \cup {None}, live: BOOLEAN]]
  BY DEF Store, Stored, TypeOK, At, Key
<1> QED BY <1>1, IdleType DEF Store, TypeOK, At, Return

LEMMA FaultTypes ==
    ASSUME TypeOK, NEW p \in Procs, Fault(p)
    PROVE  TypeOK'
<1>1. CASE LookupFails(p)
  BY <1>1, BoundAssumption DEF LookupFails, TypeOK, At, Key
<1>2. CASE Dies(p)
  BY <1>2, IdleType, BoundAssumption DEF Dies, TypeOK, At, Key, Return
<1> QED BY <1>1, <1>2 DEF Fault

LEMMA ExpireTypes ==
    ASSUME TypeOK, NEW k \in Keys, Expire(k)
    PROVE  TypeOK'
BY DEF Expire, TypeOK, At

LEMMA SweepTypes ==
    ASSUME TypeOK, Sweep
    PROVE  TypeOK'
<1>1. made' \in [Keys -> Nat]
  BY StoringFinite DEF Sweep, TypeOK
<1> QED BY <1>1 DEF Sweep, TypeOK, NoRow, At

LEMMA NextTypes == TypeOK /\ [Next]_vars => TypeOK'
<1> SUFFICES ASSUME TypeOK, [Next]_vars PROVE TypeOK'
  OBVIOUS
<1>1. CASE UNCHANGED vars
  BY <1>1 DEF vars, TypeOK, At
<1>2. ASSUME NEW p \in Procs, Wrap(p) PROVE TypeOK'
  BY <1>2, RequestTypes, LookupTypes, RunHandlerTypes, StoreTypes DEF Wrap
<1>3. ASSUME NEW p \in Procs, Fault(p) PROVE TypeOK'
  BY <1>3, FaultTypes
<1>4. ASSUME NEW k \in Keys, Expire(k) PROVE TypeOK'
  BY <1>4, ExpireTypes
<1>5. CASE Sweep
  BY <1>5, SweepTypes
<1> QED BY <1>1, <1>2, <1>3, <1>4, <1>5 DEF Next

\* Every reachable state of the cache and of the requests in flight is well typed; in
\* particular a request that is going to store holds an answer (Wrap, Store, Sweep).
THEOREM TypeCorrect == Spec => []TypeOK
BY InitTypes, NextTypes, PTL DEF Spec

-----------------------------------------------------------------------------
(* The refinement.                                                         *)

Kept == [k \in Keys |-> IF Fresh(k) THEN row[k].answer ELSE None]

LEMMA InitKept == Init => Cache!Init
BY DEF Init, Cache!Init, Fresh, NoRow, None

LEMMA StoreKept ==
    ASSUME TypeOK, NEW p \in Procs, Store(p), NEW k \in Keys, k = Key(p)
    PROVE  Cache!Keep(k) \/ UNCHANGED Kept
<1>1. proc[p].answer \in Answers
  BY DEF TypeOK, Store, At
<1>2. CASE row[k].answer # None
  <2>1. row' = row
    BY <1>2 DEF Store, Stored
  <2> QED BY <2>1 DEF Kept, Fresh
<1>3. CASE row[k].answer = None
  <2>1. row' = [row EXCEPT ![k] = [answer |-> proc[p].answer, live |-> TRUE]]
    BY <1>3 DEF Store, Stored
  <2>2. Kept' = [Kept EXCEPT ![k] = proc[p].answer]
    BY <1>1, <2>1 DEF Kept, Fresh, TypeOK, Answers, None
  <2>3. Kept[k] = None
    BY <1>3 DEF Kept, Fresh
  <2>4. Kept'[k] = proc[p].answer
    BY <2>2 DEF Kept
  <2> QED BY <1>1, <2>2, <2>3, <2>4 DEF Cache!Keep, Kept
<1> QED BY <1>2, <1>3

LEMMA ExpireKept ==
    ASSUME TypeOK, NEW k \in Keys, Expire(k)
    PROVE  Cache!Forget(k)
<1>1. row' = [row EXCEPT ![k].live = FALSE] /\ Fresh(k)
  BY DEF Expire
<1>2. Kept' = [Kept EXCEPT ![k] = None]
  BY <1>1 DEF Kept, Fresh, TypeOK
<1>3. Kept[k] # None
  BY <1>1 DEF Kept, Fresh
<1> QED BY <1>2, <1>3 DEF Cache!Forget, Kept

\* The sweep deletes what readers do not see any more.
LEMMA SweepKept ==
    ASSUME TypeOK, Sweep
    PROVE  UNCHANGED Kept
<1>1. \A k \in Keys : row'[k] = IF k \in Expired THEN NoRow ELSE row[k]
  BY DEF Sweep
<1>2. \A k \in Keys : (IF Fresh(k)' THEN row'[k].answer ELSE None) = (IF Fresh(k) THEN row[k].answer ELSE None)
  BY <1>1 DEF Expired, Fresh, NoRow
<1> QED BY <1>2 DEF Kept

LEMMA NextKept == TypeOK /\ [Next]_vars => [Cache!Next]_Kept
<1> SUFFICES ASSUME TypeOK, [Next]_vars PROVE Cache!Next \/ UNCHANGED Kept
  OBVIOUS
<1>1. ASSUME UNCHANGED row PROVE UNCHANGED Kept
  BY <1>1 DEF Kept, Fresh
<1>2. ASSUME NEW p \in Procs, Wrap(p), ~Store(p) PROVE UNCHANGED Kept
  <2>1. UNCHANGED row
    BY <1>2 DEF Wrap, Request, Lookup, RunHandler
  <2> QED BY <2>1, <1>1
<1>3. ASSUME NEW p \in Procs, Store(p) PROVE Cache!Next \/ UNCHANGED Kept
  <2>1. PICK k \in Keys : k = Key(p)
    BY DEF TypeOK, Key
  <2> QED BY <1>3, <2>1, StoreKept DEF Cache!Next
<1>4. ASSUME NEW p \in Procs, Fault(p) PROVE UNCHANGED Kept
  BY <1>4, <1>1 DEF Fault, LookupFails, Dies
<1>5. ASSUME NEW k \in Keys, Expire(k) PROVE Cache!Next
  BY <1>5, ExpireKept DEF Cache!Next
<1>6. CASE Sweep
  BY <1>6, SweepKept
<1>7. CASE UNCHANGED vars
  BY <1>7, <1>1 DEF vars
<1> QED BY <1>2, <1>3, <1>4, <1>5, <1>6, <1>7 DEF Next

\* The cache implements AnswerCache: however requests race to store, what readers of a
\* key are given is not replaced until it expires (ON CONFLICT DO NOTHING in Store,
\* expires_at in Lookup).
THEOREM AnswersKept == Spec => KeepsFirstAnswer
<1>1. Kept = [k \in Keys |-> IF Fresh(k) THEN row[k].answer ELSE None]
  BY DEF Kept
<1>2. TypeOK /\ [Next]_vars => [Cache!Next]_([k \in Keys |-> IF Fresh(k) THEN row[k].answer ELSE None])
  BY NextKept DEF Kept
<1> QED BY <1>2, InitKept, TypeCorrect, PTL DEF Spec, KeepsFirstAnswer, Cache!Spec

-----------------------------------------------------------------------------
(* What retries are served.                                                *)

\* A row, and a request about to store, hold an answer that reached its caller whole.
AnswersWhole ==
    /\ \A k \in Keys : row[k].answer # None => row[k].answer \in whole
    /\ \A p \in Procs : At(p, "store") => proc[p].answer \in whole

\* Whatever was served for a key is the answer of its row, while there is one.
ServedFromRow ==
    \A k \in Keys : replayed[k] \subseteq (IF row[k].answer = None THEN {} ELSE {row[k].answer})

ReplayInv == TypeOK /\ AnswersWhole /\ ServedFromRow

LEMMA InitReplay == Init => ReplayInv
BY InitTypes DEF Init, ReplayInv, AnswersWhole, ServedFromRow, NoRow, None, At, Idle

LEMMA RequestReplay ==
    ASSUME ReplayInv, NEW p \in Procs, NEW k \in Keys, Request(p, k)
    PROVE  AnswersWhole' /\ ServedFromRow'
<1>1. \A q \in Procs : At(q, "store")' => At(q, "store") /\ proc'[q] = proc[q]
  BY DEF ReplayInv, TypeOK, Request, At
<1>2. UNCHANGED <<row, whole, replayed>>
  BY DEF Request
<1> QED BY <1>1, <1>2 DEF ReplayInv, AnswersWhole, ServedFromRow

LEMMA LookupReplay ==
    ASSUME ReplayInv, NEW p \in Procs, Lookup(p)
    PROVE  AnswersWhole' /\ ServedFromRow'
<1>1. \A q \in Procs : At(q, "store")' => At(q, "store") /\ proc'[q] = proc[q]
  BY IdleType DEF ReplayInv, TypeOK, Lookup, Return, At
<1>2. AnswersWhole'
  BY <1>1 DEF ReplayInv, AnswersWhole, Lookup
<1>3. ServedFromRow'
  <2>1. CASE Fresh(Key(p))
    <3>1. replayed' = [replayed EXCEPT ![Key(p)] = @ \cup {row[Key(p)].answer}] /\ row' = row
      BY <2>1 DEF Lookup
    <3> QED BY <2>1, <3>1 DEF ReplayInv, TypeOK, ServedFromRow, Fresh
  <2>2. CASE ~Fresh(Key(p))
    BY <2>2 DEF ReplayInv, ServedFromRow, Lookup
  <2> QED BY <2>1, <2>2
<1> QED BY <1>2, <1>3

LEMMA RunHandlerReplay ==
    ASSUME ReplayInv, NEW p \in Procs, NEW class \in Classes, NEW written \in BOOLEAN,
           RunHandler(p, class, written)
    PROVE  AnswersWhole' /\ ServedFromRow'
<1>1. whole \subseteq whole'
  BY DEF RunHandler
<1>2. \A q \in Procs \ {p} : proc'[q] = proc[q]
  BY DEF RunHandler, ReplayInv, TypeOK
<1>3. proc'[p].pc = "store" => proc'[p].answer \in whole'
  BY IdleType DEF RunHandler, AfterRun, ShouldCache, ReplayInv, TypeOK
<1>4. AnswersWhole'
  BY <1>1, <1>2, <1>3 DEF ReplayInv, AnswersWhole, RunHandler, At
<1> QED BY <1>4 DEF ReplayInv, ServedFromRow, RunHandler

LEMMA StoreReplay ==
    ASSUME ReplayInv, NEW p \in Procs, Store(p)
    PROVE  AnswersWhole' /\ ServedFromRow'
<1>1. \A q \in Procs : At(q, "store")' => At(q, "store") /\ proc'[q] = proc[q]
  BY IdleType DEF ReplayInv, TypeOK, Store, Return, At
<1>2. \A k \in Keys : \/ row'[k] = row[k]
                      \/ row[k].answer = None /\ row'[k].answer = proc[p].answer
  <2>1. CASE row[Key(p)].answer # None
    BY <2>1 DEF Store, Stored
  <2>2. CASE row[Key(p)].answer = None
    <3>1. row' = [row EXCEPT ![Key(p)] = [answer |-> proc[p].answer, live |-> TRUE]]
      BY <2>2 DEF Store, Stored
    <3> QED BY <2>2, <3>1 DEF ReplayInv, TypeOK
  <2> QED BY <2>1, <2>2
<1>3. proc[p].answer \in whole
  BY DEF ReplayInv, AnswersWhole, Store
<1> QED BY <1>1, <1>2, <1>3 DEF ReplayInv, AnswersWhole, ServedFromRow, Store

LEMMA FaultReplay ==
    ASSUME ReplayInv, NEW p \in Procs, Fault(p)
    PROVE  AnswersWhole' /\ ServedFromRow'
<1>1. \A q \in Procs : At(q, "store")' => At(q, "store") /\ proc'[q] = proc[q]
  BY IdleType DEF ReplayInv, TypeOK, Fault, LookupFails, Dies, Return, At
<1>2. UNCHANGED <<row, whole, replayed>>
  BY DEF Fault, LookupFails, Dies
<1> QED BY <1>1, <1>2 DEF ReplayInv, AnswersWhole, ServedFromRow

LEMMA ExpireReplay ==
    ASSUME ReplayInv, NEW k \in Keys, Expire(k)
    PROVE  AnswersWhole' /\ ServedFromRow'
<1>1. \A j \in Keys : row'[j].answer = row[j].answer
  BY DEF ReplayInv, TypeOK, Expire
<1> QED BY <1>1 DEF ReplayInv, AnswersWhole, ServedFromRow, Expire, At

LEMMA SweepReplay ==
    ASSUME ReplayInv, Sweep
    PROVE  AnswersWhole' /\ ServedFromRow'
<1>1. \A k \in Keys : \/ row'[k] = row[k] /\ replayed'[k] = replayed[k]
                      \/ row'[k].answer = None /\ replayed'[k] = {}
  <2>1. \A k \in Keys : /\ row'[k] = IF k \in Expired THEN NoRow ELSE row[k]
                       /\ replayed'[k] = IF k \in Expired THEN {} ELSE replayed[k]
    BY DEF Sweep
  <2>2. NoRow.answer = None
    BY DEF NoRow
  <2> QED BY <2>1, <2>2
<1>2. UNCHANGED <<proc, whole>>
  BY DEF Sweep
<1> QED BY <1>1, <1>2 DEF ReplayInv, AnswersWhole, ServedFromRow, At

LEMMA NextReplay == ReplayInv /\ [Next]_vars => ReplayInv'
<1> SUFFICES ASSUME ReplayInv, [Next]_vars PROVE AnswersWhole' /\ ServedFromRow'
  BY NextTypes DEF ReplayInv
<1>1. CASE UNCHANGED vars
  BY <1>1 DEF vars, ReplayInv, AnswersWhole, ServedFromRow, At
<1>2. ASSUME NEW p \in Procs, Wrap(p) PROVE AnswersWhole' /\ ServedFromRow'
  BY <1>2, RequestReplay, LookupReplay, RunHandlerReplay, StoreReplay DEF Wrap
<1>3. ASSUME NEW p \in Procs, Fault(p) PROVE AnswersWhole' /\ ServedFromRow'
  BY <1>3, FaultReplay
<1>4. ASSUME NEW k \in Keys, Expire(k) PROVE AnswersWhole' /\ ServedFromRow'
  BY <1>4, ExpireReplay
<1>5. CASE Sweep
  BY <1>5, SweepReplay
<1> QED BY <1>1, <1>2, <1>3, <1>4, <1>5 DEF Next

LEMMA ReplayImplies == ReplayInv => ReplaysAreOriginal
<1> SUFFICES ASSUME ReplayInv, NEW k \in Keys
             PROVE  replayed[k] \subseteq whole /\ Cardinality(replayed[k]) <= 1
  BY DEF ReplaysAreOriginal
<1>1. CASE replayed[k] = {}
  BY <1>1, FS_EmptySet
<1>2. CASE replayed[k] # {}
  <2>1. replayed[k] = {row[k].answer} /\ row[k].answer \in whole
    BY <1>2 DEF ReplayInv, ServedFromRow, AnswersWhole
  <2>2. Cardinality({row[k].answer}) = 1
    BY FS_Singleton
  <2> QED BY <2>1, <2>2
<1> QED BY <1>1, <1>2

\* A retry is never served a fragment, nor two retries of a key two different answers
\* while its row is there, for any number of racing requests (shouldCache, Store, Lookup).
THEOREM ReplaysOriginal == Spec => []ReplaysAreOriginal
BY InitReplay, NextReplay, ReplayImplies, PTL DEF Spec

-----------------------------------------------------------------------------
(* How often the handler runs.                                             *)

Active(p, k)  == ~At(p, "idle") /\ Key(p) = k
Storing(p, k) == At(p, "store") /\ Key(p) = k

\* Only keys in overlapped are shared by requests in flight.
Alone == \A k \in Keys \ overlapped : \A p, q \in Procs : Active(p, k) /\ Active(q, k) => p = q

\* An expired row is recorded in stale until it is deleted.
StaleKnown == \A k \in Keys : row[k].answer # None /\ ~row[k].live => k \in stale

\* made[k] counts the answer that is in the row, or on its way to it.
CountedFor(k) ==
    /\ row[k].answer # None =>
          /\ made[k] <= 1
          /\ \A p \in Procs : Active(p, k) => At(p, "lookup")
    /\ row[k].answer = None =>
          IF \E p \in Procs : Storing(p, k) THEN made[k] = 1 ELSE made[k] = 0

Counted == \A k \in Keys \ (overlapped \cup stale \cup faulty) : CountedFor(k)

RunInv == TypeOK /\ Alone /\ StaleKnown /\ Counted

LEMMA InitRun == Init => RunInv
<1> SUFFICES ASSUME Init PROVE Alone /\ StaleKnown /\ Counted
  BY InitTypes DEF RunInv
<1>1. \A p \in Procs : proc[p].pc = "idle"
  BY IdleType DEF Init
<1>2. \A k \in Keys : row[k].answer = None /\ made[k] = 0
  BY DEF Init, NoRow
<1> QED BY <1>1, <1>2 DEF Alone, StaleKnown, Counted, CountedFor, Active, Storing, At

LEMMA RequestRun ==
    ASSUME RunInv, NEW p \in Procs, NEW k \in Keys, Request(p, k)
    PROVE  Alone' /\ StaleKnown' /\ Counted'
<1>1. /\ \A q \in Procs \ {p} : proc'[q] = proc[q]
      /\ proc'[p].pc = "lookup" /\ proc'[p].key = k /\ proc[p].pc = "idle"
  BY DEF RunInv, TypeOK, Request, At
<1>2. UNCHANGED <<row, made, stale, faulty>> /\ overlapped \subseteq overlapped'
  BY DEF Request
<1>3. k \notin overlapped' => \A q \in Procs : ~Active(q, k)
  BY DEF Request, Active
<1>4. Alone'
  BY <1>1, <1>2, <1>3 DEF RunInv, Alone, Active, At, Key
<1>5. \A j \in Keys, q \in Procs : Storing(q, j)' <=> Storing(q, j)
  BY <1>1 DEF Storing, At, Key
<1>6. \A j \in Keys, q \in Procs :
        Active(q, j)' => (Active(q, j) /\ proc'[q] = proc[q]) \/ At(q, "lookup")'
  BY <1>1 DEF Active, At, Key
<1>7. Counted'
  BY <1>2, <1>5, <1>6 DEF RunInv, Counted, CountedFor, At
<1> QED BY <1>2, <1>4, <1>7 DEF RunInv, StaleKnown

LEMMA LookupRun ==
    ASSUME RunInv, NEW p \in Procs, Lookup(p)
    PROVE  Alone' /\ StaleKnown' /\ Counted'
<1>1. UNCHANGED <<row, made, stale, faulty, overlapped>>
  BY DEF Lookup
<1>2. /\ \A q \in Procs \ {p} : proc'[q] = proc[q]
      /\ proc[p].pc = "lookup"
      /\ \/ proc'[p].pc = "idle"
         \/ proc'[p].pc = "run" /\ Key(p)' = Key(p) /\ ~Fresh(Key(p))
  BY IdleType DEF RunInv, TypeOK, Lookup, Return, At, Key
<1>3. \A j \in Keys, q \in Procs : /\ Active(q, j)' => Active(q, j)
                                   /\ Storing(q, j)' <=> Storing(q, j)
  BY <1>2 DEF Active, Storing, At, Key
<1>4. \A j \in Keys, q \in Procs :
        Active(q, j)' => proc'[q] = proc[q] \/ ~Fresh(j)
  BY <1>2 DEF Active, At, Key
<1>5. \A j \in Keys \ stale : row[j].answer # None => Fresh(j)
  BY DEF RunInv, StaleKnown, Fresh
<1>6. Counted'
  BY <1>1, <1>3, <1>4, <1>5 DEF RunInv, Counted, CountedFor, At
<1>7. Alone'
  BY <1>1, <1>3 DEF RunInv, Alone
<1> QED BY <1>1, <1>6, <1>7 DEF RunInv, StaleKnown

LEMMA RunHandlerRun ==
    ASSUME RunInv, NEW p \in Procs, NEW class \in Classes, NEW written \in BOOLEAN,
           RunHandler(p, class, written)
    PROVE  Alone' /\ StaleKnown' /\ Counted'
<1>1. UNCHANGED <<row, stale, overlapped>> /\ faulty \subseteq faulty' /\ Key(p) \in Keys
  BY DEF RunHandler, RunInv, TypeOK, Key
<1>2. /\ \A q \in Procs \ {p} : proc'[q] = proc[q]
      /\ proc[p].pc = "run"
      /\ IF ShouldCache(class, written)
         THEN proc'[p].pc = "store" /\ Key(p)' = Key(p) ELSE proc'[p].pc = "idle"
  BY IdleType DEF RunInv, TypeOK, RunHandler, AfterRun, At, Key
<1>3. \A j \in Keys, q \in Procs : Active(q, j)' => Active(q, j)
  BY <1>2 DEF Active, At, Key
<1>4. Alone'
  BY <1>1, <1>3 DEF RunInv, Alone
<1>5. ASSUME NEW j \in Keys \ (overlapped \cup stale \cup faulty'), j # Key(p)
      PROVE  CountedFor(j)'
  <2>1. CountedFor(j) /\ made'[j] = made[j]
    BY <1>1, <1>5 DEF RunInv, TypeOK, Counted, RunHandler
  <2>2. \A q \in Procs : /\ Storing(q, j)' <=> Storing(q, j)
                         /\ Active(q, j)' => Active(q, j) /\ proc'[q] = proc[q]
    BY <1>2, <1>5 DEF Storing, Active, At, Key
  <2> QED BY <1>1, <2>1, <2>2 DEF CountedFor, At
<1>6. ASSUME Key(p) \notin overlapped \cup stale \cup faulty', NEW j \in Keys, j = Key(p)
      PROVE  CountedFor(j)'
  <2>1. written /\ CountedFor(j)
    BY <1>1, <1>6 DEF RunInv, Counted, RunHandler
  <2>2. row[j].answer = None
    BY <1>2, <1>6, <2>1 DEF CountedFor, Active, At
  <2>3. \A q \in Procs \ {p} : ~Active(q, j)
    BY <1>2, <1>6 DEF RunInv, Alone, Active, At
  <2>4. made[j] = 0
    BY <1>2, <1>6, <2>1, <2>2, <2>3 DEF CountedFor, Storing, Active, At
  <2>5. CASE class = "5xx"
    <3>1. made'[j] = 0 /\ \A q \in Procs : ~Storing(q, j)'
      BY <1>2, <2>3, <2>4, <2>5 DEF RunHandler, ShouldCache, Storing, Active, At, Key
    <3> QED BY <1>1, <2>2, <3>1 DEF CountedFor
  <2>6. CASE class # "5xx"
    <3>1. made'[j] = 1
      BY <1>6, <2>4, <2>6 DEF RunHandler, RunInv, TypeOK
    <3>2. Storing(p, j)'
      BY <1>2, <1>6, <2>1, <2>6 DEF ShouldCache, Storing, At
    <3> QED BY <1>1, <2>2, <3>1, <3>2 DEF CountedFor
  <2> QED BY <2>5, <2>6
<1>7. Counted'
  BY <1>1, <1>5, <1>6 DEF Counted
<1> QED BY <1>1, <1>4, <1>7 DEF RunInv, StaleKnown

LEMMA StoreRun ==
    ASSUME RunInv, NEW p \in Procs, Store(p)
    PROVE  Alone' /\ StaleKnown' /\ Counted'
<1>1. UNCHANGED <<made, stale, faulty, overlapped>>
  BY DEF Store
<1>2. /\ \A q \in Procs \ {p} : proc'[q] = proc[q]
      /\ proc[p].pc = "store" /\ proc'[p].pc = "idle"
  BY IdleType DEF RunInv, TypeOK, Store, Return, At
<1>3. \A j \in Keys, q \in Procs : Active(q, j)' => Active(q, j) /\ proc'[q] = proc[q] /\ q # p
  BY <1>2 DEF Active, At, Key
<1>4. Alone'
  BY <1>1, <1>3 DEF RunInv, Alone
<1>5. \A j \in Keys : \/ row'[j] = row[j]
                      \/ j = Key(p) /\ row'[j].answer # None /\ row'[j].live
  <2>1. CASE row[Key(p)].answer # None
    BY <2>1 DEF Store, Stored
  <2>2. CASE row[Key(p)].answer = None
    <3>1. row' = [row EXCEPT ![Key(p)] = [answer |-> proc[p].answer, live |-> TRUE]]
      BY <2>2 DEF Store, Stored
    <3>2. proc[p].answer # None
      BY <1>2 DEF RunInv, TypeOK, At, Answers
    <3> QED BY <3>1, <3>2 DEF RunInv, TypeOK
  <2> QED BY <2>1, <2>2
<1>6. StaleKnown'
  BY <1>1, <1>5 DEF RunInv, StaleKnown
<1>7. ASSUME NEW j \in Keys \ (overlapped \cup stale \cup faulty), j # Key(p)
      PROVE  CountedFor(j)'
  <2>1. CountedFor(j) /\ row'[j] = row[j]
    BY <1>5, <1>7 DEF RunInv, Counted
  <2>2. \A q \in Procs : Storing(q, j)' <=> Storing(q, j)
    BY <1>2, <1>7 DEF Storing, At, Key
  <2> QED BY <1>1, <1>3, <2>1, <2>2 DEF CountedFor, At
<1>8. ASSUME NEW j \in Keys \ (overlapped \cup stale \cup faulty), j = Key(p)
      PROVE  CountedFor(j)'
  <2>1. CountedFor(j) /\ Active(p, j) /\ Storing(p, j)
    BY <1>2, <1>8 DEF RunInv, Counted, Active, Storing, At
  <2>2. row[j].answer = None /\ made[j] = 1
    BY <1>2, <2>1 DEF CountedFor, At
  <2>3. row'[j].answer # None
    <3>1. row' = [row EXCEPT ![j] = [answer |-> proc[p].answer, live |-> TRUE]]
      BY <1>8, <2>2 DEF Store, Stored
    <3>2. proc[p].answer # None
      BY <1>2 DEF RunInv, TypeOK, At, Answers
    <3> QED BY <3>1, <3>2 DEF RunInv, TypeOK
  <2>4. \A q \in Procs : ~Active(q, j)'
    BY <1>3, <1>8, <2>1 DEF RunInv, Alone
  <2> QED BY <1>1, <2>2, <2>3, <2>4 DEF CountedFor
<1>9. Counted'
  BY <1>1, <1>7, <1>8 DEF Counted
<1> QED BY <1>4, <1>6, <1>9

LEMMA FaultRun ==
    ASSUME RunInv, NEW p \in Procs, Fault(p)
    PROVE  Alone' /\ StaleKnown' /\ Counted'
<1>1. UNCHANGED <<row, made, stale, overlapped>> /\ faulty' = faulty \cup {Key(p)}
  BY DEF Fault, LookupFails, Dies
<1>2. /\ \A q \in Procs \ {p} : proc'[q] = proc[q]
      /\ proc[p].pc # "idle"
      /\ \/ proc'[p].pc = "idle"
         \/ proc'[p].pc = "run" /\ Key(p)' = Key(p)
  BY IdleType DEF RunInv, TypeOK, Fault, LookupFails, Dies, Return, At, Key
<1>3. \A j \in Keys, q \in Procs : Active(q, j)' => Active(q, j)
  BY <1>2 DEF Active, At, Key
<1>4. Alone'
  BY <1>1, <1>3 DEF RunInv, Alone
<1>5. \A j \in Keys, q \in Procs :
        j # Key(p) => /\ Storing(q, j)' <=> Storing(q, j)
                      /\ Active(q, j)' => Active(q, j) /\ proc'[q] = proc[q]
  BY <1>2 DEF Storing, Active, At, Key
<1>6. Counted'
  BY <1>1, <1>5 DEF RunInv, Counted, CountedFor, At
<1> QED BY <1>1, <1>4, <1>6 DEF RunInv, StaleKnown

LEMMA ExpireRun ==
    ASSUME RunInv, NEW k \in Keys, Expire(k)
    PROVE  Alone' /\ StaleKnown' /\ Counted'
<1>1. UNCHANGED <<proc, made, faulty, overlapped>> /\ stale' = stale \cup {k}
  BY DEF Expire
<1>2. \A j \in Keys \ {k} : row'[j] = row[j]
  BY DEF Expire, RunInv, TypeOK
<1>3. Alone' /\ StaleKnown'
  BY <1>1, <1>2 DEF RunInv, Alone, StaleKnown, Active, At, Key
<1>4. Counted'
  BY <1>1, <1>2 DEF RunInv, Counted, CountedFor, Active, Storing, At, Key
<1> QED BY <1>3, <1>4

\* Deleting an expired row: what was counted for it is forgotten, and one request at most
\* is still on its way to store.
LEMMA SweepRun ==
    ASSUME RunInv, Sweep
    PROVE  Alone' /\ StaleKnown' /\ Counted'
<1>1. UNCHANGED <<proc, faulty, overlapped>> /\ stale' = stale \ Expired
  BY DEF Sweep
<1>2. \A j \in Keys : /\ j \notin Expired => row'[j] = row[j] /\ made'[j] = made[j]
                      /\ j \in Expired => row'[j] = NoRow
  BY DEF Sweep
<1>3. Alone'
  BY <1>1 DEF RunInv, Alone, Active, At, Key
<1>4. StaleKnown'
  BY <1>1, <1>2 DEF RunInv, StaleKnown, Expired, NoRow
<1>5. ASSUME NEW j \in Keys, j \notin Expired, CountedFor(j) PROVE CountedFor(j)'
  BY <1>1, <1>2, <1>5 DEF CountedFor, Active, Storing, At, Key
<1>6. ASSUME NEW j \in Keys, j \in Expired, j \notin overlapped PROVE CountedFor(j)'
  <2> DEFINE S == {q \in Procs : At(q, "store") /\ Key(q) = j}
  <2>1. made'[j] = Cardinality(S)
    BY <1>6 DEF Sweep
  <2>2. row'[j].answer = None
    BY <1>2, <1>6 DEF NoRow
  <2>3. CASE S = {}
    <3>1. made'[j] = 0
      BY <2>1, <2>3, FS_EmptySet
    <3>2. ~\E q \in Procs : Storing(q, j)'
      BY <1>1, <2>3 DEF Storing, At, Key
    <3> QED BY <2>2, <3>1, <3>2 DEF CountedFor
  <2>4. CASE S # {}
    <3>1. PICK q \in Procs : q \in S
      BY <2>4
    <3>2. S = {q}
      BY <1>6, <3>1 DEF RunInv, Alone, Active, At
    <3>3. made'[j] = 1
      BY <2>1, <3>2, FS_Singleton
    <3>4. Storing(q, j)'
      BY <1>1, <3>1 DEF Storing, At, Key
    <3> QED BY <2>2, <3>3, <3>4 DEF CountedFor
  <2> QED BY <2>3, <2>4
<1>7. Counted'
  BY <1>1, <1>5, <1>6 DEF RunInv, Counted
<1> QED BY <1>3, <1>4, <1>7

LEMMA NextRun == RunInv /\ [Next]_vars => RunInv'
<1> SUFFICES ASSUME RunInv, [Next]_vars PROVE Alone' /\ StaleKnown' /\ Counted'
  BY NextTypes DEF RunInv
<1>1. CASE UNCHANGED vars
  BY <1>1 DEF vars, RunInv, Alone, StaleKnown, Counted, CountedFor, Active, Storing, At, Key
<1>2. ASSUME NEW p \in Procs, Wrap(p) PROVE Alone' /\ StaleKnown' /\ Counted'
  BY <1>2, RequestRun, LookupRun, RunHandlerRun, StoreRun DEF Wrap
<1>3. ASSUME NEW p \in Procs, Fault(p) PROVE Alone' /\ StaleKnown' /\ Counted'
  BY <1>3, FaultRun
<1>4. ASSUME NEW k \in Keys, Expire(k) PROVE Alone' /\ StaleKnown' /\ Counted'
  BY <1>4, ExpireRun
<1>5. CASE Sweep
  BY <1>5, SweepRun
<1> QED BY <1>1, <1>2, <1>3, <1>4, <1>5 DEF Next

LEMMA RunImplies == RunInv => SequentialRetriesRunOnce
BY DEF RunInv, TypeOK, Counted, CountedFor, SequentialRetriesRunOnce

\* Retries of a key that do not overlap, meet no fault and come before the row expires
\* make the handler give one cacheable answer only, and again one after each deletion of
\* the row, for any number of keys and requests (Wrap, Store, Sweep).
THEOREM RunsOnce == Spec => []SequentialRetriesRunOnce
BY InitRun, NextRun, RunImplies, PTL DEF Spec
=============================================================================
