------------------------- MODULE DecisionChainProofs -------------------------
(***************************************************************************)
(* Theorems about DecisionChain, for any number of agents, chains,         *)
(* decisions and signing configurations: types and locks, what a shutdown  *)
(* leaves behind, the refinement of Ledger, and that every chain verifies. *)
(***************************************************************************)
EXTENDS DecisionChain, FiniteSetTheorems, SequenceTheorems, TLAPS

-----------------------------------------------------------------------------
(* Decisions and their goroutines.                                         *)

Lives   == {"down", "up", "closing"}
DecPcs  == InHand \cup {"new", "stored", "error", "killed", "left"}
AllConfigs == Configs \cup {Unconfigured}

\* dec is a function to records; what a row is made of has no type of its own.
DecShape ==
    dec = [d \in Decisions |-> [pc |-> dec[d].pc, at |-> dec[d].at, chain |-> dec[d].chain,
                                sync |-> dec[d].sync, row |-> dec[d].row]]

DecFields == \A d \in Decisions : /\ dec[d].pc \in DecPcs
                                  /\ dec[d].at \in Agents /\ dec[d].chain \in Chains
                                  /\ dec[d].sync \in BOOLEAN

\* Updating a record of that shape.
LEMMA RecordUpdates ==
    ASSUME NEW p, NEW a, NEW c, NEW s, NEW r,
           NEW x, x = [pc |-> p, at |-> a, chain |-> c, sync |-> s, row |-> r],
           NEW p2, NEW a2, NEW c2, NEW s2, NEW r2, NEW y
    PROVE  /\ y = [x EXCEPT !.pc = p2, !.at = a2, !.chain = c2, !.sync = s2]
                  => y = [pc |-> p2, at |-> a2, chain |-> c2, sync |-> s2, row |-> r]
           /\ y = [x EXCEPT !.pc = p2, !.row = r2]
                  => y = [pc |-> p2, at |-> a, chain |-> c, sync |-> s, row |-> r2]
<1>1. y = [x EXCEPT !.pc = p2, !.at = a2, !.chain = c2, !.sync = s2]
         => y = [pc |-> p2, at |-> a2, chain |-> c2, sync |-> s2, row |-> r]
  OBVIOUS
<1>2. y = [x EXCEPT !.pc = p2, !.row = r2]
         => y = [pc |-> p2, at |-> a, chain |-> c, sync |-> s, row |-> r2]
  OBVIOUS
<1> QED BY <1>1, <1>2

LEMMA DecisionsFinite == IsFiniteSet(Decisions) /\ Decisions \subseteq Nat /\ 0 \notin Decisions
<1>1. IsFiniteSet(1 .. MaxDecisions)
  BY FS_Interval, BoundsAssumption
<1> QED BY <1>1, BoundsAssumption DEF Decisions

LEMMA IdleFields ==
    ASSUME NEW pc, NEW sync
    PROVE  /\ Idle(pc, sync).pc = pc /\ Idle(pc, sync).sync = sync
           /\ Idle(pc, sync).at \in Agents /\ Idle(pc, sync).chain \in Chains
           /\ Idle(pc, sync) = [pc |-> Idle(pc, sync).pc, at |-> Idle(pc, sync).at,
                                chain |-> Idle(pc, sync).chain, sync |-> Idle(pc, sync).sync,
                                row |-> Idle(pc, sync).row]
<1>1. (CHOOSE a \in Agents : TRUE) \in Agents
  BY DeploymentAssumption
<1>2. (CHOOSE c \in Chains : TRUE) \in Chains
  BY DeploymentAssumption
<1> QED BY <1>1, <1>2 DEF Idle

\* What SetDec changes.
LEMMA SetDecEffect ==
    ASSUME DecShape, NEW d \in Decisions, NEW v, SetDec(d, v)
    PROVE  /\ DecShape'
           /\ dec'[d].pc = v
           /\ \A e \in Decisions : /\ e # d => dec'[e].pc = dec[e].pc
                                   /\ dec'[e].at = dec[e].at /\ dec'[e].chain = dec[e].chain
                                   /\ dec'[e].sync = dec[e].sync /\ dec'[e].row = dec[e].row
<1>1. \A e \in Decisions :
        dec'[e] = IF e = d THEN [pc |-> v, at |-> dec[d].at, chain |-> dec[d].chain,
                                 sync |-> dec[d].sync, row |-> dec[d].row] ELSE dec[e]
  BY DEF SetDec, DecShape
<1>2. dec' = [e \in Decisions |-> dec'[e]]
  BY DEF SetDec, DecShape
<1>3. \A e \in Decisions :
        dec'[e] = [pc |-> dec'[e].pc, at |-> dec'[e].at, chain |-> dec'[e].chain,
                   sync |-> dec'[e].sync, row |-> dec'[e].row]
  BY <1>1 DEF DecShape
<1> QED BY <1>1, <1>2, <1>3 DEF DecShape

\* What Settle changes.
LEMMA SettleEffect ==
    ASSUME DecShape, NEW d \in Decisions, NEW v, Settle(d, v)
    PROVE  /\ DecShape'
           /\ dec'[d].pc = v /\ dec'[d].at \in Agents /\ dec'[d].chain \in Chains
           /\ dec'[d].sync = dec[d].sync
           /\ \A e \in Decisions : e # d => dec'[e] = dec[e]
<1>1. dec' = [dec EXCEPT ![d] = Idle(v, dec[d].sync)]
  BY DEF Settle
<1>2. \A e \in Decisions : dec'[e] = IF e = d THEN Idle(v, dec[d].sync) ELSE dec[e]
  BY <1>1 DEF DecShape
<1>3. dec' = [e \in Decisions |-> dec'[e]]
  BY <1>1 DEF DecShape
<1>4. \A e \in Decisions :
        dec'[e] = [pc |-> dec'[e].pc, at |-> dec'[e].at, chain |-> dec'[e].chain,
                   sync |-> dec'[e].sync, row |-> dec'[e].row]
  BY <1>2, IdleFields DEF DecShape
<1> QED BY <1>2, <1>3, <1>4, IdleFields DEF DecShape

\* What RecordDecision changes.
LEMMA RecordEffect ==
    ASSUME DecShape, NEW d \in Decisions, NEW a \in Agents, NEW c \in Chains,
           RecordDecision(d, a, c)
    PROVE  LET queued == agent[a].life = "up" /\ HasRoom(a) IN
           /\ DecShape'
           /\ dec'[d].pc = (IF queued THEN "queued" ELSE "lock")
           /\ dec'[d].at = a /\ dec'[d].chain = c /\ dec'[d].sync = ~queued
           /\ \A e \in Decisions : e # d => dec'[e] = dec[e]
<1> DEFINE queued == agent[a].life = "up" /\ HasRoom(a)
<1>1. dec' = [dec EXCEPT ![d] = [dec[d] EXCEPT !.pc = IF queued THEN "queued" ELSE "lock",
                                               !.at = a, !.chain = c, !.sync = ~queued]]
  BY DEF RecordDecision
<1> HIDE DEF queued
<1>2. \A e \in Decisions :
        dec'[e] = IF e = d THEN [pc |-> IF queued THEN "queued" ELSE "lock", at |-> a,
                                 chain |-> c, sync |-> ~queued, row |-> dec[d].row] ELSE dec[e]
  <2>1. dec[d] = [pc |-> dec[d].pc, at |-> dec[d].at, chain |-> dec[d].chain,
                  sync |-> dec[d].sync, row |-> dec[d].row]
    BY DEF DecShape
  <2>2. DOMAIN dec = Decisions
    BY DEF DecShape
  <2>3. /\ dec'[d] = [dec[d] EXCEPT !.pc = IF queued THEN "queued" ELSE "lock",
                                    !.at = a, !.chain = c, !.sync = ~queued]
        /\ \A e \in Decisions : e # d => dec'[e] = dec[e]
    BY <1>1, <2>2, Zenon
  <2> QED BY <2>1, <2>3, RecordUpdates, Zenon
<1>3. dec' = [e \in Decisions |-> dec'[e]]
  BY <1>1 DEF DecShape
<1>4. \A e \in Decisions :
        dec'[e] = [pc |-> dec'[e].pc, at |-> dec'[e].at, chain |-> dec'[e].chain,
                   sync |-> dec'[e].sync, row |-> dec'[e].row]
  BY <1>2 DEF DecShape
<1>5. DecShape'
  BY <1>3, <1>4 DEF DecShape
<1> QED BY <1>2, <1>5 DEF queued

\* What ReadTail changes.
LEMMA ReadTailEffect ==
    ASSUME DecShape, NEW d \in Decisions, ReadTail(d)
    PROVE  /\ DecShape'
           /\ dec'[d].pc = "commit" /\ dec'[d].at = dec[d].at
           /\ dec'[d].chain = dec[d].chain /\ dec'[d].sync = dec[d].sync
           /\ dec'[d].row = NextRow(d, dec[d].chain, agent[dec[d].at].config)
           /\ \A e \in Decisions : e # d => dec'[e] = dec[e]
<1> DEFINE r == NextRow(d, dec[d].chain, agent[dec[d].at].config)
<1>1. dec' = [dec EXCEPT ![d] = [dec[d] EXCEPT !.pc = "commit", !.row = r]]
  BY DEF ReadTail
<1> HIDE DEF r
<1>2. \A e \in Decisions :
        dec'[e] = IF e = d THEN [pc |-> "commit", at |-> dec[d].at, chain |-> dec[d].chain,
                                 sync |-> dec[d].sync, row |-> r] ELSE dec[e]
  <2>1. dec[d] = [pc |-> dec[d].pc, at |-> dec[d].at, chain |-> dec[d].chain,
                  sync |-> dec[d].sync, row |-> dec[d].row]
    BY DEF DecShape
  <2>2. DOMAIN dec = Decisions
    BY DEF DecShape
  <2>3. /\ dec'[d] = [dec[d] EXCEPT !.pc = "commit", !.row = r]
        /\ \A e \in Decisions : e # d => dec'[e] = dec[e]
    BY <1>1, <2>2, Zenon
  <2> QED BY <2>1, <2>3, RecordUpdates, Zenon
<1>3. dec' = [e \in Decisions |-> dec'[e]]
  BY <1>1 DEF DecShape
<1>4. \A e \in Decisions :
        dec'[e] = [pc |-> dec'[e].pc, at |-> dec'[e].at, chain |-> dec'[e].chain,
                   sync |-> dec'[e].sync, row |-> dec'[e].row]
  BY <1>2 DEF DecShape
<1>5. DecShape'
  BY <1>3, <1>4 DEF DecShape
<1> QED BY <1>2, <1>5 DEF r

\* What the end of a process changes: it settles what the process had in hand.
LEMMA EndsEffect ==
    ASSUME DecShape, NEW a \in Agents, NEW how, Ends(a, how)
    PROVE  /\ DecShape'
           /\ \A d \in Decisions :
                IF dec[d].at = a /\ dec[d].pc \in InHand
                THEN /\ dec'[d].pc = how /\ dec'[d].sync = dec[d].sync
                     /\ dec'[d].at \in Agents /\ dec'[d].chain \in Chains
                ELSE dec'[d] = dec[d]
<1>1. \A d \in Decisions :
        dec'[d] = IF dec[d].at = a /\ dec[d].pc \in InHand THEN Idle(how, dec[d].sync) ELSE dec[d]
  BY DEF Ends
<1>2. dec' = [e \in Decisions |-> dec'[e]]
  BY DEF Ends
<1>3. \A e \in Decisions :
        dec'[e] = [pc |-> dec'[e].pc, at |-> dec'[e].at, chain |-> dec'[e].chain,
                   sync |-> dec'[e].sync, row |-> dec'[e].row]
  BY <1>1, IdleFields DEF DecShape
<1>4. DecShape'
  BY <1>2, <1>3 DEF DecShape
<1> QED BY <1>1, <1>4, IdleFields

-----------------------------------------------------------------------------
(* Types, queues, workers and locks.                                       *)

Held == {"tail", "commit"}
BusySet(a) == {d \in Decisions : dec[d].at = a /\ dec[d].pc \in Writing /\ ~dec[d].sync}

Shapes ==
    /\ agent \in [Agents -> [life: Lives, config: AllConfigs]]
    /\ queue \in [Agents -> Seq(Decisions)]
    /\ pool \in [Agents -> 0 .. Workers]
    /\ DecShape /\ DecFields
    /\ lock \in [Chains -> Decisions \cup {0}]
    /\ starts \in Nat /\ crashes \in Nat /\ faults \in Nat

\* A queue holds the decisions that wait at its agent, each once.
QueueInv ==
    /\ \A a \in Agents : Len(queue[a]) <= QueueSize
    /\ \A a \in Agents : \A i \in 1 .. Len(queue[a]) :
         dec[queue[a][i]].pc = "queued" /\ dec[queue[a][i]].at = a
    /\ \A a \in Agents : \A i, j \in 1 .. Len(queue[a]) : queue[a][i] = queue[a][j] => i = j
    /\ \A d \in Decisions : dec[d].pc = "queued" =>
         /\ ~dec[d].sync
         /\ \E i \in 1 .. Len(queue[dec[d].at]) : queue[dec[d].at][i] = d

BusyInv == \A a \in Agents : Busy(a) <= pool[a]

LockInv == \A c \in Chains, d \in Decisions :
    lock[c] = d <=> dec[d].chain = c /\ dec[d].pc \in Held

TypeInv == Shapes /\ QueueInv /\ BusyInv /\ LockInv

LEMMA BusyFinite == ASSUME NEW a PROVE IsFiniteSet(BusySet(a)) /\ Cardinality(BusySet(a)) \in Nat
<1>1. BusySet(a) \subseteq Decisions
  BY DEF BusySet
<1>2. IsFiniteSet(BusySet(a))
  BY <1>1, DecisionsFinite, FS_Subset
<1> QED BY <1>2, FS_CardinalityType

LEMMA QueueKept ==
    ASSUME Shapes, QueueInv, UNCHANGED queue,
           \A d \in Decisions :
              /\ dec'[d].pc = "queued" <=> dec[d].pc = "queued"
              /\ dec[d].pc = "queued" => dec'[d].at = dec[d].at /\ dec'[d].sync = dec[d].sync
    PROVE  QueueInv'
<1>1. \A a \in Agents : queue[a] \in Seq(Decisions) /\ \A i \in 1 .. Len(queue[a]) : queue[a][i] \in Decisions
  BY DEF Shapes
<1> QED BY <1>1 DEF QueueInv

LEMMA BusyKept ==
    ASSUME Shapes, BusyInv, UNCHANGED pool,
           \A d \in Decisions : dec'[d].pc \in Writing /\ ~dec'[d].sync =>
              /\ dec[d].pc \in Writing /\ ~dec[d].sync /\ dec'[d].at = dec[d].at
    PROVE  BusyInv'
<1> SUFFICES ASSUME NEW a \in Agents PROVE Cardinality(BusySet(a)') <= pool[a]
  BY DEF BusyInv, Busy, BusySet
<1>1. BusySet(a)' \subseteq BusySet(a)
  BY DEF BusySet
<1>2. Cardinality(BusySet(a)') <= Cardinality(BusySet(a)) /\ Cardinality(BusySet(a)') \in Nat
  BY <1>1, BusyFinite, FS_Subset, FS_CardinalityType
<1>3. Cardinality(BusySet(a)) <= pool[a] /\ pool[a] \in Int
  BY BoundsAssumption DEF BusyInv, Busy, BusySet, Shapes
<1> QED BY <1>2, <1>3, BusyFinite

LEMMA LockKept ==
    ASSUME LockInv, UNCHANGED lock,
           \A d \in Decisions :
              /\ dec'[d].pc \in Held <=> dec[d].pc \in Held
              /\ dec[d].pc \in Held => dec'[d].chain = dec[d].chain
    PROVE  LockInv'
BY DEF LockInv

\* The transactions of ds end and their locks are free.
LEMMA LockFreed ==
    ASSUME Shapes, LockInv, NEW ds \in SUBSET Decisions, lock' = Freed(ds),
           \A d \in ds : dec'[d].pc \notin Held,
           \A d \in Decisions \ ds : dec'[d] = dec[d]
    PROVE  LockInv' /\ lock' \in [Chains -> Decisions \cup {0}]
<1>1. \A c \in Chains : lock'[c] = IF lock[c] \in ds THEN 0 ELSE lock[c]
  BY DEF Freed
<1>2. lock' \in [Chains -> Decisions \cup {0}]
  BY DEF Freed, Shapes
<1>3. ASSUME NEW c \in Chains, NEW d \in Decisions
      PROVE  lock'[c] = d <=> dec'[d].chain = c /\ dec'[d].pc \in Held
  <2>1. d # 0
    BY DecisionsFinite
  <2>2. lock[c] = d <=> dec[d].chain = c /\ dec[d].pc \in Held
    BY DEF LockInv
  <2>3. CASE d \in ds
    BY <1>1, <2>1, <2>3
  <2>4. CASE d \notin ds
    BY <1>1, <2>1, <2>2, <2>4
  <2> QED BY <2>3, <2>4
<1> QED BY <1>2, <1>3 DEF LockInv

LEMMA InitTypes == Init => TypeInv
<1> SUFFICES ASSUME Init PROVE TypeInv
  OBVIOUS
<1> DEFINE i == Idle("new", FALSE)
<1>1. /\ i.pc = "new" /\ i.sync = FALSE /\ i.at \in Agents /\ i.chain \in Chains
      /\ i = [pc |-> i.pc, at |-> i.at, chain |-> i.chain, sync |-> i.sync, row |-> i.row]
  BY IdleFields
<1>2. dec = [d \in Decisions |-> i]
  BY DEF Init
<1> HIDE DEF i
<1>3. DecShape
  BY <1>1, <1>2 DEF DecShape
<1>4. Shapes
  <2>1. DecFields
    BY <1>1, <1>2 DEF DecFields, DecPcs
  <2>2. agent \in [Agents -> [life: Lives, config: AllConfigs]]
    BY DEF Init, Lives, AllConfigs
  <2>3. pool \in [Agents -> 0 .. Workers]
    BY BoundsAssumption DEF Init
  <2> QED BY <1>3, <2>1, <2>2, <2>3 DEF Init, Shapes
<1>5. QueueInv
  <2>1. \A a \in Agents : queue[a] = <<>> /\ Len(queue[a]) = 0
    BY DEF Init
  <2> QED BY <1>1, <1>2, <2>1, BoundsAssumption DEF QueueInv
<1>6. BusyInv
  <2> SUFFICES ASSUME NEW a \in Agents PROVE Cardinality(BusySet(a)) <= 0
    BY DEF Init, BusyInv, Busy, BusySet
  <2>1. BusySet(a) = {}
    BY <1>1, <1>2 DEF BusySet, Writing
  <2> QED BY <2>1, FS_EmptySet
<1>7. LockInv
  BY <1>1, <1>2, DecisionsFinite DEF Init, LockInv, Held
<1> QED BY <1>4, <1>5, <1>6, <1>7 DEF TypeInv

LEMMA RecordTypes ==
    ASSUME TypeInv, NEW d \in Decisions, NEW a \in Agents, NEW c \in Chains,
           RecordDecision(d, a, c)
    PROVE  TypeInv'
<1> DEFINE queued == agent[a].life = "up" /\ HasRoom(a)
<1>1. /\ DecShape'
      /\ dec'[d].pc = (IF queued THEN "queued" ELSE "lock")
      /\ dec'[d].at = a /\ dec'[d].chain = c /\ dec'[d].sync = ~queued
      /\ \A e \in Decisions : e # d => dec'[e] = dec[e]
  BY RecordEffect DEF TypeInv, Shapes
<1>2. dec[d].pc = "new" /\ UNCHANGED <<agent, pool, rows, lock, starts, crashes, faults>>
  BY DEF RecordDecision, bounds
<1>3. queue' = IF queued THEN [queue EXCEPT ![a] = Append(@, d)] ELSE queue
  BY DEF RecordDecision
<1>4. queue[a] \in Seq(Decisions)
  BY DEF TypeInv, Shapes
<1>5. DecFields'
  BY <1>1 DEF TypeInv, Shapes, DecFields, DecPcs, InHand, Writing
<1>6. Shapes'
  <2>1. queue' \in [Agents -> Seq(Decisions)]
    BY <1>3, <1>4 DEF TypeInv, Shapes
  <2> QED BY <1>1, <1>2, <1>5, <2>1 DEF TypeInv, Shapes
<1>7. BusyInv'
  <2>1. \A e \in Decisions : dec'[e].pc \in Writing /\ ~dec'[e].sync =>
              /\ dec[e].pc \in Writing /\ ~dec[e].sync /\ dec'[e].at = dec[e].at
    BY <1>1 DEF Writing
  <2> QED BY <1>2, <2>1, BusyKept DEF TypeInv
<1>8. LockInv'
  <2>1. \A e \in Decisions : /\ dec'[e].pc \in Held <=> dec[e].pc \in Held
                             /\ dec[e].pc \in Held => dec'[e].chain = dec[e].chain
    BY <1>1, <1>2 DEF Held
  <2> QED BY <1>2, <2>1, LockKept DEF TypeInv
<1>9. QueueInv'
  <2>1. CASE ~queued
    <3>1. \A e \in Decisions :
              /\ dec'[e].pc = "queued" <=> dec[e].pc = "queued"
              /\ dec[e].pc = "queued" => dec'[e].at = dec[e].at /\ dec'[e].sync = dec[e].sync
      BY <1>1, <1>2, <2>1
    <3>2. UNCHANGED queue
      BY <1>3, <2>1
    <3> QED BY <3>1, <3>2, QueueKept DEF TypeInv
  <2>2. CASE queued
    <3>1. queue' = [queue EXCEPT ![a] = Append(@, d)] /\ Len(queue[a]) < QueueSize
      BY <1>3, <2>2 DEF HasRoom
    <3>2. /\ Len(queue'[a]) = Len(queue[a]) + 1 /\ Len(queue[a]) \in Nat
          /\ \A i \in 1 .. Len(queue[a]) : queue'[a][i] = queue[a][i]
          /\ queue'[a][Len(queue[a]) + 1] = d
          /\ \A b \in Agents : b # a => queue'[b] = queue[b]
      BY <1>4, <3>1 DEF TypeInv, Shapes
    <3>3. \A b \in Agents : /\ queue[b] \in Seq(Decisions)
                            /\ \A i \in 1 .. Len(queue[b]) : queue[b][i] \in Decisions /\ queue[b][i] # d
      BY <1>2 DEF TypeInv, Shapes, QueueInv
    <3>4. /\ dec'[d].pc = "queued" /\ dec'[d].at = a /\ ~dec'[d].sync
          /\ \A e \in Decisions : e # d => dec'[e] = dec[e]
      BY <1>1, <2>2
    <3> HIDE DEF queued
    <3>5. \A b \in Agents : Len(queue'[b]) <= QueueSize
      BY <3>1, <3>2, BoundsAssumption DEF TypeInv, QueueInv
    <3>6. ASSUME NEW b \in Agents, NEW i \in 1 .. Len(queue'[b])
          PROVE  dec'[queue'[b][i]].pc = "queued" /\ dec'[queue'[b][i]].at = b
      <4>1. CASE b # a
        BY <3>2, <3>3, <3>4, <4>1 DEF TypeInv, QueueInv
      <4>2. CASE b = a /\ i = Len(queue[a]) + 1
        BY <3>2, <3>4, <4>2
      <4>3. CASE b = a /\ i # Len(queue[a]) + 1
        <5>1. i \in 1 .. Len(queue[a])
          BY <3>2, <4>3
        <5> QED BY <3>2, <3>3, <3>4, <4>3, <5>1 DEF TypeInv, QueueInv
      <4> QED BY <4>1, <4>2, <4>3
    <3>7. ASSUME NEW b \in Agents, NEW i \in 1 .. Len(queue'[b]), NEW j \in 1 .. Len(queue'[b]),
                 queue'[b][i] = queue'[b][j]
          PROVE  i = j
      <4>1. CASE b # a
        BY <3>2, <3>7, <4>1 DEF TypeInv, QueueInv
      <4>2. CASE b = a
        <5>1. i \in 1 .. Len(queue[a]) \/ i = Len(queue[a]) + 1
          BY <3>2, <4>2
        <5>2. j \in 1 .. Len(queue[a]) \/ j = Len(queue[a]) + 1
          BY <3>2, <4>2
        <5> QED BY <3>2, <3>3, <3>7, <4>2, <5>1, <5>2 DEF TypeInv, QueueInv
      <4> QED BY <4>1, <4>2
    <3>8. ASSUME NEW e \in Decisions, dec'[e].pc = "queued"
          PROVE  /\ ~dec'[e].sync
                 /\ \E i \in 1 .. Len(queue'[dec'[e].at]) : queue'[dec'[e].at][i] = e
      <4>1. CASE e = d
        <5>1. Len(queue[a]) + 1 \in 1 .. Len(queue'[a])
          BY <3>2
        <5> QED BY <3>2, <3>4, <4>1, <5>1
      <4>2. CASE e # d
        <5>1. ~dec[e].sync /\ dec[e].at \in Agents
          BY <3>4, <3>8, <4>2 DEF TypeInv, QueueInv, Shapes, DecFields
        <5>2. PICK i \in 1 .. Len(queue[dec[e].at]) : queue[dec[e].at][i] = e
          BY <3>4, <3>8, <4>2 DEF TypeInv, QueueInv
        <5>3. i \in 1 .. Len(queue'[dec[e].at]) /\ queue'[dec[e].at][i] = e
          BY <3>2, <5>1, <5>2
        <5> QED BY <3>4, <4>2, <5>1, <5>3
      <4> QED BY <4>1, <4>2
    <3> QED BY <3>5, <3>6, <3>7, <3>8 DEF QueueInv
  <2> QED BY <2>1, <2>2
<1> QED BY <1>6, <1>7, <1>8, <1>9 DEF TypeInv

LEMMA ReceiveTypes ==
    ASSUME TypeInv, NEW a \in Agents, Receive(a)
    PROVE  TypeInv'
<1> DEFINE h == Head(queue[a])
<1>1. /\ queue[a] \in Seq(Decisions) /\ queue[a] # <<>> /\ h \in Decisions
      /\ h = queue[a][1] /\ 1 \in 1 .. Len(queue[a])
      /\ Tail(queue[a]) \in Seq(Decisions) /\ Len(Tail(queue[a])) = Len(queue[a]) - 1
      /\ \A i \in 1 .. Len(queue[a]) - 1 : Tail(queue[a])[i] = queue[a][i + 1]
      /\ Len(queue[a]) \in Nat
  BY DEF TypeInv, Shapes, Receive
<1>2. /\ queue' = [queue EXCEPT ![a] = Tail(@)] /\ SetDec(h, "lock") /\ Busy(a) < pool[a]
      /\ UNCHANGED <<agent, pool, rows, lock, starts, crashes, faults>>
  BY DEF Receive, bounds
<1> HIDE DEF h
<1>3. /\ DecShape' /\ dec'[h].pc = "lock"
      /\ \A e \in Decisions : /\ e # h => dec'[e].pc = dec[e].pc
                              /\ dec'[e].at = dec[e].at /\ dec'[e].chain = dec[e].chain
                              /\ dec'[e].sync = dec[e].sync /\ dec'[e].row = dec[e].row
  BY <1>1, <1>2, SetDecEffect DEF TypeInv, Shapes
<1>4. dec[h].pc = "queued" /\ dec[h].at = a /\ ~dec[h].sync
  BY <1>1 DEF TypeInv, QueueInv
<1>5. Shapes'
  <2>1. DecFields'
    BY <1>3 DEF TypeInv, Shapes, DecFields, DecPcs, InHand, Writing
  <2>2. queue' \in [Agents -> Seq(Decisions)]
    BY <1>1, <1>2 DEF TypeInv, Shapes
  <2> QED BY <1>2, <1>3, <2>1, <2>2 DEF TypeInv, Shapes
<1>6. LockInv'
  <2>1. \A e \in Decisions : /\ dec'[e].pc \in Held <=> dec[e].pc \in Held
                             /\ dec[e].pc \in Held => dec'[e].chain = dec[e].chain
    BY <1>3, <1>4 DEF Held
  <2> QED BY <1>2, <2>1, LockKept DEF TypeInv
<1>7. BusyInv'
  <2> SUFFICES ASSUME NEW b \in Agents PROVE Cardinality(BusySet(b)') <= pool[b]
    BY <1>2 DEF BusyInv, Busy, BusySet
  <2>1. Cardinality(BusySet(b)) <= pool[b] /\ pool[b] \in Int
    BY BoundsAssumption DEF TypeInv, Shapes, BusyInv, Busy, BusySet
  <2>2. CASE b # a
    <3>1. BusySet(b)' \subseteq BusySet(b)
      BY <1>3, <1>4, <2>2 DEF BusySet
    <3>2. Cardinality(BusySet(b)') <= Cardinality(BusySet(b)) /\ Cardinality(BusySet(b)') \in Nat
      BY <3>1, BusyFinite, FS_Subset, FS_CardinalityType
    <3> QED BY <2>1, <3>2, BusyFinite
  <2>3. CASE b = a
    <3>1. BusySet(b)' \subseteq BusySet(b) \cup {h}
      BY <1>3 DEF BusySet
    <3>2. IsFiniteSet(BusySet(b) \cup {h}) /\ Cardinality(BusySet(b) \cup {h}) <= Cardinality(BusySet(b)) + 1
      <4>1. IsFiniteSet(BusySet(b)) /\ Cardinality(BusySet(b)) \in Nat
        BY BusyFinite
      <4> QED BY <4>1, FS_AddElement
    <3>3. Cardinality(BusySet(b)') <= Cardinality(BusySet(b) \cup {h})
          /\ Cardinality(BusySet(b)') \in Nat /\ Cardinality(BusySet(b) \cup {h}) \in Nat
      BY <3>1, <3>2, FS_Subset, FS_CardinalityType
    <3>4. Cardinality(BusySet(b)) < pool[b]
      BY <1>2, <2>3 DEF Busy, BusySet
    <3> QED BY <2>1, <3>2, <3>3, <3>4, BusyFinite
  <2> QED BY <2>2, <2>3
<1>8. QueueInv'
  <2>1. /\ Len(queue'[a]) = Len(queue[a]) - 1
        /\ \A i \in 1 .. Len(queue'[a]) : /\ i + 1 \in 1 .. Len(queue[a])
                                          /\ queue'[a][i] = queue[a][i + 1]
        /\ \A b \in Agents : b # a => queue'[b] = queue[b]
    BY <1>1, <1>2 DEF TypeInv, Shapes
  <2>2. \A b \in Agents : /\ queue[b] \in Seq(Decisions)
                          /\ \A i \in 1 .. Len(queue[b]) : queue[b][i] \in Decisions
    BY DEF TypeInv, Shapes
  <2>3. \A b \in Agents : Len(queue'[b]) <= QueueSize
    BY <1>1, <2>1, BoundsAssumption DEF TypeInv, QueueInv
  <2>4. ASSUME NEW b \in Agents, NEW i \in 1 .. Len(queue'[b])
        PROVE  dec'[queue'[b][i]].pc = "queued" /\ dec'[queue'[b][i]].at = b
    <3>1. CASE b # a
      <4>1. queue'[b][i] # h
        BY <1>4, <2>1, <3>1 DEF TypeInv, QueueInv
      <4> QED BY <1>3, <2>1, <2>2, <3>1, <4>1 DEF TypeInv, QueueInv
    <3>2. CASE b = a
      <4>1. i + 1 \in 1 .. Len(queue[a]) /\ queue'[a][i] = queue[a][i + 1]
        BY <2>1, <3>2
      <4>2. queue[a][i + 1] # h
        BY <1>1, <4>1 DEF TypeInv, QueueInv
      <4> QED BY <1>3, <2>2, <3>2, <4>1, <4>2 DEF TypeInv, QueueInv
    <3> QED BY <3>1, <3>2
  <2>5. ASSUME NEW b \in Agents, NEW i \in 1 .. Len(queue'[b]), NEW j \in 1 .. Len(queue'[b]),
               queue'[b][i] = queue'[b][j]
        PROVE  i = j
    <3>1. CASE b # a
      BY <2>1, <2>5, <3>1 DEF TypeInv, QueueInv
    <3>2. CASE b = a
      <4>1. i + 1 \in 1 .. Len(queue[a]) /\ j + 1 \in 1 .. Len(queue[a])
            /\ queue[a][i + 1] = queue[a][j + 1]
        BY <2>1, <2>5, <3>2
      <4>2. i + 1 = j + 1
        BY <4>1 DEF TypeInv, QueueInv
      <4>3. i \in Int /\ j \in Int
        OBVIOUS
      <4> QED BY <4>2, <4>3
    <3> QED BY <3>1, <3>2
  <2>6. ASSUME NEW e \in Decisions, dec'[e].pc = "queued"
        PROVE  /\ ~dec'[e].sync
               /\ \E i \in 1 .. Len(queue'[dec'[e].at]) : queue'[dec'[e].at][i] = e
    <3>1. e # h /\ dec[e].pc = "queued" /\ dec'[e].at = dec[e].at /\ dec[e].at \in Agents
      BY <1>3, <2>6 DEF TypeInv, Shapes, DecFields
    <3>2. ~dec'[e].sync
      BY <1>3, <3>1 DEF TypeInv, QueueInv
    <3>3. PICK i \in 1 .. Len(queue[dec[e].at]) : queue[dec[e].at][i] = e
      BY <3>1 DEF TypeInv, QueueInv
    <3>4. CASE dec[e].at # a
      BY <2>1, <3>1, <3>2, <3>3, <3>4
    <3>5. CASE dec[e].at = a
      <4>1. i # 1
        BY <1>1, <3>1, <3>3, <3>5
      <4>2. i - 1 \in 1 .. Len(queue'[a]) /\ (i - 1) + 1 = i
        BY <1>1, <2>1, <3>3, <3>5, <4>1
      <4>3. queue'[a][i - 1] = e
        BY <2>1, <3>3, <3>5, <4>2
      <4> QED BY <3>1, <3>2, <3>5, <4>2, <4>3
    <3> QED BY <3>4, <3>5
  <2> QED BY <2>3, <2>4, <2>5, <2>6 DEF QueueInv
<1> QED BY <1>5, <1>6, <1>7, <1>8 DEF TypeInv

LEMMA LockTypes ==
    ASSUME TypeInv, NEW d \in Decisions, Lock(d)
    PROVE  TypeInv'
<1>1. /\ dec[d].pc = "lock" /\ lock[dec[d].chain] = 0 /\ SetDec(d, "tail")
      /\ lock' = [lock EXCEPT ![dec[d].chain] = d]
      /\ UNCHANGED <<agent, queue, pool, rows, starts, crashes, faults>>
  BY DEF Lock, LockFree, bounds
<1>2. /\ DecShape' /\ dec'[d].pc = "tail"
      /\ \A e \in Decisions : /\ e # d => dec'[e].pc = dec[e].pc
                              /\ dec'[e].at = dec[e].at /\ dec'[e].chain = dec[e].chain
                              /\ dec'[e].sync = dec[e].sync /\ dec'[e].row = dec[e].row
  BY <1>1, SetDecEffect DEF TypeInv, Shapes
<1>3. dec[d].chain \in Chains
  BY DEF TypeInv, Shapes, DecFields
<1>4. Shapes'
  <2>1. DecFields'
    BY <1>2 DEF TypeInv, Shapes, DecFields, DecPcs, InHand, Writing
  <2>2. lock' \in [Chains -> Decisions \cup {0}]
    BY <1>1 DEF TypeInv, Shapes
  <2> QED BY <1>1, <1>2, <2>1, <2>2 DEF TypeInv, Shapes
<1>5. QueueInv'
  <2>1. \A e \in Decisions :
              /\ dec'[e].pc = "queued" <=> dec[e].pc = "queued"
              /\ dec[e].pc = "queued" => dec'[e].at = dec[e].at /\ dec'[e].sync = dec[e].sync
    BY <1>1, <1>2
  <2> QED BY <1>1, <2>1, QueueKept DEF TypeInv
<1>6. BusyInv'
  <2>1. \A e \in Decisions : dec'[e].pc \in Writing /\ ~dec'[e].sync =>
              /\ dec[e].pc \in Writing /\ ~dec[e].sync /\ dec'[e].at = dec[e].at
    BY <1>1, <1>2 DEF Writing
  <2> QED BY <1>1, <2>1, BusyKept DEF TypeInv
<1>7. LockInv'
  <2> SUFFICES ASSUME NEW c \in Chains, NEW e \in Decisions
               PROVE  lock'[c] = e <=> dec'[e].chain = c /\ dec'[e].pc \in Held
    BY DEF LockInv
  <2>1. lock[c] = e <=> dec[e].chain = c /\ dec[e].pc \in Held
    BY DEF TypeInv, LockInv
  <2>2. e # 0
    BY DecisionsFinite
  <2>3. lock'[c] = IF c = dec[d].chain THEN d ELSE lock[c]
    BY <1>1 DEF TypeInv, Shapes
  <2>4. CASE e = d
    BY <1>1, <1>2, <2>1, <2>3, <2>4 DEF Held
  <2>5. CASE e # d
    BY <1>1, <1>2, <2>1, <2>2, <2>3, <2>5 DEF Held
  <2> QED BY <2>4, <2>5
<1> QED BY <1>4, <1>5, <1>6, <1>7 DEF TypeInv

LEMMA ReadTailTypes ==
    ASSUME TypeInv, NEW d \in Decisions, ReadTail(d)
    PROVE  TypeInv'
<1>1. dec[d].pc = "tail" /\ UNCHANGED <<agent, queue, pool, rows, lock, starts, crashes, faults>>
  BY DEF ReadTail, bounds
<1>2. /\ DecShape' /\ dec'[d].pc = "commit" /\ dec'[d].at = dec[d].at
      /\ dec'[d].chain = dec[d].chain /\ dec'[d].sync = dec[d].sync
      /\ \A e \in Decisions : e # d => dec'[e] = dec[e]
  BY ReadTailEffect DEF TypeInv, Shapes
<1>3. Shapes'
  <2>1. DecFields'
    BY <1>2 DEF TypeInv, Shapes, DecFields, DecPcs, InHand, Writing
  <2> QED BY <1>1, <1>2, <2>1 DEF TypeInv, Shapes
<1>4. QueueInv'
  BY <1>1, <1>2, QueueKept DEF TypeInv
<1>5. BusyInv'
  <2>1. \A e \in Decisions : dec'[e].pc \in Writing /\ ~dec'[e].sync =>
              /\ dec[e].pc \in Writing /\ ~dec[e].sync /\ dec'[e].at = dec[e].at
    BY <1>1, <1>2 DEF Writing
  <2> QED BY <1>1, <2>1, BusyKept DEF TypeInv
<1>6. LockInv'
  <2>1. \A e \in Decisions : /\ dec'[e].pc \in Held <=> dec[e].pc \in Held
                             /\ dec[e].pc \in Held => dec'[e].chain = dec[e].chain
    BY <1>1, <1>2 DEF Held
  <2> QED BY <1>1, <2>1, LockKept DEF TypeInv
<1> QED BY <1>3, <1>4, <1>5, <1>6 DEF TypeInv

\* A transaction ends, with whatever outcome.
LEMMA TxEndTypes ==
    ASSUME TypeInv, NEW d \in Decisions, dec[d].pc \in Writing,
           NEW v \in {"stored", "error"}, Settle(d, v), lock' = Freed({d}),
           UNCHANGED <<agent, queue, pool, starts, crashes>>, faults' \in Nat
    PROVE  TypeInv'
<1>1. /\ DecShape' /\ dec'[d].pc = v /\ dec'[d].at \in Agents /\ dec'[d].chain \in Chains
      /\ dec'[d].sync = dec[d].sync
      /\ \A e \in Decisions : e # d => dec'[e] = dec[e]
  BY SettleEffect DEF TypeInv, Shapes
<1>2. LockInv' /\ lock' \in [Chains -> Decisions \cup {0}]
  <2>1. \A e \in {d} : dec'[e].pc \notin Held
    BY <1>1 DEF Held
  <2> QED BY <1>1, <2>1, LockFreed DEF TypeInv
<1>3. Shapes'
  <2>1. DecFields'
    BY <1>1 DEF TypeInv, Shapes, DecFields, DecPcs
  <2> QED BY <1>1, <1>2, <2>1 DEF TypeInv, Shapes
<1>4. QueueInv'
  <2>1. \A e \in Decisions :
              /\ dec'[e].pc = "queued" <=> dec[e].pc = "queued"
              /\ dec[e].pc = "queued" => dec'[e].at = dec[e].at /\ dec'[e].sync = dec[e].sync
    BY <1>1 DEF Writing
  <2> QED BY <2>1, QueueKept DEF TypeInv
<1>5. BusyInv'
  <2>1. \A e \in Decisions : dec'[e].pc \in Writing /\ ~dec'[e].sync =>
              /\ dec[e].pc \in Writing /\ ~dec[e].sync /\ dec'[e].at = dec[e].at
    BY <1>1 DEF Writing
  <2> QED BY <2>1, BusyKept DEF TypeInv
<1> QED BY <1>2, <1>3, <1>4, <1>5 DEF TypeInv

LEMMA WriteTypes ==
    ASSUME TypeInv, NEW d \in Decisions, Write(d) \/ TxFails(d) \/ AckLost(d)
    PROVE  TypeInv'
<1>0. faults \in Nat
  BY DEF TypeInv, Shapes
<1>1. CASE Commit(d)
  BY <1>0, <1>1, TxEndTypes DEF Commit, Writing, bounds
<1>2. CASE TxFails(d)
  BY <1>0, <1>2, TxEndTypes DEF TxFails
<1>3. CASE AckLost(d)
  BY <1>0, <1>3, TxEndTypes DEF AckLost, Writing
<1> QED BY <1>1, <1>2, <1>3, LockTypes, ReadTailTypes DEF Write

LEMMA EndsTypes ==
    ASSUME TypeInv, NEW a \in Agents, NEW how \in {"left", "killed"}, Ends(a, how),
           UNCHANGED <<starts, faults>>, crashes' \in Nat
    PROVE  TypeInv'
<1> DEFINE cut == {d \in Decisions : dec[d].at = a /\ dec[d].pc \in InHand}
<1>1. /\ agent' = [agent EXCEPT ![a].life = "down"] /\ queue' = [queue EXCEPT ![a] = <<>>]
      /\ pool' = [pool EXCEPT ![a] = 0] /\ lock' = Freed(cut)
  BY DEF Ends
<1>2. /\ DecShape'
      /\ \A d \in cut : /\ dec'[d].pc = how /\ dec'[d].sync = dec[d].sync
                        /\ dec'[d].at \in Agents /\ dec'[d].chain \in Chains
      /\ \A d \in Decisions \ cut : dec'[d] = dec[d]
      /\ \A d \in Decisions : d \in cut <=> dec[d].at = a /\ dec[d].pc \in InHand
  BY EndsEffect DEF TypeInv, Shapes
<1>3. cut \subseteq Decisions
  OBVIOUS
<1> HIDE DEF cut
<1>4. LockInv' /\ lock' \in [Chains -> Decisions \cup {0}]
  <2>1. \A d \in cut : dec'[d].pc \notin Held
    BY <1>2 DEF Held
  <2> QED BY <1>1, <1>2, <1>3, <2>1, LockFreed DEF TypeInv
<1>5. Shapes'
  <2>1. DecFields'
    <3> SUFFICES ASSUME NEW d \in Decisions
                 PROVE  /\ dec'[d].pc \in DecPcs /\ dec'[d].at \in Agents
                        /\ dec'[d].chain \in Chains /\ dec'[d].sync \in BOOLEAN
      BY DEF DecFields
    <3>1. dec[d].pc \in DecPcs /\ dec[d].at \in Agents /\ dec[d].chain \in Chains /\ dec[d].sync \in BOOLEAN
      BY DEF TypeInv, Shapes, DecFields
    <3>2. how \in DecPcs
      BY DEF DecPcs
    <3>3. CASE d \in cut
      BY <1>2, <3>1, <3>2, <3>3
    <3>4. CASE d \notin cut
      BY <1>2, <3>1, <3>4
    <3> QED BY <3>3, <3>4
  <2>2. queue' \in [Agents -> Seq(Decisions)]
    BY <1>1 DEF TypeInv, Shapes
  <2>3. agent' \in [Agents -> [life: Lives, config: AllConfigs]]
    BY <1>1 DEF TypeInv, Shapes, Lives
  <2>4. pool' \in [Agents -> 0 .. Workers]
    BY <1>1, BoundsAssumption DEF TypeInv, Shapes
  <2> QED BY <1>2, <1>4, <2>1, <2>2, <2>3, <2>4 DEF TypeInv, Shapes
<1>6. BusyInv'
  <2> SUFFICES ASSUME NEW b \in Agents PROVE Cardinality(BusySet(b)') <= pool'[b]
    BY DEF BusyInv, Busy, BusySet
  <2>1. \A e \in Decisions : dec'[e].pc \in Writing =>
          e \notin cut /\ dec'[e] = dec[e] /\ dec[e].pc \in InHand
    BY <1>2, <1>3 DEF Writing, InHand
  <2>2. CASE b = a
    <3>1. BusySet(b)' = {}
      BY <1>2, <2>1, <2>2 DEF BusySet
    <3>2. pool'[b] = 0
      BY <1>1, <2>2 DEF TypeInv, Shapes
    <3> QED BY <3>1, <3>2, FS_EmptySet
  <2>3. CASE b # a
    <3>1. BusySet(b)' \subseteq BusySet(b)
      BY <2>1 DEF BusySet
    <3>2. Cardinality(BusySet(b)') <= Cardinality(BusySet(b)) /\ Cardinality(BusySet(b)') \in Nat
      BY <3>1, BusyFinite, FS_Subset, FS_CardinalityType
    <3>3. Cardinality(BusySet(b)) <= pool[b] /\ pool[b] \in Int
      BY BoundsAssumption DEF TypeInv, Shapes, BusyInv, Busy, BusySet
    <3>4. pool'[b] = pool[b]
      BY <1>1, <2>3 DEF TypeInv, Shapes
    <3> QED BY <3>2, <3>3, <3>4, BusyFinite
  <2> QED BY <2>2, <2>3
<1>7. QueueInv'
  <2>1. queue'[a] = <<>> /\ Len(queue'[a]) = 0 /\ \A b \in Agents : b # a => queue'[b] = queue[b]
    BY <1>1 DEF TypeInv, Shapes
  <2>2. \A b \in Agents : /\ queue[b] \in Seq(Decisions)
                          /\ \A i \in 1 .. Len(queue[b]) : queue[b][i] \in Decisions
    BY DEF TypeInv, Shapes
  <2>3. \A b \in Agents : Len(queue'[b]) <= QueueSize
    BY <2>1, BoundsAssumption DEF TypeInv, QueueInv
  <2>4. ASSUME NEW b \in Agents, NEW i \in 1 .. Len(queue'[b])
        PROVE  dec'[queue'[b][i]].pc = "queued" /\ dec'[queue'[b][i]].at = b
    <3>1. b # a
      BY <2>1
    <3>2. dec[queue[b][i]].pc = "queued" /\ dec[queue[b][i]].at = b /\ queue[b][i] \in Decisions
      BY <2>1, <2>2, <3>1 DEF TypeInv, QueueInv
    <3> QED BY <1>2, <2>1, <3>1, <3>2
  <2>5. \A b \in Agents : \A i, j \in 1 .. Len(queue'[b]) : queue'[b][i] = queue'[b][j] => i = j
    BY <2>1 DEF TypeInv, QueueInv
  <2>6. ASSUME NEW e \in Decisions, dec'[e].pc = "queued"
        PROVE  /\ ~dec'[e].sync
               /\ \E i \in 1 .. Len(queue'[dec'[e].at]) : queue'[dec'[e].at][i] = e
    <3>1. e \notin cut
      BY <1>2, <2>6
    <3>2. dec'[e] = dec[e] /\ dec[e].at # a /\ dec[e].at \in Agents
      BY <1>2, <2>6, <3>1 DEF InHand, TypeInv, Shapes, DecFields
    <3> QED BY <2>1, <2>6, <3>2 DEF TypeInv, QueueInv
  <2> QED BY <2>3, <2>4, <2>5, <2>6 DEF QueueInv
<1> QED BY <1>4, <1>5, <1>6, <1>7 DEF TypeInv

\* Queues, decisions and locks stay as they are.
LEMMA SameTypes ==
    ASSUME TypeInv, UNCHANGED <<queue, dec, lock>>,
           agent' \in [Agents -> [life: Lives, config: AllConfigs]],
           pool' \in [Agents -> 0 .. Workers], \A a \in Agents : Busy(a) <= pool'[a],
           starts' \in Nat, crashes' \in Nat, faults' \in Nat
    PROVE  TypeInv'
<1>1. DecShape' /\ DecFields'
  BY DEF TypeInv, Shapes, DecShape, DecFields
<1>2. Shapes'
  BY <1>1 DEF TypeInv, Shapes
<1>3. QueueInv'
  BY QueueKept DEF TypeInv
<1>4. BusyInv'
  BY DEF BusyInv, Busy
<1>5. LockInv'
  BY LockKept DEF TypeInv
<1> QED BY <1>2, <1>3, <1>4, <1>5 DEF TypeInv

\* Starting and closing an agent.
LEMMA LifeTypes ==
    ASSUME TypeInv, NEW a \in Agents,
           Shutdown(a) \/ \E g \in Configs : Start(a, g)
    PROVE  TypeInv'
<1>1. UNCHANGED <<queue, dec, lock, crashes, faults>> /\ starts' \in Nat
  BY DEF Shutdown, Start, bounds, TypeInv, Shapes
<1>3. \A b \in Agents : Busy(b) \in Nat /\ Busy(b) <= pool[b] /\ pool[b] \in 0 .. Workers
  BY BusyFinite DEF TypeInv, Shapes, BusyInv, Busy, BusySet
<1>4. pool' \in [Agents -> 0 .. Workers] /\ \A b \in Agents : Busy(b) <= pool'[b]
  <2>1. CASE Shutdown(a)
    BY <1>3, <2>1 DEF Shutdown, TypeInv, Shapes
  <2>2. ASSUME NEW g \in Configs, Start(a, g)
        PROVE  pool' \in [Agents -> 0 .. Workers] /\ \A b \in Agents : Busy(b) <= pool'[b]
    <3>1. pool' = [pool EXCEPT ![a] = Workers] /\ pool \in [Agents -> 0 .. Workers]
      BY <2>2 DEF Start, TypeInv, Shapes
    <3>2. \A b \in Agents : pool'[b] = IF b = a THEN Workers ELSE pool[b]
      BY <3>1
    <3> QED BY <1>3, <3>1, <3>2, BoundsAssumption
  <2> QED BY <2>1, <2>2
<1>2. agent' \in [Agents -> [life: Lives, config: AllConfigs]]
  <2>1. CASE Shutdown(a)
    BY <2>1 DEF Shutdown, TypeInv, Shapes, Lives
  <2>2. ASSUME NEW g \in Configs, Start(a, g) PROVE agent' \in [Agents -> [life: Lives, config: AllConfigs]]
    BY <2>2 DEF Start, TypeInv, Shapes, Lives, AllConfigs
  <2> QED BY <2>1, <2>2
<1> QED BY <1>1, <1>2, <1>4, SameTypes DEF TypeInv, Shapes

\* A worker leaves its loop.
LEMMA LeaveTypes ==
    ASSUME TypeInv, NEW a \in Agents, WorkerLeaves(a)
    PROVE  TypeInv'
<1>1. /\ pool' = [pool EXCEPT ![a] = @ - 1] /\ Busy(a) < pool[a]
      /\ UNCHANGED <<agent, queue, dec, lock, starts, crashes, faults>>
  BY DEF WorkerLeaves, bounds
<1>2. \A b \in Agents : Busy(b) \in Nat /\ Busy(b) <= pool[b] /\ pool[b] \in 0 .. Workers
  BY BusyFinite DEF TypeInv, Shapes, BusyInv, Busy, BusySet
<1>3. \A b \in Agents : pool'[b] = IF b = a THEN pool[a] - 1 ELSE pool[b]
  BY <1>1 DEF TypeInv, Shapes
<1>4. \A b \in Agents : pool'[b] \in 0 .. Workers /\ Busy(b) <= pool'[b]
  BY <1>1, <1>2, <1>3, BoundsAssumption
<1>5. pool' \in [Agents -> 0 .. Workers]
  BY <1>1, <1>4 DEF TypeInv, Shapes
<1> QED BY <1>1, <1>4, <1>5, SameTypes DEF TypeInv, Shapes

LEMMA NextTypes == TypeInv /\ [Next]_vars => TypeInv'
<1> SUFFICES ASSUME TypeInv, [Next]_vars PROVE TypeInv'
  OBVIOUS
<1>0. crashes \in Nat
  BY DEF TypeInv, Shapes
<1>1. ASSUME NEW d \in Decisions, NEW a \in Agents, NEW c \in Chains, RecordDecision(d, a, c)
      PROVE  TypeInv'
  BY <1>1, RecordTypes
<1>2. ASSUME NEW d \in Decisions, Write(d) \/ TxFails(d) \/ AckLost(d) PROVE TypeInv'
  BY <1>2, WriteTypes
<1>3. ASSUME NEW a \in Agents, Work(a) PROVE TypeInv'
  BY <1>3, ReceiveTypes, LeaveTypes DEF Work
<1>4. ASSUME NEW a \in Agents, Stop(a) \/ Crash(a) PROVE TypeInv'
  BY <1>0, <1>4, EndsTypes DEF Stop, Exit, ShutdownTimesOut, Crash, bounds
<1>5. ASSUME NEW a \in Agents, Shutdown(a) \/ \E g \in Configs : Start(a, g) PROVE TypeInv'
  BY <1>5, LifeTypes
<1>6. CASE UNCHANGED vars
  <2>1. TypeInv /\ UNCHANGED <<agent, queue, pool, dec, lock, starts, crashes, faults>>
    BY <1>6 DEF vars
  <2> QED BY <2>1, SameTypes DEF TypeInv, Shapes, BusyInv
<1> QED BY <1>1, <1>2, <1>3, <1>4, <1>5, <1>6 DEF Next

LEMMA TypeInvHolds == Spec => []TypeInv
BY InitTypes, NextTypes, PTL DEF Spec

LEMMA TypeInvImplies == TypeInv => TypeOK
<1> SUFFICES ASSUME TypeInv PROVE TypeOK
  OBVIOUS
<1>1. \A a \in Agents : queue[a] \in Seq(Decisions) /\ DOMAIN queue[a] = 1 .. Len(queue[a])
  BY DEF TypeInv, Shapes
<1>2. \A a \in Agents : /\ agent[a].life \in {"down", "up", "closing"}
                        /\ agent[a].config \in Configs \cup {Unconfigured}
  BY DEF TypeInv, Shapes, Lives, AllConfigs
<1>3. \A a \in Agents : Len(queue[a]) <= QueueSize /\ pool[a] \in 0 .. Workers /\ Busy(a) <= pool[a]
  BY DEF TypeInv, Shapes, QueueInv, BusyInv
<1>4. \A a \in Agents : \A i \in DOMAIN queue[a] : dec[queue[a][i]].pc = "queued"
  <2>1. \A a \in Agents : \A i \in 1 .. Len(queue[a]) : dec[queue[a][i]].pc = "queued"
    BY DEF TypeInv, QueueInv
  <2> QED BY <1>1, <2>1
<1> QED BY <1>2, <1>3, <1>4 DEF TypeInv, TypeOK, Shapes, DecFields, DecPcs, LockInv, Held

\* The shape of agents, queues and writers; queues and workers within their limits; a
\* chain's lock held by exactly the transaction past its first statement, also after
\* failures, timeouts and crashes (recordToDB, worker, Shutdown).
THEOREM TypeCorrect == Spec => []TypeOK
BY TypeInvHolds, TypeInvImplies, PTL

-----------------------------------------------------------------------------
(* Shutdown.                                                               *)

LEMMA FlushedKept ==
    ASSUME QueueIsFlushed,
           \A d \in Decisions : dec'[d].pc = "left" => dec[d].pc = "left" /\ dec'[d].sync = dec[d].sync
    PROVE  QueueIsFlushed'
BY DEF QueueIsFlushed

\* Once a worker has left, nothing is in the queue and nothing can be put there again.
PoolInv == \A a \in Agents : pool[a] # Workers => queue[a] = <<>> /\ agent[a].life # "up"

LEMMA InitPool == Init => PoolInv
BY DEF Init, PoolInv

LEMMA NextPool == TypeInv /\ PoolInv /\ [Next]_vars => PoolInv'
<1> SUFFICES ASSUME TypeInv, PoolInv, [Next]_vars PROVE PoolInv'
  OBVIOUS
<1>0. /\ agent \in [Agents -> [life: Lives, config: AllConfigs]]
      /\ queue \in [Agents -> Seq(Decisions)] /\ pool \in [Agents -> 0 .. Workers]
  BY DEF TypeInv, Shapes
<1>1. ASSUME NEW d \in Decisions, NEW a \in Agents, NEW c \in Chains, RecordDecision(d, a, c)
      PROVE  PoolInv'
  <2>1. UNCHANGED <<agent, pool>> /\ \A b \in Agents : b # a => queue'[b] = queue[b]
    BY <1>0, <1>1 DEF RecordDecision
  <2>2. agent[a].life # "up" => queue'[a] = queue[a]
    BY <1>1 DEF RecordDecision
  <2> QED BY <2>1, <2>2 DEF PoolInv
<1>2. ASSUME NEW a \in Agents, Receive(a) PROVE PoolInv'
  <2>1. /\ UNCHANGED <<agent, pool>> /\ queue[a] # <<>>
        /\ \A b \in Agents : b # a => queue'[b] = queue[b]
    BY <1>0, <1>2 DEF Receive
  <2> QED BY <2>1 DEF PoolInv
<1>3. ASSUME NEW a \in Agents, WorkerLeaves(a) PROVE PoolInv'
  <2>1. /\ UNCHANGED <<agent, queue>> /\ queue[a] = <<>> /\ agent[a].life # "up"
        /\ \A b \in Agents : b # a => pool'[b] = pool[b]
    BY <1>0, <1>3 DEF WorkerLeaves, LoopEnds
  <2> QED BY <2>1 DEF PoolInv
<1>4. ASSUME NEW a \in Agents, Stop(a) \/ Crash(a) PROVE PoolInv'
  <2>1. PICK how \in {"left", "killed"} : Ends(a, how)
    BY <1>4 DEF Stop, Exit, ShutdownTimesOut, Crash
  <2>2. /\ agent' = [agent EXCEPT ![a].life = "down"] /\ queue' = [queue EXCEPT ![a] = <<>>]
        /\ pool' = [pool EXCEPT ![a] = 0]
    BY <2>1 DEF Ends
  <2>3. /\ queue'[a] = <<>> /\ agent'[a].life = "down"
        /\ \A b \in Agents : b # a => /\ agent'[b] = agent[b] /\ queue'[b] = queue[b]
                                      /\ pool'[b] = pool[b]
    BY <1>0, <2>2
  <2> QED BY <2>3 DEF PoolInv
<1>5. ASSUME NEW a \in Agents, Shutdown(a) PROVE PoolInv'
  <2>1. /\ UNCHANGED <<queue, pool>> /\ agent'[a].life = "closing"
        /\ \A b \in Agents : b # a => agent'[b] = agent[b]
    BY <1>0, <1>5 DEF Shutdown
  <2> QED BY <2>1 DEF PoolInv
<1>6. ASSUME NEW a \in Agents, NEW g \in Configs, Start(a, g) PROVE PoolInv'
  <2>1. /\ UNCHANGED queue /\ pool'[a] = Workers
        /\ \A b \in Agents : b # a => agent'[b] = agent[b] /\ pool'[b] = pool[b]
    BY <1>0, <1>6 DEF Start
  <2> QED BY <2>1 DEF PoolInv
<1>7. ASSUME UNCHANGED <<agent, queue, pool>> PROVE PoolInv'
  BY <1>7 DEF PoolInv
<1>8. ASSUME NEW d \in Decisions, Write(d) \/ TxFails(d) \/ AckLost(d) PROVE PoolInv'
  BY <1>7, <1>8 DEF Write, Lock, ReadTail, Commit, TxFails, AckLost
<1>9. CASE UNCHANGED vars
  BY <1>7, <1>9 DEF vars
<1> QED BY <1>1, <1>2, <1>3, <1>4, <1>5, <1>6, <1>8, <1>9 DEF Next, Work

LEMMA PoolInvHolds == Spec => []PoolInv
BY InitPool, NextPool, TypeInvHolds, PTL DEF Spec

\* An agent whose workers have all left has nothing in hand but synchronous writes.
LEMMA ExitFlushed ==
    ASSUME TypeInv, PoolInv, QueueIsFlushed, NEW a \in Agents, Exit(a)
    PROVE  QueueIsFlushed'
<1>0. pool[a] = 0 /\ Ends(a, "left")
  BY DEF Exit
<1>1. queue[a] = <<>> /\ Cardinality(BusySet(a)) = 0 /\ Ends(a, "left")
  <2>1. pool[a] # Workers
    BY <1>0, BoundsAssumption
  <2>2. Cardinality(BusySet(a)) <= 0
    BY <1>0 DEF TypeInv, BusyInv, Busy, BusySet
  <2> QED BY <1>0, <2>1, <2>2, BusyFinite DEF PoolInv
<1>2. BusySet(a) = {}
  BY <1>1, BusyFinite, FS_EmptySet
<1>3. ASSUME NEW d \in Decisions, dec[d].at = a, dec[d].pc \in InHand PROVE dec[d].sync
  <2>1. dec[d].pc # "queued"
    <3>1. Len(queue[a]) = 0
      BY <1>1
    <3> QED BY <1>3, <3>1 DEF TypeInv, QueueInv
  <2>2. dec[d].pc \in Writing
    BY <1>3, <2>1 DEF InHand
  <2> QED BY <1>2, <1>3, <2>2 DEF BusySet, TypeInv, Shapes, DecFields
<1>4. \A d \in Decisions :
        IF dec[d].at = a /\ dec[d].pc \in InHand THEN dec'[d].sync = dec[d].sync
        ELSE dec'[d] = dec[d]
  BY <1>1, EndsEffect DEF TypeInv, Shapes
<1> QED BY <1>3, <1>4 DEF QueueIsFlushed

LEMMA NextFlushed == TypeInv /\ PoolInv /\ QueueIsFlushed /\ [Next]_vars => QueueIsFlushed'
<1> SUFFICES ASSUME TypeInv, PoolInv, QueueIsFlushed, [Next]_vars PROVE QueueIsFlushed'
  OBVIOUS
<1>0. DecShape
  BY DEF TypeInv, Shapes
<1>1. ASSUME NEW d \in Decisions, NEW a \in Agents, NEW c \in Chains, RecordDecision(d, a, c)
      PROVE  QueueIsFlushed'
  <2>1. dec'[d].pc # "left" /\ \A e \in Decisions : e # d => dec'[e] = dec[e]
    BY <1>0, <1>1, RecordEffect
  <2> QED BY <2>1, FlushedKept
<1>2. ASSUME NEW d \in Decisions, Lock(d) PROVE QueueIsFlushed'
  <2>1. SetDec(d, "tail")
    BY <1>2 DEF Lock
  <2> QED BY <1>0, <2>1, SetDecEffect, FlushedKept
<1>3. ASSUME NEW d \in Decisions, ReadTail(d) PROVE QueueIsFlushed'
  BY <1>0, <1>3, ReadTailEffect, FlushedKept
<1>4. ASSUME NEW d \in Decisions, Commit(d) \/ TxFails(d) \/ AckLost(d) PROVE QueueIsFlushed'
  <2>1. PICK v \in {"stored", "error"} : Settle(d, v)
    BY <1>4 DEF Commit, TxFails, AckLost
  <2> QED BY <1>0, <2>1, SettleEffect, FlushedKept
<1>5. ASSUME NEW a \in Agents, Receive(a) PROVE QueueIsFlushed'
  <2>1. Head(queue[a]) \in Decisions /\ SetDec(Head(queue[a]), "lock")
    BY <1>5 DEF Receive, TypeInv, Shapes
  <2> QED BY <1>0, <2>1, SetDecEffect, FlushedKept
<1>6. ASSUME NEW a \in Agents, ShutdownTimesOut(a) \/ Crash(a) PROVE QueueIsFlushed'
  <2>1. Ends(a, "killed")
    BY <1>6 DEF ShutdownTimesOut, Crash
  <2>2. \A d \in Decisions : IF dec[d].at = a /\ dec[d].pc \in InHand THEN dec'[d].pc = "killed"
                             ELSE dec'[d] = dec[d]
    BY <1>0, <2>1, EndsEffect
  <2> QED BY <2>2, FlushedKept
<1>7. ASSUME UNCHANGED dec PROVE QueueIsFlushed'
  BY <1>7 DEF QueueIsFlushed
<1> QED BY <1>1, <1>2, <1>3, <1>4, <1>5, <1>6, <1>7, ExitFlushed
        DEF Next, Write, Work, WorkerLeaves, Stop, Shutdown, Start, vars

\* A shutdown that ends because the last worker left its loop leaves nothing of the queue
\* behind, whatever requests are served meanwhile and however many workers there are
\* (RecordDecision, asyncWorker, Shutdown).  It rests on PoolInv: a worker leaves only a
\* queue that is closed and empty, and stays so.
THEOREM ShutdownFlushes == Spec => []QueueIsFlushed
<1>1. Init => QueueIsFlushed
  <2> SUFFICES ASSUME Init, NEW d \in Decisions PROVE dec[d].pc # "left"
    BY DEF QueueIsFlushed
  <2>1. dec[d] = Idle("new", FALSE)
    BY DEF Init
  <2> QED BY <2>1 DEF Idle
<1> QED BY <1>1, TypeInvHolds, PoolInvHolds, NextFlushed, PTL DEF Spec

-----------------------------------------------------------------------------
(* Chains.  Of each chain the invariant says how its records are numbered, *)
(* linked and sealed, and that a writer past its read of the tail holds    *)
(* the record that continues the chain as it is now.                       *)

Own(c)   == rows[c] \ {LegacyRow}
Pairs(c) == {<<r.seq, r.dec>> : r \in Own(c)}
Count(c) == Cardinality(Pairs(c))

\* What the first record of a chain links to.
Root(S) == IF LegacyRow \in S THEN ChainHash(LegacyRow) ELSE Genesis

Linked(S, r) ==
    \/ r.seq = 1 /\ r.prev = Root(S)
    \/ \E q \in S \ {LegacyRow} : r.seq = q.seq + 1 /\ r.prev = ChainHash(q)

Sealed(r) ==
    \E g \in AllConfigs :
        /\ r.id = g.id
        /\ r.sig = IF g.key = NoKey THEN Absent ELSE Sign(g.key, ChainHash(r))

Settled == {"stored", "error"}

Numbered(c) ==
    /\ IsFiniteSet(Pairs(c))
    /\ \A r \in Own(c) : r.seq \in 1 .. Count(c)
    /\ \A i \in 1 .. Count(c) : \E r \in Own(c) : r.seq = i
    /\ \A q, r \in Own(c) : q.seq = r.seq => q = r

RowsInv ==
    /\ rows = [c \in Chains |-> rows[c]]
    /\ \A c \in Chains : Numbered(c)
    /\ \A c \in Chains : \A r \in Own(c) :
         /\ r.dec \in Decisions /\ dec[r.dec].pc \in Settled
         /\ Linked(rows[c], r) /\ Sealed(r)

TailInv ==
    \A d \in Decisions : dec[d].pc = "commit" =>
        /\ dec[d].row.dec = d
        /\ dec[d].row.seq = Count(dec[d].chain) + 1
        /\ Linked(rows[dec[d].chain], dec[d].row) /\ Sealed(dec[d].row)

ChainInv == RowsInv /\ TailInv

LEMMA LegacyFields == LegacyRow.seq = 0 /\ LegacyRow.dec = 0
BY DEF LegacyRow

\* The last record of a set is the one all others come before.
LEMMA LastIs ==
    ASSUME NEW S, NEW m \in S, \A q \in S : q.seq \in Int /\ q.dec \in Int,
           \A q \in S \ {m} : Before(q, m)
    PROVE  LastOf(S) = m
<1>1. \E r \in S : \A q \in S \ {r} : Before(q, r)
  OBVIOUS
<1>2. LastOf(S) \in S /\ \A q \in S \ {LastOf(S)} : Before(q, LastOf(S))
  BY <1>1 DEF LastOf
<1>3. ASSUME LastOf(S) # m PROVE FALSE
  <2>1. Before(m, LastOf(S)) /\ Before(LastOf(S), m)
    BY <1>2, <1>3
  <2>2. /\ m.seq \in Int /\ m.dec \in Int
        /\ LastOf(S).seq \in Int /\ LastOf(S).dec \in Int
    BY <1>2
  <2> QED BY <2>1, <2>2 DEF Before
<1> QED BY <1>3

\* What sealEntry makes.
LEMMA SealEffect ==
    ASSUME NEW d, NEW prev, NEW seq, NEW g \in AllConfigs, NEW r, r = SealEntry(d, prev, seq, g)
    PROVE  r.dec = d /\ r.seq = seq /\ r.prev = prev /\ Sealed(r)
<1> DEFINE b == [dec |-> d, seq |-> seq, prev |-> prev, sig |-> Absent, id |-> g.id]
<1>1. r = IF g.key = NoKey THEN b ELSE [b EXCEPT !.sig = Sign(g.key, ChainHash(b))]
  BY DEF SealEntry
<1>2. b.dec = d /\ b.seq = seq /\ b.prev = prev /\ b.id = g.id /\ b.sig = Absent
  OBVIOUS
<1>3. \A x : LET y == [b EXCEPT !.sig = x]
             IN  y.dec = d /\ y.seq = seq /\ y.prev = prev /\ y.id = g.id /\ y.sig = x
  OBVIOUS
<1> HIDE DEF b
<1>4. CASE g.key = NoKey
  BY <1>1, <1>2, <1>4 DEF Sealed
<1>5. CASE g.key # NoKey
  <2>1. r.dec = d /\ r.seq = seq /\ r.prev = prev /\ r.id = g.id /\ r.sig = Sign(g.key, ChainHash(b))
    BY <1>1, <1>3, <1>5
  <2>2. ChainHash(b) = ChainHash(r)
    BY <1>2, <2>1 DEF ChainHash, Digest
  <2> QED BY <1>5, <2>1, <2>2 DEF Sealed
<1> QED BY <1>4, <1>5

LEMMA CountNat == ASSUME NEW c, IsFiniteSet(Pairs(c)) PROVE Count(c) \in Nat
BY FS_CardinalityType DEF Count

\* fetchChainTailTx finds the end of the chain, and the entry made from it continues it.
LEMMA NextRowContinues ==
    ASSUME RowsInv, NEW c \in Chains, NEW d \in Decisions, NEW g \in AllConfigs,
           NEW r, r = NextRow(d, c, g)
    PROVE  r.dec = d /\ r.seq = Count(c) + 1 /\ Linked(rows[c], r) /\ Sealed(r)
<1>1. Numbered(c) /\ Count(c) \in Nat /\ \A q \in Own(c) : q.dec \in Decisions
  BY CountNat DEF RowsInv, Numbered
<1>2. \A q \in rows[c] : q.seq \in Int /\ q.dec \in Int
  <2>1. \A q \in Own(c) : q.seq \in Int /\ q.dec \in Int
    <3> TAKE q \in Own(c)
    <3>1. q.seq \in 1 .. Count(c) /\ q.dec \in Decisions
      BY <1>1 DEF Numbered
    <3>2. q.seq \in Int
      BY <1>1, <3>1
    <3>3. q.dec \in Int
      BY <3>1, BoundsAssumption DEF Decisions
    <3> QED BY <3>2, <3>3
  <2> QED BY <2>1, LegacyFields DEF Own
<1>3. CASE rows[c] = {}
  <2>1. Pairs(c) = {}
    BY <1>3 DEF Pairs, Own
  <2>2. Count(c) = 0
    BY <2>1, FS_EmptySet DEF Count
  <2>3. r = SealEntry(d, Genesis, 1, g) /\ Root(rows[c]) = Genesis
    BY <1>3 DEF NextRow, Root
  <2>4. r.dec = d /\ r.seq = 1 /\ r.prev = Genesis /\ Sealed(r)
    BY <2>3, SealEffect
  <2> QED BY <2>2, <2>3, <2>4 DEF Linked
<1>4. CASE rows[c] # {} /\ Count(c) = 0
  <2>1. Own(c) = {}
    BY <1>1, <1>4 DEF Numbered
  <2>2. rows[c] = {LegacyRow}
    BY <1>4, <2>1 DEF Own
  <2>3. LastOf(rows[c]) = LegacyRow
    BY <1>2, <2>2, LastIs
  <2>4. r = SealEntry(d, ChainHash(LegacyRow), 0 + 1, g)
    BY <1>4, <2>3, LegacyFields DEF NextRow
  <2>5. r.dec = d /\ r.seq = 0 + 1 /\ r.prev = ChainHash(LegacyRow) /\ Sealed(r)
    BY <2>4, SealEffect
  <2> QED BY <1>4, <2>2, <2>5 DEF Linked, Root
<1>5. CASE rows[c] # {} /\ Count(c) # 0
  <2>1. Count(c) \in 1 .. Count(c)
    BY <1>1, <1>5
  <2>2. PICK m \in Own(c) : m.seq = Count(c)
    BY <1>1, <2>1 DEF Numbered
  <2>3. ASSUME NEW q \in rows[c] \ {m} PROVE Before(q, m)
    <3>1. CASE q = LegacyRow
      BY <1>1, <1>5, <2>2, <3>1, LegacyFields DEF Before
    <3>2. CASE q # LegacyRow
      <4>1. q \in Own(c) /\ q # m
        BY <3>2 DEF Own
      <4>2. q.seq \in 1 .. Count(c) /\ q.seq # Count(c)
        BY <1>1, <2>2, <4>1 DEF Numbered
      <4>3. q.seq < Count(c)
        BY <1>1, <4>2
      <4> QED BY <2>2, <4>3 DEF Before
    <3> QED BY <3>1, <3>2
  <2>4. LastOf(rows[c]) = m
    BY <1>2, <2>2, <2>3, LastIs DEF Own
  <2>5. r = SealEntry(d, ChainHash(m), Count(c) + 1, g)
    BY <1>5, <2>2, <2>4 DEF NextRow
  <2>6. r.dec = d /\ r.seq = Count(c) + 1 /\ r.prev = ChainHash(m) /\ Sealed(r)
    BY <2>5, SealEffect
  <2> QED BY <2>2, <2>6 DEF Linked, Own
<1> QED BY <1>3, <1>4, <1>5

\* The table stays as it is, and nobody reaches the commit.
LEMMA ChainKept ==
    ASSUME ChainInv, UNCHANGED rows,
           \A d \in Decisions : /\ dec[d].pc \in Settled => dec'[d].pc \in Settled
                                /\ dec'[d].pc = "commit" =>
                                     /\ dec[d].pc = "commit" /\ dec'[d].row = dec[d].row
                                     /\ dec'[d].chain = dec[d].chain
    PROVE  ChainInv'
<1>1. RowsInv'
  BY DEF ChainInv, RowsInv, Numbered, Own, Pairs, Count
<1>2. TailInv'
  BY DEF ChainInv, TailInv, Pairs, Count, Own
<1> QED BY <1>1, <1>2 DEF ChainInv

LEMMA InitChains == Init => ChainInv
<1> SUFFICES ASSUME Init PROVE ChainInv
  OBVIOUS
<1>1. \A c \in Chains : rows[c] \subseteq {LegacyRow}
  BY DEF Init
<1>2. \A c \in Chains : Own(c) = {} /\ Pairs(c) = {}
  BY <1>1 DEF Own, Pairs
<1>3. \A c \in Chains : IsFiniteSet(Pairs(c)) /\ Count(c) = 0
  BY <1>2, FS_EmptySet DEF Count
<1>4. RowsInv
  <2>1. rows = [c \in Chains |-> rows[c]]
    BY DEF Init
  <2>2. \A c \in Chains : Numbered(c)
    BY <1>2, <1>3 DEF Numbered
  <2> QED BY <1>2, <2>1, <2>2 DEF RowsInv
<1>5. \A d \in Decisions : dec[d].pc = "new"
  BY DEF Init, Idle
<1> QED BY <1>4, <1>5 DEF ChainInv, TailInv

LEMMA ReadTailChains ==
    ASSUME TypeInv, ChainInv, NEW d \in Decisions, ReadTail(d)
    PROVE  ChainInv'
<1> DEFINE c == dec[d].chain
<1> DEFINE g == agent[dec[d].at].config
<1>1. UNCHANGED rows /\ dec[d].pc = "tail"
  BY DEF ReadTail
<1>2. /\ dec'[d].pc = "commit" /\ dec'[d].chain = c
      /\ dec'[d].row = NextRow(d, c, g)
      /\ \A e \in Decisions : e # d => dec'[e] = dec[e]
  BY ReadTailEffect DEF TypeInv, Shapes
<1>3. c \in Chains /\ g \in AllConfigs
  BY DEF TypeInv, Shapes, DecFields
<1> HIDE DEF c, g
<1>4. /\ dec'[d].row.dec = d /\ dec'[d].row.seq = Count(c) + 1
      /\ Linked(rows[c], dec'[d].row) /\ Sealed(dec'[d].row)
  BY <1>2, <1>3, NextRowContinues DEF ChainInv
<1>5. RowsInv'
  <2>1. \A e \in Decisions : dec[e].pc \in Settled => dec'[e].pc \in Settled
    BY <1>1, <1>2 DEF Settled
  <2> QED BY <1>1, <2>1 DEF ChainInv, RowsInv, Numbered, Own, Pairs, Count
<1>6. TailInv'
  <2> SUFFICES ASSUME NEW e \in Decisions, dec'[e].pc = "commit"
               PROVE  /\ dec'[e].row.dec = e
                      /\ dec'[e].row.seq = Count(dec[e].chain)' + 1
                      /\ Linked(rows'[dec'[e].chain], dec'[e].row) /\ Sealed(dec'[e].row)
    BY DEF TailInv
  <2>1. \A x : Count(x)' = Count(x)
    BY <1>1 DEF Count, Pairs, Own
  <2>2. CASE e = d
    BY <1>1, <1>2, <1>4, <2>1, <2>2
  <2>3. CASE e # d
    BY <1>1, <1>2, <2>1, <2>3 DEF ChainInv, TailInv
  <2> QED BY <2>2, <2>3
<1> QED BY <1>5, <1>6 DEF ChainInv

\* The record in hand is appended and its transaction ends.
LEMMA StoredChains ==
    ASSUME TypeInv, ChainInv, NEW d \in Decisions, dec[d].pc = "commit", Stored(d),
           NEW v \in Settled, Settle(d, v), NEW c \in Chains, c = dec[d].chain
    PROVE  /\ ChainInv'
           /\ Pairs(c)' = Pairs(c) \cup {<<Count(c) + 1, d>>}
           /\ \A x \in Chains \ {c} : Pairs(x)' = Pairs(x)
<1>1. PICK r : r = dec[d].row
  OBVIOUS
<1>2. rows' = [rows EXCEPT ![c] = @ \cup {r}]
  BY <1>1 DEF Stored
<1>3. /\ r.dec = d /\ r.seq = Count(c) + 1 /\ Linked(rows[c], r) /\ Sealed(r)
  BY <1>1 DEF ChainInv, TailInv
<1>4. dec'[d].pc = v /\ \A e \in Decisions : e # d => dec'[e] = dec[e]
  BY SettleEffect DEF TypeInv, Shapes
<1>5. \A e \in Decisions : dec[e].pc = "commit" /\ e # d => dec[e].chain # c
  <2>1. \A e \in Decisions : dec[e].pc = "commit" => lock[dec[e].chain] = e
    BY DEF TypeInv, LockInv, Held, Shapes, DecFields
  <2> QED BY <2>1
<1>6. r # LegacyRow
  BY <1>3, LegacyFields, DecisionsFinite
<1>7. /\ DOMAIN rows = Chains /\ rows'[c] = rows[c] \cup {r}
      /\ \A x \in Chains \ {c} : rows'[x] = rows[x]
      /\ rows' = [x \in Chains |-> rows'[x]]
  BY <1>1, <1>2 DEF ChainInv, RowsInv
<1>8. Own(c)' = Own(c) \cup {r} /\ \A x \in Chains \ {c} : Own(x)' = Own(x)
  BY <1>6, <1>7 DEF Own
<1>9. Pairs(c)' = Pairs(c) \cup {<<Count(c) + 1, d>>} /\ \A x \in Chains \ {c} : Pairs(x)' = Pairs(x)
  <2>1. \A x \in Chains \ {c} : Pairs(x)' = Pairs(x)
    BY <1>8 DEF Pairs
  <2>2. Pairs(c)' = {<<q.seq, q.dec>> : q \in Own(c) \cup {r}}
    BY <1>8 DEF Pairs
  <2>3. Pairs(c)' = Pairs(c) \cup {<<r.seq, r.dec>>}
    BY <2>2 DEF Pairs
  <2> QED BY <1>3, <2>1, <2>3
<1>10. Numbered(c) /\ Count(c) \in Nat
  BY <1>1, CountNat DEF ChainInv, RowsInv, Numbered
<1>11. <<Count(c) + 1, d>> \notin Pairs(c)
  <2>1. \A q \in Own(c) : q.seq # Count(c) + 1
    BY <1>10 DEF Numbered
  <2> QED BY <2>1 DEF Pairs
<1>12. IsFiniteSet(Pairs(c)') /\ Cardinality(Pairs(c)') = Count(c) + 1
  <2>1. IsFiniteSet(Pairs(c))
    BY <1>10 DEF Numbered
  <2>2. PICK x : x = <<Count(c) + 1, d>>
    OBVIOUS
  <2>3. Pairs(c)' = Pairs(c) \cup {x} /\ x \notin Pairs(c)
    BY <1>9, <1>11, <2>2
  <2>4. Count(c) = Cardinality(Pairs(c))
    BY DEF Count
  <2> QED BY <2>1, <2>3, <2>4, FS_AddElement
<1>13. Count(c)' = Count(c) + 1 /\ \A x \in Chains \ {c} : Count(x)' = Count(x)
  BY <1>9, <1>12 DEF Count
<1>14. Numbered(c)'
  <2>1. \A q \in Own(c)' : q.seq \in 1 .. Count(c)'
    BY <1>3, <1>8, <1>10, <1>13 DEF Numbered
  <2>2. \A i \in 1 .. Count(c)' : \E q \in Own(c)' : q.seq = i
    <3> SUFFICES ASSUME NEW i \in 1 .. Count(c) + 1 PROVE \E q \in Own(c) \cup {r} : q.seq = i
      BY <1>8, <1>13
    <3>1. i \in 1 .. Count(c) \/ i = Count(c) + 1
      BY <1>10
    <3> QED BY <1>3, <1>10, <3>1 DEF Numbered
  <2>3. \A q, s \in Own(c)' : q.seq = s.seq => q = s
    <3>1. \A q \in Own(c) : q.seq # Count(c) + 1
      BY <1>10 DEF Numbered
    <3> QED BY <1>3, <1>8, <1>10, <3>1 DEF Numbered
  <2> QED BY <1>12, <2>1, <2>2, <2>3 DEF Numbered
<1>15. \A x \in Chains \ {c} : Numbered(x)'
  <2> SUFFICES ASSUME NEW x \in Chains \ {c} PROVE Numbered(x)'
    OBVIOUS
  <2>1. Numbered(x) /\ Own(x)' = Own(x) /\ Pairs(x)' = Pairs(x) /\ Count(x)' = Count(x)
    BY <1>8, <1>9, <1>13 DEF ChainInv, RowsInv
  <2> QED BY <2>1 DEF Numbered
<1>16. \A q : Linked(rows[c], q) => Linked(rows'[c], q)
  <2>1. Root(rows'[c]) = Root(rows[c])
    BY <1>6, <1>7 DEF Root
  <2> QED BY <1>7, <2>1 DEF Linked
<1>17. ASSUME NEW x \in Chains, NEW q \in Own(x)'
       PROVE  /\ q.dec \in Decisions /\ dec'[q.dec].pc \in Settled
              /\ Linked(rows'[x], q) /\ Sealed(q)
  <2>1. CASE q \in Own(x)
    <3>1. /\ q.dec \in Decisions /\ dec[q.dec].pc \in Settled
          /\ Linked(rows[x], q) /\ Sealed(q)
      BY <2>1 DEF ChainInv, RowsInv
    <3>2. dec'[q.dec].pc \in Settled
      BY <1>4, <3>1
    <3>3. Linked(rows'[x], q)
      BY <1>7, <1>16, <3>1
    <3> QED BY <3>1, <3>2, <3>3
  <2>2. CASE q \notin Own(x)
    <3>1. x = c /\ q = r
      BY <1>8, <1>17, <2>2
    <3> QED BY <1>3, <1>4, <1>16, <3>1
  <2> QED BY <2>1, <2>2
<1>18. RowsInv'
  BY <1>7, <1>14, <1>15, <1>17 DEF RowsInv
<1>19. TailInv'
  <2> SUFFICES ASSUME NEW e \in Decisions, dec'[e].pc = "commit"
               PROVE  /\ dec'[e].row.dec = e
                      /\ dec'[e].row.seq = Count(dec[e].chain)' + 1
                      /\ Linked(rows'[dec'[e].chain], dec'[e].row) /\ Sealed(dec'[e].row)
    BY DEF TailInv
  <2>1. e # d /\ dec'[e] = dec[e] /\ dec[e].chain \in Chains \ {c}
    BY <1>4, <1>5 DEF Settled, TypeInv, Shapes, DecFields
  <2>2. Count(dec[e].chain)' = Count(dec[e].chain) /\ rows'[dec[e].chain] = rows[dec[e].chain]
    BY <1>7, <1>13, <2>1
  <2> QED BY <2>1, <2>2 DEF ChainInv, TailInv
<1> QED BY <1>9, <1>18, <1>19 DEF ChainInv

LEMMA NextChains == TypeInv /\ ChainInv /\ [Next]_vars => ChainInv'
<1> SUFFICES ASSUME TypeInv, ChainInv, [Next]_vars PROVE ChainInv'
  OBVIOUS
<1>0. DecShape
  BY DEF TypeInv, Shapes
<1>1. ASSUME NEW d \in Decisions, NEW a \in Agents, NEW c \in Chains, RecordDecision(d, a, c)
      PROVE  ChainInv'
  <2>1. UNCHANGED rows /\ dec[d].pc = "new"
    BY <1>1 DEF RecordDecision
  <2>2. dec'[d].pc \in {"queued", "lock"} /\ \A e \in Decisions : e # d => dec'[e] = dec[e]
    BY <1>0, <1>1, RecordEffect
  <2> QED BY <2>1, <2>2, ChainKept DEF Settled
<1>2. ASSUME NEW d \in Decisions, NEW v \in {"tail", "lock"}, SetDec(d, v), UNCHANGED rows,
             dec[d].pc \notin Settled
      PROVE  ChainInv'
  <2>1. \A e \in Decisions : /\ dec'[e].pc = (IF e = d THEN v ELSE dec[e].pc)
                             /\ dec'[e].row = dec[e].row /\ dec'[e].chain = dec[e].chain
    BY <1>0, <1>2, SetDecEffect
  <2> QED BY <1>2, <2>1, ChainKept DEF Settled
<1>3. ASSUME NEW d \in Decisions, Lock(d) PROVE ChainInv'
  BY <1>2, <1>3 DEF Lock, Settled
<1>4. ASSUME NEW a \in Agents, Receive(a) PROVE ChainInv'
  <2>1. /\ Head(queue[a]) \in Decisions /\ SetDec(Head(queue[a]), "lock") /\ UNCHANGED rows
        /\ Head(queue[a]) = queue[a][1] /\ 1 \in 1 .. Len(queue[a])
    BY <1>4 DEF Receive, TypeInv, Shapes
  <2>2. dec[Head(queue[a])].pc = "queued"
    BY <2>1 DEF TypeInv, QueueInv
  <2> QED BY <1>2, <2>1, <2>2 DEF Settled
<1>5. ASSUME NEW d \in Decisions, ReadTail(d) PROVE ChainInv'
  BY <1>5, ReadTailChains
<1>6. ASSUME NEW d \in Decisions, Commit(d) \/ AckLost(d) PROVE ChainInv'
  <2>1. PICK v \in Settled : dec[d].pc = "commit" /\ Stored(d) /\ Settle(d, v)
    BY <1>6 DEF Commit, AckLost, Settled
  <2>2. dec[d].chain \in Chains
    BY DEF TypeInv, Shapes, DecFields
  <2> QED BY <2>1, <2>2, StoredChains
<1>7. ASSUME NEW d \in Decisions, TxFails(d) PROVE ChainInv'
  <2>1. Settle(d, "error") /\ UNCHANGED rows
    BY <1>7 DEF TxFails
  <2>2. dec'[d].pc = "error" /\ \A e \in Decisions : e # d => dec'[e] = dec[e]
    BY <1>0, <2>1, SettleEffect
  <2> QED BY <2>1, <2>2, ChainKept DEF Settled
<1>8. ASSUME NEW a \in Agents, Stop(a) \/ Crash(a) PROVE ChainInv'
  <2>1. PICK how \in {"left", "killed"} : Ends(a, how)
    BY <1>8 DEF Stop, Exit, ShutdownTimesOut, Crash
  <2>2. UNCHANGED rows
    BY <2>1 DEF Ends
  <2>3. \A d \in Decisions : IF dec[d].at = a /\ dec[d].pc \in InHand THEN dec'[d].pc = how
                             ELSE dec'[d] = dec[d]
    BY <1>0, <2>1, EndsEffect
  <2> QED BY <2>2, <2>3, ChainKept DEF Settled, InHand, Writing
<1>9. ASSUME UNCHANGED <<rows, dec>> PROVE ChainInv'
  BY <1>9, ChainKept
<1> QED BY <1>1, <1>3, <1>4, <1>5, <1>6, <1>7, <1>8, <1>9 
        DEF Next, Write, Work, WorkerLeaves, Shutdown, Start, vars

LEMMA ChainInvHolds == Spec => []ChainInv
BY InitChains, NextChains, TypeInvHolds, PTL DEF Spec

-----------------------------------------------------------------------------
(* The refinement of Ledger.                                               *)

Ledgers == [c \in Chains |-> {<<r.seq, r.dec>> : r \in rows[c] \ {LegacyRow}}]

LEMMA LedgersArePairs == \A c \in Chains : Ledgers[c] = Pairs(c)
BY DEF Ledgers, Pairs, Own

LEMMA InitLedgers == Init => L!Init
<1> SUFFICES ASSUME Init PROVE Ledgers = [c \in Chains |-> {}]
  BY DEF L!Init, Ledgers
<1>1. \A c \in Chains : rows[c] \subseteq {LegacyRow}
  BY DEF Init
<1> QED BY <1>1 DEF Ledgers

LEMMA StoredLedgers ==
    ASSUME TypeInv, ChainInv, NEW d \in Decisions, dec[d].pc = "commit", Stored(d),
           NEW v \in Settled, Settle(d, v)
    PROVE  L!Next
<1>1. PICK c \in Chains : c = dec[d].chain
  BY DEF TypeInv, Shapes, DecFields
<1>2. /\ Pairs(c)' = Pairs(c) \cup {<<Count(c) + 1, d>>}
      /\ \A x \in Chains \ {c} : Pairs(x)' = Pairs(x)
  BY <1>1, StoredChains
<1>3. ASSUME NEW x \in Chains, NEW p \in Pairs(x) PROVE p[2] # d
  <2>1. PICK r \in Own(x) : p = <<r.seq, r.dec>>
    BY <1>3 DEF Pairs
  <2>2. dec[r.dec].pc \in Settled /\ p[2] = r.dec
    BY <2>1 DEF ChainInv, RowsInv
  <2> QED BY <2>2 DEF Settled
<1>4. d \notin L!Recorded
  <2>1. L!Recorded = UNION {{x[2] : x \in Ledgers[b]} : b \in Chains}
    BY DEF L!Recorded, Ledgers
  <2> QED BY <1>3, <2>1, LedgersArePairs
<1>5. Ledgers' = [Ledgers EXCEPT ![c] = Ledgers[c] \cup {<<Cardinality(Ledgers[c]) + 1, d>>}]
  <2>1. \A x \in Chains : Ledgers'[x] = IF x = c THEN Pairs(c) \cup {<<Count(c) + 1, d>>} ELSE Pairs(x)
    BY <1>2 DEF Ledgers, Pairs, Own
  <2>2. Ledgers' = [x \in Chains |-> Ledgers'[x]] /\ DOMAIN Ledgers = Chains
    BY DEF Ledgers
  <2>3. Count(c) = Cardinality(Ledgers[c]) /\ \A x \in Chains : Ledgers[x] = Pairs(x)
    BY LedgersArePairs DEF Count
  <2> QED BY <2>1, <2>2, <2>3
<1>6. L!Append(c, d)
  <2>1. Ledgers' = [Ledgers EXCEPT ![c] = @ \cup {<<Cardinality(@) + 1, d>>}]
    BY <1>5
  <2>2. \A S : L!Cardinality(S) = Cardinality(S)
    BY DEF L!Cardinality, Cardinality
  <2> QED BY <1>4, <2>1, <2>2 DEF L!Append, Ledgers
<1> QED BY <1>6 DEF L!Next

LEMMA NextLedgers == TypeInv /\ ChainInv /\ [Next]_vars => L!Next \/ UNCHANGED Ledgers
<1> SUFFICES ASSUME TypeInv, ChainInv, [Next]_vars PROVE L!Next \/ UNCHANGED Ledgers
  OBVIOUS
<1>1. ASSUME NEW d \in Decisions, Commit(d) \/ AckLost(d) PROVE L!Next
  <2>1. PICK v \in Settled : dec[d].pc = "commit" /\ Stored(d) /\ Settle(d, v)
    BY <1>1 DEF Commit, AckLost, Settled
  <2> QED BY <2>1, StoredLedgers
<1>2. CASE UNCHANGED rows
  BY <1>2 DEF Ledgers
<1> QED BY <1>1, <1>2 DEF Next, Write, RecordDecision, Lock, ReadTail, TxFails, Work, Receive, WorkerLeaves,
                          Shutdown, Stop, Exit, ShutdownTimesOut, Crash, Ends, Start, vars

\* The chains are ledgers for any number of replicas, writers and faults: they only grow
\* at their end, are numbered without a gap, and take a decision once, also when its
\* commit was reported as an error (recordToDB).
THEOREM ChainsRefineLedger == Spec => ChainsAreLedgers
<1>1. [L!Next \/ UNCHANGED Ledgers]_vars => [L!Next]_Ledgers
  BY DEF vars, Ledgers
<1>2. TypeInv /\ ChainInv /\ [Next]_vars => [L!Next]_Ledgers
  BY NextLedgers
<1>3. Spec => [][L!Next]_Ledgers
  BY <1>2, TypeInvHolds, ChainInvHolds, PTL DEF Spec
<1>4. Spec => L!Init
  BY InitLedgers, PTL DEF Spec
<1>5. L!Init /\ [][L!Next]_Ledgers => ChainsAreLedgers
  BY DEF ChainsAreLedgers, L!Spec, Ledgers
<1> QED BY <1>3, <1>4, <1>5

-----------------------------------------------------------------------------
(* Verification.                                                           *)

\* The link verifyEntries expects is the one the record has.
LEMMA LinksVerify ==
    ASSUME RowsInv, NEW c \in Chains, LegacyRow \notin rows[c], NEW r \in rows[c]
    PROVE  r.prev = ExpectedPrev(rows[c], r)
<1>1. rows[c] = Own(c) /\ Numbered(c) /\ Count(c) \in Nat /\ Linked(rows[c], r)
  BY CountNat DEF RowsInv, Numbered, Own
<1>2. \A q \in rows[c] : q.seq \in 1 .. Count(c) /\ q.seq \in Int /\ q.dec \in Int
  <2> TAKE q \in rows[c]
  <2>1. q.seq \in 1 .. Count(c) /\ q.dec \in Decisions
    BY <1>1 DEF Numbered, RowsInv
  <2>2. q.dec \in Int
    BY <2>1, BoundsAssumption DEF Decisions
  <2>3. q.seq \in Int
    BY <1>1, <2>1
  <2> QED BY <2>1, <2>2, <2>3
<1> DEFINE E == {q \in rows[c] : Before(q, r)}
<1>3. \A q \in rows[c] : q \in E <=> q.seq < r.seq
  BY <1>1, <1>2 DEF Before, Numbered
<1>4. ExpectedPrev(rows[c], r) = IF E = {} THEN Genesis ELSE ChainHash(LastOf(E))
  BY DEF ExpectedPrev
<1>5. E \subseteq rows[c]
  OBVIOUS
<1> HIDE DEF E
<1>6. CASE r.seq = 1 /\ r.prev = Root(rows[c])
  <2>1. E = {}
    <3>1. \A q \in rows[c] : ~(q.seq < 1)
      BY <1>1, <1>2
    <3> QED BY <1>3, <1>5, <1>6, <3>1
  <2>2. Root(rows[c]) = Genesis
    BY DEF Root
  <2> QED BY <1>4, <1>6, <2>1, <2>2
<1>7. ASSUME NEW m \in rows[c], r.seq = m.seq + 1, r.prev = ChainHash(m)
      PROVE  r.prev = ExpectedPrev(rows[c], r)
  <2>1. m \in E
    BY <1>2, <1>3, <1>7
  <2>2. ASSUME NEW q \in E \ {m} PROVE Before(q, m)
    <3>1. q \in rows[c] /\ q.seq < m.seq + 1 /\ q.seq # m.seq
      BY <1>1, <1>3, <1>5, <1>7 DEF Numbered
    <3>2. q.seq < m.seq
      BY <1>2, <3>1
    <3> QED BY <3>2 DEF Before
  <2>3. \A q \in E : q.seq \in Int /\ q.dec \in Int
    BY <1>2, <1>5
  <2>4. LastOf(E) = m
    BY <2>1, <2>2, <2>3, LastIs
  <2> QED BY <1>4, <1>7, <2>1, <2>4
<1> QED BY <1>1, <1>6, <1>7 DEF Linked

\* A record signed under a key's derived id verifies wherever that id is known.
LEMMA SignaturesVerify ==
    ASSUME NEW g \in AllConfigs, NEW r, Sealed(r), IsSigned(r),
           r.id \in g.retained \cup ({g.key} \cap {g.id})
    PROVE  VerifySignature(g, r)
<1>1. \A h \in AllConfigs : (h.key = NoKey <=> h.id = NoKey) /\ NoKey \notin h.retained
  BY ConfigAssumption DEF AllConfigs, Unconfigured
<1>2. \A h, k \in AllConfigs : h.id # h.key => h.id # k.key /\ h.id \notin k.retained
  <2> SUFFICES ASSUME NEW h \in AllConfigs, NEW k \in AllConfigs, h.id # h.key
               PROVE  h.id # k.key /\ h.id \notin k.retained
    OBVIOUS
  <2>1. h \in Configs
    BY DEF AllConfigs, Unconfigured
  <2>2. CASE k \in Configs
    BY <2>1, <2>2, LabelAssumption
  <2>3. CASE k = Unconfigured
    BY <1>1, <2>3 DEF Unconfigured
  <2> QED BY <2>2, <2>3 DEF AllConfigs
<1>3. PICK h \in AllConfigs : /\ r.id = h.id
                              /\ r.sig = IF h.key = NoKey THEN Absent ELSE Sign(h.key, ChainHash(r))
  BY DEF Sealed
<1>4. r.id # NoKey /\ h.key # NoKey
  BY <1>1, <1>3 DEF IsSigned
<1>5. h.id = h.key
  BY <1>2, <1>3
<1>6. r.sig = Sign(r.id, ChainHash(r))
  BY <1>3, <1>4, <1>5
<1>7. r.id \in DOMAIN VerifyKeys(g) /\ VerifyKeys(g)[r.id] = IF r.id = g.id THEN g.key ELSE r.id
  BY <1>4 DEF VerifyKeys
<1>8. r.id = g.id => g.key = r.id
  BY <1>2, <1>3, <1>5
<1> QED BY <1>6, <1>7, <1>8 DEF VerifySignature

LEMMA ChainInvImplies == TypeInv /\ ChainInv => ChainsVerify
<1> SUFFICES ASSUME TypeInv, ChainInv, NEW a \in Agents, NEW c \in Chains,
                    LegacyRow \notin rows[c],
                    \A r \in rows[c] : IsSigned(r) =>
                        r.id \in agent[a].config.retained
                                   \cup ({agent[a].config.key} \cap {agent[a].config.id})
             PROVE  VerifyEntries(agent[a].config, rows[c])
  BY DEF ChainsVerify
<1>1. agent[a].config \in AllConfigs
  BY DEF TypeInv, Shapes
<1>2. ASSUME NEW r \in rows[c]
      PROVE  /\ r.prev = ExpectedPrev(rows[c], r)
             /\ IsSigned(r) => VerifySignature(agent[a].config, r)
  <2>1. r.prev = ExpectedPrev(rows[c], r)
    BY LinksVerify DEF ChainInv
  <2>2. Sealed(r)
    BY DEF ChainInv, RowsInv, Own
  <2> QED BY <1>1, <2>1, <2>2, SignaturesVerify
<1> QED BY <1>2 DEF VerifyEntries

\* Every chain verifies at every agent that knows its keys under their derived ids,
\* whatever replicas, workers, failures, crashes and key rotations wrote it (recordToDB,
\* sealEntry, verifyEntries).
THEOREM ChainsAlwaysVerify == Spec => []ChainsVerify
BY TypeInvHolds, ChainInvHolds, ChainInvImplies, PTL
=============================================================================
