-------------------------------- MODULE Ledger --------------------------------
(***************************************************************************)
(* What the decision chain promises a reader: every chain is a numbered    *)
(* list that only grows at its end, and a decision enters one list, once.  *)
(***************************************************************************)
EXTENDS Integers, FiniteSets

CONSTANTS Chains,    \* the lists
          Entries    \* what can be recorded

VARIABLE ledger      \* per chain, the pairs <<position, entry>> recorded so far

Recorded == UNION {{x[2] : x \in ledger[c]} : c \in Chains}

Append(c, e) ==
    /\ e \notin Recorded
    /\ ledger' = [ledger EXCEPT ![c] = @ \cup {<<Cardinality(@) + 1, e>>}]

Init == ledger = [c \in Chains |-> {}]
Next == \E c \in Chains, e \in Entries : Append(c, e)
Spec == Init /\ [][Next]_ledger
=============================================================================
