----------------------------- MODULE AnswerCache -----------------------------
(***************************************************************************)
(* What the idempotency store promises about every key: an answer, once    *)
(* kept, is what readers get until it is forgotten; it is never replaced   *)
(* by another one.                                                         *)
(***************************************************************************)
CONSTANTS Keys, Answers, None

VARIABLE kept   \* the answer readers get for each key, or None

Init == kept = [k \in Keys |-> None]

Keep(k) ==
    /\ kept[k] = None
    /\ kept'[k] \in Answers
    /\ kept' = [kept EXCEPT ![k] = kept'[k]]

Forget(k) == kept[k] # None /\ kept' = [kept EXCEPT ![k] = None]

Next == \E k \in Keys : Keep(k) \/ Forget(k)

Spec == Init /\ [][Next]_kept
=============================================================================
