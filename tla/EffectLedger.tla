---------------------------- MODULE EffectLedger ----------------------------
(***************************************************************************)
(* What the committed-effect host promises about business invocations: an  *)
(* effect is emitted once, decided at most once, and the machine that      *)
(* emitted it is told that decision, once.                                 *)
(***************************************************************************)
CONSTANTS
    Effects,
    Verdicts

VARIABLES
    stage,      \* effect |-> how far it has come
    verdict     \* effect |-> the decisions on record, in the journal or told

Init == stage = [e \in Effects |-> "none"] /\ verdict = [e \in Effects |-> {}]

Emit(e) ==
    /\ stage[e] = "none"
    /\ stage' = [stage EXCEPT ![e] = "open"]
    /\ UNCHANGED verdict

Decide(e, v) ==
    /\ stage[e] = "open"
    /\ stage' = [stage EXCEPT ![e] = "decided"]
    /\ verdict' = [verdict EXCEPT ![e] = {v}]

Tell(e) ==
    /\ stage[e] = "decided"
    /\ stage' = [stage EXCEPT ![e] = "told"]
    /\ UNCHANGED verdict

Next ==
    /\ stage' # stage
    /\ \E e \in Effects : Emit(e) \/ Tell(e) \/ \E v \in Verdicts : Decide(e, v)

vars == <<stage, verdict>>

Spec == Init /\ [][Next]_vars
=============================================================================
