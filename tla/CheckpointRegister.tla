------------------------- MODULE CheckpointRegister -------------------------
(***************************************************************************)
(* What an execution store promises its host: for each root one register   *)
(* that holds nothing or a checkpoint, written by compare-and-swap.  Every *)
(* checkpoint follows the one before it, an operation is in it once, and   *)
(* callers are told only of operations that were in it.  A store that is   *)
(* not ephemeral loses nothing, and one set up as permanent forgets no     *)
(* operation.                                                              *)
(***************************************************************************)
EXTENDS Naturals

CONSTANTS
    Roots, Operations,
    None

VARIABLES
    value,      \* root |-> checkpoint or None
    told,       \* <<root, operation>> callers know to be committed
    ephemeral,
    permanent

vars == <<value, told, ephemeral, permanent>>

Init ==
    /\ value = [r \in Roots |-> None]
    /\ told = {}
    /\ ephemeral \in BOOLEAN
    /\ permanent = FALSE

\* The checkpoints that may follow c, by an operation or by a pruning.
After(c, op) ==
    IF c = None THEN {[revision |-> 0, done |-> {op}]}
    ELSE {[revision |-> c.revision + 1, done |-> c.done \cup {op}] : x \in {op} \ c.done}

Pruned(c) == {[revision |-> c.revision + 1, done |-> kept] : kept \in SUBSET c.done}

Write ==
    \E r \in Roots :
       \/ \E op \in Operations :
             /\ value'[r] \in After(value[r], op)
             /\ value' = [value EXCEPT ![r] = value'[r]]
             /\ told' \in {told, told \cup {<<r, op>>}}
       \/ /\ value[r] # None /\ ~permanent
          /\ value'[r] \in Pruned(value[r])
          /\ value' = [value EXCEPT ![r] = value'[r]]
          /\ told' = told

Answer ==
    \E r \in Roots :
       /\ value[r] # None
       /\ \E op \in value[r].done : told' = told \cup {<<r, op>>}
       /\ value' = value

Vanish ==
    /\ ephemeral
    /\ value' = [r \in Roots |-> None] /\ told' = {}

SetUpPermanent ==
    /\ ~permanent /\ \A r \in Roots : value[r] = None
    /\ permanent' = TRUE
    /\ UNCHANGED <<value, told>>

Next ==
    /\ UNCHANGED ephemeral
    /\ SetUpPermanent \/ (UNCHANGED permanent /\ (Write \/ Answer \/ Vanish))

Spec == Init /\ [][Next]_vars
=============================================================================
