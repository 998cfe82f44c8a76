------------------------------ MODULE ScopeLog ------------------------------
(***************************************************************************)
(* What a local scope authority promises: a log of operations, each in it  *)
(* once, that may be closed for good; whoever is told of an operation is   *)
(* told where it stands in the log.                                        *)
(***************************************************************************)
EXTENDS Naturals

CONSTANTS
    Ids

VARIABLES
    position,   \* operation id |-> its place in the log, 0 for none
    basis,      \* operation id |-> the length of the log its caller had read
    length,
    closed,
    answers     \* operation id |-> places callers have been told

Init ==
    /\ position = [i \in Ids |-> 0]
    /\ basis = [i \in Ids |-> 0]
    /\ length = 0
    /\ closed = FALSE
    /\ answers = [i \in Ids |-> {}]

\* An operation that changes the scope, listed or (a registration) not.
Perform ==
    /\ ~closed
    /\ length' = length + 1
    /\ \/ UNCHANGED <<position, basis, closed>>
       \/ \E i \in Ids :
             /\ position[i] = 0
             /\ position' = [position EXCEPT ![i] = length']
             /\ basis' = [basis EXCEPT ![i] = length]
             /\ closed' \in BOOLEAN
    /\ \A i \in Ids : answers'[i] \subseteq answers[i] \cup ({position'[i]} \ {0})
    /\ \A i \in Ids : answers[i] \subseteq answers'[i]

Answer ==
    \E i \in Ids :
       /\ position[i] # 0
       /\ answers' = [answers EXCEPT ![i] = @ \cup {position[i]}]
       /\ UNCHANGED <<position, basis, length, closed>>

Spec == Init /\ [][Perform \/ Answer]_<<position, basis, length, closed, answers>>
=============================================================================
