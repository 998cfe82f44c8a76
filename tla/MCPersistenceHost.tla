------------------------- MODULE MCPersistenceHost --------------------------
(* Instances of PersistenceHost for TLC.                                   *)
EXTENDS PersistenceHost, TLC

CONSTANTS e1, e2,   \* events
          b1, b2    \* bodies

Symmetry == Permutations({e1, e2}) \cup Permutations({b1, b2})
=============================================================================
