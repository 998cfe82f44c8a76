------------------------------ MODULE MCStores ------------------------------
(* An instance of Stores for TLC: each adapter under two sessions that      *)
(* share one configuration, the databases under two that do not, with the   *)
(* policy verified and without, and backups of two roots, one session       *)
(* changing them.                                                           *)
EXTENDS Stores, TLC

CONSTANTS s1, s2,   \* sessions
          r1, r2,   \* roots
          c1, c2,   \* creation ids
          a1,       \* an operation answered with a result
          e1        \* an operation answered with evidence

Sharing(a) ==
    [adapter |-> a, policyOf |-> [s \in {s1, s2} |-> "bounded"], roots |-> {r1},
     operations |-> {c1, c2, a1, Prune}, backups |-> {}, crashes |-> 1, verified |-> TRUE]
Disagreeing(a, verified) ==
    [adapter |-> a, policyOf |-> [s \in {s1, s2} |-> IF s = s1 THEN "permanent" ELSE "bounded"],
     roots |-> {r1}, operations |-> {c1, a1, e1, Prune}, backups |-> {}, crashes |-> 0,
     verified |-> verified]
BackedUp(a) ==
    [adapter |-> a, policyOf |-> [s \in {s1} |-> "bounded"], roots |-> {r1, r2},
     operations |-> {c1, Prune}, backups |-> {r1, r2}, crashes |-> 0, verified |-> TRUE]

AllConfigs == {Sharing(a) : a \in Adapters} \cup {Disagreeing(a, v) : a \in Databases, v \in BOOLEAN}
              \cup {BackedUp(a) : a \in {"file", "sqlite", "postgresql"}}

Symmetry == Permutations({s1, s2}) \cup Permutations({r1, r2}) \cup Permutations({c1, c2})
=============================================================================
