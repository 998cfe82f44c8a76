---------------------------- MODULE MCAuthority -----------------------------
(* Instances of Authority for TLC.                                         *)
EXTENDS Authority, TLC

CONSTANTS o1, o2, o3,   \* operation ids
          w1, w2, own,  \* workers and the owner
          m1, m2,       \* mutations
          k1, k2,       \* effect works
          b1, b2,       \* bindings
          r1, r2,       \* roots
          d1, d2        \* definitions

Symmetry == Permutations({o1, o2, o3}) \cup Permutations({w1, w2}) \cup Permutations({m1, m2})
            \cup Permutations({k1, k2}) \cup Permutations({b1, b2})
            \cup Permutations({r1, r2}) \cup Permutations({d1, d2})
=============================================================================
