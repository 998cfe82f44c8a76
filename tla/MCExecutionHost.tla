--------------------------- MODULE MCExecutionHost ---------------------------
(* Instances of ExecutionHost for TLC.                                     *)
EXTENDS ExecutionHost, TLC

CONSTANTS e1, e2,       \* event ids of callers
          up, down,     \* bodies of host deliveries, to the root and its child
          note, reply,  \* bodies the root sends its child, and the child the root
          failed,       \* the report of a contained fault
          system,
          op            \* an operation id

OneRuntime == {0}
TwoRuntimes == {0, 1}
TwoBodies == {up, failed}
TwoTarget == [b \in TwoBodies |-> 0]
OnlyReports == [b \in {failed} |-> system]
FiveBodies == {up, down, note, reply, failed}
FiveTarget == [b \in FiveBodies |-> IF b \in {up, reply, failed} THEN 0 ELSE 1]
Talk == [b \in {note, reply, failed} |->
           CASE b = note -> 0 [] b = reply -> 1 [] OTHER -> system]

\* Event ids are only compared.
Symmetry == Permutations({e1, e2})

\* Retention as the host's caller asks for it.
Unlimited == {None}
AnyCutoff == {None} \cup 0 .. 4
=============================================================================
