----------------------------- MODULE MCMailboxes -----------------------------
(* Instances of Mailboxes for TLC.                                         *)
EXTENDS Mailboxes

CONSTANTS e1, e2    \* event ids of host deliveries

TwoIds == {e1, e2}

\* A root that defers, with no children.
AloneRuntimes == {0}
AloneRole == [r \in AloneRuntimes |-> "root"]
AloneOwner == [r \in {} |-> 0]
AloneActivation == [r \in {} |-> 0]
AloneCapacity == [r \in AloneRuntimes |-> 2]

\* "shut" defers both events, "ajar" asks a guard first, "open" defers none.
AloneModes == {"shut", "ajar", "open"}
AloneBehaviour ==
    [m \in AloneModes |->
       [e \in Events |->
          CASE e \in SystemEvents -> "ignored"
            [] e = "go" -> IF m = "open" THEN "guarded" ELSE "handled"
            [] m = "shut" -> "deferred"
            [] m = "ajar" -> "guarded_deferred"
            [] OTHER -> "handled"]]

\* A root that can enter its parallel state twice, with two components
\* and then with one.
TreeRuntimes == 0 .. 3
TreeRole == [r \in TreeRuntimes |-> IF r = 0 THEN "root" ELSE "component"]
TreeOwner == [r \in 1 .. 3 |-> 0]
TreeActivation == [r \in 1 .. 3 |-> IF r = 3 THEN "second" ELSE "first"]
TreeCapacity == [r \in TreeRuntimes |-> IF r = 1 THEN 0 ELSE Unbounded]
TreeModes == {"plain", "par"}
TreeBehaviour ==
    [m \in TreeModes |->
       [e \in Events |->
          CASE e \in SystemEvents -> IF m = "par" THEN "handled" ELSE "ignored"
            [] e = "go" -> "handled"
            [] OTHER -> IF m = "plain" THEN "guarded_deferred" ELSE "guarded"]]

\* A root with one component and one spawned runtime, which talk.
TalkRuntimes == 0 .. 2
TalkRole == [r \in TalkRuntimes |-> CASE r = 0 -> "root" [] r = 1 -> "component" [] OTHER -> "spawned"]
TalkOwner == [r \in 1 .. 2 |-> r - 1]
TalkActivation == [r \in {1} |-> "first"]
TalkCapacity == [r \in TalkRuntimes |-> Unbounded]
TalkBehaviour ==
    [m \in TreeModes |->
       [e \in Events |->
          CASE e \in SystemEvents -> IF m = "par" THEN "handled" ELSE "ignored"
            [] e = "go" -> "handled"
            [] OTHER -> IF m = "plain" THEN "guarded" ELSE "deferred"]]
=============================================================================
