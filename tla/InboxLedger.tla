---------------------------- MODULE InboxLedger ----------------------------
(***************************************************************************)
(* What the execution host promises for the event ids its callers choose:  *)
(* an id is new, then queued, then done, and never goes back, and from the *)
(* moment it is accepted it stands for one body, whatever is retried,      *)
(* restored or pruned in between.  An operation that accepts and processes *)
(* in one commit takes a new id to done.                                   *)
(***************************************************************************)
CONSTANTS Events, Bodies

VARIABLES
    fate,   \* event id |-> what has become of it
    said    \* event id |-> the bodies a retry of it is compared with

vars == <<fate, said>>

Fates == {"new", "queued", "done"}

Forward == {<<"new", "queued">>, <<"new", "done">>, <<"queued", "done">>}

Init == fate = [e \in Events |-> "new"] /\ said = [e \in Events |-> {}]

\* One commit moves any number of ids forward: a batch is accepted, a root is
\* tombstoned with all that waits.
Advance ==
    /\ fate' \in [Events -> Fates]
    /\ said' \in [Events -> {{}} \cup {{b} : b \in Bodies}]
    /\ \A e \in Events :
          /\ fate'[e] # fate[e] => <<fate[e], fate'[e]>> \in Forward
          /\ fate'[e] = "new" <=> said'[e] = {}
          /\ fate[e] # "new" => said'[e] = said[e]

Spec == Init /\ [][Advance]_vars
=============================================================================
