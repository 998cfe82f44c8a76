---------------------------- MODULE DeliveryLedger ----------------------------
(***************************************************************************)
(* What the mailboxes of an aggregate promise for every delivery, whoever  *)
(* its target is: an accepted delivery is never forgotten and gets one     *)
(* final disposition, a step processes at most one of them, and only the   *)
(* processing of one can dispose of others unprocessed.                    *)
(***************************************************************************)
EXTENDS Integers

VARIABLE ledger     \* acceptance sequence |-> "queued", "processed", "disposed"

Accepted == DOMAIN ledger
Queued == {a \in Accepted : ledger[a] = "queued"}

\* New acceptances continue the sequence and start in one of "places".
Extends(places) ==
    /\ \E n \in DOMAIN ledger' \cup {-1} : DOMAIN ledger' = 0 .. n
    /\ Accepted \subseteq DOMAIN ledger'
    /\ \A a \in DOMAIN ledger' \ Accepted : ledger'[a] \in places

Init == ledger = <<>>

\* The creation of the aggregate emits; its root may already have ended.
Create ==
    /\ Accepted = {}
    /\ Extends({"queued", "disposed"})

\* The host admits deliveries.
Admit ==
    /\ Extends({"queued"})
    /\ \A a \in Accepted : ledger'[a] = ledger[a]

\* One delivery is processed; it may end runtimes, with what they had queued.
Process ==
    \E p \in Queued :
       /\ Extends({"queued", "disposed"})
       /\ ledger'[p] = "processed"
       /\ \A a \in Accepted \ {p} :
             \/ ledger'[a] = ledger[a]
             \/ ledger[a] = "queued" /\ ledger'[a] = "disposed"

Next == Create \/ Admit \/ Process

Spec == Init /\ [][Next]_ledger
=============================================================================
