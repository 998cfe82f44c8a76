--------------------------- MODULE MCPublicClient ---------------------------
(* Instances of PublicClient for TLC. *)
EXTENDS PublicClient

Plan(clients, requests, endpoints, hosts, count) ==
    [clientOf |-> clients, wanted |-> requests, endpoints |-> endpoints, hosts |-> hosts,
     moves |-> count]

\* At whatever revision the caller has read.
Revisions == 0 .. MaxRevision
Admits(op, event) == {Admit(op, event, n) : n \in Revisions}
Processes(op) == {Process(op, n) : n \in Revisions}

\* Two callers of one client want one creation, among endpoints and hosts that
\* change.
Scopes ==
    Plan([t \in {"t1", "t2"} |-> "c1"], [t \in {"t1", "t2"} |-> {Create("o1", "k")}],
         {"e1", "e2"}, {"h1", "h2"}, 2)

\* One client creates a root and admits an event, and both use one operation id
\* for steps at different revisions.
Shared ==
    Plan([t \in {"t1", "t2"} |-> t],
         [t \in {"t1", "t2"} |-> Processes("o2") \cup
            IF t = "t1" THEN {Create("o1", "k")} \cup Admits("o3", "a") ELSE {}],
         {"e1"}, {"h1"}, 0)

\* A root is created, takes an event and processes it, while another event is
\* admitted under o3 and the creation is asked for again.
InTurn ==
    Plan([t \in {"t1"} |-> "c1"],
         [t \in {"t1"} |-> {Create("o1", "k"), Create("o4", "k")} \cup Admits("o2", "b")
                            \cup Admits("o3", "a") \cup Processes("o4")],
         {"e1"}, {"h1"}, 0)

\* Two events wait, and one after the other is processed by who reads before it
\* asks.
Steps ==
    Plan([t \in {"t1"} |-> "c1"],
         [t \in {"t1"} |-> {Create("o1", "k"), Admit("o2", "a", 0), Admit("o3", "b", 1),
                            Process("o4", 2), Process("o5", 3)}],
         {"e1"}, {"h1"}, 0)

AllPlans == {Scopes, Shared, InTurn, Steps}
=============================================================================
