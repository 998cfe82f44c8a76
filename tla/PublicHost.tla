----------------------------- MODULE PublicHost -----------------------------
(***************************************************************************)
(* SQLitePublicExecutionHost of public_host.py: one scope in one database, *)
(* with the checkpoint of a root and the first response to every mutation. *)
(* handle is one BEGIN IMMEDIATE transaction, so it is one step.  What an  *)
(* operation does to a checkpoint is in Checkpoint; here a checkpoint is   *)
(* its revision, the events accepted so far, those still queued and the    *)
(* status of its one runtime.  Equal revisions of one root stand for equal *)
(* digests, a request for its canonical bytes and its digest.              *)
(***************************************************************************)
EXTENDS Naturals, Sequences, FiniteSets

CONSTANTS
    Hosts,          \* each is a scope of its own
    OperationIds,
    Events,         \* ids of the events requests deliver
    Creations,      \* arguments a root may be created with
    MaxRevision     \* bound: revision of a root

ASSUME HostAssumption == MaxRevision \in Nat

VARIABLE host       \* host |-> what its database holds

None == [none |-> TRUE]

\* setup_schema has not been called.
NoDatabase == [setup |-> FALSE, root |-> None, saved |-> <<>>, changes |-> {}]

HostInit == host = [h \in Hosts |-> NoDatabase]

SetupSchema(h) ==
    /\ ~host[h].setup
    /\ host' = [host EXCEPT ![h].setup = TRUE]

-----------------------------------------------------------------------------
(* Requests and responses.                                                 *)

\* A creation names no revision, a step no event.
Create(op, creation) == [op |-> op, kind |-> "create", what |-> creation, at |-> 0]
Admit(op, event, at) == [op |-> op, kind |-> "admit", what |-> event, at |-> at]
Process(op, at) == [op |-> op, kind |-> "process", what |-> "step", at |-> at]

\* What a caller may ask for.
Wishes ==
    [op : OperationIds, kind : {"create"}, what : Creations, at : {0}]
    \cup [op : OperationIds, kind : {"admit"}, what : Events, at : Nat]
    \cup [op : OperationIds, kind : {"process"}, what : {"step"}, at : Nat]

\* The scope is filled in at discovery.
Resolved(q, scope) ==
    [op |-> q.op, kind |-> q.kind, what |-> q.what, at |-> q.at, scope |-> scope]

Rejected(code) == [status |-> "rejected", code |-> code]

\* The value is the disposition and the checkpoint after the operation; a
\* receipt names the request.
Committed(q, disposition, root, changed) ==
    [status |-> "committed", disposition |-> disposition, revision |-> root.revision,
     receipt |-> IF changed THEN q ELSE None]

-----------------------------------------------------------------------------
(* _execute: the code of a refusal, or what may come of the operation.     *)

\* The creation of this root whose response is kept.
FirstCreation(d) ==
    CHOOSE s \in {d.saved[op] : op \in DOMAIN d.saved} : s.request.kind = "create"

NewRoot == [revision |-> 0, accepted |-> {}, queue |-> <<>>, status |-> "running"]

\* A digest of what the root holds, without its revision: an empty queue is like
\* the one after the creation.
PreconditionByContent(d, q) == d.root.revision = q.at \/ (q.at = 0 /\ d.root.queue = <<>>)

\* Revision and digest of the request are those of the stored checkpoint.
Precondition(d, q) == d.root.revision = q.at

\* An event that waits, or whose receipts are kept.
Known(d, q) == q.what \in d.root.accepted

Refusal(d, q) ==
    IF ~d.setup THEN "host_capability_mismatch"
    ELSE IF q.kind = "create"
         THEN IF d.root # None /\ FirstCreation(d).request.what # q.what
              THEN "creation_id_conflict" ELSE "none"
    ELSE IF d.root = None THEN "invalid_instance_target"
    ELSE IF q.kind = "admit" /\ Known(d, q) THEN "none"
    ELSE IF q.kind = "admit" /\ d.root.status # "running" THEN "terminal_root"
    ELSE IF ~Precondition(d, q) THEN "checkpoint_revision_conflict" ELSE "none"

\* What a step may make of the root; what waits for a root that completes is
\* disposed, and what waits for one that faults stays.
Stepped(root, disposition) ==
    [root EXCEPT !.revision = @ + 1,
                 !.queue = IF disposition = "completed" THEN <<>> ELSE Tail(@),
                 !.status = IF disposition = "handled" THEN "running" ELSE disposition]

Dispositions == {"handled", "completed", "faulted"}

Stay(d, disposition, changed) == {[root |-> d.root, disposition |-> disposition, changed |-> changed]}

\* A creation answered anew with the checkpoint of the moment.
CreatedNow(d, q) == Committed(q, "created", d.root, TRUE)

\* A root that is there was created once: the value is that of the first response.
Recreated(d, q) == [FirstCreation(d).response EXCEPT !.receipt = q]

Admitted(root, event) ==
    [root EXCEPT !.revision = @ + 1, !.accepted = @ \cup {event}, !.queue = Append(@, event)]

Outcomes(d, q) ==
    IF q.kind = "create"
    THEN IF d.root = None THEN {[root |-> NewRoot, disposition |-> "created", changed |-> TRUE]}
         ELSE Stay(d, "created", TRUE)
    ELSE IF q.kind = "admit"
    THEN IF Known(d, q) THEN Stay(d, "accepted", TRUE)
         ELSE {[root |-> Admitted(d.root, q.what), disposition |-> "accepted", changed |-> TRUE]}
    ELSE IF d.root.queue = <<>> THEN Stay(d, "not_runnable", FALSE)
    ELSE IF d.root.status # "running" THEN Stay(d, "rejected", FALSE)
    ELSE {[root |-> Stepped(d.root, x), disposition |-> x, changed |-> TRUE] : x \in Dispositions}

Response(d, q, outcome) ==
    IF q.kind = "create" /\ d.root # None THEN Recreated(d, q)
    ELSE Committed(q, outcome.disposition, outcome.root, outcome.changed)

-----------------------------------------------------------------------------
(* handle                                                                  *)

\* An equal retry gets the first response.
Replayed(d, q) ==
    IF d.saved[q.op].request = q THEN d.saved[q.op].response
    ELSE Rejected("operation_id_conflict")

Save(d, q, outcome) ==
    [d EXCEPT !.root = outcome.root,
              !.saved = [op \in DOMAIN @ \cup {q.op} |->
                           IF op = q.op
                           THEN [request |-> q, response |-> Response(d, q, outcome)]
                           ELSE @[op]],
              !.changes = IF outcome.root = d.root THEN @
                          ELSE @ \cup {[request |-> q, revision |-> outcome.root.revision]}]

\* A request served whatever scope it was resolved for.
AnyScope(h, q) == IF q.op \in DOMAIN host[h].saved THEN "none" ELSE Refusal(host[h], q)

\* A request whose scope is another one is refused before anything is looked up.
ScopeRefusal(h, q) ==
    IF q.scope # h THEN "binding_unavailable"
    ELSE IF q.op \in DOMAIN host[h].saved THEN "none" ELSE Refusal(host[h], q)

\* A creation whose definition the resolver has not (yet) got, or does not trust.
MayMissArtifact(h, q) ==
    q.kind = "create" /\ q.scope = h /\ host[h].setup /\ host[h].root = None
    /\ q.op \notin DOMAIN host[h].saved

Unwritten(h, response) == [database |-> host[h], response |-> response]

\* What may come of a request: the database after it and the response.
Handle(h, q) ==
    (IF MayMissArtifact(h, q) THEN {Unwritten(h, Rejected("missing_required_artifact"))} ELSE {})
    \cup
    IF ScopeRefusal(h, q) # "none" THEN {Unwritten(h, Rejected(ScopeRefusal(h, q)))}
    ELSE IF q.op \in DOMAIN host[h].saved THEN {Unwritten(h, Replayed(host[h], q))}
    ELSE {[database |-> Save(host[h], q, x), response |-> Response(host[h], q, x)] :
             x \in {y \in Outcomes(host[h], q) : y.root.revision <= MaxRevision}}
=============================================================================
