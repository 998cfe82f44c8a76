------------------------------ MODULE Mailboxes ------------------------------
(***************************************************************************)
(* The queue-bearing aggregate of queueing.py: admission of deliveries,    *)
(* one run-to-completion step of a ready-mailbox head, deferral and        *)
(* recall, disposal of the mailboxes of runtimes that end, and enqueueing  *)
(* of the internal events a step emits.                                    *)
(*                                                                         *)
(* Every delivery the aggregate accepts gets the next acceptance sequence, *)
(* so "box" maps acceptance sequences to entries.  An entry whose place is *)
(* "ready" or "deferred" is pending, in that mailbox of its target; any    *)
(* other place is the disposition the host was told, kept as history.  A   *)
(* mailbox is the list of its entries by increasing queue sequence, the    *)
(* order _validate_mailboxes insists on.                                   *)
(*                                                                         *)
(* Every operation first restores the document and raises when that fails, *)
(* so every action has the guard Restorable.  Rejected and not-runnable    *)
(* calls return the document they were given: they are stuttering steps.   *)
(*                                                                         *)
(* A definition whose name qualifies the one after it (IsLast, SameRank,   *)
(* EndedIfRemoved, ...) is a deliberate mistake that no action uses: put   *)
(* in the place of that next one, it shows which property would notice.    *)
(***************************************************************************)
EXTENDS Ownership

CONSTANTS
    InputEvents,    \* declared events of direction input
    InternalEvents, \* declared events of direction internal
    Behaviour,      \* mode, event |-> what the active states say of the event
    Capacity,       \* runtime |-> its machine's deferred_event_capacity, or Unbounded
    HostIds,        \* event ids hosts choose
    MaxAcceptance,  \* bound: accepted deliveries
    MaxQueue,       \* bound: queue sequences
    MaxBatch,       \* bound: deliveries per admission
    MaxSend         \* bound: author emissions per step

VARIABLES
    box,            \* acceptance sequence |-> entry
    nextAcceptance,
    nextQueue,
    nextStep        \* next logical step sequence

tree == <<status, mode>>
vars == <<status, mode, box, nextAcceptance, nextQueue, nextStep>>

Events == InputEvents \cup InternalEvents \cup SystemEvents
Unbounded == -1     \* no declared capacity

\* What the chain of active states, leaf to root, does with an event: the
\* innermost mention decides.  "handled" has an unguarded handler, "guarded"
\* only guarded ones, "guarded_deferred" guarded ones inside a deferral,
\* "deferred" a deferral inside every handler, "ignored" no mention.
Behaviours == {"handled", "guarded", "guarded_deferred", "deferred", "ignored"}

ASSUME MailboxAssumption ==
    /\ InputEvents \cap InternalEvents = {}
    /\ SystemEvents \cap (InputEvents \cup InternalEvents) = {}
    /\ Behaviour \in [Modes -> [Events -> Behaviours]]
    /\ \A m \in Modes : \A e \in SystemEvents :
          Behaviour[m][e] \in {"handled", "guarded", "ignored"}
    /\ Capacity \in [Runtimes -> Nat \cup {Unbounded}]

ASSUME BoundsAssumption ==
    /\ MaxAcceptance \in Nat
    /\ MaxQueue \in Nat
    /\ MaxBatch \in Nat
    /\ MaxSend \in Nat

-----------------------------------------------------------------------------
(* Entries.                                                                *)

Sources == Runtimes \cup {Host, System}
Ids == {<<"host", e, 0>> : e \in HostIds} \cup ({"step"} \X Nat \X Nat)
Waiting == {"ready", "deferred"}
Dispositions == {"handled", "unhandled", "faulted",
                 "aggregate_completed", "runtime_completed", "runtime_cancelled"}

Emission == [event : Events, target : Runtimes, source : Sources, subject : Runtimes]

Delivery == [event : InputEvents \cup InternalEvents, target : Runtimes,
             source : Runtimes \cup {Host}, id : {<<"host", e, 0>> : e \in HostIds}]

Entry == [event : Events, target : Runtimes, source : Sources, subject : Runtimes,
          id : Ids, place : Waiting \cup Dispositions, queue : Nat, deferrals : Nat]

PendingUnlessHandled == {a \in DOMAIN box : box[a].place # "handled"}
Pending == {a \in DOMAIN box : box[a].place \in Waiting}
InMailbox(r, place) == {a \in DOMAIN box : box[a].target = r /\ box[a].place = place}

IsLast(r, h) ==
    /\ h \in InMailbox(r, "ready")
    /\ \A b \in InMailbox(r, "ready") : box[b].queue <= box[h].queue

\* The head of r's ready mailbox.
IsHead(r, h) ==
    /\ h \in InMailbox(r, "ready")
    /\ \A b \in InMailbox(r, "ready") : box[h].queue <= box[b].queue

StructurallyDeferred(m, e) == Behaviour[m][e] = "deferred"

\* restore_aggregate_v1 accepts the document only if every pending author event
\* names a source runtime the document still holds.
ValidEnvelopeSource(e) == e.source \in Runtimes => e.source \in Present
Restorable == \A a \in Pending : ValidEnvelopeSource(box[a])

-----------------------------------------------------------------------------
(* Writing back the result of a dispatch.                                  *)

DisposalByRuntime(r, st) ==
    IF st[r] = "completed" THEN "runtime_completed"
    ELSE IF st[Root] = "completed" THEN "aggregate_completed" ELSE "runtime_cancelled"

\* Why the pending entries of a runtime that ended are disposed of.
DisposalReason(r, st) ==
    IF st[Root] = "completed" THEN "aggregate_completed"
    ELSE IF st[r] = "completed" THEN "runtime_completed" ELSE "runtime_cancelled"

EndedIfRemoved(r, st) == st[r] = "removed"
Ended(r, st) == st[Root] = "completed" \/ st[r] \in {"completed", "removed"}

\* Where _enqueue_emissions puts an internal event for r.
EmissionPlace(r, st) ==
    IF r \notin PresentIn(st) THEN "runtime_cancelled"
    ELSE IF st[Root] = "completed" THEN "aggregate_completed"
    ELSE IF st[r] = "completed" THEN "runtime_completed" ELSE "ready"

Emitted(ems, k, st) ==
    [event |-> ems[k].event, target |-> ems[k].target, source |-> ems[k].source,
     subject |-> ems[k].subject, id |-> <<"step", nextStep, k>>,
     place |-> EmissionPlace(ems[k].target, st), queue |-> nextQueue + k - 1, deferrals |-> 0]

RecalledByOldMode(r, m) ==
    {a \in InMailbox(r, "deferred") : ~StructurallyDeferred(mode[r], box[a].event)}

\* The deferred entries a handled step of r releases in its new mode m.
Recalled(r, m) ==
    {a \in InMailbox(r, "deferred") : ~StructurallyDeferred(m, box[a].event)}

SameRank(S, a) == 0
ReversedRank(S, a) == Cardinality({b \in S : box[b].queue > box[a].queue})

\* Position of a among the recalled entries S, which keep their order.
RecallRank(S, a) == Cardinality({b \in S : box[b].queue < box[a].queue})

\* The sequence counters advance by the number of entries placed.
AdvanceAcceptanceByOne(n) == nextAcceptance' = IF n = 0 THEN nextAcceptance ELSE nextAcceptance + 1
AdvanceAcceptance(n) == nextAcceptance' = nextAcceptance + n
AdvanceQueue(n) == nextQueue' = nextQueue + n

\* The entry at a after the step that disposes of head h with "fate", moves the
\* runtimes to st, emits ems and then recalls S.
Settled(a, h, fate, st, ems, S) ==
    IF a = h THEN [box[a] EXCEPT !.place = fate]
    ELSE IF a \in S
    THEN [box[a] EXCEPT !.place = "ready",
                        !.queue = nextQueue + Len(ems) + RecallRank(S, a)]
    ELSE IF a \in Pending /\ Ended(box[a].target, st)
    THEN [box[a] EXCEPT !.place = DisposalReason(box[a].target, st)]
    ELSE box[a]

Commit(h, fate, st, ems, S) ==
    /\ ems \in Seq(Emission)
    /\ nextAcceptance + Len(ems) <= MaxAcceptance
    /\ nextQueue + Len(ems) + Cardinality(S) <= MaxQueue
    /\ status' = st
    /\ box' = [a \in 0 .. nextAcceptance + Len(ems) - 1 |->
                 IF a < nextAcceptance THEN Settled(a, h, fate, st, ems, S)
                 ELSE Emitted(ems, a - nextAcceptance + 1, st)]
    /\ AdvanceAcceptance(Len(ems))
    /\ AdvanceQueue(Len(ems) + Cardinality(S))

-----------------------------------------------------------------------------
(* What the author's actions emit during a step.                           *)

AuthorEmission(x, event, target) ==
    [event |-> event, target |-> target, source |-> x, subject |-> x]

AuthorEmissions(senders, created) ==
    UNION {{AuthorEmission(x, e, t) : e \in InternalEvents, t \in Addressable(x, created)}
           : x \in senders}

\* Author emissions around the system's reports: all of them, when there is no
\* report to be before or after, count as before.
Emissions(senders, created, reports) ==
    LET author == AuthorEmissions(senders, created)
    IN IF reports = <<>> THEN BoundedSeq(author, MaxSend)
       ELSE {p \o reports : p \in BoundedSeq(author, MaxSend)}
            \cup {reports \o q : q \in BoundedSeq(author, MaxSend)}

-----------------------------------------------------------------------------
(* Initial state and creation.                                             *)

NoAggregate == status = [r \in Runtimes |-> "absent"]

Init ==
    /\ NoAggregate
    /\ mode = [r \in Runtimes |-> CHOOSE m \in Modes : TRUE]
    /\ box = <<>>
    /\ nextAcceptance = 0
    /\ nextQueue = 0
    /\ nextStep = 0

\* The statuses after a step of r that ends it as "own", creates and removes.
After(r, own, created, init, removed) ==
    [x \in Runtimes |-> IF x = r THEN own
                        ELSE IF x \in created THEN init[x]
                        ELSE IF x \in removed THEN "removed" ELSE status[x]]

\* The modes a step of r leaves, by md, to r and the created runtimes that run.
Running(created, init) == {c \in created : init[c] = "running"}
Entered(md) == [x \in Runtimes |-> IF x \in DOMAIN md THEN md[x] ELSE mode[x]]

\* create_aggregate_v1 whose root initialises and runs; it restores what it is
\* about to return, and raises when a message in it has lost its sender.
Create ==
    /\ NoAggregate
    /\ \E created \in SUBSET NonRoot : \E init \in InitResults(created) :
       \E md \in [Running(created, init) \cup {Root} -> Modes] :
          LET st == After(Root, "running", created, init, {})
              senders == {Root} \cup {c \in created : init[c] # "faulted"}
          IN /\ CanCreate(Root, created, init, md, TRUE)
             /\ \E ems \in Emissions(senders, created, InitReports(created, st)) :
                   Commit(-1, "handled", st, ems, {})
             /\ mode' = Entered(md)
    /\ Restorable'
    /\ nextStep' = nextStep + 1

\* create_aggregate_v1 whose root completes, or faults, while initialising; the
\* restoration finds nothing pending.
CreateEnded ==
    /\ NoAggregate
    /\ \/ \E ems \in Emissions({Root}, {}, <<>>) :
             Commit(-1, "handled", [status EXCEPT ![Root] = "completed"], ems, {})
       \/ Commit(-1, "handled", [status EXCEPT ![Root] = "faulted"], <<>>, {})
    /\ nextStep' = nextStep + 1
    /\ UNCHANGED mode

-----------------------------------------------------------------------------
(* admit_aggregate_v1.                                                     *)

PendingIds == {box[a].id : a \in Pending}

\* A new delivery _validate_new_deliveries accepts.
Admissible(d) ==
    /\ Eligible(d.target)
    /\ IF d.event \in InputEvents
       THEN d.source = Host /\ Role[d.target] # "component"
       ELSE d.source \in Present

\* Deliveries whose id is pending are replays, which add nothing, or conflicts,
\* which reject the batch: the batches that change the aggregate do what their
\* new deliveries do, all or none of them.
Admit(batch) ==
    /\ Restorable
    /\ status[Root] = "running"
    /\ \A i, j \in DOMAIN batch : batch[i].id = batch[j].id => i = j
    /\ \A i \in DOMAIN batch : batch[i].id \notin PendingIds /\ Admissible(batch[i])
    /\ nextAcceptance + Len(batch) <= MaxAcceptance
    /\ nextQueue + Len(batch) <= MaxQueue
    /\ box' = [a \in 0 .. nextAcceptance + Len(batch) - 1 |->
                 IF a < nextAcceptance THEN box[a]
                 ELSE LET d == batch[a - nextAcceptance + 1]
                      IN [event |-> d.event, target |-> d.target, source |-> d.source,
                          subject |-> d.target, id |-> d.id, place |-> "ready",
                          queue |-> nextQueue + a - nextAcceptance, deferrals |-> 0]]
    /\ AdvanceAcceptance(Len(batch))
    /\ AdvanceQueue(Len(batch))
    /\ UNCHANGED <<tree, nextStep>>

-----------------------------------------------------------------------------
(* step_aggregate_v1.                                                      *)

\* The step selects head h of r: not rejected, and runnable.
Selects(r, h) ==
    /\ Restorable
    /\ status[Root] = "running"
    /\ Eligible(r)
    /\ IsHead(r, h)

Says(r, h) == Behaviour[mode[r]][box[h].event]

\* No handler applies; an unhandled failure notification is a fault instead.
StepUnhandled(r, h) ==
    /\ Selects(r, h)
    /\ Says(r, h) \in {"guarded", "ignored"}
    /\ box[h].event \notin FailureEvents
    /\ Commit(h, "unhandled", status, <<>>, {})
    /\ UNCHANGED <<mode, nextStep>>

MayDefer(r, h) == Says(r, h) \in {"deferred", "guarded_deferred"}

HasRoomOffByOne(r) ==
    Capacity[r] = Unbounded \/ Cardinality(InMailbox(r, "deferred")) <= Capacity[r]

HasRoom(r) ==
    Capacity[r] = Unbounded \/ Cardinality(InMailbox(r, "deferred")) < Capacity[r]

StepDeferred(r, h) ==
    /\ Selects(r, h)
    /\ MayDefer(r, h)
    /\ HasRoom(r)
    /\ nextQueue < MaxQueue
    /\ box' = [box EXCEPT ![h].place = "deferred",
                          ![h].queue = nextQueue,
                          ![h].deferrals = @ + 1]
    /\ AdvanceQueue(1)
    /\ UNCHANGED <<tree, nextAcceptance, nextStep>>

\* A fault of r: everything the dispatch did is undone, r is faulted and its
\* owner is told.
Fault(r, h) ==
    /\ Commit(h, "faulted", [status EXCEPT ![r] = "faulted"],
              IF r = Root THEN <<>> ELSE <<FailureReport(r)>>, {})
    /\ nextStep' = nextStep + 1
    /\ UNCHANGED mode

\* The deferred mailbox is full.
StepOverflow(r, h) ==
    /\ Selects(r, h)
    /\ MayDefer(r, h)
    /\ ~HasRoom(r)
    /\ Fault(r, h)

\* A guard or an action faults, or a failure notification is not handled.
StepFaulted(r, h) ==
    /\ Selects(r, h)
    /\ \/ Says(r, h) \in {"handled", "guarded", "guarded_deferred"}
       \/ box[h].event \in FailureEvents
    /\ Fault(r, h)

Handles(r, h) == Says(r, h) \in {"handled", "guarded", "guarded_deferred"}

\* Cancelled runtimes run their exit actions, unless a fault froze them.
ExitSenders(removed) == {x \in removed : status[x] = "running" /\ ~Frozen(x)}

\* A handler runs and r goes on: an internal transition keeps the mode, any
\* other one leaves the leaf state, so its components, and enters a mode.
Transition(r, h, leaves, tops, created, init, md) ==
    LET removed == Removed(r, tops, leaves)
        st == After(r, "running", created, init, removed)
        senders == {r} \cup {c \in created : init[c] # "faulted"} \cup ExitSenders(removed)
    IN /\ ~leaves => md[r] = mode[r]
       /\ CanCreate(r, created, init, md, leaves)
       /\ \E ems \in Emissions(senders, created, InitReports(created, st)) :
             Commit(h, "handled", st, ems, Recalled(r, md[r]))
       /\ mode' = Entered(md)

StepHandled(r, h) ==
    /\ Selects(r, h)
    /\ Handles(r, h)
    /\ \E leaves \in BOOLEAN : \E tops \in SUBSET Cancellable(r) :
       \E created \in SUBSET {c \in Descendants(r) : status[c] = "absent"} :
       \E init \in InitResults(created) :
       \E md \in [Running(created, init) \cup {r} -> Modes] :
          Transition(r, h, leaves, tops, created, init, md)
    /\ nextStep' = nextStep + 1

\* A handler runs and r ends: a stop, or a final state.  What r owns goes first;
\* a component or the root stays as completed, a spawned runtime is dropped.
StepCompleted(r, h) ==
    /\ Selects(r, h)
    /\ Handles(r, h)
    /\ LET removed == Present \cap Descendants(r)
           own == IF Role[r] = "spawned" THEN "removed" ELSE "completed"
           st == After(r, own, {}, <<>>, removed)
       IN \E author \in BoundedSeq(AuthorEmissions({r} \cup ExitSenders(removed), {}), MaxSend) :
             Commit(h, "handled", st, author \o OwnReports(r, st), {})
    /\ nextStep' = nextStep + 1
    /\ UNCHANGED mode

-----------------------------------------------------------------------------

Batches == UNION {[1 .. n -> Delivery] : n \in 1 .. MaxBatch}

Step(r, h) ==
    \/ StepUnhandled(r, h)
    \/ StepDeferred(r, h)
    \/ StepOverflow(r, h)
    \/ StepFaulted(r, h)
    \/ StepHandled(r, h)
    \/ StepCompleted(r, h)

Next ==
    \/ Create
    \/ CreateEnded
    \/ \E batch \in Batches : Admit(batch)
    \/ \E r \in Runtimes : \E h \in DOMAIN box : Step(r, h)

Spec == Init /\ [][Next]_vars
-----------------------------------------------------------------------------
(* Properties.                                                             *)

\* The shape of the aggregate; acceptance sequences are 0 .. nextAcceptance - 1.
TypeOK ==
    /\ status \in [Runtimes -> Status]
    /\ mode \in [Runtimes -> Modes]
    /\ nextAcceptance \in Nat
    /\ nextQueue \in Nat
    /\ nextStep \in Nat
    /\ box \in [0 .. nextAcceptance - 1 -> Entry]

\* _validate_mailboxes accepts what every operation writes: pending entries have
\* distinct queue sequences, below the counter, and distinct event ids, though
\* acceptance, deferral, emission and recall all draw from the same counter.
MailboxesValid ==
    \A a, b \in Pending :
       /\ box[a].queue < nextQueue
       /\ a # b => box[a].queue # box[b].queue /\ box[a].id # box[b].id

\* No entry waits in a mailbox nobody will ever empty or dispose of: a runtime
\* that completes, is cancelled or loses its owner takes its mailboxes with it.
NoOrphan == \A a \in Pending : status[box[a].target] \in {"running", "faulted"}

\* An entry stays deferred only while the state configuration of its runtime
\* defers it: the recall after a handled step misses none.
DeferralJustified ==
    \A a \in DOMAIN box :
       box[a].place = "deferred" /\ status[box[a].target] = "running"
       => Behaviour[mode[box[a].target]][box[a].event] \in {"deferred", "guarded_deferred"}

\* No machine ever holds more deferred entries than its declared capacity.
DeferralBounded ==
    \A r \in Runtimes :
       Capacity[r] # Unbounded => Cardinality(InMailbox(r, "deferred")) <= Capacity[r]

\* Per target, entries are first taken in acceptance order: while an entry waits
\* for its first turn, no later one has been deferred or processed.
NoOvertaking ==
    \A a, b \in DOMAIN box :
       /\ a < b
       /\ box[a].target = box[b].target
       /\ box[a].place = "ready" /\ box[a].deferrals = 0
       => box[b].place = "ready"

\* A recall puts the released entries behind everything ready, in the order in
\* which they were deferred.
RecallKeepsOrder ==
    [][\A a, b \in DOMAIN box :
          /\ box[a].place = "deferred" /\ box'[a].place = "ready"
          /\ box[b].target = box[a].target /\ box'[b].place = "ready"
          => IF box[b].place = "deferred"
             THEN box[a].queue < box[b].queue <=> box'[a].queue < box'[b].queue
             ELSE box'[b].queue < box'[a].queue]_vars

\* A fault freezes a runtime and all it owns: their entries are not processed,
\* only disposed of when an owner's cleanup removes the runtime.
FaultFreezesSubtree ==
    [][\A a \in Pending :
          Frozen(box[a].target)
          => box'[a] = box[a] \/ (box'[a].place \in Dispositions \ {"handled", "unhandled", "faulted"}
                                  /\ status'[box[a].target] \in {"removed", "completed"})]_vars

\* Every runtime of the aggregate has a live owner that has not completed, and
\* a running one has exactly the components of its current activation.
OwnershipWellFormed ==
    /\ \A r \in Present \ {Root} : Owner[r] \in Present /\ status[Owner[r]] # "completed"
    /\ \A r \in Runtimes : status[r] = "running" => AllocatesFor(r, mode[r], Present)

DoneOf(c) == {a \in DOMAIN box : box[a].event = "done" /\ box[a].subject \in Siblings(c)}

\* A parallel activation tells its owner "done" once, exactly when every one of
\* its components has completed, in whatever order and however they did.
DoneExactlyWhenAllCompleted ==
    \A c \in Components :
       /\ Cardinality(DoneOf(c)) <= 1
       /\ DoneOf(c) # {} => \A d \in Siblings(c) : status[d] \in {"completed", "removed"}
       /\ (\A d \in Siblings(c) : status[d] = "completed") => DoneOf(c) # {}

FailureReportsOf(c) ==
    {a \in DOMAIN box : box[a].event \in FailureEvents /\ box[a].subject = c}

\* A contained fault is reported to the owner exactly once, whether it happened
\* in a step, on overflow or during initialisation, and the report is never
\* dropped as unhandled: the owner handles it, faults, or is frozen or ended.
ContainedFaultsReported ==
    \A c \in NonRoot :
       /\ status[c] = "faulted" => Cardinality(FailureReportsOf(c)) = 1
       /\ \A a \in FailureReportsOf(c) :
             box[a].target = Owner[c] /\ box[a].place # "unhandled"

\* The reason the host is given for an unprocessed delivery is true, and final:
\* aggregate_completed only once the root has, runtime_completed only for a
\* component that did, runtime_cancelled only for a runtime that is gone.
DispositionJustified ==
    \A a \in DOMAIN box :
       LET e == box[a]
       IN /\ e.place = "aggregate_completed" => status[Root] = "completed"
          /\ e.place = "runtime_completed" =>
                Role[e.target] = "component" /\ status[e.target] \in {"completed", "removed"}
          /\ e.place = "runtime_cancelled" => status[e.target] = "removed"

\* Queued work survives serialization and restoration (README.md:175).
QueuedWorkSurvivesRestoration == Restorable

Fate(place) ==
    IF place \in Waiting THEN "queued"
    ELSE IF place \in {"handled", "unhandled", "faulted"} THEN "processed" ELSE "disposed"

Ledger == INSTANCE DeliveryLedger WITH ledger <- [a \in DOMAIN box |-> Fate(box[a].place)]

\* The mailboxes implement the delivery ledger: nothing accepted is forgotten,
\* processed twice or revived, and a step processes at most one delivery.
ImplementsLedger == Ledger!Spec
=============================================================================
