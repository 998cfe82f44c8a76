----------------------------- MODULE Checkpoint -----------------------------
(***************************************************************************)
(* Execution checkpoints: the document checkpoint_v1.py keeps around one   *)
(* aggregate, what restoring it checks, and the operations as functions    *)
(* from a checkpoint to the candidate that would replace it.               *)
(*                                                                         *)
(* A receipt sequence identifies a receipt, so "receipts" maps sequences   *)
(* to receipts.  The aggregate is what the checkpoint sees of it: the      *)
(* status of each runtime and the pending entries with their acceptance    *)
(* and queue sequences.  A body stands for everything an envelope says     *)
(* besides its event id, and so for its digest.                            *)
(***************************************************************************)
EXTENDS Integers, Sequences, FiniteSets, SequencesExt

CONSTANTS
    Runtimes,
    Root,
    Events,         \* event ids callers choose
    Bodies,
    Target,         \* body |-> runtime it is addressed to
    Internal,       \* bodies whose source is a runtime or the system
    Source,         \* internal body |-> runtime that sends it, or System
    System,
    Failure,        \* the body that tells the root of a contained fault
    Operations,     \* operation ids of maintenance
    Outcomes,       \* terminal outcomes of an effect
    MaxBatch,       \* bound: deliveries per admission
    MaxSend         \* bound: internal emissions per step

ASSUME CheckpointAssumption ==
    /\ Root \in Runtimes
    /\ Target \in [Bodies -> Runtimes]
    /\ Failure \in Internal /\ Internal \subseteq Bodies
    /\ System \notin Runtimes
    /\ Source \in [Internal -> Runtimes \cup {System}]
    /\ Target[Failure] = Root /\ Source[Failure] = System
    /\ MaxBatch \in Nat /\ MaxSend \in Nat

None == -1          \* no cutoff
Nobody == <<>>      \* the id of the creation receipt

Delivery == [id : Events, body : Bodies]

\* An emission gets an id derived from the step that made it.
Ids == Events \cup (Nat \X Nat)

\* A runtime that was removed is no longer in the aggregate's document.
Status == {"running", "faulted", "completed", "removed"}

Entry == [body : Bodies, acc : Nat, queue : Nat, place : {"ready", "deferred"}]

\* A reference to an internal emission: where it waits, or its terminal receipt.
Reference == [id : Nat \X Nat, acc : Nat, kind : {"internal_mailbox", "internal_terminal"}, n : Nat]

Kinds == {"creation", "acceptance", "event_terminal", "maintenance_migration"}

Merge(f, g) == [x \in DOMAIN f \cup DOMAIN g |-> IF x \in DOMAIN f THEN f[x] ELSE g[x]]

Receipt(kind, id, entry, rev) ==
    [kind |-> kind, id |-> id, body |-> entry.body, acc |-> entry.acc,
     queue |-> entry.queue, rev |-> rev, refs |-> {}, effects |-> {}]

\* The empty record an insert fills in.
Blank ==
    [root |-> "none", operation |-> Nobody,
     rt |-> [r \in Runtimes |-> "running"],
     revision |-> -1, next |-> 0, receipts |-> <<>>,
     mode |-> "permanent", cutoff |-> None, tombstones |-> <<>>,
     mail |-> <<>>, nextAcc |-> 0, nextQueue |-> 0,
     pendingFx |-> <<>>, terminalFx |-> <<>>, tombstoneFx |-> <<>>, nextFx |-> 0]

Mutated(c) == [c EXCEPT !.revision = @ + 1]

OfKind(c, kind) == {s \in DOMAIN c.receipts : c.receipts[s].kind = kind}
AcceptanceOf(c, e) == {s \in OfKind(c, "acceptance") : c.receipts[s].id = e}
TerminalOf(c, e) == {s \in OfKind(c, "event_terminal") : c.receipts[s].id = e}

\* The receipts that refer to emission e, each with its reference.
ProducerOf(c, e, kind) ==
    UNION {{<<s, ref>> : ref \in {x \in c.receipts[s].refs : x.id = e /\ x.kind = kind}}
           : s \in DOMAIN c.receipts}

\* The effects these receipts refer to.
EffectsOf(receipts) == UNION {receipts[s].effects : s \in DOMAIN receipts}

-----------------------------------------------------------------------------
(* _validate_checkpoint_semantics.                                         *)

\* Receipt 0 and every receipt after the cutoff, without a gap.
SequencesValid(c) ==
    /\ c.cutoff < c.next
    /\ DOMAIN c.receipts =
         {0} \cup ((IF c.cutoff = None THEN 1 ELSE c.cutoff + 1) .. c.next - 1)
    /\ c.receipts[0].kind = "creation"

\* No two references to one emission.
ReferencesValid(c) ==
    \A s, u \in DOMAIN c.receipts : \A x \in c.receipts[s].refs, y \in c.receipts[u].refs :
       x.id = y.id /\ x.kind = y.kind => s = u /\ x = y

\* A pending entry has the acceptance receipt of a host delivery, or else a
\* reference from the receipt of the step that emitted it.
PendingValid(c) ==
    \A e \in DOMAIN c.mail :
       LET entry == c.mail[e]
           accepted == AcceptanceOf(c, e)
           produced == ProducerOf(c, e, "internal_mailbox")
       IN /\ Cardinality(accepted) + Cardinality(produced) = 1
          /\ accepted # {} <=> entry.body \notin Internal
          /\ \A s \in accepted :
                c.receipts[s].body = entry.body /\ c.receipts[s].acc = entry.acc
          /\ \A p \in produced : p[2].acc = entry.acc /\ p[2].n = entry.queue
          /\ TerminalOf(c, e) = {}

\* A terminal receipt follows its acceptance or its producer, which only
\* pruning may have removed.
TerminalsValid(c) ==
    \A s \in OfKind(c, "event_terminal") :
       LET receipt == c.receipts[s]
           accepted == AcceptanceOf(c, receipt.id)
           produced == ProducerOf(c, receipt.id, "internal_terminal")
       IN /\ TerminalOf(c, receipt.id) = {s}
          /\ Cardinality(accepted) + Cardinality(produced) <= 1
          /\ accepted \cup produced = {} => c.cutoff # None
          /\ \A a \in accepted :
                /\ c.receipts[a].body = receipt.body /\ c.receipts[a].acc = receipt.acc
                /\ a < s /\ c.receipts[a].rev <= receipt.rev
          /\ \A p \in produced :
                /\ p[2].n = s /\ p[2].acc = receipt.acc
                /\ p[1] < s /\ c.receipts[p[1]].rev <= receipt.rev

AcceptancesValid(c) ==
    \A s \in OfKind(c, "acceptance") :
       LET e == c.receipts[s].id
       IN AcceptanceOf(c, e) = {s} /\ (e \in DOMAIN c.mail \/ TerminalOf(c, e) # {})

TombstonesValid(c) ==
    /\ \A e \in DOMAIN c.tombstones :
          /\ e \notin DOMAIN c.mail
          /\ AcceptanceOf(c, e) \cup TerminalOf(c, e) = {}
          /\ c.tombstones[e].seq < c.next
          /\ c.tombstones[e].seq \notin OfKind(c, "event_terminal")
    /\ \A s \in DOMAIN c.receipts : \A ref \in c.receipts[s].refs :
          ref.kind = "internal_terminal" =>
             \/ TerminalOf(c, ref.id) = {ref.n}
             \/ /\ TerminalOf(c, ref.id) = {}
                /\ ref.id \in DOMAIN c.tombstones /\ c.tombstones[ref.id].seq = ref.n

\* Revisions follow receipt sequences; a migration has a revision of its own.
ChronologyValid(c) ==
    \A s \in DOMAIN c.receipts :
       /\ c.receipts[s].rev <= c.revision
       /\ \A u \in DOMAIN c.receipts :
             u < s => IF c.receipts[s].kind = "maintenance_migration"
                      THEN c.receipts[u].rev < c.receipts[s].rev
                      ELSE c.receipts[u].rev <= c.receipts[s].rev

\* No acceptance sequence has two owners, no queue sequence two entries.
AllocationsValid(c) ==
    LET terminal == OfKind(c, "event_terminal")
        owners == {<<c.mail[e].acc, e>> : e \in DOMAIN c.mail}
                  \cup {<<c.receipts[s].acc, c.receipts[s].id>> :
                          s \in terminal \cup OfKind(c, "acceptance")}
                  \cup {<<c.tombstones[e].acc, e>> : e \in DOMAIN c.tombstones}
        queues == {<<c.mail[e].queue, e>> : e \in DOMAIN c.mail}
                  \cup {<<c.receipts[s].queue, c.receipts[s].id>> : s \in terminal}
    IN /\ \A x, y \in owners : x[1] = y[1] => x[2] = y[2]
       /\ \A x, y \in queues : x[1] = y[1] => x[2] = y[2]
       /\ c.root = "retained" =>
             (\A x \in owners : x[1] < c.nextAcc) /\ (\A x \in queues : x[1] < c.nextQueue)

\* Every effect a receipt refers to is pending, terminal or compacted, and
\* there is no other.
EffectsValid(c) ==
    LET pending == DOMAIN c.pendingFx
        terminal == DOMAIN c.terminalFx
        compacted == DOMAIN c.tombstoneFx
    IN /\ pending \cap terminal = {} /\ pending \cap compacted = {}
       /\ terminal \cap compacted = {}
       /\ EffectsOf(c.receipts) = pending \cup terminal \cup compacted
       /\ \A f, g \in terminal \cup compacted :
             LET settled == Merge(c.terminalFx, c.tombstoneFx)
             IN settled[f].seq < c.nextFx /\ (settled[f].seq = settled[g].seq => f = g)

SemanticsValid(c) ==
    /\ SequencesValid(c)
    /\ ReferencesValid(c)
    /\ PendingValid(c)
    /\ TerminalsValid(c)
    /\ AcceptancesValid(c)
    /\ TombstonesValid(c)
    /\ ChronologyValid(c)
    /\ AllocationsValid(c)
    /\ EffectsValid(c)

\* restore_aggregate_v1: the runtime that sent a queued internal event is still
\* there.  Of the mailboxes it asks what AllocationsValid asks as well.
SourcesPresent(c) ==
    \A e \in DOMAIN c.mail :
       LET body == c.mail[e].body
       IN body \in Internal /\ Source[body] \in Runtimes => c.rt[Source[body]] # "removed"

\* restore_execution_checkpoint_v1, of the aggregate and then of the whole.
Valid(c) == SourcesPresent(c) /\ SemanticsValid(c)

-----------------------------------------------------------------------------
(* Closing entries with terminal receipts.                                 *)

\* A receipt's references stop following queue sequences.
SyncTerminalOnly(ref, mail, gone) ==
    IF ref.kind = "internal_mailbox" /\ ref.id \in DOMAIN gone
    THEN [ref EXCEPT !.kind = "internal_terminal", !.n = gone[ref.id]] ELSE ref

\* _terminalize_mailbox_reference and _synchronize_mailbox_references.
Sync(ref, mail, gone) ==
    CASE ref.kind = "internal_mailbox" /\ ref.id \in DOMAIN gone ->
            [ref EXCEPT !.kind = "internal_terminal", !.n = gone[ref.id]]
      [] ref.kind = "internal_mailbox" /\ ref.id \in DOMAIN mail ->
            [ref EXCEPT !.n = mail[ref.id].queue]
      [] OTHER -> ref

Synchronized(receipts, mail, gone) ==
    [s \in DOMAIN receipts |->
       [receipts[s] EXCEPT !.refs = {Sync(ref, mail, gone) : ref \in @}]]

\* Terminal receipt sequences, from "first", for the entries of mail in "lost".
Numbered(mail, lost, first) ==
    [e \in lost |-> first + Cardinality({d \in lost : mail[d].acc < mail[e].acc})]

TerminalReceipts(mail, gone, rev) ==
    [s \in {gone[e] : e \in DOMAIN gone} |->
       LET e == CHOOSE x \in DOMAIN gone : gone[x] = s
       IN Receipt("event_terminal", e, mail[e], rev)]

\* c with mailboxes "mail" less the entries of "gone", which get their receipts;
\* "own" holds the operation's own receipt, if it has one.
Closed(c, mail, gone, own) ==
    LET kept == Restrict(mail, DOMAIN mail \ DOMAIN gone)
        added == Merge(own, TerminalReceipts(mail, gone, c.revision))
    IN [c EXCEPT !.mail = kept,
                 !.receipts = Synchronized(Merge(added, @), kept, gone),
                 !.next = @ + Cardinality(DOMAIN added)]

Renumbered(mail, S, first) ==
    [e \in S |->
       [mail[e] EXCEPT !.place = "ready",
                       !.queue = first + Cardinality({d \in S : mail[d].queue < mail[e].queue})]]

-----------------------------------------------------------------------------
(* create_checkpoint_v1 and step_checkpoint_v1.                            *)

Ended(rt, r) == rt[Root] = "completed" \/ rt[r] \in {"completed", "removed"}

\* A checkpoint with its entries closed, as the aggregate left by the engine.
Stepped(closed, rt, sent, recalled, effects) ==
    [closed EXCEPT !.root = "retained",
                   !.rt = rt,
                   !.nextAcc = @ + sent,
                   !.nextQueue = @ + sent + recalled,
                   !.pendingFx = Merge(effects, @)]

\* What an initialisation or a dispatch leaves: entry "head" done, runtimes as
\* in rt, internal emissions ems, deferred entries S recalled, at most one
\* external emission.  The first receipt is the head's or that of the creation;
\* entries of ended runtimes and emissions to them are disposed of after it.
Dispatched(c, head, rt, ems, S, fx) ==
    LET first == c.next
        emitted == [id \in {first} \X (1 .. Len(ems)) |->
                      [body |-> ems[id[2]], acc |-> c.nextAcc + id[2] - 1,
                       queue |-> c.nextQueue + id[2] - 1, place |-> "ready"]]
        mail == Merge(emitted, Merge(Renumbered(c.mail, S, c.nextQueue + Len(ems)), c.mail))
        lost == {e \in DOMAIN mail \ head : Ended(rt, Target[mail[e].body])}
        gone == Merge([e \in head |-> first], Numbered(mail, lost, first + 1))
        base == IF head = {}
                THEN Receipt("creation", Nobody, [body |-> Failure, acc |-> 0, queue |-> 0],
                             c.revision + 1)
                ELSE LET h == CHOOSE e \in head : TRUE
                     IN Receipt("event_terminal", h, c.mail[h], c.revision + 1)
        own == [base EXCEPT !.refs = {[id |-> e, acc |-> mail[e].acc,
                                       kind |-> "internal_mailbox", n |-> mail[e].queue]
                                      : e \in DOMAIN emitted},
                            !.effects = IF fx THEN {first} ELSE {}]
    IN Stepped(Closed(Mutated(c), mail, gone, [s \in {first} |-> own]), rt,
               Len(ems), Cardinality(S), [f \in own.effects |-> "not_attempted"])

\* What a step may emit whose actions run in these runtimes; the system reports.
Emissions(senders) ==
    {ems \in BoundedSeq(Internal, MaxSend) :
       \A i \in DOMAIN ems : Source[ems[i]] \in senders \cup {System}}

\* The root alone is left.
RootAlone(st) == [r \in Runtimes |-> IF r = Root THEN st ELSE "removed"]

\* Whoever is not undone by a fault may send; each contained fault is reported.
InitialEmissions(rt) ==
    {ems \in Emissions({r \in Runtimes : rt[r] # "faulted"}) :
       Cardinality({r \in Runtimes : rt[r] = "faulted"})
       <= Cardinality({i \in DOMAIN ems : ems[i] = Failure})}

InitialisedTo(rt) ==
    {Dispatched(Blank, {}, rt, ems, {}, fx) : ems \in InitialEmissions(rt), fx \in BOOLEAN}

\* Initialisation leaves the root running, with contained runtimes that run, have
\* ended or faulted, or it completes the root; a fault of the root undoes the rest.
Initialised ==
    (UNION {InitialisedTo(rt) : rt \in {st \in [Runtimes -> Status] : st[Root] = "running"}
                                       \cup {RootAlone("completed")}})
    \cup {Dispatched(Blank, {}, RootAlone("faulted"), <<>>, {}, FALSE)}

\* create_aggregate_v1 restores what it returns.
Creations == {c \in Initialised : SourcesPresent(c)}

Waiting(c, r, place) ==
    {e \in DOMAIN c.mail : Target[c.mail[e].body] = r /\ c.mail[e].place = place}

\* Runtime r has a head and may be stepped.
Runnable(c, r) ==
    /\ c.root = "retained"
    /\ c.rt[Root] = "running" /\ c.rt[r] = "running"
    /\ Waiting(c, r, "ready") # {}

ReadyHead(c, r) ==
    CHOOSE e \in Waiting(c, r, "ready") :
       \A d \in Waiting(c, r, "ready") : c.mail[e].queue <= c.mail[d].queue

\* A deferral has no receipt, but references must follow the new sequence.
Deferred(c, h) ==
    LET mail == [c.mail EXCEPT ![h].place = "deferred", ![h].queue = c.nextQueue]
    IN [Closed(Mutated(c), mail, <<>>, <<>>) EXCEPT !.nextQueue = @ + 1]

\* The statuses a handler of r may leave.  The root removes what it owns, and
\* everything when it completes; a component completes, a spawned runtime goes.
Endings(c, r) ==
    IF r = Root
    THEN {RootAlone("completed")}
         \cup {[x \in Runtimes |-> IF x \in gone THEN "removed" ELSE c.rt[x]]
               : gone \in SUBSET (Runtimes \ {Root})}
    ELSE {[c.rt EXCEPT ![r] = own] : own \in {"running", "completed", "removed"}}

\* Actions run in r, and exit actions in what r removes.
Senders(c, r, rt) == {r} \cup {x \in Runtimes : c.rt[x] = "running" /\ rt[x] = "removed"}

\* Deferred entries of r are recalled when it goes on.
HandledTo(c, r, h, rt) ==
    {Dispatched(c, {h}, rt, ems, S, fx) :
       ems \in Emissions(Senders(c, r, rt)), fx \in BOOLEAN,
       S \in IF Ended(rt, r) THEN {{}} ELSE SUBSET Waiting(c, r, "deferred")}

Handled(c, r, h) == UNION {HandledTo(c, r, h, rt) : rt \in Endings(c, r)}

Faulted(c, r, h) ==
    Dispatched(c, {h}, [c.rt EXCEPT ![r] = "faulted"],
               IF r = Root THEN <<>> ELSE <<Failure>>, {}, FALSE)

Unhandled(c, h) == Dispatched(c, {h}, c.rt, <<>>, {}, FALSE)

Steps(c, r) ==
    LET h == ReadyHead(c, r)
    IN {Deferred(c, h), Unhandled(c, h), Faulted(c, r, h)} \cup Handled(c, r, h)

\* A message waits whose sender the step from c to d removed.
OutlivesSender(c, d) ==
    \E e \in DOMAIN d.mail :
       LET body == d.mail[e].body
       IN /\ body \in Internal /\ Source[body] \in Runtimes
          /\ c.rt[Source[body]] # "removed" /\ d.rt[Source[body]] = "removed"

\* step_aggregate_v1 does not restore what it returns: the one thing that can keep
\* d from being restored.
StepRestorable(c, d) == SemanticsValid(d) /\ (SourcesPresent(d) \/ OutlivesSender(c, d))

-----------------------------------------------------------------------------
(* admit_checkpoint_v1.                                                    *)

\* What a retry of id e is compared with, if anything is left of e.
Known(c, e) ==
    (IF e \in DOMAIN c.mail THEN {c.mail[e].body} ELSE {})
    \cup {c.receipts[s].body : s \in TerminalOf(c, e)}
    \cup (IF e \in DOMAIN c.tombstones THEN {c.tombstones[e].body} ELSE {})

Batches ==
    {b \in UNION {[1 .. n -> Delivery] : n \in 1 .. MaxBatch} :
       \A i, j \in DOMAIN b : i # j => b[i].id # b[j].id}

\* The places in the batch of what is new.
Fresh(c, batch) == {i \in DOMAIN batch : Known(c, batch[i].id) = {}}

\* No identity conflict, something new, and all of it deliverable.
Acceptable(c, batch) ==
    /\ \A i \in DOMAIN batch : Known(c, batch[i].id) \subseteq {batch[i].body}
    /\ Fresh(c, batch) # {}
    /\ c.root = "retained" /\ c.rt[Root] = "running"
    /\ \A i \in Fresh(c, batch) : c.rt[Target[batch[i].body]] = "running"

\* What is new gets its sequences in the order of the batch.
Admitted(c, batch) ==
    LET fresh == Fresh(c, batch)
        rank(i) == Cardinality({j \in 1 .. i - 1 : j \in fresh})
        entry(i) == [body |-> batch[i].body, acc |-> c.nextAcc + rank(i),
                     queue |-> c.nextQueue + rank(i), place |-> "ready"]
        receipt(i) == Receipt("acceptance", batch[i].id, [entry(i) EXCEPT !.queue = 0],
                              c.revision + 1)
        entryOf(e) == {entry(i) : i \in {j \in fresh : batch[j].id = e}}
        receiptAt(s) == {receipt(i) : i \in {j \in fresh : c.next + rank(j) = s}}
    IN [Mutated(c) EXCEPT
          !.mail = Merge([e \in {batch[i].id : i \in fresh} |->
                            CHOOSE x \in entryOf(e) : TRUE], @),
          !.receipts = Merge([s \in {c.next + rank(i) : i \in fresh} |->
                                CHOOSE x \in receiptAt(s) : TRUE], @),
          !.next = @ + Cardinality(fresh),
          !.nextAcc = @ + Cardinality(fresh),
          !.nextQueue = @ + Cardinality(fresh)]

-----------------------------------------------------------------------------
(* process_delivery_checkpoint_v1 with an empty migration route.           *)

\* Admission and step under one revision: the step takes the head of the
\* target's mailbox.
ProcessedDelivery(c, d) ==
    IF ~Acceptable(c, <<d>>) \/ ~Valid(Admitted(c, <<d>>)) THEN {}
    ELSE {[stepped EXCEPT
             !.revision = c.revision + 1,
             !.receipts = [s \in DOMAIN @ |-> IF s >= c.next
                                              THEN [@[s] EXCEPT !.rev = c.revision + 1] ELSE @[s]]]
          : stepped \in Steps(Admitted(c, <<d>>), Target[d.body])}

-----------------------------------------------------------------------------
(* prune_checkpoint_v1.                                                    *)

\* Nothing removed is still needed: no acceptance whose event is pending or
\* whose terminal receipt stays, no reference to a pending entry or effect.
DependencyClosed(c, removed) ==
    /\ \A s \in removed \cap OfKind(c, "acceptance") :
          /\ c.receipts[s].id \notin DOMAIN c.mail
          /\ TerminalOf(c, c.receipts[s].id) \subseteq removed
    /\ \A s \in removed : \A ref \in c.receipts[s].refs :
          ref.kind = "internal_mailbox" => ref.id \notin DOMAIN c.mail
    /\ \A s \in removed : c.receipts[s].effects \cap DOMAIN c.pendingFx = {}

Through(c, cutoff) == {s \in DOMAIN c.receipts : s # 0 /\ s <= cutoff}

Prunable(c, cutoff) ==
    /\ c.root # "none"
    /\ cutoff > c.cutoff /\ cutoff < c.next
    /\ DependencyClosed(c, Through(c, cutoff))

\* What is kept of the terminal receipts removed.
Compact(c, removed) ==
    LET settled == removed \cap OfKind(c, "event_terminal")
    IN [e \in {c.receipts[s].id : s \in settled} |->
          LET s == CHOOSE x \in settled : c.receipts[x].id = e
          IN [body |-> c.receipts[s].body, acc |-> c.receipts[s].acc, seq |-> s]]

\* Pruning that leaves the retention mode as it was.
PrunedUnmarked(c, cutoff) ==
    LET removed == Through(c, cutoff)
    IN [Mutated(c) EXCEPT !.cutoff = cutoff,
                          !.receipts = Restrict(@, DOMAIN @ \ removed),
                          !.tombstones = Merge(Compact(c, removed), @)]

\* Pruning that keeps nothing of what it removes.
PrunedForgetting(c, cutoff) ==
    [Mutated(c) EXCEPT !.mode = "bounded",
                       !.cutoff = cutoff,
                       !.receipts = Restrict(@, DOMAIN @ \ Through(c, cutoff))]

Pruned(c, cutoff) ==
    LET removed == Through(c, cutoff)
    IN [Mutated(c) EXCEPT !.mode = "bounded",
                          !.cutoff = cutoff,
                          !.receipts = Restrict(@, DOMAIN @ \ removed),
                          !.tombstones = Merge(Compact(c, removed), @)]
=============================================================================
