--------------------------- MODULE ExecutionHost ---------------------------
(***************************************************************************)
(* The execution host of host.py over one stored checkpoint.  Every        *)
(* operation runs in a store transaction that excludes the others of its   *)
(* root (a lock, BEGIN IMMEDIATE, SELECT ... FOR UPDATE): it loads and     *)
(* restores the checkpoint, answers a retry from evidence or checks the    *)
(* revision the caller expects, computes a candidate, restores that, and   *)
(* replaces the record if its revision is still the one loaded.  So each   *)
(* operation is one step from "cp" to its candidate.                       *)
(*                                                                         *)
(* A retry, a stale revision, a rejection and a crash before the commit    *)
(* leave the record as it was: stuttering steps.  A crash after the commit *)
(* loses only the answer, and the caller's retry, at any later time, is    *)
(* one more operation with the same arguments.                             *)
(***************************************************************************)
EXTENDS Checkpoint

CONSTANTS
    KeepsReceipts,  \* the store claims PERMANENT_RECEIPT_RETENTION
    KeepsOutcomes,  \* the store claims PERMANENT_OUTBOX_TERMINAL_RETENTION
    Cutoffs,        \* cutoffs update_replay_retention is called with
    MaxRevision,    \* bound: commits
    MaxAcceptance,  \* bound: acceptance sequences
    MaxEffects      \* bound: effects emitted

ASSUME HostAssumption ==
    /\ KeepsReceipts \in BOOLEAN
    /\ KeepsOutcomes \in BOOLEAN
    /\ Cutoffs \subseteq Nat \cup {None}
    /\ MaxRevision \in Nat /\ MaxAcceptance \in Nat /\ MaxEffects \in Nat

VARIABLE cp     \* the checkpoint stored for the root

Init == cp = Blank

Bounded(candidate) ==
    /\ candidate.revision <= MaxRevision
    /\ candidate.nextAcc <= MaxAcceptance
    /\ Cardinality(EffectsOf(candidate.receipts)) <= MaxEffects

\* A replacement that trusts its caller with what the store claims to keep.
StageUnclaimed(candidate) == Bounded(candidate) /\ Valid(candidate) /\ cp' = candidate

\* _stage_insert and _stage_replace: the candidate must itself restore.
Stage(candidate) ==
    /\ Bounded(candidate)
    /\ Valid(candidate)
    /\ KeepsReceipts => candidate.mode = "permanent"
    /\ KeepsOutcomes => candidate.tombstoneFx = <<>>
    /\ cp' = candidate

Present == cp.root # "none"

-----------------------------------------------------------------------------
(* Creation and work.                                                      *)

Create == cp.root = "none" /\ \E candidate \in Creations : Stage(candidate)

Admit(batch) == Acceptable(cp, batch) /\ Stage(Admitted(cp, batch))

\* process_ready_v1: the caller names the head it has seen.
ProcessReady(r) == Runnable(cp, r) /\ \E candidate \in Steps(cp, r) : Stage(candidate)

\* process_delivery_v1 looks for the terminal receipt of the delivery it was
\* given and raises when the step took another entry, or deferred this one.
ProcessDelivery(d) ==
    \E candidate \in ProcessedDelivery(cp, d) :
       /\ TerminalOf(candidate, d.id) # {}
       /\ Stage(candidate)

-----------------------------------------------------------------------------
(* Maintenance migration and the end of a root.                            *)

\* Over the hops of the route the new definitions recall the entries in S and
\* dispose of those in D by rule.  Among themselves these get their sequences in
\* the order of the old ones; the code goes runtime by runtime.
Maintained(c, op, D, S) ==
    LET mail == Merge(Renumbered(c.mail, S, c.nextQueue), c.mail)
        own == Receipt("maintenance_migration", op,
                       [body |-> Failure, acc |-> 0, queue |-> 0], c.revision + 1)
    IN [Closed(Mutated(c), mail, Numbered(mail, D, c.next + 1), [s \in {c.next} |-> own])
          EXCEPT !.nextQueue = @ + Cardinality(S)]

\* An operation id whose receipt is still there is not committed again.
Maintenances(c) ==
    {Maintained(c, op, D, S) :
       op \in {o \in Operations : \A s \in OfKind(c, "maintenance_migration") :
                                     c.receipts[s].id # o},
       D \in SUBSET DOMAIN c.mail,
       S \in SUBSET {e \in DOMAIN c.mail : /\ c.mail[e].place = "deferred"
                                           /\ c.rt[Root] = "running"
                                           /\ c.rt[Target[c.mail[e].body]] = "running"}}

MaintenanceMigration ==
    cp.root = "retained" /\ \E candidate \in Maintenances(cp) : Stage(candidate)

MayTombstoneWithEffects(c) ==
    c.root = "retained" /\ c.rt[Root] \in {"completed", "faulted"}

\* Only a root that has ended and has no effect pending may be tombstoned.
MayTombstone(c) ==
    /\ c.root = "retained"
    /\ c.rt[Root] \in {"completed", "faulted"}
    /\ c.pendingFx = <<>>

Tombstoned(c, op) ==
    [Closed(Mutated(c), c.mail, Numbered(c.mail, DOMAIN c.mail, c.next), <<>>)
       EXCEPT !.root = "tombstone", !.operation = op]

TombstoneRoot(op) == MayTombstone(cp) /\ Stage(Tombstoned(cp, op))

-----------------------------------------------------------------------------
(* The outbox.                                                             *)

Attempted(c, f) == [Mutated(c) EXCEPT !.pendingFx[f] = "attempted"]

UpdatePendingOutbox(f) ==
    /\ f \in DOMAIN cp.pendingFx /\ cp.pendingFx[f] # "attempted"
    /\ Stage(Attempted(cp, f))

Terminalized(c, f, outcome) ==
    [Mutated(c) EXCEPT !.pendingFx = Restrict(@, DOMAIN @ \ {f}),
                       !.terminalFx = Merge([g \in {f} |-> [seq |-> c.nextFx, outcome |-> outcome]], @),
                       !.nextFx = @ + 1]

\* An outcome replaced by a later report.
TerminalizeAgain(f, outcome) ==
    f \in DOMAIN cp.pendingFx \cup DOMAIN cp.terminalFx /\ Stage(Terminalized(cp, f, outcome))

TerminalizeOutbox(f, outcome) ==
    f \in DOMAIN cp.pendingFx /\ Stage(Terminalized(cp, f, outcome))

Compacted(c, f) ==
    [Mutated(c) EXCEPT !.terminalFx = Restrict(@, DOMAIN @ \ {f}),
                       !.tombstoneFx = Merge([g \in {f} |-> c.terminalFx[f]], @)]

CompactOutbox(f) == f \in DOMAIN cp.terminalFx /\ Stage(Compacted(cp, f))

-----------------------------------------------------------------------------
(* Retention.                                                              *)

Prune(cutoff) == Prunable(cp, cutoff) /\ Stage(Pruned(cp, cutoff))

\* update_replay_retention to the bounded mode: receipts up to the cutoff go,
\* with the settled effects nothing refers to any more, and no tombstone is left.
Cut(c, cutoff) ==
    LET receipts == Restrict(c.receipts, DOMAIN c.receipts \ Through(c, cutoff))
        settled(fx) == IF cutoff = None THEN fx
                       ELSE Restrict(fx, DOMAIN fx \cap EffectsOf(receipts))
    IN [Mutated(c) EXCEPT !.mode = "bounded",
                          !.cutoff = cutoff,
                          !.receipts = receipts,
                          !.terminalFx = settled(@),
                          !.tombstoneFx = settled(@)]

UpdateReplayRetention(cutoff) ==
    /\ Present
    /\ <<cp.mode, cp.cutoff>> # <<"bounded", cutoff>>
    /\ cutoff >= cp.cutoff /\ cutoff < cp.next
    /\ Stage(Cut(cp, cutoff))

-----------------------------------------------------------------------------

Next ==
    \/ Create
    \/ \E batch \in Batches : Admit(batch)
    \/ \E r \in Runtimes : ProcessReady(r)
    \/ \E d \in Delivery : ProcessDelivery(d)
    \/ MaintenanceMigration
    \/ \E op \in Operations : TombstoneRoot(op)
    \/ \E f \in EffectsOf(cp.receipts) :
          \/ UpdatePendingOutbox(f)
          \/ \E outcome \in Outcomes : TerminalizeOutbox(f, outcome)
          \/ CompactOutbox(f)
    \/ \E cutoff \in 0 .. cp.next : Prune(cutoff)
    \/ \E cutoff \in Cutoffs : UpdateReplayRetention(cutoff)

Spec == Init /\ [][Next]_cp
-----------------------------------------------------------------------------
(* Properties.                                                             *)

\* The shape of the stored record.
TypeOK ==
    /\ cp.root \in {"none", "retained", "tombstone"}
    /\ cp.rt \in [Runtimes -> Status]
    /\ cp.mode \in {"permanent", "bounded"} /\ (cp.mode = "permanent" => cp.cutoff = None)
    /\ cp.revision \in Nat \cup {-1} /\ cp.cutoff \in Nat \cup {None}
    /\ \A n \in {cp.next, cp.nextAcc, cp.nextQueue, cp.nextFx} : n \in Nat
    /\ \A e \in DOMAIN cp.mail : e \in Ids /\ cp.mail[e] \in Entry
    /\ \A s \in DOMAIN cp.receipts :
          s \in Nat /\ cp.receipts[s].kind \in Kinds /\ cp.receipts[s].refs \subseteq Reference

HostDeliveries(c) == {b \in Batches : Acceptable(c, b)
                                      /\ \A i \in DOMAIN b : b[i].body \notin Internal}

\* What the host computes for its callers, it can also store: each operation edits
\* receipts, references, mailboxes and counters that must agree, and restoring the
\* candidate refuses no creation, admission of host deliveries, migration,
\* tombstone or settling of an effect, and a step only when it removed a runtime
\* whose message still waits.
CandidatesRestorable ==
    IF ~Present THEN \A candidate \in Creations : Valid(candidate)
    ELSE /\ \A b \in HostDeliveries(cp) : Valid(Admitted(cp, b))
         /\ \A r \in Runtimes : Runnable(cp, r) =>
               \A candidate \in Steps(cp, r) : StepRestorable(cp, candidate)
         /\ cp.root = "retained" => \A candidate \in Maintenances(cp) : Valid(candidate)
         /\ MayTombstone(cp) => \A op \in Operations : Valid(Tombstoned(cp, op))
         /\ \A f \in DOMAIN cp.pendingFx, o \in Outcomes : Valid(Terminalized(cp, f, o))
         /\ \A f \in DOMAIN cp.terminalFx : Valid(Compacted(cp, f))

\* A tombstoned root owes nothing: no entry waits, every acceptance kept has its
\* terminal receipt, and no effect is still to be delivered.
TombstonedOwesNothing ==
    cp.root = "tombstone" =>
       /\ cp.mail = <<>>
       /\ cp.pendingFx = <<>>
       /\ \A s \in OfKind(cp, "acceptance") : TerminalOf(cp, cp.receipts[s].id) # {}

\* A pending effect is settled before it leaves the outbox, and its outcome
\* never changes while anything is kept of it.
EffectsSettleOnce ==
    [][\A f \in DOMAIN cp.pendingFx \cup DOMAIN cp.terminalFx \cup DOMAIN cp.tombstoneFx :
          IF f \in DOMAIN cp.pendingFx
          THEN f \in DOMAIN cp'.pendingFx \cup DOMAIN cp'.terminalFx
          ELSE /\ f \notin DOMAIN cp'.pendingFx
               /\ f \in DOMAIN cp'.terminalFx \cup DOMAIN cp'.tombstoneFx =>
                     Merge(cp.terminalFx, cp.tombstoneFx)[f]
                     = Merge(cp'.terminalFx, cp'.tombstoneFx)[f]]_cp

\* A store that claims permanent receipt retention loses no receipt, whichever
\* operation is called, and what a receipt says never changes but for where its
\* emissions are.
EvidenceKept ==
    [][KeepsReceipts =>
         /\ DOMAIN cp.receipts \subseteq DOMAIN cp'.receipts
         /\ \A s \in DOMAIN cp.receipts :
               [cp.receipts[s] EXCEPT !.refs = {}] = [cp'.receipts[s] EXCEPT !.refs = {}]]_cp

\* A store has only the retention capabilities it enforces (README.md:246): one
\* that claims permanent outbox retention loses no terminal outcome.
OutcomesKept == [][KeepsOutcomes => DOMAIN cp.terminalFx \subseteq DOMAIN cp'.terminalFx]_cp

Fate(e) ==
    CASE e \in DOMAIN cp.mail -> "queued"
      [] TerminalOf(cp, e) # {} \/ e \in DOMAIN cp.tombstones -> "done"
      [] OTHER -> "new"

Inbox == INSTANCE InboxLedger WITH fate <- [e \in Events |-> Fate(e)],
                                   said <- [e \in Events |-> Known(cp, e)]

\* Retries, pruning, migration and tombstones included, an id is accepted once
\* and done once, and a retry is always compared with the body it was accepted
\* with: the host implements the inbox ledger.
ImplementsInbox == Inbox!Spec

\* Migrate, admit, and process one delivery (checkpoint_v1.py:1069): what
\* process_delivery commits has taken up the delivery it was given.
ProcessesItsDelivery ==
    \A d \in Delivery : \A candidate \in ProcessedDelivery(cp, d) :
       d.id \in DOMAIN candidate.mail => candidate.mail[d.id].place = "deferred"

\* Prune through one dependency-closed cutoff (checkpoint_v1.py:1153).
PrunedIsRestorable == \A cutoff \in 0 .. cp.next : Prunable(cp, cutoff) => Valid(Pruned(cp, cutoff))

\* The host returns exact receipt evidence for terminal replay (README.md:23):
\* admit_v1 answers a retry with the acceptance receipt or the tombstone.
ReplayHasEvidence ==
    \A e \in Events :
       Known(cp, e) # {} => AcceptanceOf(cp, e) # {} \/ e \in DOMAIN cp.tombstones
=============================================================================
