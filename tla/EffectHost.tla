----------------------------- MODULE EffectHost -----------------------------
(***************************************************************************)
(* The committed-effect host of effects.py: one stored document per root   *)
(* that pairs an execution checkpoint with the journal of the effects its  *)
(* steps have emitted, and, when the host belongs to an authority scope,   *)
(* the ledger of that scope in the same database.                          *)
(*                                                                         *)
(* Every operation is one BEGIN IMMEDIATE transaction that loads the       *)
(* document, checks it, changes a copy, checks that and writes it back, so *)
(* it is one step here.  What takes several transactions takes several     *)
(* steps: a submitted result is recorded in one and admitted in another,   *)
(* recovery walks the effects of a snapshot one by one, and a crash comes  *)
(* between any two.  A request that is refused leaves everything as it was.*)
(*                                                                         *)
(* A report kind stands for the kind and payload of a report.              *)
(***************************************************************************)
EXTENDS Checkpoint

CONSTANTS
    Inputs,         \* event ids of deliveries queued before
    Workers,        \* worker principals
    Verdicts,       \* outcomes a handler may have; also the bodies of their events
    Deduplicates,   \* the destination deduplicates, and its provider can show it
    Scoped,         \* the host belongs to an authority scope
    EffectIds,      \* bound: receipts that may emit an effect, in liveness properties
    MaxRevision,    \* bound: checkpoint revisions by steps and acknowledgements
    MaxEffects,     \* bound: effects emitted
    MaxFence,       \* bound: attempts per effect
    MaxCrashes      \* bound: crashes

ASSUME EffectAssumption ==
    /\ Verdicts \cap {"cancelled", "retryable_failure", "ambiguous"} = {}
    /\ Verdicts \cup {"cancelled"} \subseteq Bodies \ Internal
    /\ Deduplicates \in BOOLEAN /\ Scoped \in BOOLEAN
    /\ Inputs \subseteq Events /\ EffectIds \subseteq Nat
    /\ MaxRevision \in Nat /\ MaxEffects \in Nat /\ MaxFence \in Nat /\ MaxCrashes \in Nat

VARIABLES
    doc,        \* the stored document
    ledger,     \* the authority ledger of the scope
    lapsed,     \* <<effect, fence>> of claims whose lease has run out
    inflight,   \* submitted outcomes that are recorded and not yet admitted
    recovery,   \* effects a walk of recover has still to visit
    crashes,
    calls,      \* history: <<effect, fence>> the destination was called for
    issued,     \* history: <<worker, effect, fence>> of every claim
    told        \* history: answers given to each report

vars == <<doc, ledger, lapsed, inflight, recovery, crashes, calls, issued, told>>

OutcomeKinds == Verdicts \cup {"cancelled"}
Reports == Verdicts \cup {"retryable_failure", "ambiguous"}

Undecided == [kind |-> "none", fence |-> None]
NotCancelled == [op |-> Nobody, state |-> "none"]

Unclaimed ==
    [fence |-> 0, state |-> "unclaimed", reports |-> <<>>, outcome |-> Undecided,
     receipt |-> None, cancel |-> NotCancelled]

Claimed(d, e) == e \in DOMAIN d.claims
Claim(w, f) == [worker |-> w, fence |-> f, state |-> "active"]

ResultOf(e, k) == <<"result", e, k>>
ResultDelivery(e, k) == [id |-> ResultOf(e, k), body |-> k]

\* _result_delivery: the runtime the result is addressed to still takes input.
Deliverable(d, e, k) == Acceptable(d.cp, <<ResultDelivery(e, k)>>)

-----------------------------------------------------------------------------
(* validate_journal.                                                       *)

Located(c, e) ==
    Cardinality({fx \in {"pending", "terminal", "compacted"} :
                   e \in DOMAIN (CASE fx = "pending" -> c.pendingFx
                                   [] fx = "terminal" -> c.terminalFx
                                   [] OTHER -> c.tombstoneFx)}) = 1

\* What the state of a record allows to be filled in.
FieldsValid(d, r, e) ==
    /\ r.state \in {"unclaimed", "leased", "ambiguous"} =>
          r.outcome = Undecided /\ r.receipt = None
    /\ r.state \in {"outcome_recorded", "result_admitted"} => r.outcome # Undecided
    /\ r.state = "outcome_recorded" => r.receipt = None
    /\ r.state = "result_admitted" =>
          /\ r.receipt \in AcceptanceOf(d.cp, ResultOf(e, r.outcome.kind))
          /\ d.cp.receipts[r.receipt].body = r.outcome.kind

PreventedStart(r) ==
    /\ r.outcome = [kind |-> "cancelled", fence |-> 0]
    /\ r.fence = 0
    /\ r.cancel.state = "prevented_start"

\* An outcome is what the attempt of its fence reported, or a cancellation that
\* came before the first claim.
OutcomeReported(r) ==
    r.outcome # Undecided =>
       IF PreventedStart(r) THEN r.reports = <<>>
       ELSE r.outcome.fence \in DOMAIN r.reports
            /\ r.reports[r.outcome.fence] = r.outcome.kind

JournalValid(d) ==
    /\ d.pinned = d.cp.revision
    /\ \A e \in DOMAIN d.fx :
          /\ Located(d.cp, e)
          /\ \A f \in DOMAIN d.fx[e].reports : f <= d.fx[e].fence
          /\ FieldsValid(d, d.fx[e], e)
          /\ OutcomeReported(d.fx[e])

-----------------------------------------------------------------------------
(* The ledger of the scope.                                                *)

LiveClaims(d) == [e \in {x \in DOMAIN d.fx : d.fx[x].state = "leased"} |-> d.claims[e]]

\* _mirror_authority: fences, live claims and checkpoint of the document.
MirroredWith(l, d, live) ==
    [l EXCEPT !.fences = Merge([e \in DOMAIN d.fx |-> d.fx[e].fence], @),
              !.active = live,
              !.history = @ \cup {<<e, d.claims[e]>> : e \in DOMAIN d.claims},
              !.checkpoints = @ \cup {d.cp.revision}]

\* A mirror that forgets to drop claims that are no longer live.
MirroredStale(l, d) == MirroredWith(l, d, Merge(LiveClaims(d), l.active))

Mirrored(l, d) == MirroredWith(l, d, LiveClaims(d))

\* _validate_authority_pair.
PairValid(l, d) ==
    /\ d.cp.revision \in l.checkpoints
    /\ \A e \in DOMAIN d.fx :
          /\ e \in DOMAIN l.fences /\ l.fences[e] = d.fx[e].fence
          /\ \A past \in l.history : past[1] = e => past[2].fence <= d.fx[e].fence
          /\ IF d.fx[e].state = "leased"
             THEN e \in DOMAIN l.active /\ l.active[e] = d.claims[e]
             ELSE e \notin DOMAIN l.active

\* _transact, before the change.  What it checks of the document alone, the
\* commit that stored the document has checked too (AcceptedStorable says that it
\* holds); the ledger is also written by others.
Opened == Scoped => ledger.state = "active" /\ PairValid(ledger, doc)

\* _transact, after the change.
Commit(changed) == \E d \in {changed} :
    /\ Cardinality(DOMAIN d.fx) <= MaxEffects
    /\ JournalValid(d)
    /\ d.cp # doc.cp => Valid(d.cp)
    /\ doc' = d
    /\ ledger' = IF Scoped THEN Mirrored(ledger, d) ELSE ledger

-----------------------------------------------------------------------------
(* Operations as functions from a document to its successor.               *)

\* A journal that keeps the revision it was bound to.
ProducedUnbound(d, op, c) ==
    [d EXCEPT !.cp = c,
              !.fx = Merge(@, [e \in DOMAIN c.pendingFx \ DOMAIN d.fx |-> Unclaimed]),
              !.responses = Merge([o \in {op} |-> "processing"], @)]

\* A journal that offers every effect on record over again.
ProducedAnew(d, op, c) ==
    [d EXCEPT !.cp = c,
              !.pinned = c.revision,
              !.fx = Merge([e \in DOMAIN @ |-> [@[e] EXCEPT !.state = "unclaimed",
                                                          !.outcome = Undecided, !.receipt = None]],
                           [e \in DOMAIN c.pendingFx |-> Unclaimed]),
              !.responses = Merge([o \in {op} |-> "processing"], @)]

\* step_checkpoint_v1 gave checkpoint c: every effect that is new gets a record.
Produced(d, op, c) ==
    [d EXCEPT !.cp = c,
              !.pinned = c.revision,
              !.fx = Merge(@, [e \in DOMAIN c.pendingFx \ DOMAIN d.fx |-> Unclaimed]),
              !.responses = Merge([o \in {op} |-> "processing"], @)]

MayClaim(d, e, proof) ==
    \/ d.fx[e].state = "unclaimed"
    \/ d.fx[e].state = "ambiguous" /\ proof

\* _issue_effect_claim, and the evidence claim keeps with the new fence.
ClaimIssued(d, w, e, proof) ==
    LET f == d.fx[e].fence + 1
    IN [d EXCEPT !.fx[e] = [@ EXCEPT !.fence = f, !.state = "leased"],
                 !.claims = Merge([x \in {e} |-> Claim(w, f)], @),
                 !.evidence = IF proof THEN @ \cup {<<e, f>>} ELSE @]

\* terminalize_outbox: the destination has taken the intent.
Acknowledged(d, e, outcome) ==
    LET c == [Mutated(d.cp) EXCEPT
                !.pendingFx = Restrict(@, DOMAIN @ \ {e}),
                !.terminalFx = Merge([x \in {e} |-> [seq |-> d.cp.nextFx, outcome |-> outcome]], @),
                !.nextFx = @ + 1]
    IN [d EXCEPT !.cp = c, !.pinned = c.revision]

Decided(d, e, k, f) ==
    [d EXCEPT !.fx[e] = [@ EXCEPT !.state = "outcome_recorded",
                                  !.outcome = [kind |-> k, fence |-> f]]]

\* What a report that needs no admission is answered: with the evidence of now.
ReportAnswer(d) == [status |-> "report_recorded", revision |-> d.cp.revision]

\* A report that leaves its attempt open.
ReportedOpen(d, e, f, k) ==
    LET noted == [d EXCEPT !.fx[e].reports = Merge([x \in {f} |-> k], @)]
    IN IF k \in OutcomeKinds THEN Decided(noted, e, k, f)
       ELSE [noted EXCEPT !.answers = Merge([x \in {<<e, f>>} |-> ReportAnswer(d)], @)]

\* The new part of _submit.
Reported(d, e, f, k) ==
    LET noted == [d EXCEPT !.fx[e].reports = Merge([x \in {f} |-> k], @)]
    IN IF k \in OutcomeKinds THEN Decided(noted, e, k, f)
       ELSE [noted EXCEPT !.fx[e].state = IF k = "retryable_failure" THEN "unclaimed"
                                          ELSE "ambiguous",
                          !.answers = Merge([x \in {<<e, f>>} |-> ReportAnswer(d)], @)]

\* _admit: the outcome becomes an input of the machine.
ResultAdmitted(d, e) ==
    LET out == d.fx[e].outcome
        c == Admitted(d.cp, <<ResultDelivery(e, out.kind)>>)
    IN [d EXCEPT !.cp = c,
                 !.pinned = c.revision,
                 !.fx[e] = [@ EXCEPT !.state = "result_admitted", !.receipt = d.cp.next],
                 !.answers = Merge([x \in {<<e, out.fence>>} |->
                                      [status |-> "committed", revision |-> c.revision]], @)]

RevokedTo(d, e, state) ==
    LET noted == Merge([f \in {d.fx[e].fence} |-> "ambiguous"], d.fx[e].reports)
    IN [d EXCEPT !.fx[e] = [@ EXCEPT !.reports = noted, !.state = state],
                 !.claims[e] = [@ EXCEPT !.state = "revoked"]]

\* Recovery that offers the effect anew as if it had not been attempted.
RevokedUnclaimed(d, e) == RevokedTo(d, e, "unclaimed")

\* Recovery that notes the report and leaves the attempt open.
RevokedLeased(d, e) == RevokedTo(d, e, "leased")

\* The leased branch of recover: nobody knows what came of the attempt.
Revoked(d, e) == RevokedTo(d, e, "ambiguous")

\* cancel: only what was never claimed can still be prevented.
MayPrevent(d, e) == d.fx[e].state = "unclaimed" /\ d.fx[e].fence = 0

\* A cancellation that leaves the effect to be claimed.
CancelledUndecided(d, op, e) ==
    LET verdict == IF MayPrevent(d, e) THEN "prevented_start" ELSE "reconciliation_required"
    IN [d EXCEPT !.fx[e].cancel = [op |-> op, state |-> verdict],
                 !.responses = Merge([o \in {op} |-> verdict], @)]

Cancelled(d, op, e) ==
    LET verdict == IF MayPrevent(d, e) THEN "prevented_start" ELSE "reconciliation_required"
        noted == IF MayPrevent(d, e) THEN Decided(d, e, "cancelled", 0) ELSE d
    IN [noted EXCEPT !.fx[e].cancel = [op |-> op, state |-> verdict],
                     !.responses = Merge([o \in {op} |-> verdict], @)]

-----------------------------------------------------------------------------
(* Initial states.                                                         *)

\* A created root with host deliveries queued, whose creation emitted nothing.
Queued ==
    {Admitted(c, b) : c \in {x \in Creations : x.rt[Root] = "running" /\ x.nextAcc = 0
                                                /\ x.pendingFx = <<>>},
                      b \in {b \in Batches : \A i \in DOMAIN b : /\ b[i].id \in Inputs
                                                         /\ b[i].body \notin OutcomeKinds \cup Internal}}

Seeded(c) ==
    [cp |-> c, pinned |-> c.revision, fx |-> <<>>, claims |-> <<>>, evidence |-> {},
     answers |-> <<>>, responses |-> <<>>]

EmptyLedger == [state |-> "active", fences |-> <<>>, active |-> <<>>, history |-> {},
                checkpoints |-> {}]

\* seed
Init ==
    /\ \E c \in Queued :
          /\ doc = Seeded(c)
          /\ ledger = IF Scoped THEN Mirrored(EmptyLedger, Seeded(c)) ELSE EmptyLedger
    /\ lapsed = {} /\ inflight = {} /\ recovery = <<>> /\ crashes = 0
    /\ calls = {} /\ issued = {} /\ told = <<>>

-----------------------------------------------------------------------------
(* The host's operations.                                                  *)

\* A retry with a known operation id is answered from what is kept.
Produce(op, r) ==
    /\ op \notin DOMAIN doc.responses
    /\ Opened
    /\ Runnable(doc.cp, r) /\ doc.cp.revision < MaxRevision
    /\ \E c \in Steps(doc.cp, r) : Commit(Produced(doc, op, c))
    /\ UNCHANGED <<lapsed, inflight, recovery, crashes, calls, issued, told>>

IssueClaim(w, e, proof) ==
    /\ MayClaim(doc, e, proof)
    /\ doc.fx[e].fence < MaxFence
    /\ Opened
    /\ Commit(ClaimIssued(doc, w, e, proof))
    /\ issued' = issued \cup {<<w, e, doc.fx[e].fence + 1>>}
    /\ UNCHANGED <<lapsed, inflight, recovery, crashes, calls, told>>

\* claim, with or without evidence that the destination deduplicates.
ClaimEffect(w, e) == \E proof \in {FALSE, Deduplicates} : IssueClaim(w, e, proof)

\* fence_worker of the authority, for work of the native journal: one commit
\* for the journal, the claim and the ledger.
FenceWorker(w, e) == Scoped /\ IssueClaim(w, e, FALSE)

TerminalizeOutbox(e, outcome) ==
    /\ e \in DOMAIN doc.cp.pendingFx /\ doc.cp.revision < MaxRevision
    /\ Opened
    /\ Commit(Acknowledged(doc, e, outcome))
    /\ UNCHANGED <<lapsed, inflight, recovery, crashes, calls, issued, told>>

\* _authorize
Authorized(w, e, f, replay) ==
    /\ Claimed(doc, e) /\ doc.claims[e].worker = w
    /\ doc.fx[e].fence = f /\ doc.claims[e].fence = f
    /\ replay \/ (doc.claims[e].state = "active" /\ <<e, f>> \notin lapsed)

\* The worker guard of _transact: the clock at commit, and in a scope the claim
\* of the ledger, which a replay of what is settled no longer needs.
WorkerGuard(w, e, f) ==
    /\ doc.fx[e].state \in {"leased", "outcome_recorded"} =>
          Claimed(doc, e) /\ <<e, doc.claims[e].fence>> \notin lapsed
    /\ Scoped =>
          \/ /\ doc.fx[e].state \in {"result_admitted", "unclaimed", "ambiguous"}
             /\ f \in DOMAIN doc.fx[e].reports
          \/ /\ e \in DOMAIN ledger.active
             /\ Claimed(doc, e) /\ ledger.active[e] = doc.claims[e]
             /\ ledger.active[e] = Claim(w, f)
             /\ <<e, f>> \notin lapsed

\* dispatch holds the transaction over the call.  It takes the fence from the
\* journal; the lease may run out during the call, which Lapse covers.
Dispatch(w, e) ==
    LET f == doc.fx[e].fence
    IN /\ doc.fx[e].state = "leased"
       /\ Opened
       /\ WorkerGuard(w, e, f) /\ Authorized(w, e, f, FALSE)
       /\ calls' = calls \cup {<<e, f>>}
       /\ UNCHANGED <<doc, ledger, lapsed, inflight, recovery, crashes, issued, told>>

Lapse(e) ==
    /\ Claimed(doc, e)
    /\ lapsed' = lapsed \cup {<<e, doc.claims[e].fence>>}
    /\ UNCHANGED <<doc, ledger, inflight, recovery, crashes, calls, issued, told>>

\* Workers report what they know: no call before a retryable failure, a call
\* before any outcome.
Honest(e, f, k) ==
    /\ k = "retryable_failure" => <<e, f>> \notin calls
    /\ k \in Verdicts => <<e, f>> \in calls

Tell(e, f, k, answer) ==
    told' = Merge([x \in {<<e, f, k>>} |->
                     {answer} \cup (IF x \in DOMAIN told THEN told[x] ELSE {})], told)

\* Any report under the fence taken for the same one.
RetainedByFence(e, f, k) == f \in DOMAIN doc.fx[e].reports

Retained(e, f, k) == f \in DOMAIN doc.fx[e].reports /\ doc.fx[e].reports[f] = k

RecordReport(w, e, f, k) ==
    /\ f \notin DOMAIN doc.fx[e].reports
    /\ doc.fx[e].state = "leased"
    /\ Opened
    /\ k \in OutcomeKinds => Deliverable(doc, e, k)
    /\ Commit(Reported(doc, e, f, k))
    /\ IF k \in OutcomeKinds
       THEN inflight' = inflight \cup {<<e, f, k>>} /\ UNCHANGED told
       ELSE Tell(e, f, k, ReportAnswer(doc)) /\ UNCHANGED inflight
    /\ UNCHANGED <<lapsed, recovery, crashes, calls, issued>>

\* A report that is taken as a replay is, whatever has become of the lease.
RecordResultLate(w, e, f, k) == Authorized(w, e, f, TRUE) /\ RecordReport(w, e, f, k)

\* The first transaction of submit_result, a report that is new.
RecordResult(w, e, f, k) ==
    /\ WorkerGuard(w, e, f) /\ Authorized(w, e, f, FALSE)
    /\ RecordReport(w, e, f, k)

\* The same report again: another report under its fence is a conflict.
RepeatResult(w, e, f, k) ==
    /\ Retained(e, f, k)
    /\ Opened
    /\ WorkerGuard(w, e, f)
    /\ Authorized(w, e, f, k \notin OutcomeKinds \/ doc.fx[e].receipt # None)
    /\ IF k \in OutcomeKinds
       THEN inflight' = inflight \cup {<<e, f, k>>} /\ UNCHANGED told
       ELSE /\ Tell(e, f, k, IF <<e, f>> \in DOMAIN doc.answers THEN doc.answers[<<e, f>>]
                             ELSE ReportAnswer(doc))
            /\ UNCHANGED inflight
    /\ UNCHANGED <<doc, ledger, lapsed, recovery, crashes, calls, issued>>

\* The second transaction of submit_result.
AdmitResult(e, f, k) ==
    /\ Opened
    /\ IF <<e, f>> \in DOMAIN doc.answers
       THEN Tell(e, f, k, doc.answers[<<e, f>>]) /\ UNCHANGED <<doc, ledger>>
       ELSE /\ doc.fx[e].state = "outcome_recorded"
            /\ Deliverable(doc, e, k)
            /\ Commit(ResultAdmitted(doc, e))
            /\ Tell(e, f, k, doc'.answers[<<e, f>>])
    /\ inflight' = inflight \ {<<e, f, k>>}
    /\ UNCHANGED <<lapsed, recovery, crashes, calls, issued>>

\* The machine has stopped taking input since: the submission is refused, and
\* the outcome stays recorded.
RefuseAdmission(e, f, k) ==
    /\ Opened
    /\ doc.fx[e].state = "outcome_recorded" /\ ~Deliverable(doc, e, k)
    /\ inflight' = inflight \ {<<e, f, k>>}
    /\ UNCHANGED <<doc, ledger, lapsed, recovery, crashes, calls, issued, told>>

Cancel(op, e) ==
    /\ op \notin DOMAIN doc.responses
    /\ Opened
    /\ MayPrevent(doc, e) => Deliverable(doc, e, "cancelled")
    /\ Commit(Cancelled(doc, op, e))
    /\ UNCHANGED <<lapsed, inflight, recovery, crashes, calls, issued, told>>

-----------------------------------------------------------------------------
(* Recovery and crashes.                                                   *)

\* recover goes through a snapshot in the order of the effect ids, which are
\* digests: any order.
StartRecovery ==
    /\ recovery = <<>> /\ DOMAIN doc.fx # {}
    /\ recovery' \in SetToSeqs(DOMAIN doc.fx)
    /\ UNCHANGED <<doc, ledger, lapsed, inflight, crashes, calls, issued, told>>

\* One effect of the snapshot, as it is by now, in a transaction of its own.
RecoverNext ==
    /\ recovery # <<>>
    /\ Opened
    /\ LET e == Head(recovery)
       IN \/ /\ doc.fx[e].state = "outcome_recorded"
             /\ Deliverable(doc, e, doc.fx[e].outcome.kind)
             /\ Commit(ResultAdmitted(doc, e))
          \/ doc.fx[e].state = "leased" /\ Commit(Revoked(doc, e))
          \/ /\ doc.fx[e].state \notin {"outcome_recorded", "leased"}
             /\ UNCHANGED <<doc, ledger>>
    /\ recovery' = Tail(recovery)
    /\ UNCHANGED <<lapsed, inflight, crashes, calls, issued, told>>

\* The scope is in doubt, or an outcome can no longer be admitted: the call of
\* recover raises at this effect and leaves out those behind it.
RecoveryRaises ==
    /\ recovery # <<>>
    /\ \/ ~Opened
       \/ LET e == Head(recovery)
          IN doc.fx[e].state = "outcome_recorded" /\ ~Deliverable(doc, e, doc.fx[e].outcome.kind)
    /\ recovery' = <<>>
    /\ UNCHANGED <<doc, ledger, lapsed, inflight, crashes, calls, issued, told>>

Recover == StartRecovery \/ RecoverNext \/ RecoveryRaises

\* A crash ends what is under way; the document is what was committed.
Crash ==
    /\ crashes < MaxCrashes
    /\ inflight # {} \/ recovery # <<>>
    /\ crashes' = crashes + 1
    /\ inflight' = {} /\ recovery' = <<>>
    /\ UNCHANGED <<doc, ledger, lapsed, calls, issued, told>>

\* The fate of some other native transaction of the scope is unknown, and then
\* settled (_mark_transaction_in_doubt, _resolve_rolled_back_fate).
Doubt ==
    /\ Scoped
    /\ ledger' = [ledger EXCEPT !.state = IF @ = "active" THEN "transaction_in_doubt" ELSE "active"]
    /\ UNCHANGED <<doc, lapsed, inflight, recovery, crashes, calls, issued, told>>

Next ==
    \/ \E op \in Operations, r \in Runtimes : Produce(op, r)
    \/ \E e \in DOMAIN doc.fx :
          \/ \E w \in Workers : ClaimEffect(w, e) \/ FenceWorker(w, e) \/ Dispatch(w, e)
          \/ \E outcome \in Outcomes : TerminalizeOutbox(e, outcome)
          \/ Lapse(e)
          \/ \E op \in Operations : Cancel(op, e)
    \/ \E i \in issued, k \in Reports :
          /\ Honest(i[2], i[3], k)
          /\ RecordResult(i[1], i[2], i[3], k) \/ RepeatResult(i[1], i[2], i[3], k)
    \/ \E s \in inflight : AdmitResult(s[1], s[2], s[3]) \/ RefuseAdmission(s[1], s[2], s[3])
    \/ Recover
    \/ Crash
    \/ Doubt

Spec == Init /\ [][Next]_vars

\* Whoever runs the host calls recover again and again, and a call goes on.
FairSpec == Spec /\ WF_vars(Recover)
-----------------------------------------------------------------------------
(* Properties.                                                             *)

Sound(d) == JournalValid(d) /\ (d.cp # doc.cp => Valid(d.cp))

\* What the host computes for a caller, it can also store: a claim, a report, an
\* admission, an acknowledgement, a revocation or a first cancellation never ends in
\* a pair of checkpoint and journal that its own checks before the commit refuse,
\* and a step only when it removed a runtime whose message still waits.
AcceptedStorable ==
    /\ \A r \in Runtimes : Runnable(doc.cp, r) =>
          \A c \in Steps(doc.cp, r) :
             JournalValid(Produced(doc, Nobody, c)) /\ StepRestorable(doc.cp, c)
    /\ \A e \in DOMAIN doc.fx :
          /\ \A w \in Workers, proof \in {FALSE, Deduplicates} :
                MayClaim(doc, e, proof) => Sound(ClaimIssued(doc, w, e, proof))
          /\ e \in DOMAIN doc.cp.pendingFx =>
                \A o \in Outcomes : Sound(Acknowledged(doc, e, o))
          /\ doc.fx[e].state = "leased" =>
                Sound(Revoked(doc, e)) /\ \A k \in Reports : Sound(Reported(doc, e, doc.fx[e].fence, k))
          /\ doc.fx[e].state = "outcome_recorded" /\ Deliverable(doc, e, doc.fx[e].outcome.kind) =>
                Sound(ResultAdmitted(doc, e))
          /\ doc.fx[e].cancel.state # "prevented_start" => Sound(Cancelled(doc, Nobody, e))

\* A handler is called for an effect under a second fence only on evidence that
\* the destination deduplicates, whatever workers, recovery, leases and crashes
\* did in between.
CalledAgainOnEvidence ==
    \A c \in calls : c[2] < doc.fx[c[1]].fence => <<c[1], c[2] + 1>> \in doc.evidence

\* Journal and ledger are written by the effect host and by the authority, and
\* never disagree about a fence, a live claim or the checkpoint.
PairAgrees == Scoped => PairValid(ledger, doc)

\* check_worker_claim
ClaimHolds(w, e, f) ==
    /\ e \in DOMAIN ledger.active /\ ledger.active[e] = Claim(w, f)
    /\ ledger.state = "active"
    /\ ledger.fences[e] = f
    /\ <<e, f>> \notin lapsed
    /\ doc.fx[e].fence = f /\ doc.fx[e].state = "leased"
    /\ doc.claims[e] = ledger.active[e]
    /\ PairValid(ledger, doc)

\* A claim passes the check before a dispatch or a result exactly while it is the
\* last one issued for its effect, nobody has reported under it and its lease
\* runs: neither a superseded worker nor one whose attempt was given up.
OnlyTheCurrentClaimHolds ==
    Scoped /\ ledger.state = "active" =>
       \A i \in issued :
          ClaimHolds(i[1], i[2], i[3]) <=>
             /\ \A j \in issued : j[2] = i[2] => j[3] <= i[3]
             /\ i[3] \notin DOMAIN doc.fx[i[2]].reports
             /\ <<i[2], i[3]>> \notin lapsed

\* An outcome comes from the last attempt, within its lease, before anybody gave
\* that attempt up and after its call; or it is a cancellation of an effect that
\* was never claimed.
DecidedByCurrentAttempt ==
    [][\A e \in DOMAIN doc.fx :
          doc.fx[e].outcome = Undecided /\ doc'.fx[e].outcome # Undecided =>
             LET f == doc'.fx[e].outcome.fence
             IN /\ \A i \in issued : i[2] = e => i[3] <= f
                /\ f \notin DOMAIN doc.fx[e].reports
                /\ f > 0 => <<e, f>> \in calls \ lapsed]_vars

\* An effect whose start was prevented is never called.
PreventedIsNeverCalled ==
    \A c \in calls : doc.fx[c[1]].cancel.state # "prevented_start"

\* A worker that is told its outcome is committed finds it in the machine's
\* receipts, and no other outcome of that effect was ever committed to anybody.
CommittedAnswersStand ==
    \A t \in DOMAIN told : \A a \in told[t] :
       a.status = "committed" =>
          /\ \A s \in DOMAIN doc.cp.receipts :
                doc.cp.receipts[s].kind = "acceptance"
                /\ (\E k \in OutcomeKinds : doc.cp.receipts[s].id = ResultOf(t[1], k)) =>
                   doc.cp.receipts[s].id = ResultOf(t[1], t[3])
          /\ AcceptanceOf(doc.cp, ResultOf(t[1], t[3])) # {}
          /\ \A u \in DOMAIN told :
                u[1] = t[1] /\ u # t => \A b \in told[u] : b.status # "committed"
          /\ told[t] = {a}

ToldOutcomes(e) ==
    IF e \in DOMAIN doc.fx
    THEN {k \in OutcomeKinds : AcceptanceOf(doc.cp, ResultOf(e, k)) # {}} ELSE {}

Stage(e) ==
    IF e \notin DOMAIN doc.fx THEN "none"
    ELSE IF ToldOutcomes(e) # {} THEN "told"
    ELSE IF doc.fx[e].outcome # Undecided THEN "decided"
    ELSE "open"

EffectsAbstractly == INSTANCE EffectLedger WITH
    Effects <- EffectIds,
    Verdicts <- OutcomeKinds,
    stage <- [e \in EffectIds |-> Stage(e)],
    verdict <- [e \in EffectIds |-> ToldOutcomes(e) \cup
                  (IF e \in DOMAIN doc.fx /\ doc.fx[e].outcome # Undecided
                   THEN {doc.fx[e].outcome.kind} ELSE {})]

\* Whatever is retried, revoked, cancelled or crashes: an effect is decided once,
\* and the machine is told that decision and no other, once.
ImplementsEffectLedger == EffectsAbstractly!Spec

StateOf(e) == IF e \in DOMAIN doc.fx THEN doc.fx[e].state ELSE "none"

\* An outcome that can no longer be admitted.
Blocked(e) ==
    StateOf(e) = "outcome_recorded" /\ ~Deliverable(doc, e, doc.fx[e].outcome.kind)

Unsettled(e) == StateOf(e) \in {"leased", "outcome_recorded"}

\* A recorded outcome reaches the machine, although the process that recorded it
\* may have crashed, and an attempt is not left leased for ever by a worker that
\* died, as long as the machine takes input (README.md:450-452, effects.py:1783).
EffectsAreSettled ==
    \A e \in EffectIds : Unsettled(e) ~> ~Unsettled(e) \/ \E x \in DOMAIN doc.fx : Blocked(x)

\* Each recoverable effect commits separately (README.md:452), and what lies
\* behind a crash remains available to recover (effects.py:1783): no effect keeps
\* recovery from another.
EachIsRecovered == \A e \in EffectIds : StateOf(e) = "leased" ~> StateOf(e) # "leased"

\* Duplicate results retain exact first responses (README.md:452-453).
FirstAnswerStands == \A t \in DOMAIN told : Cardinality(told[t]) = 1
=============================================================================
