--------------------------- MODULE EffectHost_proofs ---------------------------
(***************************************************************************)
(* What holds of the committed-effect host for every set of workers,       *)
(* verdicts, inputs and bounds, inside a scope or outside one.             *)
(***************************************************************************)
EXTENDS EffectHost, Checkpoint_proofs, FiniteSetTheorems, SequenceTheorems, TLAPS

-----------------------------------------------------------------------------
(* The inductive invariant, of a document d and what has been seen of it.  *)

States == {"unclaimed", "leased", "ambiguous", "outcome_recorded", "result_admitted"}

Shape(r) ==
    r = [fence |-> r.fence, state |-> r.state, reports |-> r.reports, outcome |-> r.outcome,
         receipt |-> r.receipt, cancel |-> r.cancel]

\* What the state of a journal record says of its attempts: the last one is open
\* exactly while it is leased, and the report of an outcome decides the effect.
RecordSound(r) ==
    /\ Shape(r)
    /\ r.fence \in Nat /\ r.state \in States
    /\ DOMAIN r.reports \subseteq 1 .. r.fence
    /\ r.reports = [f \in DOMAIN r.reports |-> r.reports[f]]
    /\ r.state = "leased" => r.fence > 0
    /\ r.fence > 0 => (r.state = "leased" <=> r.fence \notin DOMAIN r.reports)
    /\ r.state \in {"unclaimed", "leased", "ambiguous"} <=> r.outcome = Undecided
    /\ r.outcome # Undecided => r.outcome.kind \in OutcomeKinds
    /\ \A f \in DOMAIN r.reports :
          r.reports[f] \in OutcomeKinds => r.outcome = [kind |-> r.reports[f], fence |-> f]
    /\ r.cancel.state = "prevented_start" => r.fence = 0 /\ r.outcome # Undecided

\* The claim on record is the one of the last attempt.
ClaimsSound(d) ==
    /\ d.claims = [e \in DOMAIN d.claims |-> d.claims[e]]
    /\ DOMAIN d.claims = {e \in DOMAIN d.fx : d.fx[e].fence > 0}
    /\ \A e \in DOMAIN d.claims :
          /\ d.claims[e] = [worker |-> d.claims[e].worker, fence |-> d.fx[e].fence,
                            state |-> d.claims[e].state]
          /\ d.fx[e].state = "leased" => d.claims[e].state = "active"

Committed(d, p) ==
    /\ d.answers[p].status = "committed"
    /\ d.fx[p[1]].state = "result_admitted" /\ d.fx[p[1]].outcome.fence = p[2]

Noted(d, p) ==
    /\ d.answers[p].status = "report_recorded"
    /\ p[2] \in DOMAIN d.fx[p[1]].reports /\ d.fx[p[1]].reports[p[2]] \notin OutcomeKinds

\* An answer says committed exactly to the attempt that decided an admitted effect.
AnswersSound(d) ==
    /\ d.answers = [p \in DOMAIN d.answers |-> d.answers[p]]
    /\ \A p \in DOMAIN d.answers :
          /\ p = <<p[1], p[2]>> /\ p[1] \in DOMAIN d.fx
          /\ Committed(d, p) \/ Noted(d, p)

DocShape(d) ==
    d = [cp |-> d.cp, pinned |-> d.pinned, fx |-> d.fx, claims |-> d.claims,
         evidence |-> d.evidence, answers |-> d.answers, responses |-> d.responses]

\* The journal has a record for every effect the checkpoint has to deliver.
DocSound(d) ==
    /\ DocShape(d) /\ Shaped(d.cp) /\ ReceiptsShaped(d.cp)
    /\ d.fx = [e \in DOMAIN d.fx |-> d.fx[e]]
    /\ IsFiniteSet(DOMAIN d.fx) /\ DOMAIN d.cp.pendingFx \subseteq DOMAIN d.fx
    /\ \A e \in DOMAIN d.fx : RecordSound(d.fx[e])
    /\ ClaimsSound(d)
    /\ AnswersSound(d)
    /\ JournalValid(d)

\* Calls were made under fences issued, never under one that a worker gave back
\* as not attempted, and a second one only on evidence.
CallSound(d, c) ==
    /\ c = <<c[1], c[2]>> /\ c[1] \in DOMAIN d.fx
    /\ c[2] \in 1 .. d.fx[c[1]].fence
    /\ d.fx[c[1]].state = "unclaimed" => c[2] < d.fx[c[1]].fence
    /\ c[2] < d.fx[c[1]].fence => <<c[1], c[2] + 1>> \in d.evidence

CallsSound(d, called) == \A c \in called : CallSound(d, c)

\* Every claim issued has a fence of its own, and the claim on record was issued.
IssuedSound(d, claimed) ==
    /\ \A i \in claimed :
          /\ i = <<i[1], i[2], i[3]>> /\ i[2] \in DOMAIN d.fx /\ i[3] \in 1 .. d.fx[i[2]].fence
          /\ i[3] = d.fx[i[2]].fence => d.claims[i[2]].worker = i[1]
    /\ \A e \in DOMAIN d.claims : <<d.claims[e].worker, e, d.fx[e].fence>> \in claimed

\* What is under way was recorded.
InflightSound(d, under) ==
    \A s \in under :
       /\ s = <<s[1], s[2], s[3]>> /\ s[1] \in DOMAIN d.fx /\ s[3] \in OutcomeKinds
       /\ s[2] \in DOMAIN d.fx[s[1]].reports /\ d.fx[s[1]].reports[s[2]] = s[3]

\* An outcome is answered with the answer kept, anything else never as committed.
ToldSound(d, answered) ==
    /\ answered = [t \in DOMAIN answered |-> answered[t]]
    /\ \A t \in DOMAIN answered :
          IF t[3] \in OutcomeKinds
          THEN /\ t = <<t[1], t[2], t[3]>> /\ <<t[1], t[2]>> \in DOMAIN d.answers
               /\ answered[t] = {d.answers[<<t[1], t[2]>>]}
               /\ t[2] \in DOMAIN d.fx[t[1]].reports /\ d.fx[t[1]].reports[t[2]] = t[3]
          ELSE \A a \in answered[t] : a.status # "committed"

LedgerShape(l) ==
    l = [state |-> l.state, fences |-> l.fences, active |-> l.active,
         history |-> l.history, checkpoints |-> l.checkpoints]

\* The ledger knows of no claim to an effect the journal has not.
LedgerSound(l, d) ==
    /\ LedgerShape(l)
    /\ Scoped => /\ PairValid(l, d)
                 /\ \A past \in l.history : past[1] \in DOMAIN d.fx /\ past[2].fence \in Nat

\* The invariant every step keeps.
IInv ==
    /\ DocSound(doc)
    /\ CallsSound(doc, calls)
    /\ IssuedSound(doc, issued)
    /\ InflightSound(doc, inflight)
    /\ ToldSound(doc, told)
    /\ recovery \in Seq(DOMAIN doc.fx)
    /\ LedgerSound(ledger, doc)

\* No caller has chosen an id that the host derives for a result.
ForeignInputs == \A e, k : ResultOf(e, k) \notin Inputs

\* The machine has accepted no result but that of an admitted decision.
ResultsSound(d) ==
    \A s \in OfKind(d.cp, "acceptance") : \A e, k :
       d.cp.receipts[s].id = ResultOf(e, k) =>
          e \in DOMAIN d.fx /\ d.fx[e].state = "result_admitted" /\ d.fx[e].outcome.kind = k

-----------------------------------------------------------------------------
(* The operations, one by one: what they leave of the document.            *)

\* g is f with v at k.
Adds(g, f, k, v) ==
    /\ DOMAIN g = DOMAIN f \cup {k} /\ g[k] = v
    /\ \A x \in DOMAIN f : x # k => g[x] = f[x]
    /\ g = [x \in DOMAIN g |-> g[x]]

\* Merging one entry in.
LEMMA MergeAdds ==
    ASSUME NEW k, NEW v, NEW f
    PROVE  Adds(Merge([x \in {k} |-> v], f), f, k, v)
  BY DEF Merge, Adds

\* d has a record of e to replace.
Editable(d, e) ==
    /\ DocShape(d) /\ d.fx = [x \in DOMAIN d.fx |-> d.fx[x]]
    /\ e \in DOMAIN d.fx /\ Shape(d.fx[e])

\* d2 is d with the record of e replaced.
Edited(d, d2, e) ==
    /\ DocShape(d2)
    /\ DOMAIN d2.fx = DOMAIN d.fx
    /\ d2.fx = [x \in DOMAIN d2.fx |-> d2.fx[x]]
    /\ \A x \in DOMAIN d.fx : x # e => d2.fx[x] = d.fx[x]
    /\ Shape(d2.fx[e])

\* The document with one record replaced.
LEMMA EditedDoc ==
    ASSUME NEW d, d.fx = [x \in DOMAIN d.fx |-> d.fx[x]], NEW e \in DOMAIN d.fx,
           NEW r, Shape(r), NEW cp, NEW pinned, NEW claims, NEW evidence, NEW answers,
           NEW responses, NEW d2,
           d2 = [cp |-> cp, pinned |-> pinned, fx |-> [d.fx EXCEPT ![e] = r],
                 claims |-> claims, evidence |-> evidence, answers |-> answers,
                 responses |-> responses]
    PROVE  /\ Edited(d, d2, e) /\ d2.fx[e] = r
           /\ d2.cp = cp /\ d2.pinned = pinned /\ d2.claims = claims
           /\ d2.evidence = evidence /\ d2.answers = answers /\ d2.responses = responses
<1>1. PICK fx : fx = [d.fx EXCEPT ![e] = r]
  OBVIOUS
<1>2. /\ DOMAIN fx = DOMAIN d.fx /\ fx = [x \in DOMAIN fx |-> fx[x]] /\ fx[e] = r
      /\ \A x \in DOMAIN d.fx : x # e => fx[x] = d.fx[x]
  BY <1>1
<1>3. d2 = [cp |-> cp, pinned |-> pinned, fx |-> fx, claims |-> claims,
            evidence |-> evidence, answers |-> answers, responses |-> responses]
  BY <1>1
<1>4. DocShape(d2) /\ d2.fx = fx
  BY <1>3 DEF DocShape
<1>5. Edited(d, d2, e)
  BY <1>2, <1>4 DEF Edited
<1>. QED
  BY <1>2, <1>3, <1>5

\* d2 is d with e claimed by w.
ClaimedFrom(d, d2, w, e, proof) ==
    /\ Edited(d, d2, e)
    /\ d2.cp = d.cp /\ d2.pinned = d.pinned /\ d2.answers = d.answers
    /\ d2.fx[e] = [d.fx[e] EXCEPT !.fence = d.fx[e].fence + 1, !.state = "leased"]
    /\ Adds(d2.claims, d.claims, e, Claim(w, d.fx[e].fence + 1))
    /\ d2.evidence = IF proof THEN d.evidence \cup {<<e, d.fx[e].fence + 1>>}
                     ELSE d.evidence

\* A claim opens a new attempt.
LEMMA ClaimIssuedIs ==
    ASSUME NEW d, NEW w, NEW e, Editable(d, e), NEW proof \in BOOLEAN,
           NEW d2, d2 = ClaimIssued(d, w, e, proof)
    PROVE  ClaimedFrom(d, d2, w, e, proof)
<1>. /\ DocShape(d) /\ d.fx = [x \in DOMAIN d.fx |-> d.fx[x]]
     /\ e \in DOMAIN d.fx /\ Shape(d.fx[e])
  BY DEF Editable
<1>1. PICK f : f = d.fx[e].fence + 1
  OBVIOUS
<1>2. PICK claims : /\ claims = Merge([x \in {e} |-> Claim(w, f)], d.claims)
                    /\ Adds(claims, d.claims, e, Claim(w, f))
  BY MergeAdds
<1>3. PICK evidence : evidence = IF proof THEN d.evidence \cup {<<e, f>>} ELSE d.evidence
  OBVIOUS
<1>4. PICK r : r = [d.fx[e] EXCEPT !.fence = f, !.state = "leased"]
  OBVIOUS
<1>5. d2 = [d EXCEPT !.fx[e] = r, !.claims = claims, !.evidence = evidence]
  BY <1>1, <1>2, <1>3, <1>4 DEF ClaimIssued, DocShape
<1>6. Shape(r)
  BY <1>4 DEF Shape
<1>7. d2 = [cp |-> d.cp, pinned |-> d.pinned, fx |-> [d.fx EXCEPT ![e] = r], claims |-> claims,
            evidence |-> evidence, answers |-> d.answers, responses |-> d.responses]
  BY <1>5 DEF DocShape
<1>8. /\ Edited(d, d2, e) /\ d2.fx[e] = r /\ d2.cp = d.cp /\ d2.claims = claims
      /\ d2.evidence = evidence /\ d2.answers = d.answers /\ d2.pinned = d.pinned
  BY <1>6, <1>7, EditedDoc
<1>. QED
  BY <1>1, <1>2, <1>3, <1>4, <1>8 DEF ClaimedFrom

\* d2 is d with report k of attempt f.
ReportedFrom(d, d2, e, f, k) ==
    /\ Edited(d, d2, e)
    /\ d2.cp = d.cp /\ d2.pinned = d.pinned /\ d2.claims = d.claims /\ d2.evidence = d.evidence
    /\ \E reports :
          /\ Adds(reports, d.fx[e].reports, f, k)
          /\ IF k \in OutcomeKinds
             THEN /\ d2.answers = d.answers
                  /\ d2.fx[e] = [d.fx[e] EXCEPT !.reports = reports,
                                   !.state = "outcome_recorded",
                                   !.outcome = [kind |-> k, fence |-> f]]
             ELSE /\ Adds(d2.answers, d.answers, <<e, f>>, ReportAnswer(d))
                  /\ d2.fx[e] = [d.fx[e] EXCEPT !.reports = reports,
                                   !.state = IF k = "retryable_failure" THEN "unclaimed"
                                             ELSE "ambiguous"]

\* A report is kept; one of an outcome decides the effect.
LEMMA ReportedIs ==
    ASSUME NEW d, NEW e, Editable(d, e), NEW f, NEW k,
           NEW d2, d2 = Reported(d, e, f, k)
    PROVE  ReportedFrom(d, d2, e, f, k)
<1>. /\ DocShape(d) /\ d.fx = [x \in DOMAIN d.fx |-> d.fx[x]]
     /\ e \in DOMAIN d.fx /\ Shape(d.fx[e])
  BY DEF Editable
<1>1. PICK reports : /\ reports = Merge([x \in {f} |-> k], d.fx[e].reports)
                     /\ Adds(reports, d.fx[e].reports, f, k)
  BY MergeAdds
<1>2. PICK fx1 : fx1 = [d.fx EXCEPT ![e] = [d.fx[e] EXCEPT !.reports = reports]]
  OBVIOUS
<1>3. PICK noted : noted = [d EXCEPT !.fx[e].reports = Merge([x \in {f} |-> k], @)]
  OBVIOUS
<1>4. noted = [cp |-> d.cp, pinned |-> d.pinned, fx |-> fx1, claims |-> d.claims,
               evidence |-> d.evidence, answers |-> d.answers, responses |-> d.responses]
  BY <1>1, <1>2, <1>3 DEF DocShape
<1>5. DOMAIN fx1 = DOMAIN d.fx /\ fx1[e] = [d.fx[e] EXCEPT !.reports = reports]
  BY <1>2
<1>6. CASE k \in OutcomeKinds
  <2>1. PICK r : r = [d.fx[e] EXCEPT !.reports = reports, !.state = "outcome_recorded",
                                     !.outcome = [kind |-> k, fence |-> f]]
    OBVIOUS
  <2>2. r = [fx1[e] EXCEPT !.state = "outcome_recorded", !.outcome = [kind |-> k, fence |-> f]]
    BY <1>5, <2>1
  <2>3. d2 = [noted EXCEPT !.fx[e] = r]
    <3>1. d2 = Decided(noted, e, k, f)
      BY <1>3, <1>6 DEF Reported
    <3>2. noted.fx = fx1
      BY <1>4
    <3>3. Decided(noted, e, k, f)
          = [noted EXCEPT !.fx[e] = [noted.fx[e] EXCEPT !.state = "outcome_recorded",
                                       !.outcome = [kind |-> k, fence |-> f]]]
      BY <1>4 DEF Decided
    <3>. QED
      BY <2>2, <3>1, <3>2, <3>3
  <2>4. [fx1 EXCEPT ![e] = r] = [d.fx EXCEPT ![e] = r]
    BY <1>2
  <2>5. d2 = [cp |-> d.cp, pinned |-> d.pinned, fx |-> [d.fx EXCEPT ![e] = r],
              claims |-> d.claims, evidence |-> d.evidence, answers |-> d.answers,
              responses |-> d.responses]
    BY <1>4, <2>3, <2>4
  <2>6. Shape(r)
    BY <2>1 DEF Shape
  <2>7. /\ Edited(d, d2, e) /\ d2.fx[e] = r /\ d2.cp = d.cp /\ d2.claims = d.claims
        /\ d2.evidence = d.evidence /\ d2.answers = d.answers /\ d2.pinned = d.pinned
    BY <2>5, <2>6, EditedDoc
  <2>. QED
    BY <1>1, <1>6, <2>1, <2>7, Zenon DEF ReportedFrom
<1>7. CASE k \notin OutcomeKinds
  <2>1. PICK state : state = IF k = "retryable_failure" THEN "unclaimed" ELSE "ambiguous"
    OBVIOUS
  <2>2. PICK answers : /\ answers = Merge([x \in {<<e, f>>} |-> ReportAnswer(d)], d.answers)
                       /\ Adds(answers, d.answers, <<e, f>>, ReportAnswer(d))
    BY MergeAdds
  <2>3. PICK r : r = [d.fx[e] EXCEPT !.reports = reports, !.state = state]
    OBVIOUS
  <2>4. d2 = [noted EXCEPT !.fx[e].state = state, !.answers = answers]
    BY <1>3, <1>4, <1>7, <2>1, <2>2 DEF Reported
  <2>5. [fx1 EXCEPT ![e].state = state] = [d.fx EXCEPT ![e] = r]
    BY <1>2, <2>3
  <2>6. d2 = [cp |-> d.cp, pinned |-> d.pinned, fx |-> [d.fx EXCEPT ![e] = r],
              claims |-> d.claims, evidence |-> d.evidence, answers |-> answers,
              responses |-> d.responses]
    BY <1>4, <2>4, <2>5
  <2>7. Shape(r)
    BY <2>3 DEF Shape
  <2>8. /\ Edited(d, d2, e) /\ d2.fx[e] = r /\ d2.cp = d.cp /\ d2.claims = d.claims
        /\ d2.evidence = d.evidence /\ d2.answers = answers /\ d2.pinned = d.pinned
    BY <2>6, <2>7, EditedDoc
  <2>9. /\ Adds(d2.answers, d.answers, <<e, f>>, ReportAnswer(d))
        /\ d2.fx[e] = [d.fx[e] EXCEPT !.reports = reports,
                          !.state = IF k = "retryable_failure" THEN "unclaimed" ELSE "ambiguous"]
    BY <2>1, <2>2, <2>3, <2>8
  <2>. QED
    BY <1>1, <1>7, <2>8, <2>9, Zenon DEF ReportedFrom
<1>. QED
  BY <1>6, <1>7 DEF ReportedFrom

\* d2 is d with the outcome of e admitted.
AdmittedFrom(d, d2, e) ==
    /\ Edited(d, d2, e)
    /\ d2.cp = Admitted(d.cp, <<ResultDelivery(e, d.fx[e].outcome.kind)>>)
    /\ d2.pinned = d2.cp.revision /\ d2.claims = d.claims /\ d2.evidence = d.evidence
    /\ d2.fx[e] = [d.fx[e] EXCEPT !.state = "result_admitted", !.receipt = d.cp.next]
    /\ Adds(d2.answers, d.answers, <<e, d.fx[e].outcome.fence>>,
            [status |-> "committed", revision |-> d2.cp.revision])

\* An admission makes the outcome an input, and answers for it.
LEMMA ResultAdmittedIs ==
    ASSUME NEW d, NEW e, Editable(d, e),
           NEW d2, d2 = ResultAdmitted(d, e)
    PROVE  AdmittedFrom(d, d2, e)
<1>. /\ DocShape(d) /\ d.fx = [x \in DOMAIN d.fx |-> d.fx[x]]
     /\ e \in DOMAIN d.fx /\ Shape(d.fx[e])
  BY DEF Editable
<1>1. PICK out : out = d.fx[e].outcome
  OBVIOUS
<1>2. PICK c : c = Admitted(d.cp, <<ResultDelivery(e, out.kind)>>)
  OBVIOUS
<1>3. PICK answers : /\ answers = Merge([x \in {<<e, out.fence>>} |->
                                           [status |-> "committed", revision |-> c.revision]],
                                        d.answers)
                     /\ Adds(answers, d.answers, <<e, out.fence>>,
                             [status |-> "committed", revision |-> c.revision])
  BY MergeAdds
<1>4. PICK r : r = [d.fx[e] EXCEPT !.state = "result_admitted", !.receipt = d.cp.next]
  OBVIOUS
<1>5. d2 = [d EXCEPT !.cp = c, !.pinned = c.revision, !.fx[e] = r, !.answers = answers]
  BY <1>1, <1>2, <1>3, <1>4 DEF ResultAdmitted, DocShape
<1>6. Shape(r)
  BY <1>4 DEF Shape
<1>7. d2 = [cp |-> c, pinned |-> c.revision, fx |-> [d.fx EXCEPT ![e] = r], claims |-> d.claims,
            evidence |-> d.evidence, answers |-> answers, responses |-> d.responses]
  BY <1>5 DEF DocShape
<1>8. /\ Edited(d, d2, e) /\ d2.fx[e] = r /\ d2.cp = c /\ d2.claims = d.claims
      /\ d2.evidence = d.evidence /\ d2.answers = answers /\ d2.pinned = c.revision
  BY <1>6, <1>7, EditedDoc
<1>. QED
  BY <1>1, <1>2, <1>3, <1>4, <1>8 DEF AdmittedFrom

\* d2 is d with the attempt at e given up.
RevokedFrom(d, d2, e) ==
    /\ Edited(d, d2, e)
    /\ d2.cp = d.cp /\ d2.pinned = d.pinned /\ d2.evidence = d.evidence /\ d2.answers = d.answers
    /\ d2.claims = [d.claims EXCEPT ![e] = [@ EXCEPT !.state = "revoked"]]
    /\ \E reports :
          /\ Adds(reports, d.fx[e].reports, d.fx[e].fence, "ambiguous")
          /\ d2.fx[e] = [d.fx[e] EXCEPT !.reports = reports, !.state = "ambiguous"]

\* Recovery of a leased attempt notes that nobody knows what came of it.
LEMMA RevokedIs ==
    ASSUME NEW d, NEW e, Editable(d, e),
           NEW d2, d2 = Revoked(d, e)
    PROVE  RevokedFrom(d, d2, e)
<1>. /\ DocShape(d) /\ d.fx = [x \in DOMAIN d.fx |-> d.fx[x]]
     /\ e \in DOMAIN d.fx /\ Shape(d.fx[e])
  BY DEF Editable
<1>1. PICK reports :
         /\ reports = Merge([f \in {d.fx[e].fence} |-> "ambiguous"], d.fx[e].reports)
         /\ Adds(reports, d.fx[e].reports, d.fx[e].fence, "ambiguous")
  BY MergeAdds
<1>2. PICK claims : claims = [d.claims EXCEPT ![e] = [@ EXCEPT !.state = "revoked"]]
  OBVIOUS
<1>3. PICK r : r = [d.fx[e] EXCEPT !.reports = reports, !.state = "ambiguous"]
  OBVIOUS
<1>4. d2 = [d EXCEPT !.fx[e] = [d.fx[e] EXCEPT !.reports = reports, !.state = "ambiguous"],
                     !.claims[e] = [@ EXCEPT !.state = "revoked"]]
  BY <1>1 DEF Revoked, RevokedTo, DocShape
<1>5. d2 = [d EXCEPT !.fx[e] = r, !.claims[e] = [@ EXCEPT !.state = "revoked"]]
  BY <1>3, <1>4
<1>6. d2 = [cp |-> d.cp, pinned |-> d.pinned, fx |-> [d.fx EXCEPT ![e] = r], claims |-> claims,
            evidence |-> d.evidence, answers |-> d.answers, responses |-> d.responses]
  BY <1>2, <1>5 DEF DocShape
<1>7. Shape(r)
  BY <1>3 DEF Shape
<1>8. /\ Edited(d, d2, e) /\ d2.fx[e] = r /\ d2.cp = d.cp /\ d2.claims = claims
      /\ d2.evidence = d.evidence /\ d2.answers = d.answers /\ d2.pinned = d.pinned
  BY <1>6, <1>7, EditedDoc
<1>. QED
  BY <1>1, <1>2, <1>3, <1>8 DEF RevokedFrom

\* d2 is d with e cancelled.
CancelledFrom(d, d2, op, e) ==
    /\ Edited(d, d2, e)
    /\ d2.cp = d.cp /\ d2.pinned = d.pinned /\ d2.claims = d.claims /\ d2.evidence = d.evidence
    /\ d2.answers = d.answers
    /\ IF MayPrevent(d, e)
       THEN d2.fx[e] = [d.fx[e] EXCEPT
                          !.state = "outcome_recorded",
                          !.outcome = [kind |-> "cancelled", fence |-> 0],
                          !.cancel = [op |-> op, state |-> "prevented_start"]]
       ELSE d2.fx[e] = [d.fx[e] EXCEPT
                          !.cancel = [op |-> op, state |-> "reconciliation_required"]]

\* A cancellation decides what was never claimed, and else notes that it came late.
LEMMA CancelledIs ==
    ASSUME NEW d, NEW e, Editable(d, e), NEW op,
           NEW d2, d2 = Cancelled(d, op, e)
    PROVE  CancelledFrom(d, d2, op, e)
<1>. /\ DocShape(d) /\ d.fx = [x \in DOMAIN d.fx |-> d.fx[x]]
     /\ e \in DOMAIN d.fx /\ Shape(d.fx[e])
  BY DEF Editable
<1>1. PICK verdict : verdict = IF MayPrevent(d, e) THEN "prevented_start"
                               ELSE "reconciliation_required"
  OBVIOUS
<1>2. PICK cancel : cancel = [op |-> op, state |-> verdict]
  OBVIOUS
<1>3. PICK responses : responses = Merge([o \in {op} |-> verdict], d.responses)
  OBVIOUS
<1>4. PICK noted : noted = IF MayPrevent(d, e) THEN Decided(d, e, "cancelled", 0) ELSE d
  OBVIOUS
<1>5. d2 = [noted EXCEPT !.fx[e].cancel = cancel,
                         !.responses = Merge([o \in {op} |-> verdict], @)]
  BY <1>1, <1>2, <1>4, Zenon DEF Cancelled
<1>6. PICK r : r = IF MayPrevent(d, e)
                   THEN [d.fx[e] EXCEPT !.state = "outcome_recorded",
                                        !.outcome = [kind |-> "cancelled", fence |-> 0]]
                   ELSE d.fx[e]
  OBVIOUS
<1>7. PICK fx1 : fx1 = [d.fx EXCEPT ![e] = r]
  OBVIOUS
<1>8. noted = [cp |-> d.cp, pinned |-> d.pinned, fx |-> fx1, claims |-> d.claims,
               evidence |-> d.evidence, answers |-> d.answers, responses |-> d.responses]
  <2>1. CASE MayPrevent(d, e)
    <3>1. noted = [d EXCEPT !.fx[e] = r]
      BY <1>4, <1>6, <2>1 DEF Decided, DocShape
    <3>. QED
      BY <1>7, <3>1 DEF DocShape
  <2>2. CASE ~MayPrevent(d, e)
    <3>1. fx1 = d.fx
      BY <1>6, <1>7, <2>2
    <3>2. noted = d
      BY <1>4, <2>2
    <3>. QED
      BY <3>1, <3>2 DEF DocShape
  <2>. QED
    BY <2>1, <2>2
<1>9. Shape(r)
  <2>1. CASE MayPrevent(d, e)
    BY <1>6, <2>1 DEF Shape
  <2>2. CASE ~MayPrevent(d, e)
    BY <1>6, <2>2
  <2>. QED
    BY <2>1, <2>2
<1>10. PICK s : s = [r EXCEPT !.cancel = cancel]
  OBVIOUS
<1>11. Shape(s)
  BY <1>9, <1>10 DEF Shape
<1>12. [fx1 EXCEPT ![e].cancel = cancel] = [d.fx EXCEPT ![e] = s]
  BY <1>7, <1>10
<1>13. d2 = [cp |-> d.cp, pinned |-> d.pinned, fx |-> [d.fx EXCEPT ![e] = s],
             claims |-> d.claims, evidence |-> d.evidence, answers |-> d.answers,
             responses |-> responses]
  BY <1>3, <1>5, <1>8, <1>12
<1>14. /\ Edited(d, d2, e) /\ d2.fx[e] = s
       /\ d2.cp = d.cp /\ d2.claims = d.claims /\ d2.evidence = d.evidence
       /\ d2.answers = d.answers /\ d2.pinned = d.pinned
  BY <1>11, <1>13, EditedDoc
<1>15. IF MayPrevent(d, e)
       THEN s = [d.fx[e] EXCEPT !.state = "outcome_recorded",
                                !.outcome = [kind |-> "cancelled", fence |-> 0],
                                !.cancel = [op |-> op, state |-> "prevented_start"]]
       ELSE s = [d.fx[e] EXCEPT !.cancel = [op |-> op, state |-> "reconciliation_required"]]
  BY <1>1, <1>2, <1>6, <1>10
<1>. QED
  BY <1>14, <1>15 DEF CancelledFrom

\* An acknowledgement concerns the checkpoint: one effect less to deliver.
LEMMA AcknowledgedIs ==
    ASSUME NEW d, DocShape(d), Shaped(d.cp), ReceiptsShaped(d.cp), NEW e, NEW outcome,
           NEW d2, d2 = Acknowledged(d, e, outcome)
    PROVE  /\ DocShape(d2) /\ d2.fx = d.fx /\ d2.claims = d.claims
           /\ d2.evidence = d.evidence /\ d2.answers = d.answers
           /\ Shaped(d2.cp) /\ d2.cp.receipts = d.cp.receipts
           /\ DOMAIN d2.cp.pendingFx \subseteq DOMAIN d.cp.pendingFx
           /\ d2.pinned = d2.cp.revision
<1>1. PICK m : m = Mutated(d.cp)
  OBVIOUS
<1>2. Shaped(m) /\ m.receipts = d.cp.receipts /\ m.pendingFx = d.cp.pendingFx
  BY <1>1 DEF Mutated, Shaped, Fields
<1>3. PICK pending : pending = Restrict(m.pendingFx, DOMAIN m.pendingFx \ {e})
  OBVIOUS
<1>4. DOMAIN pending \subseteq DOMAIN m.pendingFx
  BY <1>3 DEF Restrict
<1>5. PICK terminal : terminal = Merge([x \in {e} |-> [seq |-> d.cp.nextFx, outcome |-> outcome]],
                                       m.terminalFx)
  OBVIOUS
<1>6. PICK c : c = [m EXCEPT !.pendingFx = pending, !.terminalFx = terminal, !.nextFx = @ + 1]
  OBVIOUS
<1>7. Shaped(c) /\ c.receipts = m.receipts /\ c.pendingFx = pending
  BY <1>2, <1>6 DEF Shaped, Fields
<1>8. d2 = [d EXCEPT !.cp = c, !.pinned = c.revision]
  BY <1>1, <1>2, <1>3, <1>5, <1>6 DEF Acknowledged, Shaped, Fields
<1>9. /\ DocShape(d2) /\ d2.cp = c /\ d2.fx = d.fx /\ d2.claims = d.claims
      /\ d2.evidence = d.evidence /\ d2.answers = d.answers /\ d2.pinned = c.revision
  BY <1>8 DEF DocShape
<1>. QED
  BY <1>2, <1>4, <1>7, <1>9

\* d2 is d with checkpoint c and a record for every effect of it.
ProducedFrom(d, d2, c) ==
    /\ DocShape(d2) /\ d2.cp = c /\ d2.pinned = c.revision /\ d2.claims = d.claims
    /\ d2.evidence = d.evidence /\ d2.answers = d.answers
    /\ DOMAIN d2.fx = DOMAIN d.fx \cup DOMAIN c.pendingFx
    /\ d2.fx = [x \in DOMAIN d2.fx |-> d2.fx[x]]
    /\ \A x \in DOMAIN d.fx : d2.fx[x] = d.fx[x]
    /\ \A x \in DOMAIN d2.fx \ DOMAIN d.fx : d2.fx[x] = Unclaimed

\* A step gives every effect that is new a record.
LEMMA ProducedIs ==
    ASSUME NEW d, DocShape(d), NEW op, NEW c, NEW d2, d2 = Produced(d, op, c)
    PROVE  ProducedFrom(d, d2, c)
<1>1. PICK fx : fx = Merge(d.fx, [e \in DOMAIN c.pendingFx \ DOMAIN d.fx |-> Unclaimed])
  OBVIOUS
<1>2. PICK responses : responses = Merge([o \in {op} |-> "processing"], d.responses)
  OBVIOUS
<1>3. d2 = [d EXCEPT !.cp = c, !.pinned = c.revision, !.fx = fx, !.responses = responses]
  BY <1>1, <1>2 DEF Produced, DocShape
<1>4. /\ DocShape(d2) /\ d2.cp = c /\ d2.fx = fx /\ d2.claims = d.claims
      /\ d2.evidence = d.evidence /\ d2.answers = d.answers /\ d2.pinned = c.revision
  BY <1>3 DEF DocShape
<1>. HIDE DEF Unclaimed
<1>5. /\ DOMAIN fx = DOMAIN d.fx \cup DOMAIN c.pendingFx
      /\ fx = [x \in DOMAIN fx |-> fx[x]]
      /\ \A x \in DOMAIN d.fx : fx[x] = d.fx[x]
      /\ \A x \in DOMAIN fx \ DOMAIN d.fx : fx[x] = Unclaimed
  BY <1>1 DEF Merge
<1>. QED
  BY <1>4, <1>5 DEF ProducedFrom

-----------------------------------------------------------------------------
(* What every operation keeps.                                             *)

\* The record goes on from r to s: fences and reports only come in addition, and
\* a decision stays.
Continues(r, s) ==
    /\ r.fence <= s.fence
    /\ \A f \in DOMAIN r.reports : f \in DOMAIN s.reports /\ s.reports[f] = r.reports[f]
    /\ r.outcome # Undecided => s.outcome = r.outcome
    /\ r.state = "result_admitted" => s.state = "result_admitted"

Advances(d, d2) ==
    /\ DOMAIN d.fx \subseteq DOMAIN d2.fx
    /\ \A e \in DOMAIN d.fx : Continues(d.fx[e], d2.fx[e])
    /\ \A p \in DOMAIN d.answers : p \in DOMAIN d2.answers /\ d2.answers[p] = d.answers[p]

\* No attempt is opened and no evidence added.
SameAttempts(d, d2) ==
    /\ \A x \in DOMAIN d.fx : d2.fx[x].fence = d.fx[x].fence
    /\ DOMAIN d2.claims = DOMAIN d.claims
    /\ \A x \in DOMAIN d.claims : d2.claims[x].worker = d.claims[x].worker
    /\ d2.evidence = d.evidence

\* What is left alone goes on.
LEMMA SameContinues == ASSUME NEW r, RecordSound(r) PROVE Continues(r, r)
  BY DEF RecordSound, Continues

\* An answer stays true while records go on.
LEMMA AnswerStays ==
    ASSUME NEW d, NEW d2, DocSound(d), Advances(d, d2), NEW p \in DOMAIN d.answers
    PROVE  /\ p = <<p[1], p[2]>> /\ p[1] \in DOMAIN d2.fx
           /\ Committed(d2, p) \/ Noted(d2, p)
<1>1. /\ p = <<p[1], p[2]>> /\ p[1] \in DOMAIN d.fx
      /\ Committed(d, p) \/ Noted(d, p)
  BY DEF DocSound, AnswersSound
<1>2. PICK r, s : r = d.fx[p[1]] /\ s = d2.fx[p[1]]
  OBVIOUS
<1>3. Continues(r, s) /\ p[1] \in DOMAIN d2.fx /\ d2.answers[p] = d.answers[p]
  BY <1>1, <1>2 DEF Advances
<1>4. RecordSound(r)
  BY <1>1, <1>2 DEF DocSound
<1>5. Committed(d, p) => Committed(d2, p)
  BY <1>2, <1>3, <1>4 DEF Committed, Continues, RecordSound
<1>6. Noted(d, p) => Noted(d2, p)
  BY <1>2, <1>3 DEF Noted, Continues
<1>. QED
  BY <1>1, <1>3, <1>5, <1>6

\* So do all of them, when there is no new one.
LEMMA AnswersStay ==
    ASSUME NEW d, NEW d2, DocSound(d), Advances(d, d2), d2.answers = d.answers
    PROVE  AnswersSound(d2)
<1>1. d2.answers = [p \in DOMAIN d2.answers |-> d2.answers[p]]
  BY DEF DocSound, AnswersSound
<1>. QED
  BY <1>1, AnswerStays DEF AnswersSound

\* And when there is a new one that is true.
LEMMA AnswersGrow ==
    ASSUME NEW d, NEW d2, DocSound(d), Advances(d, d2), NEW e, NEW f, NEW a,
           Adds(d2.answers, d.answers, <<e, f>>, a), e \in DOMAIN d2.fx,
           Committed(d2, <<e, f>>) \/ Noted(d2, <<e, f>>)
    PROVE  AnswersSound(d2)
<1>1. d2.answers = [p \in DOMAIN d2.answers |-> d2.answers[p]]
      /\ DOMAIN d2.answers = DOMAIN d.answers \cup {<<e, f>>}
  BY DEF Adds
<1>2. PICK q : q = <<e, f>>
  OBVIOUS
<1>3. q = <<q[1], q[2]>> /\ q[1] \in DOMAIN d2.fx /\ (Committed(d2, q) \/ Noted(d2, q))
  BY <1>2
<1>. QED
  BY <1>1, <1>2, <1>3, AnswerStays DEF AnswersSound

\* A document is sound if the one record replaced is, and what goes with it.
LEMMA EditedSound ==
    ASSUME NEW d, DocSound(d), NEW e \in DOMAIN d.fx, NEW d2, Edited(d, d2, e),
           Shaped(d2.cp), ReceiptsShaped(d2.cp),
           DOMAIN d2.cp.pendingFx \subseteq DOMAIN d.cp.pendingFx,
           RecordSound(d2.fx[e]), ClaimsSound(d2), AnswersSound(d2), JournalValid(d2)
    PROVE  DocSound(d2)
<1>1. \A x \in DOMAIN d2.fx : RecordSound(d2.fx[x])
  BY DEF DocSound, Edited
<1>. QED
  BY <1>1 DEF DocSound, Edited

\* One record that goes on makes the document go on, answers apart.
LEMMA EditedAdvances ==
    ASSUME NEW d, DocSound(d), NEW e \in DOMAIN d.fx, NEW d2, Edited(d, d2, e),
           Continues(d.fx[e], d2.fx[e]),
           \A p \in DOMAIN d.answers : p \in DOMAIN d2.answers /\ d2.answers[p] = d.answers[p]
    PROVE  Advances(d, d2)
<1>1. \A x \in DOMAIN d.fx : Continues(d.fx[x], d2.fx[x])
  BY SameContinues DEF DocSound, Edited
<1>. QED
  BY <1>1 DEF Advances, Edited

\* What is under way stays recorded.
LEMMA InflightStays ==
    ASSUME NEW d, NEW d2, Advances(d, d2), NEW under, InflightSound(d, under)
    PROVE  InflightSound(d2, under)
  BY DEF Advances, Continues, InflightSound

\* What was told stays the answer kept.
LEMMA ToldStays ==
    ASSUME NEW d, NEW d2, DocSound(d), Advances(d, d2), NEW answered, ToldSound(d, answered)
    PROVE  ToldSound(d2, answered)
<1>1. ASSUME NEW t \in DOMAIN answered, t[3] \in OutcomeKinds
      PROVE  /\ t = <<t[1], t[2], t[3]>> /\ <<t[1], t[2]>> \in DOMAIN d2.answers
             /\ answered[t] = {d2.answers[<<t[1], t[2]>>]}
             /\ t[2] \in DOMAIN d2.fx[t[1]].reports /\ d2.fx[t[1]].reports[t[2]] = t[3]
  <2>1. PICK p : p = <<t[1], t[2]>>
    OBVIOUS
  <2>2. /\ t = <<t[1], t[2], t[3]>> /\ p \in DOMAIN d.answers
        /\ answered[t] = {d.answers[p]}
        /\ t[2] \in DOMAIN d.fx[t[1]].reports /\ d.fx[t[1]].reports[t[2]] = t[3]
    BY <1>1, <2>1 DEF ToldSound
  <2>3. t[1] \in DOMAIN d.fx
    BY <2>1, <2>2 DEF DocSound, AnswersSound
  <2>4. Continues(d.fx[t[1]], d2.fx[t[1]])
    BY <2>3 DEF Advances
  <2>. QED
    BY <2>1, <2>2, <2>4 DEF Advances, Continues
<1>. QED
  BY <1>1 DEF ToldSound

\* A sound document can be edited.
LEMMA SoundEditable ==
    ASSUME NEW d, DocSound(d), NEW e \in DOMAIN d.fx
    PROVE  Editable(d, e)
  BY DEF DocSound, Editable, RecordSound

\* The step of one record that claims it.
LEMMA ClaimedRecord ==
    ASSUME NEW r, RecordSound(r), r.state \in {"unclaimed", "ambiguous"},
           NEW s, s = [r EXCEPT !.fence = r.fence + 1, !.state = "leased"]
    PROVE  RecordSound(s) /\ Continues(r, s)
<1>1. /\ Shape(s) /\ s.fence = r.fence + 1 /\ s.state = "leased" /\ s.reports = r.reports
      /\ s.outcome = r.outcome /\ s.cancel = r.cancel
  BY DEF RecordSound, Shape
<1>2. r.fence \in Nat /\ DOMAIN r.reports \subseteq 1 .. r.fence
  BY DEF RecordSound
<1>3. s.fence \in Nat /\ s.fence > 0 /\ DOMAIN s.reports \subseteq 1 .. s.fence
      /\ s.fence \notin DOMAIN s.reports /\ r.fence <= s.fence
  BY <1>1, <1>2
<1>4. r.outcome = Undecided /\ r.cancel.state # "prevented_start"
  BY DEF RecordSound
<1>5. \A f \in DOMAIN r.reports : r.reports[f] \in OutcomeKinds =>
         r.outcome = [kind |-> r.reports[f], fence |-> f]
  BY DEF RecordSound
<1>6. r.reports = [f \in DOMAIN r.reports |-> r.reports[f]]
  BY DEF RecordSound
<1>7. RecordSound(s)
  BY <1>1, <1>3, <1>4, <1>5, <1>6 DEF RecordSound, States
<1>. QED
  BY <1>1, <1>3, <1>4, <1>7 DEF Continues

\* The evidence a claim of e leaves.
EvidenceWith(d, e, proof) ==
    IF proof THEN d.evidence \cup {<<e, d.fx[e].fence + 1>>} ELSE d.evidence

\* Of the claims, the one of e is a new one by w.
Reclaimed(d, d2, w, e) ==
    /\ DOMAIN d2.claims = DOMAIN d.claims \cup {e} /\ d2.claims[e].worker = w
    /\ \A x \in DOMAIN d.claims : x # e => d2.claims[x] = d.claims[x]

\* A claim leaves a sound document.
LEMMA ClaimSound ==
    ASSUME NEW d, DocSound(d), NEW w, NEW e \in DOMAIN d.fx, NEW proof \in BOOLEAN,
           MayClaim(d, e, proof),
           NEW d2, d2 = ClaimIssued(d, w, e, proof), JournalValid(d2)
    PROVE  /\ DocSound(d2) /\ Advances(d, d2) /\ Edited(d, d2, e)
           /\ d2.fx[e].state = "leased" /\ d2.fx[e].fence = d.fx[e].fence + 1
           /\ d2.fx[e].outcome = d.fx[e].outcome
           /\ Reclaimed(d, d2, w, e) /\ d2.evidence = EvidenceWith(d, e, proof)
           /\ d2.cp = d.cp
<1>1. PICK r, s : r = d.fx[e] /\ s = d2.fx[e]
  OBVIOUS
<1>2. RecordSound(r)
  BY <1>1 DEF DocSound
<1>3. /\ Edited(d, d2, e)
      /\ d2.cp = d.cp /\ d2.answers = d.answers
      /\ s = [r EXCEPT !.fence = r.fence + 1, !.state = "leased"]
      /\ Adds(d2.claims, d.claims, e, Claim(w, r.fence + 1))
  <2>1. ClaimedFrom(d, d2, w, e, proof)
    BY ClaimIssuedIs, SoundEditable
  <2>. QED
    BY <1>1, <2>1 DEF ClaimedFrom
<1>4. r.state \in {"unclaimed", "ambiguous"}
  BY <1>1 DEF MayClaim
<1>5. RecordSound(s) /\ Continues(r, s)
  BY <1>2, <1>3, <1>4, ClaimedRecord
<1>6. s.fence = r.fence + 1 /\ s.fence > 0
  BY <1>2, <1>3 DEF RecordSound, Shape
<1>7. Advances(d, d2)
  BY <1>1, <1>3, <1>5, EditedAdvances
<1>8. AnswersSound(d2)
  BY <1>3, <1>7, AnswersStay
<1>9. ClaimsSound(d2)
  <2>1. PICK claim : claim = Claim(w, r.fence + 1)
    OBVIOUS
  <2>2. /\ DOMAIN d2.claims = DOMAIN d.claims \cup {e} /\ d2.claims[e] = claim
        /\ \A x \in DOMAIN d.claims : x # e => d2.claims[x] = d.claims[x]
        /\ d2.claims = [x \in DOMAIN d2.claims |-> d2.claims[x]]
    BY <1>3, <2>1 DEF Adds
  <2>3. DOMAIN d2.fx = DOMAIN d.fx /\ \A x \in DOMAIN d.fx : x # e => d2.fx[x] = d.fx[x]
    BY <1>3 DEF Edited
  <2>4. DOMAIN d.claims = {x \in DOMAIN d.fx : d.fx[x].fence > 0}
    BY DEF DocSound, ClaimsSound
  <2>5. DOMAIN d2.claims = {x \in DOMAIN d2.fx : d2.fx[x].fence > 0}
    BY <1>1, <1>6, <2>2, <2>3, <2>4
  <2>6. claim = [worker |-> claim.worker, fence |-> s.fence, state |-> claim.state]
        /\ claim.state = "active"
    BY <1>6, <2>1 DEF Claim
  <2>7. ASSUME NEW x \in DOMAIN d2.claims
        PROVE  /\ d2.claims[x] = [worker |-> d2.claims[x].worker, fence |-> d2.fx[x].fence,
                                  state |-> d2.claims[x].state]
               /\ d2.fx[x].state = "leased" => d2.claims[x].state = "active"
    <3>1. CASE x = e
      BY <1>1, <2>2, <2>6, <3>1
    <3>2. CASE x # e
      <4>1. x \in DOMAIN d.claims /\ d2.claims[x] = d.claims[x] /\ d2.fx[x] = d.fx[x]
        BY <2>2, <2>3, <2>4, <2>7, <3>2
      <4>. QED
        BY <4>1 DEF DocSound, ClaimsSound
    <3>. QED
      BY <3>1, <3>2
  <2>. QED
    BY <2>2, <2>5, <2>7 DEF ClaimsSound
<1>10. /\ Shaped(d2.cp) /\ ReceiptsShaped(d2.cp)
       /\ DOMAIN d2.cp.pendingFx \subseteq DOMAIN d.cp.pendingFx
  BY <1>3 DEF DocSound
<1>11. DocSound(d2)
  BY <1>1, <1>3, <1>5, <1>7, <1>8, <1>9, <1>10, EditedSound
<1>12. s.state = "leased" /\ s.fence = r.fence + 1 /\ s.outcome = r.outcome
  BY <1>2, <1>3 DEF RecordSound, Shape
<1>13. Reclaimed(d, d2, w, e)
  BY <1>3 DEF Adds, Claim, Reclaimed
<1>14. d2.evidence = EvidenceWith(d, e, proof)
  <2>1. ClaimedFrom(d, d2, w, e, proof)
    BY ClaimIssuedIs, SoundEditable
  <2>. QED
    BY <2>1, Zenon DEF ClaimedFrom, EvidenceWith
<1>. QED
  BY <1>1, <1>3, <1>7, <1>11, <1>12, <1>13, <1>14

\* Claims stay true when the record is not claimed anew.
LEMMA ClaimsStay ==
    ASSUME NEW d, DocSound(d), NEW e \in DOMAIN d.fx, NEW d2, Edited(d, d2, e),
           d2.claims = d.claims, d2.fx[e].fence = d.fx[e].fence,
           d2.fx[e].state = "leased" => d.fx[e].state = "leased"
    PROVE  ClaimsSound(d2)
<1>1. DOMAIN d2.fx = DOMAIN d.fx /\ \A x \in DOMAIN d.fx : x # e => d2.fx[x] = d.fx[x]
  BY DEF Edited
<1>2. /\ d.claims = [x \in DOMAIN d.claims |-> d.claims[x]]
      /\ DOMAIN d.claims = {x \in DOMAIN d.fx : d.fx[x].fence > 0}
      /\ \A x \in DOMAIN d.claims :
            /\ d.claims[x] = [worker |-> d.claims[x].worker, fence |-> d.fx[x].fence,
                              state |-> d.claims[x].state]
            /\ d.fx[x].state = "leased" => d.claims[x].state = "active"
  BY DEF DocSound, ClaimsSound
<1>3. \A x \in DOMAIN d.fx : d2.fx[x].fence = d.fx[x].fence
  BY <1>1
<1>4. {x \in DOMAIN d2.fx : d2.fx[x].fence > 0} = {x \in DOMAIN d.fx : d.fx[x].fence > 0}
  BY <1>1, <1>3
<1>5. \A x \in DOMAIN d.claims : d2.fx[x].state = "leased" => d.claims[x].state = "active"
  BY <1>1, <1>2
<1>. QED
  BY <1>2, <1>3, <1>4, <1>5 DEF ClaimsSound

\* What a record s says of its attempts.
Reads(s, fence, state, reports, cancel) ==
    /\ Shape(s)
    /\ s.fence = fence /\ s.state = state /\ s.reports = reports /\ s.cancel = cancel

\* The report of an outcome decides the attempt it is about.
LEMMA DecidedRecord ==
    ASSUME NEW r, RecordSound(r), r.state = "leased", NEW k \in OutcomeKinds, NEW reports,
           Adds(reports, r.reports, r.fence, k),
           NEW s, Reads(s, r.fence, "outcome_recorded", reports, r.cancel),
           s.outcome = [kind |-> k, fence |-> r.fence]
    PROVE  RecordSound(s) /\ Continues(r, s)
<1>1. /\ Shape(s) /\ s.fence = r.fence /\ s.state = "outcome_recorded" /\ s.reports = reports
      /\ s.cancel = r.cancel
  BY DEF Reads
<1>2. r.fence \in Nat /\ r.fence > 0 /\ DOMAIN r.reports \subseteq 1 .. r.fence
      /\ r.fence \notin DOMAIN r.reports /\ r.outcome = Undecided
      /\ r.cancel.state # "prevented_start"
  BY DEF RecordSound
<1>3. /\ DOMAIN reports = DOMAIN r.reports \cup {r.fence} /\ reports[r.fence] = k
      /\ \A f \in DOMAIN r.reports : reports[f] = r.reports[f]
      /\ reports = [f \in DOMAIN reports |-> reports[f]]
  BY <1>2 DEF Adds
<1>4. s.outcome # Undecided /\ s.outcome.kind = k
  BY <1>1, <1>2 DEF Undecided, None
<1>5. \A f \in DOMAIN r.reports : r.reports[f] \notin OutcomeKinds
  <2>1. \A f \in DOMAIN r.reports :
           r.reports[f] \in OutcomeKinds => r.outcome = [kind |-> r.reports[f], fence |-> f]
    BY DEF RecordSound
  <2>2. r.outcome.fence = -1
    BY <1>2 DEF Undecided, None
  <2>3. ASSUME NEW f \in DOMAIN r.reports, r.reports[f] \in OutcomeKinds
        PROVE  FALSE
    <3>0. PICK kind : kind = r.reports[f]
      OBVIOUS
    <3>1. r.outcome = [kind |-> kind, fence |-> f]
      BY <2>1, <2>3, <3>0
    <3>. QED
      BY <1>2, <2>2, <2>3, <3>1
  <2>. QED
    BY <2>3
<1>6. \A f \in DOMAIN reports :
         reports[f] \in OutcomeKinds => s.outcome = [kind |-> reports[f], fence |-> f]
  BY <1>1, <1>3, <1>5
<1>7. RecordSound(s)
  BY <1>1, <1>2, <1>3, <1>4, <1>6 DEF RecordSound, States
<1>. QED
  BY <1>1, <1>2, <1>3, <1>7 DEF Continues

\* Any other report closes the attempt and decides nothing.
LEMMA ClosedRecord ==
    ASSUME NEW r, RecordSound(r), r.state = "leased", NEW k, k \notin OutcomeKinds, NEW reports,
           Adds(reports, r.reports, r.fence, k), NEW state \in {"unclaimed", "ambiguous"},
           NEW s, Reads(s, r.fence, state, reports, r.cancel), s.outcome = r.outcome
    PROVE  RecordSound(s) /\ Continues(r, s)
<1>1. /\ Shape(s) /\ s.fence = r.fence /\ s.state = state /\ s.reports = reports
      /\ s.cancel = r.cancel
  BY DEF Reads
<1>2. r.fence \in Nat /\ r.fence > 0 /\ DOMAIN r.reports \subseteq 1 .. r.fence
      /\ r.fence \notin DOMAIN r.reports /\ r.outcome = Undecided
      /\ r.cancel.state # "prevented_start"
  BY DEF RecordSound
<1>3. /\ DOMAIN reports = DOMAIN r.reports \cup {r.fence} /\ reports[r.fence] = k
      /\ \A f \in DOMAIN r.reports : reports[f] = r.reports[f]
      /\ reports = [f \in DOMAIN reports |-> reports[f]]
  BY <1>2 DEF Adds
<1>4. \A f \in DOMAIN r.reports :
         r.reports[f] \in OutcomeKinds => r.outcome = [kind |-> r.reports[f], fence |-> f]
  BY DEF RecordSound
<1>5. \A f \in DOMAIN reports :
         reports[f] \in OutcomeKinds => s.outcome = [kind |-> reports[f], fence |-> f]
  BY <1>1, <1>3, <1>4
<1>6. RecordSound(s)
  BY <1>1, <1>2, <1>3, <1>5 DEF RecordSound, States
<1>. QED
  BY <1>1, <1>2, <1>3, <1>6 DEF Continues

\* A report leaves a sound document.
LEMMA ReportSound ==
    ASSUME NEW d, DocSound(d), NEW e \in DOMAIN d.fx, NEW f, f = d.fx[e].fence,
           f \notin DOMAIN d.fx[e].reports, d.fx[e].state = "leased", NEW k,
           NEW d2, d2 = Reported(d, e, f, k), JournalValid(d2)
    PROVE  /\ DocSound(d2) /\ Advances(d, d2) /\ Edited(d, d2, e) /\ SameAttempts(d, d2)
           /\ f \in DOMAIN d2.fx[e].reports /\ d2.fx[e].reports[f] = k
           /\ d2.fx[e].state = "unclaimed" => k = "retryable_failure"
           /\ d2.fx[e].state # "result_admitted"
           /\ IF k \in OutcomeKinds THEN d2.fx[e].outcome = [kind |-> k, fence |-> f]
              ELSE d2.fx[e].outcome = Undecided
           /\ d2.cp = d.cp
<1>1. PICK r, s : r = d.fx[e] /\ s = d2.fx[e]
  OBVIOUS
<1>2. RecordSound(r)
  BY <1>1 DEF DocSound
<1>3. ReportedFrom(d, d2, e, f, k)
  BY ReportedIs, SoundEditable
<1>4. Edited(d, d2, e) /\ d2.cp = d.cp /\ d2.claims = d.claims
  BY <1>3 DEF ReportedFrom
<1>5. PICK reports :
         /\ Adds(reports, r.reports, r.fence, k)
         /\ IF k \in OutcomeKinds
            THEN /\ d2.answers = d.answers
                 /\ s = [r EXCEPT !.reports = reports, !.state = "outcome_recorded",
                                  !.outcome = [kind |-> k, fence |-> r.fence]]
            ELSE /\ Adds(d2.answers, d.answers, <<e, f>>, ReportAnswer(d))
                 /\ s = [r EXCEPT !.reports = reports,
                                  !.state = IF k = "retryable_failure" THEN "unclaimed"
                                            ELSE "ambiguous"]
  BY <1>1, <1>3, Zenon DEF ReportedFrom
<1>6. RecordSound(s) /\ Continues(r, s)
  <2>0. Shape(r)
    BY <1>2 DEF RecordSound
  <2>1. CASE k \in OutcomeKinds
    <3>1. /\ Reads(s, r.fence, "outcome_recorded", reports, r.cancel)
          /\ s.outcome = [kind |-> k, fence |-> r.fence]
      BY <1>5, <2>0, <2>1 DEF Reads, Shape
    <3>2. Adds(reports, r.reports, r.fence, k) /\ r.state = "leased"
      BY <1>1, <1>5
    <3>. QED
      BY <1>2, <2>1, <3>1, <3>2, DecidedRecord
  <2>2. CASE k \notin OutcomeKinds
    <3>1. PICK state : state = IF k = "retryable_failure" THEN "unclaimed" ELSE "ambiguous"
      OBVIOUS
    <3>2. state \in {"unclaimed", "ambiguous"}
      BY <3>1
    <3>3. s = [r EXCEPT !.reports = reports, !.state = state]
      BY <1>5, <2>2, <3>1
    <3>4. Reads(s, r.fence, state, reports, r.cancel) /\ s.outcome = r.outcome
      BY <2>0, <3>3 DEF Reads, Shape
    <3>5. Adds(reports, r.reports, r.fence, k) /\ r.state = "leased"
      BY <1>1, <1>5
    <3>. QED
      BY <1>2, <2>2, <3>2, <3>4, <3>5, ClosedRecord
  <2>. QED
    BY <2>1, <2>2
<1>7. s.fence = r.fence /\ s.state # "leased" /\ (k \notin OutcomeKinds => s.reports = reports)
  <2>1. Shape(r)
    BY <1>2 DEF RecordSound
  <2>2. CASE k \in OutcomeKinds
    BY <1>5, <2>1, <2>2 DEF Shape
  <2>3. CASE k \notin OutcomeKinds
    BY <1>5, <2>1, <2>3 DEF Shape
  <2>. QED
    BY <2>2, <2>3
<1>8. ClaimsSound(d2)
  BY <1>1, <1>4, <1>7, ClaimsStay
<1>9. \A p \in DOMAIN d.answers : p \in DOMAIN d2.answers /\ d2.answers[p] = d.answers[p]
  <2>1. CASE k \in OutcomeKinds
    BY <1>5, <2>1
  <2>2. CASE k \notin OutcomeKinds
    <3>1. PICK q : q = <<e, f>>
      OBVIOUS
    <3>2. q \notin DOMAIN d.answers
      BY <3>1 DEF DocSound, AnswersSound, Committed, Noted
    <3>. QED
      BY <1>5, <2>2, <3>1, <3>2 DEF Adds
  <2>. QED
    BY <2>1, <2>2
<1>10. Advances(d, d2)
  BY <1>1, <1>4, <1>6, <1>9, EditedAdvances
<1>11. AnswersSound(d2)
  <2>1. CASE k \in OutcomeKinds
    BY <1>5, <1>10, <2>1, AnswersStay
  <2>2. CASE k \notin OutcomeKinds
    <3>1. PICK q : q = <<e, f>>
      OBVIOUS
    <3>2. d2.answers[q] = ReportAnswer(d)
      BY <1>5, <2>2, <3>1 DEF Adds
    <3>3. s.reports[f] = k /\ f \in DOMAIN s.reports
      BY <1>1, <1>5, <1>7, <2>2 DEF Adds
    <3>4. Noted(d2, q)
      BY <1>1, <2>2, <3>1, <3>2, <3>3 DEF Noted, ReportAnswer
    <3>5. e \in DOMAIN d2.fx
      BY <1>4 DEF Edited
    <3>. QED
      BY <1>5, <1>10, <2>2, <3>1, <3>4, <3>5, AnswersGrow
  <2>. QED
    BY <2>1, <2>2
<1>12. /\ Shaped(d2.cp) /\ ReceiptsShaped(d2.cp)
       /\ DOMAIN d2.cp.pendingFx \subseteq DOMAIN d.cp.pendingFx
  BY <1>4 DEF DocSound
<1>13. DocSound(d2)
  BY <1>1, <1>4, <1>6, <1>8, <1>10, <1>11, <1>12, EditedSound
<1>14. SameAttempts(d, d2)
  <2>1. d2.evidence = d.evidence
    BY <1>3 DEF ReportedFrom
  <2>. QED
    BY <1>1, <1>4, <1>7, <2>1 DEF SameAttempts, Edited
<1>15. Shape(r) /\ r.outcome = Undecided
  BY <1>1, <1>2 DEF RecordSound
<1>16. f \in DOMAIN s.reports /\ s.reports[f] = k
  <2>1. s.reports = reports
    <3>1. CASE k \in OutcomeKinds
      BY <1>5, <1>15, <3>1 DEF Shape
    <3>2. CASE k \notin OutcomeKinds
      BY <1>7, <3>2
    <3>. QED
      BY <3>1, <3>2
  <2>. QED
    BY <1>1, <1>5, <2>1 DEF Adds
<1>17. /\ s.state = "unclaimed" => k = "retryable_failure"
       /\ s.state # "result_admitted"
       /\ IF k \in OutcomeKinds THEN s.outcome = [kind |-> k, fence |-> r.fence]
          ELSE s.outcome = Undecided
  <2>1. CASE k \in OutcomeKinds
    BY <1>5, <1>15, <2>1 DEF Shape
  <2>2. CASE k \notin OutcomeKinds
    BY <1>5, <1>15, <2>2 DEF Shape
  <2>. QED
    BY <2>1, <2>2
<1>. QED
  BY <1>1, <1>4, <1>10, <1>13, <1>14, <1>16, <1>17

\* The record of an admitted outcome.
LEMMA AdmittedRecord ==
    ASSUME NEW r, RecordSound(r), r.state = "outcome_recorded",
           NEW s, Reads(s, r.fence, "result_admitted", r.reports, r.cancel), s.outcome = r.outcome
    PROVE  RecordSound(s) /\ Continues(r, s)
<1>1. /\ Shape(s) /\ s.fence = r.fence /\ s.state = "result_admitted" /\ s.reports = r.reports
      /\ s.cancel = r.cancel
  BY DEF Reads
<1>2. r.outcome # Undecided /\ (r.fence > 0 => r.fence \in DOMAIN r.reports)
  BY DEF RecordSound
<1>3. RecordSound(s)
  BY <1>1, <1>2 DEF RecordSound, States
<1>. QED
  BY <1>1, <1>3 DEF Continues, RecordSound

\* An admission leaves a sound document.
LEMMA AdmitSound ==
    ASSUME NEW d, DocSound(d), NEW e \in DOMAIN d.fx, d.fx[e].state = "outcome_recorded",
           NEW d2, d2 = ResultAdmitted(d, e), JournalValid(d2)
    PROVE  /\ DocSound(d2) /\ Advances(d, d2)
           /\ d2.fx[e].state = "result_admitted" /\ d2.fx[e].outcome = d.fx[e].outcome
           /\ <<e, d.fx[e].outcome.fence>> \in DOMAIN d2.answers
           /\ Edited(d, d2, e) /\ SameAttempts(d, d2)
           /\ d2.cp = Admitted(d.cp, <<ResultDelivery(e, d.fx[e].outcome.kind)>>)
<1>1. PICK r, s : r = d.fx[e] /\ s = d2.fx[e]
  OBVIOUS
<1>2. RecordSound(r) /\ Shape(r)
  BY <1>1 DEF DocSound, RecordSound
<1>3. AdmittedFrom(d, d2, e)
  BY ResultAdmittedIs, SoundEditable
<1>4. Edited(d, d2, e) /\ d2.claims = d.claims /\ d2.evidence = d.evidence
  BY <1>3 DEF AdmittedFrom
<1>5. PICK out, a : /\ out = r.outcome
                    /\ a = [status |-> "committed", revision |-> d2.cp.revision]
  OBVIOUS
<1>6. /\ Adds(d2.answers, d.answers, <<e, out.fence>>, a)
      /\ d2.cp = Admitted(d.cp, <<ResultDelivery(e, out.kind)>>)
  BY <1>1, <1>3, <1>5 DEF AdmittedFrom
<1>7. Reads(s, r.fence, "result_admitted", r.reports, r.cancel) /\ s.outcome = r.outcome
  <2>1. s = [r EXCEPT !.state = "result_admitted", !.receipt = d.cp.next]
    BY <1>1, <1>3 DEF AdmittedFrom
  <2>. QED
    BY <1>2, <2>1 DEF Reads, Shape
<1>8. RecordSound(s) /\ Continues(r, s)
  BY <1>1, <1>2, <1>7, AdmittedRecord
<1>9. ClaimsSound(d2)
  BY <1>1, <1>4, <1>7, ClaimsStay DEF Reads
<1>10. PICK q : q = <<e, out.fence>>
  OBVIOUS
<1>11. q \notin DOMAIN d.answers
  <2>1. SUFFICES ASSUME q \in DOMAIN d.answers PROVE FALSE
    OBVIOUS
  <2>2. q[1] = e /\ q[2] = out.fence
    BY <1>10
  <2>3. Noted(d, q)
    BY <1>1, <2>1, <2>2 DEF DocSound, AnswersSound, Committed
  <2>4. out.fence \in DOMAIN r.reports /\ r.reports[out.fence] \notin OutcomeKinds
    BY <1>1, <2>2, <2>3 DEF Noted
  <2>5. OutcomeReported(r) /\ r.outcome # Undecided /\ r.outcome.kind \in OutcomeKinds
    BY <1>1, <1>2 DEF DocSound, JournalValid, RecordSound
  <2>6. r.reports # <<>>
    BY <2>4
  <2>. QED
    BY <1>5, <2>4, <2>5, <2>6 DEF OutcomeReported
<1>12. \A p \in DOMAIN d.answers : p \in DOMAIN d2.answers /\ d2.answers[p] = d.answers[p]
  BY <1>6, <1>10, <1>11 DEF Adds
<1>13. Advances(d, d2)
  BY <1>1, <1>4, <1>8, <1>12, EditedAdvances
<1>14. q \in DOMAIN d2.answers /\ d2.answers[q] = a
  BY <1>6, <1>10 DEF Adds
<1>15. Committed(d2, q)
  <2>1. d2.answers[q].status = "committed"
    BY <1>5, <1>14
  <2>. QED
    BY <1>1, <1>5, <1>7, <1>10, <2>1 DEF Committed, Reads
<1>16. AnswersSound(d2)
  <2>1. e \in DOMAIN d2.fx
    BY <1>4 DEF Edited
  <2>. QED
    BY <1>6, <1>10, <1>13, <1>15, <2>1, AnswersGrow
<1>17. /\ Shaped(d2.cp) /\ ReceiptsShaped(d2.cp)
       /\ DOMAIN d2.cp.pendingFx \subseteq DOMAIN d.cp.pendingFx
  <2>1. Shaped(d.cp) /\ ReceiptsShaped(d.cp)
    BY DEF DocSound
  <2>2. Shaped(d2.cp) /\ SameEffects(d.cp, d2.cp)
    BY <1>6, <2>1, AdmittedShape
  <2>3. ReceiptsShaped(d2.cp)
    BY <1>6, <2>1, AdmittedReceipts
  <2>. QED
    BY <2>2, <2>3 DEF SameEffects
<1>18. DocSound(d2)
  BY <1>1, <1>4, <1>8, <1>9, <1>13, <1>16, <1>17, EditedSound
<1>19. SameAttempts(d, d2)
  BY <1>1, <1>4, <1>7 DEF SameAttempts, Edited, Reads
<1>. QED
  BY <1>1, <1>4, <1>5, <1>6, <1>7, <1>10, <1>13, <1>14, <1>18, <1>19 DEF Reads

\* Giving an attempt up leaves a sound document.
LEMMA RevokeSound ==
    ASSUME NEW d, DocSound(d), NEW e \in DOMAIN d.fx, d.fx[e].state = "leased",
           NEW d2, d2 = Revoked(d, e), JournalValid(d2)
    PROVE  /\ DocSound(d2) /\ Advances(d, d2)
           /\ Edited(d, d2, e) /\ SameAttempts(d, d2)
           /\ d2.fx[e].state = "ambiguous" /\ d2.fx[e].outcome = d.fx[e].outcome
           /\ d2.cp = d.cp
<1>1. PICK r, s : r = d.fx[e] /\ s = d2.fx[e]
  OBVIOUS
<1>2. RecordSound(r) /\ Shape(r)
  BY <1>1 DEF DocSound, RecordSound
<1>3. RevokedFrom(d, d2, e)
  BY RevokedIs, SoundEditable
<1>4. /\ Edited(d, d2, e) /\ d2.cp = d.cp /\ d2.evidence = d.evidence /\ d2.answers = d.answers
      /\ d2.claims = [d.claims EXCEPT ![e] = [@ EXCEPT !.state = "revoked"]]
  BY <1>3 DEF RevokedFrom
<1>5. PICK reports : /\ Adds(reports, r.reports, r.fence, "ambiguous")
                     /\ s = [r EXCEPT !.reports = reports, !.state = "ambiguous"]
  BY <1>1, <1>3, Zenon DEF RevokedFrom
<1>6. Reads(s, r.fence, "ambiguous", reports, r.cancel) /\ s.outcome = r.outcome
  BY <1>2, <1>5 DEF Reads, Shape
<1>7. RecordSound(s) /\ Continues(r, s)
  <2>1. "ambiguous" \notin OutcomeKinds
    BY EffectAssumption DEF OutcomeKinds
  <2>2. Adds(reports, r.reports, r.fence, "ambiguous") /\ r.state = "leased"
    BY <1>1, <1>5
  <2>. QED
    BY <1>2, <1>6, <2>1, <2>2, ClosedRecord
<1>8. /\ d.claims = [x \in DOMAIN d.claims |-> d.claims[x]]
      /\ DOMAIN d.claims = {x \in DOMAIN d.fx : d.fx[x].fence > 0}
      /\ \A x \in DOMAIN d.claims :
            /\ d.claims[x] = [worker |-> d.claims[x].worker, fence |-> d.fx[x].fence,
                              state |-> d.claims[x].state]
            /\ d.fx[x].state = "leased" => d.claims[x].state = "active"
  BY DEF DocSound, ClaimsSound
<1>9. e \in DOMAIN d.claims
  BY <1>1, <1>2, <1>8 DEF RecordSound
<1>10. PICK c, c2 : c = d.claims[e] /\ c2 = [c EXCEPT !.state = "revoked"]
  OBVIOUS
<1>11. /\ DOMAIN d2.claims = DOMAIN d.claims /\ d2.claims[e] = c2
       /\ \A x \in DOMAIN d.claims : x # e => d2.claims[x] = d.claims[x]
       /\ d2.claims = [x \in DOMAIN d2.claims |-> d2.claims[x]]
  BY <1>4, <1>9, <1>10
<1>12. c2 = [worker |-> c.worker, fence |-> s.fence, state |-> "revoked"]
  <2>1. c = [worker |-> c.worker, fence |-> r.fence, state |-> c.state]
    BY <1>1, <1>8, <1>9, <1>10
  <2>. QED
    BY <1>6, <1>10, <2>1 DEF Reads
<1>13. DOMAIN d2.fx = DOMAIN d.fx /\ \A x \in DOMAIN d.fx : x # e => d2.fx[x] = d.fx[x]
  BY <1>4 DEF Edited
<1>14. ClaimsSound(d2)
  <2>1. {x \in DOMAIN d2.fx : d2.fx[x].fence > 0} = {x \in DOMAIN d.fx : d.fx[x].fence > 0}
    BY <1>1, <1>6, <1>13 DEF Reads
  <2>2. ASSUME NEW x \in DOMAIN d.claims
        PROVE  /\ d2.claims[x] = [worker |-> d2.claims[x].worker, fence |-> d2.fx[x].fence,
                                  state |-> d2.claims[x].state]
               /\ d2.fx[x].state = "leased" => d2.claims[x].state = "active"
    <3>1. CASE x = e
      <4>1. d2.fx[x].state = "ambiguous"
        BY <1>1, <1>6, <3>1 DEF Reads
      <4>2. d2.claims[x] = [worker |-> c.worker, fence |-> d2.fx[x].fence, state |-> "revoked"]
        BY <1>1, <1>11, <1>12, <3>1
      <4>. QED
        BY <4>1, <4>2
    <3>2. CASE x # e
      <4>1. d2.claims[x] = d.claims[x] /\ d2.fx[x] = d.fx[x]
        BY <1>8, <1>11, <1>13, <2>2, <3>2
      <4>. QED
        BY <1>8, <4>1
    <3>. QED
      BY <3>1, <3>2
  <2>. QED
    BY <1>8, <1>11, <2>1, <2>2 DEF ClaimsSound
<1>15. Advances(d, d2)
  BY <1>1, <1>4, <1>7, EditedAdvances
<1>16. AnswersSound(d2)
  BY <1>4, <1>15, AnswersStay
<1>17. /\ Shaped(d2.cp) /\ ReceiptsShaped(d2.cp)
       /\ DOMAIN d2.cp.pendingFx \subseteq DOMAIN d.cp.pendingFx
  BY <1>4 DEF DocSound
<1>18. DocSound(d2)
  BY <1>1, <1>4, <1>7, <1>14, <1>15, <1>16, <1>17, EditedSound
<1>19. \A x \in DOMAIN d.claims : d2.claims[x].worker = d.claims[x].worker
  BY <1>10, <1>11, <1>12
<1>20. SameAttempts(d, d2)
  BY <1>1, <1>4, <1>6, <1>11, <1>13, <1>19 DEF SameAttempts, Reads
<1>. QED
  BY <1>1, <1>4, <1>6, <1>15, <1>18, <1>20 DEF Reads

\* The record of an effect prevented before it was claimed.
LEMMA PreventedRecord ==
    ASSUME NEW r, RecordSound(r), r.state = "unclaimed", r.fence = 0, NEW cancel,
           NEW s, Reads(s, 0, "outcome_recorded", r.reports, cancel),
           s.outcome = [kind |-> "cancelled", fence |-> 0]
    PROVE  RecordSound(s) /\ Continues(r, s)
<1>1. /\ Shape(s) /\ s.fence = 0 /\ s.state = "outcome_recorded" /\ s.reports = r.reports
  BY DEF Reads
<1>2. r.outcome = Undecided /\ DOMAIN r.reports = {}
  <2>1. DOMAIN r.reports \subseteq 1 .. 0
    BY DEF RecordSound
  <2>. QED
    BY <2>1 DEF RecordSound
<1>3. s.outcome # Undecided /\ s.outcome.kind \in OutcomeKinds
  BY DEF Undecided, None, OutcomeKinds
<1>4. RecordSound(s)
  BY <1>1, <1>2, <1>3 DEF RecordSound, States
<1>. QED
  BY <1>1, <1>2, <1>4 DEF Continues

\* The record of an effect whose cancellation came too late.
LEMMA ReconciledRecord ==
    ASSUME NEW r, RecordSound(r), NEW cancel, cancel.state # "prevented_start",
           NEW s, Reads(s, r.fence, r.state, r.reports, cancel), s.outcome = r.outcome
    PROVE  RecordSound(s) /\ Continues(r, s)
<1>1. /\ Shape(s) /\ s.fence = r.fence /\ s.state = r.state /\ s.reports = r.reports
      /\ s.cancel.state # "prevented_start"
  BY DEF Reads
<1>2. RecordSound(s)
  BY <1>1 DEF RecordSound
<1>. QED
  BY <1>1, <1>2 DEF Continues, RecordSound

\* A record replaced by one that goes on without a new attempt or answer.
LEMMA QuietEdit ==
    ASSUME NEW d, DocSound(d), NEW e \in DOMAIN d.fx, NEW d2, Edited(d, d2, e), JournalValid(d2),
           RecordSound(d2.fx[e]), Continues(d.fx[e], d2.fx[e]),
           d2.fx[e].fence = d.fx[e].fence,
           d2.fx[e].state = "leased" => d.fx[e].state = "leased",
           d2.cp = d.cp, d2.claims = d.claims, d2.evidence = d.evidence, d2.answers = d.answers
    PROVE  DocSound(d2) /\ Advances(d, d2) /\ SameAttempts(d, d2)
<1>1. Advances(d, d2)
  BY EditedAdvances
<1>2. AnswersSound(d2)
  BY <1>1, AnswersStay
<1>3. ClaimsSound(d2)
  BY ClaimsStay
<1>4. /\ Shaped(d2.cp) /\ ReceiptsShaped(d2.cp)
      /\ DOMAIN d2.cp.pendingFx \subseteq DOMAIN d.cp.pendingFx
  BY DEF DocSound
<1>5. DocSound(d2)
  BY <1>2, <1>3, <1>4, EditedSound
<1>. QED
  BY <1>1, <1>5 DEF SameAttempts, Edited

\* A cancellation leaves a sound document.
LEMMA CancelSound ==
    ASSUME NEW d, DocSound(d), NEW e \in DOMAIN d.fx, NEW op,
           NEW d2, d2 = Cancelled(d, op, e), JournalValid(d2)
    PROVE  /\ DocSound(d2) /\ Advances(d, d2) /\ Edited(d, d2, e) /\ SameAttempts(d, d2)
           /\ IF MayPrevent(d, e)
              THEN /\ d2.fx[e].state = "outcome_recorded"
                   /\ d2.fx[e].outcome = [kind |-> "cancelled", fence |-> 0]
              ELSE d2.fx[e].state = d.fx[e].state /\ d2.fx[e].outcome = d.fx[e].outcome
           /\ d2.cp = d.cp
<1>1. PICK r, s : r = d.fx[e] /\ s = d2.fx[e]
  OBVIOUS
<1>2. RecordSound(r) /\ Shape(r)
  BY <1>1 DEF DocSound, RecordSound
<1>3. CancelledFrom(d, d2, op, e)
  BY CancelledIs, SoundEditable
<1>4. /\ Edited(d, d2, e) /\ d2.cp = d.cp /\ d2.claims = d.claims
      /\ d2.evidence = d.evidence /\ d2.answers = d.answers
  BY <1>3 DEF CancelledFrom
<1>5. CASE MayPrevent(d, e)
  <2>1. PICK cancel : cancel = [op |-> op, state |-> "prevented_start"]
    OBVIOUS
  <2>2. r.state = "unclaimed" /\ r.fence = 0
    BY <1>1, <1>5 DEF MayPrevent
  <2>3. /\ Reads(s, 0, "outcome_recorded", r.reports, cancel)
        /\ s.outcome = [kind |-> "cancelled", fence |-> 0]
    <3>1. s = [r EXCEPT !.state = "outcome_recorded",
                        !.outcome = [kind |-> "cancelled", fence |-> 0], !.cancel = cancel]
      BY <1>1, <1>3, <1>5, <2>1 DEF CancelledFrom
    <3>. QED
      BY <1>2, <2>2, <3>1 DEF Reads, Shape
  <2>. QED
    BY <1>1, <1>2, <1>5, <2>2, <2>3, PreventedRecord, <1>4, QuietEdit DEF Reads
<1>6. CASE ~MayPrevent(d, e)
  <2>1. PICK cancel : cancel = [op |-> op, state |-> "reconciliation_required"]
    OBVIOUS
  <2>2. Reads(s, r.fence, r.state, r.reports, cancel) /\ s.outcome = r.outcome
    <3>1. s = [r EXCEPT !.cancel = cancel]
      BY <1>1, <1>3, <1>6, <2>1 DEF CancelledFrom
    <3>. QED
      BY <1>2, <3>1 DEF Reads, Shape
  <2>3. cancel.state # "prevented_start"
    BY <2>1
  <2>. QED
    BY <1>1, <1>2, <1>6, <2>2, <2>3, ReconciledRecord, <1>4, QuietEdit DEF Reads
<1>. QED
  BY <1>5, <1>6

\* An acknowledgement leaves a sound document.
LEMMA AcknowledgeSound ==
    ASSUME NEW d, DocSound(d), NEW e, NEW outcome,
           NEW d2, d2 = Acknowledged(d, e, outcome), JournalValid(d2)
    PROVE  /\ DocSound(d2) /\ Advances(d, d2) /\ SameAttempts(d, d2)
           /\ d2.fx = d.fx /\ d2.cp.receipts = d.cp.receipts
<1>1. DocShape(d) /\ Shaped(d.cp) /\ ReceiptsShaped(d.cp)
  BY DEF DocSound
<1>2. /\ DocShape(d2) /\ d2.fx = d.fx /\ d2.claims = d.claims
      /\ d2.evidence = d.evidence /\ d2.answers = d.answers
      /\ Shaped(d2.cp) /\ d2.cp.receipts = d.cp.receipts
      /\ DOMAIN d2.cp.pendingFx \subseteq DOMAIN d.cp.pendingFx
  BY <1>1, AcknowledgedIs
<1>3. Advances(d, d2)
  BY <1>2, SameContinues DEF Advances, DocSound
<1>4. AnswersSound(d2)
  BY <1>2, <1>3, AnswersStay
<1>5. ClaimsSound(d2)
  BY <1>2 DEF DocSound, ClaimsSound
<1>6. ReceiptsShaped(d2.cp)
  BY <1>1, <1>2 DEF ReceiptsShaped
<1>7. DocSound(d2)
  BY <1>2, <1>4, <1>5, <1>6 DEF DocSound
<1>. QED
  BY <1>2, <1>3, <1>7 DEF SameAttempts

\* An effect that is new has a sound record.
LEMMA UnclaimedSound == RecordSound(Unclaimed) /\ Unclaimed.fence = 0
                        /\ Unclaimed.state = "unclaimed" /\ Unclaimed.outcome = Undecided
<1>1. PICK empty : empty = <<>>
  OBVIOUS
<1>2. DOMAIN empty = {} /\ empty = [f \in DOMAIN empty |-> empty[f]]
  BY <1>1
<1>3. Unclaimed = [fence |-> 0, state |-> "unclaimed", reports |-> empty, outcome |-> Undecided,
                   receipt |-> None, cancel |-> NotCancelled]
  BY <1>1 DEF Unclaimed
<1>4. NotCancelled.state = "none"
  BY DEF NotCancelled
<1>. QED
  BY <1>2, <1>3, <1>4 DEF RecordSound, Shape, States

\* d2 has the records of d, and at most one that is new.
Enlarged(d, d2) ==
    /\ \A x \in DOMAIN d.fx : d2.fx[x] = d.fx[x]
    /\ \A x \in DOMAIN d2.fx \ DOMAIN d.fx : d2.fx[x] = Unclaimed
    /\ DOMAIN d2.fx \subseteq DOMAIN d.fx \cup {d.cp.next}

\* A step leaves a sound document.
LEMMA ProduceSound ==
    ASSUME NEW d, DocSound(d), NEW r, Runnable(d.cp, r), NEW c \in Steps(d.cp, r), NEW op,
           NEW d2, d2 = Produced(d, op, c), JournalValid(d2)
    PROVE  /\ DocSound(d2) /\ Advances(d, d2) /\ SameAttempts(d, d2)
           /\ Enlarged(d, d2) /\ AcceptsNothing(d.cp.receipts, d2.cp.receipts)
<1>1. /\ DocShape(d) /\ d.fx = [x \in DOMAIN d.fx |-> d.fx[x]]
      /\ Shaped(d.cp) /\ ReceiptsShaped(d.cp) /\ DOMAIN d.cp.pendingFx \subseteq DOMAIN d.fx
      /\ IsFiniteSet(DOMAIN d.fx)
  BY DEF DocSound
<1>2. /\ DocShape(d2) /\ d2.cp = c /\ d2.claims = d.claims
      /\ d2.evidence = d.evidence /\ d2.answers = d.answers
      /\ DOMAIN d2.fx = DOMAIN d.fx \cup DOMAIN c.pendingFx
      /\ d2.fx = [x \in DOMAIN d2.fx |-> d2.fx[x]]
      /\ \A x \in DOMAIN d.fx : d2.fx[x] = d.fx[x]
      /\ \A x \in DOMAIN d2.fx \ DOMAIN d.fx : d2.fx[x] = Unclaimed
  <2>1. ProducedFrom(d, d2, c)
    BY <1>1, ProducedIs
  <2>. QED
    BY <2>1 DEF ProducedFrom
<1>3. Follows(d.cp, c)
  BY <1>1, StepsFollow
<1>4. Shaped(c)
  <2>1. d.cp.root = "retained"
    BY DEF Runnable
  <2>. QED
    BY <1>1, <2>1, StepsShape DEF Worked
<1>5. DOMAIN d2.fx \subseteq DOMAIN d.fx \cup {d.cp.next}
  BY <1>1, <1>2, <1>3 DEF Follows
<1>6. IsFiniteSet(DOMAIN d2.fx)
  <2>1. IsFiniteSet(DOMAIN d.fx \cup {d.cp.next})
    BY <1>1, FS_Singleton, FS_Union
  <2>. QED
    BY <1>5, <2>1, FS_Subset
<1>7. Advances(d, d2)
  <2>1. \A x \in DOMAIN d.fx : Continues(d.fx[x], d2.fx[x])
    BY <1>2, SameContinues DEF DocSound
  <2>. QED
    BY <1>2, <2>1 DEF Advances
<1>8. AnswersSound(d2)
  BY <1>2, <1>7, AnswersStay
<1>9. \A x \in DOMAIN d2.fx : RecordSound(d2.fx[x])
  BY <1>2, UnclaimedSound DEF DocSound
<1>10. ClaimsSound(d2)
  <2>1. \A x \in DOMAIN d2.fx \ DOMAIN d.fx : d2.fx[x].fence = 0
    BY <1>2, UnclaimedSound
  <2>2. {x \in DOMAIN d2.fx : d2.fx[x].fence > 0} = {x \in DOMAIN d.fx : d.fx[x].fence > 0}
    BY <1>2, <2>1
  <2>3. /\ d.claims = [e \in DOMAIN d.claims |-> d.claims[e]]
        /\ DOMAIN d.claims = {e \in DOMAIN d.fx : d.fx[e].fence > 0}
        /\ \A e \in DOMAIN d.claims :
              /\ d.claims[e] = [worker |-> d.claims[e].worker, fence |-> d.fx[e].fence,
                                state |-> d.claims[e].state]
              /\ d.fx[e].state = "leased" => d.claims[e].state = "active"
    BY DEF DocSound, ClaimsSound
  <2>4. \A e \in DOMAIN d.claims : d2.fx[e] = d.fx[e]
    BY <1>2, <2>3
  <2>. QED
    BY <1>2, <2>2, <2>3, <2>4 DEF ClaimsSound
<1>11. DocSound(d2)
  BY <1>2, <1>3, <1>4, <1>6, <1>8, <1>9, <1>10 DEF DocSound, Follows
<1>12. SameAttempts(d, d2)
  BY <1>2 DEF SameAttempts
<1>13. Enlarged(d, d2)
  BY <1>2, <1>5 DEF Enlarged
<1>. QED
  BY <1>2, <1>3, <1>7, <1>11, <1>12, <1>13 DEF Follows

-----------------------------------------------------------------------------
(* What goes with the document.                                            *)

\* Calls stay what they were while no attempt is opened, if none of those made is
\* given back as not attempted.
LEMMA CallsStay ==
    ASSUME NEW d, NEW d2, DocSound(d), Advances(d, d2), SameAttempts(d, d2),
           NEW called, CallsSound(d, called),
           \A x \in DOMAIN d.fx : d2.fx[x].state = "unclaimed" =>
              d.fx[x].state = "unclaimed" \/ <<x, d.fx[x].fence>> \notin called
    PROVE  CallsSound(d2, called)
<1>1. SUFFICES ASSUME NEW c \in called
               PROVE  /\ c = <<c[1], c[2]>> /\ c[1] \in DOMAIN d2.fx
                      /\ c[2] \in 1 .. d2.fx[c[1]].fence
                      /\ d2.fx[c[1]].state = "unclaimed" => c[2] < d2.fx[c[1]].fence
                      /\ c[2] < d2.fx[c[1]].fence => <<c[1], c[2] + 1>> \in d2.evidence
  BY DEF CallsSound, CallSound
<1>2. PICK e, f : e = c[1] /\ f = c[2]
  OBVIOUS
<1>3. /\ c = <<e, f>> /\ e \in DOMAIN d.fx
      /\ f \in 1 .. d.fx[e].fence
      /\ d.fx[e].state = "unclaimed" => f < d.fx[e].fence
      /\ f < d.fx[e].fence => <<e, f + 1>> \in d.evidence
  BY <1>2 DEF CallsSound, CallSound
<1>4. e \in DOMAIN d2.fx /\ d2.fx[e].fence = d.fx[e].fence /\ d2.evidence = d.evidence
  BY <1>3 DEF Advances, SameAttempts
<1>5. d.fx[e].fence \in Nat
  BY <1>3 DEF DocSound, RecordSound
<1>6. d2.fx[e].state = "unclaimed" => f < d.fx[e].fence
  <2>1. <<e, d.fx[e].fence>> \notin called => f # d.fx[e].fence
    BY <1>3
  <2>. QED
    BY <1>3, <1>5, <2>1
<1>. QED
  BY <1>2, <1>3, <1>4, <1>6

\* Claims stay issued while no attempt is opened.
LEMMA IssuedStays ==
    ASSUME NEW d, NEW d2, DocSound(d), Advances(d, d2), SameAttempts(d, d2),
           NEW claimed, IssuedSound(d, claimed)
    PROVE  IssuedSound(d2, claimed)
<1>1. ASSUME NEW i \in claimed
      PROVE  /\ i = <<i[1], i[2], i[3]>> /\ i[2] \in DOMAIN d2.fx /\ i[3] \in 1 .. d2.fx[i[2]].fence
             /\ i[3] = d2.fx[i[2]].fence => d2.claims[i[2]].worker = i[1]
  <2>1. PICK w, e, f : w = i[1] /\ e = i[2] /\ f = i[3]
    OBVIOUS
  <2>2. /\ i = <<w, e, f>> /\ e \in DOMAIN d.fx /\ f \in 1 .. d.fx[e].fence
        /\ f = d.fx[e].fence => d.claims[e].worker = w
    BY <2>1 DEF IssuedSound
  <2>3. e \in DOMAIN d2.fx /\ d2.fx[e].fence = d.fx[e].fence
    BY <2>2 DEF Advances, SameAttempts
  <2>4. d.fx[e].fence \in Nat
    BY <2>2 DEF DocSound, RecordSound
  <2>5. e \in DOMAIN d.claims
    BY <2>2, <2>4 DEF DocSound, ClaimsSound
  <2>6. d2.claims[e].worker = d.claims[e].worker
    BY <2>5 DEF SameAttempts
  <2>. QED
    BY <2>1, <2>2, <2>3, <2>6
<1>2. ASSUME NEW e \in DOMAIN d2.claims
      PROVE  <<d2.claims[e].worker, e, d2.fx[e].fence>> \in claimed
  <2>1. e \in DOMAIN d.claims /\ d2.claims[e].worker = d.claims[e].worker
    BY DEF SameAttempts
  <2>2. e \in DOMAIN d.fx
    BY <2>1 DEF DocSound, ClaimsSound
  <2>3. d2.fx[e].fence = d.fx[e].fence
    BY <2>2 DEF SameAttempts
  <2>. QED
    BY <2>1, <2>3 DEF IssuedSound
<1>. QED
  BY <1>1, <1>2 DEF IssuedSound

\* What the mirror writes is what the journal says.
LEMMA MirroredSound ==
    ASSUME NEW l, LedgerShape(l), NEW d, NEW d2, DocSound(d2), Advances(d, d2), DocSound(d),
           Scoped => LedgerSound(l, d)
    PROVE  Scoped => LedgerSound(Mirrored(l, d2), d2)
<1>. SUFFICES ASSUME Scoped PROVE LedgerSound(Mirrored(l, d2), d2)
  OBVIOUS
<1>1. PICK live : live = LiveClaims(d2)
  OBVIOUS
<1>2. PICK fences : fences = Merge([e \in DOMAIN d2.fx |-> d2.fx[e].fence], l.fences)
  OBVIOUS
<1>3. PICK history : history = l.history \cup {<<e, d2.claims[e]>> : e \in DOMAIN d2.claims}
  OBVIOUS
<1>4. PICK m : m = Mirrored(l, d2)
  OBVIOUS
<1>5. m = [state |-> l.state, fences |-> fences, active |-> live, history |-> history,
           checkpoints |-> l.checkpoints \cup {d2.cp.revision}]
  BY <1>1, <1>2, <1>3, <1>4 DEF Mirrored, MirroredWith, LedgerShape
<1>6. LedgerShape(m)
  BY <1>5 DEF LedgerShape
<1>7. \A e \in DOMAIN d2.fx : e \in DOMAIN fences /\ fences[e] = d2.fx[e].fence
  BY <1>2 DEF Merge
<1>8. \A e \in DOMAIN d2.fx : IF d2.fx[e].state = "leased"
                              THEN e \in DOMAIN live /\ live[e] = d2.claims[e]
                              ELSE e \notin DOMAIN live
  BY <1>1 DEF LiveClaims
<1>9. ASSUME NEW past \in history
      PROVE  /\ past[1] \in DOMAIN d2.fx /\ past[2].fence \in Nat
             /\ past[2].fence <= d2.fx[past[1]].fence
  <2>1. CASE past \in l.history
    <3>1. past[1] \in DOMAIN d.fx /\ past[2].fence \in Nat
      BY <2>1 DEF LedgerSound
    <3>2. past[2].fence <= d.fx[past[1]].fence
      BY <2>1, <3>1 DEF LedgerSound, PairValid
    <3>3. /\ past[1] \in DOMAIN d2.fx
          /\ d.fx[past[1]].fence <= d2.fx[past[1]].fence
      BY <3>1 DEF Advances, Continues
    <3>4. d.fx[past[1]].fence \in Nat /\ d2.fx[past[1]].fence \in Nat
      BY <3>1, <3>3 DEF DocSound, RecordSound
    <3>. QED
      BY <3>1, <3>2, <3>3, <3>4
  <2>2. CASE past \in {<<e, d2.claims[e]>> : e \in DOMAIN d2.claims}
    <3>1. PICK e \in DOMAIN d2.claims : past = <<e, d2.claims[e]>>
      BY <2>2
    <3>2. e \in DOMAIN d2.fx
      BY DEF DocSound, ClaimsSound
    <3>3. d2.claims[e] = [worker |-> d2.claims[e].worker, fence |-> d2.fx[e].fence,
                          state |-> d2.claims[e].state]
      BY DEF DocSound, ClaimsSound
    <3>4. d2.fx[e].fence \in Nat
      BY <3>2 DEF DocSound, RecordSound
    <3>5. d2.claims[e].fence = d2.fx[e].fence
      BY <3>3
    <3>. QED
      BY <3>1, <3>2, <3>4, <3>5
  <2>. QED
    BY <1>3, <2>1, <2>2
<1>10. PairValid(m, d2)
  BY <1>5, <1>7, <1>8, <1>9 DEF PairValid
<1>. QED
  BY <1>4, <1>5, <1>6, <1>9, <1>10 DEF LedgerSound

\* A new claim opens an attempt that nobody has been called for, and another one of
\* a called effect only with evidence.
LEMMA CallsClaimed ==
    ASSUME NEW d, DocSound(d), NEW w, NEW e \in DOMAIN d.fx, NEW proof \in BOOLEAN,
           MayClaim(d, e, proof),
           NEW d2, d2 = ClaimIssued(d, w, e, proof), JournalValid(d2),
           NEW called, CallsSound(d, called)
    PROVE  CallsSound(d2, called)
<1>1. PICK f : f = d.fx[e].fence
  OBVIOUS
<1>2. /\ Advances(d, d2) /\ Edited(d, d2, e)
      /\ d2.fx[e].state = "leased" /\ d2.fx[e].fence = f + 1
      /\ d2.evidence = EvidenceWith(d, e, proof)
  BY <1>1, ClaimSound
<1>3. f \in Nat /\ d.evidence \subseteq d2.evidence
  BY <1>1, <1>2 DEF DocSound, RecordSound, EvidenceWith
<1>4. SUFFICES ASSUME NEW c \in called
               PROVE  /\ c = <<c[1], c[2]>> /\ c[1] \in DOMAIN d2.fx
                      /\ c[2] \in 1 .. d2.fx[c[1]].fence
                      /\ d2.fx[c[1]].state = "unclaimed" => c[2] < d2.fx[c[1]].fence
                      /\ c[2] < d2.fx[c[1]].fence => <<c[1], c[2] + 1>> \in d2.evidence
  BY DEF CallsSound, CallSound
<1>5. PICK x, g : x = c[1] /\ g = c[2]
  OBVIOUS
<1>6. /\ c = <<x, g>> /\ x \in DOMAIN d.fx /\ x \in DOMAIN d2.fx
      /\ g \in 1 .. d.fx[x].fence
      /\ d.fx[x].state = "unclaimed" => g < d.fx[x].fence
      /\ g < d.fx[x].fence => <<x, g + 1>> \in d.evidence
  BY <1>2, <1>5 DEF CallsSound, CallSound, Edited
<1>7. CASE x # e
  <2>1. d2.fx[x] = d.fx[x]
    BY <1>2, <1>6, <1>7 DEF Edited
  <2>. QED
    BY <1>3, <1>5, <1>6, <2>1
<1>8. CASE x = e
  <2>1. g \in 1 .. f /\ g \in 1 .. f + 1
    BY <1>1, <1>3, <1>6, <1>8
  <2>2. CASE g < f
    BY <1>1, <1>2, <1>3, <1>5, <1>6, <1>8, <2>1, <2>2
  <2>3. CASE g = f
    <3>1. d.fx[e].state # "unclaimed"
      BY <1>1, <1>3, <1>6, <1>8, <2>3
    <3>2. proof
      BY <3>1 DEF MayClaim
    <3>3. <<e, f + 1>> \in d2.evidence
      BY <1>1, <1>2, <3>2 DEF EvidenceWith
    <3>. QED
      BY <1>2, <1>5, <1>6, <1>8, <2>1, <2>3, <3>3
  <2>. QED
    BY <1>3, <2>1, <2>2, <2>3
<1>. QED
  BY <1>7, <1>8

\* The claim issued is the one of the attempt it opens.
LEMMA IssuedClaimed ==
    ASSUME NEW d, DocSound(d), NEW w, NEW e \in DOMAIN d.fx, NEW proof \in BOOLEAN,
           MayClaim(d, e, proof),
           NEW d2, d2 = ClaimIssued(d, w, e, proof), JournalValid(d2),
           NEW claimed, IssuedSound(d, claimed)
    PROVE  IssuedSound(d2, claimed \cup {<<w, e, d.fx[e].fence + 1>>})
<1>0. PICK f : f = d.fx[e].fence
  OBVIOUS
<1>1. PICK new : new = <<w, e, f + 1>>
  OBVIOUS
<1>2. /\ Edited(d, d2, e) /\ DocSound(d2)
      /\ d2.fx[e].fence = f + 1
      /\ DOMAIN d2.claims = DOMAIN d.claims \cup {e} /\ d2.claims[e].worker = w
      /\ \A x \in DOMAIN d.claims : x # e => d2.claims[x] = d.claims[x]
  <2>1. DocSound(d2) /\ Edited(d, d2, e) /\ d2.fx[e].fence = f + 1
    BY <1>0, ClaimSound
  <2>2. Reclaimed(d, d2, w, e)
    BY ClaimSound
  <2>. QED
    BY <2>1, <2>2 DEF Reclaimed
<1>3. f \in Nat
  BY <1>0 DEF DocSound, RecordSound
<1>4. DOMAIN d2.fx = DOMAIN d.fx /\ \A x \in DOMAIN d.fx : x # e => d2.fx[x] = d.fx[x]
  BY <1>2 DEF Edited
<1>5. DOMAIN d.claims = {x \in DOMAIN d.fx : d.fx[x].fence > 0}
  BY DEF DocSound, ClaimsSound
<1>6. ASSUME NEW i \in claimed
      PROVE  /\ i = <<i[1], i[2], i[3]>> /\ i[2] \in DOMAIN d2.fx /\ i[3] \in 1 .. d2.fx[i[2]].fence
             /\ i[3] = d2.fx[i[2]].fence => d2.claims[i[2]].worker = i[1]
  <2>1. PICK v, x, g : v = i[1] /\ x = i[2] /\ g = i[3]
    OBVIOUS
  <2>2. /\ i = <<v, x, g>> /\ x \in DOMAIN d.fx /\ g \in 1 .. d.fx[x].fence
        /\ g = d.fx[x].fence => d.claims[x].worker = v
    BY <2>1 DEF IssuedSound
  <2>3. CASE x = e
    <3>1. g \in 1 .. f + 1 /\ g # f + 1
      BY <1>0, <1>3, <2>2, <2>3
    <3>. QED
      BY <1>2, <1>4, <2>1, <2>2, <2>3, <3>1
  <2>4. CASE x # e
    <3>1. d2.fx[x] = d.fx[x] /\ d.fx[x].fence \in Nat
      BY <1>4, <2>2, <2>4 DEF DocSound, RecordSound
    <3>2. x \in DOMAIN d.claims
      BY <1>5, <2>2, <3>1
    <3>. QED
      BY <1>2, <1>4, <2>1, <2>2, <2>4, <3>1, <3>2
  <2>. QED
    BY <2>3, <2>4
<1>7. /\ new = <<new[1], new[2], new[3]>> /\ new[2] \in DOMAIN d2.fx
      /\ new[3] \in 1 .. d2.fx[new[2]].fence
      /\ new[3] = d2.fx[new[2]].fence => d2.claims[new[2]].worker = new[1]
  BY <1>1, <1>2, <1>3, <1>4
<1>8. ASSUME NEW x \in DOMAIN d2.claims
      PROVE  <<d2.claims[x].worker, x, d2.fx[x].fence>> \in claimed \cup {new}
  <2>1. CASE x = e
    BY <1>1, <1>2, <2>1
  <2>2. CASE x # e
    <3>1. x \in DOMAIN d.claims /\ d2.claims[x] = d.claims[x]
      BY <1>2, <2>2
    <3>2. d2.fx[x] = d.fx[x]
      BY <1>4, <1>5, <2>2, <3>1
    <3>. QED
      BY <3>1, <3>2 DEF IssuedSound
  <2>. QED
    BY <2>1, <2>2
<1>9. \A i \in claimed \cup {new} :
         /\ i = <<i[1], i[2], i[3]>> /\ i[2] \in DOMAIN d2.fx /\ i[3] \in 1 .. d2.fx[i[2]].fence
         /\ i[3] = d2.fx[i[2]].fence => d2.claims[i[2]].worker = i[1]
  BY <1>6, <1>7
<1>10. IssuedSound(d2, claimed \cup {new})
  BY <1>8, <1>9 DEF IssuedSound
<1>. QED
  BY <1>0, <1>1, <1>10

\* answered with the answer "answer" to report t in addition.
Answered(answered, t, answer) ==
    Merge([x \in {t} |-> {answer} \cup (IF x \in DOMAIN answered THEN answered[x] ELSE {})],
          answered)

\* after differs from answered in one answer more to t.
AnswersMore(answered, t, answer, after) ==
    /\ DOMAIN after = DOMAIN answered \cup {t}
    /\ after = [x \in DOMAIN after |-> after[x]]
    /\ \A x \in DOMAIN answered : x # t => after[x] = answered[x]
    /\ after[t] = {answer} \cup (IF t \in DOMAIN answered THEN answered[t] ELSE {})

\* One answer more, to one report.
LEMMA AnsweredIs ==
    ASSUME NEW answered, NEW t, NEW answer, NEW after, after = Answered(answered, t, answer)
    PROVE  AnswersMore(answered, t, answer, after)
<1>1. PICK v : v = {answer} \cup (IF t \in DOMAIN answered THEN answered[t] ELSE {})
  OBVIOUS
<1>2. after = Merge([x \in {t} |-> v], answered)
  BY <1>1 DEF Answered
<1>3. Adds(after, answered, t, v)
  BY <1>2, MergeAdds
<1>. QED
  BY <1>1, <1>3 DEF Adds, AnswersMore

\* Telling of a report that decides nothing, anything but that it is committed.
LEMMA ToldOpen ==
    ASSUME NEW d, NEW answered, ToldSound(d, answered), NEW e, NEW f, NEW k,
           k \notin OutcomeKinds, NEW answer, answer.status # "committed"
    PROVE  ToldSound(d, Answered(answered, <<e, f, k>>, answer))
<1>1. PICK t, after : t = <<e, f, k>> /\ after = Answered(answered, t, answer)
  OBVIOUS
<1>2. /\ DOMAIN after = DOMAIN answered \cup {t}
      /\ after = [x \in DOMAIN after |-> after[x]]
      /\ \A x \in DOMAIN answered : x # t => after[x] = answered[x]
      /\ after[t] = {answer} \cup (IF t \in DOMAIN answered THEN answered[t] ELSE {})
  <2>1. AnswersMore(answered, t, answer, after)
    BY <1>1, AnsweredIs
  <2>. QED
    BY <2>1 DEF AnswersMore
<1>3. t[3] \notin OutcomeKinds
  BY <1>1
<1>4. \A a \in after[t] : a.status # "committed"
  BY <1>2, <1>3 DEF ToldSound
<1>5. ToldSound(d, after)
  BY <1>2, <1>3, <1>4 DEF ToldSound
<1>. QED
  BY <1>1, <1>5

\* Telling of an outcome the answer that is kept for it.
LEMMA ToldOutcome ==
    ASSUME NEW d, NEW answered, ToldSound(d, answered), NEW e, NEW f, NEW k,
           <<e, f>> \in DOMAIN d.answers,
           f \in DOMAIN d.fx[e].reports, d.fx[e].reports[f] = k, k \in OutcomeKinds
    PROVE  ToldSound(d, Answered(answered, <<e, f, k>>, d.answers[<<e, f>>]))
<1>1. PICK t, p : t = <<e, f, k>> /\ p = <<e, f>>
  OBVIOUS
<1>2. PICK answer : answer = d.answers[p]
  OBVIOUS
<1>3. PICK after : after = Answered(answered, t, answer)
  OBVIOUS
<1>4. /\ DOMAIN after = DOMAIN answered \cup {t}
      /\ after = [x \in DOMAIN after |-> after[x]]
      /\ \A x \in DOMAIN answered : x # t => after[x] = answered[x]
      /\ after[t] = {answer} \cup (IF t \in DOMAIN answered THEN answered[t] ELSE {})
  <2>1. AnswersMore(answered, t, answer, after)
    BY <1>3, AnsweredIs
  <2>. QED
    BY <2>1 DEF AnswersMore
<1>5. t[1] = e /\ t[2] = f /\ t[3] = k /\ t = <<t[1], t[2], t[3]>> /\ <<t[1], t[2]>> = p
  BY <1>1
<1>6. t \in DOMAIN answered => answered[t] = {answer}
  BY <1>2, <1>5 DEF ToldSound
<1>7. after[t] = {answer}
  BY <1>4, <1>6
<1>8. ASSUME NEW x \in DOMAIN after
      PROVE  IF x[3] \in OutcomeKinds
             THEN /\ x = <<x[1], x[2], x[3]>> /\ <<x[1], x[2]>> \in DOMAIN d.answers
                  /\ after[x] = {d.answers[<<x[1], x[2]>>]}
                  /\ x[2] \in DOMAIN d.fx[x[1]].reports /\ d.fx[x[1]].reports[x[2]] = x[3]
             ELSE \A a \in after[x] : a.status # "committed"
  <2>1. CASE x = t
    BY <1>1, <1>2, <1>5, <1>7, <2>1
  <2>2. CASE x # t
    BY <1>4, <2>2 DEF ToldSound
  <2>. QED
    BY <2>1, <2>2
<1>9. ToldSound(d, after)
  BY <1>4, <1>8 DEF ToldSound
<1>. QED
  BY <1>1, <1>2, <1>3, <1>9

-----------------------------------------------------------------------------
(* How far an effect has come, and what every step keeps.                  *)

StageOf(d, e) ==
    IF e \notin DOMAIN d.fx THEN "none"
    ELSE IF d.fx[e].state = "result_admitted" THEN "told"
    ELSE IF d.fx[e].outcome # Undecided THEN "decided"
    ELSE "open"

VerdictOf(d, e) ==
    IF e \in DOMAIN d.fx /\ d.fx[e].outcome # Undecided THEN {d.fx[e].outcome.kind} ELSE {}

SamePhase(d, d2, e) == StageOf(d2, e) = StageOf(d, e) /\ VerdictOf(d2, e) = VerdictOf(d, e)

Emitted(d, d2, e) ==
    StageOf(d, e) = "none" /\ StageOf(d2, e) = "open" /\ VerdictOf(d2, e) = VerdictOf(d, e)

DecidedAt(d, d2, e) ==
    /\ StageOf(d, e) = "open" /\ StageOf(d2, e) = "decided"
    /\ \E k \in OutcomeKinds : VerdictOf(d2, e) = {k}

ToldAt(d, d2, e) ==
    StageOf(d, e) = "decided" /\ StageOf(d2, e) = "told" /\ VerdictOf(d2, e) = VerdictOf(d, e)

\* One effect at most comes one stage further.
Moves(d, d2) ==
    \E e : /\ \A x : x # e => SamePhase(d, d2, x)
           /\ SamePhase(d, d2, e) \/ Emitted(d, d2, e) \/ DecidedAt(d, d2, e) \/ ToldAt(d, d2, e)

\* What DecidedByCurrentAttempt says of a step.
DecidedNow(e, f) ==
    /\ \A i \in issued : i[2] = e => i[3] <= f
    /\ f \notin DOMAIN doc.fx[e].reports
    /\ f > 0 => <<e, f>> \in calls \ lapsed

DecisionsCurrent ==
    \A e \in DOMAIN doc.fx :
       doc.fx[e].outcome = Undecided /\ doc'.fx[e].outcome # Undecided =>
          DecidedNow(e, doc'.fx[e].outcome.fence)

\* What a step keeps: the invariant, the stages, the results, if no id of a caller
\* looks like one, and where decisions come from.
Keeps ==
    /\ IInv'
    /\ Moves(doc, doc')
    /\ ResultsSound(doc) => ResultsSound(doc')
    /\ DecisionsCurrent

\* Decisions made by then, and admitted ones, are the same.
SameDecision(r, s) ==
    s.outcome = r.outcome /\ (s.state = "result_admitted" <=> r.state = "result_admitted")

\* A record with the same decision has the same phase.
LEMMA SameDecisionPhase ==
    ASSUME NEW d, NEW d2, NEW x, x \in DOMAIN d.fx <=> x \in DOMAIN d2.fx,
           x \in DOMAIN d.fx => SameDecision(d.fx[x], d2.fx[x])
    PROVE  SamePhase(d, d2, x)
  BY DEF SamePhase, StageOf, VerdictOf, SameDecision

\* Replacing one record leaves the phases of the others.
LEMMA EditedPhases ==
    ASSUME NEW d, NEW d2, NEW e, Edited(d, d2, e)
    PROVE  \A x : x # e => SamePhase(d, d2, x)
  BY SameDecisionPhase DEF Edited, SameDecision

\* An edit that decides nothing moves nothing.
LEMMA EditedSame ==
    ASSUME NEW d, NEW d2, NEW e \in DOMAIN d.fx, Edited(d, d2, e),
           SameDecision(d.fx[e], d2.fx[e])
    PROVE  Moves(d, d2) /\ \A x \in DOMAIN d.fx : d2.fx[x].outcome = d.fx[x].outcome
<1>1. SamePhase(d, d2, e)
  BY SameDecisionPhase DEF Edited
<1>. QED
  BY <1>1, EditedPhases DEF Moves, Edited, SameDecision

\* The results stay sound while nothing is accepted.
LEMMA ResultsStay ==
    ASSUME NEW d, DocSound(d), NEW d2, Advances(d, d2),
           AcceptsNothing(d.cp.receipts, d2.cp.receipts)
    PROVE  ResultsSound(d) => ResultsSound(d2)
<1>1. SUFFICES ASSUME ResultsSound(d), NEW s \in OfKind(d2.cp, "acceptance"), NEW e, NEW k,
                      d2.cp.receipts[s].id = ResultOf(e, k)
               PROVE  /\ e \in DOMAIN d2.fx /\ d2.fx[e].state = "result_admitted"
                      /\ d2.fx[e].outcome.kind = k
  BY DEF ResultsSound
<1>2. s \in OfKind(d.cp, "acceptance") /\ d.cp.receipts[s].id = ResultOf(e, k)
  BY <1>1 DEF AcceptsNothing, OfKind, SameReceipt
<1>3. e \in DOMAIN d.fx /\ d.fx[e].state = "result_admitted" /\ d.fx[e].outcome.kind = k
  BY <1>1, <1>2 DEF ResultsSound
<1>4. RecordSound(d.fx[e]) /\ Continues(d.fx[e], d2.fx[e])
  BY <1>3 DEF DocSound, Advances
<1>5. d.fx[e].outcome # Undecided
  BY <1>3, <1>4 DEF RecordSound
<1>. QED
  BY <1>3, <1>4, <1>5 DEF Continues, Advances

\* Nor does what leaves the receipts alone accept anything.
LEMMA SameAccepts ==
    ASSUME NEW before, NEW after, after = before
    PROVE  AcceptsNothing(before, after)
  BY DEF AcceptsNothing, SameReceipt

\* What is committed, and what the mirror makes of it.
LEMMA CommitKeeps ==
    ASSUME IInv, NEW d, Commit(d), DocSound(d), Advances(doc, d)
    PROVE  /\ doc' = d
           /\ InflightSound(d, inflight) /\ ToldSound(d, told) /\ LedgerSound(ledger', d)
           /\ Seq(DOMAIN doc.fx) \subseteq Seq(DOMAIN d.fx)
<1>1. doc' = d /\ ledger' = IF Scoped THEN Mirrored(ledger, d) ELSE ledger
  BY Zenon DEF Commit
<1>2. DocSound(doc) /\ InflightSound(doc, inflight) /\ ToldSound(doc, told)
      /\ LedgerSound(ledger, doc)
  BY DEF IInv
<1>3. InflightSound(d, inflight)
  BY <1>2, InflightStays
<1>4. ToldSound(d, told)
  BY <1>2, ToldStays
<1>5. LedgerSound(ledger', d)
  <2>1. CASE Scoped
    <3>1. LedgerShape(ledger)
      BY <1>2 DEF LedgerSound
    <3>2. LedgerSound(Mirrored(ledger, d), d)
      BY <1>2, <2>1, <3>1, MirroredSound
    <3>. QED
      BY <1>1, <2>1, <3>2
  <2>2. CASE ~Scoped
    BY <1>1, <1>2, <2>2 DEF LedgerSound
  <2>. QED
    BY <2>1, <2>2
<1>6. \A S, T : S \subseteq T => Seq(S) \subseteq Seq(T)
  OBVIOUS
<1>. QED
  BY <1>1, <1>3, <1>4, <1>5, <1>6 DEF Advances

\* What a commit is given has been checked.
LEMMA CommitValid ==
    ASSUME NEW d, Commit(d)
    PROVE  JournalValid(d)
  BY Zenon DEF Commit

\* The parts of the invariant put together.
LEMMA Assembled ==
    ASSUME DocSound(doc'), CallsSound(doc', calls'), IssuedSound(doc', issued'),
           InflightSound(doc', inflight'), ToldSound(doc', told'),
           recovery' \in Seq(DOMAIN doc'.fx), LedgerSound(ledger', doc')
    PROVE  IInv'
  BY DEF IInv

\* What leaves the document alone decides nothing.
LEMMA SameDoc ==
    ASSUME IInv, doc' = doc
    PROVE  /\ Moves(doc, doc') /\ (ResultsSound(doc) => ResultsSound(doc')) /\ DecisionsCurrent
<1>1. \A x : SamePhase(doc, doc', x)
  BY DEF SamePhase
<1>2. \A x \in DOMAIN doc.fx : doc'.fx[x].outcome = doc.fx[x].outcome
  OBVIOUS
<1>3. Moves(doc, doc')
  BY <1>1 DEF Moves
<1>4. DecisionsCurrent
  BY <1>2 DEF DecisionsCurrent
<1>. QED
  BY <1>3, <1>4

-----------------------------------------------------------------------------
(* The actions, one by one.                                                *)

\* A step of the machine.
LEMMA ProduceKeeps ==
    ASSUME IInv, NEW op, NEW r, Produce(op, r)
    PROVE  Keeps
<1>1. PICK c \in Steps(doc.cp, r) : Commit(Produced(doc, op, c))
  BY Zenon DEF Produce
<1>2. PICK d : d = Produced(doc, op, c)
  OBVIOUS
<1>3. Commit(d) /\ JournalValid(d)
  BY <1>1, <1>2, CommitValid
<1>4. Runnable(doc.cp, r) /\ UNCHANGED <<lapsed, inflight, recovery, crashes, calls, issued, told>>
  BY DEF Produce
<1>5. DocSound(doc) /\ CallsSound(doc, calls) /\ IssuedSound(doc, issued)
      /\ recovery \in Seq(DOMAIN doc.fx)
  BY DEF IInv
<1>6. /\ DocSound(d) /\ Advances(doc, d) /\ SameAttempts(doc, d)
      /\ \A x \in DOMAIN doc.fx : d.fx[x] = doc.fx[x]
      /\ \A x \in DOMAIN d.fx \ DOMAIN doc.fx : d.fx[x] = Unclaimed
      /\ DOMAIN d.fx \subseteq DOMAIN doc.fx \cup {doc.cp.next}
      /\ AcceptsNothing(doc.cp.receipts, d.cp.receipts)
  <2>1. /\ DocSound(d) /\ Advances(doc, d) /\ SameAttempts(doc, d) /\ Enlarged(doc, d)
        /\ AcceptsNothing(doc.cp.receipts, d.cp.receipts)
    BY <1>2, <1>3, <1>4, <1>5, ProduceSound
  <2>. QED
    BY <2>1 DEF Enlarged
<1>7. /\ doc' = d
      /\ InflightSound(d, inflight) /\ ToldSound(d, told) /\ LedgerSound(ledger', d)
      /\ recovery \in Seq(DOMAIN d.fx)
  BY <1>3, <1>5, <1>6, CommitKeeps
<1>8. CallsSound(d, calls)
  BY <1>5, <1>6, CallsStay
<1>9. IssuedSound(d, issued)
  BY <1>5, <1>6, IssuedStays
<1>10. IInv'
  BY <1>4, <1>6, <1>7, <1>8, <1>9, Assembled
<1>11. Moves(doc, d)
  <2>1. PICK e : e = doc.cp.next
    OBVIOUS
  <2>2. ASSUME NEW x, x \in DOMAIN doc.fx \/ x \notin DOMAIN d.fx
        PROVE  SamePhase(doc, d, x)
    BY <1>6, <2>2, SameDecisionPhase DEF SameDecision, Advances
  <2>3. \A x : x # e => SamePhase(doc, d, x)
    BY <1>6, <2>1, <2>2
  <2>4. CASE e \in DOMAIN d.fx \ DOMAIN doc.fx
    <3>1. d.fx[e] = Unclaimed
      BY <1>6, <2>4
    <3>2. d.fx[e].outcome = Undecided /\ d.fx[e].state = "unclaimed"
      BY <3>1, UnclaimedSound
    <3>3. Emitted(doc, d, e)
      BY <2>4, <3>2 DEF Emitted, StageOf, VerdictOf
    <3>. QED
      BY <2>3, <3>3 DEF Moves
  <2>5. CASE e \notin DOMAIN d.fx \ DOMAIN doc.fx
    BY <2>2, <2>3, <2>5 DEF Moves
  <2>. QED
    BY <2>4, <2>5
<1>12. ResultsSound(doc) => ResultsSound(d)
  BY <1>5, <1>6, ResultsStay
<1>13. DecisionsCurrent
  BY <1>6, <1>7 DEF DecisionsCurrent
<1>. QED
  BY <1>7, <1>10, <1>11, <1>12, <1>13 DEF Keeps

\* An edit that decides nothing and leaves the checkpoint alone.
LEMMA EditKeeps ==
    ASSUME IInv, NEW e \in DOMAIN doc.fx, Edited(doc, doc', e), DocSound(doc'),
           Advances(doc, doc'), doc'.cp = doc.cp, SameDecision(doc.fx[e], doc'.fx[e])
    PROVE  Moves(doc, doc') /\ (ResultsSound(doc) => ResultsSound(doc')) /\ DecisionsCurrent
<1>1. DocSound(doc)
  BY DEF IInv
<1>2. Moves(doc, doc') /\ \A x \in DOMAIN doc.fx : doc'.fx[x].outcome = doc.fx[x].outcome
  BY EditedSame
<1>3. AcceptsNothing(doc.cp.receipts, doc'.cp.receipts)
  BY SameAccepts
<1>4. ResultsSound(doc) => ResultsSound(doc')
  BY <1>1, <1>3, ResultsStay
<1>5. DecisionsCurrent
  BY <1>2 DEF DecisionsCurrent
<1>. QED
  BY <1>2, <1>4, <1>5

\* A claim.
LEMMA IssueClaimKeeps ==
    ASSUME IInv, NEW w, NEW e \in DOMAIN doc.fx, NEW proof \in BOOLEAN, IssueClaim(w, e, proof)
    PROVE  Keeps
<1>1. PICK d : d = ClaimIssued(doc, w, e, proof)
  OBVIOUS
<1>2. /\ Commit(d) /\ MayClaim(doc, e, proof)
      /\ issued' = issued \cup {<<w, e, doc.fx[e].fence + 1>>}
      /\ UNCHANGED <<lapsed, inflight, recovery, crashes, calls, told>>
  BY <1>1, Zenon DEF IssueClaim
<1>3. JournalValid(d)
  BY <1>2, CommitValid
<1>4. DocSound(doc) /\ CallsSound(doc, calls) /\ IssuedSound(doc, issued)
      /\ recovery \in Seq(DOMAIN doc.fx)
  BY DEF IInv
<1>5. /\ DocSound(d) /\ Advances(doc, d) /\ Edited(doc, d, e) /\ d.fx[e].state = "leased"
      /\ d.fx[e].outcome = doc.fx[e].outcome /\ d.cp = doc.cp
  BY <1>1, <1>2, <1>3, <1>4, ClaimSound
<1>6. /\ doc' = d
      /\ InflightSound(d, inflight) /\ ToldSound(d, told) /\ LedgerSound(ledger', d)
      /\ recovery \in Seq(DOMAIN d.fx)
  BY <1>2, <1>4, <1>5, CommitKeeps
<1>7. CallsSound(d, calls)
  BY <1>1, <1>2, <1>3, <1>4, CallsClaimed
<1>8. IssuedSound(d, issued')
  BY <1>1, <1>2, <1>3, <1>4, IssuedClaimed
<1>9. IInv'
  BY <1>2, <1>5, <1>6, <1>7, <1>8, Assembled
<1>10. SameDecision(doc.fx[e], d.fx[e])
  BY <1>2, <1>5 DEF SameDecision, MayClaim
<1>11. Moves(doc, doc') /\ (ResultsSound(doc) => ResultsSound(doc')) /\ DecisionsCurrent
  BY <1>5, <1>6, <1>10, EditKeeps
<1>. QED
  BY <1>9, <1>11 DEF Keeps

\* An acknowledgement.
LEMMA TerminalizeKeeps ==
    ASSUME IInv, NEW e, NEW outcome, TerminalizeOutbox(e, outcome)
    PROVE  Keeps
<1>1. PICK d : d = Acknowledged(doc, e, outcome)
  OBVIOUS
<1>2. /\ Commit(d)
      /\ UNCHANGED <<lapsed, inflight, recovery, crashes, calls, issued, told>>
  BY <1>1, Zenon DEF TerminalizeOutbox
<1>3. JournalValid(d)
  BY <1>2, CommitValid
<1>4. DocSound(doc) /\ CallsSound(doc, calls) /\ IssuedSound(doc, issued)
      /\ recovery \in Seq(DOMAIN doc.fx)
  BY DEF IInv
<1>5. /\ DocSound(d) /\ Advances(doc, d) /\ SameAttempts(doc, d)
      /\ d.fx = doc.fx /\ d.cp.receipts = doc.cp.receipts
  BY <1>1, <1>3, <1>4, AcknowledgeSound
<1>6. /\ doc' = d
      /\ InflightSound(d, inflight) /\ ToldSound(d, told) /\ LedgerSound(ledger', d)
      /\ recovery \in Seq(DOMAIN d.fx)
  BY <1>2, <1>4, <1>5, CommitKeeps
<1>7. CallsSound(d, calls)
  BY <1>4, <1>5, CallsStay
<1>8. IssuedSound(d, issued)
  BY <1>4, <1>5, IssuedStays
<1>9. IInv'
  BY <1>2, <1>5, <1>6, <1>7, <1>8, Assembled
<1>10. Moves(doc, d)
  <2>1. \A x : SamePhase(doc, d, x)
    BY <1>5 DEF SamePhase, StageOf, VerdictOf
  <2>. QED
    BY <2>1 DEF Moves
<1>11. ResultsSound(doc) => ResultsSound(d)
  BY <1>4, <1>5, SameAccepts, ResultsStay
<1>12. DecisionsCurrent
  BY <1>5, <1>6 DEF DecisionsCurrent
<1>. QED
  BY <1>6, <1>9, <1>10, <1>11, <1>12 DEF Keeps

\* A cancellation.
LEMMA CancelKeeps ==
    ASSUME IInv, NEW op, NEW e \in DOMAIN doc.fx, Cancel(op, e)
    PROVE  Keeps
<1>1. PICK d : d = Cancelled(doc, op, e)
  OBVIOUS
<1>2. /\ Commit(d)
      /\ UNCHANGED <<lapsed, inflight, recovery, crashes, calls, issued, told>>
  BY <1>1, Zenon DEF Cancel
<1>3. JournalValid(d)
  BY <1>2, CommitValid
<1>4. DocSound(doc) /\ CallsSound(doc, calls) /\ IssuedSound(doc, issued)
      /\ recovery \in Seq(DOMAIN doc.fx)
  BY DEF IInv
<1>5. /\ DocSound(d) /\ Advances(doc, d) /\ Edited(doc, d, e) /\ SameAttempts(doc, d)
      /\ d.cp = doc.cp
      /\ IF MayPrevent(doc, e)
         THEN /\ d.fx[e].state = "outcome_recorded"
              /\ d.fx[e].outcome = [kind |-> "cancelled", fence |-> 0]
         ELSE d.fx[e].state = doc.fx[e].state /\ d.fx[e].outcome = doc.fx[e].outcome
  BY <1>1, <1>3, <1>4, CancelSound
<1>6. /\ doc' = d
      /\ InflightSound(d, inflight) /\ ToldSound(d, told) /\ LedgerSound(ledger', d)
      /\ recovery \in Seq(DOMAIN d.fx)
  BY <1>2, <1>4, <1>5, CommitKeeps
<1>7. CallsSound(d, calls)
  <2>1. \A x \in DOMAIN doc.fx : d.fx[x].state = "unclaimed" => doc.fx[x].state = "unclaimed"
    BY <1>5 DEF Edited
  <2>. QED
    BY <1>4, <1>5, <2>1, CallsStay
<1>8. IssuedSound(d, issued)
  BY <1>4, <1>5, IssuedStays
<1>9. IInv'
  BY <1>2, <1>5, <1>6, <1>7, <1>8, Assembled
<1>10. CASE ~MayPrevent(doc, e)
  <2>1. SameDecision(doc.fx[e], d.fx[e])
    BY <1>5, <1>10 DEF SameDecision
  <2>2. Moves(doc, doc') /\ (ResultsSound(doc) => ResultsSound(doc')) /\ DecisionsCurrent
    BY <1>5, <1>6, <2>1, EditKeeps
  <2>. QED
    BY <1>9, <2>2 DEF Keeps
<1>11. CASE MayPrevent(doc, e)
  <2>1. doc.fx[e].state = "unclaimed" /\ doc.fx[e].fence = 0
    BY <1>11 DEF MayPrevent
  <2>2. RecordSound(doc.fx[e])
    BY <1>4 DEF DocSound
  <2>3. doc.fx[e].outcome = Undecided /\ DOMAIN doc.fx[e].reports \subseteq 1 .. 0
    BY <2>1, <2>2 DEF RecordSound
  <2>4. d.fx[e].outcome # Undecided /\ d.fx[e].outcome.kind = "cancelled"
    BY <1>5, <1>11 DEF Undecided, None
  <2>5. Moves(doc, d)
    <3>1. StageOf(doc, e) = "open"
      BY <2>1, <2>3 DEF StageOf
    <3>2. StageOf(d, e) = "decided" /\ VerdictOf(d, e) = {"cancelled"}
      BY <1>5, <1>11, <2>4 DEF StageOf, VerdictOf, Edited
    <3>3. DecidedAt(doc, d, e)
      BY <3>1, <3>2 DEF DecidedAt, OutcomeKinds
    <3>. QED
      BY <1>5, <3>3, EditedPhases DEF Moves
  <2>6. ResultsSound(doc) => ResultsSound(d)
    BY <1>4, <1>5, SameAccepts, ResultsStay
  <2>7. DecidedNow(e, 0)
    <3>1. \A i \in issued : i[2] # e
      BY <1>4, <2>1 DEF IssuedSound
    <3>. QED
      BY <2>3, <3>1 DEF DecidedNow
  <2>8. DecisionsCurrent
    <3>1. d.fx[e].outcome.fence = 0
      BY <1>5, <1>11
    <3>2. \A x \in DOMAIN doc.fx : x # e => d.fx[x] = doc.fx[x]
      BY <1>5 DEF Edited
    <3>. QED
      BY <1>6, <2>7, <3>1, <3>2 DEF DecisionsCurrent
  <2>. QED
    BY <1>6, <1>9, <2>5, <2>6, <2>8 DEF Keeps
<1>. QED
  BY <1>10, <1>11

\* A call.
LEMMA DispatchKeeps ==
    ASSUME IInv, NEW w, NEW e \in DOMAIN doc.fx, Dispatch(w, e)
    PROVE  Keeps
<1>1. PICK f : f = doc.fx[e].fence
  OBVIOUS
<1>2. /\ doc.fx[e].state = "leased" /\ calls' = calls \cup {<<e, f>>}
      /\ UNCHANGED <<doc, ledger, lapsed, inflight, recovery, crashes, issued, told>>
  BY <1>1 DEF Dispatch
<1>3. DocSound(doc) /\ CallsSound(doc, calls)
  BY DEF IInv
<1>4. f \in 1 .. doc.fx[e].fence /\ f = doc.fx[e].fence /\ f \in Nat
  <2>1. RecordSound(doc.fx[e])
    BY <1>3 DEF DocSound
  <2>2. f \in Nat /\ f > 0
    BY <1>1, <1>2, <2>1 DEF RecordSound
  <2>. QED
    BY <1>1, <2>2
<1>5. PICK c : c = <<e, f>>
  OBVIOUS
<1>6. /\ c = <<c[1], c[2]>> /\ c[1] \in DOMAIN doc.fx
      /\ c[2] \in 1 .. doc.fx[c[1]].fence
      /\ doc.fx[c[1]].state # "unclaimed" /\ ~(c[2] < doc.fx[c[1]].fence)
  BY <1>2, <1>4, <1>5
<1>7. CallsSound(doc, calls \cup {c})
  <2>1. CallSound(doc, c) /\ \A x \in calls : CallSound(doc, x)
    BY <1>3, <1>6 DEF CallsSound, CallSound
  <2>. QED
    BY <2>1 DEF CallsSound
<1>8. IInv'
  BY <1>2, <1>5, <1>7, Assembled DEF IInv
<1>. QED
  BY <1>2, <1>8, SameDoc DEF Keeps

\* The end of a lease.
LEMMA LapseKeeps ==
    ASSUME IInv, NEW e, Lapse(e)
    PROVE  Keeps
<1>1. UNCHANGED <<doc, ledger, inflight, recovery, crashes, calls, issued, told>>
  BY DEF Lapse
<1>2. IInv'
  BY <1>1 DEF IInv
<1>. QED
  BY <1>1, <1>2, SameDoc DEF Keeps

\* A report that is new.
LEMMA RecordKeeps ==
    ASSUME IInv, NEW w, NEW e, NEW f, NEW k \in Reports, Honest(e, f, k),
           RecordResult(w, e, f, k)
    PROVE  Keeps
<1>1. PICK d : d = Reported(doc, e, f, k)
  OBVIOUS
<1>2. /\ Commit(d) /\ f \notin DOMAIN doc.fx[e].reports /\ doc.fx[e].state = "leased"
      /\ IF k \in OutcomeKinds
         THEN inflight' = inflight \cup {<<e, f, k>>} /\ UNCHANGED told
         ELSE Tell(e, f, k, ReportAnswer(doc)) /\ UNCHANGED inflight
      /\ UNCHANGED <<lapsed, recovery, crashes, calls, issued>>
  BY <1>1, Zenon DEF RecordResult, RecordReport
<1>3. JournalValid(d)
  BY <1>2, CommitValid
<1>4. /\ e \in DOMAIN doc.claims /\ f = doc.fx[e].fence /\ <<e, f>> \notin lapsed
  BY DEF RecordResult, Authorized, Claimed
<1>5. DocSound(doc) /\ CallsSound(doc, calls) /\ IssuedSound(doc, issued)
      /\ recovery \in Seq(DOMAIN doc.fx)
  BY DEF IInv
<1>6. e \in DOMAIN doc.fx
  BY <1>4, <1>5 DEF DocSound, ClaimsSound
<1>7. RecordSound(doc.fx[e]) /\ f \in Nat
  BY <1>4, <1>5, <1>6 DEF DocSound, RecordSound
<1>8. /\ DocSound(d) /\ Advances(doc, d) /\ Edited(doc, d, e) /\ SameAttempts(doc, d)
      /\ f \in DOMAIN d.fx[e].reports /\ d.fx[e].reports[f] = k
      /\ d.fx[e].state = "unclaimed" => k = "retryable_failure"
      /\ d.fx[e].state # "result_admitted"
      /\ d.cp = doc.cp
      /\ IF k \in OutcomeKinds THEN d.fx[e].outcome = [kind |-> k, fence |-> f]
         ELSE d.fx[e].outcome = Undecided
  <2>1. DocSound(doc) /\ f \notin DOMAIN doc.fx[e].reports /\ doc.fx[e].state = "leased"
    BY <1>2, <1>5
  <2>2. f = doc.fx[e].fence
    BY <1>4
  <2>. QED
    BY <1>1, <1>3, <1>6, <2>1, <2>2, ReportSound
<1>9. /\ doc' = d
      /\ InflightSound(d, inflight) /\ ToldSound(d, told) /\ LedgerSound(ledger', d)
      /\ recovery \in Seq(DOMAIN d.fx)
  BY <1>2, <1>5, <1>8, CommitKeeps
<1>10. CallsSound(d, calls)
  <2>1. \A x \in DOMAIN doc.fx : d.fx[x].state = "unclaimed" =>
           doc.fx[x].state = "unclaimed" \/ <<x, doc.fx[x].fence>> \notin calls
    BY <1>4, <1>8 DEF Edited, Honest
  <2>. QED
    BY <1>5, <1>8, <2>1, CallsStay
<1>11. IssuedSound(d, issued)
  BY <1>5, <1>8, IssuedStays
<1>12. e \in DOMAIN d.fx
  BY <1>6, <1>8 DEF Edited
<1>13. CASE k \in OutcomeKinds
  <2>1. InflightSound(d, inflight')
    <3>1. PICK s : s = <<e, f, k>>
      OBVIOUS
    <3>2. /\ s = <<s[1], s[2], s[3]>> /\ s[1] \in DOMAIN d.fx /\ s[3] \in OutcomeKinds
          /\ s[2] \in DOMAIN d.fx[s[1]].reports /\ d.fx[s[1]].reports[s[2]] = s[3]
      BY <1>8, <1>12, <1>13, <3>1
    <3>3. inflight' = inflight \cup {s}
      BY <1>2, <1>13, <3>1
    <3>. QED
      BY <1>9, <3>2, <3>3 DEF InflightSound
  <2>2. told' = told
    BY <1>2, <1>13
  <2>3. IInv'
    BY <1>2, <1>8, <1>9, <1>10, <1>11, <2>1, <2>2, Assembled
  <2>4. d.fx[e].outcome = [kind |-> k, fence |-> f]
    BY <1>8, <1>13
  <2>5. d.fx[e].outcome # Undecided /\ d.fx[e].outcome.kind = k /\ d.fx[e].outcome.fence = f
    BY <1>7, <2>4 DEF Undecided, None
  <2>6. Moves(doc, d)
    <3>1. StageOf(doc, e) = "open"
      BY <1>2, <1>6, <1>7 DEF StageOf, RecordSound
    <3>2. StageOf(d, e) = "decided" /\ VerdictOf(d, e) = {k}
      BY <1>8, <1>12, <2>5 DEF StageOf, VerdictOf
    <3>3. DecidedAt(doc, d, e)
      BY <1>13, <3>1, <3>2 DEF DecidedAt
    <3>. QED
      BY <1>8, <3>3, EditedPhases DEF Moves
  <2>7. ResultsSound(doc) => ResultsSound(d)
    BY <1>5, <1>8, SameAccepts, ResultsStay
  <2>8. DecidedNow(e, f)
    <3>1. k \in Verdicts
      BY <1>13, EffectAssumption DEF Reports, OutcomeKinds
    <3>2. \A i \in issued : i[2] = e => i[3] <= f
      BY <1>4, <1>5, <1>7 DEF IssuedSound
    <3>. QED
      BY <1>2, <1>4, <3>1, <3>2 DEF DecidedNow, Honest
  <2>9. DecisionsCurrent
    <3>1. \A x \in DOMAIN doc.fx : x # e => d.fx[x] = doc.fx[x]
      BY <1>8 DEF Edited
    <3>. QED
      BY <1>9, <2>5, <2>8, <3>1 DEF DecisionsCurrent
  <2>. QED
    BY <1>9, <2>3, <2>6, <2>7, <2>9 DEF Keeps
<1>14. CASE k \notin OutcomeKinds
  <2>1. told' = Answered(told, <<e, f, k>>, ReportAnswer(doc)) /\ inflight' = inflight
    BY <1>2, <1>14, Zenon DEF Tell, Answered
  <2>2. ReportAnswer(doc).status # "committed"
    BY DEF ReportAnswer
  <2>3. ToldSound(d, told')
    BY <1>9, <1>14, <2>1, <2>2, ToldOpen
  <2>4. IInv'
    BY <1>2, <1>8, <1>9, <1>10, <1>11, <2>1, <2>3, Assembled
  <2>5. SameDecision(doc.fx[e], d.fx[e])
    BY <1>2, <1>7, <1>8, <1>14 DEF SameDecision, RecordSound
  <2>6. Moves(doc, doc') /\ (ResultsSound(doc) => ResultsSound(doc')) /\ DecisionsCurrent
    BY <1>6, <1>8, <1>9, <2>5, EditKeeps
  <2>. QED
    BY <2>4, <2>6 DEF Keeps
<1>. QED
  BY <1>13, <1>14

\* What is reported under a fence decides what is decided under it.
LEMMA ReportDecides ==
    ASSUME NEW d, DocSound(d), NEW e \in DOMAIN d.fx, NEW f \in DOMAIN d.fx[e].reports
    PROVE  /\ d.fx[e].reports[f] \in OutcomeKinds =>
                 /\ d.fx[e].outcome # Undecided
                 /\ d.fx[e].outcome.kind = d.fx[e].reports[f] /\ d.fx[e].outcome.fence = f
           /\ d.fx[e].outcome # Undecided /\ d.fx[e].outcome.fence = f =>
                 d.fx[e].reports[f] \in OutcomeKinds
<1>1. PICK r, k : r = d.fx[e] /\ k = r.reports[f]
  OBVIOUS
<1>2. RecordSound(r) /\ OutcomeReported(r)
  BY <1>1 DEF DocSound, JournalValid
<1>3. k \in OutcomeKinds =>
         r.outcome # Undecided /\ r.outcome.kind = k /\ r.outcome.fence = f
  <2>1. SUFFICES ASSUME k \in OutcomeKinds
                 PROVE  r.outcome # Undecided /\ r.outcome.kind = k /\ r.outcome.fence = f
    OBVIOUS
  <2>2. r.outcome = [kind |-> k, fence |-> f]
    BY <1>1, <1>2, <2>1 DEF RecordSound
  <2>3. f \in Nat
    BY <1>1, <1>2 DEF RecordSound
  <2>. QED
    BY <2>2, <2>3 DEF Undecided, None
<1>4. r.outcome # Undecided /\ r.outcome.fence = f => k \in OutcomeKinds
  <2>1. SUFFICES ASSUME r.outcome # Undecided, r.outcome.fence = f PROVE k \in OutcomeKinds
    OBVIOUS
  <2>2. r.outcome.kind \in OutcomeKinds
    BY <1>2, <2>1 DEF RecordSound
  <2>3. r.reports # <<>>
    BY <1>1
  <2>. QED
    BY <1>1, <1>2, <2>1, <2>2, <2>3 DEF OutcomeReported
<1>. QED
  BY <1>1, <1>3, <1>4

\* A report that is repeated.
LEMMA RepeatKeeps ==
    ASSUME IInv, NEW w, NEW e, NEW f, NEW k, RepeatResult(w, e, f, k)
    PROVE  Keeps
<1>1. /\ f \in DOMAIN doc.fx[e].reports /\ doc.fx[e].reports[f] = k
      /\ e \in DOMAIN doc.claims
      /\ UNCHANGED <<doc, ledger, lapsed, recovery, crashes, calls, issued>>
  BY DEF RepeatResult, Retained, Authorized, Claimed
<1>2. DocSound(doc) /\ InflightSound(doc, inflight) /\ ToldSound(doc, told)
  BY DEF IInv
<1>3. e \in DOMAIN doc.fx
  BY <1>1, <1>2 DEF DocSound, ClaimsSound
<1>4. CASE k \in OutcomeKinds
  <2>1. PICK s : s = <<e, f, k>>
    OBVIOUS
  <2>2. inflight' = inflight \cup {s} /\ told' = told
    BY <1>4, <2>1, Zenon DEF RepeatResult
  <2>3. /\ s = <<s[1], s[2], s[3]>> /\ s[1] \in DOMAIN doc.fx /\ s[3] \in OutcomeKinds
        /\ s[2] \in DOMAIN doc.fx[s[1]].reports /\ doc.fx[s[1]].reports[s[2]] = s[3]
    BY <1>1, <1>3, <1>4, <2>1
  <2>4. InflightSound(doc, inflight')
    BY <1>2, <2>2, <2>3 DEF InflightSound
  <2>5. IInv'
    BY <1>1, <2>2, <2>4, Assembled DEF IInv
  <2>. QED
    BY <1>1, <2>5, SameDoc DEF Keeps
<1>5. CASE k \notin OutcomeKinds
  <2>1. PICK answer : answer = IF <<e, f>> \in DOMAIN doc.answers THEN doc.answers[<<e, f>>]
                               ELSE ReportAnswer(doc)
    OBVIOUS
  <2>2. told' = Answered(told, <<e, f, k>>, answer) /\ inflight' = inflight
    BY <1>5, <2>1, Zenon DEF RepeatResult, Tell, Answered
  <2>3. answer.status # "committed"
    <3>1. CASE <<e, f>> \in DOMAIN doc.answers
      <4>1. PICK p : p = <<e, f>>
        OBVIOUS
      <4>2. p[1] = e /\ p[2] = f /\ p \in DOMAIN doc.answers
        BY <3>1, <4>1
      <4>3. ~Committed(doc, p)
        <5>1. SUFFICES ASSUME Committed(doc, p) PROVE FALSE
          OBVIOUS
        <5>2. doc.fx[e].state = "result_admitted" /\ doc.fx[e].outcome.fence = f
          BY <4>2, <5>1 DEF Committed
        <5>3. doc.fx[e].outcome # Undecided
          BY <1>2, <1>3, <5>2 DEF DocSound, RecordSound
        <5>. QED
          BY <1>1, <1>2, <1>3, <1>5, <5>2, <5>3, ReportDecides
      <4>4. Noted(doc, p)
        BY <1>2, <4>2, <4>3 DEF DocSound, AnswersSound
      <4>. QED
        BY <2>1, <3>1, <4>1, <4>4 DEF Noted
    <3>2. CASE <<e, f>> \notin DOMAIN doc.answers
      BY <2>1, <3>2 DEF ReportAnswer
    <3>. QED
      BY <3>1, <3>2
  <2>4. ToldSound(doc, told')
    BY <1>2, <1>5, <2>2, <2>3, ToldOpen
  <2>5. IInv'
    BY <1>1, <2>2, <2>4, Assembled DEF IInv
  <2>. QED
    BY <1>1, <2>5, SameDoc DEF Keeps
<1>. QED
  BY <1>4, <1>5

\* What of the invariant concerns a document d that is committed, and the histories.
Holds(d) ==
    /\ DocSound(d) /\ CallsSound(d, calls) /\ IssuedSound(d, issued)
    /\ InflightSound(d, inflight) /\ ToldSound(d, told) /\ LedgerSound(ledger', d)
    /\ Seq(DOMAIN doc.fx) \subseteq Seq(DOMAIN d.fx)

\* The invariant and its document, as parts.
LEMMA Parts ==
    ASSUME IInv
    PROVE  /\ DocSound(doc) /\ CallsSound(doc, calls) /\ IssuedSound(doc, issued)
           /\ InflightSound(doc, inflight) /\ ToldSound(doc, told)
           /\ recovery \in Seq(DOMAIN doc.fx) /\ LedgerSound(ledger, doc)
  BY DEF IInv

\* The machine accepts the result of the effect that is admitted, and no other.
LEMMA ResultsAdmitted ==
    ASSUME NEW d, DocSound(d), NEW e \in DOMAIN d.fx, d.fx[e].state = "outcome_recorded",
           NEW d2, d2 = ResultAdmitted(d, e), JournalValid(d2)
    PROVE  ResultsSound(d) => ResultsSound(d2)
<1>1. PICK k : k = d.fx[e].outcome.kind
  OBVIOUS
<1>2. PICK batch : batch = <<ResultDelivery(e, k)>>
  OBVIOUS
<1>3. /\ Advances(d, d2) /\ Edited(d, d2, e)
      /\ d2.fx[e].state = "result_admitted" /\ d2.fx[e].outcome.kind = k
      /\ d2.cp = Admitted(d.cp, batch)
  BY <1>1, <1>2, AdmitSound
<1>4. \A i \in DOMAIN batch : batch[i].id = ResultOf(e, k)
  BY <1>2 DEF ResultDelivery
<1>5. SUFFICES ASSUME ResultsSound(d), NEW s \in OfKind(d2.cp, "acceptance"), NEW x, NEW j,
                      d2.cp.receipts[s].id = ResultOf(x, j)
               PROVE  /\ x \in DOMAIN d2.fx /\ d2.fx[x].state = "result_admitted"
                      /\ d2.fx[x].outcome.kind = j
  BY DEF ResultsSound
<1>6. \/ s \in DOMAIN d.cp.receipts /\ d2.cp.receipts[s] = d.cp.receipts[s]
      \/ d2.cp.receipts[s].id = ResultOf(e, k)
  <2>1. Shaped(d.cp) /\ ReceiptsShaped(d.cp)
    BY DEF DocSound
  <2>2. s \in DOMAIN d2.cp.receipts /\ d2.cp.receipts[s].kind = "acceptance"
    BY DEF OfKind
  <2>3. \/ s \in DOMAIN d.cp.receipts /\ d2.cp.receipts[s] = d.cp.receipts[s]
        \/ \E i \in DOMAIN batch : d2.cp.receipts[s].id = batch[i].id
    BY <1>3, <2>1, <2>2, AdmittedReceipts
  <2>. QED
    BY <1>4, <2>3
<1>7. CASE s \in DOMAIN d.cp.receipts /\ d2.cp.receipts[s] = d.cp.receipts[s]
  <2>1. x \in DOMAIN d.fx /\ d.fx[x].state = "result_admitted" /\ d.fx[x].outcome.kind = j
    BY <1>5, <1>7 DEF ResultsSound, OfKind
  <2>2. RecordSound(d.fx[x]) /\ Continues(d.fx[x], d2.fx[x]) /\ x \in DOMAIN d2.fx
    BY <1>3, <2>1 DEF DocSound, Advances
  <2>3. d.fx[x].outcome # Undecided
    BY <2>1, <2>2 DEF RecordSound
  <2>. QED
    BY <2>1, <2>2, <2>3 DEF Continues
<1>8. CASE d2.cp.receipts[s].id = ResultOf(e, k)
  <2>1. x = e /\ j = k
    BY <1>5, <1>8 DEF ResultOf
  <2>. QED
    BY <1>3, <2>1 DEF Edited
<1>. QED
  BY <1>6, <1>7, <1>8

\* Committing an admission.
LEMMA AdmissionKeeps ==
    ASSUME IInv, NEW e \in DOMAIN doc.fx, doc.fx[e].state = "outcome_recorded",
           Commit(ResultAdmitted(doc, e))
    PROVE  /\ Holds(doc') /\ Advances(doc, doc')
           /\ <<e, doc.fx[e].outcome.fence>> \in DOMAIN doc'.answers
           /\ Moves(doc, doc') /\ (ResultsSound(doc) => ResultsSound(doc')) /\ DecisionsCurrent
<1>1. PICK d : d = ResultAdmitted(doc, e)
  OBVIOUS
<1>2. Commit(d) /\ JournalValid(d)
  BY <1>1, CommitValid
<1>3. DocSound(doc) /\ CallsSound(doc, calls) /\ IssuedSound(doc, issued)
  BY Parts
<1>4. /\ DocSound(d) /\ Advances(doc, d) /\ Edited(doc, d, e) /\ SameAttempts(doc, d)
      /\ d.fx[e].state = "result_admitted" /\ d.fx[e].outcome = doc.fx[e].outcome
      /\ <<e, doc.fx[e].outcome.fence>> \in DOMAIN d.answers
  BY <1>1, <1>2, <1>3, AdmitSound
<1>5. /\ doc' = d
      /\ InflightSound(d, inflight) /\ ToldSound(d, told) /\ LedgerSound(ledger', d)
      /\ Seq(DOMAIN doc.fx) \subseteq Seq(DOMAIN d.fx)
  BY <1>2, <1>4, CommitKeeps
<1>6. CallsSound(d, calls)
  <2>1. \A x \in DOMAIN doc.fx : d.fx[x].state = "unclaimed" => doc.fx[x].state = "unclaimed"
    BY <1>4 DEF Edited
  <2>. QED
    BY <1>3, <1>4, <2>1, CallsStay
<1>7. IssuedSound(d, issued)
  BY <1>3, <1>4, IssuedStays
<1>8. Holds(d)
  BY <1>4, <1>5, <1>6, <1>7 DEF Holds
<1>9. Moves(doc, d)
  <2>1. RecordSound(doc.fx[e]) /\ doc.fx[e].outcome # Undecided
    BY <1>3 DEF DocSound, RecordSound
  <2>2. StageOf(doc, e) = "decided"
    BY <2>1 DEF StageOf
  <2>3. StageOf(d, e) = "told" /\ VerdictOf(d, e) = VerdictOf(doc, e)
    BY <1>4 DEF StageOf, VerdictOf, Edited
  <2>4. ToldAt(doc, d, e)
    BY <2>2, <2>3 DEF ToldAt
  <2>. QED
    BY <1>4, <2>4, EditedPhases DEF Moves
<1>10. ResultsSound(doc) => ResultsSound(d)
  BY <1>1, <1>2, <1>3, ResultsAdmitted
<1>11. DecisionsCurrent
  BY <1>4, <1>5 DEF DecisionsCurrent, Edited
<1>. QED
  BY <1>4, <1>5, <1>8, <1>9, <1>10, <1>11

\* The second transaction of a submission.
LEMMA AdmitKeeps ==
    ASSUME IInv, NEW s \in inflight, AdmitResult(s[1], s[2], s[3])
    PROVE  Keeps
<1>1. PICK e, f, k : e = s[1] /\ f = s[2] /\ k = s[3]
  OBVIOUS
<1>2. AdmitResult(e, f, k)
  BY <1>1
<1>3. /\ DocSound(doc) /\ InflightSound(doc, inflight) /\ ToldSound(doc, told)
      /\ recovery \in Seq(DOMAIN doc.fx)
  BY Parts
<1>4. /\ e \in DOMAIN doc.fx /\ k \in OutcomeKinds
      /\ f \in DOMAIN doc.fx[e].reports /\ doc.fx[e].reports[f] = k
  BY <1>1, <1>3 DEF InflightSound
<1>5. /\ inflight' = inflight \ {<<e, f, k>>}
      /\ UNCHANGED <<lapsed, recovery, crashes, calls, issued>>
  BY <1>2 DEF AdmitResult
<1>6. CASE <<e, f>> \in DOMAIN doc.answers
  <2>1. /\ told' = Answered(told, <<e, f, k>>, doc.answers[<<e, f>>])
        /\ UNCHANGED <<doc, ledger>>
    BY <1>2, <1>6, Zenon DEF AdmitResult, Tell, Answered
  <2>2. ToldSound(doc, told')
    BY <1>3, <1>4, <1>6, <2>1, ToldOutcome
  <2>3. InflightSound(doc, inflight')
    BY <1>3, <1>5 DEF InflightSound
  <2>4. IInv'
    BY <1>5, <2>1, <2>2, <2>3, Assembled, Parts
  <2>. QED
    BY <2>1, <2>4, SameDoc DEF Keeps
<1>7. CASE <<e, f>> \notin DOMAIN doc.answers
  <2>1. /\ doc.fx[e].state = "outcome_recorded" /\ Commit(ResultAdmitted(doc, e))
        /\ told' = Answered(told, <<e, f, k>>, doc'.answers[<<e, f>>])
    BY <1>2, <1>7, Zenon DEF AdmitResult, Tell, Answered
  <2>2. /\ Holds(doc') /\ Advances(doc, doc')
        /\ <<e, doc.fx[e].outcome.fence>> \in DOMAIN doc'.answers
        /\ Moves(doc, doc') /\ (ResultsSound(doc) => ResultsSound(doc')) /\ DecisionsCurrent
    BY <1>4, <2>1, AdmissionKeeps
  <2>3. doc.fx[e].outcome.fence = f
    BY <1>3, <1>4, ReportDecides
  <2>4. f \in DOMAIN doc'.fx[e].reports /\ doc'.fx[e].reports[f] = k
    BY <1>4, <2>2 DEF Advances, Continues
  <2>5. ToldSound(doc', told')
    BY <1>4, <2>1, <2>2, <2>3, <2>4, ToldOutcome DEF Holds
  <2>6. InflightSound(doc', inflight')
    BY <1>5, <2>2 DEF InflightSound, Holds
  <2>7. IInv'
    BY <1>3, <1>5, <2>2, <2>5, <2>6, Assembled DEF Holds
  <2>. QED
    BY <2>2, <2>7 DEF Keeps
<1>. QED
  BY <1>6, <1>7

\* A submission that is refused.
LEMMA RefuseKeeps ==
    ASSUME IInv, NEW e, NEW f, NEW k, RefuseAdmission(e, f, k)
    PROVE  Keeps
<1>1. /\ inflight' = inflight \ {<<e, f, k>>}
      /\ UNCHANGED <<doc, ledger, lapsed, recovery, crashes, calls, issued, told>>
  BY DEF RefuseAdmission
<1>2. InflightSound(doc, inflight')
  BY <1>1, Parts DEF InflightSound
<1>3. IInv'
  BY <1>1, <1>2, Assembled, Parts
<1>. QED
  BY <1>1, <1>3, SameDoc DEF Keeps

\* A walk over the effects names effects that are on record.
LEMMA StartRecoveryKeeps ==
    ASSUME IInv, StartRecovery
    PROVE  Keeps
<1>1. /\ recovery' \in SetToSeqs(DOMAIN doc.fx)
      /\ UNCHANGED <<doc, ledger, lapsed, inflight, crashes, calls, issued, told>>
  BY DEF StartRecovery
<1>2. PICK S : S = DOMAIN doc.fx
  OBVIOUS
<1>3. Cardinality(S) \in Nat
  BY <1>2, Parts, FS_CardinalityType DEF DocSound
<1>4. recovery' \in [1 .. Cardinality(S) -> S]
  BY <1>1, <1>2 DEF SetToSeqs
<1>5. recovery' \in Seq(S)
  BY <1>3, <1>4
<1>6. IInv'
  BY <1>1, <1>2, <1>5, Assembled, Parts
<1>. QED
  BY <1>1, <1>6, SameDoc DEF Keeps

\* The rest of a walk.
LEMMA RecoverNextKeeps ==
    ASSUME IInv, RecoverNext
    PROVE  Keeps
<1>1. PICK e : e = Head(recovery)
  OBVIOUS
<1>2. /\ recovery # <<>> /\ recovery' = Tail(recovery)
      /\ UNCHANGED <<lapsed, inflight, crashes, calls, issued, told>>
      /\ \/ doc.fx[e].state = "outcome_recorded" /\ Commit(ResultAdmitted(doc, e))
         \/ doc.fx[e].state = "leased" /\ Commit(Revoked(doc, e))
         \/ UNCHANGED <<doc, ledger>>
  BY <1>1, Zenon DEF RecoverNext
<1>3. recovery \in Seq(DOMAIN doc.fx)
  BY Parts
<1>4. e \in DOMAIN doc.fx /\ recovery' \in Seq(DOMAIN doc.fx)
  BY <1>1, <1>2, <1>3, HeadTailProperties
<1>5. CASE doc.fx[e].state = "outcome_recorded" /\ Commit(ResultAdmitted(doc, e))
  <2>1. /\ Holds(doc')
        /\ Moves(doc, doc') /\ (ResultsSound(doc) => ResultsSound(doc')) /\ DecisionsCurrent
    BY <1>4, <1>5, AdmissionKeeps
  <2>2. IInv'
    BY <1>2, <1>4, <2>1, Assembled DEF Holds
  <2>. QED
    BY <2>1, <2>2 DEF Keeps
<1>6. CASE doc.fx[e].state = "leased" /\ Commit(Revoked(doc, e))
  <2>1. PICK d : d = Revoked(doc, e)
    OBVIOUS
  <2>2. Commit(d) /\ JournalValid(d)
    BY <1>6, <2>1, CommitValid
  <2>3. DocSound(doc) /\ CallsSound(doc, calls) /\ IssuedSound(doc, issued)
    BY Parts
  <2>4. /\ DocSound(d) /\ Advances(doc, d) /\ Edited(doc, d, e) /\ SameAttempts(doc, d)
        /\ d.fx[e].state = "ambiguous" /\ d.fx[e].outcome = doc.fx[e].outcome
        /\ d.cp = doc.cp
    BY <1>4, <1>6, <2>1, <2>2, <2>3, RevokeSound
  <2>5. /\ doc' = d
        /\ InflightSound(d, inflight) /\ ToldSound(d, told) /\ LedgerSound(ledger', d)
        /\ Seq(DOMAIN doc.fx) \subseteq Seq(DOMAIN d.fx)
    BY <2>2, <2>4, CommitKeeps
  <2>6. CallsSound(d, calls)
    <3>1. \A x \in DOMAIN doc.fx : d.fx[x].state = "unclaimed" => doc.fx[x].state = "unclaimed"
      BY <2>4 DEF Edited
    <3>. QED
      BY <2>3, <2>4, <3>1, CallsStay
  <2>7. IssuedSound(d, issued)
    BY <2>3, <2>4, IssuedStays
  <2>8. IInv'
    BY <1>2, <1>4, <2>4, <2>5, <2>6, <2>7, Assembled
  <2>9. SameDecision(doc.fx[e], d.fx[e])
    BY <1>6, <2>4 DEF SameDecision
  <2>10. Moves(doc, doc') /\ (ResultsSound(doc) => ResultsSound(doc')) /\ DecisionsCurrent
    BY <1>4, <2>4, <2>5, <2>9, EditKeeps
  <2>. QED
    BY <2>8, <2>10 DEF Keeps
<1>7. CASE UNCHANGED <<doc, ledger>>
  <2>1. IInv'
    BY <1>2, <1>4, <1>7, Assembled, Parts
  <2>. QED
    BY <1>7, <2>1, SameDoc DEF Keeps
<1>. QED
  BY <1>2, <1>5, <1>6, <1>7

\* A walk that ends early.
LEMMA RecoveryRaisesKeeps ==
    ASSUME IInv, RecoveryRaises
    PROVE  Keeps
<1>1. /\ recovery' = <<>>
      /\ UNCHANGED <<doc, ledger, lapsed, inflight, crashes, calls, issued, told>>
  BY DEF RecoveryRaises
<1>2. recovery' \in Seq(DOMAIN doc.fx)
  BY <1>1
<1>3. IInv'
  BY <1>1, <1>2, Assembled, Parts
<1>. QED
  BY <1>1, <1>3, SameDoc DEF Keeps

\* A crash.
LEMMA CrashKeeps ==
    ASSUME IInv, Crash
    PROVE  Keeps
<1>1. inflight' = {} /\ recovery' = <<>>
      /\ UNCHANGED <<doc, ledger, lapsed, calls, issued, told>>
  BY DEF Crash
<1>2. recovery' \in Seq(DOMAIN doc.fx) /\ InflightSound(doc, inflight')
  BY <1>1 DEF InflightSound
<1>3. IInv'
  BY <1>1, <1>2, Assembled, Parts
<1>. QED
  BY <1>1, <1>3, SameDoc DEF Keeps

\* A doubt about the scope says nothing of fences or claims.
LEMMA DoubtKeeps ==
    ASSUME IInv, Doubt
    PROVE  Keeps
<1>1. PICK state : ledger' = [ledger EXCEPT !.state = state]
  BY DEF Doubt
<1>2. UNCHANGED <<doc, lapsed, inflight, recovery, crashes, calls, issued, told>>
  BY DEF Doubt
<1>3. PICK l, l2 : l = ledger /\ l2 = ledger'
  OBVIOUS
<1>4. LedgerSound(l, doc)
  BY <1>3, Parts
<1>5. /\ LedgerShape(l2) /\ l2.fences = l.fences /\ l2.active = l.active
      /\ l2.history = l.history /\ l2.checkpoints = l.checkpoints
  BY <1>1, <1>3, <1>4 DEF LedgerSound, LedgerShape
<1>6. LedgerSound(l2, doc)
  BY <1>4, <1>5 DEF LedgerSound, PairValid
<1>7. IInv'
  BY <1>2, <1>3, <1>6, Assembled, Parts
<1>. QED
  BY <1>2, <1>7, SameDoc DEF Keeps

\* A stuttering step.
LEMMA StutterKeeps ==
    ASSUME IInv, UNCHANGED vars
    PROVE  Keeps
<1>1. UNCHANGED <<doc, ledger, inflight, recovery, calls, issued, told>>
  BY DEF vars
<1>2. IInv'
  BY <1>1, Assembled, Parts
<1>. QED
  BY <1>1, <1>2, SameDoc DEF Keeps

\* Every step keeps the invariant, the order of the stages, the results and where
\* decisions come from.
LEMMA StepKeeps ==
    ASSUME IInv, [Next]_vars
    PROVE  Keeps
<1>1. CASE \E op \in Operations, r \in Runtimes : Produce(op, r)
  BY <1>1, ProduceKeeps
<1>2. CASE \E e \in DOMAIN doc.fx, w \in Workers : ClaimEffect(w, e) \/ FenceWorker(w, e)
  <2>1. PICK e \in DOMAIN doc.fx, w \in Workers : ClaimEffect(w, e) \/ FenceWorker(w, e)
    BY <1>2
  <2>2. \E proof \in BOOLEAN : IssueClaim(w, e, proof)
    BY <2>1, EffectAssumption DEF ClaimEffect, FenceWorker
  <2>. QED
    BY <2>2, IssueClaimKeeps
<1>3. CASE \E e \in DOMAIN doc.fx, w \in Workers : Dispatch(w, e)
  BY <1>3, DispatchKeeps
<1>4. CASE \E e \in DOMAIN doc.fx, outcome \in Outcomes : TerminalizeOutbox(e, outcome)
  BY <1>4, TerminalizeKeeps
<1>5. CASE \E e \in DOMAIN doc.fx : Lapse(e)
  BY <1>5, LapseKeeps
<1>6. CASE \E e \in DOMAIN doc.fx, op \in Operations : Cancel(op, e)
  BY <1>6, CancelKeeps
<1>7. CASE \E i \in issued, k \in Reports :
              /\ Honest(i[2], i[3], k)
              /\ RecordResult(i[1], i[2], i[3], k) \/ RepeatResult(i[1], i[2], i[3], k)
  <2>1. PICK i \in issued, k \in Reports :
           /\ Honest(i[2], i[3], k)
           /\ RecordResult(i[1], i[2], i[3], k) \/ RepeatResult(i[1], i[2], i[3], k)
    BY <1>7
  <2>. QED
    BY <2>1, RecordKeeps, RepeatKeeps
<1>8. CASE \E s \in inflight : AdmitResult(s[1], s[2], s[3]) \/ RefuseAdmission(s[1], s[2], s[3])
  BY <1>8, AdmitKeeps, RefuseKeeps
<1>9. CASE Recover
  BY <1>9, StartRecoveryKeeps, RecoverNextKeeps, RecoveryRaisesKeeps DEF Recover
<1>10. CASE Crash
  BY <1>10, CrashKeeps
<1>11. CASE Doubt
  BY <1>11, DoubtKeeps
<1>12. CASE UNCHANGED vars
  BY <1>12, StutterKeeps
<1>. QED
  BY <1>1, <1>2, <1>3, <1>4, <1>5, <1>6, <1>7, <1>8, <1>9, <1>10, <1>11, <1>12 DEF Next

-----------------------------------------------------------------------------
(* Initial states.                                                         *)

\* A queued root has emitted nothing, and accepted what callers sent.
LEMMA QueuedRoot ==
    ASSUME NEW c \in Queued
    PROVE  /\ Shaped(c) /\ ReceiptsShaped(c) /\ DOMAIN c.pendingFx = {}
           /\ \A s \in OfKind(c, "acceptance") : c.receipts[s].id \in Inputs
<1>1. PICK root \in Creations, b \in Batches :
         /\ c = Admitted(root, b) /\ root.pendingFx = <<>>
         /\ \A i \in DOMAIN b : b[i].id \in Inputs
  BY DEF Queued
<1>2. /\ Shaped(root) /\ ReceiptsShaped(root)
      /\ \A s \in DOMAIN root.receipts : root.receipts[s].kind # "acceptance"
  BY CreationsShape, CreationsAccept DEF Worked
<1>3. Shaped(c) /\ c.pendingFx = root.pendingFx
  BY <1>1, <1>2, AdmittedShape DEF SameEffects
<1>4. /\ ReceiptsShaped(c)
      /\ \A s \in DOMAIN c.receipts :
            c.receipts[s].kind = "acceptance" =>
               \/ s \in DOMAIN root.receipts /\ c.receipts[s] = root.receipts[s]
               \/ \E i \in DOMAIN b : c.receipts[s].id = b[i].id
  BY <1>1, <1>2, AdmittedReceipts
<1>5. ASSUME NEW s \in OfKind(c, "acceptance")
      PROVE  c.receipts[s].id \in Inputs
  <2>1. s \in DOMAIN c.receipts /\ c.receipts[s].kind = "acceptance"
    BY DEF OfKind
  <2>2. \E i \in DOMAIN b : c.receipts[s].id = b[i].id
    BY <1>2, <1>4, <2>1
  <2>. QED
    BY <1>1, <2>2
<1>. QED
  BY <1>1, <1>3, <1>4, <1>5

\* Nothing is on record of a root that has emitted nothing.
LEMMA SeededSound ==
    ASSUME NEW c \in Queued, NEW d, d = Seeded(c)
    PROVE  /\ DocSound(d) /\ d.cp = c /\ DOMAIN d.fx = {} /\ DOMAIN d.claims = {}
<1>1. PICK empty : empty = <<>>
  OBVIOUS
<1>2. DOMAIN empty = {} /\ empty = [x \in DOMAIN empty |-> empty[x]]
  BY <1>1
<1>3. d = [cp |-> c, pinned |-> c.revision, fx |-> empty, claims |-> empty, evidence |-> {},
           answers |-> empty, responses |-> empty]
  BY <1>1 DEF Seeded
<1>4. /\ DocShape(d) /\ d.cp = c /\ d.pinned = c.revision
      /\ d.fx = empty /\ d.claims = empty /\ d.answers = empty
  BY <1>3 DEF DocShape
<1>5. Shaped(c) /\ ReceiptsShaped(c) /\ DOMAIN c.pendingFx = {}
  BY QueuedRoot
<1>6. ClaimsSound(d) /\ AnswersSound(d) /\ JournalValid(d)
  BY <1>2, <1>4 DEF ClaimsSound, AnswersSound, JournalValid
<1>7. IsFiniteSet(DOMAIN d.fx)
  BY <1>2, <1>4, FS_EmptySet
<1>. QED
  BY <1>2, <1>4, <1>5, <1>6, <1>7 DEF DocSound

\* The ledger of a scope that is set up mirrors the seeded document.
LEMMA SeededLedger ==
    ASSUME NEW d, DocSound(d), DOMAIN d.fx = {}, DOMAIN d.claims = {},
           NEW l, l = IF Scoped THEN Mirrored(EmptyLedger, d) ELSE EmptyLedger
    PROVE  LedgerSound(l, d)
<1>1. LedgerShape(EmptyLedger) /\ EmptyLedger.history = {}
  BY DEF LedgerShape, EmptyLedger
<1>2. CASE ~Scoped
  BY <1>1, <1>2 DEF LedgerSound
<1>3. CASE Scoped
  <2>1. PICK live, fences, history :
           /\ l = [EmptyLedger EXCEPT !.fences = fences, !.active = live, !.history = history,
                                      !.checkpoints = EmptyLedger.checkpoints \cup {d.cp.revision}]
           /\ history = EmptyLedger.history \cup {<<e, d.claims[e]>> : e \in DOMAIN d.claims}
    BY <1>3, Zenon DEF Mirrored, MirroredWith
  <2>2. history = {}
    BY <1>1, <2>1
  <2>3. LedgerShape(l) /\ l.history = {} /\ d.cp.revision \in l.checkpoints
    BY <1>1, <2>1, <2>2 DEF LedgerShape
  <2>. QED
    BY <1>3, <2>3 DEF LedgerSound, PairValid
<1>. QED
  BY <1>2, <1>3

\* The initial states have the invariant.
LEMMA InitSound == Init => IInv
<1>. SUFFICES ASSUME Init PROVE IInv
  OBVIOUS
<1>1. PICK c \in Queued : /\ doc = Seeded(c)
                          /\ ledger = IF Scoped THEN Mirrored(EmptyLedger, Seeded(c))
                                      ELSE EmptyLedger
  BY DEF Init
<1>2. DocSound(doc) /\ DOMAIN doc.fx = {} /\ DOMAIN doc.claims = {}
  BY <1>1, SeededSound
<1>3. LedgerSound(ledger, doc)
  BY <1>1, <1>2, SeededLedger
<1>4. /\ inflight = {} /\ recovery = <<>> /\ calls = {} /\ issued = {} /\ told = <<>>
  BY DEF Init
<1>5. PICK empty : empty = <<>>
  OBVIOUS
<1>6. DOMAIN empty = {} /\ empty = [x \in DOMAIN empty |-> empty[x]]
      /\ empty \in Seq(DOMAIN doc.fx)
  BY <1>5
<1>7. CallsSound(doc, calls) /\ IssuedSound(doc, issued) /\ InflightSound(doc, inflight)
  BY <1>2, <1>4 DEF CallsSound, IssuedSound, InflightSound
<1>8. ToldSound(doc, told)
  BY <1>4, <1>5, <1>6 DEF ToldSound
<1>. QED
  BY <1>2, <1>3, <1>4, <1>5, <1>6, <1>7, <1>8 DEF IInv

\* No result is accepted before any effect is emitted.
LEMMA InitResults == ASSUME ForeignInputs PROVE Init => ResultsSound(doc)
<1>. SUFFICES ASSUME Init PROVE ResultsSound(doc)
  OBVIOUS
<1>1. PICK c \in Queued : doc = Seeded(c)
  BY DEF Init
<1>2. doc.cp = c
  BY <1>1, SeededSound
<1>3. \A s \in OfKind(c, "acceptance") : c.receipts[s].id \in Inputs
  BY QueuedRoot
<1>. QED
  BY <1>2, <1>3 DEF ResultsSound, ForeignInputs

-----------------------------------------------------------------------------
(* What is promised.                                                       *)

\* Whatever workers, callers, leases, recovery and crashes do, the journal, the
\* claims, the histories and the ledger fit together.
THEOREM Invariant == Spec => []IInv
<1>1. IInv /\ [Next]_vars => IInv'
  BY StepKeeps DEF Keeps
<1>. QED
  BY InitSound, <1>1, PTL DEF Spec

\* The ledger of the scope agrees with the journal about every fence, every live
\* claim and the checkpoint, after every step of either.
THEOREM PairAlwaysAgrees == Spec => []PairAgrees
<1>1. IInv => PairAgrees
  BY Parts DEF LedgerSound, PairAgrees
<1>. QED
  BY Invariant, <1>1, PTL

\* An effect whose start was prevented has no fence, and so was never called.
THEOREM PreventedNeverCalled == Spec => []PreventedIsNeverCalled
<1>1. IInv => PreventedIsNeverCalled
  <2>. SUFFICES ASSUME IInv, NEW c \in calls
                PROVE  doc.fx[c[1]].cancel.state # "prevented_start"
    BY DEF PreventedIsNeverCalled
  <2>1. c[1] \in DOMAIN doc.fx /\ c[2] \in 1 .. doc.fx[c[1]].fence
    BY Parts DEF CallsSound, CallSound
  <2>2. RecordSound(doc.fx[c[1]])
    BY <2>1, Parts DEF DocSound
  <2>. QED
    BY <2>1, <2>2 DEF RecordSound
<1>. QED
  BY Invariant, <1>1, PTL

\* A second call needs evidence that the destination deduplicates.
THEOREM SecondCallOnEvidence == Spec => []CalledAgainOnEvidence
<1>1. IInv => CalledAgainOnEvidence
  BY Parts DEF CallsSound, CallSound, CalledAgainOnEvidence
<1>. QED
  BY Invariant, <1>1, PTL

\* Among all the claims ever issued, the check of the authority lets pass exactly
\* the last one of an effect, while it is open and its lease runs.
THEOREM OnlyCurrentClaimsHold == Spec => []OnlyTheCurrentClaimHolds
<1>1. IInv => OnlyTheCurrentClaimHolds
  <2>. SUFFICES ASSUME IInv, Scoped, ledger.state = "active", NEW i \in issued
                PROVE  ClaimHolds(i[1], i[2], i[3]) <=>
                          /\ \A j \in issued : j[2] = i[2] => j[3] <= i[3]
                          /\ i[3] \notin DOMAIN doc.fx[i[2]].reports
                          /\ <<i[2], i[3]>> \notin lapsed
    BY DEF OnlyTheCurrentClaimHolds
  <2>1. PICK w, e, f : w = i[1] /\ e = i[2] /\ f = i[3]
    OBVIOUS
  <2>2. PICK r : r = doc.fx[e]
    OBVIOUS
  <2>3. /\ e \in DOMAIN doc.fx /\ f \in 1 .. r.fence
        /\ f = r.fence => doc.claims[e].worker = w
    BY <2>1, <2>2, Parts DEF IssuedSound
  <2>4. RecordSound(r) /\ r.fence \in Nat
    BY <2>2, <2>3, Parts DEF DocSound, RecordSound
  <2>5. e \in DOMAIN doc.claims
    BY <2>2, <2>3, <2>4, Parts DEF DocSound, ClaimsSound
  <2>6. /\ doc.claims[e] = [worker |-> doc.claims[e].worker, fence |-> r.fence,
                            state |-> doc.claims[e].state]
        /\ r.state = "leased" => doc.claims[e].state = "active"
    BY <2>2, <2>5, Parts DEF DocSound, ClaimsSound
  <2>7. /\ PairValid(ledger, doc) /\ ledger.fences[e] = r.fence
        /\ r.state = "leased" => e \in DOMAIN ledger.active /\ ledger.active[e] = doc.claims[e]
    BY <2>2, <2>3, Parts DEF LedgerSound, PairValid
  <2>8. r.state = "leased" <=> r.fence \notin DOMAIN r.reports
    BY <2>3, <2>4 DEF RecordSound
  <2>9. ASSUME ClaimHolds(w, e, f)
        PROVE  /\ \A j \in issued : j[2] = e => j[3] <= f
               /\ f \notin DOMAIN r.reports /\ <<e, f>> \notin lapsed
    <3>1. r.fence = f /\ r.state = "leased" /\ <<e, f>> \notin lapsed
      BY <2>2, <2>9 DEF ClaimHolds
    <3>2. \A j \in issued : j[2] = e => j[3] \in 1 .. r.fence
      BY <2>2, Parts DEF IssuedSound
    <3>. QED
      BY <2>4, <2>8, <3>1, <3>2
  <2>10. ASSUME \A j \in issued : j[2] = e => j[3] <= f,
                f \notin DOMAIN r.reports, <<e, f>> \notin lapsed
         PROVE  ClaimHolds(w, e, f)
    <3>1. PICK j \in issued : j[2] = e /\ j[3] = r.fence
      <4>1. <<doc.claims[e].worker, e, r.fence>> \in issued
        BY <2>2, <2>5, Parts DEF IssuedSound
      <4>. QED
        BY <4>1
    <3>2. f = r.fence
      BY <2>3, <2>4, <2>10, <3>1
    <3>3. r.state = "leased"
      BY <2>8, <2>10, <3>2
    <3>4. doc.claims[e] = Claim(w, f)
      BY <2>3, <2>6, <3>2, <3>3 DEF Claim
    <3>. QED
      BY <2>2, <2>7, <2>10, <3>2, <3>3, <3>4 DEF ClaimHolds
  <2>. QED
    BY <2>1, <2>2, <2>9, <2>10
<1>. QED
  BY Invariant, <1>1, PTL

\* An outcome comes from the last attempt, within its lease and after its call, or
\* is a cancellation of what was never claimed.
THEOREM AlwaysDecidedByCurrentAttempt == Spec => DecidedByCurrentAttempt
<1>1. IInv /\ [Next]_vars =>
         [\A e \in DOMAIN doc.fx :
             doc.fx[e].outcome = Undecided /\ doc'.fx[e].outcome # Undecided =>
                LET f == doc'.fx[e].outcome.fence
                IN /\ \A i \in issued : i[2] = e => i[3] <= f
                   /\ f \notin DOMAIN doc.fx[e].reports
                   /\ f > 0 => <<e, f>> \in calls \ lapsed]_vars
  BY StepKeeps, Zenon DEF Keeps, DecisionsCurrent, DecidedNow
<1>. QED
  BY Invariant, <1>1, PTL DEF Spec, DecidedByCurrentAttempt

-----------------------------------------------------------------------------
(* What is promised while callers choose ids of their own.                 *)

\* The machine has accepted nothing as a result but admitted decisions.
THEOREM AcceptsAdmittedResults == ASSUME ForeignInputs PROVE Spec => []ResultsSound(doc)
<1>1. IInv /\ ResultsSound(doc) /\ [Next]_vars => ResultsSound(doc)'
  BY StepKeeps DEF Keeps
<1>. QED
  BY Invariant, InitResults, <1>1, PTL DEF Spec

\* An answer that says committed names the one outcome of its effect that the
\* machine has accepted, and nobody was ever told otherwise.
THEOREM CommittedAnswersAlwaysStand == ASSUME ForeignInputs PROVE Spec => []CommittedAnswersStand
<1>1. IInv /\ ResultsSound(doc) => CommittedAnswersStand
  <2>. SUFFICES ASSUME IInv, ResultsSound(doc), NEW t \in DOMAIN told, NEW a \in told[t],
                       a.status = "committed"
                PROVE  /\ \A s \in DOMAIN doc.cp.receipts :
                             doc.cp.receipts[s].kind = "acceptance"
                             /\ (\E k \in OutcomeKinds :
                                    doc.cp.receipts[s].id = ResultOf(t[1], k)) =>
                                doc.cp.receipts[s].id = ResultOf(t[1], t[3])
                       /\ AcceptanceOf(doc.cp, ResultOf(t[1], t[3])) # {}
                       /\ \A u \in DOMAIN told :
                             u[1] = t[1] /\ u # t => \A b \in told[u] : b.status # "committed"
                       /\ told[t] = {a}
    BY DEF CommittedAnswersStand
  <2>1. ASSUME NEW u \in DOMAIN told, NEW b \in told[u], b.status = "committed"
        PROVE  /\ u = <<u[1], u[2], u[3]>> /\ told[u] = {b}
               /\ u[1] \in DOMAIN doc.fx /\ doc.fx[u[1]].state = "result_admitted"
               /\ doc.fx[u[1]].outcome.kind = u[3] /\ doc.fx[u[1]].outcome.fence = u[2]
    <3>1. PICK e, f, k : e = u[1] /\ f = u[2] /\ k = u[3]
      OBVIOUS
    <3>2. PICK p : p = <<e, f>>
      OBVIOUS
    <3>3. /\ u = <<e, f, k>> /\ p \in DOMAIN doc.answers /\ told[u] = {doc.answers[p]}
          /\ f \in DOMAIN doc.fx[e].reports /\ doc.fx[e].reports[f] = k /\ k \in OutcomeKinds
      BY <2>1, <3>1, <3>2, Parts DEF ToldSound
    <3>4. doc.answers[p].status = "committed" /\ told[u] = {b}
      BY <2>1, <3>3
    <3>5. p[1] = e /\ p[2] = f
      BY <3>2
    <3>6. e \in DOMAIN doc.fx /\ Committed(doc, p)
      BY <3>3, <3>4, <3>5, Parts DEF DocSound, AnswersSound, Noted
    <3>7. doc.fx[e].outcome.kind = k
      BY <3>3, <3>6, Parts, ReportDecides
    <3>. QED
      BY <3>1, <3>3, <3>4, <3>5, <3>6, <3>7 DEF Committed
  <2>2. PICK e, f, k : e = t[1] /\ f = t[2] /\ k = t[3]
    OBVIOUS
  <2>3. /\ t = <<e, f, k>> /\ told[t] = {a} /\ e \in DOMAIN doc.fx
        /\ doc.fx[e].state = "result_admitted"
        /\ doc.fx[e].outcome.kind = k /\ doc.fx[e].outcome.fence = f
    BY <2>1, <2>2
  <2>4. AcceptanceOf(doc.cp, ResultOf(e, k)) # {}
    <3>1. FieldsValid(doc, doc.fx[e], e)
      BY <2>3, Parts DEF DocSound, JournalValid
    <3>. QED
      BY <2>3, <3>1 DEF FieldsValid
  <2>5. ASSUME NEW s \in DOMAIN doc.cp.receipts, doc.cp.receipts[s].kind = "acceptance",
               NEW j, doc.cp.receipts[s].id = ResultOf(e, j)
        PROVE  doc.cp.receipts[s].id = ResultOf(e, k)
    <3>1. s \in OfKind(doc.cp, "acceptance")
      BY <2>5 DEF OfKind
    <3>2. j = k
      BY <2>3, <2>5, <3>1 DEF ResultsSound
    <3>. QED
      BY <2>5, <3>2
  <2>6. ASSUME NEW u \in DOMAIN told, u[1] = e, u # t, NEW b \in told[u], b.status = "committed"
        PROVE  FALSE
    <3>1. /\ u = <<u[1], u[2], u[3]>>
          /\ doc.fx[u[1]].outcome.kind = u[3] /\ doc.fx[u[1]].outcome.fence = u[2]
      BY <2>1, <2>6
    <3>2. u[2] = f /\ u[3] = k
      BY <2>3, <2>6, <3>1
    <3>. QED
      BY <2>3, <2>6, <3>1, <3>2
  <2>. QED
    BY <2>2, <2>3, <2>4, <2>5, <2>6
<1>. QED
  BY Invariant, AcceptsAdmittedResults, <1>1, PTL

\* What the machine was told of an effect is what its record says.
LEMMA PhaseIs ==
    ASSUME IInv, ResultsSound(doc), NEW e
    PROVE  /\ Stage(e) = StageOf(doc, e)
           /\ ToldOutcomes(e) \cup (IF e \in DOMAIN doc.fx /\ doc.fx[e].outcome # Undecided
                                    THEN {doc.fx[e].outcome.kind} ELSE {})
              = VerdictOf(doc, e)
<1>1. CASE e \notin DOMAIN doc.fx
  BY <1>1 DEF Stage, StageOf, VerdictOf, ToldOutcomes
<1>2. CASE e \in DOMAIN doc.fx
  <2>1. PICK r : r = doc.fx[e]
    OBVIOUS
  <2>2. RecordSound(r) /\ FieldsValid(doc, r, e)
    BY <1>2, <2>1, Parts DEF DocSound, JournalValid
  <2>3. ToldOutcomes(e) = {k \in OutcomeKinds : AcceptanceOf(doc.cp, ResultOf(e, k)) # {}}
    BY <1>2 DEF ToldOutcomes
  <2>4. \A k : AcceptanceOf(doc.cp, ResultOf(e, k)) # {} =>
                  r.state = "result_admitted" /\ r.outcome.kind = k
    BY <2>1 DEF AcceptanceOf, ResultsSound
  <2>5. CASE r.state = "result_admitted"
    <3>1. r.outcome # Undecided /\ r.outcome.kind \in OutcomeKinds
      BY <2>2, <2>5 DEF RecordSound
    <3>2. AcceptanceOf(doc.cp, ResultOf(e, r.outcome.kind)) # {}
      BY <2>2, <2>5 DEF FieldsValid
    <3>3. ToldOutcomes(e) = {r.outcome.kind}
      BY <2>3, <2>4, <3>1, <3>2
    <3>. QED
      BY <1>2, <2>1, <2>5, <3>1, <3>3 DEF Stage, StageOf, VerdictOf
  <2>6. CASE r.state # "result_admitted"
    <3>1. ToldOutcomes(e) = {}
      BY <2>3, <2>4, <2>6
    <3>. QED
      BY <1>2, <2>1, <2>6, <3>1 DEF Stage, StageOf, VerdictOf
  <2>. QED
    BY <2>5, <2>6
<1>. QED
  BY <1>1, <1>2

\* The decisions the abstract ledger has of an effect.
Verdict(e) ==
    ToldOutcomes(e) \cup (IF e \in DOMAIN doc.fx /\ doc.fx[e].outcome # Undecided
                          THEN {doc.fx[e].outcome.kind} ELSE {})

\* The stages and decisions of the abstract ledger are those of the records.
PhasesAgree == \A e : Stage(e) = StageOf(doc, e) /\ Verdict(e) = VerdictOf(doc, e)

\* A step of the abstract ledger, on functions.
LedgerStep(s, v, s2, v2) ==
    /\ s2 # s
    /\ \E e \in EffectIds :
          \/ s[e] = "none" /\ s2 = [s EXCEPT ![e] = "open"] /\ v2 = v
          \/ s[e] = "decided" /\ s2 = [s EXCEPT ![e] = "told"] /\ v2 = v
          \/ \E k \in OutcomeKinds : /\ s[e] = "open" /\ s2 = [s EXCEPT ![e] = "decided"]
                                     /\ v2 = [v EXCEPT ![e] = {k}]

\* When one effect at most comes a stage further, that is a step of the ledger.
LEMMA MovesStep ==
    ASSUME NEW d, NEW d2, Moves(d, d2),
           NEW s, s = [e \in EffectIds |-> StageOf(d, e)],
           NEW v, v = [e \in EffectIds |-> VerdictOf(d, e)],
           NEW s2, s2 = [e \in EffectIds |-> StageOf(d2, e)],
           NEW v2, v2 = [e \in EffectIds |-> VerdictOf(d2, e)]
    PROVE  (s2 = s /\ v2 = v) \/ LedgerStep(s, v, s2, v2)
<1>1. PICK e : /\ \A x : x # e => SamePhase(d, d2, x)
               /\ \/ SamePhase(d, d2, e) \/ Emitted(d, d2, e)
                  \/ DecidedAt(d, d2, e) \/ ToldAt(d, d2, e)
  BY DEF Moves
<1>2. CASE e \notin EffectIds \/ SamePhase(d, d2, e)
  <2>1. \A x \in EffectIds : SamePhase(d, d2, x)
    BY <1>1, <1>2
  <2>. QED
    BY <2>1 DEF SamePhase
<1>3. CASE e \in EffectIds /\ ~SamePhase(d, d2, e)
  <2>1. \A x \in EffectIds : x # e => s2[x] = s[x] /\ v2[x] = v[x]
    BY <1>1 DEF SamePhase
  <2>2. /\ DOMAIN s = EffectIds /\ DOMAIN v = EffectIds
        /\ s[e] = StageOf(d, e) /\ v[e] = VerdictOf(d, e)
        /\ s2[e] = StageOf(d2, e) /\ v2[e] = VerdictOf(d2, e)
    BY <1>3
  <2>3. /\ s2 = [s EXCEPT ![e] = StageOf(d2, e)]
        /\ v2 = [v EXCEPT ![e] = VerdictOf(d2, e)]
    BY <1>3, <2>1, <2>2
  <2>4. CASE Emitted(d, d2, e)
    <3>1. s[e] = "none" /\ s2[e] = "open" /\ s2 = [s EXCEPT ![e] = "open"]
      BY <2>2, <2>3, <2>4 DEF Emitted
    <3>2. v2 = v
      BY <2>1, <2>2, <2>4 DEF Emitted
    <3>3. s2 # s
      BY <3>1
    <3>. QED
      BY <1>3, <3>1, <3>2, <3>3 DEF LedgerStep
  <2>5. CASE ToldAt(d, d2, e)
    <3>1. s[e] = "decided" /\ s2[e] = "told" /\ s2 = [s EXCEPT ![e] = "told"]
      BY <2>2, <2>3, <2>5 DEF ToldAt
    <3>2. v2 = v
      BY <2>1, <2>2, <2>5 DEF ToldAt
    <3>3. s2 # s
      BY <3>1
    <3>. QED
      BY <1>3, <3>1, <3>2, <3>3 DEF LedgerStep
  <2>6. CASE DecidedAt(d, d2, e)
    <3>1. s[e] = "open" /\ s2[e] = "decided" /\ s2 = [s EXCEPT ![e] = "decided"]
      BY <2>2, <2>3, <2>6 DEF DecidedAt
    <3>2. PICK k \in OutcomeKinds : v2 = [v EXCEPT ![e] = {k}]
      BY <2>3, <2>6 DEF DecidedAt
    <3>3. s2 # s
      BY <3>1
    <3>. QED
      BY <1>3, <3>1, <3>2, <3>3 DEF LedgerStep
  <2>. QED
    BY <1>1, <1>3, <2>4, <2>5, <2>6
<1>. QED
  BY <1>2, <1>3

\* A step of the host is a step of the abstract ledger of effects, or none.
LEMMA StepImplements ==
    ASSUME PhasesAgree, PhasesAgree', Moves(doc, doc')
    PROVE  [EffectsAbstractly!Next]_(EffectsAbstractly!vars)
<1>1. PICK s, s2 : /\ s = [e \in EffectIds |-> StageOf(doc, e)]
                   /\ s2 = [e \in EffectIds |-> StageOf(doc', e)]
  OBVIOUS
<1>2. PICK v, v2 : /\ v = [e \in EffectIds |-> VerdictOf(doc, e)]
                   /\ v2 = [e \in EffectIds |-> VerdictOf(doc', e)]
  OBVIOUS
<1>3. [e \in EffectIds |-> Stage(e)] = s /\ [e \in EffectIds |-> Verdict(e)] = v
  BY <1>1, <1>2 DEF PhasesAgree
<1>4. [e \in EffectIds |-> Stage(e)]' = s2 /\ [e \in EffectIds |-> Verdict(e)]' = v2
  BY <1>1, <1>2 DEF PhasesAgree
<1>5. (s2 = s /\ v2 = v) \/ LedgerStep(s, v, s2, v2)
  BY <1>1, <1>2, MovesStep
<1>6. CASE s2 = s /\ v2 = v
  BY <1>3, <1>4, <1>6 DEF EffectsAbstractly!vars, Verdict
<1>7. CASE LedgerStep(s, v, s2, v2)
  BY <1>3, <1>4, <1>7 DEF LedgerStep, EffectsAbstractly!Next, EffectsAbstractly!Emit,
     EffectsAbstractly!Tell, EffectsAbstractly!Decide, Verdict
<1>. QED
  BY <1>5, <1>6, <1>7

\* Before anything is emitted, the abstract ledger is empty.
LEMMA InitImplements == Init => EffectsAbstractly!Init
<1>. SUFFICES ASSUME Init PROVE EffectsAbstractly!Init
  OBVIOUS
<1>1. PICK c \in Queued : doc = Seeded(c)
  BY DEF Init
<1>2. DOMAIN doc.fx = {}
  BY <1>1, SeededSound
<1>3. \A e : Stage(e) = "none" /\ Verdict(e) = {}
  BY <1>2 DEF Stage, Verdict, ToldOutcomes
<1>. QED
  BY <1>3 DEF EffectsAbstractly!Init, Verdict

\* Whatever is retried, revoked, cancelled or crashes: an effect is decided once,
\* and the machine is told that decision and no other, once.
THEOREM HostImplementsEffectLedger == ASSUME ForeignInputs PROVE Spec => ImplementsEffectLedger
<1>1. IInv /\ ResultsSound(doc) => PhasesAgree
  BY PhaseIs DEF PhasesAgree, Verdict
<1>2. IInv /\ [Next]_vars => Moves(doc, doc')
  BY StepKeeps DEF Keeps
<1>3. PhasesAgree /\ PhasesAgree' /\ Moves(doc, doc') =>
         [EffectsAbstractly!Next]_(EffectsAbstractly!vars)
  BY StepImplements
<1>. QED
  BY Invariant, AcceptsAdmittedResults, InitImplements, <1>1, <1>2, <1>3, PTL
     DEF Spec, ImplementsEffectLedger, EffectsAbstractly!Spec

-----------------------------------------------------------------------------
(* Whatever the host accepts can be stored: the stored checkpoint restores, *)
(* and so does the one an operation is about to commit.                    *)

\* An effect is somewhere in an outbox that restores.
Listed(c, e) == e \in DOMAIN c.pendingFx \cup DOMAIN c.terminalFx \cup DOMAIN c.tombstoneFx

\* And then in one place only.
LEMMA LocatedIs ==
    ASSUME NEW c, EffectsValid(c), NEW e
    PROVE  Located(c, e) <=> Listed(c, e)
<1>. DEFINE at(fx) == CASE fx = "pending" -> c.pendingFx
                        [] fx = "terminal" -> c.terminalFx
                        [] OTHER -> c.tombstoneFx
            places == {fx \in {"pending", "terminal", "compacted"} : e \in DOMAIN at(fx)}
<1>1. Located(c, e) <=> Cardinality(places) = 1
  BY Zenon DEF Located
<1>2. /\ at("pending") = c.pendingFx /\ at("terminal") = c.terminalFx
      /\ at("compacted") = c.tombstoneFx
  OBVIOUS
<1>3. /\ DOMAIN c.pendingFx \cap DOMAIN c.terminalFx = {}
      /\ DOMAIN c.pendingFx \cap DOMAIN c.tombstoneFx = {}
      /\ DOMAIN c.terminalFx \cap DOMAIN c.tombstoneFx = {}
  BY DEF EffectsValid
<1>. HIDE DEF at
<1>4. CASE e \in DOMAIN c.pendingFx
  <2>1. places = {"pending"}
    BY <1>2, <1>3, <1>4
  <2>. QED
    BY <1>1, <1>4, <2>1, FS_Singleton DEF Listed
<1>5. CASE e \in DOMAIN c.terminalFx
  <2>1. places = {"terminal"}
    BY <1>2, <1>3, <1>5
  <2>. QED
    BY <1>1, <1>5, <2>1, FS_Singleton DEF Listed
<1>6. CASE e \in DOMAIN c.tombstoneFx
  <2>1. places = {"compacted"}
    BY <1>2, <1>3, <1>6
  <2>. QED
    BY <1>1, <1>6, <2>1, FS_Singleton DEF Listed
<1>7. CASE ~Listed(c, e)
  <2>1. places = {}
    BY <1>2, <1>7 DEF Listed
  <2>2. Cardinality(places) = 0
    BY <2>1, FS_EmptySet
  <2>. QED
    BY <1>1, <1>7, <2>2
<1>. QED
  BY <1>4, <1>5, <1>6, <1>7 DEF Listed

\* The stored checkpoint restores, and its effects come of its receipts.
CheckpointSound(c) == Typed(c) /\ Below(c) /\ Traced(c) /\ Valid(c)

\* An effect on record is numbered by the receipt of the step that emitted it.
LEMMA EffectsNumbered ==
    ASSUME NEW d, CheckpointSound(d.cp), JournalValid(d)
    PROVE  DOMAIN d.fx \subseteq Nat
<1>. SUFFICES ASSUME NEW e \in DOMAIN d.fx PROVE e \in Nat
  OBVIOUS
<1>1. Typed(d.cp) /\ Traced(d.cp) /\ EffectsValid(d.cp)
  BY DEF CheckpointSound, Valid, SemanticsValid
<1>2. Listed(d.cp, e)
  BY <1>1, LocatedIs DEF JournalValid
<1>3. e \in EffectsOf(d.cp.receipts)
  BY <1>1, <1>2 DEF EffectsValid, Listed
<1>4. PICK s \in DOMAIN d.cp.receipts : e \in d.cp.receipts[s].effects
  BY <1>3 DEF EffectsOf
<1>5. e = s /\ s \in Nat
  BY <1>1, <1>4 DEF Typed, ReceiptsTyped, Traced, ReceiptTraced
<1>. QED
  BY <1>5

\* An outbox operation is one on the records of the effects.
LEMMA AcknowledgedSound ==
    ASSUME NEW d, DocShape(d), CheckpointSound(d.cp), NEW e \in DOMAIN d.cp.pendingFx,
           NEW outcome, NEW d2, d2 = Acknowledged(d, e, outcome)
    PROVE  /\ CheckpointSound(d2.cp) /\ d2.cp.receipts = d.cp.receipts
           /\ \A x : Listed(d2.cp, x) <=> Listed(d.cp, x)
<1>1. PICK c : c = d.cp
  OBVIOUS
<1>2. Typed(c) /\ Below(c) /\ Traced(c) /\ Valid(c) /\ EffectsValid(c)
  BY <1>1 DEF CheckpointSound, Valid, SemanticsValid
<1>3. PICK m : m = Mutated(c)
  OBVIOUS
<1>4. Shaped(c) /\ c.nextFx \in Nat
  BY <1>2 DEF Typed
<1>5. Shaped(m) /\ SameEffects(c, m) /\ m.nextFx = c.nextFx
  BY <1>3, <1>4, MutatedShape DEF Mutated, Shaped, Fields
<1>6. /\ Typed(m) /\ m.mode = c.mode /\ m.cutoff = c.cutoff /\ m.tombstones = c.tombstones
      /\ m.revision = c.revision + 1 /\ m.rt = c.rt
      /\ m.mail = c.mail /\ m.receipts = c.receipts /\ m.next = c.next
      /\ m.nextAcc = c.nextAcc /\ m.nextQueue = c.nextQueue /\ m.root = c.root
  <2>1. m.rt = c.rt
    BY <1>3, <1>4 DEF Mutated, Shaped, Fields
  <2>. QED
    BY <1>2, <1>3, <2>1, MutatedTyped DEF Records
<1>7. PICK at : at = [x \in {e} |-> [seq |-> c.nextFx, outcome |-> outcome]]
  OBVIOUS
<1>8. DOMAIN at = {e} /\ at[e].seq = c.nextFx
  BY <1>7
<1>9. PICK n : n = [m EXCEPT !.pendingFx = Restrict(@, DOMAIN @ \ {e}),
                             !.terminalFx = Merge(at, @), !.nextFx = @ + 1]
  OBVIOUS
<1>10. d2 = [d EXCEPT !.cp = n, !.pinned = n.revision]
  BY Zenon, <1>1, <1>3, <1>7, <1>9 DEF Acknowledged
<1>11. d2.cp = n
  BY <1>10 DEF DocShape
<1>12. /\ n.pendingFx = Restrict(c.pendingFx, DOMAIN c.pendingFx \ {e})
       /\ n.terminalFx = Merge(at, c.terminalFx) /\ n.tombstoneFx = c.tombstoneFx
       /\ n.nextFx = c.nextFx + 1
  BY <1>5, <1>9 DEF Shaped, Fields, SameEffects
<1>13. /\ Shaped(n) /\ n.root = m.root /\ n.rt = m.rt /\ n.mode = m.mode
       /\ n.revision = m.revision /\ n.cutoff = m.cutoff /\ n.next = m.next
       /\ n.nextAcc = m.nextAcc /\ n.nextQueue = m.nextQueue /\ n.mail = m.mail
       /\ n.receipts = m.receipts /\ n.tombstones = m.tombstones
  BY <1>5, <1>9 DEF Shaped, Fields
<1>14. n.nextFx \in Nat
  BY <1>4, <1>12
<1>15. Typed(n)
  BY <1>6, <1>13, <1>14 DEF Typed
<1>16. SameRecords(c, n)
  BY <1>6, <1>13 DEF SameRecords
<1>17. DOMAIN n.pendingFx = DOMAIN c.pendingFx \ {e}
  BY <1>12 DEF Restrict
<1>18. n.receipts = c.receipts
  BY <1>6, <1>13
<1>19. /\ EffectsValid(n)
       /\ \A g \in DOMAIN n.terminalFx : n.terminalFx[g].seq \in Nat
       /\ \A g \in DOMAIN n.tombstoneFx : n.tombstoneFx[g].seq \in Nat
  BY <1>1, <1>2, <1>4, <1>8, <1>12, <1>17, <1>18, SettledValid
<1>20. Valid(n) /\ Traced(n)
  <2>1. n.rt = c.rt /\ n.mail = c.mail
    BY <1>6, <1>13
  <2>2. SemanticsValid(n) /\ SourcesPresent(n)
    BY <1>2, <1>16, <1>19, <2>1, OutboxValid, SameSources DEF Valid
  <2>. QED
    BY <1>2, <1>16, <1>19, <2>2, OutboxTraced DEF Valid
<1>21. Below(n)
  BY <1>2, <1>6, <1>13 DEF Below
<1>22. DOMAIN n.terminalFx = {e} \cup DOMAIN c.terminalFx
  BY <1>8, <1>12 DEF Merge
<1>23. \A x : Listed(n, x) <=> Listed(c, x)
  BY <1>1, <1>12, <1>17, <1>22 DEF Listed
<1>. QED
  BY <1>1, <1>11, <1>15, <1>18, <1>20, <1>21, <1>23 DEF CheckpointSound

\* Result ids are ids of deliveries, as those of callers are.
ResultsAreEvents == \A e \in Nat, k \in OutcomeKinds : ResultOf(e, k) \in Events

\* An admission of something new allocates a sequence for each.
LEMMA AdmittedNext ==
    ASSUME NEW c, Typed(c), NEW batch
    PROVE  Admitted(c, batch).next = c.next + Cardinality(Fresh(c, batch))
<1>1. Shaped(c)
  BY DEF Typed
<1>2. Shaped(Mutated(c)) /\ Mutated(c).next = c.next
  BY <1>1, MutatedShape DEF Mutated, Shaped, Fields
<1>3. PICK m : m = Mutated(c)
  OBVIOUS
<1>4. PICK n : n = Cardinality(Fresh(c, batch))
  OBVIOUS
<1>5. PICK mail, receipts, nextAcc, nextQueue :
         Admitted(c, batch) = [m EXCEPT !.mail = mail, !.receipts = receipts,
                                 !.next = @ + n, !.nextAcc = nextAcc, !.nextQueue = nextQueue]
  BY Zenon, <1>3, <1>4 DEF Admitted
<1>6. Admitted(c, batch).next = m.next + n
  BY <1>2, <1>3, <1>5 DEF Shaped, Fields
<1>. QED
  BY <1>2, <1>3, <1>4, <1>6

\* One delivery that is accepted gets the next receipt.
LEMMA OneAdmitted ==
    ASSUME Apart, NEW c, CheckpointSound(c), NEW x \in Delivery, x.body \notin Internal,
           Acceptable(c, <<x>>), NEW d, d = Admitted(c, <<x>>)
    PROVE  /\ CheckpointSound(d) /\ SameEffects(c, d)
           /\ \A s \in DOMAIN c.receipts : s \in DOMAIN d.receipts /\ d.receipts[s] = c.receipts[s]
           /\ c.next \in DOMAIN d.receipts
           /\ d.receipts[c.next].kind = "acceptance"
           /\ d.receipts[c.next].id = x.id /\ d.receipts[c.next].body = x.body
<1>1. PICK batch : batch = <<x>>
  OBVIOUS
<1>0. PICK n \in Nat : n = 1
  OBVIOUS
<1>2. /\ batch \in [1 .. n -> Delivery] /\ DOMAIN batch = {1} /\ batch[1] = x
      /\ \A i, j \in 1 .. n : i # j => batch[i].id # batch[j].id
      /\ \A i \in 1 .. n : batch[i].body \notin Internal
  BY <1>0, <1>1
<1>3. /\ Typed(c) /\ Below(c) /\ Traced(c) /\ Valid(c) /\ d = Admitted(c, batch)
      /\ c.root = "retained" /\ Fresh(c, batch) # {}
  BY <1>1 DEF CheckpointSound, Acceptable
<1>4. Typed(d) /\ Traced(d) /\ Valid(d)
  <2>1. Typed(Admitted(c, batch)) /\ Traced(Admitted(c, batch))
    BY <1>2, <1>3, AdmittedValid
  <2>2. Valid(Admitted(c, batch))
    BY <1>2, <1>3, AdmittedRestores
  <2>. QED
    BY <1>3, <2>1, <2>2
<1>5. Fresh(c, batch) = {1}
  BY <1>2, <1>3 DEF Fresh
<1>6. d.next = c.next + 1 /\ c.next \in Nat
  <2>1. d.next = c.next + Cardinality(Fresh(c, batch))
    BY <1>3, AdmittedNext
  <2>2. Cardinality(Fresh(c, batch)) = 1
    BY <1>5, FS_Singleton
  <2>. QED
    BY <1>3, <2>1, <2>2 DEF Typed
<1>7. Below(d)
  BY <1>4, <1>6, ValidBelow DEF Valid
<1>8. PICK new, at : /\ Admits(c, d, new, at)
                     /\ \A e \in DOMAIN new :
                           \E i \in 1 .. n : batch[i].id = e /\ new[e].body = batch[i].body
  BY <1>2, <1>3, AdmittedAdmits
<1>9. c.next \in c.next .. d.next - 1
  BY <1>6
<1>10. PICK e \in DOMAIN new : at[e] = c.next
  BY <1>8, <1>9 DEF Admits
<1>11. e = x.id /\ new[e].body = x.body
  BY <1>0, <1>2, <1>8
<1>12. /\ d.receipts[c.next].kind = "acceptance"
       /\ d.receipts[c.next].id = x.id /\ d.receipts[c.next].body = x.body
  BY <1>8, <1>10, <1>11 DEF Admits
<1>13. /\ \A s \in DOMAIN c.receipts : s \in DOMAIN d.receipts /\ d.receipts[s] = c.receipts[s]
       /\ c.next \in DOMAIN d.receipts /\ SameEffects(c, d)
  BY <1>8, <1>9 DEF Admits, SameEffects
<1>. QED
  BY <1>4, <1>7, <1>12, <1>13 DEF CheckpointSound

\* Records of effects stay true while the checkpoint retains its receipts and
\* its effects, and every effect that is new has a record of its own.
LEMMA JournalStays ==
    ASSUME NEW d, JournalValid(d), EffectsValid(d.cp),
           NEW d2, EffectsValid(d2.cp), d2.pinned = d2.cp.revision,
           Retains(d.cp.receipts, d2.cp.receipts),
           \A x : Listed(d.cp, x) => Listed(d2.cp, x),
           NEW E, \A x \in DOMAIN d2.fx \ E : x \in DOMAIN d.fx /\ d2.fx[x] = d.fx[x],
           \A x \in E : /\ Listed(d2.cp, x)
                        /\ \A f \in DOMAIN d2.fx[x].reports : f <= d2.fx[x].fence
                        /\ FieldsValid(d2, d2.fx[x], x)
                        /\ OutcomeReported(d2.fx[x])
    PROVE  JournalValid(d2)
<1>1. ASSUME NEW x \in DOMAIN d2.fx
      PROVE  /\ Located(d2.cp, x)
             /\ \A f \in DOMAIN d2.fx[x].reports : f <= d2.fx[x].fence
             /\ FieldsValid(d2, d2.fx[x], x)
             /\ OutcomeReported(d2.fx[x])
  <2>1. CASE x \in E
    BY <2>1, LocatedIs
  <2>2. CASE x \notin E
    <3>1. x \in DOMAIN d.fx /\ d2.fx[x] = d.fx[x]
      BY <1>1, <2>2
    <3>2. /\ Located(d.cp, x)
          /\ \A f \in DOMAIN d.fx[x].reports : f <= d.fx[x].fence
          /\ FieldsValid(d, d.fx[x], x)
          /\ OutcomeReported(d.fx[x])
      BY <3>1 DEF JournalValid
    <3>3. Located(d2.cp, x)
      BY <3>2, LocatedIs
    <3>4. FieldsValid(d2, d.fx[x], x)
      <4>1. ASSUME NEW s, NEW k, s \in AcceptanceOf(d.cp, k)
            PROVE  s \in AcceptanceOf(d2.cp, k) /\ d2.cp.receipts[s].body = d.cp.receipts[s].body
        <5>1. s \in DOMAIN d.cp.receipts /\ d.cp.receipts[s].kind = "acceptance"
              /\ d.cp.receipts[s].id = k
          BY <4>1 DEF AcceptanceOf, OfKind
        <5>2. s \in DOMAIN d2.cp.receipts /\ SaysSame(d2.cp.receipts[s], d.cp.receipts[s])
          BY <5>1 DEF Retains
        <5>. QED
          BY <5>1, <5>2 DEF SaysSame, AcceptanceOf, OfKind
      <4>. QED
        BY <3>2, <4>1 DEF FieldsValid
    <3>. QED
      BY <3>1, <3>2, <3>3, <3>4
  <2>. QED
    BY <2>1, <2>2
<1>. QED
  BY <1>1 DEF JournalValid

\* Whatever a step leaves of the machine, the journal agrees with it, and the
\* checkpoint can be stored unless a message waits whose sender the step removed.
LEMMA ProducedStorable ==
    ASSUME NEW d, DocSound(d), CheckpointSound(d.cp), NEW r, Runnable(d.cp, r),
           NEW c \in Steps(d.cp, r), NEW op, NEW d2, d2 = Produced(d, op, c)
    PROVE  /\ StepRestorable(d.cp, c) /\ JournalValid(d2)
           /\ Valid(d2.cp) => CheckpointSound(d2.cp)
<1>1. DocShape(d) /\ JournalValid(d)
  BY DEF DocSound
<1>2. /\ d2.cp = c /\ d2.pinned = d2.cp.revision
      /\ DOMAIN d2.fx = DOMAIN d.fx \cup DOMAIN c.pendingFx
      /\ \A x \in DOMAIN d.fx : d2.fx[x] = d.fx[x]
      /\ \A x \in DOMAIN d2.fx \ DOMAIN d.fx : d2.fx[x] = Unclaimed
  <2>1. ProducedFrom(d, d2, c)
    BY <1>1, ProducedIs
  <2>. QED
    BY <2>1 DEF ProducedFrom
<1>3. PICK b : b = d.cp
  OBVIOUS
<1>4. Typed(b) /\ Below(b) /\ Traced(b) /\ Valid(b)
  BY <1>3 DEF CheckpointSound
<1>5. /\ b.root = "retained" /\ b.rt[r] = "running" /\ Waiting(b, r, "ready") # {}
      /\ c \in Steps(b, r)
  BY <1>3, Zenon DEF Runnable
<1>6. StepRestorable(b, c) /\ SemanticsValid(c) /\ Traced(c)
  BY <1>4, <1>5, StepsRestorable DEF StepRestorable
<1>7. Records(b, c)
  BY <1>4, <1>5, StepsTyped
<1>8. Typed(c) /\ Retains(b.receipts, c.receipts) /\ c.next >= b.next
  BY <1>7 DEF Records
<1>9. Below(c)
  <2>1. b.next > 0
    BY <1>4, ValidNext DEF Valid
  <2>2. c.next > 0
    BY <1>4, <1>8, <2>1 DEF Typed
  <2>. QED
    BY <1>6, <1>8, <2>2, ValidBelow
<1>10. Valid(d2.cp) => CheckpointSound(d2.cp)
  BY <1>2, <1>6, <1>8, <1>9 DEF CheckpointSound
<1>11. OnlyAdds(b, c)
  BY <1>4, <1>5, StepsShape DEF Typed, Worked
<1>12. \A x : Listed(b, x) => Listed(c, x)
  BY <1>11 DEF OnlyAdds, Listed
<1>13. PICK E : E = DOMAIN d2.fx \ DOMAIN d.fx
  OBVIOUS
<1>14. ASSUME NEW x \in E
       PROVE  /\ Listed(d2.cp, x)
              /\ \A f \in DOMAIN d2.fx[x].reports : f <= d2.fx[x].fence
              /\ FieldsValid(d2, d2.fx[x], x)
              /\ OutcomeReported(d2.fx[x])
  <2>1. d2.fx[x] = Unclaimed /\ x \in DOMAIN c.pendingFx
    BY <1>2, <1>13
  <2>2. /\ Unclaimed.state = "unclaimed" /\ Unclaimed.outcome = Undecided
        /\ Unclaimed.receipt = None /\ DOMAIN Unclaimed.reports = {}
    BY DEF Unclaimed
  <2>3. FieldsValid(d2, Unclaimed, x) /\ OutcomeReported(Unclaimed)
    BY <2>2 DEF FieldsValid, OutcomeReported
  <2>. QED
    BY <1>2, <2>1, <2>2, <2>3 DEF Listed
<1>15. \A x \in DOMAIN d2.fx \ E : x \in DOMAIN d.fx /\ d2.fx[x] = d.fx[x]
  BY <1>2, <1>13
<1>16. EffectsValid(d.cp) /\ EffectsValid(d2.cp)
  BY <1>2, <1>3, <1>4, <1>6 DEF Valid, SemanticsValid
<1>17. /\ Retains(d.cp.receipts, d2.cp.receipts)
       /\ \A x : Listed(d.cp, x) => Listed(d2.cp, x)
  BY <1>2, <1>3, <1>8, <1>12
<1>18. JournalValid(d2)
  BY <1>1, <1>2, <1>14, <1>15, <1>16, <1>17, JournalStays
<1>. QED
  BY <1>3, <1>6, <1>10, <1>18

\* An edit of one record that leaves the checkpoint alone.
LEMMA EditStorable ==
    ASSUME NEW d, DocSound(d), CheckpointSound(d.cp), NEW e \in DOMAIN d.fx,
           NEW d2, Edited(d, d2, e), d2.cp = d.cp, d2.pinned = d.pinned,
           NEW s, s = d2.fx[e], RecordSound(s), FieldsValid(d, s, e), OutcomeReported(s)
    PROVE  JournalValid(d2)
<1>1. JournalValid(d) /\ EffectsValid(d.cp)
  BY DEF DocSound, CheckpointSound, Valid, SemanticsValid
<1>2. d2.pinned = d2.cp.revision
  BY <1>1 DEF JournalValid
<1>3. Retains(d.cp.receipts, d2.cp.receipts) /\ \A x : Listed(d.cp, x) => Listed(d2.cp, x)
  BY DEF Retains, SaysSame
<1>0. PICK E : E = {e}
  OBVIOUS
<1>4. \A x \in DOMAIN d2.fx \ E : x \in DOMAIN d.fx /\ d2.fx[x] = d.fx[x]
  BY <1>0 DEF Edited
<1>5. ASSUME NEW x \in E
      PROVE  /\ Listed(d2.cp, x)
             /\ \A f \in DOMAIN d2.fx[x].reports : f <= d2.fx[x].fence
             /\ FieldsValid(d2, d2.fx[x], x)
             /\ OutcomeReported(d2.fx[x])
  <2>1. Listed(d2.cp, e)
    BY <1>1, LocatedIs DEF JournalValid
  <2>2. \A f \in DOMAIN s.reports : f <= s.fence
    BY DEF RecordSound
  <2>3. FieldsValid(d2, s, e)
    BY DEF FieldsValid
  <2>. QED
    BY <1>0, <1>5, <2>1, <2>2, <2>3
<1>6. EffectsValid(d2.cp)
  BY <1>1
<1>. QED
  BY <1>1, <1>2, <1>3, <1>4, <1>5, <1>6, JournalStays

\* An open record, and one of a decision not yet admitted.
LEMMA OpenFields ==
    ASSUME NEW d, NEW s, NEW e, RecordSound(s), s.receipt = None,
           s.state \in {"unclaimed", "leased", "ambiguous", "outcome_recorded"}
    PROVE  FieldsValid(d, s, e)
  BY DEF RecordSound, FieldsValid

\* A claim can be stored.
LEMMA ClaimStorable ==
    ASSUME NEW d, DocSound(d), CheckpointSound(d.cp), NEW w, NEW e \in DOMAIN d.fx,
           NEW proof \in BOOLEAN, MayClaim(d, e, proof),
           NEW d2, d2 = ClaimIssued(d, w, e, proof)
    PROVE  d2.cp = d.cp /\ JournalValid(d2)
<1>1. ClaimedFrom(d, d2, w, e, proof)
  BY ClaimIssuedIs, SoundEditable
<1>2. PICK r, s : r = d.fx[e] /\ s = d2.fx[e]
  OBVIOUS
<1>3. /\ Edited(d, d2, e) /\ d2.cp = d.cp /\ d2.pinned = d.pinned
      /\ s = [r EXCEPT !.fence = r.fence + 1, !.state = "leased"]
  BY <1>1, <1>2 DEF ClaimedFrom
<1>4. RecordSound(r) /\ r.state \in {"unclaimed", "ambiguous"} /\ FieldsValid(d, r, e)
  BY <1>2 DEF DocSound, JournalValid, MayClaim
<1>5. RecordSound(s)
  BY <1>3, <1>4, ClaimedRecord
<1>6. r.outcome = Undecided /\ r.receipt = None
  BY <1>4 DEF FieldsValid
<1>7. s.state = "leased" /\ s.outcome = Undecided /\ s.receipt = None
  BY <1>3, <1>4, <1>6 DEF RecordSound, Shape
<1>8. FieldsValid(d, s, e) /\ OutcomeReported(s)
  BY <1>5, <1>7, OpenFields DEF OutcomeReported
<1>. QED
  BY <1>2, <1>3, <1>5, <1>8, EditStorable

\* A report of the attempt that is open can be stored.
LEMMA ReportStorable ==
    ASSUME NEW d, DocSound(d), CheckpointSound(d.cp), NEW e \in DOMAIN d.fx,
           d.fx[e].state = "leased", NEW k, NEW f, f = d.fx[e].fence,
           NEW d2, d2 = Reported(d, e, f, k)
    PROVE  d2.cp = d.cp /\ JournalValid(d2)
<1>1. ReportedFrom(d, d2, e, f, k)
  BY ReportedIs, SoundEditable
<1>2. PICK r, s : r = d.fx[e] /\ s = d2.fx[e]
  OBVIOUS
<1>3. Edited(d, d2, e) /\ d2.cp = d.cp /\ d2.pinned = d.pinned
  BY <1>1 DEF ReportedFrom
<1>4. PICK reports :
         /\ Adds(reports, r.reports, r.fence, k)
         /\ IF k \in OutcomeKinds
            THEN s = [r EXCEPT !.reports = reports, !.state = "outcome_recorded",
                               !.outcome = [kind |-> k, fence |-> r.fence]]
            ELSE s = [r EXCEPT !.reports = reports,
                               !.state = IF k = "retryable_failure" THEN "unclaimed"
                                         ELSE "ambiguous"]
  BY <1>1, <1>2, Zenon DEF ReportedFrom
<1>5. RecordSound(r) /\ r.state = "leased" /\ FieldsValid(d, r, e)
  BY <1>2 DEF DocSound, JournalValid
<1>6. Shape(r) /\ r.receipt = None /\ r.outcome = Undecided /\ r.fence > 0
  BY <1>5 DEF RecordSound, FieldsValid
<1>7. Adds(reports, r.reports, r.fence, k)
  BY <1>4
<1>8. CASE k \in OutcomeKinds
  <2>1. PICK out : out = [kind |-> k, fence |-> r.fence]
    OBVIOUS
  <2>2. s = [r EXCEPT !.reports = reports, !.state = "outcome_recorded", !.outcome = out]
    BY <1>4, <1>8, <2>1
  <2>3. /\ Reads(s, r.fence, "outcome_recorded", reports, r.cancel) /\ s.outcome = out
        /\ s.receipt = None
    BY <1>6, <2>2 DEF Reads, Shape
  <2>4. RecordSound(s)
    BY <1>5, <1>7, <1>8, <2>1, <2>3, DecidedRecord
  <2>5. s.fence = r.fence /\ s.reports = reports /\ s.state = "outcome_recorded"
    BY <2>3 DEF Reads
  <2>6. FieldsValid(d, s, e)
    BY <2>3, <2>4, <2>5, OpenFields
  <2>7. OutcomeReported(s)
    <3>1. ~PreventedStart(s)
      BY <1>6, <2>5 DEF PreventedStart
    <3>2. s.outcome.fence = r.fence /\ s.outcome.kind = k
      BY <2>1, <2>3
    <3>3. r.fence \in DOMAIN reports /\ reports[r.fence] = k
      BY <1>7 DEF Adds
    <3>. QED
      BY <2>5, <3>1, <3>2, <3>3 DEF OutcomeReported
  <2>. QED
    BY <1>2, <1>3, <2>4, <2>6, <2>7, EditStorable
<1>9. CASE k \notin OutcomeKinds
  <2>1. PICK state : state = IF k = "retryable_failure" THEN "unclaimed" ELSE "ambiguous"
    OBVIOUS
  <2>2. state \in {"unclaimed", "ambiguous"}
    BY <2>1
  <2>3. s = [r EXCEPT !.reports = reports, !.state = state]
    BY <1>4, <1>9, <2>1
  <2>4. Reads(s, r.fence, state, reports, r.cancel) /\ s.outcome = r.outcome /\ s.receipt = None
    BY <1>6, <2>3 DEF Reads, Shape
  <2>5. RecordSound(s)
    BY <1>5, <1>7, <1>9, <2>2, <2>4, ClosedRecord
  <2>6. s.state = state
    BY <2>4 DEF Reads
  <2>7. FieldsValid(d, s, e) /\ OutcomeReported(s)
    BY <1>6, <2>2, <2>4, <2>5, <2>6, OpenFields DEF OutcomeReported
  <2>. QED
    BY <1>2, <1>3, <2>5, <2>7, EditStorable
<1>. QED
  BY <1>8, <1>9

\* So can giving it up.
LEMMA RevokeStorable ==
    ASSUME NEW d, DocSound(d), CheckpointSound(d.cp), NEW e \in DOMAIN d.fx,
           d.fx[e].state = "leased", NEW d2, d2 = Revoked(d, e)
    PROVE  d2.cp = d.cp /\ JournalValid(d2)
<1>1. RevokedFrom(d, d2, e)
  BY RevokedIs, SoundEditable
<1>2. PICK r, s : r = d.fx[e] /\ s = d2.fx[e]
  OBVIOUS
<1>3. Edited(d, d2, e) /\ d2.cp = d.cp /\ d2.pinned = d.pinned
  BY <1>1 DEF RevokedFrom
<1>4. PICK reports : /\ Adds(reports, r.reports, r.fence, "ambiguous")
                     /\ s = [r EXCEPT !.reports = reports, !.state = "ambiguous"]
  BY <1>1, <1>2, Zenon DEF RevokedFrom
<1>5. RecordSound(r) /\ r.state = "leased" /\ FieldsValid(d, r, e)
  BY <1>2 DEF DocSound, JournalValid
<1>6. Shape(r) /\ r.receipt = None /\ r.outcome = Undecided
  BY <1>5 DEF RecordSound, FieldsValid
<1>7. /\ Reads(s, r.fence, "ambiguous", reports, r.cancel) /\ s.outcome = r.outcome
      /\ s.receipt = None
  BY <1>4, <1>6 DEF Reads, Shape
<1>8. "ambiguous" \notin OutcomeKinds
  BY EffectAssumption DEF OutcomeKinds
<1>9. RecordSound(s)
  BY <1>4, <1>5, <1>7, <1>8, ClosedRecord
<1>10. s.state = "ambiguous"
  BY <1>7 DEF Reads
<1>11. FieldsValid(d, s, e) /\ OutcomeReported(s)
  BY <1>6, <1>7, <1>9, <1>10, OpenFields DEF OutcomeReported
<1>. QED
  BY <1>2, <1>3, <1>9, <1>11, EditStorable

\* An attempt has no reports that was never opened.
LEMMA NoReports ==
    ASSUME NEW r, RecordSound(r), r.fence = 0
    PROVE  r.reports = <<>>
<1>1. DOMAIN r.reports \subseteq 1 .. 0 /\ r.reports = [f \in DOMAIN r.reports |-> r.reports[f]]
  BY DEF RecordSound
<1>2. DOMAIN r.reports = {}
  BY <1>1
<1>3. PICK empty : empty = <<>>
  OBVIOUS
<1>4. DOMAIN empty = {} /\ empty = [x \in DOMAIN empty |-> empty[x]]
  BY <1>3
<1>5. r.reports = empty
  BY <1>1, <1>2, <1>4
<1>. QED
  BY <1>3, <1>5

\* So can a first cancellation, in time or late.
LEMMA CancelStorable ==
    ASSUME NEW d, DocSound(d), CheckpointSound(d.cp), NEW e \in DOMAIN d.fx,
           d.fx[e].cancel.state # "prevented_start", NEW op, NEW d2, d2 = Cancelled(d, op, e)
    PROVE  d2.cp = d.cp /\ JournalValid(d2)
<1>1. CancelledFrom(d, d2, op, e)
  BY CancelledIs, SoundEditable
<1>2. PICK r, s : r = d.fx[e] /\ s = d2.fx[e]
  OBVIOUS
<1>3. Edited(d, d2, e) /\ d2.cp = d.cp /\ d2.pinned = d.pinned
  BY <1>1 DEF CancelledFrom
<1>4. RecordSound(r) /\ FieldsValid(d, r, e) /\ OutcomeReported(r) /\ Shape(r)
  BY <1>2 DEF DocSound, JournalValid, RecordSound
<1>5. CASE MayPrevent(d, e)
  <2>1. r.state = "unclaimed" /\ r.fence = 0
    BY <1>2, <1>5 DEF MayPrevent
  <2>2. PICK out : out = [kind |-> "cancelled", fence |-> 0]
    OBVIOUS
  <2>3. PICK cancel : cancel = [op |-> op, state |-> "prevented_start"]
    OBVIOUS
  <2>4. s = [r EXCEPT !.state = "outcome_recorded", !.outcome = out, !.cancel = cancel]
    BY <1>1, <1>2, <1>5, <2>2, <2>3 DEF CancelledFrom
  <2>5. /\ Reads(s, 0, "outcome_recorded", r.reports, cancel) /\ s.outcome = out
        /\ s.receipt = r.receipt
    BY <1>4, <2>1, <2>4 DEF Reads, Shape
  <2>6. RecordSound(s)
    BY <1>4, <2>1, <2>2, <2>5, PreventedRecord
  <2>7. s.fence = 0 /\ s.reports = r.reports /\ s.cancel = cancel /\ s.state = "outcome_recorded"
    BY <2>5 DEF Reads
  <2>8. s.receipt = None
    BY <1>4, <2>1, <2>5 DEF FieldsValid
  <2>9. FieldsValid(d, s, e)
    BY <2>6, <2>7, <2>8, OpenFields
  <2>10. OutcomeReported(s)
    <3>1. PreventedStart(s)
      BY <2>2, <2>3, <2>5, <2>7 DEF PreventedStart
    <3>2. s.reports = <<>>
      BY <2>6, <2>7, NoReports
    <3>. QED
      BY <3>1, <3>2 DEF OutcomeReported
  <2>. QED
    BY <1>2, <1>3, <2>6, <2>9, <2>10, EditStorable
<1>6. CASE ~MayPrevent(d, e)
  <2>1. PICK cancel : cancel = [op |-> op, state |-> "reconciliation_required"]
    OBVIOUS
  <2>2. s = [r EXCEPT !.cancel = cancel]
    BY <1>1, <1>2, <1>6, <2>1 DEF CancelledFrom
  <2>3. /\ Reads(s, r.fence, r.state, r.reports, cancel) /\ s.outcome = r.outcome
        /\ s.receipt = r.receipt
    BY <1>4, <2>2 DEF Reads, Shape
  <2>4. cancel.state # "prevented_start"
    BY <2>1
  <2>5. RecordSound(s)
    BY <1>4, <2>3, <2>4, ReconciledRecord
  <2>6. s.fence = r.fence /\ s.state = r.state /\ s.reports = r.reports /\ s.cancel = cancel
    BY <2>3 DEF Reads
  <2>7. FieldsValid(d, s, e)
    BY <1>4, <2>3, <2>6 DEF FieldsValid
  <2>8. OutcomeReported(s)
    BY <1>2, <1>4, <2>3, <2>4, <2>6 DEF OutcomeReported, PreventedStart
  <2>. QED
    BY <1>2, <1>3, <2>5, <2>7, <2>8, EditStorable
<1>. QED
  BY <1>5, <1>6

\* An acknowledgement can be stored.
LEMMA AcknowledgeStorable ==
    ASSUME NEW d, DocSound(d), CheckpointSound(d.cp), NEW e \in DOMAIN d.cp.pendingFx,
           NEW outcome, NEW d2, d2 = Acknowledged(d, e, outcome)
    PROVE  CheckpointSound(d2.cp) /\ JournalValid(d2)
<1>1. DocShape(d) /\ Shaped(d.cp) /\ ReceiptsShaped(d.cp) /\ JournalValid(d)
  BY DEF DocSound
<1>2. /\ CheckpointSound(d2.cp) /\ d2.cp.receipts = d.cp.receipts
      /\ \A x : Listed(d2.cp, x) <=> Listed(d.cp, x)
  BY <1>1, AcknowledgedSound
<1>3. d2.fx = d.fx /\ d2.pinned = d2.cp.revision
  BY <1>1, AcknowledgedIs
<1>4. EffectsValid(d.cp) /\ EffectsValid(d2.cp)
  BY <1>2 DEF CheckpointSound, Valid, SemanticsValid
<1>5. Retains(d.cp.receipts, d2.cp.receipts)
  BY <1>2 DEF Retains, SaysSame
<1>6. PICK E : E = {}
  OBVIOUS
<1>7. \A x \in DOMAIN d2.fx \ E : x \in DOMAIN d.fx /\ d2.fx[x] = d.fx[x]
  BY <1>3
<1>8. \A x : Listed(d.cp, x) => Listed(d2.cp, x)
  BY <1>2
<1>9. ASSUME NEW x \in E
      PROVE  /\ Listed(d2.cp, x)
             /\ \A f \in DOMAIN d2.fx[x].reports : f <= d2.fx[x].fence
             /\ FieldsValid(d2, d2.fx[x], x)
             /\ OutcomeReported(d2.fx[x])
  BY <1>6, <1>9
<1>. QED
  BY <1>1, <1>2, <1>3, <1>4, <1>5, <1>7, <1>8, <1>9, JournalStays

\* So can an admission the machine still takes.
LEMMA AdmitStorable ==
    ASSUME Apart, ResultsAreEvents, NEW d, DocSound(d), CheckpointSound(d.cp),
           NEW e \in DOMAIN d.fx, d.fx[e].state = "outcome_recorded",
           Deliverable(d, e, d.fx[e].outcome.kind),
           NEW d2, d2 = ResultAdmitted(d, e)
    PROVE  CheckpointSound(d2.cp) /\ JournalValid(d2)
<1>1. PICK r, s, k, c : r = d.fx[e] /\ s = d2.fx[e] /\ k = r.outcome.kind /\ c = d.cp
  OBVIOUS
<1>2. PICK x : x = ResultDelivery(e, k)
  OBVIOUS
<1>3. AdmittedFrom(d, d2, e)
  BY ResultAdmittedIs, SoundEditable
<1>4. /\ Edited(d, d2, e) /\ d2.cp = Admitted(c, <<x>>) /\ d2.pinned = d2.cp.revision
      /\ s = [r EXCEPT !.state = "result_admitted", !.receipt = c.next]
  BY <1>1, <1>2, <1>3 DEF AdmittedFrom
<1>5. RecordSound(r) /\ OutcomeReported(r) /\ JournalValid(d)
  BY <1>1 DEF DocSound, JournalValid
<1>6. Shape(r) /\ r.outcome # Undecided /\ k \in OutcomeKinds
  BY <1>1, <1>5 DEF RecordSound
<1>7. e \in Nat
  BY <1>5, EffectsNumbered
<1>8. x \in Delivery /\ x.body \notin Internal /\ x.id = ResultOf(e, k) /\ x.body = k
  BY <1>2, <1>6, <1>7, EffectAssumption
     DEF ResultDelivery, ResultsAreEvents, OutcomeKinds, Delivery
<1>9. Acceptable(c, <<x>>)
  BY <1>1, <1>2 DEF Deliverable
<1>10. /\ CheckpointSound(d2.cp) /\ SameEffects(c, d2.cp)
       /\ \A u \in DOMAIN c.receipts : u \in DOMAIN d2.cp.receipts /\ d2.cp.receipts[u] = c.receipts[u]
       /\ c.next \in DOMAIN d2.cp.receipts
       /\ d2.cp.receipts[c.next].kind = "acceptance"
       /\ d2.cp.receipts[c.next].id = x.id /\ d2.cp.receipts[c.next].body = x.body
  BY <1>1, <1>4, <1>8, <1>9, OneAdmitted
<1>11. /\ Reads(s, r.fence, "result_admitted", r.reports, r.cancel) /\ s.outcome = r.outcome
       /\ s.receipt = c.next
  BY <1>4, <1>6 DEF Reads, Shape
<1>12. RecordSound(s)
  BY <1>1, <1>5, <1>11, AdmittedRecord
<1>13. /\ s.fence = r.fence /\ s.reports = r.reports /\ s.cancel = r.cancel
       /\ s.state = "result_admitted"
  BY <1>11 DEF Reads
<1>14. c.next \in AcceptanceOf(d2.cp, ResultOf(e, k))
  BY <1>8, <1>10 DEF AcceptanceOf, OfKind
<1>15. FieldsValid(d2, s, e)
  BY <1>1, <1>6, <1>8, <1>10, <1>11, <1>13, <1>14 DEF FieldsValid
<1>16. OutcomeReported(s)
  BY <1>5, <1>11, <1>13 DEF OutcomeReported, PreventedStart
<1>17. EffectsValid(d.cp) /\ EffectsValid(d2.cp)
  BY <1>10 DEF CheckpointSound, Valid, SemanticsValid
<1>18. Retains(d.cp.receipts, d2.cp.receipts)
  BY <1>1, <1>10 DEF Retains, SaysSame
<1>19. \A y : Listed(d.cp, y) => Listed(d2.cp, y)
  BY <1>1, <1>10 DEF SameEffects, Listed
<1>20. PICK E : E = {e}
  OBVIOUS
<1>21. \A y \in DOMAIN d2.fx \ E : y \in DOMAIN d.fx /\ d2.fx[y] = d.fx[y]
  BY <1>4, <1>20 DEF Edited
<1>22. ASSUME NEW y \in E
       PROVE  /\ Listed(d2.cp, y)
              /\ \A f \in DOMAIN d2.fx[y].reports : f <= d2.fx[y].fence
              /\ FieldsValid(d2, d2.fx[y], y)
              /\ OutcomeReported(d2.fx[y])
  <2>1. Listed(d2.cp, e)
    BY <1>5, <1>17, <1>19, LocatedIs DEF JournalValid
  <2>2. \A f \in DOMAIN s.reports : f <= s.fence
    BY <1>12 DEF RecordSound
  <2>. QED
    BY <1>1, <1>15, <1>16, <1>20, <1>22, <2>1, <2>2
<1>23. JournalValid(d2)
  BY <1>4, <1>5, <1>17, <1>18, <1>19, <1>21, <1>22, JournalStays
<1>. QED
  BY <1>10, <1>23

\* Everything the host is asked for can be stored, in such a state.
LEMMA SoundAccepts ==
    ASSUME Apart, ResultsAreEvents, IInv, CheckpointSound(doc.cp)
    PROVE  AcceptedStorable
<1>0. DocSound(doc)
  BY DEF IInv
<1>1. ASSUME NEW r \in Runtimes, Runnable(doc.cp, r), NEW c \in Steps(doc.cp, r)
      PROVE  JournalValid(Produced(doc, Nobody, c)) /\ StepRestorable(doc.cp, c)
  BY <1>0, <1>1, ProducedStorable
<1>2. ASSUME NEW e \in DOMAIN doc.fx
      PROVE  /\ \A w \in Workers, proof \in {FALSE, Deduplicates} :
                   MayClaim(doc, e, proof) => Sound(ClaimIssued(doc, w, e, proof))
             /\ e \in DOMAIN doc.cp.pendingFx =>
                   \A o \in Outcomes : Sound(Acknowledged(doc, e, o))
             /\ doc.fx[e].state = "leased" =>
                   Sound(Revoked(doc, e))
                   /\ \A k \in Reports : Sound(Reported(doc, e, doc.fx[e].fence, k))
             /\ doc.fx[e].state = "outcome_recorded"
                /\ Deliverable(doc, e, doc.fx[e].outcome.kind) =>
                   Sound(ResultAdmitted(doc, e))
             /\ doc.fx[e].cancel.state # "prevented_start" => Sound(Cancelled(doc, Nobody, e))
  <2>1. ASSUME NEW w \in Workers, NEW proof \in {FALSE, Deduplicates}, MayClaim(doc, e, proof)
        PROVE  Sound(ClaimIssued(doc, w, e, proof))
    <3>1. proof \in BOOLEAN
      BY EffectAssumption
    <3>. QED
      BY <1>0, <2>1, <3>1, ClaimStorable DEF Sound
  <2>2. ASSUME e \in DOMAIN doc.cp.pendingFx, NEW o \in Outcomes
        PROVE  Sound(Acknowledged(doc, e, o))
    BY <1>0, <2>2, AcknowledgeStorable DEF Sound, CheckpointSound
  <2>3. ASSUME doc.fx[e].state = "leased" PROVE Sound(Revoked(doc, e))
    BY <1>0, <2>3, RevokeStorable DEF Sound
  <2>4. ASSUME doc.fx[e].state = "leased", NEW k \in Reports
        PROVE  Sound(Reported(doc, e, doc.fx[e].fence, k))
    BY <1>0, <2>4, ReportStorable DEF Sound
  <2>5. ASSUME doc.fx[e].state = "outcome_recorded", Deliverable(doc, e, doc.fx[e].outcome.kind)
        PROVE  Sound(ResultAdmitted(doc, e))
    BY <1>0, <2>5, AdmitStorable DEF Sound, CheckpointSound
  <2>6. ASSUME doc.fx[e].cancel.state # "prevented_start" PROVE Sound(Cancelled(doc, Nobody, e))
    BY <1>0, <2>6, CancelStorable DEF Sound
  <2>. QED
    BY <2>1, <2>2, <2>3, <2>4, <2>5, <2>6
<1>. QED
  BY <1>1, <1>2 DEF AcceptedStorable

\* A queued root restores.
LEMMA QueuedCheckpoint ==
    ASSUME Apart, NEW c \in Queued
    PROVE  CheckpointSound(c)
<1>1. PICK c0 \in Creations, b \in Batches :
         c = Admitted(c0, b) /\ \A i \in DOMAIN b : b[i].body \notin Internal
  BY DEF Queued
<1>2. /\ Typed(c0) /\ c0.next > 0 /\ c0.root = "retained" /\ Valid(c0) /\ Traced(c0)
  BY CreationsTyped, CreationsRestore
<1>3. Below(c0)
  BY <1>2, ValidBelow DEF Valid
<1>4. PICK n \in 1 .. MaxBatch : b \in [1 .. n -> Delivery]
  BY DEF Batches
<1>5. n \in Nat /\ DOMAIN b = 1 .. n
  BY <1>4, CheckpointAssumption
<1>6. \A i, j \in 1 .. n : i # j => b[i].id # b[j].id
  BY <1>5, Zenon DEF Batches
<1>7. \A i \in 1 .. n : b[i].body \notin Internal
  BY <1>1, <1>5
<1>8. Typed(c) /\ Traced(c) /\ Valid(c)
  <2>1. Typed(Admitted(c0, b)) /\ Traced(Admitted(c0, b))
    BY <1>2, <1>3, <1>4, <1>5, <1>6, AdmittedValid
  <2>2. Valid(Admitted(c0, b))
    BY <1>2, <1>3, <1>4, <1>5, <1>6, <1>7, AdmittedRestores
  <2>. QED
    BY <1>1, <2>1, <2>2
<1>9. c.next > 0
  <2>1. Records(c0, Admitted(c0, b))
    BY <1>2, <1>3, <1>4, <1>5, AdmittedTyped
  <2>2. c.next >= c0.next
    BY <1>1, <2>1 DEF Records
  <2>. QED
    BY <1>2, <1>8, <2>2 DEF Typed
<1>10. Below(c)
  BY <1>8, <1>9, ValidBelow DEF Valid
<1>. QED
  BY <1>8, <1>10 DEF CheckpointSound

\* An admission that is committed leaves a checkpoint that restores.
LEMMA AdmissionRestores ==
    ASSUME Apart, ResultsAreEvents, DocSound(doc), CheckpointSound(doc.cp), NEW e \in DOMAIN doc.fx,
           doc.fx[e].state = "outcome_recorded", Deliverable(doc, e, doc.fx[e].outcome.kind),
           Commit(ResultAdmitted(doc, e))
    PROVE  CheckpointSound(doc'.cp)
<1>1. doc' = ResultAdmitted(doc, e)
  BY Zenon DEF Commit
<1>. QED
  BY <1>1, AdmitStorable

\* So does every other step.
LEMMA NextRestores ==
    ASSUME Apart, ResultsAreEvents, IInv, CheckpointSound(doc.cp), Next
    PROVE  CheckpointSound(doc'.cp)
<1>0. DocSound(doc) /\ InflightSound(doc, inflight)
  BY Parts
<1>1. ASSUME NEW op, NEW r, Produce(op, r) PROVE CheckpointSound(doc'.cp)
  <2>1. PICK c \in Steps(doc.cp, r) : Commit(Produced(doc, op, c))
    BY <1>1, Zenon DEF Produce
  <2>2. doc' = Produced(doc, op, c)
    BY <2>1, Zenon DEF Commit
  <2>3. Runnable(doc.cp, r)
    BY <1>1, Zenon DEF Produce
  <2>4. doc'.cp # doc.cp => Valid(doc'.cp)
    BY <2>1, <2>2, Zenon DEF Commit
  <2>5. Valid(doc'.cp) => CheckpointSound(doc'.cp)
    BY <1>0, <2>2, <2>3, ProducedStorable
  <2>. QED
    BY <2>4, <2>5
<1>2. ASSUME NEW w, NEW e \in DOMAIN doc.fx, NEW proof \in BOOLEAN, IssueClaim(w, e, proof)
      PROVE  CheckpointSound(doc'.cp)
  <2>1. MayClaim(doc, e, proof) /\ Commit(ClaimIssued(doc, w, e, proof))
    BY <1>2, Zenon DEF IssueClaim
  <2>2. doc' = ClaimIssued(doc, w, e, proof)
    BY <2>1, Zenon DEF Commit
  <2>. QED
    BY <1>0, <2>1, <2>2, ClaimStorable
<1>3. ASSUME NEW w, NEW e, Dispatch(w, e) PROVE CheckpointSound(doc'.cp)
  <2>1. doc' = doc
    BY <1>3, Zenon DEF Dispatch
  <2>. QED
    BY <2>1
<1>4. ASSUME NEW e, NEW outcome, TerminalizeOutbox(e, outcome) PROVE CheckpointSound(doc'.cp)
  <2>1. e \in DOMAIN doc.cp.pendingFx /\ Commit(Acknowledged(doc, e, outcome))
    BY <1>4, Zenon DEF TerminalizeOutbox
  <2>2. doc' = Acknowledged(doc, e, outcome)
    BY <2>1, Zenon DEF Commit
  <2>. QED
    BY <1>0, <2>1, <2>2, AcknowledgeStorable
<1>5. ASSUME NEW e, Lapse(e) PROVE CheckpointSound(doc'.cp)
  BY <1>5 DEF Lapse
<1>6. ASSUME NEW e \in DOMAIN doc.fx, NEW op, Cancel(op, e) PROVE CheckpointSound(doc'.cp)
  <2>1. Commit(Cancelled(doc, op, e))
    BY <1>6, Zenon DEF Cancel
  <2>2. doc' = Cancelled(doc, op, e)
    BY <2>1, Zenon DEF Commit
  <2>3. CancelledFrom(doc, doc', op, e)
    BY <1>0, <2>2, CancelledIs, SoundEditable
  <2>. QED
    BY <2>3 DEF CancelledFrom
<1>7. ASSUME NEW i \in issued, NEW k, RecordResult(i[1], i[2], i[3], k)
      PROVE  CheckpointSound(doc'.cp)
  <2>1. PICK e, f : e = i[2] /\ f = i[3]
    OBVIOUS
  <2>2. e \in DOMAIN doc.fx
    BY <2>1, Parts DEF IssuedSound
  <2>3. Commit(Reported(doc, e, f, k))
    BY <1>7, <2>1, Zenon DEF RecordResult, RecordReport
  <2>4. doc' = Reported(doc, e, f, k)
    BY <2>3, Zenon DEF Commit
  <2>5. ReportedFrom(doc, doc', e, f, k)
    BY <1>0, <2>2, <2>4, ReportedIs, SoundEditable
  <2>. QED
    BY <2>5 DEF ReportedFrom
<1>8. ASSUME NEW w, NEW e, NEW f, NEW k, RepeatResult(w, e, f, k) PROVE CheckpointSound(doc'.cp)
  <2>1. doc' = doc
    BY <1>8, Zenon DEF RepeatResult
  <2>. QED
    BY <2>1
<1>9. ASSUME NEW s \in inflight, AdmitResult(s[1], s[2], s[3]) PROVE CheckpointSound(doc'.cp)
  <2>1. PICK e, f, k : e = s[1] /\ f = s[2] /\ k = s[3]
    OBVIOUS
  <2>2. /\ e \in DOMAIN doc.fx /\ k \in OutcomeKinds
        /\ f \in DOMAIN doc.fx[e].reports /\ doc.fx[e].reports[f] = k
    BY <1>0, <2>1 DEF InflightSound
  <2>3. doc.fx[e].outcome.kind = k
    BY <1>0, <2>2, ReportDecides
  <2>4. \/ doc' = doc
        \/ /\ doc.fx[e].state = "outcome_recorded" /\ Deliverable(doc, e, k)
           /\ Commit(ResultAdmitted(doc, e))
    BY <1>9, <2>1, Zenon DEF AdmitResult
  <2>5. CASE doc' = doc
    BY <2>5
  <2>6. CASE /\ doc.fx[e].state = "outcome_recorded" /\ Deliverable(doc, e, k)
             /\ Commit(ResultAdmitted(doc, e))
    BY <1>0, <2>2, <2>3, <2>6, AdmissionRestores
  <2>. QED
    BY <2>4, <2>5, <2>6
<1>10. ASSUME NEW e, NEW f, NEW k, RefuseAdmission(e, f, k) PROVE CheckpointSound(doc'.cp)
  <2>1. doc' = doc
    BY <1>10, Zenon DEF RefuseAdmission
  <2>. QED
    BY <2>1
<1>11. ASSUME RecoverNext PROVE CheckpointSound(doc'.cp)
  <2>1. PICK e : e = Head(recovery)
    OBVIOUS
  <2>2. e \in DOMAIN doc.fx
    BY <1>11, <2>1, Parts DEF RecoverNext
  <2>3. \/ /\ doc.fx[e].state = "outcome_recorded"
           /\ Deliverable(doc, e, doc.fx[e].outcome.kind)
           /\ Commit(ResultAdmitted(doc, e))
        \/ doc.fx[e].state = "leased" /\ Commit(Revoked(doc, e))
        \/ doc' = doc
    BY <1>11, <2>1, Zenon DEF RecoverNext
  <2>4. CASE /\ doc.fx[e].state = "outcome_recorded"
             /\ Deliverable(doc, e, doc.fx[e].outcome.kind)
             /\ Commit(ResultAdmitted(doc, e))
    BY <1>0, <2>2, <2>4, AdmissionRestores
  <2>5. CASE doc.fx[e].state = "leased" /\ Commit(Revoked(doc, e))
    <3>1. doc' = Revoked(doc, e)
      BY <2>5, Zenon DEF Commit
    <3>. QED
      BY <1>0, <2>2, <2>5, <3>1, RevokeStorable
  <2>6. CASE doc' = doc
    BY <2>6
  <2>. QED
    BY <2>3, <2>4, <2>5, <2>6
<1>12. ASSUME StartRecovery \/ RecoveryRaises \/ Crash \/ Doubt PROVE CheckpointSound(doc'.cp)
  <2>1. doc' = doc
    BY <1>12, Zenon DEF StartRecovery, RecoveryRaises, Crash, Doubt
  <2>. QED
    BY <2>1
<1>13. ASSUME NEW e \in DOMAIN doc.fx, NEW w \in Workers, ClaimEffect(w, e) \/ FenceWorker(w, e)
       PROVE  \E proof \in BOOLEAN : IssueClaim(w, e, proof)
  BY <1>13, EffectAssumption DEF ClaimEffect, FenceWorker
<1>14. CASE \E op \in Operations, r \in Runtimes : Produce(op, r)
  BY <1>1, <1>14
<1>15. CASE \E e \in DOMAIN doc.fx :
               \/ \E w \in Workers : ClaimEffect(w, e) \/ FenceWorker(w, e) \/ Dispatch(w, e)
               \/ \E outcome \in Outcomes : TerminalizeOutbox(e, outcome)
               \/ Lapse(e)
               \/ \E op \in Operations : Cancel(op, e)
  BY <1>2, <1>3, <1>4, <1>5, <1>6, <1>13, <1>15
<1>16. CASE \E i \in issued, k \in Reports :
               /\ Honest(i[2], i[3], k)
               /\ RecordResult(i[1], i[2], i[3], k) \/ RepeatResult(i[1], i[2], i[3], k)
  BY <1>7, <1>8, <1>16
<1>17. CASE \E s \in inflight : AdmitResult(s[1], s[2], s[3]) \/ RefuseAdmission(s[1], s[2], s[3])
  BY <1>9, <1>10, <1>17
<1>. QED
  BY <1>11, <1>12, <1>14, <1>15, <1>16, <1>17, Zenon DEF Next, Recover

\* The checkpoint a host has stored restores, whatever steps, admissions,
\* acknowledgements, recovery and crashes did.
THEOREM CheckpointAlwaysSound ==
    ASSUME Events \cap (Nat \X Nat) = {}, ResultsAreEvents
    PROVE  Spec => []CheckpointSound(doc.cp)
<1>1. Apart
  BY DEF Apart
<1>2. Init => CheckpointSound(doc.cp)
  <2>. SUFFICES ASSUME Init PROVE CheckpointSound(doc.cp)
    OBVIOUS
  <2>1. PICK c \in Queued : doc = Seeded(c)
    BY DEF Init
  <2>2. doc.cp = c
    BY <2>1, SeededSound
  <2>. QED
    BY <1>1, <2>2, QueuedCheckpoint
<1>3. IInv /\ CheckpointSound(doc.cp) /\ [Next]_vars => CheckpointSound(doc.cp)'
  <2>1. ASSUME IInv, CheckpointSound(doc.cp), Next PROVE CheckpointSound(doc'.cp)
    BY <1>1, <2>1, NextRestores
  <2>2. ASSUME CheckpointSound(doc.cp), UNCHANGED vars PROVE CheckpointSound(doc'.cp)
    BY <2>2 DEF vars
  <2>. QED
    BY <2>1, <2>2
<1>. QED
  BY <1>2, <1>3, Invariant, PTL DEF Spec

\* What the host computes for a caller it can also store: a claim, a report, a
\* revocation, a first cancellation, an acknowledgement and an admission of a
\* result leave a checkpoint and a journal that pass the checks before the commit,
\* and so does a step that removes no runtime whose message still waits, for any
\* number of runtimes, workers, fences, reports and effects.
THEOREM AcceptedAlwaysStorable ==
    ASSUME Events \cap (Nat \X Nat) = {}, ResultsAreEvents
    PROVE  Spec => []AcceptedStorable
<1>1. Apart
  BY DEF Apart
<1>2. IInv /\ CheckpointSound(doc.cp) => AcceptedStorable
  BY <1>1, SoundAccepts
<1>. QED
  BY <1>2, Invariant, CheckpointAlwaysSound, PTL
================================================================================
