--------------------------- MODULE Checkpoint_proofs ---------------------------
(***************************************************************************)
(* What the operations on a checkpoint do to it, for every set of          *)
(* runtimes, bodies and ids: lemmas the hosts' proofs share.               *)
(***************************************************************************)
EXTENDS Checkpoint, FiniteSetTheorems, TLAPS

Fields == {"root", "operation", "rt", "revision", "next", "receipts", "mode", "cutoff",
           "tombstones", "mail", "nextAcc", "nextQueue", "pendingFx", "terminalFx",
           "tombstoneFx", "nextFx"}

\* Every candidate is an edited copy of a checkpoint.
Shaped(c) == c = [x \in Fields |-> c[x]]

\* d differs from c in neither root, mailboxes nor outbox.
SameWork(c, d) == d.root = c.root /\ d.mail = c.mail

SameEffects(c, d) ==
    d.pendingFx = c.pendingFx /\ d.terminalFx = c.terminalFx /\ d.tombstoneFx = c.tombstoneFx

\* The record an insert fills in has all fields.
LEMMA BlankShaped == Shaped(Blank) /\ Blank.root = "none" /\ Blank.pendingFx = <<>>
                     /\ Blank.terminalFx = <<>> /\ Blank.tombstoneFx = <<>>
  BY DEF Shaped, Blank, Fields

\* A new revision changes nothing else.
LEMMA MutatedShape ==
    ASSUME NEW c, Shaped(c)
    PROVE  Shaped(Mutated(c)) /\ SameWork(c, Mutated(c)) /\ SameEffects(c, Mutated(c))
  BY DEF Shaped, Fields, Mutated, SameWork, SameEffects

\* Closing entries keeps the root and the outbox.
LEMMA ClosedShape ==
    ASSUME NEW c, Shaped(c), NEW mail, NEW gone, NEW own, NEW d, d = Closed(c, mail, gone, own)
    PROVE  Shaped(d) /\ d.root = c.root /\ SameEffects(c, d)
  BY DEF Shaped, Fields, Closed, SameEffects

\* Closed entries no longer wait.
LEMMA ClosedMail ==
    ASSUME NEW c, Shaped(c), NEW mail, NEW gone, NEW own
    PROVE  Closed(c, mail, gone, own).mail = Restrict(mail, DOMAIN mail \ DOMAIN gone)
  BY DEF Shaped, Fields, Closed

\* Taking over the aggregate makes the root a retained one and only adds effects.
LEMMA SteppedShape ==
    ASSUME NEW c, Shaped(c), NEW rt, NEW sent, NEW recalled, NEW effects
    PROVE  LET d == Stepped(c, rt, sent, recalled, effects)
           IN /\ Shaped(d) /\ d.root = "retained"
              /\ d.pendingFx = Merge(effects, c.pendingFx)
              /\ d.terminalFx = c.terminalFx /\ d.tombstoneFx = c.tombstoneFx
  BY DEF Shaped, Fields, Stepped

\* d adds to the pending effects of c and touches no settled one.
OnlyAdds(c, d) ==
    /\ DOMAIN c.pendingFx \subseteq DOMAIN d.pendingFx
    /\ d.terminalFx = c.terminalFx /\ d.tombstoneFx = c.tombstoneFx

\* A creation or a step leaves a retained root and only adds effects.
LEMMA DispatchedShape ==
    ASSUME NEW c, Shaped(c), NEW head, NEW rt, NEW ems, NEW S, NEW fx
    PROVE  LET d == Dispatched(c, head, rt, ems, S, fx)
           IN Shaped(d) /\ d.root = "retained" /\ OnlyAdds(c, d)
<1>1. PICK mail, gone, own, sent, recalled, new :
         Dispatched(c, head, rt, ems, S, fx)
         = Stepped(Closed(Mutated(c), mail, gone, own), rt, sent, recalled, new)
  BY Zenon DEF Dispatched
<1>. DEFINE m == Mutated(c)
            e == Closed(m, mail, gone, own)
            d == Stepped(e, rt, sent, recalled, new)
<1>2. Shaped(m) /\ SameEffects(c, m)
  BY MutatedShape
<1>. HIDE DEF m
<1>3. Shaped(e) /\ SameEffects(m, e)
  BY <1>2, ClosedShape
<1>. HIDE DEF e
<1>4. /\ Shaped(d) /\ d.root = "retained" /\ d.pendingFx = Merge(new, e.pendingFx)
      /\ d.terminalFx = e.terminalFx /\ d.tombstoneFx = e.tombstoneFx
  BY <1>3, SteppedShape
<1>. HIDE DEF d
<1>5. OnlyAdds(c, d)
  BY <1>2, <1>3, <1>4 DEF OnlyAdds, SameEffects, Merge
<1>. QED
  BY <1>1, <1>4, <1>5 DEF d, e, m

\* An admission edits neither the root nor the outbox.
LEMMA AdmittedShape ==
    ASSUME NEW c, Shaped(c), NEW batch
    PROVE  LET d == Admitted(c, batch)
           IN Shaped(d) /\ d.root = c.root /\ SameEffects(c, d)
<1>1. Shaped(Mutated(c)) /\ SameWork(c, Mutated(c)) /\ SameEffects(c, Mutated(c))
  BY MutatedShape
<1>2. PICK mail, receipts, next, nextAcc, nextQueue :
         Admitted(c, batch) = [Mutated(c) EXCEPT !.mail = mail, !.receipts = receipts,
                                 !.next = next, !.nextAcc = nextAcc, !.nextQueue = nextQueue]
  BY Zenon DEF Admitted
<1>. QED
  BY <1>1, <1>2 DEF Shaped, Fields, SameWork, SameEffects

\* What a step of a retained root leaves: a retained root, and at most more to
\* deliver.
Worked(c, d) == Shaped(d) /\ d.root = "retained" /\ OnlyAdds(c, d)

\* A deferral edits neither the root nor the outbox.
LEMMA DeferredShape ==
    ASSUME NEW c, Shaped(c), c.root = "retained", NEW h
    PROVE  Worked(c, Deferred(c, h))
<1>1. PICK mail, gone, own :
         Deferred(c, h) = [Closed(Mutated(c), mail, gone, own) EXCEPT !.nextQueue = @ + 1]
  BY Zenon DEF Deferred
<1>2. PICK m : m = Mutated(c)
  OBVIOUS
<1>3. PICK e : e = Closed(m, mail, gone, own)
  OBVIOUS
<1>4. Shaped(m) /\ SameWork(c, m) /\ SameEffects(c, m)
  BY <1>2, MutatedShape
<1>5. Shaped(e) /\ e.root = m.root /\ SameEffects(m, e)
  BY <1>3, <1>4, ClosedShape
<1>6. Deferred(c, h) = [e EXCEPT !.nextQueue = @ + 1]
  BY <1>1, <1>2, <1>3
<1>. QED
  BY <1>4, <1>5, <1>6 DEF Worked, Shaped, Fields, SameWork, SameEffects, OnlyAdds

\* d is a dispatch of the head h to one of the endings of r.
HandledBy(c, r, h, d) ==
    \E rt \in Endings(c, r) :
       \E ems \in Emissions(Senders(c, r, rt)), fx \in BOOLEAN,
          S \in SUBSET Waiting(c, r, "deferred") : d = Dispatched(c, {h}, rt, ems, S, fx)

\* What a handler does is such a dispatch.
LEMMA HandledArguments ==
    ASSUME NEW c, NEW r, NEW h, NEW d \in Handled(c, r, h)
    PROVE  HandledBy(c, r, h, d)
<1>1. PICK rt \in Endings(c, r) : d \in HandledTo(c, r, h, rt)
  BY Zenon DEF Handled
<1>2. PICK ems \in Emissions(Senders(c, r, rt)), fx \in BOOLEAN,
           S \in IF Ended(rt, r) THEN {{}} ELSE SUBSET Waiting(c, r, "deferred") :
             d = Dispatched(c, {h}, rt, ems, S, fx)
  BY <1>1, SMT DEF HandledTo
<1>3. S \in SUBSET Waiting(c, r, "deferred")
  BY <1>2
<1>. QED
  BY <1>2, <1>3, Zenon DEF HandledBy

\* d is a dispatch from nothing, without a head.
InitialisedBy(d) ==
    \E rt \in [Runtimes -> Status], ems \in Emissions(Runtimes) \cup {<<>>}, fx \in BOOLEAN :
       d = Dispatched(Blank, {}, rt, ems, {}, fx)

\* An initialisation is one.
LEMMA InitialisedArguments == \A d \in Initialised : InitialisedBy(d)
<1>. SUFFICES ASSUME NEW d \in Initialised PROVE InitialisedBy(d)
  OBVIOUS
<1>. DEFINE Running == {st \in [Runtimes -> Status] : st[Root] = "running"}
            Statuses == [Runtimes -> Status]
<1>1. Initialised = (UNION {InitialisedTo(rt) : rt \in Running \cup {RootAlone("completed")}})
                    \cup {Dispatched(Blank, {}, RootAlone("faulted"), <<>>, {}, FALSE)}
  BY Zenon DEF Initialised
<1>2. RootAlone("completed") \in Statuses /\ RootAlone("faulted") \in Statuses
  BY DEF RootAlone, Status
<1>3. Running \subseteq Statuses
  OBVIOUS
<1>. HIDE DEF Running, Statuses
<1>4. ASSUME d \in UNION {InitialisedTo(rt) : rt \in Running \cup {RootAlone("completed")}}
      PROVE  InitialisedBy(d)
  <2>1. PICK rt \in Running \cup {RootAlone("completed")} : d \in InitialisedTo(rt)
    BY <1>4
  <2>2. PICK ems \in InitialEmissions(rt), fx \in BOOLEAN :
               d = Dispatched(Blank, {}, rt, ems, {}, fx)
    BY <2>1, SMT DEF InitialisedTo
  <2>3. ems \in Emissions(Runtimes)
    BY <2>2 DEF InitialEmissions, Emissions
  <2>4. rt \in Statuses
    BY <1>2, <1>3
  <2>5. ems \in Emissions(Runtimes) \cup {<<>>}
    BY <2>3
  <2>. QED
    BY <2>2, <2>4, <2>5, Zenon DEF InitialisedBy, Statuses
<1>5. ASSUME d = Dispatched(Blank, {}, RootAlone("faulted"), <<>>, {}, FALSE)
      PROVE  InitialisedBy(d)
  <2>1. PICK none : none = <<>>
    OBVIOUS
  <2>2. none \in Emissions(Runtimes) \cup {<<>>} /\ FALSE \in BOOLEAN
    BY <2>1
  <2>3. d = Dispatched(Blank, {}, RootAlone("faulted"), none, {}, FALSE)
    BY <1>5, <2>1, Zenon
  <2>. QED
    BY <1>2, <2>2, <2>3, Zenon DEF InitialisedBy, Statuses
<1>6. PICK failed : failed = Dispatched(Blank, {}, RootAlone("faulted"), <<>>, {}, FALSE)
  OBVIOUS
<1>7. \/ d \in UNION {InitialisedTo(rt) : rt \in Running \cup {RootAlone("completed")}}
      \/ d = failed
  BY <1>1, <1>6, Zenon
<1>. QED
  BY <1>4, <1>5, <1>6, <1>7, Zenon

\* A step is a deferral or a dispatch.
LEMMA StepCases ==
    ASSUME NEW c, NEW r, NEW d \in Steps(c, r)
    PROVE  \/ \E h : d = Deferred(c, h)
           \/ \E head, rt, ems, S, fx : d = Dispatched(c, head, rt, ems, S, fx)
<1>. DEFINE h == ReadyHead(c, r)
<1>1. d \in {Deferred(c, h), Unhandled(c, h), Faulted(c, r, h)} \cup Handled(c, r, h)
  BY Zenon DEF Steps
<1>2. d = Unhandled(c, h) => \E head, rt, ems, S, fx : d = Dispatched(c, head, rt, ems, S, fx)
  BY Zenon DEF Unhandled
<1>3. d = Faulted(c, r, h) => \E head, rt, ems, S, fx : d = Dispatched(c, head, rt, ems, S, fx)
  BY Zenon DEF Faulted
<1>. HIDE DEF h
<1>4. d \in Handled(c, r, h) => \E head, rt, ems, S, fx : d = Dispatched(c, head, rt, ems, S, fx)
  <2>1. SUFFICES ASSUME d \in Handled(c, r, h)
                 PROVE  \E head, rt, ems, S, fx : d = Dispatched(c, head, rt, ems, S, fx)
    OBVIOUS
  <2>2. PICK rt \in Endings(c, r) :
           \E ems \in Emissions(Senders(c, r, rt)), fx \in BOOLEAN,
              S \in SUBSET Waiting(c, r, "deferred") : d = Dispatched(c, {h}, rt, ems, S, fx)
    <3>1. HandledBy(c, r, h, d)
      BY <2>1, HandledArguments, Zenon
    <3>. QED
      BY <3>1, Zenon DEF HandledBy
  <2>. QED
    BY <2>2, Zenon
<1>. QED
  BY <1>1, <1>2, <1>3, <1>4

\* A creation is a dispatch without a head.
LEMMA CreationCases ==
    ASSUME NEW d \in Creations
    PROVE  \E head, rt, ems, S, fx : d = Dispatched(Blank, head, rt, ems, S, fx)
<1>1. d \in Initialised
  BY DEF Creations
<1>2. PICK rt, ems, fx : d = Dispatched(Blank, {}, rt, ems, {}, fx)
  BY <1>1, InitialisedArguments, Zenon DEF InitialisedBy
<1>. QED
  BY <1>2, Zenon

\* Whatever a step does, it leaves a retained root and only adds effects.
LEMMA StepsShape ==
    ASSUME NEW c, Shaped(c), c.root = "retained", NEW r, NEW d \in Steps(c, r)
    PROVE  Worked(c, d)
<1>1. CASE \E h : d = Deferred(c, h)
  BY <1>1, DeferredShape
<1>2. CASE \E head, rt, ems, S, fx : d = Dispatched(c, head, rt, ems, S, fx)
  BY <1>2, DispatchedShape DEF Worked
<1>. QED
  BY <1>1, <1>2, StepCases

\* A creation leaves a retained root.
LEMMA CreationsShape ==
    ASSUME NEW d \in Creations
    PROVE  Worked(Blank, d)
<1>1. PICK head, rt, ems, S, fx : d = Dispatched(Blank, head, rt, ems, S, fx)
  BY CreationCases
<1>. QED
  BY <1>1, BlankShaped, DispatchedShape DEF Worked

-----------------------------------------------------------------------------
(* Receipts.                                                               *)

ReceiptFields == {"kind", "id", "body", "acc", "queue", "rev", "refs", "effects"}

IsReceipt(x) == x = [f \in ReceiptFields |-> x[f]]

ReceiptsShaped(c) == \A s \in DOMAIN c.receipts : IsReceipt(c.receipts[s])

\* Receipts x and y of one thing: a synchronisation may edit the references.
SameReceipt(x, y) ==
    x.kind = y.kind /\ x.id = y.id /\ x.body = y.body /\ x.acc = y.acc /\ x.effects = y.effects

\* Every acceptance receipt among "after" is one of "before".
AcceptsNothing(before, after) ==
    \A s \in DOMAIN after :
       after[s].kind = "acceptance" => s \in DOMAIN before /\ SameReceipt(after[s], before[s])

\* A receipt that is written has all fields.
LEMMA ReceiptShape ==
    ASSUME NEW kind, NEW id, NEW entry, NEW rev
    PROVE  LET x == Receipt(kind, id, entry, rev)
           IN IsReceipt(x) /\ x.kind = kind /\ x.id = id /\ x.effects = {}
  BY DEF Receipt, IsReceipt, ReceiptFields

\* Following queue sequences edits references and nothing else.
LEMMA SynchronizedReceipts ==
    ASSUME NEW receipts, NEW mail, NEW gone,
           \A s \in DOMAIN receipts : IsReceipt(receipts[s])
    PROVE  LET after == Synchronized(receipts, mail, gone)
           IN /\ DOMAIN after = DOMAIN receipts
              /\ \A s \in DOMAIN receipts :
                    IsReceipt(after[s]) /\ SameReceipt(after[s], receipts[s])
<1>1. DOMAIN Synchronized(receipts, mail, gone) = DOMAIN receipts
  BY Zenon DEF Synchronized
<1>2. ASSUME NEW s \in DOMAIN receipts
      PROVE  /\ IsReceipt(Synchronized(receipts, mail, gone)[s])
             /\ SameReceipt(Synchronized(receipts, mail, gone)[s], receipts[s])
  <2>1. PICK refs : Synchronized(receipts, mail, gone)[s] = [receipts[s] EXCEPT !.refs = refs]
    BY <1>2, Zenon DEF Synchronized
  <2>2. PICK x : x = receipts[s]
    OBVIOUS
  <2>3. IsReceipt(x)
    BY <2>2
  <2>4. Synchronized(receipts, mail, gone)[s] = [x EXCEPT !.refs = refs]
    BY <2>1, <2>2
  <2>5. PICK y : y = [x EXCEPT !.refs = refs]
    OBVIOUS
  <2>6. IsReceipt(y) /\ SameReceipt(y, x)
    BY <2>3, <2>5 DEF IsReceipt, ReceiptFields, SameReceipt
  <2>. QED
    BY <2>2, <2>4, <2>5, <2>6
<1>. QED
  BY <1>1, <1>2

\* Closing entries accepts nothing, if what the operation writes itself does not.
LEMMA ClosedReceipts ==
    ASSUME NEW c, Shaped(c), ReceiptsShaped(c), NEW mail, NEW gone, NEW own,
           \A s \in DOMAIN own : IsReceipt(own[s]) /\ own[s].kind # "acceptance"
    PROVE  LET d == Closed(c, mail, gone, own)
           IN ReceiptsShaped(d) /\ AcceptsNothing(c.receipts, d.receipts)
<1>. DEFINE terminal == TerminalReceipts(mail, gone, c.revision)
            added == Merge(own, terminal)
            merged == Merge(added, c.receipts)
            kept == Restrict(mail, DOMAIN mail \ DOMAIN gone)
<1>1. ASSUME NEW s \in DOMAIN terminal
      PROVE  IsReceipt(terminal[s]) /\ terminal[s].kind = "event_terminal"
  <2>1. PICK e, entry : terminal[s] = Receipt("event_terminal", e, entry, c.revision)
    BY <1>1, Zenon DEF TerminalReceipts
  <2>. QED
    BY <2>1, ReceiptShape
<1>. HIDE DEF terminal
<1>2. ASSUME NEW s \in DOMAIN added
      PROVE  IsReceipt(added[s]) /\ added[s].kind # "acceptance"
  BY <1>1, <1>2 DEF Merge
<1>. HIDE DEF added
<1>3. ASSUME NEW s \in DOMAIN merged
      PROVE  /\ IsReceipt(merged[s])
             /\ merged[s].kind = "acceptance" =>
                   s \in DOMAIN c.receipts /\ merged[s] = c.receipts[s]
  BY <1>2, <1>3 DEF Merge, ReceiptsShaped
<1>4. PICK receipts : receipts = merged
  OBVIOUS
<1>. HIDE DEF merged, kept
<1>5. PICK after : after = Synchronized(receipts, kept, gone)
  OBVIOUS
<1>6. /\ DOMAIN after = DOMAIN receipts
      /\ \A s \in DOMAIN receipts : IsReceipt(after[s]) /\ SameReceipt(after[s], receipts[s])
  BY <1>3, <1>4, <1>5, SynchronizedReceipts
<1>7. Closed(c, mail, gone, own).receipts = after
  <2>1. PICK n : Closed(c, mail, gone, own)
                  = [c EXCEPT !.mail = kept, !.receipts = after, !.next = n]
    BY <1>4, <1>5, Zenon DEF Closed, merged, added, terminal, kept
  <2>. QED
    BY <2>1 DEF Shaped, Fields
<1>8. (\A s \in DOMAIN after : IsReceipt(after[s])) /\ AcceptsNothing(c.receipts, after)
  BY <1>3, <1>4, <1>6 DEF AcceptsNothing, SameReceipt
<1>. QED
  BY <1>7, <1>8 DEF ReceiptsShaped

\* d comes of a step of c: it accepts nothing and emits at most one effect, which
\* is known by the sequence of the first receipt.
Follows(c, d) ==
    /\ ReceiptsShaped(d) /\ AcceptsNothing(c.receipts, d.receipts)
    /\ DOMAIN d.pendingFx \subseteq DOMAIN c.pendingFx \cup {c.next}

\* Checkpoint d is what a dispatch makes of c: it closes entries, writes a receipt
\* of its own and emits at most one effect.
Dispatches(c, rt, d) ==
    \E mail, gone, x, sent, recalled, new :
       /\ d = Stepped(Closed(Mutated(c), mail, gone, [s \in {c.next} |-> x]), rt,
                      sent, recalled, new)
       /\ IsReceipt(x) /\ x.kind # "acceptance"
       /\ DOMAIN new \subseteq {c.next}

\* The receipt an initialisation or a dispatch writes of itself.
LEMMA DispatchOwn ==
    ASSUME NEW c, NEW head, NEW rt, NEW ems, NEW S, NEW fx
    PROVE  Dispatches(c, rt, Dispatched(c, head, rt, ems, S, fx))
<1>. DEFINE Own(x) == IsReceipt(x) /\ x.kind # "acceptance" /\ x.effects \subseteq {c.next}
            emitted == [id \in {c.next} \X (1 .. Len(ems)) |->
                          [body |-> ems[id[2]], acc |-> c.nextAcc + id[2] - 1,
                           queue |-> c.nextQueue + id[2] - 1, place |-> "ready"]]
            mail == Merge(emitted, Merge(Renumbered(c.mail, S, c.nextQueue + Len(ems)), c.mail))
            lost == {e \in DOMAIN mail \ head : Ended(rt, Target[mail[e].body])}
            gone == Merge([e \in head |-> c.next], Numbered(mail, lost, c.next + 1))
            base == IF head = {}
                    THEN Receipt("creation", Nobody, [body |-> Failure, acc |-> 0, queue |-> 0],
                                 c.revision + 1)
                    ELSE LET h == CHOOSE e \in head : TRUE
                         IN Receipt("event_terminal", h, c.mail[h], c.revision + 1)
            refs == {[id |-> e, acc |-> mail[e].acc, kind |-> "internal_mailbox",
                      n |-> mail[e].queue] : e \in DOMAIN emitted}
            own == [base EXCEPT !.refs = refs, !.effects = IF fx THEN {c.next} ELSE {}]
<1>1. Dispatched(c, head, rt, ems, S, fx)
      = Stepped(Closed(Mutated(c), mail, gone, [s \in {c.next} |-> own]), rt,
                Len(ems), Cardinality(S), [f \in own.effects |-> "not_attempted"])
  BY Zenon DEF Dispatched
<1>2. PICK kind, id, entry : /\ base = Receipt(kind, id, entry, c.revision + 1)
                             /\ kind \in {"creation", "event_terminal"}
  <2>1. CASE head = {}
    BY <2>1
  <2>2. CASE head # {}
    BY <2>2
  <2>. QED
    BY <2>1, <2>2
<1>. HIDE DEF base, refs, mail, gone
<1>3. IsReceipt(base) /\ base.kind # "acceptance"
  BY <1>2, ReceiptShape
<1>4. PICK effects : effects = IF fx THEN {c.next} ELSE {}
  OBVIOUS
<1>5. PICK x : x = own
  OBVIOUS
<1>6. Own(x)
  BY <1>3, <1>4, <1>5 DEF IsReceipt, ReceiptFields
<1>7. PICK new : new = [f \in x.effects |-> "not_attempted"]
  OBVIOUS
<1>8. DOMAIN new \subseteq {c.next}
  BY <1>6, <1>7
<1>9. Dispatched(c, head, rt, ems, S, fx)
      = Stepped(Closed(Mutated(c), mail, gone, [s \in {c.next} |-> x]), rt, Len(ems),
                Cardinality(S), new)
  BY <1>1, <1>5, <1>7
<1>. HIDE DEF own
<1>. QED
  BY <1>6, <1>8, <1>9, Zenon DEF Dispatches

\* A creation or a step accepts nothing and emits at most one effect.
LEMMA DispatchedFollows ==
    ASSUME NEW c, Shaped(c), ReceiptsShaped(c),
           NEW head, NEW rt, NEW ems, NEW S, NEW fx
    PROVE  Follows(c, Dispatched(c, head, rt, ems, S, fx))
<1>0. PICK d : d = Dispatched(c, head, rt, ems, S, fx)
  OBVIOUS
<1>1. PICK mail, gone, x, sent, recalled, new :
         /\ d = Stepped(Closed(Mutated(c), mail, gone, [s \in {c.next} |-> x]), rt,
                        sent, recalled, new)
         /\ IsReceipt(x) /\ x.kind # "acceptance"
         /\ DOMAIN new \subseteq {c.next}
  <2>1. Dispatches(c, rt, d)
    BY <1>0, DispatchOwn
  <2>. QED
    BY <2>1, Zenon DEF Dispatches
<1>2. PICK m : m = Mutated(c)
  OBVIOUS
<1>3. PICK own : own = [s \in {c.next} |-> x]
  OBVIOUS
<1>4. PICK e : e = Closed(m, mail, gone, own)
  OBVIOUS
<1>5. d = Stepped(e, rt, sent, recalled, new)
  BY <1>1, <1>2, <1>3, <1>4
<1>6. Shaped(m) /\ m.receipts = c.receipts /\ m.pendingFx = c.pendingFx
  BY <1>2 DEF Mutated, Shaped, Fields
<1>7. \A s \in DOMAIN own : IsReceipt(own[s]) /\ own[s].kind # "acceptance"
  BY <1>1, <1>3
<1>8. ReceiptsShaped(m)
  BY <1>6 DEF ReceiptsShaped
<1>9. ReceiptsShaped(e) /\ AcceptsNothing(m.receipts, e.receipts)
  BY <1>4, <1>6, <1>7, <1>8, ClosedReceipts
<1>10. Shaped(e) /\ e.pendingFx = m.pendingFx
  BY <1>4, <1>6, ClosedShape DEF SameEffects
<1>11. d.receipts = e.receipts /\ d.pendingFx = Merge(new, e.pendingFx)
  BY <1>5, <1>10 DEF Stepped, Shaped, Fields
<1>12. DOMAIN d.pendingFx \subseteq DOMAIN c.pendingFx \cup {c.next}
  BY <1>1, <1>6, <1>10, <1>11 DEF Merge
<1>13. ReceiptsShaped(d) /\ AcceptsNothing(c.receipts, d.receipts)
  BY <1>6, <1>9, <1>11 DEF ReceiptsShaped
<1>. QED
  BY <1>0, <1>12, <1>13 DEF Follows

\* A deferral accepts and emits nothing.
LEMMA DeferredFollows ==
    ASSUME NEW c, Shaped(c), ReceiptsShaped(c), NEW h
    PROVE  Follows(c, Deferred(c, h))
<1>1. PICK mail : Deferred(c, h)
                  = [Closed(Mutated(c), mail, <<>>, <<>>) EXCEPT !.nextQueue = @ + 1]
  BY Zenon DEF Deferred
<1>2. PICK m : m = Mutated(c)
  OBVIOUS
<1>3. PICK e : e = Closed(m, mail, <<>>, <<>>)
  OBVIOUS
<1>4. PICK d : d = [e EXCEPT !.nextQueue = @ + 1]
  OBVIOUS
<1>5. Shaped(m) /\ m.receipts = c.receipts /\ m.pendingFx = c.pendingFx
  BY <1>2 DEF Mutated, Shaped, Fields
<1>6. ReceiptsShaped(m)
  BY <1>5 DEF ReceiptsShaped
<1>7. ReceiptsShaped(e) /\ AcceptsNothing(m.receipts, e.receipts)
  <2>1. \A s \in DOMAIN <<>> : IsReceipt(<<>>[s]) /\ <<>>[s].kind # "acceptance"
    OBVIOUS
  <2>. QED
    BY <1>3, <1>5, <1>6, <2>1, ClosedReceipts
<1>8. Shaped(e) /\ e.pendingFx = m.pendingFx
  BY <1>3, <1>5, ClosedShape DEF SameEffects
<1>9. d.receipts = e.receipts /\ d.pendingFx = e.pendingFx
  BY <1>4, <1>8 DEF Shaped, Fields
<1>10. Follows(c, d)
  BY <1>5, <1>7, <1>8, <1>9 DEF Follows, ReceiptsShaped
<1>. QED
  BY <1>1, <1>2, <1>3, <1>4, <1>10

\* Whatever a step does, it accepts nothing and emits at most one effect.
LEMMA StepsFollow ==
    ASSUME NEW c, Shaped(c), ReceiptsShaped(c), NEW r, NEW d \in Steps(c, r)
    PROVE  Follows(c, d)
<1>1. CASE \E h : d = Deferred(c, h)
  BY <1>1, DeferredFollows
<1>2. CASE \E head, rt, ems, S, fx : d = Dispatched(c, head, rt, ems, S, fx)
  BY <1>2, DispatchedFollows
<1>. QED
  BY <1>1, <1>2, StepCases

\* A created root has accepted nothing.
LEMMA CreationsAccept ==
    ASSUME NEW d \in Creations
    PROVE  ReceiptsShaped(d) /\ \A s \in DOMAIN d.receipts : d.receipts[s].kind # "acceptance"
<1>1. PICK head, rt, ems, S, fx : d = Dispatched(Blank, head, rt, ems, S, fx)
  BY CreationCases
<1>2. Blank.receipts = <<>> /\ DOMAIN <<>> = {}
  BY DEF Blank
<1>3. ReceiptsShaped(Blank)
  BY <1>2 DEF ReceiptsShaped
<1>4. Follows(Blank, d)
  BY <1>1, <1>3, BlankShaped, DispatchedFollows
<1>. QED
  BY <1>2, <1>4 DEF Follows, AcceptsNothing

\* An admission accepts what is new of its batch and nothing else.
LEMMA AdmittedReceipts ==
    ASSUME NEW c, Shaped(c), ReceiptsShaped(c), NEW batch
    PROVE  LET d == Admitted(c, batch)
           IN /\ ReceiptsShaped(d)
              /\ \A s \in DOMAIN d.receipts :
                    d.receipts[s].kind = "acceptance" =>
                       \/ s \in DOMAIN c.receipts /\ d.receipts[s] = c.receipts[s]
                       \/ \E i \in DOMAIN batch : d.receipts[s].id = batch[i].id
<1>. DEFINE fresh == Fresh(c, batch)
            rank(i) == Cardinality({j \in 1 .. i - 1 : j \in fresh})
            entry(i) == [body |-> batch[i].body, acc |-> c.nextAcc + rank(i),
                         queue |-> c.nextQueue + rank(i), place |-> "ready"]
            receipt(i) == Receipt("acceptance", batch[i].id, [entry(i) EXCEPT !.queue = 0],
                                  c.revision + 1)
            receiptAt(s) == {receipt(i) : i \in {j \in fresh : c.next + rank(j) = s}}
            new == [s \in {c.next + rank(i) : i \in fresh} |-> CHOOSE x \in receiptAt(s) : TRUE]
<1>1. PICK mail, next, acc, queue :
         Admitted(c, batch)
         = [Mutated(c) EXCEPT !.mail = mail, !.receipts = Merge(new, Mutated(c).receipts),
                              !.next = next, !.nextAcc = acc, !.nextQueue = queue]
  BY Zenon DEF Admitted
<1>2. \A i : IsReceipt(receipt(i)) /\ receipt(i).id = batch[i].id
  BY ReceiptShape
<1>. HIDE DEF receipt
<1>3. ASSUME NEW s \in DOMAIN new
      PROVE  IsReceipt(new[s]) /\ \E i \in DOMAIN batch : new[s].id = batch[i].id
  <2>1. PICK x : x = CHOOSE y \in receiptAt(s) : TRUE
    OBVIOUS
  <2>2. \E y : y \in receiptAt(s)
    BY <1>3
  <2>3. x \in receiptAt(s)
    BY <2>1, <2>2, Zenon
  <2>4. PICK i \in fresh : x = receipt(i)
    BY <2>3
  <2>5. i \in DOMAIN batch
    BY DEF Fresh
  <2>6. new[s] = x
    BY <1>3, <2>1
  <2>. QED
    BY <1>2, <2>4, <2>5, <2>6
<1>. HIDE DEF new
<1>4. PICK m : m = Mutated(c)
  OBVIOUS
<1>5. Shaped(m) /\ m.receipts = c.receipts
  BY <1>4 DEF Mutated, Shaped, Fields
<1>6. PICK after : after = Merge(new, c.receipts)
  OBVIOUS
<1>7. Admitted(c, batch).receipts = after
  <2>1. Admitted(c, batch)
        = [m EXCEPT !.mail = mail, !.receipts = after, !.next = next,
                    !.nextAcc = acc, !.nextQueue = queue]
    BY <1>1, <1>4, <1>5, <1>6
  <2>. QED
    BY <1>5, <2>1 DEF Shaped, Fields
<1>8. ASSUME NEW s \in DOMAIN after
      PROVE  /\ IsReceipt(after[s])
             /\ after[s].kind = "acceptance" =>
                   \/ s \in DOMAIN c.receipts /\ after[s] = c.receipts[s]
                   \/ \E i \in DOMAIN batch : after[s].id = batch[i].id
  <2>1. CASE s \in DOMAIN new
    <3>1. after[s] = new[s]
      BY <1>6, <2>1 DEF Merge
    <3>. QED
      BY <1>3, <2>1, <3>1
  <2>2. CASE s \notin DOMAIN new
    <3>1. s \in DOMAIN c.receipts /\ after[s] = c.receipts[s]
      BY <1>6, <1>8, <2>2 DEF Merge
    <3>. QED
      BY <3>1 DEF ReceiptsShaped
  <2>. QED
    BY <2>1, <2>2
<1>. QED
  BY <1>7, <1>8 DEF ReceiptsShaped

-----------------------------------------------------------------------------
(* What a checkpoint is made of.                                           *)

\* A mailbox map is finite and holds entries.
EntriesTyped(mail) ==
    /\ IsFiniteSet(DOMAIN mail)
    /\ \A e \in DOMAIN mail : e \in Ids /\ mail[e] \in Entry

ReceiptTyped(x) == IsReceipt(x) /\ x.kind \in Kinds /\ x.body \in Bodies /\ x.refs \subseteq Reference

ReceiptsTyped(receipts) == \A s \in DOMAIN receipts : s \in Nat /\ ReceiptTyped(receipts[s])

\* What a receipt says besides where its emissions are.
SaysSame(x, y) ==
    x.kind = y.kind /\ x.id = y.id /\ x.body = y.body /\ x.acc = y.acc /\ x.queue = y.queue
    /\ x.rev = y.rev /\ x.effects = y.effects

\* No receipt of "before" is lost in "after", and none says anything else.
Retains(before, after) ==
    DOMAIN before \subseteq DOMAIN after
    /\ \A s \in DOMAIN before : SaysSame(after[s], before[s])

\* Every receipt has a sequence that was allocated.
Below(c) == \A s \in DOMAIN c.receipts : s < c.next

\* Sequences for the entries of "gone", all of them new.
Numbers(gone, first) ==
    IsFiniteSet(DOMAIN gone) /\ \A e \in DOMAIN gone : gone[e] \in Nat /\ gone[e] >= first

\* A set of natural numbers that is not empty has a least element: the initial
\* segments of the natural numbers are well-ordered by inclusion.
LEMMA LeastNumber ==
    ASSUME NEW S, S \subseteq Nat, S # {}
    PROVE  \E x \in S : \A y \in S : x <= y
<1>. DEFINE T == {0 .. m : m \in S}
            R == StrictSubsetOrdering(Nat)
<1>1. IsWellFoundedOn(R, FiniteSubsetsOf(Nat))
  BY FS_StrictSubsetOrderingWellFounded
<1>2. T \subseteq FiniteSubsetsOf(Nat)
  <2>. SUFFICES ASSUME NEW m \in S
                PROVE  0 .. m \in FiniteSubsetsOf(Nat)
    OBVIOUS
  <2>1. m \in Int /\ 0 \in Int /\ 0 .. m \subseteq Nat
    OBVIOUS
  <2>2. IsFiniteSet(0 .. m)
    BY <2>1, FS_Interval
  <2>. QED
    BY <2>1, <2>2 DEF FiniteSubsetsOf
<1>3. T # {}
  OBVIOUS
<1>4. PICK I \in T : \A J \in T : ~ (<<J, I>> \in R)
  <2>. HIDE DEF T, R
  <2>. QED
    BY <1>1, <1>2, <1>3, WFMin
<1>5. PICK x \in S : I = 0 .. x
  BY <1>4
<1>6. ASSUME NEW y \in S
      PROVE  x <= y
  <2>. SUFFICES ASSUME y < x
                PROVE  FALSE
    OBVIOUS
  <2>1. /\ 0 .. y \subseteq 0 .. x /\ x \in 0 .. x /\ x \notin 0 .. y
        /\ 0 .. y \in SUBSET Nat /\ 0 .. x \in SUBSET Nat /\ 0 .. y \in T
    OBVIOUS
  <2>2. <<0 .. y, I>> \in R
    BY <1>5, <2>1 DEF StrictSubsetOrdering
  <2>. QED
    BY <1>4, <2>1, <2>2
<1>. QED
  BY <1>6

\* The rank of an entry among finitely many is a natural number.
LEMMA NumberedFacts ==
    ASSUME NEW mail, NEW lost, IsFiniteSet(lost), NEW first \in Nat
    PROVE  LET gone == Numbered(mail, lost, first)
           IN DOMAIN gone = lost /\ Numbers(gone, first)
<1>1. PICK gone : gone = Numbered(mail, lost, first)
  OBVIOUS
<1>2. DOMAIN gone = lost
  BY <1>1 DEF Numbered
<1>3. ASSUME NEW e \in lost
      PROVE  gone[e] \in Nat /\ gone[e] >= first
  <2>1. PICK D : D = {d \in lost : mail[d].acc < mail[e].acc}
    OBVIOUS
  <2>2. D \in SUBSET lost
    BY <2>1
  <2>3. PICK n : n = Cardinality(D)
    OBVIOUS
  <2>4. n \in Nat
    BY <2>2, <2>3, FS_Subset, FS_CardinalityType
  <2>5. gone[e] = first + n
    BY <1>1, <2>1, <2>3, Zenon DEF Numbered
  <2>. QED
    BY <2>4, <2>5
<1>. QED
  BY <1>1, <1>2, <1>3 DEF Numbers

\* The values of a finite map are finitely many.
LEMMA FiniteValues ==
    ASSUME NEW f, IsFiniteSet(DOMAIN f)
    PROVE  IsFiniteSet({f[x] : x \in DOMAIN f})
<1>1. PICK T : T = {f[x] : x \in DOMAIN f}
  OBVIOUS
<1>2. PICK g : g = [x \in DOMAIN f |-> f[x]]
  OBVIOUS
<1>3. g \in Surjection(DOMAIN f, T)
  BY <1>1, <1>2 DEF Surjection
<1>4. IsFiniteSet(T)
  BY <1>3, FS_Surjection
<1>. QED
  BY <1>1, <1>4

\* The terminal receipts of closed entries are finitely many and new, and say what
\* the entries said.
LEMMA TerminalReceiptsTyped ==
    ASSUME NEW mail, EntriesTyped(mail), NEW gone, DOMAIN gone \subseteq DOMAIN mail,
           NEW first \in Nat, Numbers(gone, first), NEW rev
    PROVE  LET added == TerminalReceipts(mail, gone, rev)
           IN /\ ReceiptsTyped(added) /\ IsFiniteSet(DOMAIN added)
              /\ \A s \in DOMAIN added : s >= first
<1>1. PICK added : added = TerminalReceipts(mail, gone, rev)
  OBVIOUS
<1>2. DOMAIN added = {gone[e] : e \in DOMAIN gone}
  BY <1>1 DEF TerminalReceipts
<1>3. IsFiniteSet(DOMAIN added)
  BY <1>2, FiniteValues DEF Numbers
<1>4. ASSUME NEW s \in DOMAIN added
      PROVE  s \in Nat /\ s >= first /\ ReceiptTyped(added[s])
  <2>1. PICK e : e = CHOOSE x \in DOMAIN gone : gone[x] = s
    OBVIOUS
  <2>2. e \in DOMAIN gone /\ gone[e] = s
    BY <1>2, <1>4, <2>1, Zenon
  <2>3. added[s] = Receipt("event_terminal", e, mail[e], rev)
    BY <1>1, <1>2, <1>4, <2>1, Zenon DEF TerminalReceipts
  <2>4. mail[e].body \in Bodies
    BY <2>2 DEF EntriesTyped, Entry
  <2>5. ReceiptTyped(added[s])
    BY <2>3, <2>4 DEF Receipt, ReceiptTyped, IsReceipt, ReceiptFields, Kinds
  <2>. QED
    BY <2>2, <2>5 DEF Numbers
<1>. QED
  BY <1>1, <1>3, <1>4 DEF ReceiptsTyped

\* A reference that follows an entry, or its receipt, is one still.
LEMMA SyncTyped ==
    ASSUME NEW ref \in Reference, NEW mail, EntriesTyped(mail),
           NEW gone, NEW first \in Nat, Numbers(gone, first), DOMAIN mail \cap DOMAIN gone = {}
    PROVE  Sync(ref, mail, gone) \in Reference
<1>1. CASE ref.kind = "internal_mailbox" /\ ref.id \in DOMAIN gone
  <2>1. PICK n : n = gone[ref.id]
    OBVIOUS
  <2>2. n \in Nat
    BY <1>1, <2>1 DEF Numbers
  <2>3. Sync(ref, mail, gone) = [ref EXCEPT !.kind = "internal_terminal", !.n = n]
    BY <1>1, <2>1 DEF Sync
  <2>. QED
    BY <2>1, <2>2, <2>3 DEF Reference
<1>2. CASE ref.kind = "internal_mailbox" /\ ref.id \notin DOMAIN gone /\ ref.id \in DOMAIN mail
  <2>1. PICK n : n = mail[ref.id].queue
    OBVIOUS
  <2>2. n \in Nat
    BY <1>2, <2>1 DEF EntriesTyped, Entry
  <2>3. Sync(ref, mail, gone) = [ref EXCEPT !.n = n]
    BY <1>2, <2>1 DEF Sync
  <2>. QED
    BY <2>2, <2>3 DEF Reference
<1>3. CASE ~(ref.kind = "internal_mailbox" /\ ref.id \in DOMAIN gone \cup DOMAIN mail)
  <2>1. Sync(ref, mail, gone) = ref
    BY <1>3 DEF Sync
  <2>. QED
    BY <2>1
<1>. QED
  BY <1>1, <1>2, <1>3

\* Following queue sequences changes only references, and to references.
LEMMA SynchronizedTyped ==
    ASSUME NEW receipts, ReceiptsTyped(receipts), NEW mail, EntriesTyped(mail),
           NEW gone, NEW first \in Nat, Numbers(gone, first), DOMAIN mail \cap DOMAIN gone = {}
    PROVE  LET after == Synchronized(receipts, mail, gone)
           IN ReceiptsTyped(after) /\ DOMAIN after = DOMAIN receipts /\ Retains(receipts, after)
<1>1. PICK after : after = Synchronized(receipts, mail, gone)
  OBVIOUS
<1>2. DOMAIN after = DOMAIN receipts
  BY <1>1, Zenon DEF Synchronized
<1>3. ASSUME NEW s \in DOMAIN receipts
      PROVE  s \in Nat /\ ReceiptTyped(after[s]) /\ SaysSame(after[s], receipts[s])
  <2>1. PICK x : x = receipts[s]
    OBVIOUS
  <2>2. s \in Nat /\ ReceiptTyped(x)
    BY <1>3, <2>1 DEF ReceiptsTyped
  <2>3. PICK refs : refs = {Sync(ref, mail, gone) : ref \in x.refs}
    OBVIOUS
  <2>4. refs \subseteq Reference
    <3>1. \A ref \in x.refs : Sync(ref, mail, gone) \in Reference
      BY <2>2, SyncTyped DEF ReceiptTyped
    <3>. QED
      BY <2>3, <3>1
  <2>5. after[s] = [x EXCEPT !.refs = {Sync(ref, mail, gone) : ref \in @}]
    BY <1>1, <1>3, <2>1, Zenon DEF Synchronized
  <2>6. after[s] = [x EXCEPT !.refs = refs]
    BY <2>2, <2>3, <2>5 DEF ReceiptTyped, IsReceipt, ReceiptFields
  <2>7. PICK y : y = after[s]
    OBVIOUS
  <2>8. ReceiptTyped(y) /\ SaysSame(y, x)
    BY <2>2, <2>4, <2>6, <2>7 DEF ReceiptTyped, IsReceipt, ReceiptFields, SaysSame
  <2>. QED
    BY <2>1, <2>2, <2>7, <2>8
<1>. QED
  BY <1>1, <1>2, <1>3 DEF ReceiptsTyped, Retains

\* The shape of a checkpoint but for the order of its root and first receipt.
Typed(c) ==
    /\ Shaped(c)
    /\ c.root \in {"none", "retained", "tombstone"}
    /\ c.rt \in [Runtimes -> Status]
    /\ c.mode \in {"permanent", "bounded"} /\ (c.mode = "permanent" => c.cutoff = None)
    /\ c.revision \in Nat \cup {-1} /\ c.cutoff \in Nat \cup {None}
    /\ c.next \in Nat /\ c.nextAcc \in Nat /\ c.nextQueue \in Nat /\ c.nextFx \in Nat
    /\ EntriesTyped(c.mail)
    /\ ReceiptsTyped(c.receipts)
    /\ \A e \in DOMAIN c.tombstones : c.tombstones[e].body \in Bodies

\* d comes of c by an operation that writes receipts and removes none.
Records(c, d) ==
    /\ Typed(d) /\ Retains(c.receipts, d.receipts) /\ d.next >= c.next
    /\ d.mode = c.mode /\ d.cutoff = c.cutoff /\ d.tombstones = c.tombstones

\* The empty record is one.
LEMMA BlankTyped == Typed(Blank) /\ Below(Blank) /\ Blank.next = 0
<1>1. PICK m : m = Blank.mail
  OBVIOUS
<1>2. DOMAIN m = {} /\ Blank.receipts = m /\ Blank.tombstones = m
  BY <1>1 DEF Blank
<1>3. IsFiniteSet(DOMAIN m)
  BY <1>2, FS_EmptySet
<1>4. EntriesTyped(m) /\ ReceiptsTyped(m)
  BY <1>2, <1>3 DEF EntriesTyped, ReceiptsTyped
<1>5. /\ Blank.root = "none" /\ Blank.mode = "permanent" /\ Blank.cutoff = None
      /\ Blank.revision = -1 /\ Blank.next = 0 /\ Blank.nextAcc = 0 /\ Blank.nextQueue = 0
      /\ Blank.nextFx = 0 /\ Blank.rt \in [Runtimes -> Status]
  BY DEF Blank, Status
<1>. QED
  BY <1>1, <1>2, <1>4, <1>5, BlankShaped DEF Typed, Below, None

\* A new revision is one more.
LEMMA MutatedTyped ==
    ASSUME NEW c, Typed(c), Below(c)
    PROVE  LET d == Mutated(c)
           IN /\ Records(c, d) /\ Below(d) /\ d.revision = c.revision + 1
              /\ d.mail = c.mail /\ d.receipts = c.receipts /\ d.next = c.next
              /\ d.nextAcc = c.nextAcc /\ d.nextQueue = c.nextQueue /\ d.root = c.root
<1>1. PICK d : d = Mutated(c)
  OBVIOUS
<1>2. /\ d.root = c.root /\ d.rt = c.rt /\ d.mode = c.mode /\ d.cutoff = c.cutoff
      /\ d.revision = c.revision + 1 /\ d.next = c.next /\ d.nextAcc = c.nextAcc
      /\ d.nextQueue = c.nextQueue /\ d.nextFx = c.nextFx /\ d.mail = c.mail
      /\ d.receipts = c.receipts /\ d.tombstones = c.tombstones /\ Shaped(d)
  BY <1>1 DEF Mutated, Typed, Shaped, Fields
<1>3. d.revision \in Nat \cup {-1} /\ d.next >= c.next
  BY <1>2 DEF Typed
<1>4. Retains(c.receipts, d.receipts)
  BY <1>2 DEF Retains, SaysSame
<1>5. Typed(d) /\ Below(d)
  BY <1>2, <1>3 DEF Typed, Below
<1>. QED
  BY <1>1, <1>2, <1>3, <1>4, <1>5 DEF Records

\* Merged receipts are receipts, and new ones leave those that were there.
LEMMA MergedTyped ==
    ASSUME NEW f, NEW g, ReceiptsTyped(f), ReceiptsTyped(g)
    PROVE  LET h == Merge(f, g)
           IN /\ ReceiptsTyped(h) /\ DOMAIN h = DOMAIN f \cup DOMAIN g
              /\ DOMAIN f \cap DOMAIN g = {} => Retains(g, h)
<1>1. PICK h : h = Merge(f, g)
  OBVIOUS
<1>2. DOMAIN h = DOMAIN f \cup DOMAIN g
  BY <1>1 DEF Merge
<1>3. \A s \in DOMAIN f : h[s] = f[s]
  BY <1>1 DEF Merge
<1>4. \A s \in DOMAIN g : s \notin DOMAIN f => h[s] = g[s]
  BY <1>1 DEF Merge
<1>5. ReceiptsTyped(h)
  BY <1>2, <1>3, <1>4 DEF ReceiptsTyped
<1>6. DOMAIN f \cap DOMAIN g = {} => Retains(g, h)
  BY <1>2, <1>4 DEF Retains, SaysSame
<1>. QED
  BY <1>1, <1>2, <1>5, <1>6

\* Retaining is transitive.
LEMMA RetainsAgain ==
    ASSUME NEW f, NEW g, NEW h, Retains(f, g), Retains(g, h)
    PROVE  Retains(f, h)
  BY DEF Retains, SaysSame

\* Mailboxes less some entries are mailboxes.
LEMMA RestrictTyped ==
    ASSUME NEW mail, EntriesTyped(mail), NEW D, D \subseteq DOMAIN mail
    PROVE  EntriesTyped(Restrict(mail, D)) /\ DOMAIN Restrict(mail, D) = D
<1>1. PICK kept : kept = Restrict(mail, D)
  OBVIOUS
<1>2. DOMAIN kept = D /\ \A e \in D : kept[e] = mail[e]
  BY <1>1 DEF Restrict
<1>3. IsFiniteSet(D)
  BY FS_Subset DEF EntriesTyped
<1>. QED
  BY <1>1, <1>2, <1>3 DEF EntriesTyped

\* Closing entries records: it writes new receipts and removes none.
LEMMA ClosedTyped ==
    ASSUME NEW c, Typed(c), Below(c), NEW mail, EntriesTyped(mail),
           NEW gone, DOMAIN gone \subseteq DOMAIN mail, Numbers(gone, c.next),
           NEW own, ReceiptsTyped(own), IsFiniteSet(DOMAIN own), \A s \in DOMAIN own : s >= c.next
    PROVE  LET d == Closed(c, mail, gone, own)
           IN /\ Records(c, d) /\ (DOMAIN own # {} => d.next > c.next)
              /\ d.root = c.root /\ d.rt = c.rt /\ d.revision = c.revision
              /\ d.nextAcc = c.nextAcc /\ d.nextQueue = c.nextQueue
<1>1. PICK kept : kept = Restrict(mail, DOMAIN mail \ DOMAIN gone)
  OBVIOUS
<1>2. PICK terminal : terminal = TerminalReceipts(mail, gone, c.revision)
  OBVIOUS
<1>3. PICK added : added = Merge(own, terminal)
  OBVIOUS
<1>4. PICK merged : merged = Merge(added, c.receipts)
  OBVIOUS
<1>5. PICK after : after = Synchronized(merged, kept, gone)
  OBVIOUS
<1>6. PICK n : n = Cardinality(DOMAIN added)
  OBVIOUS
<1>7. EntriesTyped(kept) /\ DOMAIN kept \cap DOMAIN gone = {}
  BY <1>1, RestrictTyped
<1>8. /\ ReceiptsTyped(terminal) /\ IsFiniteSet(DOMAIN terminal)
      /\ \A s \in DOMAIN terminal : s >= c.next
  BY <1>2, TerminalReceiptsTyped DEF Typed
<1>9. ReceiptsTyped(added) /\ DOMAIN added = DOMAIN own \cup DOMAIN terminal
  BY <1>3, <1>8, MergedTyped
<1>10. DOMAIN added \cap DOMAIN c.receipts = {}
  <2>1. \A s \in DOMAIN added : s \in Nat /\ s >= c.next
    BY <1>8, <1>9 DEF ReceiptsTyped
  <2>2. \A s \in DOMAIN c.receipts : s \in Nat /\ s < c.next
    BY DEF Below, Typed, ReceiptsTyped
  <2>3. c.next \in Nat
    BY DEF Typed
  <2>. QED
    BY <2>1, <2>2, <2>3
<1>11. ReceiptsTyped(merged) /\ Retains(c.receipts, merged)
  BY <1>4, <1>9, <1>10, MergedTyped DEF Typed
<1>12. ReceiptsTyped(after) /\ Retains(merged, after)
  BY <1>5, <1>7, <1>11, SynchronizedTyped DEF Typed
<1>13. Retains(c.receipts, after)
  BY <1>11, <1>12, RetainsAgain
<1>14. n \in Nat /\ (DOMAIN own # {} => n > 0)
  <2>1. IsFiniteSet(DOMAIN added)
    BY <1>8, <1>9, FS_Union
  <2>2. n \in Nat /\ (n = 0 <=> DOMAIN added = {})
    BY <1>6, <2>1, FS_CardinalityType, FS_EmptySet
  <2>. QED
    BY <1>9, <2>2
<1>15. PICK d : d = Closed(c, mail, gone, own)
  OBVIOUS
<1>16. d = [c EXCEPT !.mail = kept, !.receipts = after, !.next = c.next + n]
  <2>1. c.receipts = c.receipts /\ Shaped(c)
    BY DEF Typed
  <2>2. d = [c EXCEPT !.mail = kept,
                      !.receipts = Synchronized(Merge(added, @), kept, gone),
                      !.next = @ + n]
    BY <1>1, <1>2, <1>3, <1>6, <1>15, Zenon DEF Closed
  <2>. QED
    BY <1>4, <1>5, <2>1, <2>2 DEF Shaped, Fields
<1>17. /\ d.root = c.root /\ d.rt = c.rt /\ d.mode = c.mode /\ d.cutoff = c.cutoff
       /\ d.revision = c.revision /\ d.next = c.next + n /\ d.nextAcc = c.nextAcc
       /\ d.nextQueue = c.nextQueue /\ d.nextFx = c.nextFx /\ d.mail = kept
       /\ d.receipts = after /\ d.tombstones = c.tombstones /\ Shaped(d)
  BY <1>16 DEF Typed, Shaped, Fields
<1>18. d.next \in Nat /\ d.next >= c.next /\ (DOMAIN own # {} => d.next > c.next)
  BY <1>14, <1>17 DEF Typed
<1>19. Typed(d)
  BY <1>7, <1>12, <1>17, <1>18 DEF Typed
<1>. QED
  BY <1>13, <1>15, <1>17, <1>18, <1>19 DEF Records

\* Merged mailboxes are mailboxes.
LEMMA MergedEntries ==
    ASSUME NEW f, NEW g, EntriesTyped(f), EntriesTyped(g)
    PROVE  LET h == Merge(f, g)
           IN EntriesTyped(h) /\ DOMAIN h = DOMAIN f \cup DOMAIN g
<1>1. PICK h : h = Merge(f, g)
  OBVIOUS
<1>2. DOMAIN h = DOMAIN f \cup DOMAIN g
  BY <1>1 DEF Merge
<1>3. \A e \in DOMAIN h : (e \in DOMAIN f => h[e] = f[e]) /\ (e \notin DOMAIN f => h[e] = g[e])
  BY <1>1 DEF Merge
<1>4. IsFiniteSet(DOMAIN h)
  BY <1>2, FS_Union DEF EntriesTyped
<1>. QED
  BY <1>1, <1>2, <1>3, <1>4 DEF EntriesTyped

\* Recalled entries are entries.
LEMMA RenumberedTyped ==
    ASSUME NEW mail, EntriesTyped(mail), NEW S, S \subseteq DOMAIN mail, NEW first \in Nat
    PROVE  EntriesTyped(Renumbered(mail, S, first)) /\ DOMAIN Renumbered(mail, S, first) = S
<1>1. PICK new : new = Renumbered(mail, S, first)
  OBVIOUS
<1>2. DOMAIN new = S
  BY <1>1 DEF Renumbered
<1>3. IsFiniteSet(S)
  BY FS_Subset DEF EntriesTyped
<1>4. ASSUME NEW e \in S
      PROVE  e \in Ids /\ new[e] \in Entry
  <2>1. PICK D : D = {d \in S : mail[d].queue < mail[e].queue}
    OBVIOUS
  <2>2. PICK n : n = first + Cardinality(D)
    OBVIOUS
  <2>3. D \in SUBSET S
    BY <2>1
  <2>4. n \in Nat
    BY <1>3, <2>2, <2>3, FS_Subset, FS_CardinalityType
  <2>5. PICK x : x = mail[e]
    OBVIOUS
  <2>6. x \in Entry /\ e \in Ids
    BY <2>5 DEF EntriesTyped
  <2>7. new[e] = [x EXCEPT !.place = "ready", !.queue = n]
    BY <1>1, <1>4, <2>1, <2>2, <2>5, Zenon DEF Renumbered
  <2>. QED
    BY <2>4, <2>6, <2>7 DEF Entry
<1>. QED
  BY <1>1, <1>2, <1>3, <1>4 DEF EntriesTyped

\* The entries of a step's emissions.
Emission(first, ems, acc, queue) ==
    [id \in {first} \X (1 .. Len(ems)) |->
       [body |-> ems[id[2]], acc |-> acc + id[2] - 1, queue |-> queue + id[2] - 1,
        place |-> "ready"]]

\* Emissions are entries, under ids derived from the step.
LEMMA EmittedTyped ==
    ASSUME NEW first \in Nat, NEW ems \in Seq(Internal), NEW acc \in Nat, NEW queue \in Nat
    PROVE  LET emitted == Emission(first, ems, acc, queue)
           IN EntriesTyped(emitted) /\ DOMAIN emitted \subseteq Nat \X Nat
<1>0. PICK emitted : emitted = Emission(first, ems, acc, queue)
  OBVIOUS
<1>1. PICK D : D = {first} \X (1 .. Len(ems))
  OBVIOUS
<1>2. IsFiniteSet(D)
  <2>1. IsFiniteSet({first})
    BY FS_Singleton
  <2>2. Len(ems) \in Int /\ 1 \in Int
    OBVIOUS
  <2>3. IsFiniteSet(1 .. Len(ems))
    BY <2>2, FS_Interval
  <2>. QED
    BY <1>1, <2>1, <2>3, FS_Product
<1>3. DOMAIN emitted = D
  BY <1>0, <1>1 DEF Emission
<1>4. ASSUME NEW id \in D
      PROVE  id \in Ids /\ emitted[id] \in Entry
  <2>1. PICK i \in 1 .. Len(ems) : id = <<first, i>>
    BY <1>1, <1>4
  <2>2. PICK b : b = ems[i]
    OBVIOUS
  <2>3. b \in Bodies
    BY <2>2, CheckpointAssumption
  <2>4. i \in Nat /\ acc + i - 1 \in Nat /\ queue + i - 1 \in Nat /\ id \in Nat \X Nat
    BY <2>1
  <2>5. emitted[id] = [body |-> b, acc |-> acc + i - 1, queue |-> queue + i - 1,
                       place |-> "ready"]
    BY <1>0, <1>1, <1>4, <2>1, <2>2 DEF Emission
  <2>6. emitted[id] \in Entry
    BY <2>3, <2>4, <2>5 DEF Entry
  <2>. QED
    BY <2>4, <2>6 DEF Ids
<1>5. D \subseteq Nat \X Nat
  BY <1>1
<1>. QED
  BY <1>0, <1>2, <1>3, <1>4, <1>5 DEF EntriesTyped

\* Taking over the aggregate changes no receipt.
LEMMA SteppedTyped ==
    ASSUME NEW c, Typed(c), NEW rt \in [Runtimes -> Status],
           NEW sent \in Nat, NEW recalled \in Nat, NEW effects
    PROVE  LET d == Stepped(c, rt, sent, recalled, effects)
           IN Records(c, d) /\ d.next = c.next /\ d.root = "retained" /\ d.receipts = c.receipts
<1>1. PICK d : d = Stepped(c, rt, sent, recalled, effects)
  OBVIOUS
<1>2. /\ d.root = "retained" /\ d.rt = rt /\ d.mode = c.mode /\ d.cutoff = c.cutoff
      /\ d.revision = c.revision /\ d.next = c.next /\ d.nextAcc = c.nextAcc + sent
      /\ d.nextQueue = c.nextQueue + sent + recalled /\ d.nextFx = c.nextFx
      /\ d.mail = c.mail /\ d.receipts = c.receipts /\ d.tombstones = c.tombstones /\ Shaped(d)
  BY <1>1 DEF Stepped, Typed, Shaped, Fields
<1>3. d.nextAcc \in Nat /\ d.nextQueue \in Nat /\ d.next >= c.next
  BY <1>2 DEF Typed
<1>4. Retains(c.receipts, d.receipts)
  BY <1>2 DEF Retains, SaysSame
<1>5. Typed(d)
  BY <1>2, <1>3 DEF Typed
<1>. QED
  BY <1>1, <1>2, <1>3, <1>4, <1>5 DEF Records

\* Recording is transitive.
LEMMA RecordsAgain ==
    ASSUME NEW b, NEW c, NEW d, Typed(b), Records(b, c), Records(c, d)
    PROVE  Records(b, d)
<1>1. Retains(b.receipts, d.receipts)
  BY RetainsAgain DEF Records
<1>2. d.next >= b.next
  BY DEF Records, Typed
<1>. QED
  BY <1>1, <1>2 DEF Records

\* The receipt a dispatch writes of itself is one.
LEMMA OwnTyped ==
    ASSUME NEW kind \in Kinds, NEW id, NEW entry, entry.body \in Bodies, NEW rev,
           NEW refs, refs \subseteq Reference, NEW effects
    PROVE  ReceiptTyped([Receipt(kind, id, entry, rev) EXCEPT !.refs = refs, !.effects = effects])
  BY DEF Receipt, ReceiptTyped, IsReceipt, ReceiptFields

\* A creation or a step writes receipts and removes none.
LEMMA DispatchedTyped ==
    ASSUME NEW c, Typed(c), Below(c), NEW head, head \subseteq DOMAIN c.mail,
           NEW rt \in [Runtimes -> Status],
           NEW ems \in Seq(Internal), NEW S, S \subseteq DOMAIN c.mail, NEW fx
    PROVE  LET d == Dispatched(c, head, rt, ems, S, fx)
           IN Records(c, d) /\ d.next > c.next /\ d.root = "retained"
<1>. DEFINE emitted == Emission(c.next, ems, c.nextAcc, c.nextQueue)
            recalled == Renumbered(c.mail, S, c.nextQueue + Len(ems))
            mail == Merge(emitted, Merge(recalled, c.mail))
            lost == {e \in DOMAIN mail \ head : Ended(rt, Target[mail[e].body])}
            numbered == Numbered(mail, lost, c.next + 1)
            gone == Merge([e \in head |-> c.next], numbered)
            base == IF head = {}
                    THEN Receipt("creation", Nobody, [body |-> Failure, acc |-> 0, queue |-> 0],
                                 c.revision + 1)
                    ELSE LET h == CHOOSE e \in head : TRUE
                         IN Receipt("event_terminal", h, c.mail[h], c.revision + 1)
            refs == {[id |-> e, acc |-> mail[e].acc, kind |-> "internal_mailbox",
                      n |-> mail[e].queue] : e \in DOMAIN emitted}
            effects == IF fx THEN {c.next} ELSE {}
            x == [base EXCEPT !.refs = refs, !.effects = effects]
            own == [s \in {c.next} |-> x]
            new == [f \in x.effects |-> "not_attempted"]
<1>1. Dispatched(c, head, rt, ems, S, fx)
      = Stepped(Closed(Mutated(c), mail, gone, own), rt, Len(ems), Cardinality(S), new)
  BY Zenon DEF Dispatched, Emission
<1>. HIDE DEF effects, new
<1>2. PICK m : m = Mutated(c)
  OBVIOUS
<1>3. Records(c, m) /\ Below(m) /\ m.next = c.next
  BY <1>2, MutatedTyped
<1>4. /\ c.next \in Nat /\ c.nextAcc \in Nat /\ c.nextQueue \in Nat /\ EntriesTyped(c.mail)
      /\ Len(ems) \in Nat /\ c.nextQueue + Len(ems) \in Nat /\ c.next + 1 \in Nat
  BY DEF Typed
<1>5. EntriesTyped(emitted) /\ DOMAIN emitted \subseteq Nat \X Nat
  BY <1>4, EmittedTyped
<1>6. EntriesTyped(recalled) /\ DOMAIN recalled = S
  BY <1>4, RenumberedTyped
<1>. HIDE DEF emitted, recalled
<1>7. EntriesTyped(mail) /\ DOMAIN mail = DOMAIN emitted \cup DOMAIN c.mail
  <2>1. /\ EntriesTyped(Merge(recalled, c.mail))
        /\ DOMAIN Merge(recalled, c.mail) = S \cup DOMAIN c.mail
    BY <1>4, <1>6, MergedEntries
  <2>2. EntriesTyped(mail) /\ DOMAIN mail = DOMAIN emitted \cup (S \cup DOMAIN c.mail)
    BY <1>5, <2>1, MergedEntries
  <2>. QED
    BY <2>2
<1>. HIDE DEF mail
<1>8. lost \subseteq DOMAIN mail /\ lost \cap head = {}
  OBVIOUS
<1>. HIDE DEF lost
<1>9. IsFiniteSet(lost) /\ IsFiniteSet(head)
  <2>1. lost \in SUBSET DOMAIN mail /\ head \in SUBSET DOMAIN c.mail
    BY <1>8
  <2>. QED
    BY <1>4, <1>7, <2>1, FS_Subset DEF EntriesTyped
<1>10. DOMAIN numbered = lost /\ Numbers(numbered, c.next + 1)
  BY <1>4, <1>9, NumberedFacts
<1>. HIDE DEF numbered
<1>11. DOMAIN gone \subseteq DOMAIN mail /\ Numbers(gone, m.next)
  <2>1. DOMAIN gone = head \cup lost
    BY <1>10 DEF Merge
  <2>2. IsFiniteSet(DOMAIN gone)
    BY <1>9, <2>1, FS_Union
  <2>3. \A e \in DOMAIN gone : gone[e] = c.next \/ (e \in lost /\ gone[e] = numbered[e])
    BY <1>10 DEF Merge
  <2>4. \A e \in DOMAIN gone : gone[e] \in Nat /\ gone[e] >= c.next
    BY <1>4, <1>10, <2>3 DEF Numbers
  <2>. QED
    BY <1>3, <1>7, <1>8, <2>1, <2>2, <2>4 DEF Numbers
<1>. HIDE DEF gone
<1>12. PICK kind, id, entry : /\ base = Receipt(kind, id, entry, c.revision + 1)
                              /\ kind \in Kinds /\ entry.body \in Bodies
  <2>1. CASE head = {}
    <3>1. PICK entry : entry = [body |-> Failure, acc |-> 0, queue |-> 0]
      OBVIOUS
    <3>2. entry.body \in Bodies
      BY <3>1, CheckpointAssumption
    <3>3. base = Receipt("creation", Nobody, entry, c.revision + 1)
      BY <2>1, <3>1
    <3>. QED
      BY <3>2, <3>3 DEF Kinds
  <2>2. CASE head # {}
    <3>1. PICK h : h = CHOOSE e \in head : TRUE
      OBVIOUS
    <3>2. h \in head
      BY <2>2, <3>1, Zenon
    <3>3. c.mail[h].body \in Bodies
      BY <1>4, <3>2 DEF EntriesTyped, Entry
    <3>4. base = Receipt("event_terminal", h, c.mail[h], c.revision + 1)
      BY <2>2, <3>1
    <3>. QED
      BY <3>3, <3>4 DEF Kinds
  <2>. QED
    BY <2>1, <2>2
<1>. HIDE DEF base
<1>13. refs \subseteq Reference
  <2>1. \A e \in DOMAIN emitted :
           e \in Nat \X Nat /\ mail[e].acc \in Nat /\ mail[e].queue \in Nat
    BY <1>5, <1>7 DEF EntriesTyped, Entry
  <2>. QED
    BY <2>1 DEF Reference
<1>. HIDE DEF refs
<1>14. ReceiptTyped(x)
  BY <1>12, <1>13, OwnTyped
<1>. HIDE DEF x
<1>15. /\ ReceiptsTyped(own) /\ IsFiniteSet(DOMAIN own) /\ DOMAIN own # {}
       /\ \A s \in DOMAIN own : s >= m.next
  <2>1. DOMAIN own = {c.next} /\ \A s \in DOMAIN own : own[s] = x
    OBVIOUS
  <2>2. IsFiniteSet(DOMAIN own)
    BY <2>1, FS_Singleton
  <2>. QED
    BY <1>3, <1>4, <1>14, <2>1, <2>2 DEF ReceiptsTyped
<1>. HIDE DEF own
<1>16. PICK e : e = Closed(m, mail, gone, own)
  OBVIOUS
<1>17. Records(m, e) /\ e.next > m.next
  BY <1>3, <1>7, <1>11, <1>15, <1>16, ClosedTyped DEF Records
<1>18. Cardinality(S) \in Nat
  BY <1>6, FS_CardinalityType DEF EntriesTyped
<1>19. PICK d : d = Stepped(e, rt, Len(ems), Cardinality(S), new)
  OBVIOUS
<1>20. Records(e, d) /\ d.next = e.next /\ d.root = "retained"
  BY <1>4, <1>17, <1>18, <1>19, SteppedTyped DEF Records
<1>21. Records(c, d)
  BY <1>3, <1>17, <1>20, RecordsAgain DEF Records
<1>. QED
  BY <1>1, <1>2, <1>3, <1>16, <1>17, <1>19, <1>20, <1>21

\* A deferral writes no receipt and keeps them all.
LEMMA DeferredTyped ==
    ASSUME NEW c, Typed(c), Below(c), NEW h \in DOMAIN c.mail
    PROVE  Records(c, Deferred(c, h))
<1>1. PICK m : m = Mutated(c)
  OBVIOUS
<1>2. Records(c, m) /\ Below(m) /\ m.next = c.next /\ m.nextQueue = c.nextQueue
  BY <1>1, MutatedTyped
<1>3. PICK mail : mail = [c.mail EXCEPT ![h].place = "deferred", ![h].queue = c.nextQueue]
  OBVIOUS
<1>4. EntriesTyped(mail)
  <2>1. EntriesTyped(c.mail) /\ c.nextQueue \in Nat
    BY DEF Typed
  <2>2. DOMAIN mail = DOMAIN c.mail
    BY <1>3
  <2>3. \A e \in DOMAIN c.mail : mail[e] \in Entry
    BY <1>3, <2>1 DEF EntriesTyped, Entry
  <2>. QED
    BY <2>1, <2>2, <2>3 DEF EntriesTyped
<1>5. PICK none : none = <<>>
  OBVIOUS
<1>6. DOMAIN none = {}
  BY <1>5
<1>7. /\ Numbers(none, m.next) /\ DOMAIN none \subseteq DOMAIN mail /\ ReceiptsTyped(none)
      /\ IsFiniteSet(DOMAIN none)
  BY <1>6, FS_EmptySet DEF Numbers, ReceiptsTyped
<1>8. PICK e : e = Closed(m, mail, none, none)
  OBVIOUS
<1>9. Records(m, e)
  BY <1>2, <1>4, <1>6, <1>7, <1>8, ClosedTyped DEF Records
<1>10. PICK d : d = [e EXCEPT !.nextQueue = @ + 1]
  OBVIOUS
<1>11. /\ d.root = e.root /\ d.rt = e.rt /\ d.mode = e.mode /\ d.cutoff = e.cutoff
       /\ d.revision = e.revision /\ d.next = e.next /\ d.nextAcc = e.nextAcc
       /\ d.nextQueue = e.nextQueue + 1 /\ d.nextFx = e.nextFx /\ d.mail = e.mail
       /\ d.receipts = e.receipts /\ d.tombstones = e.tombstones /\ Shaped(d)
  BY <1>9, <1>10 DEF Records, Typed, Shaped, Fields
<1>12. Records(e, d)
  <2>1. d.nextQueue \in Nat /\ d.next >= e.next
    BY <1>9, <1>11 DEF Records, Typed
  <2>2. Retains(e.receipts, d.receipts)
    BY <1>11 DEF Retains, SaysSame
  <2>3. Typed(d)
    BY <1>9, <1>11, <2>1 DEF Records, Typed
  <2>. QED
    BY <1>11, <2>1, <2>2, <2>3 DEF Records
<1>13. d = Deferred(c, h)
  BY Zenon, <1>1, <1>3, <1>5, <1>8, <1>10 DEF Deferred
<1>. QED
  BY <1>2, <1>9, <1>12, <1>13, RecordsAgain DEF Records

\* A runtime that has ready entries has a head.
LEMMA HeadWaits ==
    ASSUME NEW c, Typed(c), NEW r, Waiting(c, r, "ready") # {}
    PROVE  ReadyHead(c, r) \in Waiting(c, r, "ready") /\ ReadyHead(c, r) \in DOMAIN c.mail
<1>1. PICK W : W = Waiting(c, r, "ready")
  OBVIOUS
<1>2. W \subseteq DOMAIN c.mail
  BY <1>1 DEF Waiting
<1>3. PICK Q : Q = {c.mail[e].queue : e \in W}
  OBVIOUS
<1>4. Q \subseteq Nat /\ Q # {}
  BY <1>1, <1>2, <1>3 DEF Typed, EntriesTyped, Entry
<1>5. PICK q \in Q : \A n \in Q : q <= n
  BY <1>4, LeastNumber
<1>6. PICK e \in W : c.mail[e].queue = q
  BY <1>3, <1>5
<1>7. \A d \in W : c.mail[e].queue <= c.mail[d].queue
  BY <1>3, <1>5, <1>6
<1>8. ReadyHead(c, r) = CHOOSE x \in W : \A d \in W : c.mail[x].queue <= c.mail[d].queue
  BY <1>1 DEF ReadyHead
<1>9. ReadyHead(c, r) \in W
  BY <1>6, <1>7, <1>8, Zenon
<1>. QED
  BY <1>1, <1>2, <1>9

\* A handler leaves every runtime with a status.
LEMMA EndingsTyped ==
    ASSUME NEW c, Typed(c), NEW r, NEW rt \in Endings(c, r)
    PROVE  rt \in [Runtimes -> Status]
<1>1. c.rt \in [Runtimes -> Status]
  BY DEF Typed
<1>. QED
  BY <1>1 DEF Endings, RootAlone, Status

\* An emission is a sequence of internal bodies, of senders or the system.
LEMMA EmissionsTyped ==
    ASSUME NEW senders, NEW ems \in Emissions(senders)
    PROVE  ems \in Seq(Internal) /\ \A i \in DOMAIN ems : Source[ems[i]] \in senders \cup {System}
<1>1. BoundedSeq(Internal, MaxSend) = UNION {[1 .. m -> Internal] : m \in 0 .. MaxSend}
  BY Zenon DEF BoundedSeq, SeqOf
<1>2. ems \in BoundedSeq(Internal, MaxSend)
  BY DEF Emissions
<1>3. PICK m \in 0 .. MaxSend : ems \in [1 .. m -> Internal]
  BY <1>1, <1>2
<1>4. ems \in Seq(Internal)
  BY <1>3
<1>. QED
  BY <1>4 DEF Emissions

\* What is emitted comes from r, from runtimes that c still has, or from the system.
SentFrom(c, r, ems) ==
    \A i \in DOMAIN ems :
       Source[ems[i]] \in Runtimes => Source[ems[i]] = r \/ c.rt[Source[ems[i]]] # "removed"

\* d is what dispatching the head h of r makes of c.
DispatchesHead(c, r, h, d) ==
    \E S \in SUBSET (DOMAIN c.mail \ {h}), rt \in [Runtimes -> Status],
       ems \in Seq(Internal), fx \in BOOLEAN :
          SentFrom(c, r, ems) /\ d = Dispatched(c, {h}, rt, ems, S, fx)

\* The arguments of a dispatch by a step.
LEMMA StepArguments ==
    ASSUME NEW c, Typed(c), NEW r, Waiting(c, r, "ready") # {}, NEW d \in Steps(c, r)
    PROVE  \E h \in DOMAIN c.mail : d = Deferred(c, h) \/ DispatchesHead(c, r, h, d)
<1>1. PICK h : h = ReadyHead(c, r)
  OBVIOUS
<1>. DEFINE Statuses == [Runtimes -> Status]
            Dispatch == \E S \in SUBSET (DOMAIN c.mail \ {h}),
                           rt \in Statuses, ems \in Seq(Internal), fx \in BOOLEAN :
                              SentFrom(c, r, ems) /\ d = Dispatched(c, {h}, rt, ems, S, fx)
<1>2. /\ h \in DOMAIN c.mail /\ h \in Waiting(c, r, "ready")
      /\ {} \in SUBSET (DOMAIN c.mail \ {h})
  BY <1>1, HeadWaits
<1>3. c.rt \in Statuses /\ FALSE \in BOOLEAN
  BY DEF Typed
<1>4. d \in {Deferred(c, h), Unhandled(c, h), Faulted(c, r, h)} \cup Handled(c, r, h)
  BY Zenon, <1>1 DEF Steps
<1>5. <<>> \in Seq(Internal) /\ <<Failure>> \in Seq(Internal)
  BY CheckpointAssumption
<1>6. ASSUME d = Unhandled(c, h) PROVE Dispatch
  <2>1. PICK none : none = <<>>
    OBVIOUS
  <2>2. d = Dispatched(c, {h}, c.rt, none, {}, FALSE)
    BY <1>6, <2>1, Zenon DEF Unhandled
  <2>. HIDE DEF Statuses
  <2>3. none \in Seq(Internal) /\ SentFrom(c, r, none)
    BY <1>5, <2>1 DEF SentFrom
  <2>. QED
    BY <1>2, <1>3, <2>2, <2>3, Zenon
<1>7. ASSUME d = Faulted(c, r, h) PROVE Dispatch
  <2>1. PICK ems : ems = IF r = Root THEN <<>> ELSE <<Failure>>
    OBVIOUS
  <2>2. PICK rt : rt = [c.rt EXCEPT ![r] = "faulted"]
    OBVIOUS
  <2>3. d = Dispatched(c, {h}, rt, ems, {}, FALSE)
    BY <1>7, <2>1, <2>2, Zenon DEF Faulted
  <2>4. rt \in Statuses
    BY <1>3, <2>2 DEF Status
  <2>5. ems \in Seq(Internal)
    BY <1>5, <2>1
  <2>6. SentFrom(c, r, ems)
    BY <2>1, CheckpointAssumption DEF SentFrom
  <2>. HIDE DEF Statuses
  <2>. QED
    BY <1>2, <1>3, <2>3, <2>4, <2>5, <2>6, Zenon
<1>8. ASSUME d \in Handled(c, r, h) PROVE Dispatch
  <2>0. PICK rt \in Endings(c, r) :
           \E ems \in Emissions(Senders(c, r, rt)), fx \in BOOLEAN,
              S \in SUBSET Waiting(c, r, "deferred") : d = Dispatched(c, {h}, rt, ems, S, fx)
    <3>1. HandledBy(c, r, h, d)
      BY <1>8, HandledArguments, Zenon
    <3>. QED
      BY <3>1, Zenon DEF HandledBy
  <2>1. PICK ems \in Emissions(Senders(c, r, rt)), fx \in BOOLEAN,
             S \in SUBSET Waiting(c, r, "deferred") : d = Dispatched(c, {h}, rt, ems, S, fx)
    BY <2>0, Zenon
  <2>2. Waiting(c, r, "deferred") \subseteq DOMAIN c.mail \ {h}
    BY <1>2 DEF Waiting
  <2>3. S \in SUBSET (DOMAIN c.mail \ {h})
    BY <2>1, <2>2
  <2>4. rt \in Statuses
    BY EndingsTyped
  <2>5. ems \in Seq(Internal) /\ \A i \in DOMAIN ems : Source[ems[i]] \in Senders(c, r, rt) \cup {System}
    BY EmissionsTyped
  <2>6. SentFrom(c, r, ems)
    BY <2>5, CheckpointAssumption DEF SentFrom, Senders
  <2>. HIDE DEF Statuses
  <2>. QED
    BY <1>2, <2>1, <2>3, <2>4, <2>5, <2>6, Zenon
<1>9. \/ d = Deferred(c, h) \/ d = Unhandled(c, h)
      \/ d = Faulted(c, r, h) \/ d \in Handled(c, r, h)
  BY <1>4
<1>. HIDE DEF Dispatch
<1>10. Dispatch \/ d = Deferred(c, h)
  BY <1>6, <1>7, <1>8, <1>9, Zenon
<1>11. DispatchesHead(c, r, h, d) \/ d = Deferred(c, h)
  BY <1>10, Zenon DEF Dispatch, DispatchesHead
<1>. QED
  BY <1>2, <1>11

\* Whatever a step does, it writes receipts and removes none.
LEMMA StepsTyped ==
    ASSUME NEW c, Typed(c), Below(c), NEW r, Waiting(c, r, "ready") # {}, NEW d \in Steps(c, r)
    PROVE  Records(c, d)
<1>1. PICK h \in DOMAIN c.mail : d = Deferred(c, h) \/ DispatchesHead(c, r, h, d)
  BY StepArguments
<1>2. CASE d = Deferred(c, h)
  BY <1>2, DeferredTyped
<1>3. CASE DispatchesHead(c, r, h, d)
  <2>1. PICK S \in SUBSET (DOMAIN c.mail \ {h}),
             rt \in [Runtimes -> Status],
             ems \in Seq(Internal), fx \in BOOLEAN : d = Dispatched(c, {h}, rt, ems, S, fx)
    BY <1>3, Zenon DEF DispatchesHead
  <2>2. {h} \subseteq DOMAIN c.mail /\ S \subseteq DOMAIN c.mail
    OBVIOUS
  <2>. QED
    BY <2>1, <2>2, DispatchedTyped
<1>. QED
  BY <1>1, <1>2, <1>3

\* The arguments of a creation.
LEMMA CreationArguments ==
    ASSUME NEW d \in Creations
    PROVE  \E rt \in [Runtimes -> Status],
              ems \in Seq(Internal), fx \in BOOLEAN : d = Dispatched(Blank, {}, rt, ems, {}, fx)
<1>1. d \in Initialised
  BY DEF Creations
<1>2. PICK rt \in [Runtimes -> Status], ems \in Emissions(Runtimes) \cup {<<>>}, fx \in BOOLEAN :
             d = Dispatched(Blank, {}, rt, ems, {}, fx)
  BY <1>1, InitialisedArguments, Zenon DEF InitialisedBy
<1>3. ems \in Emissions(Runtimes) => ems \in Seq(Internal)
  BY EmissionsTyped
<1>4. ems = <<>> => ems \in Seq(Internal)
  OBVIOUS
<1>5. ems \in Seq(Internal)
  BY <1>2, <1>3, <1>4
<1>. QED
  BY <1>2, <1>5, Zenon

\* A created root has its first receipt.
LEMMA CreationsTyped ==
    ASSUME NEW d \in Creations
    PROVE  Typed(d) /\ d.next > 0 /\ d.mode = "permanent" /\ d.root = "retained"
<1>1. PICK rt \in [Runtimes -> Status], ems \in Seq(Internal),
           fx \in BOOLEAN : d = Dispatched(Blank, {}, rt, ems, {}, fx)
  BY CreationArguments
<1>2. PICK none : none = {}
  OBVIOUS
<1>3. none \subseteq DOMAIN Blank.mail /\ d = Dispatched(Blank, none, rt, ems, none, fx)
  BY <1>1, <1>2
<1>4. Records(Blank, d) /\ d.next > Blank.next /\ d.root = "retained"
  BY <1>3, BlankTyped, DispatchedTyped
<1>. QED
  BY <1>4, BlankTyped DEF Records, Blank

\* An admission writes an acceptance receipt and an entry for what is new.
LEMMA AdmittedTyped ==
    ASSUME NEW c, Typed(c), Below(c), NEW n \in Nat, NEW batch \in [1 .. n -> Delivery]
    PROVE  Records(c, Admitted(c, batch)) /\ Admitted(c, batch).root = c.root
<1>. DEFINE fresh == Fresh(c, batch)
            rank(i) == Cardinality({j \in 1 .. i - 1 : j \in fresh})
            entry(i) == [body |-> batch[i].body, acc |-> c.nextAcc + rank(i),
                         queue |-> c.nextQueue + rank(i), place |-> "ready"]
            receipt(i) == Receipt("acceptance", batch[i].id, [entry(i) EXCEPT !.queue = 0],
                                  c.revision + 1)
            entryOf(e) == {entry(i) : i \in {j \in fresh : batch[j].id = e}}
            receiptAt(s) == {receipt(i) : i \in {j \in fresh : c.next + rank(j) = s}}
            entries == [e \in {batch[i].id : i \in fresh} |-> CHOOSE x \in entryOf(e) : TRUE]
            written == [s \in {c.next + rank(i) : i \in fresh} |-> CHOOSE x \in receiptAt(s) : TRUE]
            count == Cardinality(fresh)
<1>1. Admitted(c, batch)
      = [Mutated(c) EXCEPT !.mail = Merge(entries, @), !.receipts = Merge(written, @),
                           !.next = @ + count, !.nextAcc = @ + count, !.nextQueue = @ + count]
  BY Zenon DEF Admitted
<1>2. PICK m : m = Mutated(c)
  OBVIOUS
<1>3. /\ Records(c, m) /\ m.next = c.next /\ m.receipts = c.receipts
      /\ m.mail = c.mail /\ m.nextAcc = c.nextAcc /\ m.nextQueue = c.nextQueue
      /\ m.root = c.root
  BY <1>2, MutatedTyped
<1>4. /\ c.next \in Nat /\ c.nextAcc \in Nat /\ c.nextQueue \in Nat
      /\ EntriesTyped(c.mail) /\ ReceiptsTyped(c.receipts)
  BY DEF Typed
<1>5. fresh \subseteq 1 .. n
  BY DEF Fresh
<1>. HIDE DEF fresh
<1>6. IsFiniteSet(fresh) /\ count \in Nat
  <2>1. 1 \in Int /\ n \in Int
    OBVIOUS
  <2>2. IsFiniteSet(1 .. n)
    BY <2>1, FS_Interval
  <2>. QED
    BY <1>5, <2>2, FS_Subset, FS_CardinalityType
<1>7. \A i \in fresh : rank(i) \in Nat
  <2>1. ASSUME NEW i \in fresh PROVE rank(i) \in Nat
    <3>1. {j \in 1 .. i - 1 : j \in fresh} \in SUBSET fresh
      OBVIOUS
    <3>. QED
      BY <1>6, <3>1, FS_Subset, FS_CardinalityType
  <2>. QED
    BY <2>1
<1>. HIDE DEF rank, count
<1>8. \A i \in fresh : batch[i].id \in Ids /\ entry(i) \in Entry
  <2>1. ASSUME NEW i \in fresh PROVE batch[i].id \in Ids /\ entry(i) \in Entry
    <3>1. batch[i] \in Delivery
      BY <1>5
    <3>2. c.nextAcc + rank(i) \in Nat /\ c.nextQueue + rank(i) \in Nat
      BY <1>4, <1>7
    <3>. QED
      BY <3>1, <3>2 DEF Delivery, Ids, Entry
  <2>. QED
    BY <2>1
<1>9. \A i \in fresh : ReceiptTyped(receipt(i))
  <2>1. ASSUME NEW i \in fresh PROVE ReceiptTyped(receipt(i))
    <3>1. PICK x : x = [entry(i) EXCEPT !.queue = 0]
      OBVIOUS
    <3>2. x.body \in Bodies
      BY <1>8, <3>1 DEF Entry
    <3>3. receipt(i) = Receipt("acceptance", batch[i].id, x, c.revision + 1)
      BY <3>1
    <3>. QED
      BY <3>2, <3>3 DEF Receipt, ReceiptTyped, IsReceipt, ReceiptFields, Kinds
  <2>. QED
    BY <2>1
<1>. HIDE DEF entry, receipt
<1>10. EntriesTyped(entries)
  <2>1. DOMAIN entries = {batch[i].id : i \in fresh}
    OBVIOUS
  <2>2. IsFiniteSet({batch[i].id : i \in fresh})
    <3>1. PICK f : f = [i \in fresh |-> batch[i].id]
      OBVIOUS
    <3>2. DOMAIN f = fresh /\ {f[i] : i \in DOMAIN f} = {batch[i].id : i \in fresh}
      BY <3>1
    <3>. QED
      BY <1>6, <3>2, FiniteValues
  <2>3. ASSUME NEW e \in DOMAIN entries
        PROVE  e \in Ids /\ entries[e] \in Entry
    <3>1. PICK i \in fresh : batch[i].id = e
      BY <2>1, <2>3
    <3>2. entry(i) \in entryOf(e)
      BY <3>1
    <3>3. PICK x : x = CHOOSE y \in entryOf(e) : TRUE
      OBVIOUS
    <3>4. x \in entryOf(e)
      BY <3>2, <3>3, Zenon
    <3>5. x \in Entry
      BY <1>8, <3>4
    <3>6. entries[e] = x
      BY <2>3, <3>3
    <3>. QED
      BY <1>8, <3>1, <3>5, <3>6
  <2>. HIDE DEF entries
  <2>. QED
    BY <2>1, <2>2, <2>3 DEF EntriesTyped
<1>11. ReceiptsTyped(written) /\ \A s \in DOMAIN written : s >= c.next
  <2>1. ASSUME NEW s \in DOMAIN written
        PROVE  s \in Nat /\ s >= c.next /\ ReceiptTyped(written[s])
    <3>1. PICK i \in fresh : c.next + rank(i) = s
      BY <2>1
    <3>2. s \in Nat /\ s >= c.next
      BY <1>4, <1>7, <3>1
    <3>3. receipt(i) \in receiptAt(s)
      BY <3>1
    <3>4. PICK x : x = CHOOSE y \in receiptAt(s) : TRUE
      OBVIOUS
    <3>5. x \in receiptAt(s)
      BY <3>3, <3>4, Zenon
    <3>6. ReceiptTyped(x)
      BY <1>9, <3>5
    <3>7. written[s] = x
      BY <2>1, <3>4
    <3>. QED
      BY <3>2, <3>6, <3>7
  <2>. HIDE DEF written
  <2>. QED
    BY <2>1 DEF ReceiptsTyped
<1>. HIDE DEF entries, written
<1>12. PICK mail, receipts : mail = Merge(entries, c.mail) /\ receipts = Merge(written, c.receipts)
  OBVIOUS
<1>13. EntriesTyped(mail)
  BY <1>4, <1>10, <1>12, MergedEntries
<1>14. ReceiptsTyped(receipts) /\ Retains(c.receipts, receipts)
  <2>1. DOMAIN written \cap DOMAIN c.receipts = {}
    BY <1>4, <1>11 DEF Below, ReceiptsTyped
  <2>. QED
    BY <1>4, <1>11, <1>12, <2>1, MergedTyped
<1>15. PICK d : d = Admitted(c, batch)
  OBVIOUS
<1>16. Shaped(m)
  BY <1>3 DEF Records, Typed
<1>17. /\ d.root = m.root /\ d.rt = m.rt /\ d.mode = m.mode /\ d.cutoff = m.cutoff
       /\ d.revision = m.revision /\ d.next = m.next + count
       /\ d.nextAcc = m.nextAcc + count /\ d.nextQueue = m.nextQueue + count
       /\ d.nextFx = m.nextFx /\ d.tombstones = m.tombstones /\ Shaped(d)
       /\ d.mail = Merge(entries, m.mail) /\ d.receipts = Merge(written, m.receipts)
  BY <1>1, <1>2, <1>15, <1>16 DEF Shaped, Fields
<1>18. d.mail = mail /\ d.receipts = receipts
  BY <1>3, <1>12, <1>17
<1>19. d.next \in Nat /\ d.next >= c.next /\ d.nextAcc \in Nat /\ d.nextQueue \in Nat
  BY <1>3, <1>4, <1>6, <1>17
<1>20. Typed(d)
  BY <1>3, <1>13, <1>14, <1>17, <1>18, <1>19 DEF Typed, Records
<1>. QED
  BY <1>3, <1>14, <1>15, <1>17, <1>18, <1>19, <1>20 DEF Records

-----------------------------------------------------------------------------
(* The evidence of a checkpoint, one entry, receipt or reference at a time: *)
(* what restoring checks (Coherent) and what it does not (Traced).         *)

\* A checkpoint that restores has allocated the sequence of every receipt.
LEMMA ValidBelow ==
    ASSUME NEW c, Typed(c), SemanticsValid(c), c.next > 0
    PROVE  Below(c)
<1>1. SequencesValid(c)
  BY Zenon DEF SemanticsValid
<1>2. PICK first : first = IF c.cutoff = None THEN 1 ELSE c.cutoff + 1
  OBVIOUS
<1>3. DOMAIN c.receipts = {0} \cup (first .. c.next - 1)
  BY Zenon, <1>1, <1>2 DEF SequencesValid
<1>4. first \in Int /\ c.next \in Nat
  BY <1>2 DEF Typed, None
<1>. QED
  BY <1>3, <1>4 DEF Below

\* Ranks among finitely many that have different keys are the numbers from 0 on.
RankIn(S, key, a) == Cardinality({d \in S : key[d] < key[a]})

\* Ranks among finitely many members with keys of their own are the numbers below
\* the size of the set, each of one member.
LEMMA RanksCount ==
    ASSUME NEW S, IsFiniteSet(S), NEW key \in [S -> Nat],
           \A a, b \in S : key[a] = key[b] => a = b
    PROVE  /\ \A a \in S : RankIn(S, key, a) \in 0 .. Cardinality(S) - 1
           /\ \A a, b \in S : RankIn(S, key, a) = RankIn(S, key, b) => a = b
           /\ \A n \in 0 .. Cardinality(S) - 1 : \E a \in S : RankIn(S, key, a) = n
<1>. DEFINE Under(a) == {d \in S : key[d] < key[a]}
            rank == [a \in S |-> RankIn(S, key, a)]
<1>1. \A a \in S : Under(a) \in SUBSET S /\ a \notin Under(a)
  OBVIOUS
<1>2. Cardinality(S) \in Nat /\ \A a \in S : IsFiniteSet(Under(a)) /\ Cardinality(Under(a)) \in Nat
  <2>. HIDE DEF Under
  <2>. QED
    BY <1>1, FS_Subset, FS_CardinalityType
<1>3. \A a \in S : Cardinality(Under(a)) < Cardinality(S)
  <2>. SUFFICES ASSUME NEW a \in S PROVE Cardinality(Under(a)) < Cardinality(S)
    OBVIOUS
  <2>1. Cardinality(Under(a)) <= Cardinality(S) /\ Cardinality(Under(a)) # Cardinality(S)
    BY <1>1, FS_Subset
  <2>. HIDE DEF Under
  <2>. QED
    BY <1>2, <2>1
<1>4. \A a, b \in S : key[a] < key[b] => Cardinality(Under(a)) < Cardinality(Under(b))
  <2>. SUFFICES ASSUME NEW a \in S, NEW b \in S, key[a] < key[b]
                PROVE  Cardinality(Under(a)) < Cardinality(Under(b))
    OBVIOUS
  <2>1. Under(a) \in SUBSET Under(b) /\ a \in Under(b) /\ a \notin Under(a)
    OBVIOUS
  <2>2. Cardinality(Under(a)) <= Cardinality(Under(b)) /\ Cardinality(Under(a)) # Cardinality(Under(b))
    BY <1>2, <2>1, FS_Subset
  <2>. HIDE DEF Under
  <2>. QED
    BY <1>2, <2>2
<1>5. \A a \in S : RankIn(S, key, a) = Cardinality(Under(a))
  BY Zenon DEF RankIn
<1>. HIDE DEF Under
<1>6. \A a \in S : RankIn(S, key, a) \in 0 .. Cardinality(S) - 1
  BY <1>2, <1>3, <1>5
<1>7. \A a, b \in S : RankIn(S, key, a) = RankIn(S, key, b) => a = b
  <2>. SUFFICES ASSUME NEW a \in S, NEW b \in S, a # b
                PROVE  Cardinality(Under(a)) # Cardinality(Under(b))
    BY <1>5
  <2>1. key[a] < key[b] \/ key[b] < key[a]
    OBVIOUS
  <2>. QED
    BY <1>2, <1>4, <2>1
<1>8. \A n \in 0 .. Cardinality(S) - 1 : \E a \in S : RankIn(S, key, a) = n
  <2>1. PICK k : k = Cardinality(S)
    OBVIOUS
  <2>2. k \in Nat /\ 0 \in Int /\ k - 1 \in Int
    BY <1>2, <2>1
  <2>3. PICK T : T = 0 .. k - 1
    OBVIOUS
  <2>4. rank \in Injection(S, T)
    BY <1>6, <1>7, <2>1, <2>3 DEF Injection, IsInjective
  <2>5. IsFiniteSet(T) /\ Cardinality(T) = k
    BY <2>2, <2>3, FS_Interval
  <2>6. rank \in Surjection(S, T)
    BY <2>1, <2>4, <2>5, FS_Injection
  <2>7. \A n \in T : \E a \in S : rank[a] = n
    BY <2>6 DEF Surjection
  <2>. QED
    BY <2>1, <2>3, <2>7
<1>. QED
  BY <1>6, <1>7, <1>8

\* An id derived from a step is derived from one that has been.
Old(c, x) == x \in Nat \X Nat => x[1] < c.next

\* A receipt's effect has its sequence, and its id and those it refers to are of
\* steps that were taken.
ReceiptTraced(c, s) ==
    /\ c.receipts[s].acc \in Nat /\ c.receipts[s].queue \in Nat /\ c.receipts[s].rev \in Int
    /\ c.receipts[s].effects \subseteq {s}
    /\ c.receipts[s].kind \in {"acceptance", "event_terminal"} => Old(c, c.receipts[s].id)
    /\ \A ref \in c.receipts[s].refs :
          Old(c, ref.id) /\ (ref.kind = "internal_mailbox" => ref.id \in DOMAIN c.mail)

\* What restoring does not check: an effect is known by the receipt that emitted it,
\* ids of emissions come of steps that were taken, and a reference to a mailbox has
\* its entry there.
Traced(c) ==
    /\ \A s \in DOMAIN c.receipts : ReceiptTraced(c, s)
    /\ \A e \in DOMAIN c.mail : Old(c, e)
    /\ \A e \in DOMAIN c.tombstones :
          Old(c, e) /\ c.tombstones[e].acc \in Nat /\ c.tombstones[e].seq \in Nat
    /\ \A f \in DOMAIN c.terminalFx : c.terminalFx[f].seq \in Nat
    /\ \A f \in DOMAIN c.tombstoneFx : c.tombstoneFx[f].seq \in Nat

\* Receipt s is the acceptance of e.
Accepts(c, s, e) ==
    s \in DOMAIN c.receipts /\ c.receipts[s].kind = "acceptance" /\ c.receipts[s].id = e

\* Receipt s is that of the end of e.
Ends(c, s, e) ==
    s \in DOMAIN c.receipts /\ c.receipts[s].kind = "event_terminal" /\ c.receipts[s].id = e

\* Receipt s refers to the emission e by ref.
Refers(c, s, ref, e) == s \in DOMAIN c.receipts /\ ref \in c.receipts[s].refs /\ ref.id = e

\* An emission is referred to once.
OneReference(c) ==
    \A e, s, u, x, y : Refers(c, s, x, e) /\ Refers(c, u, y, e) => s = u /\ x = y

\* A reference says that its emission waits exactly while it does.
ReferenceKinds(c) ==
    \A e, s, x : Refers(c, s, x, e) => (x.kind = "internal_mailbox" <=> e \in DOMAIN c.mail)

\* An entry has the receipt of its acceptance or the reference of its producer.
EntrySound(c, e) ==
    /\ \A s : ~Ends(c, s, e)
    /\ c.mail[e].body \notin Internal <=> \E s : Accepts(c, s, e)
    /\ c.mail[e].body \in Internal <=> \E s, x : Refers(c, s, x, e)
    /\ \A s : Accepts(c, s, e) =>
                 c.receipts[s].body = c.mail[e].body /\ c.receipts[s].acc = c.mail[e].acc
    /\ \A s, x : Refers(c, s, x, e) => x.acc = c.mail[e].acc /\ x.n = c.mail[e].queue

\* So has what is done, or pruning has removed it.
EndSound(c, s, e) ==
    /\ \A u : Ends(c, u, e) => u = s
    /\ \A a : Accepts(c, a, e) =>
                 /\ c.receipts[a].body = c.receipts[s].body
                 /\ c.receipts[a].acc = c.receipts[s].acc
                 /\ a < s /\ c.receipts[a].rev <= c.receipts[s].rev
    /\ \A u, x : Refers(c, u, x, e) =>
                 /\ x.n = s /\ x.acc = c.receipts[s].acc
                 /\ u < s /\ c.receipts[u].rev <= c.receipts[s].rev
    /\ ~ (\E a : Accepts(c, a, e)) \/ ~ (\E u, x : Refers(c, u, x, e))
    /\ c.cutoff = None => (\E a : Accepts(c, a, e)) \/ (\E u, x : Refers(c, u, x, e))

\* What was accepted waits or is done.
AcceptSound(c, s, e) ==
    /\ \A u : Accepts(c, u, e) => u = s
    /\ e \in DOMAIN c.mail \/ \E u : Ends(c, u, e)

\* A tombstone is all that is left of its event.
TombstoneSound(c, e) ==
    /\ e \notin DOMAIN c.mail
    /\ \A s : ~Accepts(c, s, e) /\ ~Ends(c, s, e)
    /\ c.tombstones[e].seq < c.next
    /\ \A x : ~Ends(c, c.tombstones[e].seq, x)

\* What a terminal reference refers to.
Leads(c, e, ref) ==
    \/ Ends(c, ref.n, e)
    \/ /\ \A u : ~Ends(c, u, e)
       /\ e \in DOMAIN c.tombstones /\ c.tombstones[e].seq = ref.n

\* The acceptance sequence n is that of e, and the queue sequence n.
Owns(c, n, e) ==
    \/ e \in DOMAIN c.mail /\ c.mail[e].acc = n
    \/ \E s : (Accepts(c, s, e) \/ Ends(c, s, e)) /\ c.receipts[s].acc = n
    \/ e \in DOMAIN c.tombstones /\ c.tombstones[e].acc = n

\* The queue sequence n is that of e.
Queues(c, n, e) ==
    \/ e \in DOMAIN c.mail /\ c.mail[e].queue = n
    \/ \E s : Ends(c, s, e) /\ c.receipts[s].queue = n

\* An acceptance sequence is that of one event, and was allocated.
OwnersSound(c) ==
    /\ \A n, e, g : Owns(c, n, e) /\ Owns(c, n, g) => e = g
    /\ c.root = "retained" => \A n, e : Owns(c, n, e) => n < c.nextAcc

\* So is a queue sequence.
QueuesSound(c) ==
    /\ \A n, e, g : Queues(c, n, e) /\ Queues(c, n, g) => e = g
    /\ c.root = "retained" => \A n, e : Queues(c, n, e) => n < c.nextQueue

\* Everything restoring checks, one entry, receipt or reference at a time.
Coherent(c) ==
    /\ OneReference(c)
    /\ ReferenceKinds(c)
    /\ \A e \in DOMAIN c.mail : EntrySound(c, e)
    /\ \A s, e : Ends(c, s, e) => EndSound(c, s, e)
    /\ \A s, e : Accepts(c, s, e) => AcceptSound(c, s, e)
    /\ \A e \in DOMAIN c.tombstones : TombstoneSound(c, e)
    /\ \A e, s, x : Refers(c, s, x, e) /\ x.kind = "internal_terminal" => Leads(c, e, x)
    /\ ChronologyValid(c)
    /\ OwnersSound(c)
    /\ QueuesSound(c)
    /\ EffectsValid(c)

\* The sets restoring counts, one member at a time.
LEMMA Members ==
    ASSUME NEW c, NEW e
    PROVE  /\ \A s : s \in AcceptanceOf(c, e) <=> Accepts(c, s, e)
           /\ \A s : s \in TerminalOf(c, e) <=> Ends(c, s, e)
  BY DEF AcceptanceOf, TerminalOf, OfKind, Accepts, Ends

\* The producers restoring counts are the references of that kind.
LEMMA Producers ==
    ASSUME NEW c, NEW e, NEW kind, NEW p
    PROVE  p \in ProducerOf(c, e, kind) <=>
              \E s, x : p = <<s, x>> /\ Refers(c, s, x, e) /\ x.kind = kind
<1>1. ASSUME p \in ProducerOf(c, e, kind)
      PROVE  \E s, x : p = <<s, x>> /\ Refers(c, s, x, e) /\ x.kind = kind
  <2>1. PICK s \in DOMAIN c.receipts :
           p \in {<<s, ref>> : ref \in {x \in c.receipts[s].refs : x.id = e /\ x.kind = kind}}
    BY <1>1 DEF ProducerOf
  <2>2. PICK x \in c.receipts[s].refs : p = <<s, x>> /\ x.id = e /\ x.kind = kind
    BY <2>1
  <2>. QED
    BY <2>2 DEF Refers
<1>2. ASSUME NEW s, NEW x, p = <<s, x>>, Refers(c, s, x, e), x.kind = kind
      PROVE  p \in ProducerOf(c, e, kind)
  BY <1>2 DEF ProducerOf, Refers
<1>. QED
  BY <1>1, <1>2

\* Sets with at most one member.
LEMMA AtMostOne ==
    ASSUME NEW S, \A x, y \in S : x = y
    PROVE  IsFiniteSet(S) /\ Cardinality(S) = IF S = {} THEN 0 ELSE 1
<1>1. CASE S = {}
  BY <1>1, FS_EmptySet
<1>2. CASE S # {}
  <2>1. PICK x : S = {x}
    BY <1>2
  <2>. QED
    BY <1>2, <2>1, FS_Singleton
<1>. QED
  BY <1>1, <1>2

-----------------------------------------------------------------------------
(* A checkpoint restores exactly when it is coherent and lacks no receipt. *)

\* What the references say of a checkpoint that restores.
LEMMA ValidReferences ==
    ASSUME NEW c, Typed(c), Traced(c), SemanticsValid(c)
    PROVE  /\ OneReference(c) /\ ReferenceKinds(c)
           /\ \A e, s, x : Refers(c, s, x, e) /\ x.kind = "internal_terminal" => Leads(c, e, x)
           /\ \A e \in DOMAIN c.tombstones : TombstoneSound(c, e)
<1>1. ReferencesValid(c) /\ TombstonesValid(c) /\ PendingValid(c)
  BY Zenon DEF SemanticsValid
<1>2. \A e \in DOMAIN c.mail : \A s : ~Ends(c, s, e)
  <2>1. \A e \in DOMAIN c.mail : TerminalOf(c, e) = {}
    BY <1>1, Zenon DEF PendingValid
  <2>. QED
    BY <2>1, Members
<1>3. \A e \in DOMAIN c.tombstones : TombstoneSound(c, e)
  <2>1. ASSUME NEW e \in DOMAIN c.tombstones
        PROVE  TombstoneSound(c, e)
    <3>1. /\ e \notin DOMAIN c.mail
          /\ AcceptanceOf(c, e) \cup TerminalOf(c, e) = {}
          /\ c.tombstones[e].seq < c.next
          /\ c.tombstones[e].seq \notin OfKind(c, "event_terminal")
      BY <1>1, <2>1, Zenon DEF TombstonesValid
    <3>2. \A s : ~Accepts(c, s, e) /\ ~Ends(c, s, e)
      BY <3>1, Members
    <3>3. \A x : ~Ends(c, c.tombstones[e].seq, x)
      BY <3>1 DEF Ends, OfKind
    <3>. QED
      BY <3>1, <3>2, <3>3 DEF TombstoneSound
  <2>. QED
    BY <2>1
<1>4. ASSUME NEW e, NEW s, NEW x, Refers(c, s, x, e), x.kind = "internal_terminal"
      PROVE  Leads(c, e, x)
  <2>1. s \in DOMAIN c.receipts /\ x \in c.receipts[s].refs /\ x.id = e
    BY <1>4 DEF Refers
  <2>2. \/ TerminalOf(c, x.id) = {x.n}
        \/ /\ TerminalOf(c, x.id) = {}
           /\ x.id \in DOMAIN c.tombstones /\ c.tombstones[x.id].seq = x.n
    BY <1>1, <1>4, <2>1, Zenon DEF TombstonesValid
  <2>. QED
    BY <2>1, <2>2, Members DEF Leads
<1>5. ASSUME NEW e, NEW s, NEW x, Refers(c, s, x, e)
      PROVE  /\ x.kind = "internal_mailbox" <=> e \in DOMAIN c.mail
             /\ x.kind \in {"internal_mailbox", "internal_terminal"}
  <2>1. s \in DOMAIN c.receipts /\ x \in c.receipts[s].refs /\ x.id = e
    BY <1>5 DEF Refers
  <2>2. x \in Reference
    BY <2>1 DEF Typed, ReceiptsTyped, ReceiptTyped
  <2>3. x.kind \in {"internal_mailbox", "internal_terminal"}
    BY <2>2 DEF Reference
  <2>4. x.kind = "internal_mailbox" => e \in DOMAIN c.mail
    BY <2>1 DEF Traced, ReceiptTraced
  <2>5. x.kind = "internal_terminal" => e \notin DOMAIN c.mail
    <3>1. ASSUME x.kind = "internal_terminal" PROVE e \notin DOMAIN c.mail
      <4>1. Leads(c, e, x)
        BY <1>4, <1>5, <3>1
      <4>. QED
        BY <1>2, <1>3, <4>1 DEF Leads, TombstoneSound
    <3>. QED
      BY <3>1
  <2>. QED
    BY <2>3, <2>4, <2>5
<1>6. ReferenceKinds(c)
  BY <1>5 DEF ReferenceKinds
<1>7. ASSUME NEW e, NEW s, NEW u, NEW x, NEW y, Refers(c, s, x, e), Refers(c, u, y, e)
      PROVE  s = u /\ x = y
  <2>1. x.kind = y.kind
    BY <1>5, <1>7
  <2>2. /\ s \in DOMAIN c.receipts /\ x \in c.receipts[s].refs /\ x.id = e
        /\ u \in DOMAIN c.receipts /\ y \in c.receipts[u].refs /\ y.id = e
    BY <1>7 DEF Refers
  <2>3. \A a, b \in DOMAIN c.receipts :
           \A v \in c.receipts[a].refs, w \in c.receipts[b].refs :
              v.id = w.id /\ v.kind = w.kind => a = b /\ v = w
    BY <1>1 DEF ReferencesValid
  <2>. QED
    BY <2>1, <2>2, <2>3
<1>8. OneReference(c)
  BY <1>7 DEF OneReference
<1>. QED
  BY <1>3, <1>4, <1>6, <1>8

\* Whether something accepts or refers to e, counted as restoring counts it.
LEMMA Counted ==
    ASSUME NEW c, NEW e, NEW kind,
           \A s, u : Accepts(c, s, e) /\ Accepts(c, u, e) => s = u,
           \A s, u, x, y : Refers(c, s, x, e) /\ Refers(c, u, y, e) => s = u /\ x = y,
           \A s, x : Refers(c, s, x, e) => x.kind = kind
    PROVE  /\ Cardinality(AcceptanceOf(c, e)) = IF \E s : Accepts(c, s, e) THEN 1 ELSE 0
           /\ Cardinality(ProducerOf(c, e, kind)) = IF \E s, x : Refers(c, s, x, e) THEN 1 ELSE 0
<1>0. PICK A : A = AcceptanceOf(c, e)
  OBVIOUS
<1>1. PICK P : P = ProducerOf(c, e, kind)
  OBVIOUS
<1>2. \A s : s \in A <=> Accepts(c, s, e)
  BY <1>0, Members
<1>3. ASSUME NEW p
      PROVE  p \in P <=> \E s, x : p = <<s, x>> /\ Refers(c, s, x, e) /\ x.kind = kind
  <2>1. p \in ProducerOf(c, e, kind) <=>
           \E s, x : p = <<s, x>> /\ Refers(c, s, x, e) /\ x.kind = kind
    BY Producers
  <2>. QED
    BY Zenon, <1>1, <2>1
<1>4. \A x, y \in A : x = y
  BY <1>2
<1>5. \A x, y \in P : x = y
  BY <1>3
<1>6. Cardinality(A) = IF A = {} THEN 0 ELSE 1
  BY <1>4, AtMostOne
<1>7. Cardinality(P) = IF P = {} THEN 0 ELSE 1
  BY <1>5, AtMostOne
<1>8. A = {} <=> ~ \E s : Accepts(c, s, e)
  BY <1>2
<1>9. P = {} <=> ~ \E s, x : Refers(c, s, x, e)
  BY <1>3
<1>. QED
  BY <1>0, <1>1, <1>6, <1>7, <1>8, <1>9

\* A checkpoint that restores is coherent.
LEMMA ValidCoherent ==
    ASSUME NEW c, Typed(c), Traced(c), SemanticsValid(c)
    PROVE  Coherent(c)
<1>1. /\ PendingValid(c) /\ TerminalsValid(c) /\ AcceptancesValid(c)
      /\ ChronologyValid(c) /\ AllocationsValid(c) /\ EffectsValid(c)
  BY Zenon DEF SemanticsValid
<1>2. /\ OneReference(c) /\ ReferenceKinds(c)
      /\ \A e, s, x : Refers(c, s, x, e) /\ x.kind = "internal_terminal" => Leads(c, e, x)
      /\ \A e \in DOMAIN c.tombstones : TombstoneSound(c, e)
  BY ValidReferences
<1>3. ASSUME NEW s, NEW e, Accepts(c, s, e)
      PROVE  AcceptSound(c, s, e)
  <2>1. s \in OfKind(c, "acceptance") /\ c.receipts[s].id = e
    BY <1>3 DEF Accepts, OfKind
  <2>2. AcceptanceOf(c, e) = {s} /\ (e \in DOMAIN c.mail \/ TerminalOf(c, e) # {})
    BY <1>1, <2>1, Zenon DEF AcceptancesValid
  <2>3. (\A u : Accepts(c, u, e) => u \in AcceptanceOf(c, e))
        /\ (\A u : u \in TerminalOf(c, e) => Ends(c, u, e))
    BY Zenon, Members
  <2>. QED
    BY <2>2, <2>3 DEF AcceptSound
<1>4. \A e, s, u : Accepts(c, s, e) /\ Accepts(c, u, e) => s = u
  BY <1>3 DEF AcceptSound
<1>5. ASSUME NEW e, NEW s, NEW x, Refers(c, s, x, e)
      PROVE  x.kind = IF e \in DOMAIN c.mail THEN "internal_mailbox" ELSE "internal_terminal"
  <2>1. x \in Reference
    BY <1>5 DEF Refers, Typed, ReceiptsTyped, ReceiptTyped
  <2>. QED
    BY <1>2, <1>5, <2>1 DEF ReferenceKinds, Reference
<1>6. \A e, s, u, x, y : Refers(c, s, x, e) /\ Refers(c, u, y, e) => s = u /\ x = y
  BY <1>2 DEF OneReference
<1>7. ASSUME NEW e \in DOMAIN c.mail
      PROVE  EntrySound(c, e)
  <2>1. PICK accepted : accepted = AcceptanceOf(c, e)
    OBVIOUS
  <2>2. PICK produced : produced = ProducerOf(c, e, "internal_mailbox")
    OBVIOUS
  <2>3. /\ Cardinality(accepted) + Cardinality(produced) = 1
        /\ accepted # {} <=> c.mail[e].body \notin Internal
        /\ \A s \in accepted :
              c.receipts[s].body = c.mail[e].body /\ c.receipts[s].acc = c.mail[e].acc
        /\ \A p \in produced : p[2].acc = c.mail[e].acc /\ p[2].n = c.mail[e].queue
        /\ TerminalOf(c, e) = {}
    BY <1>1, <1>7, <2>1, <2>2, Zenon DEF PendingValid
  <2>4. /\ Cardinality(accepted) = IF \E s : Accepts(c, s, e) THEN 1 ELSE 0
        /\ Cardinality(produced) = IF \E s, x : Refers(c, s, x, e) THEN 1 ELSE 0
    <3>1. \A s, u : Accepts(c, s, e) /\ Accepts(c, u, e) => s = u
      BY <1>4, Zenon
    <3>2. \A s, u, x, y : Refers(c, s, x, e) /\ Refers(c, u, y, e) => s = u /\ x = y
      BY <1>6, Zenon
    <3>3. \A s, x : Refers(c, s, x, e) => x.kind = "internal_mailbox"
      BY <1>5, <1>7
    <3>. QED
      BY <2>1, <2>2, <3>1, <3>2, <3>3, Counted
  <2>5. \A s : s \in accepted <=> Accepts(c, s, e)
    BY <2>1, Members
  <2>6. \A s : ~Ends(c, s, e)
    BY <2>3, Members
  <2>7. \A s, x : Refers(c, s, x, e) => <<s, x>> \in produced
    <3>1. \A s, x : Refers(c, s, x, e) => x.kind = "internal_mailbox"
      BY <1>5, <1>7
    <3>2. ASSUME NEW s, NEW x, Refers(c, s, x, e)
          PROVE  <<s, x>> \in produced
      BY <2>2, <3>1, <3>2 DEF ProducerOf, Refers
    <3>. QED
      BY <3>2
  <2>8. ASSUME NEW s, NEW x, Refers(c, s, x, e)
        PROVE  x.acc = c.mail[e].acc /\ x.n = c.mail[e].queue
    <3>1. PICK p : p = <<s, x>>
      OBVIOUS
    <3>2. p \in produced /\ p[2] = x
      BY <2>7, <2>8, <3>1
    <3>. QED
      BY <2>3, <3>2
  <2>9. c.mail[e].body \notin Internal <=> \E s : Accepts(c, s, e)
    BY <2>3, <2>5
  <2>10. (\E s : Accepts(c, s, e)) <=> ~ \E s, x : Refers(c, s, x, e)
    BY <2>3, <2>4
  <2>11. \A s : Accepts(c, s, e) =>
            c.receipts[s].body = c.mail[e].body /\ c.receipts[s].acc = c.mail[e].acc
    BY <2>3, <2>5
  <2>. QED
    BY <2>6, <2>8, <2>9, <2>10, <2>11 DEF EntrySound
<1>8. ASSUME NEW s, NEW e, Ends(c, s, e)
      PROVE  EndSound(c, s, e)
  <2>1. PICK accepted : accepted = AcceptanceOf(c, e)
    OBVIOUS
  <2>2. PICK produced : produced = ProducerOf(c, e, "internal_terminal")
    OBVIOUS
  <2>3. s \in OfKind(c, "event_terminal") /\ c.receipts[s].id = e
    BY <1>8 DEF Ends, OfKind
  <2>4. /\ TerminalOf(c, e) = {s}
        /\ Cardinality(accepted) + Cardinality(produced) <= 1
        /\ accepted \cup produced = {} => c.cutoff # None
        /\ \A a \in accepted :
              /\ c.receipts[a].body = c.receipts[s].body /\ c.receipts[a].acc = c.receipts[s].acc
              /\ a < s /\ c.receipts[a].rev <= c.receipts[s].rev
        /\ \A p \in produced :
              /\ p[2].n = s /\ p[2].acc = c.receipts[s].acc
              /\ p[1] < s /\ c.receipts[p[1]].rev <= c.receipts[s].rev
    BY <1>1, <2>1, <2>2, <2>3, Zenon DEF TerminalsValid
  <2>5. e \notin DOMAIN c.mail
    <3>1. ASSUME e \in DOMAIN c.mail PROVE FALSE
      BY <1>7, <1>8, <3>1 DEF EntrySound
    <3>. QED
      BY <3>1
  <2>6. \A u, x : Refers(c, u, x, e) => x.kind = "internal_terminal"
    BY <1>5, <2>5
  <2>7. /\ Cardinality(accepted) = IF \E u : Accepts(c, u, e) THEN 1 ELSE 0
        /\ Cardinality(produced) = IF \E u, x : Refers(c, u, x, e) THEN 1 ELSE 0
    <3>1. \A t, u : Accepts(c, t, e) /\ Accepts(c, u, e) => t = u
      BY <1>4, Zenon
    <3>2. \A t, u, x, y : Refers(c, t, x, e) /\ Refers(c, u, y, e) => t = u /\ x = y
      BY <1>6, Zenon
    <3>. QED
      BY <2>1, <2>2, <2>6, <3>1, <3>2, Counted
  <2>8. \A a : a \in accepted <=> Accepts(c, a, e)
    BY <2>1, Members
  <2>9. \A u, x : Refers(c, u, x, e) => <<u, x>> \in produced
    <3>1. ASSUME NEW u, NEW x, Refers(c, u, x, e)
          PROVE  <<u, x>> \in produced
      BY <2>2, <2>6, <3>1 DEF ProducerOf, Refers
    <3>. QED
      BY <3>1
  <2>10. \A u : Ends(c, u, e) => u = s
    <3>1. \A u : Ends(c, u, e) => u \in TerminalOf(c, e)
      BY Zenon, Members
    <3>. QED
      BY <2>4, <3>1
  <2>11. \A a : Accepts(c, a, e) =>
            /\ c.receipts[a].body = c.receipts[s].body /\ c.receipts[a].acc = c.receipts[s].acc
            /\ a < s /\ c.receipts[a].rev <= c.receipts[s].rev
    BY <2>4, <2>8
  <2>12. ASSUME NEW u, NEW x, Refers(c, u, x, e)
         PROVE  /\ x.n = s /\ x.acc = c.receipts[s].acc
                /\ u < s /\ c.receipts[u].rev <= c.receipts[s].rev
    <3>1. PICK p : p = <<u, x>>
      OBVIOUS
    <3>2. p \in produced /\ p[1] = u /\ p[2] = x
      BY <2>9, <2>12, <3>1
    <3>. QED
      BY <2>4, <3>2
  <2>13. ~ (\E a : Accepts(c, a, e)) \/ ~ (\E u, x : Refers(c, u, x, e))
    BY <2>4, <2>7
  <2>14. accepted \cup produced = {} =>
            ~ (\E a : Accepts(c, a, e)) /\ ~ (\E u, x : Refers(c, u, x, e))
    BY <2>8, <2>9
  <2>15. c.cutoff = None => (\E a : Accepts(c, a, e)) \/ (\E u, x : Refers(c, u, x, e))
    <3>1. accepted # {} => \E a : Accepts(c, a, e)
      BY <2>8
    <3>2. produced # {} => \E u, x : Refers(c, u, x, e)
      <4>1. ASSUME NEW p \in produced PROVE \E u, x : Refers(c, u, x, e)
        <5>1. p \in ProducerOf(c, e, "internal_terminal")
          BY <2>2
        <5>2. \E u, x : p = <<u, x>> /\ Refers(c, u, x, e) /\ x.kind = "internal_terminal"
          BY <5>1, Producers
        <5>. QED
          BY Zenon, <5>2
      <4>. QED
        BY <4>1, Zenon
    <3>. QED
      BY <2>4, <3>1, <3>2
  <2>. QED
    BY <2>10, <2>11, <2>12, <2>13, <2>15 DEF EndSound
<1>9. OwnersSound(c) /\ QueuesSound(c)
  <2>1. PICK terminal : terminal = OfKind(c, "event_terminal")
    OBVIOUS
  <2>2. PICK owners : owners = {<<c.mail[e].acc, e>> : e \in DOMAIN c.mail}
                  \cup {<<c.receipts[s].acc, c.receipts[s].id>> :
                          s \in terminal \cup OfKind(c, "acceptance")}
                  \cup {<<c.tombstones[e].acc, e>> : e \in DOMAIN c.tombstones}
    OBVIOUS
  <2>3. PICK queues : queues = {<<c.mail[e].queue, e>> : e \in DOMAIN c.mail}
                  \cup {<<c.receipts[s].queue, c.receipts[s].id>> : s \in terminal}
    OBVIOUS
  <2>4. /\ \A x, y \in owners : x[1] = y[1] => x[2] = y[2]
        /\ \A x, y \in queues : x[1] = y[1] => x[2] = y[2]
        /\ c.root = "retained" =>
             (\A x \in owners : x[1] < c.nextAcc) /\ (\A x \in queues : x[1] < c.nextQueue)
    BY <1>1, <2>1, <2>2, <2>3, Zenon DEF AllocationsValid
  <2>5. \A s, e : Ends(c, s, e) => s \in terminal /\ c.receipts[s].id = e
    BY <2>1 DEF Ends, OfKind
  <2>6. \A s, e : Accepts(c, s, e) => s \in OfKind(c, "acceptance") /\ c.receipts[s].id = e
    BY DEF Accepts, OfKind
  <2>7. ASSUME NEW n, NEW e, Owns(c, n, e) PROVE <<n, e>> \in owners
    <3>1. CASE e \in DOMAIN c.mail /\ c.mail[e].acc = n
      BY <2>2, <3>1
    <3>2. CASE \E s : (Accepts(c, s, e) \/ Ends(c, s, e)) /\ c.receipts[s].acc = n
      BY <2>2, <2>5, <2>6, <3>2
    <3>3. CASE e \in DOMAIN c.tombstones /\ c.tombstones[e].acc = n
      BY <2>2, <3>3
    <3>. QED
      BY <2>7, <3>1, <3>2, <3>3 DEF Owns
  <2>8. ASSUME NEW n, NEW e, Queues(c, n, e) PROVE <<n, e>> \in queues
    BY <2>3, <2>5, <2>8 DEF Queues
  <2>9. ASSUME NEW n, NEW e, NEW g, Owns(c, n, e), Owns(c, n, g) PROVE e = g
    <3>1. <<n, e>> \in owners /\ <<n, g>> \in owners
      BY <2>7, <2>9
    <3>. QED
      BY <2>4, <3>1
  <2>10. ASSUME NEW n, NEW e, NEW g, Queues(c, n, e), Queues(c, n, g) PROVE e = g
    <3>1. <<n, e>> \in queues /\ <<n, g>> \in queues
      BY <2>8, <2>10
    <3>. QED
      BY <2>4, <3>1
  <2>11. ASSUME c.root = "retained", NEW n, NEW e, Owns(c, n, e) PROVE n < c.nextAcc
    <3>1. PICK p : p = <<n, e>>
      OBVIOUS
    <3>2. p \in owners /\ p[1] = n
      BY <2>7, <2>11, <3>1
    <3>. QED
      BY <2>4, <2>11, <3>2
  <2>12. ASSUME c.root = "retained", NEW n, NEW e, Queues(c, n, e) PROVE n < c.nextQueue
    <3>1. PICK p : p = <<n, e>>
      OBVIOUS
    <3>2. p \in queues /\ p[1] = n
      BY <2>8, <2>12, <3>1
    <3>. QED
      BY <2>4, <2>12, <3>2
  <2>. QED
    BY <2>9, <2>10, <2>11, <2>12 DEF OwnersSound, QueuesSound
<1>. QED
  BY <1>1, <1>2, <1>3, <1>7, <1>8, <1>9 DEF Coherent

\* The kind of a reference says where its emission is.
LEMMA KindOf ==
    ASSUME NEW c, Typed(c), ReferenceKinds(c), NEW e, NEW s, NEW x, Refers(c, s, x, e)
    PROVE  x.kind = IF e \in DOMAIN c.mail THEN "internal_mailbox" ELSE "internal_terminal"
<1>1. x \in Reference
  BY DEF Refers, Typed, ReceiptsTyped, ReceiptTyped
<1>. QED
  BY <1>1 DEF ReferenceKinds, Reference

\* The references of a coherent checkpoint have one producer each, and what they
\* refer to is there.
LEMMA CoherentReferences ==
    ASSUME NEW c, Typed(c), Coherent(c)
    PROVE  ReferencesValid(c)
<1>. SUFFICES ASSUME NEW s \in DOMAIN c.receipts, NEW u \in DOMAIN c.receipts,
                     NEW x \in c.receipts[s].refs, NEW y \in c.receipts[u].refs,
                     x.id = y.id
              PROVE  s = u /\ x = y
  BY Zenon DEF ReferencesValid
<1>1. Refers(c, s, x, x.id) /\ Refers(c, u, y, x.id)
  BY DEF Refers
<1>. QED
  BY <1>1, Zenon DEF Coherent, OneReference

\* Its pending entries have the acceptance or the producer restoring asks for.
LEMMA CoherentPending ==
    ASSUME NEW c, Typed(c), Coherent(c)
    PROVE  PendingValid(c)
<1>. SUFFICES ASSUME NEW e \in DOMAIN c.mail
              PROVE  /\ Cardinality(AcceptanceOf(c, e))
                        + Cardinality(ProducerOf(c, e, "internal_mailbox")) = 1
                     /\ AcceptanceOf(c, e) # {} <=> c.mail[e].body \notin Internal
                     /\ \A s \in AcceptanceOf(c, e) :
                          c.receipts[s].body = c.mail[e].body /\ c.receipts[s].acc = c.mail[e].acc
                     /\ \A p \in ProducerOf(c, e, "internal_mailbox") :
                          p[2].acc = c.mail[e].acc /\ p[2].n = c.mail[e].queue
                     /\ TerminalOf(c, e) = {}
  BY Zenon DEF PendingValid
<1>1. /\ \A s : ~Ends(c, s, e)
      /\ c.mail[e].body \notin Internal <=> \E s : Accepts(c, s, e)
      /\ c.mail[e].body \in Internal <=> \E s, x : Refers(c, s, x, e)
      /\ \A s : Accepts(c, s, e) =>
                 c.receipts[s].body = c.mail[e].body /\ c.receipts[s].acc = c.mail[e].acc
      /\ \A s, x : Refers(c, s, x, e) => x.acc = c.mail[e].acc /\ x.n = c.mail[e].queue
  BY Zenon DEF Coherent, EntrySound
<1>2. \A s, u : Accepts(c, s, e) /\ Accepts(c, u, e) => s = u
  BY Zenon DEF Coherent, AcceptSound
<1>3. \A s, u, x, y : Refers(c, s, x, e) /\ Refers(c, u, y, e) => s = u /\ x = y
  BY Zenon DEF Coherent, OneReference
<1>4. \A s, x : Refers(c, s, x, e) => x.kind = "internal_mailbox"
  BY KindOf DEF Coherent
<1>5. /\ Cardinality(AcceptanceOf(c, e)) = IF \E s : Accepts(c, s, e) THEN 1 ELSE 0
      /\ Cardinality(ProducerOf(c, e, "internal_mailbox"))
         = IF \E s, x : Refers(c, s, x, e) THEN 1 ELSE 0
  BY <1>2, <1>3, <1>4, Counted
<1>6. Cardinality(AcceptanceOf(c, e)) + Cardinality(ProducerOf(c, e, "internal_mailbox")) = 1
  BY <1>1, <1>5
<1>7. AcceptanceOf(c, e) # {} <=> c.mail[e].body \notin Internal
  BY <1>1, Members
<1>8. \A s \in AcceptanceOf(c, e) :
        c.receipts[s].body = c.mail[e].body /\ c.receipts[s].acc = c.mail[e].acc
  BY <1>1, Members
<1>9. ASSUME NEW p \in ProducerOf(c, e, "internal_mailbox")
      PROVE  p[2].acc = c.mail[e].acc /\ p[2].n = c.mail[e].queue
  <2>1. PICK s, x : p = <<s, x>> /\ Refers(c, s, x, e)
    BY <1>9, Producers
  <2>2. p[2] = x
    BY <2>1
  <2>. QED
    BY <1>1, <2>1, <2>2
<1>10. TerminalOf(c, e) = {}
  BY <1>1, Members
<1>. QED
  BY <1>6, <1>7, <1>8, <1>9, <1>10

\* What restoring checks of terminal receipt s, with its id named.
TerminalSound(c, s, e) ==
    /\ TerminalOf(c, e) = {s}
    /\ Cardinality(AcceptanceOf(c, e)) + Cardinality(ProducerOf(c, e, "internal_terminal")) <= 1
    /\ AcceptanceOf(c, e) \cup ProducerOf(c, e, "internal_terminal") = {} => c.cutoff # None
    /\ \A a \in AcceptanceOf(c, e) :
         /\ c.receipts[a].body = c.receipts[s].body
         /\ c.receipts[a].acc = c.receipts[s].acc
         /\ a < s /\ c.receipts[a].rev <= c.receipts[s].rev
    /\ \A p \in ProducerOf(c, e, "internal_terminal") :
         /\ p[2].n = s /\ p[2].acc = c.receipts[s].acc
         /\ p[1] < s /\ c.receipts[p[1]].rev <= c.receipts[s].rev

\* Terminal receipts are checked one by one.
LEMMA TerminalNamed ==
    ASSUME NEW c, \A s \in OfKind(c, "event_terminal") : TerminalSound(c, s, c.receipts[s].id)
    PROVE  TerminalsValid(c)
  BY DEF TerminalsValid, TerminalSound

\* Its terminal receipts end one emission each, accepted or produced before.
LEMMA CoherentTerminals ==
    ASSUME NEW c, Typed(c), Coherent(c)
    PROVE  TerminalsValid(c)
<1>. SUFFICES ASSUME NEW s \in OfKind(c, "event_terminal"), NEW e, e = c.receipts[s].id
              PROVE  TerminalSound(c, s, e)
  BY Zenon, TerminalNamed
<1>0. Ends(c, s, e)
  BY DEF Ends, OfKind
<1>1. /\ \A u : Ends(c, u, e) => u = s
      /\ \A a : Accepts(c, a, e) =>
                 /\ c.receipts[a].body = c.receipts[s].body
                 /\ c.receipts[a].acc = c.receipts[s].acc
                 /\ a < s /\ c.receipts[a].rev <= c.receipts[s].rev
      /\ \A u, x : Refers(c, u, x, e) =>
                 /\ x.n = s /\ x.acc = c.receipts[s].acc
                 /\ u < s /\ c.receipts[u].rev <= c.receipts[s].rev
      /\ ~ (\E a : Accepts(c, a, e)) \/ ~ (\E u, x : Refers(c, u, x, e))
      /\ c.cutoff = None => (\E a : Accepts(c, a, e)) \/ (\E u, x : Refers(c, u, x, e))
  <2>1. EndSound(c, s, e)
    BY <1>0, Zenon DEF Coherent
  <2>. QED
    BY <2>1, Zenon DEF EndSound
<1>2. \A t, u : Accepts(c, t, e) /\ Accepts(c, u, e) => t = u
  BY Zenon DEF Coherent, AcceptSound
<1>3. \A t, u, x, y : Refers(c, t, x, e) /\ Refers(c, u, y, e) => t = u /\ x = y
  BY Zenon DEF Coherent, OneReference
<1>4. \A u, x : Refers(c, u, x, e) => x.kind = "internal_terminal"
  <2>1. e \notin DOMAIN c.mail
    BY <1>0, Zenon DEF Coherent, EntrySound
  <2>. QED
    BY <2>1, KindOf DEF Coherent
<1>5. /\ Cardinality(AcceptanceOf(c, e)) = IF \E u : Accepts(c, u, e) THEN 1 ELSE 0
      /\ Cardinality(ProducerOf(c, e, "internal_terminal"))
         = IF \E u, x : Refers(c, u, x, e) THEN 1 ELSE 0
  BY <1>2, <1>3, <1>4, Counted
<1>6. Cardinality(AcceptanceOf(c, e)) + Cardinality(ProducerOf(c, e, "internal_terminal")) <= 1
  BY <1>1, <1>5
<1>7. AcceptanceOf(c, e) \cup ProducerOf(c, e, "internal_terminal") = {} => c.cutoff # None
  <2>1. (\E a : Accepts(c, a, e)) => AcceptanceOf(c, e) # {}
    BY Members
  <2>2. ASSUME NEW u, NEW x, Refers(c, u, x, e)
        PROVE  ProducerOf(c, e, "internal_terminal") # {}
    <3>1. <<u, x>> \in ProducerOf(c, e, "internal_terminal")
      BY <1>4, <2>2, Producers
    <3>. QED
      BY <3>1
  <2>. QED
    BY <1>1, <2>1, <2>2
<1>8. TerminalOf(c, e) = {s}
  BY <1>0, <1>1, Members
<1>9. \A a \in AcceptanceOf(c, e) :
        /\ c.receipts[a].body = c.receipts[s].body
        /\ c.receipts[a].acc = c.receipts[s].acc
        /\ a < s /\ c.receipts[a].rev <= c.receipts[s].rev
  BY <1>1, Members
<1>10. ASSUME NEW p \in ProducerOf(c, e, "internal_terminal")
       PROVE  /\ p[2].n = s /\ p[2].acc = c.receipts[s].acc
              /\ p[1] < s /\ c.receipts[p[1]].rev <= c.receipts[s].rev
  <2>1. PICK u, x : p = <<u, x>> /\ Refers(c, u, x, e)
    BY <1>10, Producers
  <2>2. p[1] = u /\ p[2] = x
    BY <2>1
  <2>. QED
    BY <1>1, <2>1, <2>2
<1>. QED
  BY <1>6, <1>7, <1>8, <1>9, <1>10 DEF TerminalSound

\* Its tombstones are of what no other record is of.
LEMMA CoherentTombstones ==
    ASSUME NEW c, Typed(c), Coherent(c)
    PROVE  TombstonesValid(c)
<1>1. ASSUME NEW e \in DOMAIN c.tombstones
      PROVE  /\ e \notin DOMAIN c.mail
             /\ AcceptanceOf(c, e) \cup TerminalOf(c, e) = {}
             /\ c.tombstones[e].seq < c.next
             /\ c.tombstones[e].seq \notin OfKind(c, "event_terminal")
  <2>1. /\ e \notin DOMAIN c.mail
        /\ \A s : ~Accepts(c, s, e) /\ ~Ends(c, s, e)
        /\ c.tombstones[e].seq < c.next
        /\ \A x : ~Ends(c, c.tombstones[e].seq, x)
    BY <1>1, Zenon DEF Coherent, TombstoneSound
  <2>2. AcceptanceOf(c, e) \cup TerminalOf(c, e) = {}
    BY <2>1, Members
  <2>3. c.tombstones[e].seq \notin OfKind(c, "event_terminal")
    BY <2>1 DEF Ends, OfKind
  <2>. QED
    BY <2>1, <2>2, <2>3
<1>2. ASSUME NEW s \in DOMAIN c.receipts, NEW ref \in c.receipts[s].refs,
             ref.kind = "internal_terminal"
      PROVE  \/ TerminalOf(c, ref.id) = {ref.n}
             \/ /\ TerminalOf(c, ref.id) = {}
                /\ ref.id \in DOMAIN c.tombstones /\ c.tombstones[ref.id].seq = ref.n
  <2>1. Refers(c, s, ref, ref.id)
    BY DEF Refers
  <2>2. Leads(c, ref.id, ref)
    BY <1>2, <2>1, Zenon DEF Coherent
  <2>3. CASE Ends(c, ref.n, ref.id)
    <3>1. \A u : Ends(c, u, ref.id) => u = ref.n
      BY <2>3, Zenon DEF Coherent, EndSound
    <3>. QED
      BY <2>3, <3>1, Members
  <2>4. CASE ~Ends(c, ref.n, ref.id)
    <3>1. TerminalOf(c, ref.id) = {}
      BY <2>2, <2>4, Members DEF Leads
    <3>. QED
      BY <2>2, <2>4, <3>1 DEF Leads
  <2>. QED
    BY <2>3, <2>4
<1>. QED
  BY <1>1, <1>2, Zenon DEF TombstonesValid

\* Its acceptance and queue sequences were allocated, and to one event each.
LEMMA CoherentAllocations ==
    ASSUME NEW c, Typed(c), Coherent(c)
    PROVE  AllocationsValid(c) /\ AcceptancesValid(c)
<1>1. PICK terminal : terminal = OfKind(c, "event_terminal")
  OBVIOUS
<1>2. PICK owners : owners = {<<c.mail[e].acc, e>> : e \in DOMAIN c.mail}
                \cup {<<c.receipts[s].acc, c.receipts[s].id>> :
                        s \in terminal \cup OfKind(c, "acceptance")}
                \cup {<<c.tombstones[e].acc, e>> : e \in DOMAIN c.tombstones}
  OBVIOUS
<1>3. PICK queues : queues = {<<c.mail[e].queue, e>> : e \in DOMAIN c.mail}
                \cup {<<c.receipts[s].queue, c.receipts[s].id>> : s \in terminal}
  OBVIOUS
<1>4. ASSUME NEW p \in owners PROVE Owns(c, p[1], p[2])
  <2>1. CASE \E e \in DOMAIN c.mail : p = <<c.mail[e].acc, e>>
    BY <2>1 DEF Owns
  <2>2. CASE \E s \in terminal \cup OfKind(c, "acceptance") :
               p = <<c.receipts[s].acc, c.receipts[s].id>>
    <3>1. PICK s \in terminal \cup OfKind(c, "acceptance") :
             p = <<c.receipts[s].acc, c.receipts[s].id>>
      BY <2>2
    <3>2. p[1] = c.receipts[s].acc /\ p[2] = c.receipts[s].id
      BY <3>1
    <3>3. Ends(c, s, p[2]) \/ Accepts(c, s, p[2])
      BY <1>1, <3>2 DEF Ends, Accepts, OfKind
    <3>. QED
      BY <3>2, <3>3 DEF Owns
  <2>3. CASE \E e \in DOMAIN c.tombstones : p = <<c.tombstones[e].acc, e>>
    BY <2>3 DEF Owns
  <2>. QED
    BY <1>2, <1>4, <2>1, <2>2, <2>3
<1>5. ASSUME NEW p \in queues PROVE Queues(c, p[1], p[2])
  <2>1. CASE \E e \in DOMAIN c.mail : p = <<c.mail[e].queue, e>>
    BY <2>1 DEF Queues
  <2>2. CASE \E s \in terminal : p = <<c.receipts[s].queue, c.receipts[s].id>>
    <3>1. PICK s \in terminal : p = <<c.receipts[s].queue, c.receipts[s].id>>
      BY <2>2
    <3>2. p[1] = c.receipts[s].queue /\ p[2] = c.receipts[s].id
      BY <3>1
    <3>3. Ends(c, s, p[2])
      BY <1>1, <3>2 DEF Ends, OfKind
    <3>. QED
      BY <3>2, <3>3 DEF Queues
  <2>. QED
    BY <1>3, <1>5, <2>1, <2>2
<1>6. OwnersSound(c) /\ QueuesSound(c)
  BY Zenon DEF Coherent
<1>7. \A x, y \in owners : x[1] = y[1] => x[2] = y[2]
  BY <1>4, <1>6, Zenon DEF OwnersSound
<1>8. \A x, y \in queues : x[1] = y[1] => x[2] = y[2]
  BY <1>5, <1>6, Zenon DEF QueuesSound
<1>9. c.root = "retained" =>
         (\A x \in owners : x[1] < c.nextAcc) /\ (\A x \in queues : x[1] < c.nextQueue)
  BY <1>4, <1>5, <1>6, Zenon DEF OwnersSound, QueuesSound
<1>10. AllocationsValid(c)
  BY <1>1, <1>2, <1>3, <1>7, <1>8, <1>9 DEF AllocationsValid
<1>11. AcceptancesValid(c)
  <2>1. ASSUME NEW s \in OfKind(c, "acceptance"), NEW e, e = c.receipts[s].id
        PROVE  AcceptanceOf(c, e) = {s} /\ (e \in DOMAIN c.mail \/ TerminalOf(c, e) # {})
    <3>1. Accepts(c, s, e)
      BY <2>1 DEF Accepts, OfKind
    <3>2. /\ \A u : Accepts(c, u, e) => u = s
          /\ e \in DOMAIN c.mail \/ \E u : Ends(c, u, e)
      BY <3>1, Zenon DEF Coherent, AcceptSound
    <3>. QED
      BY <3>1, <3>2, Members
  <2>. QED
    BY <2>1, Zenon DEF AcceptancesValid
<1>. QED
  BY <1>10, <1>11

\* A coherent checkpoint restores, if its receipts are without a gap.
LEMMA CoherentValid ==
    ASSUME NEW c, Typed(c), Coherent(c), SequencesValid(c)
    PROVE  SemanticsValid(c)
<1>1. ChronologyValid(c) /\ EffectsValid(c)
  BY Zenon DEF Coherent
<1>. QED
  BY Zenon, <1>1, CoherentReferences, CoherentPending, CoherentTerminals, CoherentTombstones,
     CoherentAllocations DEF SemanticsValid

-----------------------------------------------------------------------------
(* Operations that close entries, by what they may change.                 *)

\* Every sequence in use has been allocated.
Allocated(c) ==
    \A n, e : (Owns(c, n, e) => n < c.nextAcc) /\ (Queues(c, n, e) => n < c.nextQueue)

\* Entry e of mail is an emission of this step.
Fresher(c, mail, e) == e \in DOMAIN mail /\ e \notin DOMAIN c.mail

\* The reference to e once the entries of "gone" have been closed.
Placed(mail, gone, e) ==
    [id |-> e, acc |-> mail[e].acc,
     kind |-> IF e \in DOMAIN gone THEN "internal_terminal" ELSE "internal_mailbox",
     n |-> IF e \in DOMAIN gone THEN gone[e] ELSE mail[e].queue]

\* Entries keep what they say, and their sequences or get new ones; emissions get
\* new ids and sequences.
MailMoves(c, d, mail) ==
    /\ DOMAIN c.mail \subseteq DOMAIN mail
    /\ \A e \in DOMAIN mail : mail[e] \in Entry
    /\ \A e \in DOMAIN c.mail :
          /\ mail[e].body = c.mail[e].body /\ mail[e].acc = c.mail[e].acc
          /\ mail[e].queue = c.mail[e].queue \/ mail[e].queue >= c.nextQueue
    /\ \A e : Fresher(c, mail, e) =>
          /\ e \in {c.next} \X Nat
          /\ mail[e].body \in Internal
          /\ mail[e].acc >= c.nextAcc /\ mail[e].queue >= c.nextQueue
    /\ \A e, g \in DOMAIN mail :
          mail[e].acc = mail[g].acc \/ mail[e].queue = mail[g].queue => e = g
    /\ c.nextAcc <= d.nextAcc /\ c.nextQueue <= d.nextQueue
    /\ \A e \in DOMAIN mail : mail[e].acc < d.nextAcc /\ mail[e].queue < d.nextQueue

\* The entries of "gone" leave the mailboxes, each under a sequence of its own.
MailCloses(c, d, mail, gone) ==
    /\ DOMAIN gone \subseteq DOMAIN mail
    /\ DOMAIN d.mail = DOMAIN mail \ DOMAIN gone
    /\ \A e \in DOMAIN d.mail : d.mail[e] = mail[e]
    /\ \A e \in DOMAIN gone :
          gone[e] \in c.next .. d.next - 1 /\ (Fresher(c, mail, e) => gone[e] > c.next)
    /\ \A e, g \in DOMAIN gone : gone[e] = gone[g] => e = g
    /\ \A e : Fresher(c, mail, e) => c.next < d.next

\* The receipts written are those of the entries closed, and at most one more.
ReceiptsClose(c, d, mail, gone) ==
    /\ DOMAIN d.receipts = DOMAIN c.receipts \cup c.next .. d.next - 1
    /\ Retains(c.receipts, d.receipts)
    /\ \A s \in c.next .. d.next - 1 :
          /\ d.receipts[s].rev = d.revision
          /\ d.receipts[s].acc \in Nat /\ d.receipts[s].queue \in Nat
          /\ d.receipts[s].effects \subseteq {s}
          /\ d.receipts[s].kind = "maintenance_migration" => s = c.next
          /\ s = 0 => d.receipts[s].kind = "creation"
    /\ \A s, e : Accepts(d, s, e) <=> Accepts(c, s, e)
    /\ \A s, e : Ends(d, s, e) <=> Ends(c, s, e) \/ (e \in DOMAIN gone /\ gone[e] = s)
    /\ \A e \in DOMAIN gone :
          /\ d.receipts[gone[e]].body = mail[e].body
          /\ d.receipts[gone[e]].acc = mail[e].acc
          /\ d.receipts[gone[e]].queue = mail[e].queue

\* References follow, and the first receipt refers to the emissions.
ReferencesFollow(c, d, mail, gone) ==
    \A s, e, y : Refers(d, s, y, e) <=>
       \/ e \notin DOMAIN mail /\ Refers(c, s, y, e)
       \/ e \in DOMAIN c.mail /\ y = Placed(mail, gone, e) /\ \E x : Refers(c, s, x, e)
       \/ Fresher(c, mail, e) /\ y = Placed(mail, gone, e) /\ s = c.next

\* At most one effect is emitted, known by the first receipt.
EffectsFollow(c, d) ==
    /\ \E new \in SUBSET {c.next} :
          /\ DOMAIN d.pendingFx = DOMAIN c.pendingFx \cup new
          /\ EffectsOf(d.receipts) = EffectsOf(c.receipts) \cup new
    /\ d.terminalFx = c.terminalFx /\ d.tombstoneFx = c.tombstoneFx /\ d.nextFx = c.nextFx

\* d comes of c by an operation that closes the entries of "gone".
Closes(c, d, mail, gone) ==
    /\ Typed(c) /\ Below(c) /\ Traced(c) /\ Coherent(c) /\ Allocated(c)
    /\ Typed(d) /\ d.next >= c.next /\ d.revision = c.revision + 1
    /\ d.cutoff = c.cutoff /\ d.tombstones = c.tombstones
    /\ MailMoves(c, d, mail)
    /\ MailCloses(c, d, mail, gone)
    /\ ReceiptsClose(c, d, mail, gone)
    /\ ReferencesFollow(c, d, mail, gone)
    /\ EffectsFollow(c, d)

\* No record is of an id that the next step derives.
LEMMA NextUnknown ==
    ASSUME NEW c, Traced(c), c.next \in Nat, NEW e \in {c.next} \X Nat
    PROVE  /\ \A s : ~Accepts(c, s, e) /\ ~Ends(c, s, e)
           /\ \A s, x : ~Refers(c, s, x, e)
           /\ e \notin DOMAIN c.tombstones /\ e \notin DOMAIN c.mail
<1>1. ~Old(c, e)
  <2>1. PICK n \in Nat : e = <<c.next, n>>
    OBVIOUS
  <2>. QED
    BY <2>1 DEF Old
<1>2. \A s : ~Accepts(c, s, e) /\ ~Ends(c, s, e)
  BY <1>1 DEF Traced, ReceiptTraced, Accepts, Ends
<1>3. \A s, x : ~Refers(c, s, x, e)
  BY <1>1 DEF Traced, ReceiptTraced, Refers
<1>4. e \notin DOMAIN c.tombstones /\ e \notin DOMAIN c.mail
  BY <1>1, Zenon DEF Traced
<1>. QED
  BY <1>2, <1>3, <1>4

\* An emission is new: no record of c is of its id.
LEMMA FresherUnknown ==
    ASSUME NEW c, NEW d, NEW mail, NEW gone, Closes(c, d, mail, gone),
           NEW e, Fresher(c, mail, e)
    PROVE  /\ \A s : ~Accepts(c, s, e) /\ ~Ends(c, s, e)
           /\ \A s, x : ~Refers(c, s, x, e)
           /\ e \notin DOMAIN c.tombstones
<1>1. e \in {c.next} \X Nat
  BY Zenon DEF Closes, MailMoves
<1>2. Traced(c) /\ c.next \in Nat
  BY DEF Closes, Typed
<1>. QED
  BY <1>1, <1>2, NextUnknown

\* What an operation that closes entries leaves alone.
LEMMA ClosesParts ==
    ASSUME NEW c, NEW d, NEW mail, NEW gone, Closes(c, d, mail, gone)
    PROVE  /\ \A e \in DOMAIN c.mail : e \in DOMAIN mail
           /\ \A e \in DOMAIN gone : e \in DOMAIN mail
           /\ \A e : e \in DOMAIN d.mail <=> e \in DOMAIN mail /\ e \notin DOMAIN gone
           /\ \A s, e : Ends(c, s, e) => e \notin DOMAIN mail
<1>1. /\ \A e \in DOMAIN c.mail : e \in DOMAIN mail
      /\ \A e \in DOMAIN gone : e \in DOMAIN mail
  BY DEF Closes, MailMoves, MailCloses
<1>2. \A e : e \in DOMAIN d.mail <=> e \in DOMAIN mail /\ e \notin DOMAIN gone
  BY DEF Closes, MailCloses
<1>3. ASSUME NEW s, NEW e, Ends(c, s, e), e \in DOMAIN mail
      PROVE  FALSE
  <2>1. CASE e \in DOMAIN c.mail
    <3>1. EntrySound(c, e)
      BY <2>1, Zenon DEF Closes, Coherent
    <3>. QED
      BY <1>3, <3>1, Zenon DEF EntrySound
  <2>2. CASE e \notin DOMAIN c.mail
    <3>1. Fresher(c, mail, e)
      BY <1>3, <2>2 DEF Fresher
    <3>. QED
      BY <1>3, <3>1, FresherUnknown
  <2>. QED
    BY <2>1, <2>2
<1>. QED
  BY <1>1, <1>2, <1>3

\* References stay those of one producer, and keep to the kind of place they are of.
LEMMA ClosesReferences ==
    ASSUME NEW c, NEW d, NEW mail, NEW gone, Closes(c, d, mail, gone)
    PROVE  OneReference(d) /\ ReferenceKinds(d)
<1>1. \A s, e, y : Refers(d, s, y, e) =>
         \/ e \notin DOMAIN mail /\ Refers(c, s, y, e)
         \/ e \in DOMAIN c.mail /\ y = Placed(mail, gone, e) /\ \E x : Refers(c, s, x, e)
         \/ Fresher(c, mail, e) /\ y = Placed(mail, gone, e) /\ s = c.next
  BY Zenon DEF Closes, ReferencesFollow
<1>2. OneReference(c) /\ ReferenceKinds(c)
  BY Zenon DEF Closes, Coherent
<1>3. /\ \A e \in DOMAIN c.mail : e \in DOMAIN mail
      /\ \A e : e \in DOMAIN d.mail <=> e \in DOMAIN mail /\ e \notin DOMAIN gone
  BY Zenon, ClosesParts
<1>4. ASSUME NEW e, NEW s, NEW u, NEW x, NEW y, Refers(d, s, x, e), Refers(d, u, y, e)
      PROVE  s = u /\ x = y
  <2>1. CASE e \notin DOMAIN mail
    <3>1. Refers(c, s, x, e) /\ Refers(c, u, y, e)
      BY <1>1, <1>3, <1>4, <2>1 DEF Fresher
    <3>. QED
      BY <1>2, <3>1, Zenon DEF OneReference
  <2>2. CASE e \in DOMAIN c.mail
    <3>1. /\ x = Placed(mail, gone, e) /\ \E z : Refers(c, s, z, e)
          /\ y = Placed(mail, gone, e) /\ \E z : Refers(c, u, z, e)
      BY <1>1, <1>3, <1>4, <2>2, Zenon DEF Fresher
    <3>. QED
      BY <1>2, <3>1, Zenon DEF OneReference
  <2>3. CASE Fresher(c, mail, e)
    BY <1>1, <1>4, <2>3 DEF Fresher
  <2>. QED
    BY <2>1, <2>2, <2>3 DEF Fresher
<1>5. ASSUME NEW e, NEW s, NEW x, Refers(d, s, x, e)
      PROVE  x.kind = "internal_mailbox" <=> e \in DOMAIN d.mail
  <2>1. CASE e \notin DOMAIN mail
    <3>1. Refers(c, s, x, e) /\ e \notin DOMAIN c.mail
      BY <1>1, <1>3, <1>5, <2>1 DEF Fresher
    <3>. QED
      BY <1>2, <1>3, <2>1, <3>1, Zenon DEF ReferenceKinds
  <2>2. CASE e \in DOMAIN mail
    <3>1. x = Placed(mail, gone, e)
      BY <1>1, <1>5, <2>2, Zenon
    <3>. QED
      BY <1>3, <2>2, <3>1 DEF Placed
  <2>. QED
    BY <2>1, <2>2
<1>. QED
  BY <1>4, <1>5, Zenon DEF OneReference, ReferenceKinds

\* What waits after the operation has its evidence still.
LEMMA ClosesEntries ==
    ASSUME NEW c, NEW d, NEW mail, NEW gone, Closes(c, d, mail, gone), NEW e \in DOMAIN d.mail
    PROVE  EntrySound(d, e)
<1>1. /\ e \in DOMAIN mail /\ e \notin DOMAIN gone /\ \A s : ~Ends(c, s, e)
  BY ClosesParts
<1>2. d.mail[e] = mail[e]
  BY Zenon DEF Closes, MailCloses
<1>3. \A s : Accepts(d, s, e) <=> Accepts(c, s, e)
  BY Zenon DEF Closes, ReceiptsClose
<1>4. \A s : ~Ends(d, s, e)
  BY <1>1, Zenon DEF Closes, ReceiptsClose
<1>5. \A s, y : Refers(d, s, y, e) <=>
         \/ e \notin DOMAIN mail /\ Refers(c, s, y, e)
         \/ e \in DOMAIN c.mail /\ y = Placed(mail, gone, e) /\ \E x : Refers(c, s, x, e)
         \/ Fresher(c, mail, e) /\ y = Placed(mail, gone, e) /\ s = c.next
  BY Zenon DEF Closes, ReferencesFollow
<1>6. Placed(mail, gone, e).acc = mail[e].acc /\ Placed(mail, gone, e).n = mail[e].queue
  BY <1>1 DEF Placed
<1>7. \A s, y : Refers(d, s, y, e) => y = Placed(mail, gone, e)
  BY <1>1, <1>5
<1>8. CASE e \in DOMAIN c.mail
  <2>1. EntrySound(c, e)
    BY <1>8, Zenon DEF Closes, Coherent
  <2>2. /\ c.mail[e].body \notin Internal <=> \E s : Accepts(c, s, e)
        /\ c.mail[e].body \in Internal <=> \E s, x : Refers(c, s, x, e)
        /\ \A s : Accepts(c, s, e) =>
                 c.receipts[s].body = c.mail[e].body /\ c.receipts[s].acc = c.mail[e].acc
    BY <2>1, Zenon DEF EntrySound
  <2>3. mail[e].body = c.mail[e].body /\ mail[e].acc = c.mail[e].acc
    BY <1>8, Zenon DEF Closes, MailMoves
  <2>4. (\E s, x : Refers(d, s, x, e)) <=> \E s, x : Refers(c, s, x, e)
    <3>1. ASSUME NEW s, NEW x, Refers(d, s, x, e) PROVE \E z : Refers(c, s, z, e)
      <4>1. e \in DOMAIN mail /\ ~Fresher(c, mail, e)
        BY <1>1, <1>8 DEF Fresher
      <4>. QED
        BY <1>5, <3>1, <4>1
    <3>2. ASSUME NEW s, NEW x, Refers(c, s, x, e) PROVE Refers(d, s, Placed(mail, gone, e), e)
      BY <1>5, <1>8, <3>2, Zenon
    <3>. QED
      BY <3>1, <3>2, Zenon
  <2>5. ASSUME NEW s, Accepts(c, s, e)
        PROVE  d.receipts[s].body = c.receipts[s].body /\ d.receipts[s].acc = c.receipts[s].acc
    <3>1. s \in DOMAIN c.receipts
      BY <2>5 DEF Accepts
    <3>. QED
      BY <3>1, Zenon DEF Closes, ReceiptsClose, Retains, SaysSame
  <2>. QED
    BY <1>2, <1>3, <1>4, <1>6, <1>7, <2>2, <2>3, <2>4, <2>5 DEF EntrySound
<1>9. CASE e \notin DOMAIN c.mail
  <2>1. Fresher(c, mail, e)
    BY <1>1, <1>9 DEF Fresher
  <2>2. mail[e].body \in Internal
    BY <2>1, Zenon DEF Closes, MailMoves
  <2>3. \A s : ~Accepts(c, s, e)
    BY <2>1, Zenon, FresherUnknown
  <2>4. \E s, y : Refers(d, s, y, e)
    BY <1>5, <2>1
  <2>. QED
    BY <1>2, <1>3, <1>4, <1>6, <1>7, <2>2, <2>3, <2>4 DEF EntrySound
<1>. QED
  BY <1>8, <1>9

\* The sequences of c's receipts, and their revisions, are older than those written.
LEMMA ClosesLater ==
    ASSUME NEW c, NEW d, NEW mail, NEW gone, Closes(c, d, mail, gone), NEW a \in DOMAIN c.receipts
    PROVE  /\ a \in Nat /\ a < c.next /\ a \in DOMAIN d.receipts
           /\ SaysSame(d.receipts[a], c.receipts[a])
           /\ d.receipts[a].rev \in Int /\ d.receipts[a].rev < d.revision
<1>1. a < c.next /\ a \in Nat
  BY DEF Closes, Below, Typed, ReceiptsTyped
<1>2. a \in DOMAIN d.receipts /\ SaysSame(d.receipts[a], c.receipts[a])
  BY DEF Closes, ReceiptsClose, Retains
<1>3. c.receipts[a].rev \in Int
  BY Zenon DEF Closes, Traced, ReceiptTraced
<1>4. c.receipts[a].rev <= c.revision
  BY Zenon DEF Closes, Coherent, ChronologyValid
<1>5. c.revision \in Int /\ d.revision = c.revision + 1
  BY DEF Closes, Typed
<1>. QED
  BY <1>1, <1>2, <1>3, <1>4, <1>5 DEF SaysSame

\* What was done before has its evidence still.
LEMMA ClosesOldEnds ==
    ASSUME NEW c, NEW d, NEW mail, NEW gone, Closes(c, d, mail, gone),
           NEW s, NEW e, Ends(c, s, e)
    PROVE  EndSound(d, s, e)
<1>1. e \notin DOMAIN mail /\ e \notin DOMAIN gone
  BY ClosesParts
<1>2. /\ \A u : Accepts(d, u, e) <=> Accepts(c, u, e)
      /\ \A u : Ends(d, u, e) <=> Ends(c, u, e)
  BY <1>1, Zenon DEF Closes, ReceiptsClose
<1>3. \A u, y : Refers(d, u, y, e) <=> Refers(c, u, y, e)
  <2>1. e \notin DOMAIN c.mail /\ ~Fresher(c, mail, e)
    BY <1>1, ClosesParts DEF Fresher
  <2>. QED
    BY <1>1, <2>1, Zenon DEF Closes, ReferencesFollow
<1>4. EndSound(c, s, e)
  BY Zenon DEF Closes, Coherent
<1>5. /\ \A u : Ends(c, u, e) => u = s
      /\ \A a : Accepts(c, a, e) =>
                 /\ c.receipts[a].body = c.receipts[s].body
                 /\ c.receipts[a].acc = c.receipts[s].acc
                 /\ a < s /\ c.receipts[a].rev <= c.receipts[s].rev
      /\ \A u, x : Refers(c, u, x, e) =>
                 /\ x.n = s /\ x.acc = c.receipts[s].acc
                 /\ u < s /\ c.receipts[u].rev <= c.receipts[s].rev
      /\ ~ (\E a : Accepts(c, a, e)) \/ ~ (\E u, x : Refers(c, u, x, e))
      /\ c.cutoff = None => (\E a : Accepts(c, a, e)) \/ (\E u, x : Refers(c, u, x, e))
  BY <1>4, Zenon DEF EndSound
<1>6. \A a \in DOMAIN c.receipts : /\ d.receipts[a].body = c.receipts[a].body
                                   /\ d.receipts[a].acc = c.receipts[a].acc
                                   /\ d.receipts[a].rev = c.receipts[a].rev
  BY ClosesLater DEF SaysSame
<1>7. /\ s \in DOMAIN c.receipts
      /\ \A a : Accepts(c, a, e) => a \in DOMAIN c.receipts
      /\ \A u, x : Refers(c, u, x, e) => u \in DOMAIN c.receipts
  BY DEF Ends, Accepts, Refers
<1>8. \A a : Accepts(d, a, e) =>
                 /\ d.receipts[a].body = d.receipts[s].body
                 /\ d.receipts[a].acc = d.receipts[s].acc
                 /\ a < s /\ d.receipts[a].rev <= d.receipts[s].rev
  BY <1>2, <1>5, <1>6, <1>7
<1>9. \A u, x : Refers(d, u, x, e) =>
                 /\ x.n = s /\ x.acc = d.receipts[s].acc
                 /\ u < s /\ d.receipts[u].rev <= d.receipts[s].rev
  BY <1>3, <1>5, <1>6, <1>7
<1>10. d.cutoff = c.cutoff
  BY DEF Closes
<1>. QED
  BY <1>2, <1>3, <1>5, <1>8, <1>9, <1>10 DEF EndSound

\* So has what the operation closes.
LEMMA ClosesNewEnds ==
    ASSUME NEW c, NEW d, NEW mail, NEW gone, Closes(c, d, mail, gone),
           NEW e \in DOMAIN gone
    PROVE  EndSound(d, gone[e], e)
<1>1. e \in DOMAIN mail /\ \A s : ~Ends(c, s, e)
  BY ClosesParts
<1>2. PICK s : s = gone[e]
  OBVIOUS
<1>3. /\ \A u : Accepts(d, u, e) <=> Accepts(c, u, e)
      /\ \A u : Ends(d, u, e) => u = s
  BY <1>1, <1>2, Zenon DEF Closes, ReceiptsClose
<1>4. \A u, y : Refers(d, u, y, e) <=>
         \/ e \in DOMAIN c.mail /\ y = Placed(mail, gone, e) /\ \E x : Refers(c, u, x, e)
         \/ Fresher(c, mail, e) /\ y = Placed(mail, gone, e) /\ u = c.next
  BY <1>1, Zenon DEF Closes, ReferencesFollow
<1>5. /\ d.receipts[s].body = mail[e].body /\ d.receipts[s].acc = mail[e].acc
  BY <1>2, Zenon DEF Closes, ReceiptsClose
<1>6. s \in c.next .. d.next - 1 /\ c.next \in Nat /\ d.next \in Nat
      /\ (Fresher(c, mail, e) => s > c.next)
  BY <1>2, Zenon DEF Closes, MailCloses, Typed
<1>7. d.revision \in Int /\ \A u \in c.next .. d.next - 1 : d.receipts[u].rev = d.revision
  <2>1. \A u \in c.next .. d.next - 1 : d.receipts[u].rev = d.revision
    BY Zenon DEF Closes, ReceiptsClose
  <2>2. d.revision \in Int
    BY DEF Closes, Typed
  <2>. QED
    BY <2>1, <2>2
<1>8. Placed(mail, gone, e).acc = mail[e].acc /\ Placed(mail, gone, e).n = s
  BY <1>2 DEF Placed
<1>9. \A a \in DOMAIN c.receipts :
         /\ a \in Nat /\ a < c.next /\ SaysSame(d.receipts[a], c.receipts[a])
         /\ d.receipts[a].rev \in Int /\ d.receipts[a].rev < d.revision
  BY Zenon, ClosesLater
<1>10. ASSUME e \in DOMAIN c.mail
       PROVE  /\ c.mail[e].body \notin Internal <=> \E a : Accepts(c, a, e)
              /\ c.mail[e].body \in Internal <=> \E u, x : Refers(c, u, x, e)
              /\ \A a : Accepts(c, a, e) =>
                 c.receipts[a].body = c.mail[e].body /\ c.receipts[a].acc = c.mail[e].acc
              /\ mail[e].body = c.mail[e].body /\ mail[e].acc = c.mail[e].acc
  <2>1. EntrySound(c, e)
    BY <1>10, Zenon DEF Closes, Coherent
  <2>2. mail[e].body = c.mail[e].body /\ mail[e].acc = c.mail[e].acc
    BY <1>10, Zenon DEF Closes, MailMoves
  <2>. QED
    BY <2>1, <2>2, Zenon DEF EntrySound
<1>11. ASSUME Fresher(c, mail, e) PROVE \A a : ~Accepts(c, a, e)
  BY <1>11, Zenon, FresherUnknown
<1>12. e \in DOMAIN c.mail \/ Fresher(c, mail, e)
  BY <1>1 DEF Fresher
<1>13. ~(e \in DOMAIN c.mail /\ Fresher(c, mail, e))
  BY DEF Fresher
<1>14. ASSUME NEW a, Accepts(d, a, e)
       PROVE  /\ d.receipts[a].body = d.receipts[s].body
              /\ d.receipts[a].acc = d.receipts[s].acc
              /\ a < s /\ d.receipts[a].rev <= d.receipts[s].rev
  <2>1. Accepts(c, a, e) /\ e \in DOMAIN c.mail
    BY <1>3, <1>11, <1>12, <1>14
  <2>2. a \in DOMAIN c.receipts
    BY <2>1 DEF Accepts
  <2>3. c.receipts[a].body = mail[e].body /\ c.receipts[a].acc = mail[e].acc
    BY <1>10, <2>1
  <2>. QED
    BY <1>5, <1>6, <1>7, <1>9, <2>2, <2>3 DEF SaysSame
<1>15. ASSUME NEW u, NEW x, Refers(d, u, x, e)
       PROVE  /\ x.n = s /\ x.acc = d.receipts[s].acc
              /\ u < s /\ d.receipts[u].rev <= d.receipts[s].rev
  <2>1. x = Placed(mail, gone, e)
    BY <1>4, <1>15
  <2>2. CASE u \in DOMAIN c.receipts
    BY <1>5, <1>6, <1>7, <1>8, <1>9, <2>1, <2>2
  <2>3. CASE u \notin DOMAIN c.receipts
    <3>1. Fresher(c, mail, e) /\ u = c.next
      BY <1>4, <1>15, <2>3 DEF Refers
    <3>2. u \in c.next .. d.next - 1 /\ u < s
      BY <1>6, <3>1
    <3>. QED
      BY <1>5, <1>6, <1>7, <1>8, <2>1, <3>2
  <2>. QED
    BY <2>2, <2>3
<1>16. ~ (\E a : Accepts(d, a, e)) \/ ~ (\E u, x : Refers(d, u, x, e))
  BY <1>3, <1>4, <1>10, <1>11, <1>12, <1>13
<1>17. (\E a : Accepts(d, a, e)) \/ (\E u, x : Refers(d, u, x, e))
  BY <1>3, <1>4, <1>10, <1>12
<1>. QED
  BY <1>2, <1>3, <1>14, <1>15, <1>16, <1>17 DEF EndSound

\* All that is done has its evidence after the operation.
LEMMA ClosesEnds ==
    ASSUME NEW c, NEW d, NEW mail, NEW gone, Closes(c, d, mail, gone), NEW s, NEW e, Ends(d, s, e)
    PROVE  EndSound(d, s, e)
<1>1. Ends(c, s, e) \/ (e \in DOMAIN gone /\ gone[e] = s)
  BY Zenon DEF Closes, ReceiptsClose
<1>. QED
  BY <1>1, ClosesOldEnds, ClosesNewEnds

\* What was accepted waits still or is done.
LEMMA ClosesAcceptances ==
    ASSUME NEW c, NEW d, NEW mail, NEW gone, Closes(c, d, mail, gone),
           NEW s, NEW e, Accepts(d, s, e)
    PROVE  AcceptSound(d, s, e)
<1>1. \A u : Accepts(d, u, e) <=> Accepts(c, u, e)
  BY Zenon DEF Closes, ReceiptsClose
<1>2. \A u : Ends(d, u, e) <=> Ends(c, u, e) \/ (e \in DOMAIN gone /\ gone[e] = u)
  BY Zenon DEF Closes, ReceiptsClose
<1>3. /\ \A u : Accepts(c, u, e) => u = s
      /\ e \in DOMAIN c.mail \/ \E u : Ends(c, u, e)
  <2>1. AcceptSound(c, s, e)
    BY <1>1, Zenon DEF Closes, Coherent
  <2>. QED
    BY <2>1, Zenon DEF AcceptSound
<1>4. e \in DOMAIN c.mail => e \in DOMAIN d.mail \/ e \in DOMAIN gone
  BY ClosesParts
<1>. QED
  BY <1>1, <1>2, <1>3, <1>4 DEF AcceptSound

\* Tombstones stay the only records of what they stand for.
LEMMA ClosesTombstones ==
    ASSUME NEW c, NEW d, NEW mail, NEW gone, Closes(c, d, mail, gone),
           NEW e \in DOMAIN d.tombstones
    PROVE  TombstoneSound(d, e)
<1>1. d.tombstones = c.tombstones /\ e \in DOMAIN c.tombstones /\ d.next >= c.next
  BY DEF Closes
<1>2. /\ e \notin DOMAIN c.mail
      /\ \A s : ~Accepts(c, s, e) /\ ~Ends(c, s, e)
      /\ c.tombstones[e].seq < c.next
      /\ \A x : ~Ends(c, c.tombstones[e].seq, x)
  <2>1. TombstoneSound(c, e)
    BY <1>1, Zenon DEF Closes, Coherent
  <2>. QED
    BY <2>1, Zenon DEF TombstoneSound
<1>3. e \notin DOMAIN mail
  <2>1. ~Fresher(c, mail, e)
    BY <1>1, FresherUnknown
  <2>. QED
    BY <1>2, <2>1 DEF Fresher
<1>4. e \notin DOMAIN d.mail /\ e \notin DOMAIN gone
  BY <1>3, ClosesParts
<1>5. /\ \A s, x : Accepts(d, s, x) <=> Accepts(c, s, x)
      /\ \A s, x : Ends(d, s, x) <=> Ends(c, s, x) \/ (x \in DOMAIN gone /\ gone[x] = s)
  BY Zenon DEF Closes, ReceiptsClose
<1>6. PICK n : n = c.tombstones[e].seq
  OBVIOUS
<1>7. n \in Nat /\ c.next \in Nat /\ d.next \in Nat
  BY <1>1, <1>6 DEF Closes, Traced, Typed
<1>8. \A x \in DOMAIN gone : gone[x] \in c.next .. d.next - 1
  BY Zenon DEF Closes, MailCloses
<1>9. \A x \in DOMAIN gone : gone[x] # n
  BY <1>2, <1>6, <1>7, <1>8
<1>10. n < d.next
  BY <1>1, <1>2, <1>6, <1>7
<1>. QED
  BY <1>1, <1>2, <1>4, <1>5, <1>6, <1>9, <1>10 DEF TombstoneSound

\* A reference to what is done finds its terminal receipt or its tombstone.
LEMMA ClosesLeads ==
    ASSUME NEW c, NEW d, NEW mail, NEW gone, Closes(c, d, mail, gone),
           NEW e, NEW s, NEW x, Refers(d, s, x, e), x.kind = "internal_terminal"
    PROVE  Leads(d, e, x)
<1>1. \/ e \notin DOMAIN mail /\ Refers(c, s, x, e)
      \/ e \in DOMAIN mail /\ x = Placed(mail, gone, e)
  <2>1. \/ e \notin DOMAIN mail /\ Refers(c, s, x, e)
        \/ e \in DOMAIN c.mail /\ x = Placed(mail, gone, e) /\ \E y : Refers(c, s, y, e)
        \/ Fresher(c, mail, e) /\ x = Placed(mail, gone, e) /\ s = c.next
    BY Zenon DEF Closes, ReferencesFollow
  <2>. QED
    BY <2>1, ClosesParts DEF Fresher
<1>2. \A u : Ends(d, u, e) <=> Ends(c, u, e) \/ (e \in DOMAIN gone /\ gone[e] = u)
  BY Zenon DEF Closes, ReceiptsClose
<1>3. CASE e \in DOMAIN mail
  <2>1. x = Placed(mail, gone, e)
    BY <1>1, <1>3
  <2>2. e \in DOMAIN gone /\ x.n = gone[e]
    BY <2>1 DEF Placed
  <2>. QED
    BY <1>2, <2>2 DEF Leads
<1>4. CASE e \notin DOMAIN mail
  <2>1. Refers(c, s, x, e)
    BY <1>1, <1>4
  <2>2. Leads(c, e, x)
    BY <2>1, Zenon DEF Closes, Coherent
  <2>3. e \notin DOMAIN gone /\ d.tombstones = c.tombstones
    BY <1>4, ClosesParts DEF Closes
  <2>. QED
    BY <1>2, <2>2, <2>3 DEF Leads
<1>. QED
  BY <1>3, <1>4

\* Receipts written later have later revisions.
LEMMA ClosesChronology ==
    ASSUME NEW c, NEW d, NEW mail, NEW gone, Closes(c, d, mail, gone)
    PROVE  ChronologyValid(d)
<1>1. /\ DOMAIN d.receipts = DOMAIN c.receipts \cup c.next .. d.next - 1
      /\ \A s \in c.next .. d.next - 1 :
            /\ d.receipts[s].rev = d.revision
            /\ d.receipts[s].kind = "maintenance_migration" => s = c.next
  BY Zenon DEF Closes, ReceiptsClose
<1>2. \A a \in DOMAIN c.receipts :
         /\ a \in Nat /\ a < c.next /\ SaysSame(d.receipts[a], c.receipts[a])
         /\ d.receipts[a].rev \in Int /\ d.receipts[a].rev < d.revision
  BY Zenon, ClosesLater
<1>3. d.revision \in Int /\ c.next \in Nat /\ d.next \in Nat
  BY DEF Closes, Typed
<1>4. ChronologyValid(c)
  BY Zenon DEF Closes, Coherent
<1>5. ASSUME NEW s \in DOMAIN d.receipts
      PROVE  d.receipts[s].rev <= d.revision
  BY <1>1, <1>2, <1>3
<1>6. ASSUME NEW s \in DOMAIN d.receipts, NEW u \in DOMAIN d.receipts, u < s
      PROVE  IF d.receipts[s].kind = "maintenance_migration"
             THEN d.receipts[u].rev < d.receipts[s].rev
             ELSE d.receipts[u].rev <= d.receipts[s].rev
  <2>1. CASE s \in DOMAIN c.receipts
    <3>1. u \in DOMAIN c.receipts
      BY <1>1, <1>2, <1>3, <1>6, <2>1
    <3>2. /\ d.receipts[s].rev = c.receipts[s].rev /\ d.receipts[u].rev = c.receipts[u].rev
          /\ d.receipts[s].kind = c.receipts[s].kind
      BY <1>2, <2>1, <3>1 DEF SaysSame
    <3>. QED
      BY <1>4, <1>6, <2>1, <3>1, <3>2 DEF ChronologyValid
  <2>2. CASE s \notin DOMAIN c.receipts
    <3>1. s \in c.next .. d.next - 1 /\ d.receipts[s].rev = d.revision
      BY <1>1, <2>2
    <3>2. CASE u \in DOMAIN c.receipts
      BY <1>2, <1>3, <3>1, <3>2
    <3>3. CASE u \notin DOMAIN c.receipts
      <4>1. u \in c.next .. d.next - 1 /\ d.receipts[u].rev = d.revision
        BY <1>1, <3>3
      <4>2. s # c.next
        BY <1>3, <1>6, <3>1, <4>1
      <4>. QED
        BY <1>1, <1>3, <3>1, <4>1, <4>2
    <3>. QED
      BY <3>2, <3>3
  <2>. QED
    BY <2>1, <2>2
<1>. QED
  BY <1>5, <1>6 DEF ChronologyValid

\* Acceptance sequences stay those of one event, all below the counter.
LEMMA ClosesOwners ==
    ASSUME NEW c, NEW d, NEW mail, NEW gone, Closes(c, d, mail, gone)
    PROVE  OwnersSound(d) /\ \A n, e : Owns(d, n, e) => n < d.nextAcc
<1>1. ASSUME NEW n, NEW e, Owns(d, n, e)
      PROVE  Owns(c, n, e) \/ (Fresher(c, mail, e) /\ mail[e].acc = n)
  <2>1. ASSUME e \in DOMAIN mail, mail[e].acc = n
        PROVE  Owns(c, n, e) \/ (Fresher(c, mail, e) /\ mail[e].acc = n)
    <3>1. e \in DOMAIN c.mail => mail[e].acc = c.mail[e].acc
      BY Zenon DEF Closes, MailMoves
    <3>. QED
      BY <2>1, <3>1 DEF Owns, Fresher
  <2>2. CASE e \in DOMAIN d.mail /\ d.mail[e].acc = n
    <3>1. e \in DOMAIN mail /\ mail[e].acc = n
      <4>1. e \in DOMAIN mail
        BY <2>2, ClosesParts
      <4>2. d.mail[e] = mail[e]
        BY <2>2, Zenon DEF Closes, MailCloses
      <4>. QED
        BY <2>2, <4>1, <4>2
    <3>. QED
      BY <2>1, <3>1
  <2>3. CASE \E s : (Accepts(d, s, e) \/ Ends(d, s, e)) /\ d.receipts[s].acc = n
    <3>1. PICK s : (Accepts(d, s, e) \/ Ends(d, s, e)) /\ d.receipts[s].acc = n
      BY <2>3
    <3>2. Accepts(c, s, e) \/ Ends(c, s, e) \/ (e \in DOMAIN gone /\ gone[e] = s)
      BY <3>1, Zenon DEF Closes, ReceiptsClose
    <3>3. CASE Accepts(c, s, e) \/ Ends(c, s, e)
      <4>1. s \in DOMAIN c.receipts
        BY <3>3 DEF Accepts, Ends
      <4>2. d.receipts[s].acc = c.receipts[s].acc
        BY <4>1, ClosesLater DEF SaysSame
      <4>. QED
        BY <3>1, <3>3, <4>2 DEF Owns
    <3>4. CASE e \in DOMAIN gone /\ gone[e] = s
      <4>1. e \in DOMAIN mail /\ mail[e].acc = n
        <5>1. d.receipts[gone[e]].acc = mail[e].acc
          BY <3>4, Zenon DEF Closes, ReceiptsClose
        <5>2. e \in DOMAIN mail
          BY <3>4, ClosesParts
        <5>. QED
          BY <3>1, <3>4, <5>1, <5>2
      <4>. QED
        BY <2>1, <4>1
    <3>. QED
      BY <3>2, <3>3, <3>4
  <2>4. CASE e \in DOMAIN d.tombstones /\ d.tombstones[e].acc = n
    BY <2>4 DEF Closes, Owns
  <2>. QED
    BY <1>1, <2>2, <2>3, <2>4 DEF Owns
<1>2. /\ \A e : Fresher(c, mail, e) => mail[e].acc >= c.nextAcc
      /\ \A e, g \in DOMAIN mail : mail[e].acc = mail[g].acc => e = g
      /\ \A e \in DOMAIN mail : mail[e].acc < d.nextAcc
      /\ c.nextAcc <= d.nextAcc
  BY Zenon DEF Closes, MailMoves
<1>3. \A e \in DOMAIN mail : mail[e].acc \in Nat
  BY DEF Closes, MailMoves, Entry
<1>4. c.nextAcc \in Nat /\ d.nextAcc \in Nat
  BY DEF Closes, Typed
<1>5. \A n, e : Owns(c, n, e) => n \in Nat /\ n < c.nextAcc
  <2>1. \A n, e : Owns(c, n, e) => n < c.nextAcc
    BY Zenon DEF Closes, Allocated
  <2>2. ASSUME NEW n, NEW e, Owns(c, n, e) PROVE n \in Nat
    <3>1. Typed(c) /\ Traced(c)
      BY DEF Closes
    <3>2. (\A x \in DOMAIN c.mail : c.mail[x].acc \in Nat)
          /\ (\A s \in DOMAIN c.receipts : c.receipts[s].acc \in Nat)
          /\ (\A x \in DOMAIN c.tombstones : c.tombstones[x].acc \in Nat)
      BY <3>1 DEF Typed, EntriesTyped, Entry, Traced, ReceiptTraced
    <3>. QED
      BY <2>2, <3>2 DEF Owns, Accepts, Ends
  <2>. QED
    BY <2>1, <2>2
<1>6. \A e : Fresher(c, mail, e) => e \in DOMAIN mail
  BY DEF Fresher
<1>7. ASSUME NEW n, NEW e, NEW g, Owns(d, n, e), Owns(d, n, g)
      PROVE  e = g
  <2>1. \A x, y : Owns(c, n, x) /\ Owns(c, n, y) => x = y
    BY Zenon DEF Closes, Coherent, OwnersSound
  <2>2. /\ Owns(c, n, e) \/ (Fresher(c, mail, e) /\ mail[e].acc = n)
        /\ Owns(c, n, g) \/ (Fresher(c, mail, g) /\ mail[g].acc = n)
    BY <1>1, <1>7
  <2>3. ASSUME NEW x, NEW y, Owns(c, n, x), Fresher(c, mail, y), mail[y].acc = n PROVE FALSE
    BY <1>2, <1>3, <1>4, <1>5, <1>6, <2>3
  <2>. QED
    BY <1>2, <1>6, <2>1, <2>2, <2>3
<1>8. ASSUME NEW n, NEW e, Owns(d, n, e)
      PROVE  n < d.nextAcc
  BY <1>1, <1>2, <1>3, <1>4, <1>5, <1>6, <1>8
<1>. QED
  BY <1>7, <1>8 DEF OwnersSound

\* So do queue sequences.
LEMMA ClosesQueues ==
    ASSUME NEW c, NEW d, NEW mail, NEW gone, Closes(c, d, mail, gone)
    PROVE  QueuesSound(d) /\ \A n, e : Queues(d, n, e) => n < d.nextQueue
<1>1. ASSUME NEW n, NEW e, Queues(d, n, e)
      PROVE  Queues(c, n, e) \/ (e \in DOMAIN mail /\ mail[e].queue = n)
  <2>1. CASE e \in DOMAIN d.mail /\ d.mail[e].queue = n
    <3>1. e \in DOMAIN mail
      BY <2>1, ClosesParts
    <3>2. d.mail[e] = mail[e]
      BY <2>1, Zenon DEF Closes, MailCloses
    <3>. QED
      BY <2>1, <3>1, <3>2
  <2>2. CASE \E s : Ends(d, s, e) /\ d.receipts[s].queue = n
    <3>1. PICK s : Ends(d, s, e) /\ d.receipts[s].queue = n
      BY <2>2
    <3>2. Ends(c, s, e) \/ (e \in DOMAIN gone /\ gone[e] = s)
      BY <3>1, Zenon DEF Closes, ReceiptsClose
    <3>3. CASE Ends(c, s, e)
      <4>1. s \in DOMAIN c.receipts
        BY <3>3 DEF Ends
      <4>2. d.receipts[s].queue = c.receipts[s].queue
        BY <4>1, ClosesLater DEF SaysSame
      <4>. QED
        BY <3>1, <3>3, <4>2 DEF Queues
    <3>4. CASE e \in DOMAIN gone /\ gone[e] = s
      <4>1. d.receipts[gone[e]].queue = mail[e].queue
        BY <3>4, Zenon DEF Closes, ReceiptsClose
      <4>2. e \in DOMAIN mail
        BY <3>4, ClosesParts
      <4>. QED
        BY <3>1, <3>4, <4>1, <4>2
    <3>. QED
      BY <3>2, <3>3, <3>4
  <2>. QED
    BY <1>1, <2>1, <2>2 DEF Queues
<1>2. /\ \A e : Fresher(c, mail, e) => mail[e].queue >= c.nextQueue
      /\ \A e \in DOMAIN c.mail :
            mail[e].queue = c.mail[e].queue \/ mail[e].queue >= c.nextQueue
      /\ \A e, g \in DOMAIN mail : mail[e].queue = mail[g].queue => e = g
      /\ \A e \in DOMAIN mail : mail[e].queue < d.nextQueue
      /\ c.nextQueue <= d.nextQueue
  BY Zenon DEF Closes, MailMoves
<1>3. \A e \in DOMAIN mail : mail[e].queue \in Nat
  BY DEF Closes, MailMoves, Entry
<1>4. c.nextQueue \in Nat /\ d.nextQueue \in Nat
  BY DEF Closes, Typed
<1>5. \A n, e : Queues(c, n, e) => n \in Nat /\ n < c.nextQueue
  <2>1. \A n, e : Queues(c, n, e) => n < c.nextQueue
    BY Zenon DEF Closes, Allocated
  <2>2. ASSUME NEW n, NEW e, Queues(c, n, e) PROVE n \in Nat
    <3>1. Typed(c) /\ Traced(c)
      BY DEF Closes
    <3>2. (\A x \in DOMAIN c.mail : c.mail[x].queue \in Nat)
          /\ (\A s \in DOMAIN c.receipts : c.receipts[s].queue \in Nat)
      BY <3>1 DEF Typed, EntriesTyped, Entry, Traced, ReceiptTraced
    <3>. QED
      BY <2>2, <3>2 DEF Queues, Ends
  <2>. QED
    BY <2>1, <2>2
<1>6. ASSUME NEW e \in DOMAIN mail
      PROVE  Queues(c, mail[e].queue, e) \/ mail[e].queue >= c.nextQueue
  BY <1>2 DEF Fresher, Queues
<1>7. ASSUME NEW n, NEW e, NEW g, Queues(d, n, e), Queues(d, n, g)
      PROVE  e = g
  <2>1. \A x, y : Queues(c, n, x) /\ Queues(c, n, y) => x = y
    BY Zenon DEF Closes, Coherent, QueuesSound
  <2>2. /\ Queues(c, n, e) \/ (e \in DOMAIN mail /\ mail[e].queue = n)
        /\ Queues(c, n, g) \/ (g \in DOMAIN mail /\ mail[g].queue = n)
    BY <1>1, <1>7
  <2>3. ASSUME NEW x, NEW y, Queues(c, n, x), y \in DOMAIN mail, mail[y].queue = n
        PROVE  x = y
    <3>1. n \in Nat /\ n < c.nextQueue
      BY <1>5, <2>3
    <3>2. Queues(c, n, y)
      BY <1>4, <1>6, <2>3, <3>1
    <3>. QED
      BY <2>1, <2>3, <3>2
  <2>. QED
    BY <1>2, <2>1, <2>2, <2>3
<1>8. ASSUME NEW n, NEW e, Queues(d, n, e)
      PROVE  n < d.nextQueue
  BY <1>1, <1>2, <1>3, <1>4, <1>5, <1>8
<1>. QED
  BY <1>7, <1>8 DEF QueuesSound

\* The outbox keeps what restoring asks of it.
LEMMA ClosesEffects ==
    ASSUME NEW c, NEW d, NEW mail, NEW gone, Closes(c, d, mail, gone)
    PROVE  EffectsValid(d)
<1>1. PICK new \in SUBSET {c.next} :
         /\ DOMAIN d.pendingFx = DOMAIN c.pendingFx \cup new
         /\ EffectsOf(d.receipts) = EffectsOf(c.receipts) \cup new
  BY Zenon DEF Closes, EffectsFollow
<1>2. d.terminalFx = c.terminalFx /\ d.tombstoneFx = c.tombstoneFx /\ d.nextFx = c.nextFx
  BY DEF Closes, EffectsFollow
<1>3. c.next \notin EffectsOf(c.receipts)
  <2>1. ASSUME NEW s \in DOMAIN c.receipts PROVE c.next \notin c.receipts[s].effects
    <3>1. c.receipts[s].effects \subseteq {s}
      BY Zenon DEF Closes, Traced, ReceiptTraced
    <3>2. s < c.next /\ s \in Nat
      BY DEF Closes, Below, Typed, ReceiptsTyped
    <3>. QED
      BY <3>1, <3>2
  <2>. QED
    BY <2>1 DEF EffectsOf
<1>4. /\ DOMAIN c.pendingFx \cap DOMAIN c.terminalFx = {}
      /\ DOMAIN c.pendingFx \cap DOMAIN c.tombstoneFx = {}
      /\ DOMAIN c.terminalFx \cap DOMAIN c.tombstoneFx = {}
      /\ EffectsOf(c.receipts)
         = DOMAIN c.pendingFx \cup DOMAIN c.terminalFx \cup DOMAIN c.tombstoneFx
      /\ \A f, g \in DOMAIN c.terminalFx \cup DOMAIN c.tombstoneFx :
             LET settled == Merge(c.terminalFx, c.tombstoneFx)
             IN settled[f].seq < c.nextFx /\ (settled[f].seq = settled[g].seq => f = g)
  BY Zenon DEF Closes, Coherent, EffectsValid
<1>5. /\ DOMAIN d.pendingFx \cap DOMAIN d.terminalFx = {}
      /\ DOMAIN d.pendingFx \cap DOMAIN d.tombstoneFx = {}
      /\ DOMAIN d.terminalFx \cap DOMAIN d.tombstoneFx = {}
      /\ EffectsOf(d.receipts)
         = DOMAIN d.pendingFx \cup DOMAIN d.terminalFx \cup DOMAIN d.tombstoneFx
  BY <1>1, <1>2, <1>3, <1>4
<1>. QED
  BY <1>2, <1>4, <1>5, Zenon DEF EffectsValid

\* The operation leaves a coherent checkpoint.
LEMMA ClosesCoherent ==
    ASSUME NEW c, NEW d, NEW mail, NEW gone, Closes(c, d, mail, gone)
    PROVE  Coherent(d) /\ Allocated(d)
<1>1. OneReference(d) /\ ReferenceKinds(d)
  BY Zenon, ClosesReferences
<1>2. \A e \in DOMAIN d.mail : EntrySound(d, e)
  BY Zenon, ClosesEntries
<1>3. \A s, e : Ends(d, s, e) => EndSound(d, s, e)
  BY Zenon, ClosesEnds
<1>4. \A s, e : Accepts(d, s, e) => AcceptSound(d, s, e)
  BY Zenon, ClosesAcceptances
<1>5. \A e \in DOMAIN d.tombstones : TombstoneSound(d, e)
  BY Zenon, ClosesTombstones
<1>6. \A e, s, x : Refers(d, s, x, e) /\ x.kind = "internal_terminal" => Leads(d, e, x)
  BY Zenon, ClosesLeads
<1>7. ChronologyValid(d) /\ EffectsValid(d)
  BY Zenon, ClosesChronology, ClosesEffects
<1>8. OwnersSound(d) /\ \A n, e : Owns(d, n, e) => n < d.nextAcc
  BY Zenon, ClosesOwners
<1>9. QueuesSound(d) /\ \A n, e : Queues(d, n, e) => n < d.nextQueue
  BY Zenon, ClosesQueues
<1>. QED
  BY Zenon, <1>1, <1>2, <1>3, <1>4, <1>5, <1>6, <1>7, <1>8, <1>9 DEF Coherent, Allocated

\* A reference names its emission.
LEMMA ReferencesRefer ==
    ASSUME NEW c, NEW s \in DOMAIN c.receipts, NEW x \in c.receipts[s].refs
    PROVE  Refers(c, s, x, x.id)
  BY DEF Refers

\* What it writes can be traced too.
LEMMA ClosesTraced ==
    ASSUME NEW c, NEW d, NEW mail, NEW gone, Closes(c, d, mail, gone)
    PROVE  Traced(d)
<1>1. Traced(c) /\ c.next \in Nat /\ d.next \in Nat /\ c.next <= d.next
  BY DEF Closes, Typed
<1>2. \A e : Old(c, e) => Old(d, e)
  BY <1>1 DEF Old
<1>3. \A e \in DOMAIN mail : Old(d, e)
  <2>1. ASSUME NEW e \in DOMAIN mail, e \in DOMAIN c.mail PROVE Old(d, e)
    BY <1>1, <1>2, <2>1 DEF Traced
  <2>2. ASSUME NEW e \in DOMAIN mail, e \notin DOMAIN c.mail PROVE Old(d, e)
    <3>1. Fresher(c, mail, e)
      BY <2>2 DEF Fresher
    <3>2. e \in {c.next} \X Nat /\ c.next < d.next
      BY <3>1, Zenon DEF Closes, MailMoves, MailCloses
    <3>3. PICK n \in Nat : e = <<c.next, n>>
      BY <3>2
    <3>. QED
      BY <3>2, <3>3 DEF Old
  <2>. QED
    BY <2>1, <2>2
<1>4. \A s, x, e : Refers(d, s, x, e) =>
         Old(d, e) /\ (x.kind = "internal_mailbox" => e \in DOMAIN d.mail)
  <2>1. ASSUME NEW s, NEW x, NEW e, Refers(d, s, x, e) PROVE Old(d, e)
    <3>1. Refers(c, s, x, e) \/ e \in DOMAIN mail
      <4>1. \/ e \notin DOMAIN mail /\ Refers(c, s, x, e)
            \/ e \in DOMAIN c.mail /\ x = Placed(mail, gone, e) /\ \E y : Refers(c, s, y, e)
            \/ Fresher(c, mail, e) /\ x = Placed(mail, gone, e) /\ s = c.next
        BY <2>1, Zenon DEF Closes, ReferencesFollow
      <4>. QED
        BY <4>1, ClosesParts DEF Fresher
    <3>2. Refers(c, s, x, e) => Old(c, e)
      BY <1>1 DEF Traced, ReceiptTraced, Refers
    <3>. QED
      BY <1>2, <1>3, <3>1, <3>2
  <2>2. ReferenceKinds(d)
    BY Zenon, ClosesReferences
  <2>. QED
    BY <2>1, <2>2 DEF ReferenceKinds
<1>5. ASSUME NEW s \in DOMAIN d.receipts
      PROVE  ReceiptTraced(d, s)
  <2>1. \A x \in d.receipts[s].refs :
          Old(d, x.id) /\ (x.kind = "internal_mailbox" => x.id \in DOMAIN d.mail)
    BY <1>4, ReferencesRefer
  <2>2. CASE s \in DOMAIN c.receipts
    <3>1. ReceiptTraced(c, s) /\ SaysSame(d.receipts[s], c.receipts[s])
      BY <1>1, <2>2, ClosesLater DEF Traced
    <3>2. /\ c.receipts[s].acc \in Nat /\ c.receipts[s].queue \in Nat /\ c.receipts[s].rev \in Int
          /\ c.receipts[s].effects \subseteq {s}
          /\ c.receipts[s].kind \in {"acceptance", "event_terminal"} => Old(c, c.receipts[s].id)
      BY <3>1 DEF ReceiptTraced
    <3>3. /\ d.receipts[s].acc = c.receipts[s].acc /\ d.receipts[s].queue = c.receipts[s].queue
          /\ d.receipts[s].rev = c.receipts[s].rev /\ d.receipts[s].kind = c.receipts[s].kind
          /\ d.receipts[s].effects = c.receipts[s].effects /\ d.receipts[s].id = c.receipts[s].id
      BY <3>1 DEF SaysSame
    <3>. QED
      BY <1>2, <2>1, <3>2, <3>3 DEF ReceiptTraced
  <2>3. CASE s \notin DOMAIN c.receipts
    <3>1. s \in c.next .. d.next - 1
      BY <2>3 DEF Closes, ReceiptsClose
    <3>2. /\ d.receipts[s].rev = d.revision
          /\ d.receipts[s].acc \in Nat /\ d.receipts[s].queue \in Nat
          /\ d.receipts[s].effects \subseteq {s}
      BY <3>1, Zenon DEF Closes, ReceiptsClose
    <3>3. d.revision \in Int
      BY DEF Closes, Typed
    <3>4. ASSUME d.receipts[s].kind = "acceptance" PROVE FALSE
      <4>1. Accepts(d, s, d.receipts[s].id)
        BY <3>4 DEF Accepts
      <4>2. Accepts(c, s, d.receipts[s].id)
        BY <4>1, Zenon DEF Closes, ReceiptsClose
      <4>. QED
        BY <2>3, <4>2 DEF Accepts
    <3>5. ASSUME d.receipts[s].kind = "event_terminal" PROVE Old(d, d.receipts[s].id)
      <4>1. PICK e : e = d.receipts[s].id
        OBVIOUS
      <4>2. Ends(d, s, e)
        BY <3>5, <4>1 DEF Ends
      <4>3. Ends(c, s, e) \/ e \in DOMAIN gone
        BY <4>2, Zenon DEF Closes, ReceiptsClose
      <4>4. e \in DOMAIN gone
        BY <2>3, <4>3 DEF Ends
      <4>. QED
        BY <1>3, <4>1, <4>4, ClosesParts
    <3>. QED
      BY <2>1, <3>2, <3>3, <3>4, <3>5 DEF ReceiptTraced
  <2>. QED
    BY <2>2, <2>3
<1>6. \A e \in DOMAIN d.mail : Old(d, e)
  BY <1>3, ClosesParts
<1>7. \A e \in DOMAIN d.tombstones :
          Old(d, e) /\ d.tombstones[e].acc \in Nat /\ d.tombstones[e].seq \in Nat
  BY <1>1, <1>2 DEF Closes, Traced
<1>8. d.terminalFx = c.terminalFx /\ d.tombstoneFx = c.tombstoneFx
  BY DEF Closes, EffectsFollow
<1>. QED
  BY <1>1, <1>5, <1>6, <1>7, <1>8 DEF Traced

\* Receipts stay without a gap.
LEMMA ClosesSequences ==
    ASSUME NEW c, NEW d, NEW mail, NEW gone, Closes(c, d, mail, gone),
           \/ SequencesValid(c)
           \/ c.next = 0 /\ c.cutoff = None /\ DOMAIN c.receipts = {} /\ d.next > 0
    PROVE  SequencesValid(d)
<1>1. DOMAIN d.receipts = DOMAIN c.receipts \cup c.next .. d.next - 1
  BY Zenon DEF Closes, ReceiptsClose
<1>2. /\ c.next \in Nat /\ d.next \in Nat /\ c.next <= d.next /\ d.cutoff = c.cutoff
      /\ c.cutoff \in Nat \cup {None}
  BY DEF Closes, Typed
<1>3. CASE SequencesValid(c)
  <2>1. c.cutoff < c.next /\ c.receipts[0].kind = "creation" /\ 0 \in DOMAIN c.receipts
    BY <1>3 DEF SequencesValid
  <2>2. 0 < c.next
    BY <1>2, <2>1 DEF Closes, Below
  <2>3. d.receipts[0].kind = "creation"
    BY <2>1, ClosesLater DEF SaysSame
  <2>. QED
    BY <1>1, <1>2, <1>3, <2>1, <2>2, <2>3 DEF SequencesValid, None
<1>4. CASE c.next = 0 /\ c.cutoff = None /\ DOMAIN c.receipts = {} /\ d.next > 0
  <2>1. 0 \in c.next .. d.next - 1
    BY <1>2, <1>4
  <2>2. d.receipts[0].kind = "creation"
    BY <2>1, Zenon DEF Closes, ReceiptsClose
  <2>. QED
    BY <1>1, <1>2, <1>4, <2>2 DEF SequencesValid, None
<1>. QED
  BY <1>3, <1>4

\* It restores.
LEMMA ClosesValid ==
    ASSUME NEW c, NEW d, NEW mail, NEW gone, Closes(c, d, mail, gone),
           \/ SequencesValid(c)
           \/ c.next = 0 /\ c.cutoff = None /\ DOMAIN c.receipts = {} /\ d.next > 0
    PROVE  SemanticsValid(d) /\ Traced(d)
<1>1. Typed(d)
  BY DEF Closes
<1>2. Coherent(d) /\ SequencesValid(d)
  BY ClosesCoherent, ClosesSequences
<1>. QED
  BY <1>1, <1>2, CoherentValid, ClosesTraced

-----------------------------------------------------------------------------
(* What closing writes: receipts, references and their sequences.          *)

\* The receipt an operation writes of itself.
OwnReceipt(c, mail, gone, x) ==
    /\ ReceiptTyped(x) /\ x.kind # "acceptance"
    /\ x.rev = c.revision + 1 /\ x.acc \in Nat /\ x.queue \in Nat
    /\ x.effects \subseteq {c.next}
    /\ c.next = 0 => x.kind = "creation"
    /\ x.refs = {[id |-> e, acc |-> mail[e].acc, kind |-> "internal_mailbox",
                  n |-> mail[e].queue] : e \in {g \in DOMAIN mail : Fresher(c, mail, g)}}
    /\ IF x.kind = "event_terminal"
       THEN /\ x.id \in DOMAIN gone /\ gone[x.id] = c.next
            /\ x.body = mail[x.id].body /\ x.acc = mail[x.id].acc /\ x.queue = mail[x.id].queue
       ELSE \A e \in DOMAIN gone : gone[e] # c.next

\* The sequences of what is closed and written are the next k.
Numbering(c, mail, gone, own, k) ==
    /\ k \in Nat
    /\ DOMAIN gone \subseteq DOMAIN mail
    /\ \A e, g \in DOMAIN gone : gone[e] = gone[g] => e = g
    /\ {gone[e] : e \in DOMAIN gone} \cup DOMAIN own = c.next .. c.next + k - 1
    /\ DOMAIN own \subseteq {c.next}
    /\ \A e : Fresher(c, mail, e) =>
          c.next \in DOMAIN own /\ (e \in DOMAIN gone => gone[e] # c.next)
    /\ c.next = 0 => 0 \in DOMAIN own
    /\ \A s \in DOMAIN own : OwnReceipt(c, mail, gone, own[s])

\* A reference to a mailbox follows its entry.
LEMMA SyncPlaced ==
    ASSUME NEW mail, NEW gone, NEW x \in Reference, x.kind = "internal_mailbox",
           x.id \in DOMAIN mail, x.acc = mail[x.id].acc
    PROVE  Sync(x, Restrict(mail, DOMAIN mail \ DOMAIN gone), gone) = Placed(mail, gone, x.id)
<1>1. PICK e : e = x.id
  OBVIOUS
<1>2. PICK acc, q : acc = mail[e].acc /\ q = x.n
  OBVIOUS
<1>3. x = [id |-> e, acc |-> acc, kind |-> "internal_mailbox", n |-> q]
  BY <1>1, <1>2 DEF Reference
<1>4. PICK kept : kept = Restrict(mail, DOMAIN mail \ DOMAIN gone)
  OBVIOUS
<1>5. CASE e \in DOMAIN gone
  <2>1. PICK n : n = gone[x.id]
    OBVIOUS
  <2>2. x.kind = "internal_mailbox" /\ x.id \in DOMAIN gone /\ x.id \notin DOMAIN kept
    BY <1>1, <1>4, <1>5 DEF Restrict
  <2>3. Sync(x, kept, gone) = [x EXCEPT !.kind = "internal_terminal", !.n = n]
    BY <2>1, <2>2 DEF Sync
  <2>4. PICK y : y = [x EXCEPT !.kind = "internal_terminal", !.n = n]
    OBVIOUS
  <2>5. y = [id |-> e, acc |-> acc, kind |-> "internal_terminal", n |-> n]
    BY <1>3, <2>4
  <2>. QED
    BY <1>1, <1>2, <1>4, <1>5, <2>1, <2>3, <2>4, <2>5 DEF Placed
<1>6. CASE e \notin DOMAIN gone
  <2>1. e \in DOMAIN kept /\ kept[e] = mail[e]
    BY <1>1, <1>4, <1>6 DEF Restrict
  <2>2. PICK n : n = mail[e].queue
    OBVIOUS
  <2>3. Sync(x, kept, gone) = [x EXCEPT !.n = n]
    BY <1>1, <1>6, <2>1, <2>2 DEF Sync
  <2>4. [x EXCEPT !.n = n]
        = [id |-> e, acc |-> acc, kind |-> "internal_mailbox", n |-> n]
    BY <1>3
  <2>. QED
    BY <1>1, <1>2, <1>4, <1>6, <2>2, <2>3, <2>4 DEF Placed
<1>. QED
  BY <1>5, <1>6

\* References that follow the entries of mail when those of "gone" are closed.
Follow(refs, mail, gone) ==
    {Sync(ref, Restrict(mail, DOMAIN mail \ DOMAIN gone), gone) : ref \in refs}

\* The receipts after closing: those there were, the operation's own, and one for
\* each entry closed, k in all.
Wrote(c, receipts, mail, gone, own, k, rev) ==
    /\ DOMAIN receipts = DOMAIN c.receipts \cup c.next .. c.next + k - 1
    /\ \A s \in DOMAIN c.receipts :
          /\ SaysSame(receipts[s], c.receipts[s])
          /\ receipts[s].refs = Follow(c.receipts[s].refs, mail, gone)
    /\ \A s \in DOMAIN own :
          /\ SaysSame(receipts[s], own[s])
          /\ receipts[s].refs = Follow(own[s].refs, mail, gone)
    /\ \A e \in DOMAIN gone : gone[e] \notin DOMAIN own =>
          /\ SaysSame(receipts[gone[e]], Receipt("event_terminal", e, mail[e], rev))
          /\ receipts[gone[e]].refs = {}

\* What closing writes: a receipt for each entry closed after those of the
\* operation's own, and references that follow their entries.
LEMMA ClosedWrites ==
    ASSUME NEW c, Typed(c), Below(c), NEW mail, EntriesTyped(mail), NEW gone, NEW own, NEW k,
           Numbering(c, mail, gone, own, k), NEW rev, NEW receipts,
           receipts = Synchronized(Merge(Merge(own, TerminalReceipts(mail, gone, rev)), c.receipts),
                                   Restrict(mail, DOMAIN mail \ DOMAIN gone), gone)
    PROVE  /\ Wrote(c, receipts, mail, gone, own, k, rev)
           /\ Cardinality(DOMAIN Merge(own, TerminalReceipts(mail, gone, rev))) = k
<1>1. PICK kept : kept = Restrict(mail, DOMAIN mail \ DOMAIN gone)
  OBVIOUS
<1>2. PICK terminal : terminal = TerminalReceipts(mail, gone, rev)
  OBVIOUS
<1>3. PICK added : added = Merge(own, terminal)
  OBVIOUS
<1>4. PICK merged : merged = Merge(added, c.receipts)
  OBVIOUS
<1>5. receipts = Synchronized(merged, kept, gone)
  BY <1>1, <1>2, <1>3, <1>4
<1>6. DOMAIN terminal = {gone[e] : e \in DOMAIN gone}
  BY <1>2 DEF TerminalReceipts
<1>7. DOMAIN added = c.next .. c.next + k - 1
  BY <1>3, <1>6 DEF Merge, Numbering
<1>8. DOMAIN added \cap DOMAIN c.receipts = {}
  <2>1. \A s \in DOMAIN c.receipts : s \in Nat /\ s < c.next
    BY DEF Below, Typed, ReceiptsTyped
  <2>. QED
    BY <1>7, <2>1 DEF Typed, Numbering
<1>9. /\ DOMAIN merged = DOMAIN added \cup DOMAIN c.receipts
      /\ \A s \in DOMAIN added : merged[s] = added[s]
      /\ \A s \in DOMAIN c.receipts : merged[s] = c.receipts[s]
  BY <1>4, <1>8 DEF Merge
<1>10. ASSUME NEW e \in DOMAIN gone
       PROVE  /\ gone[e] \in DOMAIN terminal
              /\ terminal[gone[e]] = Receipt("event_terminal", e, mail[e], rev)
  <2>1. PICK g : g = CHOOSE x \in DOMAIN gone : gone[x] = gone[e]
    OBVIOUS
  <2>2. g \in DOMAIN gone /\ gone[g] = gone[e]
    BY <2>1, Zenon
  <2>3. g = e
    BY <2>2, Zenon DEF Numbering
  <2>4. gone[e] \in {gone[x] : x \in DOMAIN gone}
    OBVIOUS
  <2>5. terminal[gone[e]] = Receipt("event_terminal", g, mail[g], rev)
    BY <1>2, <2>1, <2>4, Zenon DEF TerminalReceipts
  <2>. QED
    BY <1>6, <2>3, <2>4, <2>5
<1>11. /\ \A s \in DOMAIN own : s \in DOMAIN added /\ added[s] = own[s]
       /\ \A s \in DOMAIN terminal : s \notin DOMAIN own => s \in DOMAIN added /\ added[s] = terminal[s]
  BY <1>3 DEF Merge
<1>12. ReceiptsTyped(merged)
  <2>1. ASSUME NEW s \in DOMAIN own PROVE s \in Nat /\ ReceiptTyped(own[s])
    BY <2>1 DEF Numbering, OwnReceipt, Typed
  <2>2. ASSUME NEW s \in DOMAIN terminal PROVE s \in Nat /\ ReceiptTyped(terminal[s])
    <3>1. PICK e \in DOMAIN gone : gone[e] = s
      BY <1>6, <2>2
    <3>2. mail[e].body \in Bodies
      BY DEF Numbering, EntriesTyped, Entry
    <3>3. s \in c.next .. c.next + k - 1
      BY <3>1 DEF Numbering
    <3>4. s \in Nat
      BY <3>3 DEF Typed, Numbering
    <3>5. terminal[s] = Receipt("event_terminal", e, mail[e], rev)
      BY <1>10, <3>1
    <3>6. ReceiptTyped(terminal[s])
      BY <3>2, <3>5 DEF Receipt, ReceiptTyped, IsReceipt, ReceiptFields, Kinds
    <3>. QED
      BY <3>4, <3>6
  <2>3. ReceiptsTyped(own) /\ ReceiptsTyped(terminal)
    BY <2>1, <2>2 DEF ReceiptsTyped
  <2>4. ReceiptsTyped(added)
    BY <1>3, <2>3, MergedTyped
  <2>. QED
    BY <1>4, <2>4, MergedTyped DEF Typed
<1>13. DOMAIN receipts = DOMAIN merged
  BY <1>5, Zenon DEF Synchronized
<1>14. ASSUME NEW s \in DOMAIN merged
       PROVE  /\ SaysSame(receipts[s], merged[s])
              /\ receipts[s].refs = Follow(merged[s].refs, mail, gone)
  <2>1. PICK x : x = merged[s]
    OBVIOUS
  <2>2. IsReceipt(x)
    BY <1>12, <2>1 DEF ReceiptsTyped, ReceiptTyped
  <2>3. PICK refs : refs = {Sync(ref, kept, gone) : ref \in x.refs}
    OBVIOUS
  <2>4. receipts[s] = [x EXCEPT !.refs = {Sync(ref, kept, gone) : ref \in @}]
    BY <1>5, <2>1, Zenon DEF Synchronized
  <2>5. receipts[s] = [x EXCEPT !.refs = refs]
    BY <2>2, <2>3, <2>4 DEF IsReceipt, ReceiptFields
  <2>6. PICK y : y = receipts[s]
    OBVIOUS
  <2>7. SaysSame(y, x) /\ y.refs = refs
    BY <2>2, <2>5, <2>6 DEF IsReceipt, ReceiptFields, SaysSame
  <2>. QED
    BY <1>1, <2>1, <2>3, <2>6, <2>7 DEF Follow
<1>15. ASSUME NEW e \in DOMAIN gone, gone[e] \notin DOMAIN own
       PROVE  /\ SaysSame(receipts[gone[e]], Receipt("event_terminal", e, mail[e], rev))
              /\ receipts[gone[e]].refs = {}
  <2>1. merged[gone[e]] = Receipt("event_terminal", e, mail[e], rev) /\ gone[e] \in DOMAIN merged
    BY <1>9, <1>10, <1>11, <1>15
  <2>2. Receipt("event_terminal", e, mail[e], rev).refs = {}
    BY DEF Receipt
  <2>. QED
    BY <1>14, <2>1, <2>2 DEF Follow
<1>16. ASSUME NEW s \in DOMAIN own
       PROVE  /\ SaysSame(receipts[s], own[s])
              /\ receipts[s].refs = Follow(own[s].refs, mail, gone)
  <2>1. s \in DOMAIN merged /\ merged[s] = own[s]
    BY <1>9, <1>11
  <2>. QED
    BY <1>14, <2>1
<1>17. ASSUME NEW s \in DOMAIN c.receipts
       PROVE  /\ SaysSame(receipts[s], c.receipts[s])
              /\ receipts[s].refs = Follow(c.receipts[s].refs, mail, gone)
  <2>1. s \in DOMAIN merged /\ merged[s] = c.receipts[s]
    BY <1>9
  <2>. QED
    BY <1>14, <2>1
<1>18. Cardinality(DOMAIN added) = k
  <2>1. c.next \in Nat /\ k \in Nat
    BY DEF Typed, Numbering
  <2>2. PICK lo, hi : lo = c.next /\ hi = c.next + k - 1
    OBVIOUS
  <2>3. lo \in Int /\ hi \in Int
    BY <2>1, <2>2
  <2>4. Cardinality(lo .. hi) = IF lo > hi THEN 0 ELSE hi - lo + 1
    BY <2>3, FS_Interval
  <2>. QED
    BY <1>7, <2>1, <2>2, <2>4
<1>. QED
  BY <1>2, <1>3, <1>7, <1>9, <1>13, <1>15, <1>16, <1>17, <1>18 DEF Wrote

\* d is what closing makes of c, but for what else the operation sets.
ClosedAs(c, d, mail, gone, own) ==
    LET e == Closed(Mutated(c), mail, gone, own)
    IN d.mail = e.mail /\ d.receipts = e.receipts /\ d.next = e.next

\* A candidate built by closing is of that form.
LEMMA ClosedAsWrote ==
    ASSUME NEW c, Typed(c), Below(c), NEW mail, EntriesTyped(mail), NEW gone, NEW own, NEW k,
           Numbering(c, mail, gone, own, k), NEW d, ClosedAs(c, d, mail, gone, own)
    PROVE  /\ d.mail = Restrict(mail, DOMAIN mail \ DOMAIN gone)
           /\ d.next = c.next + k
           /\ Wrote(c, d.receipts, mail, gone, own, k, c.revision + 1)
<1>1. PICK m : m = Mutated(c)
  OBVIOUS
<1>2. /\ m.revision = c.revision + 1 /\ m.receipts = c.receipts /\ m.next = c.next /\ Shaped(m)
  BY <1>1, MutatedTyped DEF Records, Typed
<1>3. PICK kept : kept = Restrict(mail, DOMAIN mail \ DOMAIN gone)
  OBVIOUS
<1>4. PICK added : added = Merge(own, TerminalReceipts(mail, gone, m.revision))
  OBVIOUS
<1>5. PICK receipts : receipts = Synchronized(Merge(added, c.receipts), kept, gone)
  OBVIOUS
<1>6. PICK n : n = c.next + Cardinality(DOMAIN added)
  OBVIOUS
<1>7. PICK e : e = Closed(m, mail, gone, own)
  OBVIOUS
<1>8. e = [m EXCEPT !.mail = kept, !.receipts = Synchronized(Merge(added, @), kept, gone),
                    !.next = @ + Cardinality(DOMAIN added)]
  BY <1>3, <1>4, <1>7, Zenon DEF Closed
<1>9. e.mail = kept /\ e.receipts = receipts /\ e.next = n
  <2>1. e = [m EXCEPT !.mail = kept, !.receipts = receipts, !.next = n]
    BY <1>2, <1>5, <1>6, <1>8 DEF Shaped, Fields
  <2>. QED
    BY <1>2, <2>1 DEF Shaped, Fields
<1>10. d.mail = kept /\ d.receipts = receipts /\ d.next = n
  BY <1>1, <1>7, <1>9 DEF ClosedAs
<1>11. PICK rev : rev = c.revision + 1
  OBVIOUS
<1>12. added = Merge(own, TerminalReceipts(mail, gone, rev))
  BY <1>2, <1>4, <1>11
<1>13. receipts = Synchronized(Merge(Merge(own, TerminalReceipts(mail, gone, rev)), c.receipts),
                               Restrict(mail, DOMAIN mail \ DOMAIN gone), gone)
  BY <1>3, <1>5, <1>12
<1>14. /\ Wrote(c, receipts, mail, gone, own, k, rev)
       /\ Cardinality(DOMAIN Merge(own, TerminalReceipts(mail, gone, rev))) = k
  BY <1>13, ClosedWrites
<1>15. d.next = c.next + k
  BY <1>6, <1>10, <1>12, <1>14
<1>. QED
  BY <1>3, <1>10, <1>11, <1>14, <1>15

\* A sequence that was allocated is that of the operation or of an entry.
LEMMA WrittenSequences ==
    ASSUME NEW c, Typed(c), NEW mail, NEW gone, NEW own, NEW k, Numbering(c, mail, gone, own, k),
           NEW d, d.next = c.next + k
    PROVE  /\ d.next - 1 = c.next + k - 1
           /\ \A s \in c.next .. d.next - 1 :
                 s \in DOMAIN own \/ \E e \in DOMAIN gone : gone[e] = s /\ s \notin DOMAIN own
           /\ \A e \in DOMAIN gone : gone[e] \in c.next .. d.next - 1
           /\ \A s \in DOMAIN own : s \in c.next .. d.next - 1
<1>1. d.next - 1 = c.next + k - 1
  BY DEF Typed, Numbering
<1>2. {gone[e] : e \in DOMAIN gone} \cup DOMAIN own = c.next .. d.next - 1
  BY <1>1 DEF Numbering
<1>. QED
  BY <1>1, <1>2

\* Receipts that close no entry keep to their place.
LEMMA ClosedReceiptsClose ==
    ASSUME NEW c, Typed(c), Below(c), Traced(c), NEW mail, EntriesTyped(mail),
           NEW gone, NEW own, NEW k, Numbering(c, mail, gone, own, k),
           NEW d, d.next = c.next + k, d.revision = c.revision + 1, Wrote(c, d.receipts, mail, gone, own, k, c.revision + 1)
    PROVE  ReceiptsClose(c, d, mail, gone)
<1>1. \A s \in c.next .. d.next - 1 :
         s \in DOMAIN own \/ \E e \in DOMAIN gone : gone[e] = s /\ s \notin DOMAIN own
  BY WrittenSequences
<1>2. /\ DOMAIN d.receipts = DOMAIN c.receipts \cup c.next .. d.next - 1
      /\ \A s \in DOMAIN c.receipts : SaysSame(d.receipts[s], c.receipts[s])
      /\ \A s \in DOMAIN own : SaysSame(d.receipts[s], own[s])
  BY WrittenSequences DEF Wrote
<1>3. ASSUME NEW e \in DOMAIN gone, gone[e] \notin DOMAIN own
      PROVE  /\ d.receipts[gone[e]].kind = "event_terminal" /\ d.receipts[gone[e]].id = e
             /\ d.receipts[gone[e]].body = mail[e].body /\ d.receipts[gone[e]].acc = mail[e].acc
             /\ d.receipts[gone[e]].queue = mail[e].queue
             /\ d.receipts[gone[e]].rev = c.revision + 1 /\ d.receipts[gone[e]].effects = {}
  <2>1. SaysSame(d.receipts[gone[e]], Receipt("event_terminal", e, mail[e], c.revision + 1))
    BY <1>3, Zenon DEF Wrote
  <2>. QED
    BY <2>1 DEF SaysSame, Receipt
<1>4. ASSUME NEW s \in DOMAIN own
      PROVE  /\ s = c.next /\ s \in DOMAIN d.receipts
             /\ OwnReceipt(c, mail, gone, own[s]) /\ SaysSame(d.receipts[s], own[s])
  <2>1. s = c.next /\ OwnReceipt(c, mail, gone, own[s])
    BY DEF Numbering
  <2>2. s \in c.next .. d.next - 1
    BY WrittenSequences
  <2>. QED
    BY <1>2, <2>1, <2>2
<1>5. c.next \in Nat /\ d.next \in Nat
  BY DEF Typed, Numbering
<1>6. Retains(c.receipts, d.receipts)
  BY <1>2 DEF Retains
<1>7. ASSUME NEW e \in DOMAIN gone
      PROVE  mail[e].acc \in Nat /\ mail[e].queue \in Nat
  BY DEF Numbering, EntriesTyped, Entry
<1>8. ASSUME NEW s \in c.next .. d.next - 1
      PROVE  /\ d.receipts[s].rev = d.revision
             /\ d.receipts[s].acc \in Nat /\ d.receipts[s].queue \in Nat
             /\ d.receipts[s].effects \subseteq {s}
             /\ d.receipts[s].kind = "maintenance_migration" => s = c.next
             /\ s = 0 => d.receipts[s].kind = "creation"
  <2>1. CASE s \in DOMAIN own
    <3>1. PICK x : x = own[s]
      OBVIOUS
    <3>2. OwnReceipt(c, mail, gone, x) /\ SaysSame(d.receipts[s], x) /\ s = c.next
      BY <1>4, <2>1, <3>1
    <3>. QED
      BY <3>2 DEF OwnReceipt, SaysSame
  <2>2. CASE s \notin DOMAIN own
    <3>1. PICK e \in DOMAIN gone : gone[e] = s
      BY <1>1, <2>2
    <3>2. s # 0
      BY <1>5, <2>2 DEF Numbering
    <3>. QED
      BY <1>3, <1>7, <2>2, <3>1, <3>2
  <2>. QED
    BY <2>1, <2>2
<1>9. ASSUME NEW s, NEW e
      PROVE  Accepts(d, s, e) <=> Accepts(c, s, e)
  <2>1. ASSUME Accepts(c, s, e) PROVE Accepts(d, s, e)
    BY <1>2, <2>1 DEF Accepts, SaysSame
  <2>2. ASSUME Accepts(d, s, e) PROVE Accepts(c, s, e)
    <3>1. s \in DOMAIN d.receipts /\ d.receipts[s].kind = "acceptance" /\ d.receipts[s].id = e
      BY <2>2 DEF Accepts
    <3>2. CASE s \in DOMAIN c.receipts
      BY <1>2, <3>1, <3>2 DEF Accepts, SaysSame
    <3>3. CASE s \in DOMAIN own
      BY <1>4, <3>1, <3>3 DEF OwnReceipt, SaysSame
    <3>4. CASE s \notin DOMAIN c.receipts /\ s \notin DOMAIN own
      <4>1. PICK g \in DOMAIN gone : gone[g] = s
        BY <1>1, <1>2, <3>1, <3>4
      <4>. QED
        BY <1>3, <3>1, <3>4, <4>1
    <3>. QED
      BY <3>2, <3>3, <3>4
  <2>. QED
    BY <2>1, <2>2
<1>10. ASSUME NEW s, NEW e
       PROVE  Ends(d, s, e) <=> Ends(c, s, e) \/ (e \in DOMAIN gone /\ gone[e] = s)
  <2>1. ASSUME Ends(c, s, e) PROVE Ends(d, s, e)
    BY <1>2, <2>1 DEF Ends, SaysSame
  <2>2. ASSUME e \in DOMAIN gone, gone[e] = s PROVE Ends(d, s, e)
    <3>0. s \in DOMAIN d.receipts
      BY <1>2, <2>2, WrittenSequences
    <3>1. CASE s \in DOMAIN own
      <4>1. PICK x : x = own[s]
        OBVIOUS
      <4>2. OwnReceipt(c, mail, gone, x) /\ SaysSame(d.receipts[s], x) /\ s = c.next
        BY <1>4, <3>1, <4>1
      <4>3. x.kind = "event_terminal" /\ x.id \in DOMAIN gone /\ gone[x.id] = gone[e]
        BY <2>2, <4>2 DEF OwnReceipt
      <4>4. x.id = e
        BY <2>2, <4>3 DEF Numbering
      <4>. QED
        BY <3>0, <4>2, <4>3, <4>4 DEF Ends, SaysSame
    <3>2. CASE s \notin DOMAIN own
      BY <1>3, <2>2, <3>0, <3>2 DEF Ends
    <3>. QED
      BY <3>1, <3>2
  <2>3. ASSUME Ends(d, s, e) PROVE Ends(c, s, e) \/ (e \in DOMAIN gone /\ gone[e] = s)
    <3>1. s \in DOMAIN d.receipts /\ d.receipts[s].kind = "event_terminal" /\ d.receipts[s].id = e
      BY <2>3 DEF Ends
    <3>2. CASE s \in DOMAIN c.receipts
      BY <1>2, <3>1, <3>2 DEF Ends, SaysSame
    <3>3. CASE s \in DOMAIN own
      BY <1>4, <3>1, <3>3 DEF OwnReceipt, SaysSame
    <3>4. CASE s \notin DOMAIN c.receipts /\ s \notin DOMAIN own
      <4>1. PICK g \in DOMAIN gone : gone[g] = s
        BY <1>1, <1>2, <3>1, <3>4
      <4>. QED
        BY <1>3, <3>1, <3>4, <4>1
    <3>. QED
      BY <3>2, <3>3, <3>4
  <2>. QED
    BY <2>1, <2>2, <2>3
<1>11. ASSUME NEW e \in DOMAIN gone
       PROVE  /\ d.receipts[gone[e]].body = mail[e].body
              /\ d.receipts[gone[e]].acc = mail[e].acc
              /\ d.receipts[gone[e]].queue = mail[e].queue
  <2>1. CASE gone[e] \in DOMAIN own
    <3>1. PICK x : x = own[gone[e]]
      OBVIOUS
    <3>2. OwnReceipt(c, mail, gone, x) /\ SaysSame(d.receipts[gone[e]], x) /\ gone[e] = c.next
      BY <1>4, <2>1, <3>1
    <3>3. x.kind = "event_terminal" /\ x.id \in DOMAIN gone /\ gone[x.id] = gone[e]
      BY <3>2 DEF OwnReceipt
    <3>4. x.id = e
      BY <3>3 DEF Numbering
    <3>. QED
      BY <3>2, <3>3, <3>4 DEF OwnReceipt, SaysSame
  <2>2. CASE gone[e] \notin DOMAIN own
    BY <1>3, <2>2
  <2>. QED
    BY <2>1, <2>2
<1>. QED
  BY <1>2, <1>6, <1>8, <1>9, <1>10, <1>11 DEF ReceiptsClose

\* The references of one receipt, followed.
LEMMA FollowReference ==
    ASSUME NEW c, Typed(c), Traced(c), Coherent(c), NEW mail, NEW gone,
           DOMAIN c.mail \subseteq DOMAIN mail,
           \A e \in DOMAIN c.mail : mail[e].acc = c.mail[e].acc,
           \A e : Fresher(c, mail, e) => e \in {c.next} \X Nat,
           NEW s, NEW x, NEW e, Refers(c, s, x, e)
    PROVE  LET y == Sync(x, Restrict(mail, DOMAIN mail \ DOMAIN gone), gone)
           IN /\ y.id = e
              /\ e \in DOMAIN mail => e \in DOMAIN c.mail /\ y = Placed(mail, gone, e)
              /\ e \notin DOMAIN mail => y = x
<1>1. PICK kept : kept = Restrict(mail, DOMAIN mail \ DOMAIN gone)
  OBVIOUS
<1>2. x \in Reference /\ x.id = e
  BY DEF Refers, Typed, ReceiptsTyped, ReceiptTyped
<1>3. x.kind = "internal_mailbox" <=> e \in DOMAIN c.mail
  BY Zenon DEF Coherent, ReferenceKinds
<1>4. CASE e \in DOMAIN mail
  <2>1. e \in DOMAIN c.mail
    <3>1. ~Fresher(c, mail, e)
      <4>1. ASSUME e \in {c.next} \X Nat PROVE FALSE
        BY <4>1, NextUnknown DEF Typed
      <4>. QED
        BY <4>1
    <3>. QED
      BY <1>4, <3>1 DEF Fresher
  <2>2. x.acc = mail[e].acc
    <3>1. EntrySound(c, e)
      BY <2>1, Zenon DEF Coherent
    <3>2. x.acc = c.mail[e].acc
      BY <3>1, Zenon DEF EntrySound
    <3>. QED
      BY <2>1, <3>2
  <2>3. Sync(x, kept, gone) = Placed(mail, gone, e)
    BY <1>1, <1>2, <1>3, <1>4, <2>1, <2>2, SyncPlaced
  <2>4. Placed(mail, gone, e).id = e
    BY DEF Placed
  <2>. QED
    BY <1>1, <1>4, <2>1, <2>3, <2>4
<1>5. CASE e \notin DOMAIN mail
  <2>1. x.kind # "internal_mailbox"
    BY <1>3, <1>5
  <2>2. Sync(x, kept, gone) = x
    BY <2>1 DEF Sync
  <2>. QED
    BY <1>1, <1>2, <1>5, <2>2
<1>. QED
  BY <1>4, <1>5

\* References of the checkpoint follow, and the operation's own refer to what it emits.
LEMMA ClosedReferencesFollow ==
    ASSUME NEW c, Typed(c), Below(c), Traced(c), Coherent(c), NEW mail, EntriesTyped(mail),
           DOMAIN c.mail \subseteq DOMAIN mail,
           \A e \in DOMAIN c.mail : mail[e].acc = c.mail[e].acc,
           \A e : Fresher(c, mail, e) => e \in {c.next} \X Nat,
           NEW gone, NEW own, NEW k, Numbering(c, mail, gone, own, k),
           NEW d, d.next = c.next + k,
           Wrote(c, d.receipts, mail, gone, own, k, c.revision + 1)
    PROVE  ReferencesFollow(c, d, mail, gone)
<1>1. PICK kept : kept = Restrict(mail, DOMAIN mail \ DOMAIN gone)
  OBVIOUS
<1>2. \A s, x, e : Refers(c, s, x, e) =>
         /\ Sync(x, kept, gone).id = e
         /\ e \in DOMAIN mail => e \in DOMAIN c.mail /\ Sync(x, kept, gone) = Placed(mail, gone, e)
         /\ e \notin DOMAIN mail => Sync(x, kept, gone) = x
  BY <1>1, FollowReference
<1>3. /\ DOMAIN d.receipts = DOMAIN c.receipts \cup c.next .. d.next - 1
      /\ \A s \in DOMAIN c.receipts :
            d.receipts[s].refs = {Sync(ref, kept, gone) : ref \in c.receipts[s].refs}
      /\ \A s \in DOMAIN own : d.receipts[s].refs = {Sync(ref, kept, gone) : ref \in own[s].refs}
      /\ \A e \in DOMAIN gone : gone[e] \notin DOMAIN own => d.receipts[gone[e]].refs = {}
  <2>1. d.next - 1 = c.next + k - 1
    BY WrittenSequences
  <2>2. DOMAIN d.receipts = DOMAIN c.receipts \cup c.next .. d.next - 1
    BY <2>1 DEF Wrote
  <2>3. \A s \in DOMAIN c.receipts : d.receipts[s].refs = Follow(c.receipts[s].refs, mail, gone)
    BY DEF Wrote
  <2>4. \A s \in DOMAIN own : d.receipts[s].refs = Follow(own[s].refs, mail, gone)
    BY DEF Wrote
  <2>5. \A e \in DOMAIN gone : gone[e] \notin DOMAIN own => d.receipts[gone[e]].refs = {}
    BY DEF Wrote
  <2>6. \A refs : Follow(refs, mail, gone) = {Sync(ref, kept, gone) : ref \in refs}
    BY <1>1 DEF Follow
  <2>. QED
    BY <2>2, <2>3, <2>4, <2>5, <2>6
<1>4. \A s \in c.next .. d.next - 1 :
         s \in DOMAIN own \/ \E e \in DOMAIN gone : gone[e] = s /\ s \notin DOMAIN own
  BY WrittenSequences
<1>5. \A s \in DOMAIN c.receipts : s \in Nat /\ s < c.next
  BY DEF Below, Typed, ReceiptsTyped
<1>6. \A s \in DOMAIN own : s = c.next /\ OwnReceipt(c, mail, gone, own[s])
  BY DEF Numbering
<1>7. c.next \in Nat /\ c.next \notin DOMAIN c.receipts
  BY <1>5 DEF Typed
<1>8. ASSUME NEW s \in DOMAIN own, NEW ref, NEW e
      PROVE  /\ ref \in own[s].refs /\ ref.id = e =>
                   Fresher(c, mail, e) /\ Sync(ref, kept, gone) = Placed(mail, gone, e)
             /\ Fresher(c, mail, e) =>
                   \E x \in own[s].refs : Sync(x, kept, gone) = Placed(mail, gone, e)
  <2>1. PICK refs : refs = own[s].refs
    OBVIOUS
  <2>2. /\ refs = {[id |-> g, acc |-> mail[g].acc, kind |-> "internal_mailbox",
                    n |-> mail[g].queue] : g \in {h \in DOMAIN mail : Fresher(c, mail, h)}}
        /\ refs \subseteq Reference
    BY <1>6, <2>1 DEF OwnReceipt, ReceiptTyped
  <2>3. ASSUME NEW x \in refs
        PROVE  /\ Fresher(c, mail, x.id) /\ x.id \in DOMAIN mail
               /\ x.kind = "internal_mailbox" /\ x.acc = mail[x.id].acc
    BY <2>2
  <2>4. ASSUME NEW x \in refs
        PROVE  Sync(x, kept, gone) = Placed(mail, gone, x.id)
    BY <1>1, <2>2, <2>3, <2>4, SyncPlaced
  <2>5. ASSUME Fresher(c, mail, e) PROVE \E x \in refs : x.id = e
    <3>1. e \in {h \in DOMAIN mail : Fresher(c, mail, h)}
      BY <2>5 DEF Fresher
    <3>2. PICK x : x = [id |-> e, acc |-> mail[e].acc, kind |-> "internal_mailbox",
                        n |-> mail[e].queue]
      OBVIOUS
    <3>3. x \in refs /\ x.id = e
      BY <2>2, <3>1, <3>2
    <3>. QED
      BY <3>3
  <2>. QED
    BY <2>1, <2>3, <2>4, <2>5
<1>9. ASSUME NEW e PROVE Placed(mail, gone, e).id = e
  BY DEF Placed
<1>10. ASSUME NEW s, NEW e, NEW y, Refers(d, s, y, e)
       PROVE  \/ e \notin DOMAIN mail /\ Refers(c, s, y, e)
              \/ /\ e \in DOMAIN c.mail /\ y = Placed(mail, gone, e)
                 /\ \E x : Refers(c, s, x, e)
              \/ Fresher(c, mail, e) /\ y = Placed(mail, gone, e) /\ s = c.next
  <2>1. s \in DOMAIN d.receipts /\ y \in d.receipts[s].refs /\ y.id = e
    BY <1>10 DEF Refers
  <2>2. CASE s \in DOMAIN c.receipts
    <3>1. PICK x \in c.receipts[s].refs : y = Sync(x, kept, gone)
      BY <1>3, <2>1, <2>2
    <3>2. PICK g : g = x.id
      OBVIOUS
    <3>3. Refers(c, s, x, g)
      BY <2>2, <3>2 DEF Refers
    <3>4. g = e
      BY <1>2, <2>1, <3>1, <3>3
    <3>5. Refers(c, s, x, e)
      BY <3>3, <3>4
    <3>. QED
      BY <1>2, <3>1, <3>5
  <2>3. CASE s \in DOMAIN own
    <3>1. PICK x \in own[s].refs : y = Sync(x, kept, gone)
      BY <1>3, <2>1, <2>3
    <3>2. PICK g : g = x.id
      OBVIOUS
    <3>3. Fresher(c, mail, g) /\ y = Placed(mail, gone, g)
      BY <1>8, <2>3, <3>1, <3>2
    <3>4. g = e
      BY <1>9, <2>1, <3>3
    <3>. QED
      BY <1>6, <2>3, <3>3, <3>4
  <2>4. CASE s \notin DOMAIN c.receipts /\ s \notin DOMAIN own
    <3>1. PICK g \in DOMAIN gone : gone[g] = s
      BY <1>3, <1>4, <2>1, <2>4
    <3>. QED
      BY <1>3, <2>1, <2>4, <3>1
  <2>. QED
    BY <2>2, <2>3, <2>4
<1>11. ASSUME NEW s, NEW x, NEW e, Refers(c, s, x, e)
       PROVE  Refers(d, s, Sync(x, kept, gone), e)
  BY <1>2, <1>3, <1>11 DEF Refers
<1>12. ASSUME NEW e, Fresher(c, mail, e)
       PROVE  Refers(d, c.next, Placed(mail, gone, e), e)
  <2>1. c.next \in DOMAIN own
    BY <1>12 DEF Numbering
  <2>2. c.next \in c.next .. d.next - 1
    BY <2>1, WrittenSequences
  <2>3. PICK x \in own[c.next].refs : Sync(x, kept, gone) = Placed(mail, gone, e)
    BY <1>8, <1>12, <2>1
  <2>4. Placed(mail, gone, e) \in d.receipts[c.next].refs
    BY <1>3, <2>1, <2>3
  <2>. QED
    BY <1>3, <1>9, <2>2, <2>4 DEF Refers
<1>13. ASSUME NEW s, NEW e, NEW y, e \notin DOMAIN mail, Refers(c, s, y, e)
       PROVE  Refers(d, s, y, e)
  BY <1>2, <1>11, <1>13
<1>14. ASSUME NEW s, NEW e, NEW x, e \in DOMAIN c.mail, Refers(c, s, x, e)
       PROVE  Refers(d, s, Placed(mail, gone, e), e)
  BY <1>2, <1>11, <1>14
<1>15. ASSUME NEW s, NEW e, NEW y
       PROVE  Refers(d, s, y, e) <=>
                 \/ e \notin DOMAIN mail /\ Refers(c, s, y, e)
                 \/ e \in DOMAIN c.mail /\ y = Placed(mail, gone, e) /\ \E x : Refers(c, s, x, e)
                 \/ Fresher(c, mail, e) /\ y = Placed(mail, gone, e) /\ s = c.next
  <2>1. CASE Refers(d, s, y, e)
    BY <1>10, <2>1
  <2>2. CASE e \notin DOMAIN mail /\ Refers(c, s, y, e)
    BY <1>13, <2>2
  <2>3. CASE e \in DOMAIN c.mail /\ y = Placed(mail, gone, e) /\ \E x : Refers(c, s, x, e)
    <3>1. PICK x : Refers(c, s, x, e)
      BY <2>3
    <3>2. Refers(d, s, Placed(mail, gone, e), e)
      BY <1>14, <2>3, <3>1
    <3>. QED
      BY <2>3, <3>2
  <2>4. CASE Fresher(c, mail, e) /\ y = Placed(mail, gone, e) /\ s = c.next
    <3>1. Refers(d, c.next, Placed(mail, gone, e), e)
      BY <1>12, <2>4
    <3>. QED
      BY <2>4, <3>1
  <2>. QED
    BY <2>1, <2>2, <2>3, <2>4
<1>. QED
  BY <1>15, Zenon DEF ReferencesFollow

\* The effects receipts refer to, with those of the operation.
LEMMA ClosedEffects ==
    ASSUME NEW c, Typed(c), NEW mail, NEW gone, NEW own, NEW k, Numbering(c, mail, gone, own, k),
           NEW d, d.next = c.next + k,
           Wrote(c, d.receipts, mail, gone, own, k, c.revision + 1)
    PROVE  EffectsOf(d.receipts) = EffectsOf(c.receipts) \cup EffectsOf(own)
<1>1. /\ DOMAIN d.receipts = DOMAIN c.receipts \cup c.next .. d.next - 1
      /\ \A s \in DOMAIN c.receipts : d.receipts[s].effects = c.receipts[s].effects
      /\ \A s \in DOMAIN own : d.receipts[s].effects = own[s].effects
  BY WrittenSequences DEF Wrote, SaysSame
<1>2. ASSUME NEW e \in DOMAIN gone, gone[e] \notin DOMAIN own
      PROVE  d.receipts[gone[e]].effects = {}
  <2>1. SaysSame(d.receipts[gone[e]], Receipt("event_terminal", e, mail[e], c.revision + 1))
    BY <1>2, Zenon DEF Wrote
  <2>. QED
    BY <2>1 DEF SaysSame, Receipt
<1>3. /\ \A s \in c.next .. d.next - 1 :
            s \in DOMAIN own \/ \E e \in DOMAIN gone : gone[e] = s /\ s \notin DOMAIN own
      /\ \A s \in DOMAIN own : s \in c.next .. d.next - 1
  BY WrittenSequences
<1>4. ASSUME NEW s \in DOMAIN d.receipts
      PROVE  \/ s \in DOMAIN c.receipts /\ d.receipts[s].effects = c.receipts[s].effects
             \/ s \in DOMAIN own /\ d.receipts[s].effects = own[s].effects
             \/ d.receipts[s].effects = {}
  BY <1>1, <1>2, <1>3
<1>5. DOMAIN c.receipts \subseteq DOMAIN d.receipts /\ DOMAIN own \subseteq DOMAIN d.receipts
  BY <1>1, <1>3
<1>6. ASSUME NEW f \in EffectsOf(d.receipts) PROVE f \in EffectsOf(c.receipts) \cup EffectsOf(own)
  BY <1>4, <1>6 DEF EffectsOf
<1>7. ASSUME NEW f \in EffectsOf(c.receipts) \cup EffectsOf(own) PROVE f \in EffectsOf(d.receipts)
  BY <1>1, <1>5, <1>7 DEF EffectsOf
<1>. QED
  BY <1>6, <1>7

\* Closing entries is such an operation.
LEMMA ClosedCloses ==
    ASSUME NEW c, Typed(c), Below(c), Traced(c), Coherent(c), Allocated(c),
           NEW mail, EntriesTyped(mail), NEW gone, NEW own, NEW k,
           Numbering(c, mail, gone, own, k),
           NEW d, Typed(d), ClosedAs(c, d, mail, gone, own), MailMoves(c, d, mail),
           d.revision = c.revision + 1, d.cutoff = c.cutoff, d.tombstones = c.tombstones,
           DOMAIN d.pendingFx = DOMAIN c.pendingFx \cup EffectsOf(own),
           d.terminalFx = c.terminalFx, d.tombstoneFx = c.tombstoneFx, d.nextFx = c.nextFx
    PROVE  Closes(c, d, mail, gone) /\ d.next = c.next + k
<1>1. /\ d.mail = Restrict(mail, DOMAIN mail \ DOMAIN gone)
      /\ d.next = c.next + k
      /\ Wrote(c, d.receipts, mail, gone, own, k, c.revision + 1)
  BY ClosedAsWrote
<1>2. c.next \in Nat /\ k \in Nat /\ d.next >= c.next
  BY <1>1 DEF Typed, Numbering
<1>3. ReceiptsClose(c, d, mail, gone)
  BY <1>1, ClosedReceiptsClose
<1>4. ReferencesFollow(c, d, mail, gone)
  <2>1. /\ DOMAIN c.mail \subseteq DOMAIN mail
        /\ \A e \in DOMAIN c.mail : mail[e].acc = c.mail[e].acc
        /\ \A e : Fresher(c, mail, e) => e \in {c.next} \X Nat
    BY Zenon DEF MailMoves
  <2>. QED
    BY <1>1, <2>1, ClosedReferencesFollow
<1>5. EffectsFollow(c, d)
  <2>1. EffectsOf(d.receipts) = EffectsOf(c.receipts) \cup EffectsOf(own)
    BY <1>1, ClosedEffects
  <2>2. EffectsOf(own) \in SUBSET {c.next}
    <3>1. \A s \in DOMAIN own : own[s].effects \subseteq {c.next}
      BY DEF Numbering, OwnReceipt
    <3>. QED
      BY <3>1 DEF EffectsOf
  <2>. QED
    BY <2>1, <2>2 DEF EffectsFollow
<1>6. MailCloses(c, d, mail, gone)
  <2>1. DOMAIN gone \subseteq DOMAIN mail /\ \A e, g \in DOMAIN gone : gone[e] = gone[g] => e = g
    BY Zenon DEF Numbering
  <2>2. DOMAIN d.mail = DOMAIN mail \ DOMAIN gone /\ \A e \in DOMAIN d.mail : d.mail[e] = mail[e]
    BY <1>1 DEF Restrict
  <2>3. \A e \in DOMAIN gone : gone[e] \in c.next .. d.next - 1
    BY <1>1, WrittenSequences
  <2>4. \A e : Fresher(c, mail, e) =>
           c.next \in DOMAIN own /\ (e \in DOMAIN gone => gone[e] # c.next)
    BY Zenon DEF Numbering
  <2>5. \A s \in DOMAIN own : s \in c.next .. d.next - 1
    BY <1>1, WrittenSequences
  <2>6. \A e \in DOMAIN gone : Fresher(c, mail, e) => gone[e] > c.next
    BY <1>2, <2>3, <2>4
  <2>7. \A e : Fresher(c, mail, e) => c.next < d.next
    BY <1>1, <1>2, <2>4, <2>5
  <2>. QED
    BY <2>1, <2>2, <2>3, <2>6, <2>7 DEF MailCloses
<1>. QED
  BY <1>1, <1>2, <1>3, <1>4, <1>5, <1>6 DEF Closes

-----------------------------------------------------------------------------
(* Steps of a machine: emissions, deferrals and recalls, dispatches.       *)

\* Terminal receipts of distinct entries have the next sequences, one each.
LEMMA NumberedRange ==
    ASSUME NEW mail, EntriesTyped(mail), NEW lost, lost \subseteq DOMAIN mail,
           \A e, g \in lost : mail[e].acc = mail[g].acc => e = g, NEW first \in Nat
    PROVE  LET gone == Numbered(mail, lost, first)
           IN /\ DOMAIN gone = lost /\ Cardinality(lost) \in Nat
              /\ \A e, g \in lost : gone[e] = gone[g] => e = g
              /\ {gone[e] : e \in lost} = first .. first + Cardinality(lost) - 1
<1>1. PICK key : key = [e \in lost |-> mail[e].acc]
  OBVIOUS
<1>2. IsFiniteSet(lost) /\ Cardinality(lost) \in Nat
  <2>1. lost \in SUBSET DOMAIN mail
    OBVIOUS
  <2>. QED
    BY <2>1, FS_Subset, FS_CardinalityType DEF EntriesTyped
<1>3. key \in [lost -> Nat] /\ \A a, b \in lost : key[a] = key[b] => a = b
  BY <1>1 DEF EntriesTyped, Entry
<1>4. PICK k : k = Cardinality(lost)
  OBVIOUS
<1>5. /\ \A a \in lost : RankIn(lost, key, a) \in 0 .. k - 1
      /\ \A a, b \in lost : RankIn(lost, key, a) = RankIn(lost, key, b) => a = b
      /\ \A n \in 0 .. k - 1 : \E a \in lost : RankIn(lost, key, a) = n
  BY <1>2, <1>3, <1>4, RanksCount
<1>6. PICK gone : gone = Numbered(mail, lost, first)
  OBVIOUS
<1>7. DOMAIN gone = lost
  BY <1>6 DEF Numbered
<1>8. ASSUME NEW e \in lost PROVE gone[e] = first + RankIn(lost, key, e)
  <2>1. {d \in lost : mail[d].acc < mail[e].acc} = {d \in lost : key[d] < key[e]}
    BY <1>1
  <2>. QED
    BY <1>6, <2>1 DEF Numbered, RankIn
<1>9. k \in Nat
  BY <1>2, <1>4
<1>10. \A e, g \in lost : gone[e] = gone[g] => e = g
  BY <1>5, <1>8, <1>9
<1>11. ASSUME NEW n \in first .. first + k - 1 PROVE \E e \in lost : gone[e] = n
  <2>1. n - first \in 0 .. k - 1
    BY <1>9, <1>11
  <2>2. PICK e \in lost : RankIn(lost, key, e) = n - first
    BY <1>5, <2>1
  <2>3. gone[e] = n
    BY <1>8, <1>11, <2>2
  <2>. QED
    BY <2>3
<1>12. ASSUME NEW e \in lost PROVE gone[e] \in first .. first + k - 1
  BY <1>5, <1>8, <1>9
<1>13. {gone[e] : e \in lost} = first .. first + k - 1
  BY <1>11, <1>12
<1>. QED
  BY <1>2, <1>4, <1>6, <1>7, <1>10, <1>13

\* Recalled entries keep what they say and get new queue sequences, one each.
LEMMA RenumberedRange ==
    ASSUME NEW mail, EntriesTyped(mail), NEW S, S \subseteq DOMAIN mail,
           \A e, g \in S : mail[e].queue = mail[g].queue => e = g, NEW first \in Nat
    PROVE  LET new == Renumbered(mail, S, first)
           IN /\ DOMAIN new = S /\ Cardinality(S) \in Nat
              /\ \A e \in S : /\ new[e].body = mail[e].body /\ new[e].acc = mail[e].acc
                              /\ new[e].queue \in first .. first + Cardinality(S) - 1
              /\ \A e, g \in S : new[e].queue = new[g].queue => e = g
<1>1. PICK key : key = [e \in S |-> mail[e].queue]
  OBVIOUS
<1>2. IsFiniteSet(S) /\ Cardinality(S) \in Nat
  <2>1. S \in SUBSET DOMAIN mail
    OBVIOUS
  <2>. QED
    BY <2>1, FS_Subset, FS_CardinalityType DEF EntriesTyped
<1>3. key \in [S -> Nat] /\ \A a, b \in S : key[a] = key[b] => a = b
  BY <1>1 DEF EntriesTyped, Entry
<1>4. PICK k : k = Cardinality(S)
  OBVIOUS
<1>5. /\ \A a \in S : RankIn(S, key, a) \in 0 .. k - 1
      /\ \A a, b \in S : RankIn(S, key, a) = RankIn(S, key, b) => a = b
  BY <1>2, <1>3, <1>4, RanksCount
<1>6. PICK new : new = Renumbered(mail, S, first)
  OBVIOUS
<1>7. DOMAIN new = S
  BY <1>6 DEF Renumbered
<1>8. ASSUME NEW e \in S
      PROVE  /\ new[e].body = mail[e].body /\ new[e].acc = mail[e].acc
             /\ new[e].queue = first + RankIn(S, key, e)
  <2>1. PICK D : D = {d \in S : mail[d].queue < mail[e].queue}
    OBVIOUS
  <2>2. D = {d \in S : key[d] < key[e]}
    BY <1>1, <2>1
  <2>3. PICK n : n = first + Cardinality(D)
    OBVIOUS
  <2>4. n = first + RankIn(S, key, e)
    BY <2>2, <2>3 DEF RankIn
  <2>5. PICK x : x = mail[e]
    OBVIOUS
  <2>6. x \in Entry
    BY <2>5 DEF EntriesTyped
  <2>7. new[e] = [x EXCEPT !.place = "ready", !.queue = n]
    BY <1>6, <2>1, <2>3, <2>5, Zenon DEF Renumbered
  <2>. QED
    BY <2>4, <2>5, <2>6, <2>7 DEF Entry
<1>9. k \in Nat
  BY <1>2, <1>4
<1>10. \A e \in S : new[e].queue \in first .. first + k - 1
  BY <1>5, <1>8, <1>9
<1>11. \A e, g \in S : new[e].queue = new[g].queue => e = g
  BY <1>5, <1>8, <1>9
<1>. QED
  BY <1>2, <1>4, <1>6, <1>7, <1>8, <1>10, <1>11

\* Waiting entries have sequences of their own, below the counters.
LEMMA MailSequences ==
    ASSUME NEW c, Coherent(c), Allocated(c)
    PROVE  /\ \A e, g \in DOMAIN c.mail :
                 c.mail[e].acc = c.mail[g].acc \/ c.mail[e].queue = c.mail[g].queue => e = g
           /\ \A e \in DOMAIN c.mail : c.mail[e].acc < c.nextAcc /\ c.mail[e].queue < c.nextQueue
<1>1. \A e \in DOMAIN c.mail : Owns(c, c.mail[e].acc, e) /\ Queues(c, c.mail[e].queue, e)
  BY DEF Owns, Queues
<1>2. OwnersSound(c) /\ QueuesSound(c)
  BY Zenon DEF Coherent
<1>3. ASSUME NEW e \in DOMAIN c.mail, NEW g \in DOMAIN c.mail,
             c.mail[e].acc = c.mail[g].acc \/ c.mail[e].queue = c.mail[g].queue
      PROVE  e = g
  <2>1. \A n : Owns(c, n, e) /\ Owns(c, n, g) => e = g
    BY <1>2 DEF OwnersSound
  <2>2. \A n : Queues(c, n, e) /\ Queues(c, n, g) => e = g
    BY <1>2 DEF QueuesSound
  <2>3. PICK n, m : n = c.mail[e].acc /\ m = c.mail[e].queue
    OBVIOUS
  <2>4. Owns(c, n, e) /\ Queues(c, m, e)
    BY <1>1, <2>3
  <2>5. Owns(c, n, g) \/ Queues(c, m, g)
    BY <1>1, <1>3, <2>3
  <2>. QED
    BY <2>1, <2>2, <2>4, <2>5
<1>. QED
  BY <1>1, <1>3 DEF Allocated

\* The entries of c, some of them under new queue sequences from "lo" to "hi".
Recalls(c, mail, lo, hi) ==
    /\ EntriesTyped(mail) /\ DOMAIN mail = DOMAIN c.mail
    /\ \A e \in DOMAIN mail :
          /\ mail[e].body = c.mail[e].body /\ mail[e].acc = c.mail[e].acc
          /\ mail[e].queue = c.mail[e].queue \/ mail[e].queue \in lo .. hi - 1
    /\ \A e, g \in DOMAIN mail : mail[e].queue = mail[g].queue => e = g

\* Leaving the mailboxes alone recalls nothing.
LEMMA KeptRecalls ==
    ASSUME NEW c, Typed(c), Coherent(c), Allocated(c)
    PROVE  Recalls(c, c.mail, c.nextQueue, c.nextQueue)
<1>1. EntriesTyped(c.mail)
  BY DEF Typed
<1>. QED
  BY <1>1, MailSequences DEF Recalls

\* A deferral gives one entry a new sequence.
LEMMA DeferralRecalls ==
    ASSUME NEW c, Typed(c), Coherent(c), Allocated(c), NEW h \in DOMAIN c.mail
    PROVE  Recalls(c, [c.mail EXCEPT ![h].place = "deferred", ![h].queue = c.nextQueue],
                   c.nextQueue, c.nextQueue + 1)
<1>1. PICK old : old = c.mail
  OBVIOUS
<1>2. EntriesTyped(old) /\ c.nextQueue \in Nat
  BY <1>1 DEF Typed
<1>3. PICK mail : mail = [old EXCEPT ![h].place = "deferred", ![h].queue = c.nextQueue]
  OBVIOUS
<1>4. DOMAIN mail = DOMAIN old
  BY <1>3
<1>5. ASSUME NEW e \in DOMAIN old
      PROVE  /\ mail[e] \in Entry /\ mail[e].body = old[e].body /\ mail[e].acc = old[e].acc
             /\ mail[e].queue = IF e = h THEN c.nextQueue ELSE old[e].queue
  <2>1. PICK x : x = old[e]
    OBVIOUS
  <2>2. x \in Entry
    BY <1>2, <2>1 DEF EntriesTyped
  <2>3. mail[e] = IF e = h THEN [x EXCEPT !.place = "deferred", !.queue = c.nextQueue] ELSE x
    BY <1>1, <1>3, <2>1
  <2>. QED
    BY <1>2, <2>1, <2>2, <2>3 DEF Entry
<1>6. EntriesTyped(mail)
  BY <1>2, <1>4, <1>5 DEF EntriesTyped
<1>7. /\ \A e, g \in DOMAIN old : old[e].queue = old[g].queue => e = g
      /\ \A e \in DOMAIN old : old[e].queue < c.nextQueue
  BY <1>1, MailSequences
<1>8. \A e \in DOMAIN old : old[e].queue \in Nat
  BY <1>2 DEF EntriesTyped, Entry
<1>9. ASSUME NEW e \in DOMAIN mail, NEW g \in DOMAIN mail, mail[e].queue = mail[g].queue
      PROVE  e = g
  BY <1>2, <1>4, <1>5, <1>7, <1>8, <1>9
<1>10. \A e \in DOMAIN mail :
          mail[e].queue = old[e].queue \/ mail[e].queue \in c.nextQueue .. c.nextQueue + 1 - 1
  BY <1>2, <1>4, <1>5
<1>11. Recalls(c, mail, c.nextQueue, c.nextQueue + 1)
  BY <1>1, <1>4, <1>5, <1>6, <1>9, <1>10 DEF Recalls
<1>. QED
  BY <1>1, <1>3, <1>11

\* So does a recall, to several.
LEMMA RenumberedRecalls ==
    ASSUME NEW c, Typed(c), Coherent(c), Allocated(c), NEW S, S \subseteq DOMAIN c.mail,
           NEW lo \in Nat, lo >= c.nextQueue
    PROVE  /\ Recalls(c, Merge(Renumbered(c.mail, S, lo), c.mail), lo, lo + Cardinality(S))
           /\ Cardinality(S) \in Nat
<1>1. PICK old : old = c.mail
  OBVIOUS
<1>2. EntriesTyped(old) /\ c.nextQueue \in Nat
  BY <1>1 DEF Typed
<1>3. /\ \A e, g \in DOMAIN old : old[e].queue = old[g].queue => e = g
      /\ \A e \in DOMAIN old : old[e].queue < c.nextQueue
  BY <1>1, MailSequences
<1>4. PICK new : new = Renumbered(old, S, lo)
  OBVIOUS
<1>5. PICK k : k = Cardinality(S)
  OBVIOUS
<1>6. /\ DOMAIN new = S /\ k \in Nat
      /\ \A e \in S : /\ new[e].body = old[e].body /\ new[e].acc = old[e].acc
                      /\ new[e].queue \in lo .. lo + k - 1
      /\ \A e, g \in S : new[e].queue = new[g].queue => e = g
  <2>1. \A e, g \in S : old[e].queue = old[g].queue => e = g
    BY <1>1, <1>3
  <2>. QED
    BY <1>1, <1>2, <1>4, <1>5, <2>1, RenumberedRange
<1>7. EntriesTyped(new)
  BY <1>1, <1>2, <1>4, RenumberedTyped
<1>8. PICK mail : mail = Merge(new, old)
  OBVIOUS
<1>9. EntriesTyped(mail) /\ DOMAIN mail = DOMAIN old
  <2>1. EntriesTyped(mail) /\ DOMAIN mail = DOMAIN new \cup DOMAIN old
    BY <1>2, <1>7, <1>8, MergedEntries
  <2>. QED
    BY <1>1, <1>6, <2>1
<1>10. \A e \in DOMAIN mail : mail[e] = IF e \in S THEN new[e] ELSE old[e]
  BY <1>6, <1>8 DEF Merge
<1>11. \A e \in DOMAIN old : old[e].queue \in Nat
  BY <1>2 DEF EntriesTyped, Entry
<1>12. ASSUME NEW e \in DOMAIN mail, NEW g \in DOMAIN mail, mail[e].queue = mail[g].queue
       PROVE  e = g
  <2>1. CASE e \in S /\ g \in S
    BY <1>6, <1>10, <1>12, <2>1
  <2>2. CASE e \notin S /\ g \notin S
    BY <1>3, <1>9, <1>10, <1>12, <2>2
  <2>3. CASE e \in S /\ g \notin S
    BY <1>2, <1>3, <1>6, <1>9, <1>10, <1>11, <1>12, <2>3
  <2>4. CASE e \notin S /\ g \in S
    BY <1>2, <1>3, <1>6, <1>9, <1>10, <1>11, <1>12, <2>4
  <2>. QED
    BY <2>1, <2>2, <2>3, <2>4
<1>13. \A e \in DOMAIN mail :
          /\ mail[e].body = old[e].body /\ mail[e].acc = old[e].acc
          /\ mail[e].queue = old[e].queue \/ mail[e].queue \in lo .. lo + k - 1
  BY <1>6, <1>10
<1>14. Recalls(c, mail, lo, lo + k)
  <2>1. DOMAIN mail = DOMAIN c.mail
    BY <1>1, <1>9
  <2>2. \A e \in DOMAIN mail :
          /\ mail[e].body = c.mail[e].body /\ mail[e].acc = c.mail[e].acc
          /\ mail[e].queue = c.mail[e].queue \/ mail[e].queue \in lo .. lo + k - 1
    BY <1>1, <1>13
  <2>3. \A e, g \in DOMAIN mail : mail[e].queue = mail[g].queue => e = g
    BY <1>12
  <2>4. PICK hi : hi = lo + k
    OBVIOUS
  <2>5. \A e \in DOMAIN mail :
          /\ mail[e].body = c.mail[e].body /\ mail[e].acc = c.mail[e].acc
          /\ mail[e].queue = c.mail[e].queue \/ mail[e].queue \in lo .. hi - 1
    <3>1. hi - 1 = lo + k - 1
      BY <1>6, <2>4
    <3>. QED
      BY <2>2, <3>1
  <2>6. Recalls(c, mail, lo, hi)
    BY <1>9, <2>1, <2>3, <2>5 DEF Recalls
  <2>. QED
    BY <2>4, <2>6
<1>. QED
  BY <1>1, <1>4, <1>5, <1>6, <1>8, <1>14

\* Mailboxes some of whose entries moved, without any new one.
LEMMA RecallsMove ==
    ASSUME NEW c, Typed(c), Coherent(c), Allocated(c), NEW mail, NEW d,
           d.nextQueue \in Nat, d.nextQueue >= c.nextQueue, d.nextAcc = c.nextAcc,
           Recalls(c, mail, c.nextQueue, d.nextQueue)
    PROVE  MailMoves(c, d, mail) /\ \A e : ~Fresher(c, mail, e)
<1>1. \A e : ~Fresher(c, mail, e)
  BY DEF Recalls, Fresher
<1>2. /\ \A e, g \in DOMAIN c.mail : c.mail[e].acc = c.mail[g].acc => e = g
      /\ \A e \in DOMAIN c.mail : c.mail[e].acc < c.nextAcc /\ c.mail[e].queue < c.nextQueue
  BY MailSequences
<1>3. /\ c.nextAcc \in Nat /\ c.nextQueue \in Nat
      /\ \A e \in DOMAIN c.mail : c.mail[e].queue \in Nat /\ c.mail[e].acc \in Nat
  BY DEF Typed, EntriesTyped, Entry
<1>4. /\ DOMAIN mail = DOMAIN c.mail /\ \A e \in DOMAIN mail : mail[e] \in Entry
      /\ \A e \in DOMAIN mail :
          /\ mail[e].body = c.mail[e].body /\ mail[e].acc = c.mail[e].acc
          /\ mail[e].queue = c.mail[e].queue \/ mail[e].queue \in c.nextQueue .. d.nextQueue - 1
      /\ \A e, g \in DOMAIN mail : mail[e].queue = mail[g].queue => e = g
  BY DEF Recalls, EntriesTyped
<1>5. \A e \in DOMAIN mail : mail[e].queue = c.mail[e].queue \/ mail[e].queue >= c.nextQueue
  BY <1>3, <1>4
<1>6. \A e \in DOMAIN mail : mail[e].acc < d.nextAcc /\ mail[e].queue < d.nextQueue
  BY <1>2, <1>3, <1>4
<1>7. \A e, g \in DOMAIN mail :
          mail[e].acc = mail[g].acc \/ mail[e].queue = mail[g].queue => e = g
  BY <1>2, <1>4
<1>8. c.nextAcc <= d.nextAcc /\ c.nextQueue <= d.nextQueue
  BY <1>3
<1>. QED
  BY <1>1, <1>4, <1>5, <1>6, <1>7, <1>8 DEF MailMoves

\* The emissions of a step have the ids of its receipt, and new sequences.
LEMMA EmittedMove ==
    ASSUME NEW c, Typed(c), Traced(c), Coherent(c), Allocated(c), NEW ems \in Seq(Internal),
           NEW kept, NEW d, d.nextQueue \in Nat, d.nextQueue >= c.nextQueue + Len(ems),
           d.nextAcc = c.nextAcc + Len(ems),
           Recalls(c, kept, c.nextQueue + Len(ems), d.nextQueue)
    PROVE  LET emitted == Emission(c.next, ems, c.nextAcc, c.nextQueue)
               mail == Merge(emitted, kept)
           IN /\ EntriesTyped(mail) /\ MailMoves(c, d, mail)
              /\ \A e : Fresher(c, mail, e) <=> e \in DOMAIN emitted
<1>1. PICK n : n = Len(ems)
  OBVIOUS
<1>2. /\ n \in Nat /\ c.nextAcc \in Nat /\ c.nextQueue \in Nat /\ c.next \in Nat
      /\ \A e \in DOMAIN c.mail : c.mail[e].queue \in Nat /\ c.mail[e].acc \in Nat
  BY <1>1 DEF Typed, EntriesTyped, Entry
<1>3. PICK emitted : emitted = Emission(c.next, ems, c.nextAcc, c.nextQueue)
  OBVIOUS
<1>4. PICK mail : mail = Merge(emitted, kept)
  OBVIOUS
<1>5. EntriesTyped(emitted) /\ DOMAIN emitted = {c.next} \X (1 .. n)
  <2>1. EntriesTyped(emitted)
    BY <1>2, <1>3, EmittedTyped
  <2>2. DOMAIN emitted = {c.next} \X (1 .. n)
    BY <1>1, <1>3 DEF Emission
  <2>. QED
    BY <2>1, <2>2
<1>6. \A e \in DOMAIN emitted : e \notin DOMAIN c.mail
  <2>1. ASSUME NEW e \in DOMAIN emitted PROVE e \notin DOMAIN c.mail
    <3>1. e \in {c.next} \X Nat
      BY <1>2, <1>5
    <3>. QED
      BY <1>2, <3>1, NextUnknown
  <2>. QED
    BY <2>1
<1>7. /\ EntriesTyped(kept) /\ DOMAIN kept = DOMAIN c.mail
      /\ \A e \in DOMAIN kept :
          /\ kept[e].body = c.mail[e].body /\ kept[e].acc = c.mail[e].acc
          /\ kept[e].queue = c.mail[e].queue \/ kept[e].queue \in c.nextQueue + n .. d.nextQueue - 1
      /\ \A e, g \in DOMAIN kept : kept[e].queue = kept[g].queue => e = g
  BY <1>1 DEF Recalls
<1>8. EntriesTyped(mail) /\ DOMAIN mail = DOMAIN emitted \cup DOMAIN c.mail
  <2>1. EntriesTyped(mail) /\ DOMAIN mail = DOMAIN emitted \cup DOMAIN kept
    BY <1>4, <1>5, <1>7, MergedEntries
  <2>. QED
    BY <1>7, <2>1
<1>9. /\ \A e \in DOMAIN emitted : mail[e] = emitted[e]
      /\ \A e \in DOMAIN c.mail : mail[e] = kept[e]
  BY <1>4, <1>6, <1>7, <1>8 DEF Merge
<1>10. \A e : Fresher(c, mail, e) <=> e \in DOMAIN emitted
  BY <1>6, <1>8 DEF Fresher
<1>11. ASSUME NEW i \in 1 .. n, NEW e, e = <<c.next, i>>
       PROVE  /\ e \in DOMAIN emitted /\ emitted[e].body \in Internal
              /\ emitted[e].acc = c.nextAcc + i - 1 /\ emitted[e].queue = c.nextQueue + i - 1
  <2>1. e \in {c.next} \X (1 .. Len(ems)) /\ e[2] = i
    BY <1>1, <1>11
  <2>2. PICK b, a, q : b = ems[i] /\ a = c.nextAcc + i - 1 /\ q = c.nextQueue + i - 1
    OBVIOUS
  <2>3. emitted[e] = [body |-> b, acc |-> a, queue |-> q, place |-> "ready"]
    BY <1>3, <2>1, <2>2 DEF Emission
  <2>4. b \in Internal
    BY <1>1, <2>2
  <2>. QED
    BY <1>1, <1>5, <2>1, <2>2, <2>3, <2>4
<1>12. ASSUME NEW e \in DOMAIN emitted
       PROVE  \E i \in 1 .. n : e = <<c.next, i>>
  BY <1>5
<1>13. ASSUME NEW e \in DOMAIN emitted
       PROVE  /\ e \in {c.next} \X Nat /\ mail[e].body \in Internal
              /\ mail[e].acc \in c.nextAcc .. c.nextAcc + n - 1
              /\ mail[e].queue \in c.nextQueue .. c.nextQueue + n - 1
  <2>1. PICK i \in 1 .. n : e = <<c.next, i>>
    BY <1>12
  <2>2. /\ emitted[e].body \in Internal
        /\ emitted[e].acc = c.nextAcc + i - 1 /\ emitted[e].queue = c.nextQueue + i - 1
    BY <1>11, <2>1
  <2>3. e \in {c.next} \X Nat
    BY <2>1
  <2>4. mail[e].body \in Internal
    BY <1>9, <2>2
  <2>5. mail[e].acc = c.nextAcc + i - 1 /\ mail[e].queue = c.nextQueue + i - 1
    BY <1>9, <2>2
  <2>6. ASSUME NEW p \in Nat PROVE p + i - 1 \in p .. p + n - 1
    BY <1>2
  <2>7. /\ c.nextAcc + i - 1 \in c.nextAcc .. c.nextAcc + n - 1
        /\ c.nextQueue + i - 1 \in c.nextQueue .. c.nextQueue + n - 1
    BY <1>2, <2>6
  <2>. QED
    BY <2>3, <2>4, <2>5, <2>7
<1>14. ASSUME NEW e \in DOMAIN emitted, NEW g \in DOMAIN emitted,
              mail[e].acc = mail[g].acc \/ mail[e].queue = mail[g].queue
       PROVE  e = g
  <2>1. PICK i \in 1 .. n : e = <<c.next, i>>
    BY <1>12
  <2>2. PICK j \in 1 .. n : g = <<c.next, j>>
    BY <1>12
  <2>3. /\ emitted[e].acc = c.nextAcc + i - 1 /\ emitted[e].queue = c.nextQueue + i - 1
        /\ emitted[g].acc = c.nextAcc + j - 1 /\ emitted[g].queue = c.nextQueue + j - 1
    BY <1>11, <2>1, <2>2
  <2>4. mail[e] = emitted[e] /\ mail[g] = emitted[g]
    BY <1>9
  <2>5. i = j
    BY <1>2, <1>14, <2>3, <2>4
  <2>. QED
    BY <2>1, <2>2, <2>5
<1>15. /\ \A e, g \in DOMAIN c.mail : c.mail[e].acc = c.mail[g].acc => e = g
       /\ \A e \in DOMAIN c.mail : c.mail[e].acc < c.nextAcc /\ c.mail[e].queue < c.nextQueue
  BY MailSequences
<1>16. ASSUME NEW e \in DOMAIN c.mail
       PROVE  /\ mail[e].body = c.mail[e].body /\ mail[e].acc = c.mail[e].acc
              /\ mail[e].queue = c.mail[e].queue \/ mail[e].queue >= c.nextQueue
              /\ mail[e].acc < c.nextAcc
              /\ mail[e].queue < c.nextQueue \/ mail[e].queue >= c.nextQueue + n
              /\ mail[e].queue < d.nextQueue
  BY <1>1, <1>2, <1>7, <1>9, <1>15
<1>17. ASSUME NEW e \in DOMAIN mail, NEW g \in DOMAIN mail,
              mail[e].acc = mail[g].acc \/ mail[e].queue = mail[g].queue
       PROVE  e = g
  <2>0. mail[e].queue \in Nat /\ mail[g].queue \in Nat /\ mail[e].acc \in Nat /\ mail[g].acc \in Nat
    BY <1>8 DEF EntriesTyped, Entry
  <2>1. CASE e \in DOMAIN emitted /\ g \in DOMAIN emitted
    BY <1>14, <1>17, <2>1
  <2>2. CASE e \in DOMAIN c.mail /\ g \in DOMAIN c.mail
    BY <1>7, <1>9, <1>15, <1>17, <2>2
  <2>3. CASE e \in DOMAIN emitted /\ g \in DOMAIN c.mail
    <3>1. mail[e].acc >= c.nextAcc /\ mail[g].acc < c.nextAcc
      BY <1>2, <1>13, <1>16, <2>3
    <3>0. mail[e].queue \in c.nextQueue .. c.nextQueue + n - 1
      BY <1>13, <2>3
    <3>2. /\ mail[e].queue >= c.nextQueue /\ mail[e].queue < c.nextQueue + n
          /\ mail[g].queue < c.nextQueue \/ mail[g].queue >= c.nextQueue + n
      <4>1. mail[g].queue < c.nextQueue \/ mail[g].queue >= c.nextQueue + n
        BY <1>16, <2>3
      <4>. QED
        BY <1>2, <2>0, <3>0, <4>1
    <3>. QED
      BY <1>2, <1>17, <2>0, <3>1, <3>2
  <2>4. CASE e \in DOMAIN c.mail /\ g \in DOMAIN emitted
    <3>1. mail[g].acc >= c.nextAcc /\ mail[e].acc < c.nextAcc
      BY <1>2, <1>13, <1>16, <2>4
    <3>0. mail[g].queue \in c.nextQueue .. c.nextQueue + n - 1
      BY <1>13, <2>4
    <3>2. /\ mail[g].queue >= c.nextQueue /\ mail[g].queue < c.nextQueue + n
          /\ mail[e].queue < c.nextQueue \/ mail[e].queue >= c.nextQueue + n
      <4>1. mail[e].queue < c.nextQueue \/ mail[e].queue >= c.nextQueue + n
        BY <1>16, <2>4
      <4>. QED
        BY <1>2, <2>0, <3>0, <4>1
    <3>. QED
      BY <1>2, <1>17, <2>0, <3>1, <3>2
  <2>. QED
    BY <1>8, <2>1, <2>2, <2>3, <2>4
<1>18. \A e \in DOMAIN mail : mail[e].acc < d.nextAcc /\ mail[e].queue < d.nextQueue
  <2>0. d.nextAcc = c.nextAcc + n /\ d.nextQueue >= c.nextQueue + n /\ d.nextAcc \in Nat
    BY <1>1, <1>2
  <2>1. ASSUME NEW e \in DOMAIN emitted PROVE mail[e].acc < d.nextAcc /\ mail[e].queue < d.nextQueue
    <3>1. /\ mail[e].acc \in c.nextAcc .. c.nextAcc + n - 1
          /\ mail[e].queue \in c.nextQueue .. c.nextQueue + n - 1
      BY <1>13
    <3>2. ASSUME NEW p \in Nat, NEW x \in p .. p + n - 1, NEW y \in Nat, y >= p + n
          PROVE  x < y
      BY <1>2, <3>2
    <3>3. c.nextAcc + n >= c.nextAcc + n
      BY <1>2
    <3>. QED
      BY <1>2, <2>0, <3>1, <3>2, <3>3
  <2>2. ASSUME NEW e \in DOMAIN c.mail PROVE mail[e].acc < d.nextAcc /\ mail[e].queue < d.nextQueue
    <3>1. mail[e].acc \in Nat
      BY <1>8 DEF EntriesTyped, Entry
    <3>. QED
      BY <1>1, <1>2, <1>16, <3>1
  <2>. QED
    BY <1>8, <2>1, <2>2
<1>19. ASSUME NEW e, Fresher(c, mail, e)
       PROVE  /\ e \in {c.next} \X Nat /\ mail[e].body \in Internal
              /\ mail[e].acc >= c.nextAcc /\ mail[e].queue >= c.nextQueue
  <2>1. e \in DOMAIN emitted
    BY <1>10, <1>19
  <2>. QED
    BY <1>2, <1>13, <2>1
<1>20. c.nextAcc <= d.nextAcc /\ c.nextQueue <= d.nextQueue
  BY <1>1, <1>2
<1>21. MailMoves(c, d, mail)
  BY <1>8, <1>16, <1>17, <1>18, <1>19, <1>20 DEF MailMoves, EntriesTyped
<1>. QED
  BY <1>3, <1>4, <1>8, <1>10, <1>21

\* e has the next revision of c, and its other fields but for the mailboxes, the
\* receipts and the counter of receipts.
Carries(c, e) ==
    /\ Shaped(e) /\ e.revision = c.revision + 1
    /\ e.root = c.root /\ e.rt = c.rt /\ e.mode = c.mode /\ e.cutoff = c.cutoff
    /\ e.tombstones = c.tombstones /\ e.nextAcc = c.nextAcc /\ e.nextQueue = c.nextQueue
    /\ e.pendingFx = c.pendingFx /\ e.terminalFx = c.terminalFx
    /\ e.tombstoneFx = c.tombstoneFx /\ e.nextFx = c.nextFx

\* Closing does only that.
LEMMA ClosedCarries ==
    ASSUME NEW c, Shaped(c), NEW mail, NEW gone, NEW own, NEW e,
           e = Closed(Mutated(c), mail, gone, own)
    PROVE  Carries(c, e) /\ ClosedAs(c, e, mail, gone, own)
<1>1. PICK m : m = Mutated(c)
  OBVIOUS
<1>2. Carries(c, m)
  BY <1>1 DEF Carries, Mutated, Shaped, Fields
<1>3. PICK kept, receipts, next :
         e = [m EXCEPT !.mail = kept, !.receipts = receipts, !.next = next]
  <2>1. PICK kept : kept = Restrict(mail, DOMAIN mail \ DOMAIN gone)
    OBVIOUS
  <2>2. PICK added : added = Merge(own, TerminalReceipts(mail, gone, m.revision))
    OBVIOUS
  <2>3. PICK receipts : receipts = Synchronized(Merge(added, m.receipts), kept, gone)
    OBVIOUS
  <2>4. PICK next : next = m.next + Cardinality(DOMAIN added)
    OBVIOUS
  <2>5. e = [m EXCEPT !.mail = kept, !.receipts = Synchronized(Merge(added, @), kept, gone),
                      !.next = @ + Cardinality(DOMAIN added)]
    BY Zenon, <1>1, <2>1, <2>2 DEF Closed
  <2>6. e = [m EXCEPT !.mail = kept, !.receipts = receipts, !.next = next]
    BY <1>2, <2>3, <2>4, <2>5 DEF Carries, Shaped, Fields
  <2>. QED
    BY <2>6
<1>4. Carries(c, e)
  BY <1>2, <1>3 DEF Carries, Shaped, Fields
<1>5. ClosedAs(c, e, mail, gone, own)
  BY Zenon DEF ClosedAs
<1>. QED
  BY <1>4, <1>5

\* The head has the first sequence, and the entries disposed of those after it.
Disposes(c, mail, head, lost, gone) ==
    /\ DOMAIN gone = head \cup lost /\ Cardinality(lost) \in Nat
    /\ \A e \in head : gone[e] = c.next
    /\ \A e \in lost : gone[e] # c.next
    /\ \A own : DOMAIN own = {c.next} /\ OwnReceipt(c, mail, gone, own[c.next]) =>
                 Numbering(c, mail, gone, own, Cardinality(lost) + 1)

\* The sequences of a dispatch: first its own receipt, then the entries disposed of.
LEMMA DispatchNumbering ==
    ASSUME NEW c, c.next \in Nat, NEW mail, EntriesTyped(mail), DOMAIN c.mail \subseteq DOMAIN mail,
           \A e, g \in DOMAIN mail : mail[e].acc = mail[g].acc => e = g,
           NEW head, head \subseteq DOMAIN c.mail, \A e, g \in head : e = g,
           NEW lost, lost \subseteq DOMAIN mail, lost \cap head = {},
           NEW at, DOMAIN at = head, \A e \in head : at[e] = c.next,
           NEW gone, gone = Merge(at, Numbered(mail, lost, c.next + 1))
    PROVE  Disposes(c, mail, head, lost, gone)
<1>1. PICK first : first = c.next
  OBVIOUS
<1>2. PICK m : m = Cardinality(lost)
  OBVIOUS
<1>3. PICK numbered : numbered = Numbered(mail, lost, first + 1)
  OBVIOUS
<1>4. /\ DOMAIN numbered = lost /\ m \in Nat
      /\ \A e, g \in lost : numbered[e] = numbered[g] => e = g
      /\ {numbered[e] : e \in lost} = first + 1 .. first + 1 + m - 1
  <2>1. \A e, g \in lost : mail[e].acc = mail[g].acc => e = g
    OBVIOUS
  <2>2. first + 1 \in Nat
    BY <1>1
  <2>. QED
    BY <1>2, <1>3, <2>1, <2>2, NumberedRange
<1>5. /\ DOMAIN gone = head \cup lost
      /\ \A e \in head : gone[e] = first
      /\ \A e \in lost : gone[e] = numbered[e]
  BY <1>1, <1>3, <1>4 DEF Merge
<1>6. first \in Nat /\ first + 1 + m - 1 = first + m /\ first + (m + 1) - 1 = first + m
  BY <1>1, <1>4
<1>7. \A e \in lost : gone[e] \in first + 1 .. first + m
  BY <1>4, <1>5, <1>6
<1>8. \A e \in lost : gone[e] # first
  BY <1>4, <1>6, <1>7
<1>9. \A e, g \in DOMAIN gone : gone[e] = gone[g] => e = g
  <2>. SUFFICES ASSUME NEW e \in DOMAIN gone, NEW g \in DOMAIN gone, gone[e] = gone[g]
                PROVE  e = g
    OBVIOUS
  <2>1. CASE e \in head /\ g \in head
    BY <2>1
  <2>2. CASE e \in lost /\ g \in lost
    BY <1>4, <1>5, <2>2
  <2>. QED
    BY <1>5, <1>8, <2>1, <2>2
<1>10. {gone[e] : e \in DOMAIN gone} \cup {first} = first .. first + m
  <2>1. ASSUME NEW n \in first + 1 .. first + m PROVE \E e \in lost : gone[e] = n
    <3>1. n \in {numbered[e] : e \in lost}
      BY <1>4, <1>6, <2>1
    <3>2. PICK e \in lost : numbered[e] = n
      BY <3>1
    <3>. QED
      BY <1>5, <3>2
  <2>2. first .. first + m = {first} \cup (first + 1 .. first + m)
    BY <1>4, <1>6
  <2>3. {gone[e] : e \in DOMAIN gone} \subseteq {first} \cup (first + 1 .. first + m)
    BY <1>5, <1>7
  <2>4. first + 1 .. first + m \subseteq {gone[e] : e \in DOMAIN gone}
    BY <1>5, <2>1
  <2>. QED
    BY <2>2, <2>3, <2>4
<1>11. ASSUME NEW own, DOMAIN own = {c.next}, OwnReceipt(c, mail, gone, own[c.next])
       PROVE  Numbering(c, mail, gone, own, m + 1)
  <2>2. DOMAIN own = {first}
    BY <1>1, <1>11
  <2>3. {gone[e] : e \in DOMAIN gone} \cup DOMAIN own = c.next .. c.next + (m + 1) - 1
    BY <1>1, <1>6, <1>10, <2>2
  <2>4. DOMAIN gone \subseteq DOMAIN mail /\ m + 1 \in Nat
    BY <1>4, <1>5
  <2>5. \A e : Fresher(c, mail, e) =>
           c.next \in DOMAIN own /\ (e \in DOMAIN gone => gone[e] # c.next)
    BY <1>1, <1>5, <1>8, <2>2 DEF Fresher
  <2>6. DOMAIN own \subseteq {c.next} /\ (c.next = 0 => 0 \in DOMAIN own)
    BY <1>1, <2>2
  <2>7. \A s \in DOMAIN own : OwnReceipt(c, mail, gone, own[s])
    BY <1>11
  <2>8. Numbering(c, mail, gone, own, m + 1)
    BY <1>9, <2>3, <2>4, <2>5, <2>6, <2>7, Zenon DEF Numbering
  <2>. QED
    BY <2>8
<1>. QED
  BY <1>1, <1>2, <1>4, <1>5, <1>8, <1>11 DEF Disposes

\* What a dispatch writes of itself.
LEMMA DispatchReceipt ==
    ASSUME NEW c, Typed(c), NEW mail, EntriesTyped(mail), DOMAIN c.mail \subseteq DOMAIN mail,
           NEW head, head \subseteq DOMAIN c.mail, \A e, g \in head : e = g,
           c.next = 0 => head = {},
           \A h \in head : /\ mail[h].body = c.mail[h].body /\ mail[h].acc = c.mail[h].acc
                           /\ mail[h].queue = c.mail[h].queue,
           NEW emitted, \A e : Fresher(c, mail, e) <=> e \in emitted,
           emitted \subseteq Nat \X Nat,
           NEW gone, head \subseteq DOMAIN gone, \A e \in head : gone[e] = c.next,
           head = {} => \A e \in DOMAIN gone : gone[e] # c.next,
           NEW effects, effects \subseteq {c.next},
           NEW base,
           base = (IF head = {}
                   THEN Receipt("creation", Nobody, [body |-> Failure, acc |-> 0, queue |-> 0],
                                c.revision + 1)
                   ELSE LET h == CHOOSE e \in head : TRUE
                        IN Receipt("event_terminal", h, c.mail[h], c.revision + 1)),
           NEW refs, refs = {[id |-> e, acc |-> mail[e].acc, kind |-> "internal_mailbox",
                              n |-> mail[e].queue] : e \in emitted}
    PROVE  OwnReceipt(c, mail, gone, [base EXCEPT !.refs = refs, !.effects = effects])
<1>1. PICK x : x = [base EXCEPT !.refs = refs, !.effects = effects]
  OBVIOUS
<1>2. PICK kind, id, entry :
         /\ base = Receipt(kind, id, entry, c.revision + 1)
         /\ entry.body \in Bodies /\ entry.acc \in Nat /\ entry.queue \in Nat
         /\ \/ head = {} /\ kind = "creation"
            \/ /\ kind = "event_terminal" /\ id \in head
               /\ entry.body = mail[id].body /\ entry.acc = mail[id].acc
               /\ entry.queue = mail[id].queue
  <2>1. CASE head = {}
    <3>1. PICK entry : entry = [body |-> Failure, acc |-> 0, queue |-> 0]
      OBVIOUS
    <3>2. entry.body \in Bodies /\ entry.acc \in Nat /\ entry.queue \in Nat
      BY <3>1, CheckpointAssumption
    <3>3. base = Receipt("creation", Nobody, entry, c.revision + 1)
      BY <2>1, <3>1
    <3>. QED
      BY <2>1, <3>2, <3>3
  <2>2. CASE head # {}
    <3>1. PICK h : h = CHOOSE e \in head : TRUE
      OBVIOUS
    <3>2. h \in head
      BY <2>2, <3>1, Zenon
    <3>3. c.mail[h].body \in Bodies /\ c.mail[h].acc \in Nat /\ c.mail[h].queue \in Nat
      BY <3>2 DEF Typed, EntriesTyped, Entry
    <3>4. base = Receipt("event_terminal", h, c.mail[h], c.revision + 1)
      BY <2>2, <3>1
    <3>. QED
      BY <3>2, <3>3, <3>4
  <2>. QED
    BY <2>1, <2>2
<1>3. refs \subseteq Reference
  <2>1. \A e \in emitted : e \in Nat \X Nat /\ mail[e].acc \in Nat /\ mail[e].queue \in Nat
    BY DEF EntriesTyped, Entry, Fresher
  <2>. QED
    BY <2>1 DEF Reference
<1>4. /\ x.kind = kind /\ x.id = id /\ x.body = entry.body /\ x.acc = entry.acc
      /\ x.queue = entry.queue /\ x.rev = c.revision + 1 /\ x.refs = refs /\ x.effects = effects
  BY <1>1, <1>2 DEF Receipt
<1>5. ReceiptTyped(x)
  <2>1. kind \in Kinds
    BY <1>2 DEF Kinds
  <2>. QED
    BY <1>1, <1>2, <1>3, <1>4, <2>1 DEF ReceiptTyped, IsReceipt, ReceiptFields, Receipt
<1>6. emitted = {g \in DOMAIN mail : Fresher(c, mail, g)}
  BY DEF Fresher
<1>7. refs = {[id |-> e, acc |-> mail[e].acc, kind |-> "internal_mailbox",
               n |-> mail[e].queue] : e \in {g \in DOMAIN mail : Fresher(c, mail, g)}}
  BY <1>6
<1>8. IF x.kind = "event_terminal"
      THEN /\ x.id \in DOMAIN gone /\ gone[x.id] = c.next
           /\ x.body = mail[x.id].body /\ x.acc = mail[x.id].acc /\ x.queue = mail[x.id].queue
      ELSE \A e \in DOMAIN gone : gone[e] # c.next
  <2>1. CASE head = {} /\ kind = "creation"
    BY <1>4, <2>1
  <2>2. CASE kind = "event_terminal" /\ id \in head
    BY <1>2, <1>4, <2>2
  <2>. QED
    BY <1>2, <2>1, <2>2
<1>9. x.kind # "acceptance" /\ (c.next = 0 => x.kind = "creation")
  BY <1>2, <1>4
<1>10. OwnReceipt(c, mail, gone, x)
  BY <1>2, <1>4, <1>5, <1>7, <1>8, <1>9 DEF OwnReceipt
<1>. QED
  BY <1>1, <1>10

\* A creation or a step closes entries.
LEMMA DispatchedCloses ==
    ASSUME NEW c, Typed(c), Below(c), Traced(c), Coherent(c), Allocated(c),
           NEW head, head \subseteq DOMAIN c.mail, \A e, g \in head : e = g, c.next = 0 => head = {},
           NEW rt \in [Runtimes -> Status],
           NEW ems \in Seq(Internal), NEW S, S \subseteq DOMAIN c.mail, S \cap head = {}, NEW fx
    PROVE  LET d == Dispatched(c, head, rt, ems, S, fx)
           IN /\ \E mail, gone : Closes(c, d, mail, gone)
              /\ d.next > c.next
<1>. DEFINE emitted == Emission(c.next, ems, c.nextAcc, c.nextQueue)
            recalled == Renumbered(c.mail, S, c.nextQueue + Len(ems))
            mail == Merge(emitted, Merge(recalled, c.mail))
            lost == {e \in DOMAIN mail \ head : Ended(rt, Target[mail[e].body])}
            gone == Merge([e \in head |-> c.next], Numbered(mail, lost, c.next + 1))
            base == IF head = {}
                    THEN Receipt("creation", Nobody, [body |-> Failure, acc |-> 0, queue |-> 0],
                                 c.revision + 1)
                    ELSE LET h == CHOOSE e \in head : TRUE
                         IN Receipt("event_terminal", h, c.mail[h], c.revision + 1)
            refs == {[id |-> e, acc |-> mail[e].acc, kind |-> "internal_mailbox",
                      n |-> mail[e].queue] : e \in DOMAIN emitted}
            effects == IF fx THEN {c.next} ELSE {}
            x == [base EXCEPT !.refs = refs, !.effects = effects]
            own == [s \in {c.next} |-> x]
            new == [f \in x.effects |-> "not_attempted"]
<1>0. PICK d : d = Dispatched(c, head, rt, ems, S, fx)
  OBVIOUS
<1>1. d = Stepped(Closed(Mutated(c), mail, gone, own), rt, Len(ems), Cardinality(S), new)
  BY <1>0, Zenon DEF Dispatched, Emission
<1>. HIDE DEF effects, new, emitted, recalled, lost, gone, base, refs, x, own
<1>2. /\ c.next \in Nat /\ c.nextAcc \in Nat /\ c.nextQueue \in Nat /\ EntriesTyped(c.mail)
      /\ Len(ems) \in Nat /\ c.nextQueue + Len(ems) \in Nat
      /\ c.nextQueue + Len(ems) >= c.nextQueue
  BY DEF Typed
<1>3. PICK kept : kept = Merge(recalled, c.mail)
  OBVIOUS
<1>4. /\ Recalls(c, kept, c.nextQueue + Len(ems), c.nextQueue + Len(ems) + Cardinality(S))
      /\ Cardinality(S) \in Nat
  BY <1>2, <1>3, RenumberedRecalls DEF recalled
<1>5. mail = Merge(emitted, kept)
  BY <1>3
<1>. HIDE DEF mail
<1>6. PICK e : e = Closed(Mutated(c), mail, gone, own)
  OBVIOUS
<1>7. Carries(c, e) /\ ClosedAs(c, e, mail, gone, own)
  BY <1>6, ClosedCarries DEF Typed
<1>8. /\ d.root = "retained" /\ d.revision = e.revision /\ d.cutoff = e.cutoff
      /\ d.tombstones = e.tombstones /\ d.mail = e.mail /\ d.receipts = e.receipts
      /\ d.next = e.next /\ d.terminalFx = e.terminalFx /\ d.tombstoneFx = e.tombstoneFx
      /\ d.nextFx = e.nextFx /\ d.pendingFx = Merge(new, e.pendingFx)
      /\ d.nextAcc = e.nextAcc + Len(ems) /\ d.nextQueue = e.nextQueue + Len(ems) + Cardinality(S)
  <2>1. d = Stepped(e, rt, Len(ems), Cardinality(S), new) /\ Shaped(e)
    BY <1>1, <1>6, <1>7 DEF Carries
  <2>. QED
    BY <2>1 DEF Stepped, Shaped, Fields
<1>9. /\ d.revision = c.revision + 1 /\ d.cutoff = c.cutoff /\ d.tombstones = c.tombstones
      /\ d.terminalFx = c.terminalFx /\ d.tombstoneFx = c.tombstoneFx /\ d.nextFx = c.nextFx
      /\ d.nextAcc = c.nextAcc + Len(ems) /\ d.nextQueue = c.nextQueue + Len(ems) + Cardinality(S)
      /\ d.pendingFx = Merge(new, c.pendingFx)
  BY <1>7, <1>8 DEF Carries
<1>10. ClosedAs(c, d, mail, gone, own)
  <2>1. PICK m : m = Closed(Mutated(c), mail, gone, own)
    OBVIOUS
  <2>2. e.mail = m.mail /\ e.receipts = m.receipts /\ e.next = m.next
    BY <1>6, <2>1
  <2>. QED
    BY <1>8, <2>1, <2>2 DEF ClosedAs
<1>11. Typed(d) /\ d.next > c.next
  BY <1>0, DispatchedTyped DEF Records
<1>12. /\ EntriesTyped(mail) /\ MailMoves(c, d, mail)
       /\ \A g : Fresher(c, mail, g) <=> g \in DOMAIN emitted
  <2>1. d.nextQueue \in Nat /\ d.nextQueue >= c.nextQueue + Len(ems)
    BY <1>2, <1>4, <1>9
  <2>2. Recalls(c, kept, c.nextQueue + Len(ems), d.nextQueue)
    BY <1>4, <1>9
  <2>. QED
    BY <1>5, <1>9, <2>1, <2>2, EmittedMove DEF emitted
<1>13. /\ DOMAIN c.mail \subseteq DOMAIN mail
       /\ \A g, h \in DOMAIN mail : mail[g].acc = mail[h].acc => g = h
  BY <1>12 DEF MailMoves
<1>14. lost \subseteq DOMAIN mail /\ lost \cap head = {}
  BY DEF lost
<1>15. /\ DOMAIN gone = head \cup lost /\ Cardinality(lost) \in Nat
       /\ \A g \in head : gone[g] = c.next
       /\ \A g \in lost : gone[g] # c.next
       /\ \A y : DOMAIN y = {c.next} /\ OwnReceipt(c, mail, gone, y[c.next]) =>
             Numbering(c, mail, gone, y, Cardinality(lost) + 1)
  <2>1. PICK at : at = [g \in head |-> c.next]
    OBVIOUS
  <2>2. DOMAIN at = head /\ \A g \in head : at[g] = c.next
    BY <2>1
  <2>3. gone = Merge(at, Numbered(mail, lost, c.next + 1))
    BY <2>1 DEF gone
  <2>4. Disposes(c, mail, head, lost, gone)
    BY <1>2, <1>12, <1>13, <1>14, <2>2, <2>3, DispatchNumbering, Zenon
  <2>. QED
    BY <2>4 DEF Disposes
<1>16. \A h \in head : /\ mail[h].body = c.mail[h].body /\ mail[h].acc = c.mail[h].acc
                       /\ mail[h].queue = c.mail[h].queue
  <2>1. ASSUME NEW h \in head PROVE mail[h] = c.mail[h]
    <3>1. h \in DOMAIN c.mail /\ h \notin S
      BY <2>1
    <3>2. h \notin DOMAIN emitted
      BY <1>12, <3>1 DEF Fresher
    <3>3. DOMAIN recalled = S
      BY DEF recalled, Renumbered
    <3>4. h \in DOMAIN kept /\ kept[h] = c.mail[h]
      BY <1>3, <3>1, <3>3 DEF Merge
    <3>. QED
      BY <1>5, <3>2, <3>4 DEF Merge
  <2>. QED
    BY <2>1
<1>17. DOMAIN emitted \subseteq Nat \X Nat
  BY <1>2, EmittedTyped DEF emitted
<1>18. effects \subseteq {c.next}
  BY DEF effects
<1>19. OwnReceipt(c, mail, gone, x)
  <2>1. /\ head \subseteq DOMAIN gone
        /\ head = {} => \A g \in DOMAIN gone : gone[g] # c.next
    BY <1>15
  <2>2. x = [base EXCEPT !.refs = refs, !.effects = effects]
    BY DEF x
  <2>3. base = IF head = {}
               THEN Receipt("creation", Nobody, [body |-> Failure, acc |-> 0, queue |-> 0],
                            c.revision + 1)
               ELSE LET h == CHOOSE g \in head : TRUE
                    IN Receipt("event_terminal", h, c.mail[h], c.revision + 1)
    BY DEF base
  <2>4. refs = {[id |-> g, acc |-> mail[g].acc, kind |-> "internal_mailbox",
                 n |-> mail[g].queue] : g \in DOMAIN emitted}
    BY DEF refs
  <2>. QED
    BY <1>12, <1>13, <1>15, <1>16, <1>17, <1>18, <2>1, <2>2, <2>3, <2>4, DispatchReceipt
<1>20. PICK k : k = Cardinality(lost) + 1
  OBVIOUS
<1>21. Numbering(c, mail, gone, own, k)
  <2>1. DOMAIN own = {c.next} /\ own[c.next] = x
    BY DEF own
  <2>. QED
    BY <1>15, <1>19, <1>20, <2>1
<1>22. DOMAIN d.pendingFx = DOMAIN c.pendingFx \cup EffectsOf(own)
  <2>1. EffectsOf(own) = x.effects
    BY DEF own, EffectsOf
  <2>. QED
    BY <1>9, <2>1 DEF new, Merge
<1>23. Closes(c, d, mail, gone)
  BY <1>9, <1>10, <1>11, <1>12, <1>21, <1>22, ClosedCloses
<1>. QED
  BY <1>0, <1>11, <1>23

\* Nothing to close and nothing to write.
LEMMA NothingNumbered ==
    ASSUME NEW c, c.next \in Nat \ {0}, NEW mail, NEW none, DOMAIN none = {},
           \A e : ~Fresher(c, mail, e)
    PROVE  Numbering(c, mail, none, none, 0)
<1>1. c.next + 0 - 1 < c.next
  OBVIOUS
<1>2. {none[e] : e \in DOMAIN none} \cup DOMAIN none = c.next .. c.next + 0 - 1
  BY <1>1
<1>. QED
  BY <1>2 DEF Numbering

\* A deferral closes nothing.
LEMMA DeferredCloses ==
    ASSUME NEW c, Typed(c), Below(c), Traced(c), Coherent(c), Allocated(c), c.next # 0,
           NEW h \in DOMAIN c.mail
    PROVE  \E mail, gone : Closes(c, Deferred(c, h), mail, gone)
<1>1. PICK mail : mail = [c.mail EXCEPT ![h].place = "deferred", ![h].queue = c.nextQueue]
  OBVIOUS
<1>2. PICK none : none = <<>>
  OBVIOUS
<1>3. DOMAIN none = {}
  BY <1>2
<1>4. PICK e : e = Closed(Mutated(c), mail, none, none)
  OBVIOUS
<1>5. PICK d : d = Deferred(c, h)
  OBVIOUS
<1>6. d = [e EXCEPT !.nextQueue = @ + 1]
  BY Zenon, <1>1, <1>2, <1>4, <1>5 DEF Deferred
<1>7. Carries(c, e) /\ ClosedAs(c, e, mail, none, none)
  BY <1>4, ClosedCarries DEF Typed
<1>8. /\ d.revision = c.revision + 1 /\ d.cutoff = c.cutoff /\ d.tombstones = c.tombstones
      /\ d.nextAcc = c.nextAcc /\ d.nextQueue = c.nextQueue + 1 /\ d.pendingFx = c.pendingFx
      /\ d.terminalFx = c.terminalFx /\ d.tombstoneFx = c.tombstoneFx /\ d.nextFx = c.nextFx
      /\ d.mail = e.mail /\ d.receipts = e.receipts /\ d.next = e.next
  BY <1>6, <1>7 DEF Carries, Shaped, Fields
<1>9. ClosedAs(c, d, mail, none, none)
  BY <1>7, <1>8, Zenon DEF ClosedAs
<1>10. Typed(d)
  BY <1>5, DeferredTyped DEF Records
<1>11. Recalls(c, mail, c.nextQueue, c.nextQueue + 1)
  BY <1>1, DeferralRecalls
<1>12. d.nextQueue \in Nat /\ d.nextQueue >= c.nextQueue
  BY <1>8 DEF Typed
<1>13. MailMoves(c, d, mail) /\ \A g : ~Fresher(c, mail, g)
  <2>1. Recalls(c, mail, c.nextQueue, d.nextQueue)
    BY <1>8, <1>11
  <2>. QED
    BY <1>8, <1>12, <2>1, RecallsMove
<1>14. Numbering(c, mail, none, none, 0)
  BY <1>3, <1>13, NothingNumbered DEF Typed
<1>15. DOMAIN d.pendingFx = DOMAIN c.pendingFx \cup EffectsOf(none)
  BY <1>3, <1>8 DEF EffectsOf
<1>16. EntriesTyped(mail)
  BY <1>11 DEF Recalls
<1>17. Closes(c, d, mail, none)
  BY <1>8, <1>9, <1>10, <1>13, <1>14, <1>15, <1>16, ClosedCloses
<1>. QED
  BY <1>5, <1>17

\* A checkpoint that restores has its first receipt.
LEMMA ValidNext ==
    ASSUME NEW c, Typed(c), Below(c), SemanticsValid(c)
    PROVE  c.next > 0 /\ SequencesValid(c)
<1>1. SequencesValid(c)
  BY Zenon DEF SemanticsValid
<1>2. 0 \in DOMAIN c.receipts
  BY <1>1 DEF SequencesValid
<1>. QED
  BY <1>1, <1>2 DEF Below

\* A retained root has allocated every sequence in use.
LEMMA RetainedAllocated ==
    ASSUME NEW c, Coherent(c), c.root = "retained"
    PROVE  Allocated(c)
<1>1. OwnersSound(c) /\ QueuesSound(c)
  BY Zenon DEF Coherent
<1>. QED
  BY <1>1 DEF OwnersSound, QueuesSound, Allocated

\* A step of a checkpoint that restores leaves one.
LEMMA StepsValid ==
    ASSUME NEW c, Typed(c), Below(c), Traced(c), SemanticsValid(c), c.root = "retained",
           NEW r, Waiting(c, r, "ready") # {}, NEW d \in Steps(c, r)
    PROVE  SemanticsValid(d) /\ Traced(d)
<1>1. c.next > 0 /\ SequencesValid(c)
  BY ValidNext
<1>2. Coherent(c) /\ Allocated(c)
  BY ValidCoherent, RetainedAllocated
<1>3. c.next # 0
  BY <1>1 DEF Typed
<1>4. \E mail, gone : Closes(c, d, mail, gone)
  <2>1. PICK h \in DOMAIN c.mail : d = Deferred(c, h) \/ DispatchesHead(c, r, h, d)
    BY StepArguments
  <2>2. CASE d = Deferred(c, h)
    BY <1>2, <1>3, <2>2, DeferredCloses
  <2>3. CASE DispatchesHead(c, r, h, d)
    <3>0. PICK S \in SUBSET (DOMAIN c.mail \ {h}),
               rt \in [Runtimes -> Status],
               ems \in Seq(Internal), fx \in BOOLEAN : d = Dispatched(c, {h}, rt, ems, S, fx)
      BY <2>3, Zenon DEF DispatchesHead
    <3>1. PICK head : head = {h}
      OBVIOUS
    <3>2. /\ head \subseteq DOMAIN c.mail /\ S \subseteq DOMAIN c.mail /\ S \cap head = {}
          /\ \A e, g \in head : e = g
      BY <3>1
    <3>. QED
      BY <1>2, <1>3, <3>0, <3>1, <3>2, DispatchedCloses
  <2>. QED
    BY <2>1, <2>2, <2>3
<1>. QED
  BY <1>1, <1>4, ClosesValid

\* The empty record has nothing to be wrong.
LEMMA BlankCoherent == Traced(Blank) /\ Coherent(Blank) /\ Allocated(Blank)
<1>1. PICK b : b = Blank
  OBVIOUS
<1>2. /\ DOMAIN b.mail = {} /\ DOMAIN b.receipts = {} /\ DOMAIN b.tombstones = {}
      /\ DOMAIN b.pendingFx = {} /\ DOMAIN b.terminalFx = {} /\ DOMAIN b.tombstoneFx = {}
      /\ b.nextFx = 0 /\ b.root = "none"
  BY <1>1 DEF Blank
<1>3. Traced(b)
  BY <1>2 DEF Traced
<1>4. \A s, e, x : ~Accepts(b, s, e) /\ ~Ends(b, s, e) /\ ~Refers(b, s, x, e)
  BY <1>2 DEF Accepts, Ends, Refers
<1>5. \A n, e : ~Owns(b, n, e) /\ ~Queues(b, n, e)
  BY <1>2, <1>4 DEF Owns, Queues
<1>6. ChronologyValid(b) /\ OwnersSound(b) /\ QueuesSound(b) /\ Allocated(b)
  BY <1>2, <1>5 DEF ChronologyValid, OwnersSound, QueuesSound, Allocated
<1>7. EffectsValid(b)
  BY <1>2 DEF EffectsValid, EffectsOf
<1>8. OneReference(b) /\ ReferenceKinds(b)
  BY <1>4 DEF OneReference, ReferenceKinds
<1>9. Coherent(b)
  BY <1>2, <1>4, <1>6, <1>7, <1>8, Zenon DEF Coherent
<1>. QED
  BY <1>1, <1>3, <1>6, <1>9

\* A creation restores.
LEMMA CreationsValid ==
    ASSUME NEW d \in Creations
    PROVE  SemanticsValid(d) /\ Traced(d)
<1>1. PICK rt \in [Runtimes -> Status], ems \in Seq(Internal),
           fx \in BOOLEAN : d = Dispatched(Blank, {}, rt, ems, {}, fx)
  BY CreationArguments
<1>2. PICK none : none = {}
  OBVIOUS
<1>3. PICK b : b = Blank
  OBVIOUS
<1>4. /\ Typed(b) /\ Below(b) /\ b.next = 0 /\ Traced(b) /\ Coherent(b) /\ Allocated(b)
  BY <1>3, BlankTyped, BlankCoherent
<1>5. b.cutoff = None /\ DOMAIN b.receipts = {}
  BY <1>3 DEF Blank
<1>6. d = Dispatched(b, none, rt, ems, none, fx)
  BY <1>1, <1>2, <1>3
<1>7. none \subseteq DOMAIN b.mail /\ none \cap none = {} /\ \A e, g \in none : e = g
  BY <1>2
<1>8. (\E mail, gone : Closes(b, d, mail, gone)) /\ d.next > b.next
  BY <1>2, <1>4, <1>6, <1>7, DispatchedCloses
<1>9. d.next > 0
  BY <1>4, <1>8
<1>. QED
  BY <1>4, <1>5, <1>8, <1>9, ClosesValid

-----------------------------------------------------------------------------
(* Admissions.                                                             *)

\* d comes of c by accepting the entries of "new", under the receipts "at" gives.
Admits(c, d, new, at) ==
    /\ d.revision = c.revision + 1 /\ d.cutoff = c.cutoff /\ d.tombstones = c.tombstones
    /\ d.root = c.root /\ d.pendingFx = c.pendingFx /\ d.terminalFx = c.terminalFx
    /\ d.tombstoneFx = c.tombstoneFx /\ d.nextFx = c.nextFx
    /\ d.next >= c.next /\ d.nextAcc = c.nextAcc + (d.next - c.next)
    /\ d.nextQueue = c.nextQueue + (d.next - c.next)
    /\ DOMAIN at = DOMAIN new
    /\ \A e \in DOMAIN new :
          /\ e \in Events /\ Known(c, e) = {}
          /\ new[e] \in Entry /\ at[e] \in c.next .. d.next - 1
          /\ new[e].acc = c.nextAcc + (at[e] - c.next)
          /\ new[e].queue = c.nextQueue + (at[e] - c.next)
    /\ \A e, g \in DOMAIN new : at[e] = at[g] => e = g
    /\ \A s \in c.next .. d.next - 1 : \E e \in DOMAIN new : at[e] = s
    /\ DOMAIN d.mail = DOMAIN new \cup DOMAIN c.mail
    /\ \A e \in DOMAIN new : d.mail[e] = new[e]
    /\ \A e \in DOMAIN c.mail : e \notin DOMAIN new => d.mail[e] = c.mail[e]
    /\ DOMAIN d.receipts = DOMAIN c.receipts \cup c.next .. d.next - 1
    /\ \A s \in DOMAIN c.receipts : d.receipts[s] = c.receipts[s]
    /\ \A e \in DOMAIN new :
          /\ d.receipts[at[e]].kind = "acceptance" /\ d.receipts[at[e]].id = e
          /\ d.receipts[at[e]].body = new[e].body /\ d.receipts[at[e]].acc = new[e].acc
          /\ d.receipts[at[e]].queue = 0 /\ d.receipts[at[e]].rev = d.revision
          /\ d.receipts[at[e]].refs = {} /\ d.receipts[at[e]].effects = {}

\* An admission does.
LEMMA AdmittedAdmits ==
    ASSUME NEW c, Typed(c), Below(c), NEW n \in Nat, NEW batch \in [1 .. n -> Delivery],
           \A i, j \in 1 .. n : i # j => batch[i].id # batch[j].id
    PROVE  \E new, at :
              /\ Admits(c, Admitted(c, batch), new, at)
              /\ \A e \in DOMAIN new : \E i \in 1 .. n : batch[i].id = e /\ new[e].body = batch[i].body
<1>. DEFINE fresh == Fresh(c, batch)
            rank(i) == Cardinality({j \in 1 .. i - 1 : j \in fresh})
            entry(i) == [body |-> batch[i].body, acc |-> c.nextAcc + rank(i),
                         queue |-> c.nextQueue + rank(i), place |-> "ready"]
            receipt(i) == Receipt("acceptance", batch[i].id, [entry(i) EXCEPT !.queue = 0],
                                  c.revision + 1)
            entryOf(e) == {entry(i) : i \in {j \in fresh : batch[j].id = e}}
            receiptAt(s) == {receipt(i) : i \in {j \in fresh : c.next + rank(j) = s}}
            entries == [e \in {batch[i].id : i \in fresh} |-> CHOOSE x \in entryOf(e) : TRUE]
            written == [s \in {c.next + rank(i) : i \in fresh} |-> CHOOSE x \in receiptAt(s) : TRUE]
            count == Cardinality(fresh)
<1>1. Admitted(c, batch)
      = [Mutated(c) EXCEPT !.mail = Merge(entries, @), !.receipts = Merge(written, @),
                           !.next = @ + count, !.nextAcc = @ + count, !.nextQueue = @ + count]
  BY Zenon DEF Admitted
<1>2. PICK m : m = Mutated(c)
  OBVIOUS
<1>3. Carries(c, m) /\ m.mail = c.mail /\ m.receipts = c.receipts /\ m.next = c.next
  BY <1>2 DEF Carries, Mutated, Shaped, Fields, Typed
<1>4. /\ c.next \in Nat /\ c.nextAcc \in Nat /\ c.nextQueue \in Nat
      /\ EntriesTyped(c.mail) /\ ReceiptsTyped(c.receipts)
  BY DEF Typed
<1>5. /\ fresh \subseteq 1 .. n /\ \A i \in fresh : Known(c, batch[i].id) = {}
      /\ \A i \in fresh : batch[i] \in Delivery
  BY DEF Fresh
<1>. HIDE DEF fresh
<1>6. IsFiniteSet(fresh) /\ count \in Nat
  <2>1. 1 \in Int /\ n \in Int
    OBVIOUS
  <2>2. IsFiniteSet(1 .. n)
    BY <2>1, FS_Interval
  <2>. QED
    BY <1>5, <2>2, FS_Subset, FS_CardinalityType
<1>7. /\ \A i \in fresh : rank(i) \in 0 .. count - 1
      /\ \A i, j \in fresh : rank(i) = rank(j) => i = j
      /\ \A k \in 0 .. count - 1 : \E i \in fresh : rank(i) = k
  <2>1. PICK key : key = [i \in fresh |-> i]
    OBVIOUS
  <2>2. key \in [fresh -> Nat] /\ \A a, b \in fresh : key[a] = key[b] => a = b
    BY <1>5, <2>1
  <2>3. ASSUME NEW i \in fresh PROVE rank(i) = RankIn(fresh, key, i)
    <3>0. i \in Int /\ \A j \in fresh : j \in Int /\ j >= 1 /\ key[j] = j
      BY <1>5, <2>1, <2>3
    <3>01. key[i] = i
      BY <2>3, <3>0
    <3>02. ASSUME NEW j \in fresh PROVE key[j] < key[i] <=> j \in 1 .. i - 1
      BY <3>0, <3>01
    <3>1. {j \in 1 .. i - 1 : j \in fresh} = {j \in fresh : key[j] < key[i]}
      BY <3>02
    <3>. QED
      BY <3>1 DEF RankIn
  <2>. HIDE DEF rank, count
  <2>4. count = Cardinality(fresh)
    BY DEF count
  <2>5. /\ \A a \in fresh : RankIn(fresh, key, a) \in 0 .. count - 1
        /\ \A a, b \in fresh : RankIn(fresh, key, a) = RankIn(fresh, key, b) => a = b
        /\ \A k \in 0 .. count - 1 : \E a \in fresh : RankIn(fresh, key, a) = k
    BY <1>6, <2>2, <2>4, RanksCount
  <2>. QED
    BY <2>3, <2>5
<1>. HIDE DEF rank, count
<1>8. \A i, j \in fresh : batch[i].id = batch[j].id => i = j
  BY <1>5
<1>9. ASSUME NEW i \in fresh
      PROVE  /\ batch[i].id \in Events /\ entry(i) \in Entry
             /\ entry(i).body = batch[i].body /\ entry(i).acc = c.nextAcc + rank(i)
             /\ entry(i).queue = c.nextQueue + rank(i)
  <2>1. batch[i] \in Delivery
    BY <1>5
  <2>2. c.nextAcc + rank(i) \in Nat /\ c.nextQueue + rank(i) \in Nat
    BY <1>4, <1>6, <1>7
  <2>. QED
    BY <2>1, <2>2 DEF Delivery, Entry
<1>. HIDE DEF entry
<1>10. ASSUME NEW i \in fresh
       PROVE  /\ receipt(i).kind = "acceptance" /\ receipt(i).id = batch[i].id
              /\ receipt(i).body = batch[i].body /\ receipt(i).acc = c.nextAcc + rank(i)
              /\ receipt(i).queue = 0 /\ receipt(i).rev = c.revision + 1
              /\ receipt(i).refs = {} /\ receipt(i).effects = {}
  <2>1. PICK x : x = entry(i)
    OBVIOUS
  <2>2. PICK y : y = [x EXCEPT !.queue = 0]
    OBVIOUS
  <2>3. x \in Entry /\ x.body = batch[i].body /\ x.acc = c.nextAcc + rank(i)
    BY <1>9, <2>1
  <2>4. y.body = x.body /\ y.acc = x.acc /\ y.queue = 0
    BY <2>2, <2>3 DEF Entry
  <2>5. receipt(i) = Receipt("acceptance", batch[i].id, y, c.revision + 1)
    BY <2>1, <2>2
  <2>. QED
    BY <2>3, <2>4, <2>5 DEF Receipt
<1>. HIDE DEF receipt
<1>11. DOMAIN entries = {batch[i].id : i \in fresh}
  OBVIOUS
<1>12. ASSUME NEW i \in fresh PROVE entries[batch[i].id] = entry(i)
  <2>1. PICK e : e = batch[i].id
    OBVIOUS
  <2>2. entryOf(e) = {entry(i)}
    BY <1>8, <2>1
  <2>3. (CHOOSE x \in {entry(i)} : TRUE) = entry(i)
    OBVIOUS
  <2>4. e \in {batch[j].id : j \in fresh}
    BY <2>1
  <2>. QED
    BY <2>1, <2>2, <2>3, <2>4
<1>13. DOMAIN written = {c.next + rank(i) : i \in fresh}
  OBVIOUS
<1>14. ASSUME NEW i \in fresh PROVE written[c.next + rank(i)] = receipt(i)
  <2>1. PICK s : s = c.next + rank(i)
    OBVIOUS
  <2>2. \A j \in fresh : c.next + rank(j) = s => j = i
    BY <1>4, <1>6, <1>7, <2>1
  <2>3. receiptAt(s) = {receipt(i)}
    BY <2>1, <2>2
  <2>4. (CHOOSE x \in {receipt(i)} : TRUE) = receipt(i)
    OBVIOUS
  <2>5. s \in {c.next + rank(j) : j \in fresh}
    BY <2>1
  <2>. QED
    BY <2>1, <2>3, <2>4, <2>5
<1>. HIDE DEF entries, written
<1>15. PICK d : d = Admitted(c, batch)
  OBVIOUS
<1>16. /\ d.mail = Merge(entries, c.mail) /\ d.receipts = Merge(written, c.receipts)
       /\ d.next = c.next + count /\ d.nextAcc = c.nextAcc + count
       /\ d.nextQueue = c.nextQueue + count
       /\ d.revision = c.revision + 1 /\ d.cutoff = c.cutoff /\ d.tombstones = c.tombstones
       /\ d.root = c.root /\ d.pendingFx = c.pendingFx /\ d.terminalFx = c.terminalFx
       /\ d.tombstoneFx = c.tombstoneFx /\ d.nextFx = c.nextFx
  <2>1. PICK mail, receipts : mail = Merge(entries, c.mail) /\ receipts = Merge(written, c.receipts)
    OBVIOUS
  <2>2. PICK next, acc, queue :
           next = c.next + count /\ acc = c.nextAcc + count /\ queue = c.nextQueue + count
    OBVIOUS
  <2>3. /\ m.mail = c.mail /\ m.receipts = c.receipts /\ m.next = c.next
        /\ m.nextAcc = c.nextAcc /\ m.nextQueue = c.nextQueue /\ Shaped(m)
    BY <1>3 DEF Carries
  <2>4. d = [m EXCEPT !.mail = mail, !.receipts = receipts, !.next = next,
                      !.nextAcc = acc, !.nextQueue = queue]
    BY <1>1, <1>2, <1>15, <2>1, <2>2, <2>3 DEF Shaped, Fields
  <2>. QED
    BY <1>3, <2>1, <2>2, <2>4 DEF Carries, Shaped, Fields
<1>17. PICK at : at = [e \in DOMAIN entries |->
                         c.next + rank(CHOOSE i \in fresh : batch[i].id = e)]
  OBVIOUS
<1>18. ASSUME NEW i \in fresh
       PROVE  batch[i].id \in DOMAIN at /\ at[batch[i].id] = c.next + rank(i)
  <2>1. PICK e : e = batch[i].id
    OBVIOUS
  <2>2. PICK j : j = CHOOSE k \in fresh : batch[k].id = e
    OBVIOUS
  <2>3. j \in fresh /\ batch[j].id = e
    BY <2>1, <2>2, Zenon
  <2>4. j = i
    BY <1>8, <2>1, <2>3
  <2>5. e \in DOMAIN entries
    BY <1>11, <2>1
  <2>. QED
    BY <1>17, <2>1, <2>2, <2>4, <2>5
<1>19. DOMAIN at = DOMAIN entries
  BY <1>17
<1>20. ASSUME NEW e \in DOMAIN entries
       PROVE  \E i \in fresh : /\ batch[i].id = e /\ entries[e] = entry(i)
                               /\ at[e] = c.next + rank(i)
  BY <1>11, <1>12, <1>18
<1>21. d.next >= c.next /\ d.next - c.next = count
       /\ c.next .. d.next - 1 = {c.next + rank(i) : i \in fresh}
  <2>1. d.next >= c.next /\ d.next - c.next = count /\ d.next - 1 = c.next + (count - 1)
    BY <1>4, <1>6, <1>16
  <2>2. ASSUME NEW s \in c.next .. d.next - 1 PROVE \E i \in fresh : s = c.next + rank(i)
    <3>1. s - c.next \in 0 .. count - 1
      BY <1>4, <1>6, <2>1, <2>2
    <3>2. PICK i \in fresh : rank(i) = s - c.next
      BY <1>7, <3>1
    <3>. QED
      BY <1>4, <2>2, <3>2
  <2>3. ASSUME NEW i \in fresh PROVE c.next + rank(i) \in c.next .. d.next - 1
    BY <1>4, <1>6, <1>7, <2>1
  <2>. QED
    BY <2>1, <2>2, <2>3
<1>22. ASSUME NEW e \in DOMAIN entries
       PROVE  /\ e \in Events /\ Known(c, e) = {}
              /\ entries[e] \in Entry /\ at[e] \in c.next .. d.next - 1
              /\ entries[e].acc = c.nextAcc + (at[e] - c.next)
              /\ entries[e].queue = c.nextQueue + (at[e] - c.next)
              /\ \E i \in 1 .. n : batch[i].id = e /\ entries[e].body = batch[i].body
  <2>1. PICK i \in fresh : /\ batch[i].id = e /\ entries[e] = entry(i)
                           /\ at[e] = c.next + rank(i)
    BY <1>20
  <2>2. at[e] - c.next = rank(i)
    BY <1>4, <1>6, <1>7, <2>1
  <2>3. at[e] \in c.next .. d.next - 1
    BY <1>21, <2>1
  <2>. QED
    BY <1>5, <1>9, <2>1, <2>2, <2>3
<1>23. ASSUME NEW e \in DOMAIN entries, NEW g \in DOMAIN entries, at[e] = at[g] PROVE e = g
  <2>1. PICK i \in fresh : batch[i].id = e /\ at[e] = c.next + rank(i)
    BY <1>20
  <2>2. PICK j \in fresh : batch[j].id = g /\ at[g] = c.next + rank(j)
    BY <1>20
  <2>3. rank(i) = rank(j)
    <3>1. rank(i) \in Int /\ rank(j) \in Int
      BY <1>6, <1>7
    <3>2. c.next + rank(i) = c.next + rank(j)
      BY <1>23, <2>1, <2>2
    <3>. QED
      BY <1>4, <3>1, <3>2
  <2>. QED
    BY <1>7, <2>1, <2>2, <2>3
<1>24. ASSUME NEW s \in c.next .. d.next - 1 PROVE \E e \in DOMAIN entries : at[e] = s
  <2>1. PICK i \in fresh : s = c.next + rank(i)
    BY <1>21
  <2>. QED
    BY <1>18, <1>19, <2>1
<1>25. /\ DOMAIN d.mail = DOMAIN entries \cup DOMAIN c.mail
       /\ \A e \in DOMAIN entries : d.mail[e] = entries[e]
       /\ \A e \in DOMAIN c.mail : e \notin DOMAIN entries => d.mail[e] = c.mail[e]
  BY <1>16 DEF Merge
<1>26. \A s \in DOMAIN c.receipts : s \notin c.next .. d.next - 1
  BY <1>4 DEF Below, ReceiptsTyped
<1>27. /\ DOMAIN d.receipts = DOMAIN c.receipts \cup c.next .. d.next - 1
       /\ \A s \in DOMAIN c.receipts : d.receipts[s] = c.receipts[s]
       /\ \A s \in DOMAIN written : d.receipts[s] = written[s]
  BY <1>13, <1>16, <1>21, <1>26 DEF Merge
<1>28. ASSUME NEW e \in DOMAIN entries
       PROVE  /\ d.receipts[at[e]].kind = "acceptance" /\ d.receipts[at[e]].id = e
              /\ d.receipts[at[e]].body = entries[e].body /\ d.receipts[at[e]].acc = entries[e].acc
              /\ d.receipts[at[e]].queue = 0 /\ d.receipts[at[e]].rev = d.revision
              /\ d.receipts[at[e]].refs = {} /\ d.receipts[at[e]].effects = {}
  <2>1. PICK i \in fresh : /\ batch[i].id = e /\ entries[e] = entry(i)
                           /\ at[e] = c.next + rank(i)
    BY <1>20
  <2>2. d.receipts[at[e]] = receipt(i)
    BY <1>13, <1>14, <1>27, <2>1
  <2>. QED
    BY <1>9, <1>10, <1>16, <2>1, <2>2
<1>29. d.nextAcc = c.nextAcc + (d.next - c.next) /\ d.nextQueue = c.nextQueue + (d.next - c.next)
  BY <1>16, <1>21
<1>30. Admits(c, d, entries, at)
  BY <1>16, <1>19, <1>21, <1>22, <1>23, <1>24, <1>25, <1>27, <1>28, <1>29 DEF Admits
<1>. QED
  BY <1>15, <1>22, <1>30

\* Ids callers choose are none that steps derive.
Apart == Events \cap (Nat \X Nat) = {}

\* The records of a checkpoint that accepted entries.
LEMMA AdmitsRecords ==
    ASSUME Apart, NEW c, Typed(c), Below(c), NEW d, NEW new, NEW at, Admits(c, d, new, at)
    PROVE  /\ \A s, e : Accepts(d, s, e) <=> Accepts(c, s, e) \/ (e \in DOMAIN new /\ s = at[e])
           /\ \A s, e : Ends(d, s, e) <=> Ends(c, s, e)
           /\ \A s, x, e : Refers(d, s, x, e) <=> Refers(c, s, x, e)
           /\ \A e \in DOMAIN new :
                 /\ e \notin DOMAIN c.mail /\ e \notin DOMAIN c.tombstones
                 /\ \A s : ~Ends(c, s, e)
                 /\ \A s, x : ~Refers(c, s, x, e)
           /\ \A s \in c.next .. d.next - 1 : s \notin DOMAIN c.receipts
<1>1. /\ DOMAIN d.receipts = DOMAIN c.receipts \cup c.next .. d.next - 1
      /\ \A s \in DOMAIN c.receipts : d.receipts[s] = c.receipts[s]
      /\ \A s \in c.next .. d.next - 1 : \E e \in DOMAIN new : at[e] = s
      /\ \A e \in DOMAIN new :
            /\ at[e] \in c.next .. d.next - 1
            /\ d.receipts[at[e]].kind = "acceptance" /\ d.receipts[at[e]].id = e
            /\ d.receipts[at[e]].refs = {}
            /\ e \in Events /\ Known(c, e) = {}
  BY DEF Admits
<1>2. \A s \in c.next .. d.next - 1 : s \notin DOMAIN c.receipts
  BY DEF Typed, ReceiptsTyped, Below
<1>3. ASSUME NEW s \in DOMAIN d.receipts
      PROVE  \/ s \in DOMAIN c.receipts /\ d.receipts[s] = c.receipts[s]
             \/ \E e \in DOMAIN new : s = at[e] /\ s \notin DOMAIN c.receipts
  BY <1>1, <1>2
<1>4. ASSUME NEW s, NEW e
      PROVE  Accepts(d, s, e) <=> Accepts(c, s, e) \/ (e \in DOMAIN new /\ s = at[e])
  <2>1. ASSUME Accepts(d, s, e) PROVE Accepts(c, s, e) \/ (e \in DOMAIN new /\ s = at[e])
    BY <1>1, <1>3, <2>1 DEF Accepts
  <2>2. Accepts(c, s, e) => Accepts(d, s, e)
    BY <1>1 DEF Accepts
  <2>3. e \in DOMAIN new /\ s = at[e] => Accepts(d, s, e)
    BY <1>1 DEF Accepts
  <2>. QED
    BY <2>1, <2>2, <2>3
<1>5. ASSUME NEW s, NEW e PROVE Ends(d, s, e) <=> Ends(c, s, e)
  BY <1>1, <1>3 DEF Ends
<1>6. ASSUME NEW s, NEW x, NEW e PROVE Refers(d, s, x, e) <=> Refers(c, s, x, e)
  BY <1>1, <1>3 DEF Refers
<1>7. ASSUME NEW e \in DOMAIN new
      PROVE  /\ e \notin DOMAIN c.mail /\ e \notin DOMAIN c.tombstones
             /\ \A s : ~Ends(c, s, e)
             /\ \A s, x : ~Refers(c, s, x, e)
  <2>1. Known(c, e) = {}
    BY <1>1
  <2>2. e \notin DOMAIN c.mail /\ e \notin DOMAIN c.tombstones /\ TerminalOf(c, e) = {}
    BY <2>1 DEF Known
  <2>3. \A s : ~Ends(c, s, e)
    BY <2>2, Members
  <2>4. ASSUME NEW s, NEW x, Refers(c, s, x, e) PROVE FALSE
    <3>1. x \in Reference /\ x.id = e
      BY <2>4 DEF Refers, Typed, ReceiptsTyped, ReceiptTyped
    <3>2. e \in Nat \X Nat
      BY <3>1 DEF Reference
    <3>. QED
      BY <1>1, <3>2 DEF Apart
  <2>. QED
    BY <2>2, <2>3, <2>4
<1>. QED
  BY <1>2, <1>4, <1>5, <1>6, <1>7

\* Ids keep to the steps they came of.
LEMMA AdmitsTraced ==
    ASSUME Apart, NEW c, Typed(c), Below(c), Traced(c), NEW d, Typed(d),
           NEW new, NEW at, Admits(c, d, new, at)
    PROVE  Traced(d)
<1>1. c.next \in Nat /\ d.next \in Nat /\ d.next >= c.next
  BY DEF Typed, Admits
<1>2. ASSUME NEW e, Old(c, e) PROVE Old(d, e)
  BY <1>1, <1>2 DEF Old
<1>3. ASSUME NEW e \in Events PROVE Old(d, e)
  BY DEF Old, Apart
<1>4. DOMAIN d.mail = DOMAIN new \cup DOMAIN c.mail /\ \A e \in DOMAIN new : e \in Events
  BY DEF Admits
<1>5. \A e \in DOMAIN d.mail : Old(d, e)
  BY <1>2, <1>3, <1>4 DEF Traced
<1>6. /\ \A e \in DOMAIN d.tombstones :
            Old(d, e) /\ d.tombstones[e].acc \in Nat /\ d.tombstones[e].seq \in Nat
      /\ \A f \in DOMAIN d.terminalFx : d.terminalFx[f].seq \in Nat
      /\ \A f \in DOMAIN d.tombstoneFx : d.tombstoneFx[f].seq \in Nat
  <2>1. d.tombstones = c.tombstones /\ d.terminalFx = c.terminalFx /\ d.tombstoneFx = c.tombstoneFx
    BY DEF Admits
  <2>. QED
    BY <1>2, <2>1 DEF Traced
<1>7. ASSUME NEW s \in DOMAIN d.receipts PROVE ReceiptTraced(d, s)
  <2>1. CASE s \in DOMAIN c.receipts
    <3>1. d.receipts[s] = c.receipts[s]
      BY <2>1 DEF Admits
    <3>2. ReceiptTraced(c, s)
      BY <2>1 DEF Traced
    <3>. QED
      BY <1>2, <1>4, <3>1, <3>2 DEF ReceiptTraced
  <2>2. CASE s \notin DOMAIN c.receipts
    <3>1. s \in c.next .. d.next - 1
      BY <2>2 DEF Admits
    <3>2. PICK e \in DOMAIN new : at[e] = s
      BY <3>1 DEF Admits
    <3>3. /\ d.receipts[s].kind = "acceptance" /\ d.receipts[s].id = e
          /\ d.receipts[s].acc = new[e].acc /\ new[e] \in Entry
          /\ d.receipts[s].queue = 0 /\ d.receipts[s].rev = d.revision
          /\ d.receipts[s].refs = {} /\ d.receipts[s].effects = {}
      BY <3>2 DEF Admits
    <3>4. d.revision \in Int /\ new[e].acc \in Nat
      BY <3>3 DEF Typed, Entry
    <3>. QED
      BY <1>3, <1>4, <3>3, <3>4 DEF ReceiptTraced
  <2>. QED
    BY <2>1, <2>2
<1>. QED
  BY <1>5, <1>6, <1>7 DEF Traced

\* Entries and ends stay sound, and the entries accepted are.
LEMMA AdmitsSound ==
    ASSUME Apart, NEW c, Typed(c), Below(c), Traced(c), Coherent(c), NEW d, Typed(d),
           NEW new, NEW at, Admits(c, d, new, at), \A e \in DOMAIN new : new[e].body \notin Internal
    PROVE  /\ \A e \in DOMAIN d.mail : EntrySound(d, e)
           /\ \A s, e : Ends(d, s, e) => EndSound(d, s, e)
           /\ \A s, e : Accepts(d, s, e) => AcceptSound(d, s, e)
           /\ \A e \in DOMAIN d.tombstones : TombstoneSound(d, e)
<1>1. /\ \A s, e : Accepts(d, s, e) <=> Accepts(c, s, e) \/ (e \in DOMAIN new /\ s = at[e])
      /\ \A s, e : Ends(d, s, e) <=> Ends(c, s, e)
      /\ \A s, x, e : Refers(d, s, x, e) <=> Refers(c, s, x, e)
      /\ \A e \in DOMAIN new :
            /\ e \notin DOMAIN c.mail /\ e \notin DOMAIN c.tombstones
            /\ \A s : ~Ends(c, s, e)
            /\ \A s, x : ~Refers(c, s, x, e)
  BY AdmitsRecords
<1>2. /\ DOMAIN d.mail = DOMAIN new \cup DOMAIN c.mail
      /\ \A e \in DOMAIN new : d.mail[e] = new[e]
      /\ \A e \in DOMAIN c.mail : e \notin DOMAIN new => d.mail[e] = c.mail[e]
      /\ \A s \in DOMAIN c.receipts : d.receipts[s] = c.receipts[s]
      /\ d.cutoff = c.cutoff /\ d.tombstones = c.tombstones
  BY DEF Admits
<1>3. ASSUME NEW e \in DOMAIN new PROVE \A s : ~Accepts(c, s, e)
  <2>1. ASSUME NEW s, Accepts(c, s, e) PROVE FALSE
    <3>1. AcceptSound(c, s, e)
      BY <2>1, Zenon DEF Coherent
    <3>. QED
      BY <1>1, <3>1 DEF AcceptSound
  <2>. QED
    BY <2>1
<1>4. \A s, e : Accepts(c, s, e) \/ Ends(c, s, e) => s \in DOMAIN c.receipts /\ e \notin DOMAIN new
  BY <1>1, <1>3 DEF Accepts, Ends
<1>5. \A s, x, e : Refers(c, s, x, e) => s \in DOMAIN c.receipts
  BY DEF Refers
<1>6. ASSUME NEW e \in DOMAIN d.mail PROVE EntrySound(d, e)
  <2>1. CASE e \in DOMAIN new
    <3>1. PICK s : s = at[e]
      OBVIOUS
    <3>2. \A u : Accepts(d, u, e) <=> u = s
      BY <1>1, <1>3, <2>1, <3>1
    <3>3. d.receipts[s].body = d.mail[e].body /\ d.receipts[s].acc = d.mail[e].acc
      BY <1>2, <2>1, <3>1 DEF Admits
    <3>4. d.mail[e].body \notin Internal
      BY <1>2, <2>1
    <3>5. (\A u : ~Ends(d, u, e)) /\ (\A u, x : ~Refers(d, u, x, e))
      BY <1>1, <2>1
    <3>. QED
      BY <3>2, <3>3, <3>4, <3>5 DEF EntrySound
  <2>2. CASE e \notin DOMAIN new
    <3>1. e \in DOMAIN c.mail /\ d.mail[e] = c.mail[e]
      BY <1>2, <2>2
    <3>2. EntrySound(c, e)
      BY <3>1, Zenon DEF Coherent
    <3>3. /\ \A s : Accepts(d, s, e) <=> Accepts(c, s, e)
          /\ \A s : Ends(d, s, e) <=> Ends(c, s, e)
          /\ \A s, x : Refers(d, s, x, e) <=> Refers(c, s, x, e)
          /\ \A s : Accepts(c, s, e) => d.receipts[s] = c.receipts[s]
      BY <1>1, <1>2, <1>4, <2>2
    <3>. QED
      BY <3>1, <3>2, <3>3 DEF EntrySound
  <2>. QED
    BY <2>1, <2>2
<1>7. ASSUME NEW s, NEW e, Ends(d, s, e) PROVE EndSound(d, s, e)
  <2>1. Ends(c, s, e)
    BY <1>1, <1>7
  <2>2. EndSound(c, s, e)
    BY <2>1, Zenon DEF Coherent
  <2>3. e \notin DOMAIN new
    BY <1>4, <2>1
  <2>4. /\ \A u : Accepts(d, u, e) <=> Accepts(c, u, e)
        /\ \A u : Ends(d, u, e) <=> Ends(c, u, e)
        /\ \A u, x : Refers(d, u, x, e) <=> Refers(c, u, x, e)
        /\ \A u : Accepts(c, u, e) => d.receipts[u] = c.receipts[u]
        /\ \A u, x : Refers(c, u, x, e) => d.receipts[u] = c.receipts[u]
        /\ d.receipts[s] = c.receipts[s]
    BY <1>1, <1>2, <1>4, <1>5, <2>1, <2>3
  <2>. QED
    BY <1>2, <2>2, <2>4 DEF EndSound
<1>8. ASSUME NEW s, NEW e, Accepts(d, s, e) PROVE AcceptSound(d, s, e)
  <2>1. CASE e \in DOMAIN new
    BY <1>1, <1>2, <1>3, <1>8, <2>1 DEF AcceptSound
  <2>2. CASE e \notin DOMAIN new
    <3>1. Accepts(c, s, e)
      BY <1>1, <1>8, <2>2
    <3>2. AcceptSound(c, s, e)
      BY <3>1, Zenon DEF Coherent
    <3>. QED
      BY <1>1, <1>2, <2>2, <3>2 DEF AcceptSound
  <2>. QED
    BY <2>1, <2>2
<1>9. ASSUME NEW e \in DOMAIN d.tombstones PROVE TombstoneSound(d, e)
  <2>1. e \in DOMAIN c.tombstones /\ d.tombstones[e] = c.tombstones[e]
    BY <1>2
  <2>2. TombstoneSound(c, e)
    BY <2>1, Zenon DEF Coherent
  <2>3. e \notin DOMAIN new
    BY <1>1, <2>1
  <2>4. c.next \in Nat /\ d.next \in Nat /\ d.next >= c.next
    BY DEF Typed, Admits
  <2>5. c.tombstones[e].seq \in Nat /\ c.tombstones[e].seq < c.next
    BY <2>1, <2>2 DEF Traced, TombstoneSound
  <2>6. d.tombstones[e].seq < d.next
    BY <2>1, <2>4, <2>5
  <2>7. \A s : (Accepts(d, s, e) <=> Accepts(c, s, e)) /\ (Ends(d, s, e) <=> Ends(c, s, e))
    BY <1>1, <2>3
  <2>. QED
    BY <1>1, <1>2, <2>1, <2>2, <2>3, <2>6, <2>7 DEF TombstoneSound
<1>. QED
  BY <1>6, <1>7, <1>8, <1>9

\* References and effects are those there were.
LEMMA AdmitsReferences ==
    ASSUME Apart, NEW c, Typed(c), Below(c), Coherent(c), NEW d,
           NEW new, NEW at, Admits(c, d, new, at)
    PROVE  /\ OneReference(d) /\ ReferenceKinds(d) /\ EffectsValid(d)
           /\ \A e, s, x : Refers(d, s, x, e) /\ x.kind = "internal_terminal" => Leads(d, e, x)
<1>1. /\ \A s, e : Ends(d, s, e) <=> Ends(c, s, e)
      /\ \A s, x, e : Refers(d, s, x, e) <=> Refers(c, s, x, e)
      /\ \A e \in DOMAIN new : \A s, x : ~Refers(c, s, x, e)
  BY AdmitsRecords
<1>2. /\ DOMAIN d.mail = DOMAIN new \cup DOMAIN c.mail
      /\ d.tombstones = c.tombstones
  BY DEF Admits
<1>3. OneReference(d)
  BY <1>1 DEF Coherent, OneReference
<1>4. ReferenceKinds(d)
  BY <1>1, <1>2 DEF Coherent, ReferenceKinds
<1>5. ASSUME NEW e, NEW s, NEW x, Refers(d, s, x, e), x.kind = "internal_terminal"
      PROVE  Leads(d, e, x)
  <2>1. Leads(c, e, x)
    BY <1>1, <1>5, Zenon DEF Coherent
  <2>. QED
    BY <1>1, <1>2, <2>1 DEF Leads
<1>6. EffectsOf(d.receipts) = EffectsOf(c.receipts)
  <2>1. /\ DOMAIN d.receipts = DOMAIN c.receipts \cup c.next .. d.next - 1
        /\ \A s \in DOMAIN c.receipts : d.receipts[s].effects = c.receipts[s].effects
    BY DEF Admits
  <2>2. \A s \in c.next .. d.next - 1 : d.receipts[s].effects = {}
    <3>1. \A e \in DOMAIN new : d.receipts[at[e]].effects = {}
      BY DEF Admits
    <3>2. \A s \in c.next .. d.next - 1 : \E e \in DOMAIN new : at[e] = s
      BY DEF Admits
    <3>. QED
      BY <3>1, <3>2
  <2>3. ASSUME NEW f PROVE f \in EffectsOf(d.receipts) <=> f \in EffectsOf(c.receipts)
    BY <2>1, <2>2 DEF EffectsOf
  <2>. QED
    BY <2>3
<1>7. EffectsValid(d)
  <2>1. EffectsValid(c)
    BY DEF Coherent
  <2>2. /\ d.pendingFx = c.pendingFx /\ d.terminalFx = c.terminalFx
        /\ d.tombstoneFx = c.tombstoneFx /\ d.nextFx = c.nextFx
    BY DEF Admits
  <2>. QED
    BY <1>6, <2>1, <2>2 DEF EffectsValid
<1>. QED
  BY <1>3, <1>4, <1>5, <1>7

\* The receipts written are the latest, under the latest revision.
LEMMA AdmitsChronology ==
    ASSUME NEW c, Typed(c), Below(c), Traced(c), Coherent(c), NEW d, Typed(d),
           NEW new, NEW at, Admits(c, d, new, at)
    PROVE  ChronologyValid(d)
<1>1. /\ DOMAIN d.receipts = DOMAIN c.receipts \cup c.next .. d.next - 1
      /\ \A s \in DOMAIN c.receipts : d.receipts[s] = c.receipts[s]
      /\ \A s \in c.next .. d.next - 1 : \E e \in DOMAIN new : at[e] = s
      /\ \A e \in DOMAIN new :
            d.receipts[at[e]].kind = "acceptance" /\ d.receipts[at[e]].rev = d.revision
      /\ d.revision = c.revision + 1
  BY DEF Admits
<1>2. /\ c.revision \in Int /\ c.next \in Nat /\ d.next \in Nat
      /\ \A s \in DOMAIN c.receipts : s \in Nat /\ s < c.next
  BY DEF Typed, ReceiptsTyped, Below
<1>3. ChronologyValid(c)
  BY DEF Coherent
<1>4. ASSUME NEW s \in DOMAIN c.receipts
      PROVE  d.receipts[s].rev \in Int /\ d.receipts[s].rev < d.revision
  <2>1. c.receipts[s].rev \in Int /\ c.receipts[s].rev <= c.revision
    BY <1>3 DEF Traced, ReceiptTraced, ChronologyValid
  <2>. QED
    BY <1>1, <1>2, <2>1
<1>5. ASSUME NEW s \in c.next .. d.next - 1
      PROVE  d.receipts[s].kind = "acceptance" /\ d.receipts[s].rev = d.revision
  BY <1>1
<1>6. ASSUME NEW s \in DOMAIN d.receipts PROVE d.receipts[s].rev <= d.revision
  BY <1>1, <1>2, <1>4, <1>5
<1>7. ASSUME NEW s \in DOMAIN d.receipts, NEW u \in DOMAIN d.receipts, u < s
      PROVE  IF d.receipts[s].kind = "maintenance_migration"
             THEN d.receipts[u].rev < d.receipts[s].rev
             ELSE d.receipts[u].rev <= d.receipts[s].rev
  <2>1. CASE s \in DOMAIN c.receipts
    <3>1. u \in DOMAIN c.receipts
      BY <1>1, <1>2, <1>7, <2>1
    <3>. QED
      BY <1>1, <1>3, <1>7, <2>1, <3>1 DEF ChronologyValid
  <2>2. CASE s \notin DOMAIN c.receipts
    BY <1>1, <1>2, <1>4, <1>5, <1>6, <2>2
  <2>. QED
    BY <2>1, <2>2
<1>. QED
  BY <1>6, <1>7 DEF ChronologyValid

\* What is accepted gets sequences that nothing had.
LEMMA AdmitsOwners ==
    ASSUME Apart, NEW c, Typed(c), Below(c), Traced(c), Coherent(c), Allocated(c),
           NEW d, Typed(d), NEW new, NEW at, Admits(c, d, new, at)
    PROVE  OwnersSound(d) /\ QueuesSound(d)
<1>1. /\ \A s, e : Accepts(d, s, e) <=> Accepts(c, s, e) \/ (e \in DOMAIN new /\ s = at[e])
      /\ \A s, e : Ends(d, s, e) <=> Ends(c, s, e)
      /\ \A e \in DOMAIN new :
            e \notin DOMAIN c.mail /\ e \notin DOMAIN c.tombstones /\ \A s : ~Ends(c, s, e)
  BY AdmitsRecords
<1>2. /\ DOMAIN d.mail = DOMAIN new \cup DOMAIN c.mail
      /\ \A e \in DOMAIN new : d.mail[e] = new[e] /\ d.receipts[at[e]].acc = new[e].acc
      /\ \A e \in DOMAIN c.mail : e \notin DOMAIN new => d.mail[e] = c.mail[e]
      /\ \A s \in DOMAIN c.receipts : d.receipts[s] = c.receipts[s]
      /\ d.tombstones = c.tombstones
  BY DEF Admits
<1>3. ASSUME NEW n, NEW e, Owns(d, n, e)
      PROVE  Owns(c, n, e) \/ (e \in DOMAIN new /\ n = new[e].acc)
  <2>1. CASE e \in DOMAIN d.mail /\ d.mail[e].acc = n
    BY <1>2, <2>1 DEF Owns
  <2>2. CASE \E s : (Accepts(d, s, e) \/ Ends(d, s, e)) /\ d.receipts[s].acc = n
    <3>1. PICK s : (Accepts(d, s, e) \/ Ends(d, s, e)) /\ d.receipts[s].acc = n
      BY <2>2
    <3>2. CASE Accepts(c, s, e) \/ Ends(c, s, e)
      <4>1. s \in DOMAIN c.receipts
        BY <3>2 DEF Accepts, Ends
      <4>. QED
        BY <1>2, <3>1, <3>2, <4>1 DEF Owns
    <3>3. CASE e \in DOMAIN new /\ s = at[e]
      BY <1>2, <3>1, <3>3
    <3>. QED
      BY <1>1, <3>1, <3>2, <3>3
  <2>3. CASE e \in DOMAIN d.tombstones /\ d.tombstones[e].acc = n
    BY <1>2, <2>3 DEF Owns
  <2>. QED
    BY <1>3, <2>1, <2>2, <2>3 DEF Owns
<1>4. ASSUME NEW n, NEW e, Queues(d, n, e)
      PROVE  Queues(c, n, e) \/ (e \in DOMAIN new /\ n = new[e].queue)
  <2>1. CASE e \in DOMAIN d.mail /\ d.mail[e].queue = n
    BY <1>2, <2>1 DEF Queues
  <2>2. CASE \E s : Ends(d, s, e) /\ d.receipts[s].queue = n
    <3>1. PICK s : Ends(d, s, e) /\ d.receipts[s].queue = n
      BY <2>2
    <3>2. Ends(c, s, e) /\ s \in DOMAIN c.receipts
      BY <1>1, <3>1 DEF Ends
    <3>. QED
      BY <1>2, <3>1, <3>2 DEF Queues
  <2>. QED
    BY <1>4, <2>1, <2>2 DEF Queues
<1>5. /\ c.next \in Nat /\ d.next \in Nat /\ c.nextAcc \in Nat /\ c.nextQueue \in Nat
      /\ d.next >= c.next /\ d.nextAcc = c.nextAcc + (d.next - c.next)
      /\ d.nextQueue = c.nextQueue + (d.next - c.next)
  BY DEF Typed, Admits
<1>6. ASSUME NEW e \in DOMAIN new
      PROVE  /\ at[e] \in c.next .. d.next - 1
             /\ new[e].acc = c.nextAcc + (at[e] - c.next)
             /\ new[e].queue = c.nextQueue + (at[e] - c.next)
  BY DEF Admits
<1>7. ASSUME NEW e \in DOMAIN new
      PROVE  /\ new[e].acc \in Nat /\ new[e].acc >= c.nextAcc /\ new[e].acc < d.nextAcc
             /\ new[e].queue \in Nat /\ new[e].queue >= c.nextQueue /\ new[e].queue < d.nextQueue
  BY <1>5, <1>6
<1>8. ASSUME NEW e \in DOMAIN new, NEW g \in DOMAIN new,
             new[e].acc = new[g].acc \/ new[e].queue = new[g].queue
      PROVE  e = g
  <2>1. at[e] = at[g]
    BY <1>5, <1>6, <1>8
  <2>. QED
    BY <2>1 DEF Admits
<1>9. ASSUME NEW n, NEW e, Owns(c, n, e) PROVE n \in Nat /\ n < c.nextAcc
  <2>1. n < c.nextAcc
    BY <1>9 DEF Allocated
  <2>2. (\A x \in DOMAIN c.mail : c.mail[x].acc \in Nat)
        /\ (\A s \in DOMAIN c.receipts : c.receipts[s].acc \in Nat)
        /\ (\A x \in DOMAIN c.tombstones : c.tombstones[x].acc \in Nat)
    BY DEF Typed, EntriesTyped, Entry, Traced, ReceiptTraced
  <2>. QED
    BY <1>9, <2>1, <2>2 DEF Owns, Accepts, Ends
<1>10. ASSUME NEW n, NEW e, Queues(c, n, e) PROVE n \in Nat /\ n < c.nextQueue
  <2>1. n < c.nextQueue
    BY <1>10 DEF Allocated
  <2>2. (\A x \in DOMAIN c.mail : c.mail[x].queue \in Nat)
        /\ (\A s \in DOMAIN c.receipts : c.receipts[s].queue \in Nat)
    BY DEF Typed, EntriesTyped, Entry, Traced, ReceiptTraced
  <2>. QED
    BY <1>10, <2>1, <2>2 DEF Queues, Ends
<1>11. OwnersSound(d)
  <2>1. ASSUME NEW n, NEW e, NEW g, Owns(d, n, e), Owns(d, n, g) PROVE e = g
    <3>1. CASE Owns(c, n, e) /\ Owns(c, n, g)
      BY <3>1 DEF Coherent, OwnersSound
    <3>2. CASE e \in DOMAIN new /\ n = new[e].acc
      <4>1. ~Owns(c, n, g)
        BY <1>5, <1>7, <1>9, <3>2
      <4>. QED
        BY <1>3, <1>8, <2>1, <3>2, <4>1
    <3>3. CASE g \in DOMAIN new /\ n = new[g].acc
      <4>1. ~Owns(c, n, e)
        BY <1>5, <1>7, <1>9, <3>3
      <4>. QED
        BY <1>3, <1>8, <2>1, <3>3, <4>1
    <3>. QED
      BY <1>3, <2>1, <3>1, <3>2, <3>3
  <2>2. ASSUME NEW n, NEW e, Owns(d, n, e) PROVE n < d.nextAcc
    <3>1. CASE Owns(c, n, e)
      <4>1. n \in Nat /\ n < c.nextAcc
        BY <1>9, <3>1
      <4>. QED
        BY <1>5, <4>1
    <3>2. CASE e \in DOMAIN new /\ n = new[e].acc
      BY <1>7, <3>2
    <3>. QED
      BY <1>3, <2>2, <3>1, <3>2
  <2>. QED
    BY <2>1, <2>2, Zenon DEF OwnersSound
<1>12. QueuesSound(d)
  <2>1. ASSUME NEW n, NEW e, NEW g, Queues(d, n, e), Queues(d, n, g) PROVE e = g
    <3>1. CASE Queues(c, n, e) /\ Queues(c, n, g)
      BY <3>1 DEF Coherent, QueuesSound
    <3>2. CASE e \in DOMAIN new /\ n = new[e].queue
      <4>1. ~Queues(c, n, g)
        BY <1>5, <1>7, <1>10, <3>2
      <4>. QED
        BY <1>4, <1>8, <2>1, <3>2, <4>1
    <3>3. CASE g \in DOMAIN new /\ n = new[g].queue
      <4>1. ~Queues(c, n, e)
        BY <1>5, <1>7, <1>10, <3>3
      <4>. QED
        BY <1>4, <1>8, <2>1, <3>3, <4>1
    <3>. QED
      BY <1>4, <2>1, <3>1, <3>2, <3>3
  <2>2. ASSUME NEW n, NEW e, Queues(d, n, e) PROVE n < d.nextQueue
    <3>1. CASE Queues(c, n, e)
      <4>1. n \in Nat /\ n < c.nextQueue
        BY <1>10, <3>1
      <4>. QED
        BY <1>5, <4>1
    <3>2. CASE e \in DOMAIN new /\ n = new[e].queue
      BY <1>7, <3>2
    <3>. QED
      BY <1>4, <2>2, <3>1, <3>2
  <2>. QED
    BY <2>1, <2>2, Zenon DEF QueuesSound
<1>. QED
  BY <1>11, <1>12

\* No gap among the sequences.
LEMMA AdmitsSequences ==
    ASSUME NEW c, Typed(c), c.next > 0, SequencesValid(c), NEW d, Typed(d),
           NEW new, NEW at, Admits(c, d, new, at)
    PROVE  SequencesValid(d)
<1>. DEFINE low == IF c.cutoff = None THEN 1 ELSE c.cutoff + 1
<1>1. /\ c.next \in Nat /\ d.next \in Nat /\ d.next >= c.next /\ d.cutoff = c.cutoff
      /\ c.cutoff \in Nat \cup {None}
      /\ DOMAIN d.receipts = DOMAIN c.receipts \cup c.next .. d.next - 1
      /\ \A s \in DOMAIN c.receipts : d.receipts[s] = c.receipts[s]
  BY DEF Admits, Typed
<1>2. /\ c.cutoff < c.next
      /\ DOMAIN c.receipts = {0} \cup (low .. c.next - 1)
      /\ c.receipts[0].kind = "creation"
  BY DEF SequencesValid
<1>3. low \in Nat /\ low <= c.next /\ d.cutoff < d.next
  BY <1>1, <1>2 DEF None
<1>4. (low .. c.next - 1) \cup (c.next .. d.next - 1) = low .. d.next - 1
  <2>. HIDE DEF low
  <2>. QED
    BY <1>1, <1>3
<1>5. DOMAIN d.receipts = {0} \cup (low .. d.next - 1)
  <2>. HIDE DEF low
  <2>. QED
    BY <1>1, <1>2, <1>4
<1>6. d.receipts[0].kind = "creation"
  BY <1>1, <1>2
<1>. QED
  BY <1>1, <1>3, <1>5, <1>6 DEF SequencesValid

\* An admission leaves what the host can restore, whoever sent the deliveries
\* unless a runtime or the system did.
LEMMA AdmitsValid ==
    ASSUME Apart, NEW c, Typed(c), Below(c), Traced(c), SemanticsValid(c), c.root = "retained",
           NEW d, Typed(d), NEW new, NEW at, Admits(c, d, new, at),
           \A e \in DOMAIN new : new[e].body \notin Internal
    PROVE  SemanticsValid(d)
<1>1. Coherent(c) /\ c.next > 0 /\ SequencesValid(c)
  BY ValidCoherent, ValidNext
<1>2. Allocated(c)
  BY <1>1, RetainedAllocated
<1>3. OneReference(d) /\ ReferenceKinds(d) /\ EffectsValid(d)
  BY <1>1, AdmitsReferences
<1>4. \A e, s, x : Refers(d, s, x, e) /\ x.kind = "internal_terminal" => Leads(d, e, x)
  BY <1>1, AdmitsReferences
<1>5. ChronologyValid(d)
  BY <1>1, AdmitsChronology
<1>6. OwnersSound(d) /\ QueuesSound(d)
  BY <1>1, <1>2, AdmitsOwners
<1>7. /\ \A e \in DOMAIN d.mail : EntrySound(d, e)
      /\ \A s, e : Ends(d, s, e) => EndSound(d, s, e)
      /\ \A s, e : Accepts(d, s, e) => AcceptSound(d, s, e)
      /\ \A e \in DOMAIN d.tombstones : TombstoneSound(d, e)
  BY <1>1, AdmitsSound
<1>8. Coherent(d)
  BY <1>3, <1>4, <1>5, <1>6, <1>7, Zenon DEF Coherent
<1>9. SequencesValid(d)
  BY <1>1, AdmitsSequences
<1>. QED
  BY <1>8, <1>9, CoherentValid

\* What admitting does to the records, and when the host can restore it.
LEMMA AdmittedValid ==
    ASSUME Apart, NEW c, Typed(c), Below(c), Traced(c), NEW n \in Nat,
           NEW batch \in [1 .. n -> Delivery],
           \A i, j \in 1 .. n : i # j => batch[i].id # batch[j].id
    PROVE  /\ Typed(Admitted(c, batch)) /\ Traced(Admitted(c, batch))
           /\ SemanticsValid(c) /\ c.root = "retained" /\ (\A i \in 1 .. n : batch[i].body \notin Internal)
              => SemanticsValid(Admitted(c, batch))
<1>0. PICK d : d = Admitted(c, batch)
  OBVIOUS
<1>1. Typed(d)
  BY <1>0, AdmittedTyped DEF Records
<1>2. PICK new, at : /\ Admits(c, d, new, at)
                     /\ \A e \in DOMAIN new : \E i \in 1 .. n : batch[i].id = e /\ new[e].body = batch[i].body
  BY <1>0, AdmittedAdmits
<1>3. Traced(d)
  BY <1>1, <1>2, AdmitsTraced
<1>4. ASSUME SemanticsValid(c), c.root = "retained", \A i \in 1 .. n : batch[i].body \notin Internal
      PROVE  SemanticsValid(d)
  <2>1. \A e \in DOMAIN new : new[e].body \notin Internal
    BY <1>2, <1>4
  <2>. QED
    BY <1>1, <1>2, <1>4, <2>1, AdmitsValid
<1>. QED
  BY <1>0, <1>1, <1>3, <1>4

-----------------------------------------------------------------------------
(* Waiting messages and the runtimes that sent them.                       *)

\* What waits in d waited in c, or is one of the emissions.
WaitsFrom(c, ems, d) ==
    \A e \in DOMAIN d.mail :
       \/ e \in DOMAIN c.mail /\ d.mail[e].body = c.mail[e].body
       \/ \E i \in DOMAIN ems : d.mail[e].body = ems[i]

\* Closing entries adds none and leaves the runtimes alone.
LEMMA ClosedWaits ==
    ASSUME NEW c, Shaped(c), NEW mail, NEW gone, NEW own
    PROVE  LET k == Closed(c, mail, gone, own)
           IN /\ Shaped(k) /\ k.rt = c.rt
              /\ \A e \in DOMAIN k.mail : e \in DOMAIN mail /\ k.mail[e] = mail[e]
<1>1. PICK k : k = Closed(c, mail, gone, own)
  OBVIOUS
<1>2. Shaped(k) /\ k.mail = Restrict(mail, DOMAIN mail \ DOMAIN gone)
  BY <1>1, ClosedShape, ClosedMail
<1>3. k.rt = c.rt
  BY <1>1 DEF Closed, Shaped, Fields
<1>4. \A e \in DOMAIN k.mail : e \in DOMAIN mail /\ k.mail[e] = mail[e]
  BY <1>2 DEF Restrict
<1>. QED
  BY <1>1, <1>2, <1>3, <1>4

\* A dispatch takes over the runtimes and adds its emissions to what waits.
LEMMA DispatchedWaits ==
    ASSUME NEW c, Typed(c), Below(c), NEW head, NEW rt, NEW ems \in Seq(Internal),
           NEW S, S \subseteq DOMAIN c.mail, NEW fx
    PROVE  LET d == Dispatched(c, head, rt, ems, S, fx)
           IN d.rt = rt /\ WaitsFrom(c, ems, d)
<1>. DEFINE emitted == Emission(c.next, ems, c.nextAcc, c.nextQueue)
            recalled == Renumbered(c.mail, S, c.nextQueue + Len(ems))
            mail == Merge(emitted, Merge(recalled, c.mail))
<1>1. PICK gone, own, sent, again, effects :
         Dispatched(c, head, rt, ems, S, fx)
         = Stepped(Closed(Mutated(c), mail, gone, own), rt, sent, again, effects)
  BY Zenon DEF Dispatched, Emission
<1>2. PICK m : m = Mutated(c)
  OBVIOUS
<1>3. Shaped(m)
  BY <1>2, MutatedShape DEF Typed
<1>4. /\ DOMAIN emitted = {c.next} \X (1 .. Len(ems)) /\ 1 .. Len(ems) = DOMAIN ems
      /\ \A id \in DOMAIN emitted : emitted[id].body = ems[id[2]]
  BY DEF Emission
<1>5. /\ DOMAIN recalled = S
      /\ \A e \in S : recalled[e].body = c.mail[e].body
  <2>1. \A e \in DOMAIN c.mail : c.mail[e] \in Entry
    BY DEF Typed, EntriesTyped
  <2>2. DOMAIN recalled = S
    BY DEF Renumbered
  <2>3. ASSUME NEW e \in S PROVE recalled[e].body = c.mail[e].body
    <3>1. PICK n : recalled[e] = [c.mail[e] EXCEPT !.place = "ready", !.queue = n]
      BY <2>3, Zenon DEF Renumbered
    <3>2. c.mail[e] \in Entry
      BY <2>1, <2>3
    <3>. QED
      BY <3>1, <3>2 DEF Entry
  <2>. QED
    BY <2>2, <2>3
<1>. HIDE DEF emitted, recalled
<1>6. ASSUME NEW e \in DOMAIN mail
      PROVE  \/ e \in DOMAIN c.mail /\ mail[e].body = c.mail[e].body
             \/ \E i \in DOMAIN ems : mail[e].body = ems[i]
  <2>1. CASE e \in DOMAIN emitted
    <3>1. mail[e] = emitted[e] /\ e[2] \in DOMAIN ems
      BY <1>4, <2>1 DEF Merge
    <3>. QED
      BY <1>4, <2>1, <3>1
  <2>2. CASE e \notin DOMAIN emitted /\ e \in S
    <3>1. mail[e] = recalled[e]
      BY <1>5, <2>2 DEF Merge
    <3>. QED
      BY <1>5, <2>2, <3>1
  <2>3. CASE e \notin DOMAIN emitted /\ e \notin S
    <3>1. e \in DOMAIN c.mail /\ mail[e] = c.mail[e]
      BY <1>5, <2>3 DEF Merge
    <3>. QED
      BY <3>1
  <2>. QED
    BY <2>1, <2>2, <2>3
<1>. HIDE DEF mail
<1>7. PICK d : d = Dispatched(c, head, rt, ems, S, fx)
  OBVIOUS
<1>8. d.rt = rt /\ \A e \in DOMAIN d.mail : e \in DOMAIN mail /\ d.mail[e] = mail[e]
  <2>1. PICK k : k = Closed(m, mail, gone, own)
    OBVIOUS
  <2>2. Shaped(k) /\ \A e \in DOMAIN k.mail : e \in DOMAIN mail /\ k.mail[e] = mail[e]
    BY <1>3, <2>1, ClosedWaits
  <2>3. d = Stepped(k, rt, sent, again, effects)
    BY <1>1, <1>2, <1>7, <2>1
  <2>4. d.rt = rt /\ d.mail = k.mail
    BY <2>2, <2>3 DEF Stepped, Shaped, Fields
  <2>. QED
    BY <2>2, <2>4
<1>. QED
  BY <1>6, <1>7, <1>8 DEF WaitsFrom

\* A deferral changes neither runtimes nor what waits.
LEMMA DeferredWaits ==
    ASSUME NEW c, Typed(c), NEW h \in DOMAIN c.mail
    PROVE  LET d == Deferred(c, h) IN d.rt = c.rt /\ WaitsFrom(c, <<>>, d)
<1>1. PICK mail : mail = [c.mail EXCEPT ![h].place = "deferred", ![h].queue = c.nextQueue]
  OBVIOUS
<1>2. PICK m, none, k, d : /\ m = Mutated(c) /\ none = <<>> /\ k = Closed(m, mail, none, none)
                           /\ d = [k EXCEPT !.nextQueue = @ + 1]
  OBVIOUS
<1>3. d = Deferred(c, h)
  BY Zenon, <1>1, <1>2 DEF Deferred
<1>4. Shaped(m) /\ m.rt = c.rt
  BY <1>2, MutatedShape DEF Typed, Mutated, Shaped, Fields
<1>5. /\ k.rt = m.rt /\ Shaped(k)
      /\ \A e \in DOMAIN k.mail : e \in DOMAIN mail /\ k.mail[e] = mail[e]
  BY <1>2, <1>4, ClosedWaits
<1>6. d.rt = k.rt /\ d.mail = k.mail
  BY <1>2, <1>5 DEF Shaped, Fields
<1>7. \A e \in DOMAIN mail : e \in DOMAIN c.mail /\ mail[e].body = c.mail[e].body
  BY <1>1 DEF Typed, EntriesTyped, Entry
<1>8. WaitsFrom(c, <<>>, d)
  BY <1>5, <1>6, <1>7 DEF WaitsFrom
<1>. QED
  BY <1>3, <1>4, <1>5, <1>6, <1>8

\* The runtimes that sent what waits are there, unless the step removed one.
LEMMA StepsSources ==
    ASSUME NEW c, Typed(c), Below(c), SourcesPresent(c), NEW r, c.rt[r] = "running",
           Waiting(c, r, "ready") # {}, NEW d \in Steps(c, r)
    PROVE  SourcesPresent(d) \/ OutlivesSender(c, d)
<1>1. PICK h \in DOMAIN c.mail : d = Deferred(c, h) \/ DispatchesHead(c, r, h, d)
  BY StepArguments
<1>2. PICK ems : WaitsFrom(c, ems, d) /\ SentFrom(c, r, ems)
  <2>1. CASE d = Deferred(c, h)
    <3>1. PICK none : none = <<>>
      OBVIOUS
    <3>2. WaitsFrom(c, none, d) /\ SentFrom(c, r, none)
      BY <2>1, <3>1, DeferredWaits DEF SentFrom
    <3>. QED
      BY <3>2
  <2>2. CASE DispatchesHead(c, r, h, d)
    <3>1. PICK S \in SUBSET (DOMAIN c.mail \ {h}), rt \in [Runtimes -> Status],
               ems \in Seq(Internal), fx \in BOOLEAN :
                  SentFrom(c, r, ems) /\ d = Dispatched(c, {h}, rt, ems, S, fx)
      BY <2>2, Zenon DEF DispatchesHead
    <3>2. S \subseteq DOMAIN c.mail
      OBVIOUS
    <3>. QED
      BY <3>1, <3>2, DispatchedWaits
  <2>. QED
    BY <1>1, <2>1, <2>2
<1>3. ASSUME NEW e \in DOMAIN d.mail, d.mail[e].body \in Internal,
             Source[d.mail[e].body] \in Runtimes
      PROVE  c.rt[Source[d.mail[e].body]] # "removed"
  <2>1. CASE e \in DOMAIN c.mail /\ d.mail[e].body = c.mail[e].body
    BY <1>3, <2>1 DEF SourcesPresent
  <2>2. CASE \E i \in DOMAIN ems : d.mail[e].body = ems[i]
    BY <1>2, <1>3, <2>2 DEF SentFrom
  <2>. QED
    BY <1>2, <2>1, <2>2 DEF WaitsFrom
<1>. QED
  BY <1>3, Zenon DEF SourcesPresent, OutlivesSender

\* Every step of a checkpoint that restores can be restored, but for that.
LEMMA StepsRestorable ==
    ASSUME NEW c, Typed(c), Below(c), Traced(c), Valid(c), c.root = "retained",
           NEW r, c.rt[r] = "running", Waiting(c, r, "ready") # {}, NEW d \in Steps(c, r)
    PROVE  StepRestorable(c, d) /\ Traced(d)
<1>1. SourcesPresent(c) /\ SemanticsValid(c)
  BY DEF Valid
<1>. QED
  BY <1>1, StepsValid, StepsSources DEF StepRestorable

\* A creation restores.
LEMMA CreationsRestore ==
    ASSUME NEW d \in Creations
    PROVE  Valid(d) /\ Traced(d)
  BY CreationsValid DEF Valid, Creations

\* Deliveries of callers have no source among the runtimes: an admission restores.
LEMMA AdmittedRestores ==
    ASSUME Apart, NEW c, Typed(c), Below(c), Traced(c), Valid(c), c.root = "retained",
           NEW n \in Nat, NEW batch \in [1 .. n -> Delivery],
           \A i, j \in 1 .. n : i # j => batch[i].id # batch[j].id,
           \A i \in 1 .. n : batch[i].body \notin Internal
    PROVE  Valid(Admitted(c, batch))
<1>1. PICK d : d = Admitted(c, batch)
  OBVIOUS
<1>2. PICK new, at : /\ Admits(c, d, new, at)
                     /\ \A e \in DOMAIN new : \E i \in 1 .. n : batch[i].id = e /\ new[e].body = batch[i].body
  BY <1>1, AdmittedAdmits
<1>3. d.rt = c.rt
  <2>1. PICK mail, receipts, next, nextAcc, nextQueue :
           d = [Mutated(c) EXCEPT !.mail = mail, !.receipts = receipts,
                                  !.next = next, !.nextAcc = nextAcc, !.nextQueue = nextQueue]
    BY <1>1, Zenon DEF Admitted
  <2>. QED
    BY <2>1 DEF Mutated, Typed, Shaped, Fields
<1>4. ASSUME NEW e \in DOMAIN d.mail
      PROVE  d.mail[e].body \notin Internal \/ (e \in DOMAIN c.mail /\ d.mail[e] = c.mail[e])
  BY <1>2 DEF Admits
<1>5. SourcesPresent(d)
  BY <1>3, <1>4 DEF SourcesPresent, Valid
<1>6. SemanticsValid(d)
  BY <1>1, AdmittedValid DEF Valid
<1>. QED
  BY <1>1, <1>5, <1>6 DEF Valid

\* What changes neither runtimes nor mailboxes leaves the senders there.
LEMMA SameSources ==
    ASSUME NEW c, SourcesPresent(c), NEW d, d.rt = c.rt, d.mail = c.mail
    PROVE  SourcesPresent(d)
  BY DEF SourcesPresent

-----------------------------------------------------------------------------
(* Edits of the outbox.                                                    *)

\* d differs from c in outbox and revision only.
SameRecords(c, d) ==
    /\ d.root = c.root /\ d.revision = c.revision + 1 /\ d.cutoff = c.cutoff
    /\ d.next = c.next /\ d.nextAcc = c.nextAcc /\ d.nextQueue = c.nextQueue
    /\ d.mail = c.mail /\ d.receipts = c.receipts /\ d.tombstones = c.tombstones

\* Then only the outbox has to be checked again.
LEMMA OutboxValid ==
    ASSUME NEW c, Typed(c), Traced(c), SemanticsValid(c), NEW d, SameRecords(c, d), EffectsValid(d)
    PROVE  SemanticsValid(d)
<1>1. /\ d.root = c.root /\ d.revision = c.revision + 1 /\ d.cutoff = c.cutoff
      /\ d.next = c.next /\ d.nextAcc = c.nextAcc /\ d.nextQueue = c.nextQueue
      /\ d.mail = c.mail /\ d.receipts = c.receipts /\ d.tombstones = c.tombstones
  BY DEF SameRecords
<1>2. /\ OfKind(d, "event_terminal") = OfKind(c, "event_terminal")
      /\ OfKind(d, "acceptance") = OfKind(c, "acceptance")
      /\ \A e : AcceptanceOf(d, e) = AcceptanceOf(c, e)
      /\ \A e : TerminalOf(d, e) = TerminalOf(c, e)
      /\ \A e, kind : ProducerOf(d, e, kind) = ProducerOf(c, e, kind)
  BY <1>1 DEF OfKind, AcceptanceOf, TerminalOf, ProducerOf
<1>3. SequencesValid(d) /\ ReferencesValid(d)
  BY <1>1 DEF SemanticsValid, SequencesValid, ReferencesValid
<1>4. PendingValid(d)
  BY <1>1, <1>2 DEF SemanticsValid, PendingValid
<1>5. TerminalsValid(d)
  BY <1>1, <1>2 DEF SemanticsValid, TerminalsValid
<1>6. AcceptancesValid(d) /\ TombstonesValid(d)
  BY <1>1, <1>2 DEF SemanticsValid, AcceptancesValid, TombstonesValid
<1>7. ChronologyValid(d)
  <2>1. ChronologyValid(c) /\ c.revision \in Int
    BY DEF SemanticsValid, Typed
  <2>2. ASSUME NEW s \in DOMAIN d.receipts PROVE d.receipts[s].rev <= d.revision
    <3>1. c.receipts[s].rev \in Int /\ c.receipts[s].rev <= c.revision
      BY <1>1, <2>1 DEF ChronologyValid, Traced, ReceiptTraced
    <3>. QED
      BY <1>1, <2>1, <3>1
  <2>. QED
    BY <1>1, <2>1, <2>2 DEF ChronologyValid
<1>8. AllocationsValid(d)
  BY <1>1, <1>2 DEF SemanticsValid, AllocationsValid
<1>. QED
  BY <1>3, <1>4, <1>5, <1>6, <1>7, <1>8 DEF SemanticsValid

\* Its receipts stay traced.
LEMMA OutboxTraced ==
    ASSUME NEW c, Traced(c), NEW d, SameRecords(c, d),
           \A f \in DOMAIN d.terminalFx : d.terminalFx[f].seq \in Nat,
           \A f \in DOMAIN d.tombstoneFx : d.tombstoneFx[f].seq \in Nat
    PROVE  Traced(d)
<1>1. d.next = c.next /\ d.mail = c.mail /\ d.receipts = c.receipts /\ d.tombstones = c.tombstones
  BY DEF SameRecords
<1>2. \A e : Old(c, e) => Old(d, e)
  BY <1>1 DEF Old
<1>3. \A s \in DOMAIN d.receipts : ReceiptTraced(d, s)
  BY <1>1, <1>2 DEF Traced, ReceiptTraced
<1>. QED
  BY <1>1, <1>2, <1>3 DEF Traced

\* An effect settled gets a sequence of its own.
LEMMA SettledValid ==
    ASSUME NEW c, Traced(c), EffectsValid(c), c.nextFx \in Nat, NEW f \in DOMAIN c.pendingFx,
           NEW at, DOMAIN at = {f}, at[f].seq = c.nextFx,
           NEW d, d.receipts = c.receipts, d.nextFx = c.nextFx + 1,
           DOMAIN d.pendingFx = DOMAIN c.pendingFx \ {f},
           d.terminalFx = Merge(at, c.terminalFx), d.tombstoneFx = c.tombstoneFx
    PROVE  /\ EffectsValid(d)
           /\ \A g \in DOMAIN d.terminalFx : d.terminalFx[g].seq \in Nat
           /\ \A g \in DOMAIN d.tombstoneFx : d.tombstoneFx[g].seq \in Nat
<1>. DEFINE settled == Merge(c.terminalFx, c.tombstoneFx)
            after == Merge(d.terminalFx, d.tombstoneFx)
            S == DOMAIN c.terminalFx \cup DOMAIN c.tombstoneFx
<1>1. /\ DOMAIN c.pendingFx \cap DOMAIN c.terminalFx = {}
      /\ DOMAIN c.pendingFx \cap DOMAIN c.tombstoneFx = {}
      /\ DOMAIN c.terminalFx \cap DOMAIN c.tombstoneFx = {}
      /\ EffectsOf(c.receipts)
         = DOMAIN c.pendingFx \cup DOMAIN c.terminalFx \cup DOMAIN c.tombstoneFx
      /\ \A g, h \in S : settled[g].seq < c.nextFx /\ (settled[g].seq = settled[h].seq => g = h)
  BY DEF EffectsValid
<1>2. /\ \A g \in DOMAIN c.terminalFx : c.terminalFx[g].seq \in Nat
      /\ \A g \in DOMAIN c.tombstoneFx : c.tombstoneFx[g].seq \in Nat
  BY DEF Traced
<1>3. \A g \in S : settled[g].seq \in Nat
  BY <1>2 DEF Merge
<1>4. /\ DOMAIN d.terminalFx = {f} \cup DOMAIN c.terminalFx
      /\ d.terminalFx[f].seq = c.nextFx
      /\ \A g \in DOMAIN c.terminalFx : d.terminalFx[g] = c.terminalFx[g]
  BY <1>1 DEF Merge
<1>5. DOMAIN d.terminalFx \cup DOMAIN d.tombstoneFx = {f} \cup S /\ f \notin S
  BY <1>1, <1>4
<1>6. after[f].seq = c.nextFx /\ \A g \in S : after[g] = settled[g]
  BY <1>1, <1>4 DEF Merge
<1>7. ASSUME NEW g \in {f} \cup S, NEW h \in {f} \cup S
      PROVE  after[g].seq < d.nextFx /\ (after[g].seq = after[h].seq => g = h)
  <2>. HIDE DEF settled, after, S
  <2>. QED
    BY <1>1, <1>3, <1>6
<1>8. /\ DOMAIN d.pendingFx \cap DOMAIN d.terminalFx = {}
      /\ DOMAIN d.pendingFx \cap DOMAIN d.tombstoneFx = {}
      /\ DOMAIN d.terminalFx \cap DOMAIN d.tombstoneFx = {}
      /\ EffectsOf(d.receipts)
         = DOMAIN d.pendingFx \cup DOMAIN d.terminalFx \cup DOMAIN d.tombstoneFx
  BY <1>1, <1>4
<1>9. EffectsValid(d)
  BY <1>5, <1>7, <1>8 DEF EffectsValid
<1>. QED
  BY <1>2, <1>4, <1>9

\* A settled effect keeps its sequence when it is compacted.
LEMMA CompactedValid ==
    ASSUME NEW c, Traced(c), EffectsValid(c), NEW f \in DOMAIN c.terminalFx,
           NEW at, DOMAIN at = {f}, at[f] = c.terminalFx[f],
           NEW d, d.receipts = c.receipts, d.nextFx = c.nextFx, d.pendingFx = c.pendingFx,
           d.terminalFx = Restrict(c.terminalFx, DOMAIN c.terminalFx \ {f}),
           d.tombstoneFx = Merge(at, c.tombstoneFx)
    PROVE  /\ EffectsValid(d)
           /\ \A g \in DOMAIN d.terminalFx : d.terminalFx[g].seq \in Nat
           /\ \A g \in DOMAIN d.tombstoneFx : d.tombstoneFx[g].seq \in Nat
<1>. DEFINE settled == Merge(c.terminalFx, c.tombstoneFx)
            after == Merge(d.terminalFx, d.tombstoneFx)
            S == DOMAIN c.terminalFx \cup DOMAIN c.tombstoneFx
<1>1. /\ DOMAIN c.pendingFx \cap DOMAIN c.terminalFx = {}
      /\ DOMAIN c.pendingFx \cap DOMAIN c.tombstoneFx = {}
      /\ DOMAIN c.terminalFx \cap DOMAIN c.tombstoneFx = {}
      /\ EffectsOf(c.receipts)
         = DOMAIN c.pendingFx \cup DOMAIN c.terminalFx \cup DOMAIN c.tombstoneFx
      /\ \A g, h \in S : settled[g].seq < c.nextFx /\ (settled[g].seq = settled[h].seq => g = h)
  BY DEF EffectsValid
<1>2. /\ \A g \in DOMAIN c.terminalFx : c.terminalFx[g].seq \in Nat
      /\ \A g \in DOMAIN c.tombstoneFx : c.tombstoneFx[g].seq \in Nat
  BY DEF Traced
<1>3. /\ DOMAIN d.terminalFx = DOMAIN c.terminalFx \ {f}
      /\ \A g \in DOMAIN d.terminalFx : d.terminalFx[g] = c.terminalFx[g]
  BY DEF Restrict
<1>4. /\ DOMAIN d.tombstoneFx = {f} \cup DOMAIN c.tombstoneFx
      /\ d.tombstoneFx[f] = c.terminalFx[f]
      /\ \A g \in DOMAIN c.tombstoneFx : d.tombstoneFx[g] = c.tombstoneFx[g]
  BY <1>1 DEF Merge
<1>5. DOMAIN d.terminalFx \cup DOMAIN d.tombstoneFx = S
  BY <1>3, <1>4
<1>6. \A g \in S : after[g] = settled[g]
  BY <1>1, <1>3, <1>4 DEF Merge
<1>7. \A g, h \in S : after[g].seq < d.nextFx /\ (after[g].seq = after[h].seq => g = h)
  BY <1>1, <1>6
<1>8. /\ DOMAIN d.pendingFx \cap DOMAIN d.terminalFx = {}
      /\ DOMAIN d.pendingFx \cap DOMAIN d.tombstoneFx = {}
      /\ DOMAIN d.terminalFx \cap DOMAIN d.tombstoneFx = {}
      /\ EffectsOf(d.receipts)
         = DOMAIN d.pendingFx \cup DOMAIN d.terminalFx \cup DOMAIN d.tombstoneFx
  <2>1. DOMAIN d.pendingFx = DOMAIN c.pendingFx /\ EffectsOf(d.receipts) = EffectsOf(c.receipts)
    OBVIOUS
  <2>2. DOMAIN d.terminalFx = DOMAIN c.terminalFx \ {f}
    BY <1>3
  <2>3. DOMAIN d.tombstoneFx = {f} \cup DOMAIN c.tombstoneFx
    BY <1>4
  <2>4. EffectsOf(c.receipts)
        = DOMAIN c.pendingFx \cup DOMAIN c.terminalFx \cup DOMAIN c.tombstoneFx
    BY <1>1
  <2>5. /\ DOMAIN c.pendingFx \cap DOMAIN c.terminalFx = {}
        /\ DOMAIN c.pendingFx \cap DOMAIN c.tombstoneFx = {}
        /\ DOMAIN c.terminalFx \cap DOMAIN c.tombstoneFx = {}
    BY <1>1
  <2>6. f \in DOMAIN c.terminalFx
    OBVIOUS
  <2>. QED
    BY <2>1, <2>2, <2>3, <2>4, <2>5, <2>6
<1>9. EffectsValid(d)
  BY <1>5, <1>7, <1>8 DEF EffectsValid
<1>. QED
  BY <1>2, <1>3, <1>4, <1>9
================================================================================
