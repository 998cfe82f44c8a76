------------------------- MODULE ExecutionHost_proofs -------------------------
(***************************************************************************)
(* What holds of the execution host for every set of runtimes, bodies,     *)
(* ids and bounds: a tombstoned root owes nothing, an effect settles once, *)
(* permanent evidence stays, the record keeps its shape, the host          *)
(* implements the inbox ledger, and what it computes it can restore.       *)
(***************************************************************************)
EXTENDS ExecutionHost, Checkpoint_proofs, SequenceTheorems, TLAPS

\* Processing one delivery is an admission and a step under one revision.
LEMMA ProcessedShape ==
    ASSUME NEW c, Shaped(c), NEW delivery, NEW d \in ProcessedDelivery(c, delivery)
    PROVE  c.root = "retained" /\ Worked(c, d)
<1>. DEFINE a == Admitted(c, <<delivery>>)
            r == Target[delivery.body]
<1>1. Acceptable(c, <<delivery>>)
  BY Zenon DEF ProcessedDelivery
<1>2. PICK stepped, revision, receipts :
         /\ stepped \in Steps(a, r)
         /\ d = [stepped EXCEPT !.revision = revision, !.receipts = receipts]
  BY Zenon, <1>1 DEF ProcessedDelivery
<1>3. c.root = "retained"
  BY Zenon, <1>1 DEF Acceptable
<1>4. Shaped(a) /\ a.root = c.root /\ SameEffects(c, a)
  BY AdmittedShape
<1>. HIDE DEF a, r
<1>5. Worked(a, stepped)
  BY <1>2, <1>3, <1>4, StepsShape
<1>6. Worked(c, d)
  BY <1>2, <1>4, <1>5 DEF Worked, OnlyAdds, SameEffects, Shaped, Fields
<1>. QED
  BY <1>3, <1>6

\* Migration keeps the root and the outbox.
LEMMA MaintainedShape ==
    ASSUME NEW c, Shaped(c), NEW d \in Maintenances(c)
    PROVE  Shaped(d) /\ d.root = c.root /\ SameEffects(c, d)
<1>1. PICK op, D, S : d = Maintained(c, op, D, S)
  BY SMT DEF Maintenances
<1>2. PICK mail, gone, own, queue :
         d = [Closed(Mutated(c), mail, gone, own) EXCEPT !.nextQueue = queue]
  BY Zenon, <1>1 DEF Maintained
<1>3. PICK m : m = Mutated(c)
  OBVIOUS
<1>4. PICK e : e = Closed(m, mail, gone, own)
  OBVIOUS
<1>5. Shaped(m) /\ SameWork(c, m) /\ SameEffects(c, m)
  BY <1>3, MutatedShape
<1>6. Shaped(e) /\ e.root = m.root /\ SameEffects(m, e)
  BY <1>4, <1>5, ClosedShape
<1>7. d = [e EXCEPT !.nextQueue = queue]
  BY <1>2, <1>3, <1>4
<1>. QED
  BY <1>5, <1>6, <1>7 DEF Shaped, Fields, SameWork, SameEffects

\* A map restricted to nothing is the empty map.
LEMMA NothingLeft ==
    ASSUME NEW f
    PROVE  [x \in {} |-> f[x]] = <<>>
<1>1. PICK g : g = [x \in {} |-> f[x]]
  OBVIOUS
<1>2. g \in [1 .. 0 -> {}]
  BY <1>1
<1>3. g \in Seq({}) /\ Len(g) = 0
  BY <1>2
<1>. QED
  BY <1>1, <1>3, EmptySeq

\* A tombstone closes every entry and keeps the outbox.
LEMMA TombstonedShape ==
    ASSUME NEW c, Shaped(c), NEW op
    PROVE  LET d == Tombstoned(c, op)
           IN Shaped(d) /\ d.root = "tombstone" /\ d.mail = <<>> /\ SameEffects(c, d)
<1>1. PICK gone : gone = Numbered(c.mail, DOMAIN c.mail, c.next)
  OBVIOUS
<1>2. DOMAIN gone = DOMAIN c.mail
  BY <1>1 DEF Numbered
<1>3. PICK m : m = Mutated(c)
  OBVIOUS
<1>4. PICK e : e = Closed(m, c.mail, gone, <<>>)
  OBVIOUS
<1>5. Shaped(m) /\ SameWork(c, m) /\ SameEffects(c, m)
  BY <1>3, MutatedShape
<1>6. Shaped(e) /\ SameEffects(m, e)
  BY <1>4, <1>5, ClosedShape
<1>7. e.mail = <<>>
  <2>1. e.mail = Restrict(c.mail, DOMAIN c.mail \ DOMAIN gone)
    BY <1>4, <1>5, ClosedMail
  <2>2. DOMAIN c.mail \ DOMAIN gone = {}
    BY <1>2
  <2>. QED
    BY <2>1, <2>2, NothingLeft DEF Restrict
<1>8. Tombstoned(c, op) = [e EXCEPT !.root = "tombstone", !.operation = op]
  BY Zenon, <1>1, <1>3, <1>4 DEF Tombstoned
<1>. QED
  BY <1>5, <1>6, <1>7, <1>8 DEF Shaped, Fields, SameEffects

\* Pruning leaves mailboxes and the outbox alone.
LEMMA PrunedShape ==
    ASSUME NEW c, Shaped(c), NEW cutoff
    PROVE  LET d == Pruned(c, cutoff)
           IN Shaped(d) /\ SameWork(c, d) /\ SameEffects(c, d)
<1>1. PICK m : m = Mutated(c)
  OBVIOUS
<1>2. Shaped(m) /\ SameWork(c, m) /\ SameEffects(c, m)
  BY <1>1, MutatedShape
<1>3. PICK receipts, tombstones :
         Pruned(c, cutoff) = [m EXCEPT !.mode = "bounded", !.cutoff = cutoff,
                                       !.receipts = receipts, !.tombstones = tombstones]
  BY Zenon, <1>1 DEF Pruned
<1>. QED
  BY <1>2, <1>3 DEF Shaped, Fields, SameWork, SameEffects

\* The first report of an attempt settles nothing.
LEMMA AttemptedShape ==
    ASSUME NEW c, Shaped(c), NEW f \in DOMAIN c.pendingFx
    PROVE  LET d == Attempted(c, f)
           IN Shaped(d) /\ SameWork(c, d) /\ OnlyAdds(c, d)
<1>1. PICK m : m = Mutated(c)
  OBVIOUS
<1>2. Shaped(m) /\ SameWork(c, m) /\ SameEffects(c, m)
  BY <1>1, MutatedShape
<1>3. Attempted(c, f) = [m EXCEPT !.pendingFx[f] = "attempted"]
  BY <1>1 DEF Attempted
<1>. QED
  BY <1>2, <1>3 DEF Shaped, Fields, SameWork, SameEffects, OnlyAdds

\* The outbox after the outcome of effect f.
Settled(c, d, f, outcome) ==
    /\ d.pendingFx = Restrict(c.pendingFx, DOMAIN c.pendingFx \ {f})
    /\ d.terminalFx = Merge([g \in {f} |-> outcome], c.terminalFx)
    /\ d.tombstoneFx = c.tombstoneFx

\* The outbox after compacting f.
Moved(c, d, f) ==
    /\ d.pendingFx = c.pendingFx
    /\ d.terminalFx = Restrict(c.terminalFx, DOMAIN c.terminalFx \ {f})
    /\ d.tombstoneFx = Merge([g \in {f} |-> c.terminalFx[f]], c.tombstoneFx)

\* The outbox after settled effects outside "kept" went.
Forgot(c, d, kept) ==
    /\ d.pendingFx = c.pendingFx
    /\ d.terminalFx = Restrict(c.terminalFx, DOMAIN c.terminalFx \cap kept)
    /\ d.tombstoneFx = Restrict(c.tombstoneFx, DOMAIN c.tombstoneFx \cap kept)

\* An outcome moves one effect from pending to terminal.
LEMMA TerminalizedShape ==
    ASSUME NEW c, Shaped(c), NEW f, NEW outcome
    PROVE  LET d == Terminalized(c, f, outcome)
           IN Shaped(d) /\ SameWork(c, d) /\ \E o : Settled(c, d, f, o)
<1>1. PICK m : m = Mutated(c)
  OBVIOUS
<1>2. Shaped(m) /\ SameWork(c, m) /\ SameEffects(c, m)
  BY <1>1, MutatedShape
<1>3. PICK o, seq :
         Terminalized(c, f, outcome)
         = [m EXCEPT !.pendingFx = Restrict(@, DOMAIN @ \ {f}),
                     !.terminalFx = Merge([g \in {f} |-> o], @), !.nextFx = seq]
  BY Zenon, <1>1 DEF Terminalized
<1>4. Settled(c, Terminalized(c, f, outcome), f, o)
  BY <1>2, <1>3 DEF Shaped, Fields, SameEffects, Settled
<1>5. Shaped(Terminalized(c, f, outcome)) /\ SameWork(c, Terminalized(c, f, outcome))
  BY <1>2, <1>3 DEF Shaped, Fields, SameWork
<1>. QED
  BY Zenon, <1>4, <1>5

\* Compaction moves one settled effect, with its outcome.
LEMMA CompactedShape ==
    ASSUME NEW c, Shaped(c), NEW f
    PROVE  LET d == Compacted(c, f)
           IN Shaped(d) /\ SameWork(c, d) /\ Moved(c, d, f)
<1>1. PICK m : m = Mutated(c)
  OBVIOUS
<1>2. Shaped(m) /\ SameWork(c, m) /\ SameEffects(c, m)
  BY <1>1, MutatedShape
<1>3. Compacted(c, f)
      = [m EXCEPT !.terminalFx = Restrict(@, DOMAIN @ \ {f}),
                  !.tombstoneFx = Merge([g \in {f} |-> c.terminalFx[f]], @)]
  BY Zenon, <1>1 DEF Compacted
<1>. QED
  BY <1>2, <1>3 DEF Shaped, Fields, SameWork, SameEffects, Moved

\* A retention cut forgets settled effects only.
LEMMA CutShape ==
    ASSUME NEW c, Shaped(c), NEW cutoff
    PROVE  LET d == Cut(c, cutoff)
           IN Shaped(d) /\ SameWork(c, d) /\ (SameEffects(c, d) \/ \E kept : Forgot(c, d, kept))
<1>1. PICK m : m = Mutated(c)
  OBVIOUS
<1>2. Shaped(m) /\ SameWork(c, m) /\ SameEffects(c, m)
  BY <1>1, MutatedShape
<1>3. PICK receipts :
         Cut(c, cutoff)
         = [m EXCEPT !.mode = "bounded", !.cutoff = cutoff, !.receipts = receipts,
                     !.terminalFx = IF cutoff = None THEN @
                                    ELSE Restrict(@, DOMAIN @ \cap EffectsOf(receipts)),
                     !.tombstoneFx = IF cutoff = None THEN @
                                     ELSE Restrict(@, DOMAIN @ \cap EffectsOf(receipts))]
  BY Zenon, <1>1 DEF Cut
<1>4. Shaped(Cut(c, cutoff)) /\ SameWork(c, Cut(c, cutoff))
  BY <1>2, <1>3 DEF Shaped, Fields, SameWork
<1>5. CASE cutoff = None
  BY <1>2, <1>3, <1>4, <1>5 DEF Shaped, Fields, SameEffects
<1>6. CASE cutoff # None
  <2>1. Forgot(c, Cut(c, cutoff), EffectsOf(receipts))
    BY <1>2, <1>3, <1>6 DEF Shaped, Fields, SameEffects, Forgot
  <2>. QED
    BY Zenon, <1>4, <2>1
<1>. QED
  BY <1>5, <1>6

-----------------------------------------------------------------------------
(* The stored record.                                                      *)

\* Every commit has passed the restoration checks; before the first there is
\* nothing to deliver, and after a tombstone there is nothing left.
Stored ==
    /\ Shaped(cp)
    /\ cp.root \in {"none", "retained", "tombstone"}
    /\ cp.root = "none" => /\ cp.pendingFx = <<>> /\ cp.terminalFx = <<>>
                           /\ cp.tombstoneFx = <<>>
    /\ Present => Valid(cp)
    /\ cp.root = "tombstone" => cp.mail = <<>> /\ cp.pendingFx = <<>>

\* The outbox is left alone, grows, or settles, moves or forgets settled effects.
OutboxStep ==
    \/ OnlyAdds(cp, cp')
    \/ \E f \in DOMAIN cp.pendingFx : \E o : Settled(cp, cp', f, o)
    \/ \E f \in DOMAIN cp.terminalFx : Moved(cp, cp', f)
    \/ \E kept : Forgot(cp, cp', kept)

\* What commits between two operations on mailboxes leave: work on a retained
\* root, the closing of a root, or the same root and mailboxes.
Commit ==
    /\ Shaped(cp') /\ Valid(cp') /\ OutboxStep
    /\ \/ cp'.root = "retained"
       \/ cp'.root = "tombstone" /\ cp'.mail = <<>> /\ cp'.pendingFx = <<>>
       \/ Present /\ SameWork(cp, cp') /\ (cp.pendingFx = <<>> => cp'.pendingFx = <<>>)

\* What a staged candidate has been through.
LEMMA StageStored ==
    ASSUME NEW candidate, Stage(candidate)
    PROVE  Valid(cp') /\ cp' = candidate
  BY Zenon DEF Stage

\* An empty map has nothing in it.
LEMMA EmptyMap == DOMAIN <<>> = {}
  OBVIOUS

\* Every operation commits in one of these ways.
LEMMA NextCommits ==
    ASSUME Stored, Next
    PROVE  Commit
<1>. USE DEF Stored
<1>1. ASSUME Create PROVE Commit
  <2>1. PICK d \in Creations : Stage(d)
    BY <1>1 DEF Create
  <2>2. Worked(Blank, d)
    BY CreationsShape
  <2>3. OnlyAdds(cp, d)
    BY <1>1, <2>2, BlankShaped, EmptyMap DEF Create, Worked, OnlyAdds
  <2>. QED
    BY <2>1, <2>2, <2>3, StageStored DEF Worked, Commit, OutboxStep
<1>2. ASSUME NEW batch, Admit(batch) PROVE Commit
  <2>1. cp.root = "retained" /\ Stage(Admitted(cp, batch))
    BY Zenon, <1>2 DEF Admit, Acceptable
  <2>2. cp' = Admitted(cp, batch) /\ Valid(cp')
    BY <2>1, StageStored
  <2>3. Shaped(cp') /\ cp'.root = cp.root /\ SameEffects(cp, cp')
    BY <2>2, AdmittedShape
  <2>. QED
    BY <2>1, <2>2, <2>3 DEF Commit, OutboxStep, OnlyAdds, SameEffects
<1>3. ASSUME NEW r, ProcessReady(r) PROVE Commit
  <2>1. PICK d \in Steps(cp, r) : Stage(d)
    BY Zenon, <1>3 DEF ProcessReady
  <2>2. cp.root = "retained"
    BY Zenon, <1>3 DEF ProcessReady, Runnable
  <2>3. Worked(cp, d)
    BY <2>2, StepsShape
  <2>. QED
    BY <2>1, <2>3, StageStored DEF Worked, Commit, OutboxStep
<1>4. ASSUME NEW delivery, ProcessDelivery(delivery) PROVE Commit
  <2>1. PICK d \in ProcessedDelivery(cp, delivery) : Stage(d)
    BY Zenon, <1>4 DEF ProcessDelivery
  <2>2. Worked(cp, d)
    BY ProcessedShape
  <2>. QED
    BY <2>1, <2>2, StageStored DEF Worked, Commit, OutboxStep
<1>5. ASSUME MaintenanceMigration PROVE Commit
  <2>1. PICK d \in Maintenances(cp) : Stage(d)
    BY Zenon, <1>5 DEF MaintenanceMigration
  <2>2. cp.root = "retained"
    BY Zenon, <1>5 DEF MaintenanceMigration
  <2>3. Shaped(d) /\ d.root = cp.root /\ SameEffects(cp, d)
    BY MaintainedShape
  <2>. QED
    BY <2>1, <2>2, <2>3, StageStored DEF Commit, OutboxStep, OnlyAdds, SameEffects
<1>6. ASSUME NEW op, TombstoneRoot(op) PROVE Commit
  <2>1. cp.pendingFx = <<>> /\ Stage(Tombstoned(cp, op))
    BY Zenon, <1>6 DEF TombstoneRoot, MayTombstone
  <2>2. cp' = Tombstoned(cp, op) /\ Valid(cp')
    BY <2>1, StageStored
  <2>3. /\ Shaped(cp') /\ cp'.root = "tombstone" /\ cp'.mail = <<>>
        /\ SameEffects(cp, cp')
    BY <2>2, TombstonedShape
  <2>. QED
    BY <2>1, <2>2, <2>3 DEF Commit, OutboxStep, OnlyAdds, SameEffects
<1>7. ASSUME NEW f, UpdatePendingOutbox(f) PROVE Commit
  <2>1. f \in DOMAIN cp.pendingFx /\ Stage(Attempted(cp, f))
    BY Zenon, <1>7 DEF UpdatePendingOutbox
  <2>2. cp' = Attempted(cp, f) /\ Valid(cp')
    BY <2>1, StageStored
  <2>3. Shaped(cp') /\ SameWork(cp, cp') /\ OnlyAdds(cp, cp')
    BY <2>1, <2>2, AttemptedShape
  <2>4. Present /\ cp.pendingFx # <<>>
    BY <2>1, EmptyMap DEF Present
  <2>. QED
    BY <2>2, <2>3, <2>4 DEF Commit, OutboxStep
<1>8. ASSUME NEW f, NEW outcome, TerminalizeOutbox(f, outcome) PROVE Commit
  <2>1. f \in DOMAIN cp.pendingFx /\ Stage(Terminalized(cp, f, outcome))
    BY Zenon, <1>8 DEF TerminalizeOutbox
  <2>2. cp' = Terminalized(cp, f, outcome) /\ Valid(cp')
    BY <2>1, StageStored
  <2>3. Shaped(cp') /\ SameWork(cp, cp') /\ \E o : Settled(cp, cp', f, o)
    BY <2>2, TerminalizedShape
  <2>4. Present /\ cp.pendingFx # <<>>
    BY <2>1, EmptyMap DEF Present
  <2>. QED
    BY <2>1, <2>2, <2>3, <2>4 DEF Commit, OutboxStep
<1>9. ASSUME NEW f, CompactOutbox(f) PROVE Commit
  <2>1. f \in DOMAIN cp.terminalFx /\ Stage(Compacted(cp, f))
    BY Zenon, <1>9 DEF CompactOutbox
  <2>2. cp' = Compacted(cp, f) /\ Valid(cp')
    BY <2>1, StageStored
  <2>3. Shaped(cp') /\ SameWork(cp, cp') /\ Moved(cp, cp', f)
    BY <2>2, CompactedShape
  <2>4. Present
    BY <2>1, EmptyMap DEF Present
  <2>. QED
    BY <2>1, <2>2, <2>3, <2>4 DEF Commit, OutboxStep, Moved
<1>10. ASSUME NEW cutoff, Prune(cutoff) PROVE Commit
  <2>1. Present /\ Stage(Pruned(cp, cutoff))
    BY Zenon, <1>10 DEF Prune, Prunable, Present
  <2>2. cp' = Pruned(cp, cutoff) /\ Valid(cp')
    BY <2>1, StageStored
  <2>3. Shaped(cp') /\ SameWork(cp, cp') /\ SameEffects(cp, cp')
    BY <2>2, PrunedShape
  <2>. QED
    BY <2>1, <2>2, <2>3 DEF Commit, OutboxStep, OnlyAdds, SameEffects
<1>11. ASSUME NEW cutoff, UpdateReplayRetention(cutoff) PROVE Commit
  <2>1. Present /\ Stage(Cut(cp, cutoff))
    BY Zenon, <1>11 DEF UpdateReplayRetention
  <2>2. cp' = Cut(cp, cutoff) /\ Valid(cp')
    BY <2>1, StageStored
  <2>3. /\ Shaped(cp') /\ SameWork(cp, cp')
        /\ SameEffects(cp, cp') \/ \E kept : Forgot(cp, cp', kept)
    BY <2>2, CutShape
  <2>. QED
    BY <2>1, <2>2, <2>3 DEF Commit, OutboxStep, OnlyAdds, SameEffects, Forgot
<1>. QED
  BY <1>1, <1>2, <1>3, <1>4, <1>5, <1>6, <1>7, <1>8, <1>9, <1>10, <1>11 DEF Next

\* Only checked records are stored: the invariant behind the theorems.
THEOREM StoredInvariant == Spec => []Stored
<1>1. Init => Stored
  BY BlankShaped DEF Init, Stored, Present
<1>2. Stored /\ [Next]_cp => Stored'
  <2>1. ASSUME Stored, Next PROVE Stored'
    <3>1. Commit
      BY <2>1, NextCommits
    <3>. QED
      BY <2>1, <3>1 DEF Commit, Stored, Present, SameWork
  <2>2. Stored /\ UNCHANGED cp => Stored'
    BY Zenon DEF Stored, Present
  <2>. QED
    BY <2>1, <2>2
<1>. QED
  BY <1>1, <1>2, PTL DEF Spec

\* A tombstoned root has no entry waiting, a terminal receipt for every
\* acceptance it keeps, and no effect left to deliver (host.py:1181).
THEOREM TombstoneSettled == Spec => []TombstonedOwesNothing
<1>1. Stored => TombstonedOwesNothing
  <2>1. ASSUME Stored, cp.root = "tombstone", NEW s \in OfKind(cp, "acceptance")
        PROVE  TerminalOf(cp, cp.receipts[s].id) # {}
    <3>1. AcceptancesValid(cp)
      BY Zenon, <2>1 DEF Stored, Present, Valid, SemanticsValid
    <3>2. cp.receipts[s].id \in DOMAIN cp.mail \/ TerminalOf(cp, cp.receipts[s].id) # {}
      BY Zenon, <2>1, <3>1 DEF AcceptancesValid
    <3>. QED
      BY <2>1, <3>2, EmptyMap DEF Stored
  <2>. QED
    BY <2>1 DEF Stored, TombstonedOwesNothing
<1>. QED
  BY <1>1, StoredInvariant, PTL

\* What EffectsSettleOnce allows to happen to the effects known before a step.
SettlesOnce ==
    \A f \in DOMAIN cp.pendingFx \cup DOMAIN cp.terminalFx \cup DOMAIN cp.tombstoneFx :
       IF f \in DOMAIN cp.pendingFx
       THEN f \in DOMAIN cp'.pendingFx \cup DOMAIN cp'.terminalFx
       ELSE /\ f \notin DOMAIN cp'.pendingFx
            /\ f \in DOMAIN cp'.terminalFx \cup DOMAIN cp'.tombstoneFx =>
                  Merge(cp.terminalFx, cp.tombstoneFx)[f]
                  = Merge(cp'.terminalFx, cp'.tombstoneFx)[f]

\* A pending effect is settled before it leaves the outbox and its outcome is
\* never replaced, whatever is emitted, reported, compacted or forgotten.
THEOREM SettledOnce == Spec => EffectsSettleOnce
<1>1. ASSUME Stored, Next PROVE SettlesOnce
  <2>1. Commit
    BY <1>1, NextCommits
  <2>2. /\ DOMAIN cp'.pendingFx \cap DOMAIN cp'.terminalFx = {}
        /\ DOMAIN cp'.pendingFx \cap DOMAIN cp'.tombstoneFx = {}
    BY Zenon, <2>1 DEF Commit, Valid, SemanticsValid, EffectsValid
  <2>3. CASE OnlyAdds(cp, cp')
    BY <2>2, <2>3 DEF OnlyAdds, SettlesOnce
  <2>4. ASSUME NEW f \in DOMAIN cp.pendingFx, NEW o, Settled(cp, cp', f, o) PROVE SettlesOnce
    BY <2>4 DEF Settled, SettlesOnce, Merge, Restrict
  <2>5. ASSUME NEW f \in DOMAIN cp.terminalFx, Moved(cp, cp', f) PROVE SettlesOnce
    BY <2>2, <2>5 DEF Moved, SettlesOnce, Merge, Restrict
  <2>6. ASSUME NEW kept, Forgot(cp, cp', kept) PROVE SettlesOnce
    BY <2>2, <2>6 DEF Forgot, SettlesOnce, Merge, Restrict
  <2>. QED
    BY <2>1, <2>3, <2>4, <2>5, <2>6 DEF Commit, OutboxStep
<1>2. Stored /\ [Next]_cp => [SettlesOnce]_cp
  BY <1>1
<1>. QED
  BY <1>2, StoredInvariant, PTL DEF Spec, EffectsSettleOnce, SettlesOnce

-----------------------------------------------------------------------------
(* The shape of the record and the evidence it keeps.                      *)

\* A delivery that is admitted waits for the step that follows.
LEMMA AdmittedWaits ==
    ASSUME NEW c, Typed(c), NEW d, Acceptable(c, <<d>>)
    PROVE  Waiting(Admitted(c, <<d>>), Target[d.body], "ready") # {}
<1>1. PICK batch : batch = <<d>>
  OBVIOUS
<1>. DEFINE fresh == Fresh(c, batch)
            rank(i) == Cardinality({j \in 1 .. i - 1 : j \in fresh})
            entry(i) == [body |-> batch[i].body, acc |-> c.nextAcc + rank(i),
                         queue |-> c.nextQueue + rank(i), place |-> "ready"]
            entryOf(e) == {entry(i) : i \in {j \in fresh : batch[j].id = e}}
            entries == [e \in {batch[i].id : i \in fresh} |-> CHOOSE x \in entryOf(e) : TRUE]
<1>2. PICK receipts, next, acc, queue :
         Admitted(c, batch)
         = [Mutated(c) EXCEPT !.mail = Merge(entries, @), !.receipts = receipts,
                              !.next = next, !.nextAcc = acc, !.nextQueue = queue]
  BY Zenon DEF Admitted
<1>3. DOMAIN batch = {1} /\ batch[1] = d
  BY <1>1
<1>4. fresh = {1}
  <2>1. fresh # {}
    BY <1>1, Zenon DEF Acceptable
  <2>2. fresh \subseteq {1}
    BY <1>3 DEF Fresh
  <2>. QED
    BY <2>1, <2>2
<1>. HIDE DEF fresh
<1>5. entry(1).body = d.body /\ entry(1).place = "ready"
  BY <1>3
<1>. HIDE DEF entry
<1>6. d.id \in DOMAIN entries /\ entries[d.id] = entry(1)
  <2>1. DOMAIN entries = {d.id}
    BY <1>3, <1>4
  <2>2. entryOf(d.id) = {entry(1)}
    BY <1>3, <1>4
  <2>3. entries[d.id] = CHOOSE x \in {entry(1)} : TRUE
    BY <2>1, <2>2
  <2>. QED
    BY <2>1, <2>3
<1>. HIDE DEF entries
<1>7. PICK a : a = Admitted(c, batch)
  OBVIOUS
<1>8. PICK m : m = Mutated(c)
  OBVIOUS
<1>9. Shaped(m)
  BY <1>8, MutatedShape DEF Typed
<1>10. a.mail = Merge(entries, m.mail)
  BY <1>2, <1>7, <1>8, <1>9 DEF Shaped, Fields
<1>11. d.id \in DOMAIN a.mail /\ a.mail[d.id] = entry(1)
  BY <1>6, <1>10 DEF Merge
<1>12. d.id \in Waiting(a, Target[d.body], "ready")
  BY <1>5, <1>11 DEF Waiting
<1>. QED
  BY <1>1, <1>7, <1>12

\* The receipts from sequence "next" on, under one revision.
Revised(receipts, next, rev) ==
    [s \in DOMAIN receipts |-> IF s >= next THEN [receipts[s] EXCEPT !.rev = rev] ELSE receipts[s]]

\* Putting the new receipts under one revision leaves the old ones.
LEMMA RevisedTyped ==
    ASSUME NEW before, ReceiptsTyped(before), NEW receipts, ReceiptsTyped(receipts),
           Retains(before, receipts), NEW next \in Nat, \A s \in DOMAIN before : s < next,
           NEW rev
    PROVE  LET after == Revised(receipts, next, rev)
           IN ReceiptsTyped(after) /\ Retains(before, after)
<1>0. PICK after : after = Revised(receipts, next, rev)
  OBVIOUS
<1>1. DOMAIN after = DOMAIN receipts
  BY <1>0 DEF Revised
<1>2. ASSUME NEW s \in DOMAIN receipts
      PROVE  s \in Nat /\ ReceiptTyped(after[s]) /\ (s < next => after[s] = receipts[s])
  <2>1. PICK x : x = receipts[s]
    OBVIOUS
  <2>2. s \in Nat /\ ReceiptTyped(x)
    BY <2>1 DEF ReceiptsTyped
  <2>3. PICK y : y = [x EXCEPT !.rev = rev]
    OBVIOUS
  <2>4. ReceiptTyped(y)
    BY <2>2, <2>3 DEF ReceiptTyped, IsReceipt, ReceiptFields
  <2>5. after[s] = IF s >= next THEN y ELSE x
    BY <1>0, <2>1, <2>3 DEF Revised
  <2>. QED
    BY <2>1, <2>2, <2>4, <2>5
<1>3. Retains(before, after)
  <2>1. \A s \in DOMAIN before : s \in DOMAIN receipts /\ s < next
    BY DEF Retains
  <2>. QED
    BY <1>1, <1>2, <2>1 DEF Retains
<1>. QED
  BY <1>0, <1>1, <1>2, <1>3 DEF ReceiptsTyped

\* Admitting and stepping in one commit writes receipts and removes none.
LEMMA ProcessedTyped ==
    ASSUME NEW c, Typed(c), Below(c), c.next > 0, NEW delivery \in Delivery,
           NEW d \in ProcessedDelivery(c, delivery)
    PROVE  Records(c, d)
<1>1. PICK batch : batch = <<delivery>>
  OBVIOUS
<1>2. PICK a : a = Admitted(c, batch)
  OBVIOUS
<1>3. PICK r : r = Target[delivery.body]
  OBVIOUS
<1>4. Acceptable(c, batch) /\ Valid(a)
  BY Zenon, <1>1, <1>2 DEF ProcessedDelivery
<1>5. PICK stepped \in Steps(a, r) :
         d = [stepped EXCEPT !.revision = c.revision + 1,
                             !.receipts = [s \in DOMAIN @ |->
                                IF s >= c.next THEN [@[s] EXCEPT !.rev = c.revision + 1]
                                ELSE @[s]]]
  BY Zenon, <1>1, <1>2, <1>3, <1>4 DEF ProcessedDelivery
<1>6. Records(c, a)
  <2>1. batch \in [1 .. 1 -> Delivery]
    BY <1>1
  <2>. QED
    BY <1>2, <2>1, AdmittedTyped
<1>7. Typed(a) /\ a.next > 0 /\ Below(a)
  <2>1. Typed(a) /\ a.next > 0
    BY <1>6 DEF Records, Typed
  <2>. QED
    BY <1>4, <2>1, ValidBelow DEF Valid
<1>8. Waiting(a, r, "ready") # {}
  BY <1>1, <1>2, <1>3, <1>4, AdmittedWaits
<1>9. Records(a, stepped)
  BY <1>7, <1>8, StepsTyped
<1>10. Records(c, stepped)
  BY <1>6, <1>9, RecordsAgain
<1>11. PICK after : after = Revised(stepped.receipts, c.next, c.revision + 1)
  OBVIOUS
<1>12. ReceiptsTyped(after) /\ Retains(c.receipts, after)
  BY <1>10, <1>11, RevisedTyped DEF Records, Typed, Below
<1>13. Shaped(stepped)
  BY <1>10 DEF Records, Typed
<1>14. d = [stepped EXCEPT !.revision = c.revision + 1, !.receipts = after]
  BY <1>5, <1>11, <1>13 DEF Shaped, Fields, Revised
<1>15. /\ d.root = stepped.root /\ d.rt = stepped.rt /\ d.mode = stepped.mode
       /\ d.cutoff = stepped.cutoff /\ d.revision = c.revision + 1 /\ d.next = stepped.next
       /\ d.nextAcc = stepped.nextAcc /\ d.nextQueue = stepped.nextQueue
       /\ d.nextFx = stepped.nextFx /\ d.mail = stepped.mail /\ d.receipts = after
       /\ d.tombstones = stepped.tombstones /\ Shaped(d)
  BY <1>13, <1>14 DEF Shaped, Fields
<1>16. d.revision \in Nat \cup {-1}
  BY <1>15 DEF Typed
<1>17. Typed(d)
  BY <1>10, <1>12, <1>15, <1>16 DEF Records, Typed
<1>. QED
  BY <1>10, <1>12, <1>15, <1>17 DEF Records

\* A migration writes its receipt and those of the entries it disposes of.
LEMMA MaintainedTyped ==
    ASSUME NEW c, Typed(c), Below(c), NEW d \in Maintenances(c)
    PROVE  Records(c, d)
<1>1. PICK op, D, S : /\ d = Maintained(c, op, D, S)
                      /\ D \subseteq DOMAIN c.mail /\ S \subseteq DOMAIN c.mail
  BY SMT DEF Maintenances
<1>2. PICK m : m = Mutated(c)
  OBVIOUS
<1>3. Records(c, m) /\ Below(m) /\ m.next = c.next
  BY <1>2, MutatedTyped
<1>4. /\ c.next \in Nat /\ c.nextQueue \in Nat /\ EntriesTyped(c.mail)
      /\ IsFiniteSet(D) /\ IsFiniteSet(S) /\ Cardinality(S) \in Nat
  BY <1>1, FS_Subset, FS_CardinalityType DEF Typed, EntriesTyped
<1>5. PICK mail : mail = Merge(Renumbered(c.mail, S, c.nextQueue), c.mail)
  OBVIOUS
<1>6. EntriesTyped(mail) /\ DOMAIN mail = DOMAIN c.mail
  <2>1. /\ EntriesTyped(Renumbered(c.mail, S, c.nextQueue))
        /\ DOMAIN Renumbered(c.mail, S, c.nextQueue) = S
    BY <1>1, <1>4, RenumberedTyped
  <2>. QED
    BY <1>1, <1>4, <1>5, <2>1, MergedEntries
<1>7. PICK gone : gone = Numbered(mail, D, c.next + 1)
  OBVIOUS
<1>8. DOMAIN gone \subseteq DOMAIN mail /\ Numbers(gone, m.next)
  <2>1. DOMAIN gone = D /\ Numbers(gone, c.next + 1)
    BY <1>4, <1>7, NumberedFacts
  <2>. QED
    BY <1>1, <1>3, <1>4, <1>6, <2>1 DEF Numbers
<1>9. PICK x : x = Receipt("maintenance_migration", op,
                           [body |-> Failure, acc |-> 0, queue |-> 0], c.revision + 1)
  OBVIOUS
<1>10. ReceiptTyped(x)
  <2>1. PICK entry : entry = [body |-> Failure, acc |-> 0, queue |-> 0]
    OBVIOUS
  <2>2. entry.body \in Bodies
    BY <2>1, CheckpointAssumption
  <2>3. x = Receipt("maintenance_migration", op, entry, c.revision + 1)
    BY <1>9, <2>1
  <2>. QED
    BY <2>2, <2>3 DEF Receipt, ReceiptTyped, IsReceipt, ReceiptFields, Kinds
<1>11. PICK own : own = [s \in {c.next} |-> x]
  OBVIOUS
<1>12. /\ ReceiptsTyped(own) /\ IsFiniteSet(DOMAIN own) /\ \A s \in DOMAIN own : s >= m.next
  <2>1. DOMAIN own = {c.next} /\ \A s \in DOMAIN own : own[s] = x
    BY <1>11
  <2>2. IsFiniteSet(DOMAIN own)
    BY <2>1, FS_Singleton
  <2>. QED
    BY <1>3, <1>4, <1>10, <2>1, <2>2 DEF ReceiptsTyped
<1>13. PICK e : e = Closed(m, mail, gone, own)
  OBVIOUS
<1>14. Records(m, e)
  BY <1>3, <1>6, <1>8, <1>12, <1>13, ClosedTyped DEF Records
<1>15. d = [e EXCEPT !.nextQueue = @ + Cardinality(S)]
  BY Zenon, <1>1, <1>2, <1>5, <1>7, <1>9, <1>11, <1>13 DEF Maintained
<1>16. /\ d.root = e.root /\ d.rt = e.rt /\ d.mode = e.mode /\ d.cutoff = e.cutoff
       /\ d.revision = e.revision /\ d.next = e.next /\ d.nextAcc = e.nextAcc
       /\ d.nextQueue = e.nextQueue + Cardinality(S) /\ d.nextFx = e.nextFx
       /\ d.mail = e.mail /\ d.receipts = e.receipts /\ d.tombstones = e.tombstones
       /\ Shaped(d)
  BY <1>14, <1>15 DEF Records, Typed, Shaped, Fields
<1>17. Records(e, d)
  <2>1. d.nextQueue \in Nat /\ d.next >= e.next
    BY <1>4, <1>14, <1>16 DEF Records, Typed
  <2>2. Retains(e.receipts, d.receipts)
    BY <1>16 DEF Retains, SaysSame
  <2>3. Typed(d)
    BY <1>14, <1>16, <2>1 DEF Records, Typed
  <2>. QED
    BY <1>16, <2>1, <2>2, <2>3 DEF Records
<1>. QED
  BY <1>3, <1>14, <1>17, RecordsAgain DEF Records

\* A tombstone writes the terminal receipts of all that waits.
LEMMA TombstonedTyped ==
    ASSUME NEW c, Typed(c), Below(c), NEW op
    PROVE  Records(c, Tombstoned(c, op))
<1>1. PICK m : m = Mutated(c)
  OBVIOUS
<1>2. Records(c, m) /\ Below(m) /\ m.next = c.next
  BY <1>1, MutatedTyped
<1>3. c.next \in Nat /\ EntriesTyped(c.mail)
  BY DEF Typed
<1>4. PICK gone : gone = Numbered(c.mail, DOMAIN c.mail, c.next)
  OBVIOUS
<1>5. DOMAIN gone \subseteq DOMAIN c.mail /\ Numbers(gone, m.next)
  BY <1>2, <1>3, <1>4, NumberedFacts DEF EntriesTyped
<1>6. PICK none : none = <<>>
  OBVIOUS
<1>7. DOMAIN none = {}
  BY <1>6
<1>8. ReceiptsTyped(none) /\ IsFiniteSet(DOMAIN none)
  BY <1>7, FS_EmptySet DEF ReceiptsTyped
<1>9. PICK e : e = Closed(m, c.mail, gone, none)
  OBVIOUS
<1>10. Records(m, e)
  BY <1>2, <1>3, <1>5, <1>7, <1>8, <1>9, ClosedTyped DEF Records
<1>11. PICK d : d = [e EXCEPT !.root = "tombstone", !.operation = op]
  OBVIOUS
<1>12. d = Tombstoned(c, op)
  BY Zenon, <1>1, <1>4, <1>6, <1>9, <1>11 DEF Tombstoned
<1>13. /\ d.root = "tombstone" /\ d.rt = e.rt /\ d.mode = e.mode /\ d.cutoff = e.cutoff
       /\ d.revision = e.revision /\ d.next = e.next /\ d.nextAcc = e.nextAcc
       /\ d.nextQueue = e.nextQueue /\ d.nextFx = e.nextFx
       /\ d.mail = e.mail /\ d.receipts = e.receipts /\ d.tombstones = e.tombstones
       /\ Shaped(d)
  BY <1>10, <1>11 DEF Records, Typed, Shaped, Fields
<1>14. Records(e, d)
  <2>1. d.next >= e.next
    BY <1>10, <1>13 DEF Records, Typed
  <2>2. Retains(e.receipts, d.receipts)
    BY <1>13 DEF Retains, SaysSame
  <2>3. Typed(d)
    BY <1>10, <1>13 DEF Records, Typed
  <2>. QED
    BY <1>13, <2>1, <2>2, <2>3 DEF Records
<1>. QED
  BY <1>2, <1>10, <1>12, <1>14, RecordsAgain DEF Records

\* d differs from c in revision and outbox only.
OutboxOnly(c, d) ==
    /\ Shaped(d) /\ d.root = c.root /\ d.rt = c.rt /\ d.mode = c.mode /\ d.cutoff = c.cutoff
    /\ d.revision = c.revision + 1 /\ d.next = c.next /\ d.nextAcc = c.nextAcc
    /\ d.nextQueue = c.nextQueue /\ d.nextFx \in {c.nextFx, c.nextFx + 1}
    /\ d.mail = c.mail /\ d.receipts = c.receipts /\ d.tombstones = c.tombstones

\* A change of the outbox writes no receipt and keeps them all.
LEMMA OutboxTyped ==
    ASSUME NEW c, Typed(c), NEW d, OutboxOnly(c, d)
    PROVE  Records(c, d)
<1>1. d.revision \in Nat \cup {-1} /\ d.nextFx \in Nat /\ d.next >= c.next
  BY DEF Typed, OutboxOnly
<1>2. Retains(c.receipts, d.receipts)
  BY DEF OutboxOnly, Retains, SaysSame
<1>3. Typed(d)
  BY <1>1 DEF OutboxOnly, Typed
<1>. QED
  BY <1>1, <1>2, <1>3 DEF OutboxOnly, Records

\* Reports, outcomes and compaction change the outbox only.
LEMMA OutboxOperations ==
    ASSUME NEW c, Shaped(c), NEW f, NEW outcome
    PROVE  /\ OutboxOnly(c, Attempted(c, f))
           /\ OutboxOnly(c, Terminalized(c, f, outcome))
           /\ OutboxOnly(c, Compacted(c, f))
<1>1. PICK m : m = Mutated(c)
  OBVIOUS
<1>2. /\ Shaped(m) /\ m.root = c.root /\ m.rt = c.rt /\ m.mode = c.mode /\ m.cutoff = c.cutoff
      /\ m.revision = c.revision + 1 /\ m.next = c.next /\ m.nextAcc = c.nextAcc
      /\ m.nextQueue = c.nextQueue /\ m.nextFx = c.nextFx
      /\ m.mail = c.mail /\ m.receipts = c.receipts /\ m.tombstones = c.tombstones
  BY <1>1 DEF Mutated, Shaped, Fields
<1>3. OutboxOnly(c, Attempted(c, f))
  <2>1. PICK d : d = Attempted(c, f)
    OBVIOUS
  <2>2. d = [m EXCEPT !.pendingFx[f] = "attempted"]
    BY <1>1, <2>1 DEF Attempted
  <2>. QED
    BY <1>2, <2>1, <2>2 DEF Shaped, Fields, OutboxOnly
<1>4. OutboxOnly(c, Terminalized(c, f, outcome))
  <2>1. PICK d : d = Terminalized(c, f, outcome)
    OBVIOUS
  <2>2. PICK pending, terminal, next :
           /\ d = [m EXCEPT !.pendingFx = pending, !.terminalFx = terminal, !.nextFx = next]
           /\ next = m.nextFx + 1
    <3>1. d = [m EXCEPT !.pendingFx = Restrict(@, DOMAIN @ \ {f}),
                        !.terminalFx = Merge([g \in {f} |-> [seq |-> c.nextFx,
                                                             outcome |-> outcome]], @),
                        !.nextFx = @ + 1]
      BY Zenon, <1>1, <2>1 DEF Terminalized
    <3>2. DOMAIN m = Fields
      BY <1>2 DEF Shaped
    <3>. QED
      BY <3>1, <3>2 DEF Fields
  <2>3. /\ Shaped(d) /\ d.root = m.root /\ d.rt = m.rt /\ d.mode = m.mode
        /\ d.cutoff = m.cutoff /\ d.revision = m.revision /\ d.next = m.next
        /\ d.nextAcc = m.nextAcc /\ d.nextQueue = m.nextQueue /\ d.nextFx = next
        /\ d.mail = m.mail /\ d.receipts = m.receipts /\ d.tombstones = m.tombstones
    BY <1>2, <2>2 DEF Shaped, Fields
  <2>4. OutboxOnly(c, d)
    BY <1>2, <2>2, <2>3 DEF OutboxOnly
  <2>. QED
    BY <2>1, <2>4
<1>5. OutboxOnly(c, Compacted(c, f))
  <2>1. PICK d : d = Compacted(c, f)
    OBVIOUS
  <2>2. PICK terminal, tombstones :
           d = [m EXCEPT !.terminalFx = terminal, !.tombstoneFx = tombstones]
    <3>1. d = [m EXCEPT !.terminalFx = Restrict(@, DOMAIN @ \ {f}),
                        !.tombstoneFx = Merge([g \in {f} |-> c.terminalFx[f]], @)]
      BY Zenon, <1>1, <2>1 DEF Compacted
    <3>. QED
      BY <3>1, Zenon
  <2>3. /\ Shaped(d) /\ d.root = m.root /\ d.rt = m.rt /\ d.mode = m.mode
        /\ d.cutoff = m.cutoff /\ d.revision = m.revision /\ d.next = m.next
        /\ d.nextAcc = m.nextAcc /\ d.nextQueue = m.nextQueue /\ d.nextFx = m.nextFx
        /\ d.mail = m.mail /\ d.receipts = m.receipts /\ d.tombstones = m.tombstones
    BY <1>2, <2>2 DEF Shaped, Fields
  <2>4. OutboxOnly(c, d)
    BY <1>2, <2>2, <2>3 DEF OutboxOnly
  <2>. QED
    BY <2>1, <2>4
<1>. QED
  BY <1>3, <1>4, <1>5

\* d is c in the bounded mode, with some receipts removed and, it may be,
\* tombstones added for them.
Trims(c, d, cutoff) ==
    /\ Typed(d) /\ d.mode = "bounded" /\ d.next = c.next /\ d.root = c.root /\ d.mail = c.mail
    /\ d.receipts = Restrict(c.receipts, DOMAIN c.receipts \ Through(c, cutoff))

\* Fewer receipts are receipts.
LEMMA TrimmedTyped ==
    ASSUME NEW receipts, ReceiptsTyped(receipts), NEW D
    PROVE  ReceiptsTyped(Restrict(receipts, DOMAIN receipts \ D))
  BY DEF ReceiptsTyped, Restrict

\* What is kept of a terminal receipt is its body.
LEMMA CompactTyped ==
    ASSUME NEW c, Typed(c), NEW removed
    PROVE  \A e \in DOMAIN Compact(c, removed) :
              /\ Compact(c, removed)[e].body \in Bodies
              /\ \E s \in removed : /\ s \in TerminalOf(c, e)
                                    /\ Compact(c, removed)[e].body = c.receipts[s].body
<1>1. PICK settled : settled = removed \cap OfKind(c, "event_terminal")
  OBVIOUS
<1>2. PICK compact : compact = Compact(c, removed)
  OBVIOUS
<1>3. DOMAIN compact = {c.receipts[s].id : s \in settled}
  BY <1>1, <1>2 DEF Compact
<1>4. ASSUME NEW e \in DOMAIN compact
      PROVE  /\ compact[e].body \in Bodies
             /\ \E s \in removed : s \in TerminalOf(c, e) /\ compact[e].body = c.receipts[s].body
  <2>1. PICK s : s = CHOOSE x \in settled : c.receipts[x].id = e
    OBVIOUS
  <2>2. \E x \in settled : c.receipts[x].id = e
    BY <1>3, <1>4
  <2>3. s \in settled /\ c.receipts[s].id = e
    BY <2>1, <2>2, Zenon
  <2>4. compact[e] = [body |-> c.receipts[s].body, acc |-> c.receipts[s].acc, seq |-> s]
    BY Zenon, <1>1, <1>2, <1>3, <1>4, <2>1 DEF Compact
  <2>5. s \in removed /\ s \in TerminalOf(c, e) /\ s \in DOMAIN c.receipts
    BY <1>1, <2>3 DEF TerminalOf, OfKind
  <2>6. c.receipts[s].body \in Bodies
    BY <2>5 DEF Typed, ReceiptsTyped, ReceiptTyped
  <2>. QED
    BY <2>4, <2>5, <2>6
<1>. QED
  BY <1>2, <1>4

\* Pruning trims.
LEMMA PrunedTyped ==
    ASSUME NEW c, Typed(c), NEW cutoff \in Nat
    PROVE  LET d == Pruned(c, cutoff)
           IN /\ Trims(c, d, cutoff)
              /\ d.tombstones = Merge(Compact(c, Through(c, cutoff)), c.tombstones)
<1>1. PICK m : m = Mutated(c)
  OBVIOUS
<1>2. /\ Shaped(m) /\ m.root = c.root /\ m.rt = c.rt
      /\ m.revision = c.revision + 1 /\ m.next = c.next /\ m.nextAcc = c.nextAcc
      /\ m.nextQueue = c.nextQueue /\ m.nextFx = c.nextFx
      /\ m.mail = c.mail /\ m.receipts = c.receipts /\ m.tombstones = c.tombstones
  BY <1>1 DEF Mutated, Typed, Shaped, Fields
<1>3. PICK compact, removed : compact = Compact(c, removed) /\ removed = Through(c, cutoff)
  OBVIOUS
<1>4. PICK d : d = Pruned(c, cutoff)
  OBVIOUS
<1>5. d = [m EXCEPT !.mode = "bounded", !.cutoff = cutoff,
                    !.receipts = Restrict(@, DOMAIN @ \ removed),
                    !.tombstones = Merge(compact, @)]
  BY Zenon, <1>1, <1>3, <1>4 DEF Pruned
<1>6. /\ Shaped(d) /\ d.root = m.root /\ d.rt = m.rt /\ d.mode = "bounded" /\ d.cutoff = cutoff
      /\ d.revision = m.revision /\ d.next = m.next /\ d.nextAcc = m.nextAcc
      /\ d.nextQueue = m.nextQueue /\ d.nextFx = m.nextFx /\ d.mail = m.mail
      /\ d.receipts = Restrict(m.receipts, DOMAIN m.receipts \ removed)
      /\ d.tombstones = Merge(compact, m.tombstones)
  BY <1>2, <1>5 DEF Shaped, Fields
<1>7. ReceiptsTyped(d.receipts)
  BY <1>2, <1>6, TrimmedTyped DEF Typed
<1>8. \A e \in DOMAIN d.tombstones : d.tombstones[e].body \in Bodies
  <2>1. \A e \in DOMAIN compact : compact[e].body \in Bodies
    BY <1>3, CompactTyped
  <2>. QED
    BY <1>2, <1>6, <2>1 DEF Merge, Typed
<1>9. d.revision \in Nat \cup {-1}
  BY <1>2, <1>6 DEF Typed
<1>10. Typed(d)
  BY <1>2, <1>6, <1>7, <1>8, <1>9 DEF Typed
<1>. QED
  BY <1>2, <1>3, <1>4, <1>6, <1>10 DEF Trims

\* A retention cut trims.
LEMMA CutTyped ==
    ASSUME NEW c, Typed(c), NEW cutoff \in Nat \cup {None}
    PROVE  Trims(c, Cut(c, cutoff), cutoff) /\ Cut(c, cutoff).tombstones = c.tombstones
<1>1. PICK m : m = Mutated(c)
  OBVIOUS
<1>2. /\ Shaped(m) /\ m.root = c.root /\ m.rt = c.rt
      /\ m.revision = c.revision + 1 /\ m.next = c.next /\ m.nextAcc = c.nextAcc
      /\ m.nextQueue = c.nextQueue /\ m.nextFx = c.nextFx
      /\ m.mail = c.mail /\ m.receipts = c.receipts /\ m.tombstones = c.tombstones
  BY <1>1 DEF Mutated, Typed, Shaped, Fields
<1>3. PICK receipts : receipts = Restrict(c.receipts, DOMAIN c.receipts \ Through(c, cutoff))
  OBVIOUS
<1>4. PICK d : d = Cut(c, cutoff)
  OBVIOUS
<1>5. PICK terminal, tombstones :
         d = [m EXCEPT !.mode = "bounded", !.cutoff = cutoff, !.receipts = receipts,
                       !.terminalFx = terminal, !.tombstoneFx = tombstones]
  <2>1. d = [m EXCEPT !.mode = "bounded", !.cutoff = cutoff, !.receipts = receipts,
                      !.terminalFx = IF cutoff = None THEN @
                                     ELSE Restrict(@, DOMAIN @ \cap EffectsOf(receipts)),
                      !.tombstoneFx = IF cutoff = None THEN @
                                      ELSE Restrict(@, DOMAIN @ \cap EffectsOf(receipts))]
    BY Zenon, <1>1, <1>3, <1>4 DEF Cut
  <2>. QED
    BY <2>1, Zenon
<1>6. /\ Shaped(d) /\ d.root = m.root /\ d.rt = m.rt /\ d.mode = "bounded" /\ d.cutoff = cutoff
      /\ d.revision = m.revision /\ d.next = m.next /\ d.nextAcc = m.nextAcc
      /\ d.nextQueue = m.nextQueue /\ d.nextFx = m.nextFx /\ d.mail = m.mail
      /\ d.receipts = receipts /\ d.tombstones = m.tombstones
  BY <1>2, <1>5 DEF Shaped, Fields
<1>7. ReceiptsTyped(d.receipts)
  BY <1>3, <1>6, TrimmedTyped DEF Typed
<1>8. d.revision \in Nat \cup {-1}
  BY <1>2, <1>6 DEF Typed
<1>9. Typed(d)
  BY <1>2, <1>6, <1>7, <1>8 DEF Typed
<1>. QED
  BY <1>2, <1>3, <1>4, <1>6, <1>9 DEF Trims

\* The record has its shape, and what comes before the creation is empty.
Recorded ==
    /\ Typed(cp) /\ Below(cp)
    /\ Present => cp.next > 0
    /\ ~Present => DOMAIN cp.receipts = {} /\ DOMAIN cp.mail = {} /\ DOMAIN cp.tombstones = {}

Created == ~Present /\ Typed(cp') /\ cp'.next > 0

\* Pruning keeps tombstones of the terminal receipts it removes.
PrunesTo(cutoff) ==
    /\ Trims(cp, cp', cutoff)
    /\ DependencyClosed(cp, Through(cp, cutoff))
    /\ cp'.tombstones = Merge(Compact(cp, Through(cp, cutoff)), cp.tombstones)

CutsTo(cutoff) == Trims(cp, cp', cutoff) /\ cp'.tombstones = cp.tombstones

\* Receipts are removed by pruning and by a retention cut, and by no host whose
\* store claims to keep them.
Documents ==
    /\ Valid(cp') /\ cp'.root # "none"
    /\ \/ Created
       \/ Present /\ Records(cp, cp')
       \/ Present /\ ~KeepsReceipts /\ \E cutoff \in Nat : PrunesTo(cutoff)
       \/ Present /\ ~KeepsReceipts /\ \E cutoff \in Cutoffs : CutsTo(cutoff)

\* What a store that keeps receipts does not commit.
LEMMA StagePermanent ==
    ASSUME NEW candidate, Stage(candidate), candidate.mode = "bounded"
    PROVE  ~KeepsReceipts
<1>1. KeepsReceipts => candidate.mode = "permanent"
  BY Zenon DEF Stage
<1>. QED
  BY <1>1

\* Every operation commits in one of these ways.
LEMMA NextDocuments ==
    ASSUME Stored, Recorded, Next
    PROVE  Documents
<1>. USE DEF Recorded
<1>0. Valid(cp') /\ cp'.root # "none"
  <2>1. Commit
    BY NextCommits
  <2>. QED
    BY <2>1 DEF Commit, SameWork, Present
<1>1. ASSUME Create PROVE Documents
  <2>1. PICK d \in Creations : Stage(d)
    BY <1>1 DEF Create
  <2>2. cp' = d /\ ~Present
    BY <1>1, <2>1, StageStored DEF Create, Present
  <2>. QED
    BY <1>0, <2>2, CreationsTyped DEF Documents, Created
<1>2. ASSUME NEW batch \in Batches, Admit(batch) PROVE Documents
  <2>1. cp.root = "retained" /\ Stage(Admitted(cp, batch))
    BY Zenon, <1>2 DEF Admit, Acceptable
  <2>2. cp' = Admitted(cp, batch)
    BY <2>1, StageStored
  <2>3. PICK n \in 1 .. MaxBatch : batch \in [1 .. n -> Delivery]
    BY DEF Batches
  <2>4. n \in Nat
    BY <2>3, CheckpointAssumption
  <2>5. Records(cp, cp')
    BY <2>2, <2>3, <2>4, AdmittedTyped
  <2>. QED
    BY <1>0, <2>1, <2>5 DEF Documents, Present
<1>3. ASSUME NEW r, ProcessReady(r) PROVE Documents
  <2>1. PICK d \in Steps(cp, r) : Stage(d)
    BY Zenon, <1>3 DEF ProcessReady
  <2>2. cp.root = "retained" /\ Waiting(cp, r, "ready") # {}
    BY Zenon, <1>3 DEF ProcessReady, Runnable
  <2>3. Records(cp, d)
    BY <2>2, StepsTyped
  <2>. QED
    BY <1>0, <2>1, <2>2, <2>3, StageStored DEF Documents, Present
<1>4. ASSUME NEW delivery \in Delivery, ProcessDelivery(delivery) PROVE Documents
  <2>1. PICK d \in ProcessedDelivery(cp, delivery) : Stage(d)
    BY Zenon, <1>4 DEF ProcessDelivery
  <2>2. cp.root = "retained"
    BY ProcessedShape DEF Stored
  <2>3. Records(cp, d)
    BY <2>2, ProcessedTyped DEF Present
  <2>. QED
    BY <1>0, <2>1, <2>2, <2>3, StageStored DEF Documents, Present
<1>5. ASSUME MaintenanceMigration PROVE Documents
  <2>1. PICK d \in Maintenances(cp) : Stage(d)
    BY Zenon, <1>5 DEF MaintenanceMigration
  <2>2. cp.root = "retained"
    BY Zenon, <1>5 DEF MaintenanceMigration
  <2>3. Records(cp, d)
    BY MaintainedTyped
  <2>. QED
    BY <1>0, <2>1, <2>2, <2>3, StageStored DEF Documents, Present
<1>6. ASSUME NEW op, TombstoneRoot(op) PROVE Documents
  <2>1. cp.root = "retained" /\ Stage(Tombstoned(cp, op))
    BY Zenon, <1>6 DEF TombstoneRoot, MayTombstone
  <2>2. cp' = Tombstoned(cp, op)
    BY <2>1, StageStored
  <2>3. Records(cp, cp')
    BY <2>2, TombstonedTyped
  <2>. QED
    BY <1>0, <2>1, <2>3 DEF Documents, Present
<1>7. ASSUME NEW d, Stage(d), OutboxOnly(cp, d), Present PROVE Documents
  <2>1. cp' = d
    BY <1>7, StageStored
  <2>2. Records(cp, cp')
    BY <1>7, <2>1, OutboxTyped
  <2>. QED
    BY <1>0, <1>7, <2>2 DEF Documents
<1>8. ASSUME NEW f, UpdatePendingOutbox(f) PROVE Documents
  <2>1. f \in DOMAIN cp.pendingFx /\ Stage(Attempted(cp, f))
    BY Zenon, <1>8 DEF UpdatePendingOutbox
  <2>2. Present
    BY <2>1, EmptyMap DEF Present, Stored
  <2>. QED
    BY <1>7, <2>1, <2>2, OutboxOperations DEF Stored
<1>9. ASSUME NEW f, NEW outcome, TerminalizeOutbox(f, outcome) PROVE Documents
  <2>1. f \in DOMAIN cp.pendingFx /\ Stage(Terminalized(cp, f, outcome))
    BY Zenon, <1>9 DEF TerminalizeOutbox
  <2>2. Present
    BY <2>1, EmptyMap DEF Present, Stored
  <2>. QED
    BY <1>7, <2>1, <2>2, OutboxOperations DEF Stored
<1>10. ASSUME NEW f, CompactOutbox(f) PROVE Documents
  <2>1. f \in DOMAIN cp.terminalFx /\ Stage(Compacted(cp, f))
    BY Zenon, <1>10 DEF CompactOutbox
  <2>2. Present
    BY <2>1, EmptyMap DEF Present, Stored
  <2>. QED
    BY <1>7, <2>1, <2>2, OutboxOperations DEF Stored
<1>11. ASSUME NEW cutoff \in 0 .. cp.next, Prune(cutoff) PROVE Documents
  <2>1. Present /\ DependencyClosed(cp, Through(cp, cutoff)) /\ Stage(Pruned(cp, cutoff))
    BY Zenon, <1>11 DEF Prune, Prunable, Present
  <2>2. cp' = Pruned(cp, cutoff) /\ cutoff \in Nat
    BY <2>1, StageStored DEF Typed
  <2>3. /\ Trims(cp, cp', cutoff)
        /\ cp'.tombstones = Merge(Compact(cp, Through(cp, cutoff)), cp.tombstones)
    BY <2>2, PrunedTyped
  <2>4. ~KeepsReceipts
    BY <2>1, <2>2, <2>3, StagePermanent DEF Trims
  <2>5. PrunesTo(cutoff)
    BY <2>1, <2>3 DEF PrunesTo
  <2>. QED
    BY <1>0, <2>1, <2>2, <2>4, <2>5 DEF Documents
<1>12. ASSUME NEW cutoff \in Cutoffs, UpdateReplayRetention(cutoff) PROVE Documents
  <2>1. Present /\ Stage(Cut(cp, cutoff))
    BY Zenon, <1>12 DEF UpdateReplayRetention
  <2>2. cp' = Cut(cp, cutoff) /\ cutoff \in Nat \cup {None}
    BY <2>1, StageStored, HostAssumption
  <2>3. Trims(cp, cp', cutoff) /\ cp'.tombstones = cp.tombstones
    BY <2>2, CutTyped
  <2>4. ~KeepsReceipts
    BY <2>1, <2>2, <2>3, StagePermanent DEF Trims
  <2>5. CutsTo(cutoff)
    BY <2>3 DEF CutsTo
  <2>. QED
    BY <1>0, <2>1, <2>4, <2>5 DEF Documents
<1>. QED
  BY <1>1, <1>2, <1>3, <1>4, <1>5, <1>6, <1>8, <1>9, <1>10, <1>11, <1>12 DEF Next

\* The record has its shape: the invariant behind the theorems that follow.
THEOREM RecordedInvariant == Spec => []Recorded
<1>1. Init => Recorded
  <2>1. Blank.root = "none" /\ Blank.receipts = <<>> /\ Blank.mail = <<>> /\ Blank.tombstones = <<>>
    BY DEF Blank
  <2>. QED
    BY <2>1, BlankTyped, EmptyMap DEF Init, Recorded, Present
<1>2. Stored /\ Recorded /\ [Next]_cp => Recorded'
  <2>1. ASSUME Stored, Recorded, Next PROVE Recorded'
    <3>1. Documents
      BY <2>1, NextDocuments
    <3>2. Typed(cp') /\ cp'.next > 0
      <4>1. CASE Created
        BY <4>1 DEF Created
      <4>2. CASE Present /\ Records(cp, cp')
        <5>1. Typed(cp') /\ cp'.next >= cp.next /\ cp.next > 0
          BY <2>1, <4>2 DEF Records, Recorded
        <5>2. cp.next \in Nat /\ cp'.next \in Nat
          BY <2>1, <5>1 DEF Recorded, Typed
        <5>. QED
          BY <5>1, <5>2
      <4>3. CASE Present /\ \E cutoff : Trims(cp, cp', cutoff)
        BY <2>1, <4>3 DEF Trims, Recorded
      <4>. QED
        BY <3>1, <4>1, <4>2, <4>3 DEF Documents, PrunesTo, CutsTo
    <3>3. Below(cp')
      BY <3>1, <3>2, ValidBelow DEF Documents, Valid
    <3>. QED
      BY <3>1, <3>2, <3>3 DEF Recorded, Present, Documents
  <2>2. Recorded /\ UNCHANGED cp => Recorded'
    BY Zenon DEF Recorded, Present
  <2>. QED
    BY <2>1, <2>2
<1>. QED
  BY <1>1, <1>2, StoredInvariant, PTL DEF Spec

\* The stored record has the fields and the values the host reads.
THEOREM TypeCorrect == Spec => []TypeOK
<1>1. Recorded => TypeOK
  BY DEF Recorded, Typed, TypeOK, EntriesTyped, ReceiptsTyped, ReceiptTyped
<1>. QED
  BY <1>1, RecordedInvariant, PTL

\* What EvidenceKept allows to happen to the receipts known before a step.
KeepsEvidence ==
    KeepsReceipts =>
       /\ DOMAIN cp.receipts \subseteq DOMAIN cp'.receipts
       /\ \A s \in DOMAIN cp.receipts :
             [cp.receipts[s] EXCEPT !.refs = {}] = [cp'.receipts[s] EXCEPT !.refs = {}]

\* Receipts that say the same are equal but for their references.
LEMMA SameButReferences ==
    ASSUME NEW x, IsReceipt(x), NEW y, IsReceipt(y), SaysSame(y, x)
    PROVE  [x EXCEPT !.refs = {}] = [y EXCEPT !.refs = {}]
  BY DEF IsReceipt, ReceiptFields, SaysSame

\* Retained receipts are the receipts they were.
LEMMA RetainedEvidence ==
    ASSUME NEW f, NEW g, ReceiptsTyped(f), ReceiptsTyped(g), Retains(f, g)
    PROVE  /\ DOMAIN f \subseteq DOMAIN g
           /\ \A s \in DOMAIN f : [f[s] EXCEPT !.refs = {}] = [g[s] EXCEPT !.refs = {}]
<1>1. ASSUME NEW s \in DOMAIN f
      PROVE  [f[s] EXCEPT !.refs = {}] = [g[s] EXCEPT !.refs = {}]
  <2>1. PICK x, y : x = f[s] /\ y = g[s]
    OBVIOUS
  <2>2. IsReceipt(x) /\ IsReceipt(y) /\ SaysSame(y, x)
    BY <2>1 DEF ReceiptsTyped, ReceiptTyped, Retains
  <2>. QED
    BY <2>1, <2>2, SameButReferences
<1>. QED
  BY <1>1 DEF Retains

\* A store that claims permanent receipt retention loses no receipt and alters
\* none, whichever operation the host is called with (host.py:1410).
THEOREM EvidenceAlwaysKept == Spec => EvidenceKept
<1>1. ASSUME Stored, Recorded, Next PROVE KeepsEvidence
  <2>1. Documents
    BY <1>1, NextDocuments
  <2>2. CASE Created
    BY <1>1, <2>2 DEF Created, Recorded, KeepsEvidence
  <2>3. CASE Records(cp, cp')
    <3>1. ReceiptsTyped(cp.receipts) /\ ReceiptsTyped(cp'.receipts)
      BY <1>1, <2>3 DEF Recorded, Records, Typed
    <3>. QED
      BY <2>3, <3>1, RetainedEvidence DEF Records, KeepsEvidence
  <2>4. CASE ~KeepsReceipts
    BY <2>4 DEF KeepsEvidence
  <2>. QED
    BY <2>1, <2>2, <2>3, <2>4 DEF Documents
<1>2. Stored /\ Recorded /\ [Next]_cp => [KeepsEvidence]_cp
  BY <1>1
<1>. QED
  BY <1>2, StoredInvariant, RecordedInvariant, PTL DEF Spec, EvidenceKept, KeepsEvidence

-----------------------------------------------------------------------------
(* The inbox.                                                              *)

Queued(c, e) == e \in DOMAIN c.mail

Done(c, e) == TerminalOf(c, e) # {} \/ e \in DOMAIN c.tombstones

FateOf(c, e) == CASE Queued(c, e) -> "queued" [] Done(c, e) -> "done" [] OTHER -> "new"

\* The records of a checkpoint agree on an id: it waits, or has one terminal
\* receipt, or a tombstone, and only that is left to compare a retry with.
Agree(c, e) ==
    /\ Queued(c, e) => ~Done(c, e) /\ Known(c, e) = {c.mail[e].body} /\ c.mail[e].body \in Bodies
    /\ \A s \in TerminalOf(c, e) :
          /\ ~Queued(c, e) /\ e \notin DOMAIN c.tombstones
          /\ Known(c, e) = {c.receipts[s].body} /\ c.receipts[s].body \in Bodies
    /\ e \in DOMAIN c.tombstones =>
          /\ ~Queued(c, e) /\ TerminalOf(c, e) = {}
          /\ Known(c, e) = {c.tombstones[e].body} /\ c.tombstones[e].body \in Bodies
    /\ ~Queued(c, e) /\ ~Done(c, e) => Known(c, e) = {}

\* What is left of an id when it waits nowhere, is in no receipt, or both.
LEMMA KnownParts ==
    ASSUME NEW c, NEW e
    PROVE  /\ ~Done(c, e) => Known(c, e) = IF Queued(c, e) THEN {c.mail[e].body} ELSE {}
           /\ ~Queued(c, e) /\ e \notin DOMAIN c.tombstones =>
                 Known(c, e) = {c.receipts[s].body : s \in TerminalOf(c, e)}
           /\ ~Queued(c, e) /\ TerminalOf(c, e) = {} /\ e \in DOMAIN c.tombstones =>
                 Known(c, e) = {c.tombstones[e].body}
<1>1. PICK T : T = TerminalOf(c, e)
  OBVIOUS
<1>2. PICK bodies : bodies = {c.receipts[s].body : s \in T}
  OBVIOUS
<1>3. Known(c, e) = (IF Queued(c, e) THEN {c.mail[e].body} ELSE {}) \cup bodies
                    \cup (IF e \in DOMAIN c.tombstones THEN {c.tombstones[e].body} ELSE {})
  BY <1>1, <1>2 DEF Known, Queued
<1>4. T = {} => bodies = {}
  BY <1>2
<1>. QED
  BY <1>1, <1>2, <1>3, <1>4 DEF Done

\* The checks of a restoration make the records agree.
LEMMA ValidAgrees ==
    ASSUME NEW c, Typed(c), Valid(c), NEW e
    PROVE  Agree(c, e)
<1>1. PendingValid(c) /\ TerminalsValid(c) /\ TombstonesValid(c)
  BY Zenon DEF Valid, SemanticsValid
<1>2. Queued(c, e) => TerminalOf(c, e) = {}
  BY Zenon, <1>1 DEF PendingValid, Queued
<1>3. e \in DOMAIN c.tombstones => ~Queued(c, e) /\ TerminalOf(c, e) = {}
  BY <1>1 DEF TombstonesValid, Queued
<1>4. ASSUME NEW s \in TerminalOf(c, e)
      PROVE  TerminalOf(c, e) = {s} /\ c.receipts[s].body \in Bodies
  <2>1. s \in OfKind(c, "event_terminal") /\ c.receipts[s].id = e /\ s \in DOMAIN c.receipts
    BY DEF TerminalOf, OfKind
  <2>2. TerminalOf(c, c.receipts[s].id) = {s}
    BY Zenon, <1>1, <2>1 DEF TerminalsValid
  <2>3. c.receipts[s].body \in Bodies
    BY <2>1 DEF Typed, ReceiptsTyped, ReceiptTyped
  <2>. QED
    BY <2>1, <2>2, <2>3
<1>5. Queued(c, e) => c.mail[e].body \in Bodies
  BY DEF Queued, Typed, EntriesTyped, Entry
<1>6. e \in DOMAIN c.tombstones => c.tombstones[e].body \in Bodies
  BY DEF Typed
<1>7. ASSUME NEW s \in TerminalOf(c, e)
      PROVE  /\ ~Queued(c, e) /\ e \notin DOMAIN c.tombstones
             /\ Known(c, e) = {c.receipts[s].body}
  <2>1. ~Queued(c, e) /\ e \notin DOMAIN c.tombstones
    BY <1>2, <1>3, <1>7
  <2>2. Known(c, e) = {c.receipts[x].body : x \in {s}}
    BY <1>4, <2>1, KnownParts
  <2>. QED
    BY <2>1, <2>2
<1>8. Queued(c, e) => ~Done(c, e) /\ Known(c, e) = {c.mail[e].body}
  BY <1>2, <1>3, KnownParts DEF Done
<1>9. e \in DOMAIN c.tombstones => Known(c, e) = {c.tombstones[e].body}
  BY <1>3, KnownParts
<1>10. ~Queued(c, e) /\ ~Done(c, e) => Known(c, e) = {}
  BY KnownParts
<1>. QED
  BY <1>3, <1>4, <1>5, <1>6, <1>7, <1>8, <1>9, <1>10 DEF Agree

\* An id a caller chose waits on the evidence of its acceptance, for no step
\* emits under such an id.
LEMMA CallersAccepted ==
    ASSUME Events \cap (Nat \X Nat) = {}, NEW c, Typed(c), Valid(c),
           NEW e \in Events, Queued(c, e)
    PROVE  \E s \in AcceptanceOf(c, e) : c.receipts[s].body = c.mail[e].body
<1>1. PendingValid(c)
  BY Zenon DEF Valid, SemanticsValid
<1>2. PICK accepted, produced : /\ accepted = AcceptanceOf(c, e)
                                /\ produced = ProducerOf(c, e, "internal_mailbox")
  OBVIOUS
<1>3. /\ Cardinality(accepted) + Cardinality(produced) = 1
      /\ \A s \in accepted : c.receipts[s].body = c.mail[e].body
  BY Zenon, <1>1, <1>2 DEF PendingValid, Queued
<1>4. produced = {}
  <2>1. ASSUME NEW p \in produced PROVE FALSE
    <3>1. PICK s \in DOMAIN c.receipts : \E x \in c.receipts[s].refs : x.id = e
      BY <1>2, <2>1 DEF ProducerOf
    <3>2. c.receipts[s].refs \subseteq Reference
      BY <3>1 DEF Typed, ReceiptsTyped, ReceiptTyped
    <3>3. e \in Nat \X Nat
      BY <3>1, <3>2 DEF Reference
    <3>. QED
      BY <3>3
  <2>. QED
    BY <2>1
<1>5. accepted # {}
  <2>1. SUFFICES ASSUME accepted = {} PROVE FALSE
    OBVIOUS
  <2>2. Cardinality(accepted) = 0 /\ Cardinality(produced) = 0
    BY <1>4, <2>1, FS_EmptySet
  <2>. QED
    BY <1>3, <2>2
<1>. QED
  BY <1>2, <1>3, <1>5

\* An id goes forward, and what a retry of it is compared with stays.
Progresses(c, d, e) ==
    /\ Queued(c, e) => Queued(d, e) \/ Done(d, e)
    /\ Done(c, e) => Done(d, e)
    /\ Queued(c, e) \/ Done(c, e) => Known(d, e) = Known(c, e)

\* With every receipt and tombstone kept, ids go forward.
LEMMA RetainedProgress ==
    ASSUME Events \cap (Nat \X Nat) = {}, NEW c, Typed(c), Valid(c), NEW d, Typed(d), Valid(d),
           Retains(c.receipts, d.receipts), d.tombstones = c.tombstones, NEW e \in Events
    PROVE  Progresses(c, d, e)
<1>1. Agree(c, e) /\ Agree(d, e)
  BY ValidAgrees
<1>2. ASSUME Queued(c, e)
      PROVE  (Queued(d, e) \/ Done(d, e)) /\ Known(d, e) = Known(c, e)
  <2>1. PICK s \in AcceptanceOf(c, e) : c.receipts[s].body = c.mail[e].body
    BY <1>2, CallersAccepted
  <2>2. s \in DOMAIN c.receipts /\ c.receipts[s].kind = "acceptance" /\ c.receipts[s].id = e
    BY DEF AcceptanceOf, OfKind
  <2>3. /\ s \in DOMAIN d.receipts /\ d.receipts[s].kind = "acceptance"
        /\ d.receipts[s].id = e /\ d.receipts[s].body = c.mail[e].body
    BY <2>1, <2>2 DEF Retains, SaysSame
  <2>4. s \in OfKind(d, "acceptance") /\ s \in AcceptanceOf(d, e)
    BY <2>3 DEF AcceptanceOf, OfKind
  <2>5. AcceptancesValid(d) /\ PendingValid(d) /\ TerminalsValid(d)
    BY Zenon DEF Valid, SemanticsValid
  <2>6. Queued(d, e) \/ TerminalOf(d, e) # {}
    BY Zenon, <2>3, <2>4, <2>5 DEF AcceptancesValid, Queued
  <2>7. CASE Queued(d, e)
    <3>1. d.receipts[s].body = d.mail[e].body
      BY Zenon, <2>4, <2>5, <2>7 DEF PendingValid, Queued
    <3>. QED
      BY <1>1, <1>2, <2>3, <2>7, <3>1 DEF Agree
  <2>8. CASE TerminalOf(d, e) # {}
    <3>1. PICK t : t \in TerminalOf(d, e)
      BY <2>8
    <3>2. t \in OfKind(d, "event_terminal") /\ d.receipts[t].id = e
      BY <3>1 DEF TerminalOf
    <3>3. \A a \in AcceptanceOf(d, d.receipts[t].id) : d.receipts[a].body = d.receipts[t].body
      BY Zenon, <2>5, <3>2 DEF TerminalsValid
    <3>4. d.receipts[s].body = d.receipts[t].body
      BY <2>4, <3>2, <3>3
    <3>. QED
      BY <1>1, <1>2, <2>3, <2>8, <3>1, <3>4 DEF Agree, Done
  <2>. QED
    BY <2>6, <2>7, <2>8
<1>3. ASSUME NEW s \in TerminalOf(c, e)
      PROVE  Done(d, e) /\ Known(d, e) = Known(c, e)
  <2>1. /\ s \in DOMAIN c.receipts /\ c.receipts[s].kind = "event_terminal"
        /\ c.receipts[s].id = e
    BY DEF TerminalOf, OfKind
  <2>2. s \in TerminalOf(d, e) /\ d.receipts[s].body = c.receipts[s].body
    BY <2>1 DEF TerminalOf, OfKind, Retains, SaysSame
  <2>. QED
    BY <1>1, <2>2 DEF Agree, Done
<1>4. ASSUME e \in DOMAIN c.tombstones
      PROVE  Done(d, e) /\ Known(d, e) = Known(c, e)
  BY <1>1, <1>4 DEF Agree, Done
<1>. QED
  BY <1>2, <1>3, <1>4 DEF Progresses, Done

\* Pruning takes no evidence of what waits and leaves tombstones of what is done.
LEMMA PrunedProgress ==
    ASSUME NEW c, Typed(c), Valid(c), NEW d, Typed(d), Valid(d), NEW removed,
           d.mail = c.mail, d.receipts = Restrict(c.receipts, DOMAIN c.receipts \ removed),
           d.tombstones = Merge(Compact(c, removed), c.tombstones), NEW e
    PROVE  Progresses(c, d, e)
<1>1. Agree(c, e) /\ Agree(d, e)
  BY ValidAgrees
<1>2. PICK compact : compact = Compact(c, removed)
  OBVIOUS
<1>3. ASSUME NEW x \in DOMAIN compact
      PROVE  \E s \in removed : s \in TerminalOf(c, x) /\ compact[x].body = c.receipts[s].body
  BY <1>2, <1>3, CompactTyped
<1>4. /\ DOMAIN d.tombstones = DOMAIN compact \cup DOMAIN c.tombstones
      /\ \A x \in DOMAIN compact : d.tombstones[x] = compact[x]
      /\ \A x \in DOMAIN c.tombstones : x \notin DOMAIN compact => d.tombstones[x] = c.tombstones[x]
  BY <1>2 DEF Merge
<1>5. Queued(c, e) => Queued(d, e) /\ Known(d, e) = Known(c, e)
  BY <1>1 DEF Queued, Agree
<1>6. ASSUME NEW s \in TerminalOf(c, e)
      PROVE  Done(d, e) /\ Known(d, e) = Known(c, e)
  <2>1. /\ s \in DOMAIN c.receipts /\ c.receipts[s].kind = "event_terminal"
        /\ c.receipts[s].id = e
    BY DEF TerminalOf, OfKind
  <2>2. CASE s \notin removed
    <3>1. s \in DOMAIN d.receipts /\ d.receipts[s] = c.receipts[s]
      BY <2>1, <2>2 DEF Restrict
    <3>2. s \in TerminalOf(d, e)
      BY <2>1, <3>1 DEF TerminalOf, OfKind
    <3>. QED
      BY <1>1, <3>1, <3>2 DEF Agree, Done
  <2>3. CASE s \in removed
    <3>1. e \in DOMAIN compact
      BY <1>2, <2>1, <2>3 DEF Compact, OfKind
    <3>2. PICK u : u \in TerminalOf(c, e) /\ compact[e].body = c.receipts[u].body
      BY <1>3, <3>1
    <3>3. d.tombstones[e] = compact[e] /\ e \in DOMAIN d.tombstones
      BY <1>4, <3>1
    <3>4. Known(d, e) = {compact[e].body}
      BY <1>1, <3>3 DEF Agree
    <3>5. Known(c, e) = {c.receipts[u].body}
      BY <1>1, <3>2 DEF Agree
    <3>. QED
      BY <3>2, <3>3, <3>4, <3>5 DEF Done
  <2>. QED
    BY <2>2, <2>3
<1>7. ASSUME e \in DOMAIN c.tombstones
      PROVE  Done(d, e) /\ Known(d, e) = Known(c, e)
  <2>1. TerminalOf(c, e) = {} /\ Known(c, e) = {c.tombstones[e].body}
    BY <1>1, <1>7 DEF Agree
  <2>2. e \notin DOMAIN compact
    BY <1>3, <2>1
  <2>3. e \in DOMAIN d.tombstones /\ d.tombstones[e] = c.tombstones[e]
    BY <1>4, <1>7, <2>2
  <2>. QED
    BY <1>1, <2>1, <2>3 DEF Agree, Done
<1>. QED
  BY <1>5, <1>6, <1>7 DEF Progresses, Done

\* A retention change without a cutoff removes nothing.
LEMMA NothingThrough ==
    ASSUME NEW c, Typed(c), NEW d, Trims(c, d, None)
    PROVE  Retains(c.receipts, d.receipts)
<1>1. Through(c, None) = {}
  BY DEF Through, None, Typed, ReceiptsTyped
<1>2. d.receipts = Restrict(c.receipts, DOMAIN c.receipts)
  BY <1>1 DEF Trims
<1>. QED
  BY <1>2 DEF Restrict, Retains, SaysSame

\* Every commit moves the ids of callers forward.
LEMMA DocumentsProgress ==
    ASSUME Events \cap (Nat \X Nat) = {}, KeepsReceipts \/ Cutoffs \subseteq {None},
           Stored, Recorded, Documents, Recorded', NEW e \in Events
    PROVE  Progresses(cp, cp', e)
<1>1. Typed(cp) /\ Typed(cp') /\ Valid(cp')
  BY DEF Recorded, Documents
<1>2. CASE Created
  <2>1. ~Queued(cp, e) /\ ~Done(cp, e)
    BY <1>2 DEF Created, Recorded, Queued, Done, TerminalOf, OfKind
  <2>. QED
    BY <2>1 DEF Progresses
<1>3. ASSUME Present PROVE Valid(cp)
  BY <1>3 DEF Stored
<1>4. CASE Present /\ Records(cp, cp')
  <2>1. Retains(cp.receipts, cp'.receipts) /\ cp'.tombstones = cp.tombstones
    BY <1>4 DEF Records
  <2>. QED
    BY <1>1, <1>3, <1>4, <2>1, RetainedProgress
<1>5. CASE Present /\ \E cutoff \in Nat : PrunesTo(cutoff)
  <2>1. PICK cutoff : PrunesTo(cutoff)
    BY <1>5
  <2>2. PICK removed : removed = Through(cp, cutoff)
    OBVIOUS
  <2>3. /\ cp'.mail = cp.mail
        /\ cp'.receipts = Restrict(cp.receipts, DOMAIN cp.receipts \ removed)
        /\ cp'.tombstones = Merge(Compact(cp, removed), cp.tombstones)
    BY <2>1, <2>2 DEF PrunesTo, Trims
  <2>. QED
    BY <1>1, <1>3, <1>5, <2>3, PrunedProgress
<1>6. CASE Present /\ ~KeepsReceipts /\ \E cutoff \in Cutoffs : CutsTo(cutoff)
  <2>1. CutsTo(None)
    BY <1>6
  <2>2. Retains(cp.receipts, cp'.receipts) /\ cp'.tombstones = cp.tombstones
    BY <1>1, <2>1, NothingThrough DEF CutsTo
  <2>. QED
    BY <1>1, <1>3, <1>6, <2>2, RetainedProgress
<1>. QED
  BY <1>2, <1>4, <1>5, <1>6 DEF Documents

\* The fates of ids in the ledger, and what it says of them.
Fates(c) == [e \in Events |-> FateOf(c, e)]

Says(c) == [e \in Events |-> Known(c, e)]

\* A fate is what the records say it is.
LEMMA FateIs ==
    ASSUME NEW c, NEW e, Agree(c, e)
    PROVE  /\ FateOf(c, e) \in {"new", "queued", "done"}
           /\ FateOf(c, e) = "queued" <=> Queued(c, e)
           /\ FateOf(c, e) = "done" <=> Done(c, e)
           /\ Known(c, e) = {} <=> FateOf(c, e) = "new"
           /\ Known(c, e) \in {{}} \cup {{b} : b \in Bodies}
<1>1. CASE Queued(c, e)
  <2>1. ~Done(c, e) /\ \E b \in Bodies : Known(c, e) = {b}
    BY <1>1 DEF Agree
  <2>2. FateOf(c, e) = "queued"
    BY <1>1, <2>1 DEF FateOf
  <2>. QED
    BY <1>1, <2>1, <2>2
<1>2. CASE Done(c, e)
  <2>1. ~Queued(c, e) /\ \E b \in Bodies : Known(c, e) = {b}
    BY <1>2 DEF Agree, Done
  <2>2. FateOf(c, e) = "done"
    BY <1>2, <2>1 DEF FateOf
  <2>. QED
    BY <1>2, <2>1, <2>2
<1>3. CASE ~Queued(c, e) /\ ~Done(c, e)
  <2>1. FateOf(c, e) = "new"
    BY <1>3 DEF FateOf
  <2>2. Known(c, e) = {}
    BY <1>3 DEF Agree
  <2>. QED
    BY <1>3, <2>1, <2>2
<1>. QED
  BY <1>1, <1>2, <1>3

\* Ids that go forward take a step of the ledger.
LEMMA ProgressAdvances ==
    ASSUME NEW c, NEW d, \A e \in Events : Agree(c, e) /\ Agree(d, e) /\ Progresses(c, d, e)
    PROVE  /\ Fates(d) \in [Events -> {"new", "queued", "done"}]
           /\ Says(d) \in [Events -> {{}} \cup {{b} : b \in Bodies}]
           /\ \A e \in Events :
                 /\ Fates(d)[e] # Fates(c)[e] =>
                       <<Fates(c)[e], Fates(d)[e]>>
                       \in {<<"new", "queued">>, <<"new", "done">>, <<"queued", "done">>}
                 /\ Fates(d)[e] = "new" <=> Says(d)[e] = {}
                 /\ Fates(c)[e] # "new" => Says(d)[e] = Says(c)[e]
<1>1. \A e \in Events : /\ Fates(c)[e] = FateOf(c, e) /\ Fates(d)[e] = FateOf(d, e)
                        /\ Says(c)[e] = Known(c, e) /\ Says(d)[e] = Known(d, e)
  BY DEF Fates, Says
<1>2. Fates(d) \in [Events -> {"new", "queued", "done"}]
  BY FateIs DEF Fates
<1>3. Says(d) \in [Events -> {{}} \cup {{b} : b \in Bodies}]
  BY FateIs DEF Says
<1>4. ASSUME NEW e \in Events
      PROVE  /\ FateOf(d, e) # FateOf(c, e) =>
                   <<FateOf(c, e), FateOf(d, e)>>
                   \in {<<"new", "queued">>, <<"new", "done">>, <<"queued", "done">>}
             /\ FateOf(d, e) = "new" <=> Known(d, e) = {}
             /\ FateOf(c, e) # "new" => Known(d, e) = Known(c, e)
  <2>1. /\ FateOf(c, e) \in {"new", "queued", "done"} /\ FateOf(d, e) \in {"new", "queued", "done"}
        /\ FateOf(c, e) = "queued" <=> Queued(c, e)
        /\ FateOf(d, e) = "queued" <=> Queued(d, e)
        /\ FateOf(c, e) = "done" <=> Done(c, e)
        /\ FateOf(d, e) = "done" <=> Done(d, e)
        /\ Known(d, e) = {} <=> FateOf(d, e) = "new"
    BY FateIs
  <2>. QED
    BY <2>1 DEF Progresses
<1>. QED
  BY <1>1, <1>2, <1>3, <1>4

\* With callers' ids that no step emits under, and receipts that are kept or cut
\* by pruning alone, the host implements the inbox ledger: an id is accepted once
\* and done once, and keeps its body, through retries, migration, pruning and
\* tombstones (checkpoint_v1.py:829, checkpoint_v1.py:1223).
THEOREM HostImplementsInbox ==
    ASSUME Events \cap (Nat \X Nat) = {}, KeepsReceipts \/ Cutoffs \subseteq {None}
    PROVE  Spec => ImplementsInbox
<1>1. Init => Inbox!Init
  <2>1. ASSUME Init, NEW e \in Events PROVE Fate(e) = "new" /\ Known(cp, e) = {}
    <3>1. DOMAIN cp.mail = {} /\ DOMAIN cp.receipts = {} /\ DOMAIN cp.tombstones = {}
      BY <2>1, EmptyMap DEF Init, Blank
    <3>2. ~Queued(cp, e) /\ ~Done(cp, e)
      BY <3>1 DEF Queued, Done, TerminalOf, OfKind
    <3>3. FateOf(cp, e) = "new"
      BY <3>2 DEF FateOf
    <3>. QED
      BY <3>2, <3>3, KnownParts DEF Fate, FateOf, Queued, Done
  <2>. QED
    BY <2>1 DEF Inbox!Init
<1>2. /\ [e \in Events |-> Fate(e)] = Fates(cp) /\ [e \in Events |-> Fate(e)]' = Fates(cp')
      /\ [e \in Events |-> Known(cp, e)] = Says(cp)
      /\ [e \in Events |-> Known(cp, e)]' = Says(cp')
  BY Zenon DEF Fate, Fates, FateOf, Queued, Done, Says
<1>3. ASSUME Stored, Recorded, Next, Recorded'
      PROVE  [Inbox!Advance]_(<<[e \in Events |-> Fate(e)], [e \in Events |-> Known(cp, e)]>>)
  <2>1. Documents
    BY <1>3, NextDocuments
  <2>2. ASSUME NEW e \in Events
        PROVE  Agree(cp, e) /\ Agree(cp', e) /\ Progresses(cp, cp', e)
    <3>1. Agree(cp', e)
      BY <1>3, <2>1, ValidAgrees DEF Documents, Recorded
    <3>2. Progresses(cp, cp', e)
      BY <1>3, <2>1, DocumentsProgress
    <3>3. CASE Present
      BY <1>3, <3>1, <3>2, <3>3, ValidAgrees DEF Stored, Recorded
    <3>4. CASE ~Present
      <4>1. ~Queued(cp, e) /\ TerminalOf(cp, e) = {} /\ e \notin DOMAIN cp.tombstones
        BY <1>3, <3>4 DEF Recorded, Queued, TerminalOf, OfKind
      <4>2. Known(cp, e) = {}
        BY <4>1, KnownParts DEF Done
      <4>. QED
        BY <3>1, <3>2, <4>1, <4>2 DEF Agree
    <3>. QED
      BY <3>3, <3>4
  <2>. QED
    BY <1>2, <2>2, ProgressAdvances DEF Inbox!Advance, Inbox!Fates, Inbox!Forward
<1>4. UNCHANGED cp => UNCHANGED <<[e \in Events |-> Fate(e)], [e \in Events |-> Known(cp, e)]>>
  <2>1. cp' = cp => Fates(cp') = Fates(cp) /\ Says(cp') = Says(cp)
    OBVIOUS
  <2>. QED
    BY <1>2, <2>1
<1>5. Stored /\ Recorded /\ [Next]_cp /\ Recorded'
      => [Inbox!Advance]_(<<[e \in Events |-> Fate(e)], [e \in Events |-> Known(cp, e)]>>)
  BY <1>3, <1>4
<1>. QED
  BY <1>1, <1>5, StoredInvariant, RecordedInvariant, PTL
     DEF Spec, ImplementsInbox, Inbox!Spec, Inbox!vars

-----------------------------------------------------------------------------
(* Every candidate can be restored.                                        *)

\* Without a head, only the entries disposed of get sequences.
LEMMA OnlyNumbered ==
    ASSUME NEW none, DOMAIN none = {}, NEW mail, NEW lost, NEW first
    PROVE  Merge(none, Numbered(mail, lost, first)) = Numbered(mail, lost, first)
  BY DEF Merge, Numbered

\* A migration closes the entries it disposes of.
LEMMA MaintainedCloses ==
    ASSUME NEW c, Typed(c), Below(c), Traced(c), Coherent(c), Allocated(c), c.next # 0,
           NEW d \in Maintenances(c)
    PROVE  \E mail, gone : Closes(c, d, mail, gone)
<1>1. PICK op, D, S : /\ d = Maintained(c, op, D, S)
                      /\ D \subseteq DOMAIN c.mail /\ S \subseteq DOMAIN c.mail
  BY SMT DEF Maintenances
<1>2. /\ c.next \in Nat /\ c.nextQueue \in Nat /\ c.nextQueue >= c.nextQueue
  BY DEF Typed
<1>3. PICK mail : mail = Merge(Renumbered(c.mail, S, c.nextQueue), c.mail)
  OBVIOUS
<1>4. PICK k : k = Cardinality(S)
  OBVIOUS
<1>5. Recalls(c, mail, c.nextQueue, c.nextQueue + k) /\ k \in Nat
  BY <1>1, <1>2, <1>3, <1>4, RenumberedRecalls
<1>6. EntriesTyped(mail) /\ DOMAIN mail = DOMAIN c.mail
  BY <1>5 DEF Recalls
<1>7. PICK gone : gone = Numbered(mail, D, c.next + 1)
  OBVIOUS
<1>8. PICK x : x = Receipt("maintenance_migration", op,
                           [body |-> Failure, acc |-> 0, queue |-> 0], c.revision + 1)
  OBVIOUS
<1>9. PICK own : own = [s \in {c.next} |-> x]
  OBVIOUS
<1>10. PICK e : e = Closed(Mutated(c), mail, gone, own)
  OBVIOUS
<1>11. d = [e EXCEPT !.nextQueue = @ + k]
  BY Zenon, <1>1, <1>3, <1>4, <1>7, <1>8, <1>9, <1>10 DEF Maintained
<1>12. Carries(c, e) /\ ClosedAs(c, e, mail, gone, own)
  BY <1>10, ClosedCarries DEF Typed
<1>13. /\ d.revision = c.revision + 1 /\ d.cutoff = c.cutoff /\ d.tombstones = c.tombstones
       /\ d.nextAcc = c.nextAcc /\ d.nextQueue = c.nextQueue + k /\ d.pendingFx = c.pendingFx
       /\ d.terminalFx = c.terminalFx /\ d.tombstoneFx = c.tombstoneFx /\ d.nextFx = c.nextFx
       /\ d.mail = e.mail /\ d.receipts = e.receipts /\ d.next = e.next
  BY <1>11, <1>12 DEF Carries, Shaped, Fields
<1>14. ClosedAs(c, d, mail, gone, own)
  BY <1>12, <1>13, Zenon DEF ClosedAs
<1>15. Typed(d)
  BY MaintainedTyped DEF Records
<1>16. d.nextQueue \in Nat /\ d.nextQueue >= c.nextQueue
  BY <1>2, <1>5, <1>13
<1>17. MailMoves(c, d, mail) /\ \A g : ~Fresher(c, mail, g)
  <2>1. Recalls(c, mail, c.nextQueue, d.nextQueue)
    BY <1>5, <1>13
  <2>. QED
    BY <1>13, <1>16, <2>1, RecallsMove
<1>18. \A g, h \in DOMAIN mail : mail[g].acc = mail[h].acc => g = h
  BY <1>17 DEF MailMoves
<1>19. Disposes(c, mail, {}, D, gone)
  <2>1. PICK at : at = <<>>
    OBVIOUS
  <2>2. DOMAIN at = {}
    BY <2>1
  <2>3. gone = Merge(at, Numbered(mail, D, c.next + 1))
    BY <1>7, <2>2, OnlyNumbered
  <2>4. /\ {} \subseteq DOMAIN c.mail /\ (\A g, h \in {} : g = h) /\ D \cap {} = {}
        /\ (\A g \in {} : at[g] = c.next) /\ D \subseteq DOMAIN mail
        /\ DOMAIN c.mail \subseteq DOMAIN mail
    BY <1>1, <1>6
  <2>. QED
    BY <1>2, <1>6, <1>18, <2>2, <2>3, <2>4, DispatchNumbering, Zenon
<1>20. OwnReceipt(c, mail, gone, x)
  <2>1. PICK entry : entry = [body |-> Failure, acc |-> 0, queue |-> 0]
    OBVIOUS
  <2>2. entry.body \in Bodies /\ entry.acc = 0 /\ entry.queue = 0
    BY <2>1, CheckpointAssumption
  <2>3. x = Receipt("maintenance_migration", op, entry, c.revision + 1)
    BY <1>8, <2>1
  <2>4. /\ ReceiptTyped(x) /\ x.kind = "maintenance_migration" /\ x.rev = c.revision + 1
        /\ x.acc \in Nat /\ x.queue \in Nat /\ x.effects = {} /\ x.refs = {}
    BY <2>2, <2>3 DEF Receipt, ReceiptTyped, IsReceipt, ReceiptFields, Kinds
  <2>5. \A g \in DOMAIN gone : gone[g] # c.next
    BY <1>19 DEF Disposes
  <2>6. {g \in DOMAIN mail : Fresher(c, mail, g)} = {}
    BY <1>17
  <2>7. x.refs = {[id |-> g, acc |-> mail[g].acc, kind |-> "internal_mailbox",
                   n |-> mail[g].queue] : g \in {h \in DOMAIN mail : Fresher(c, mail, h)}}
    BY <2>4, <2>6
  <2>. QED
    BY <2>4, <2>5, <2>7 DEF OwnReceipt
<1>21. PICK n : n = Cardinality(D) + 1
  OBVIOUS
<1>22. Numbering(c, mail, gone, own, n)
  <2>1. DOMAIN own = {c.next} /\ own[c.next] = x
    BY <1>9
  <2>. QED
    BY <1>19, <1>20, <1>21, <2>1 DEF Disposes
<1>23. DOMAIN d.pendingFx = DOMAIN c.pendingFx \cup EffectsOf(own)
  <2>1. x.effects = {}
    BY <1>8 DEF Receipt
  <2>2. EffectsOf(own) = {}
    BY <1>9, <2>1 DEF EffectsOf
  <2>. QED
    BY <1>13, <2>2
<1>24. Closes(c, d, mail, gone)
  BY <1>6, <1>13, <1>14, <1>15, <1>17, <1>22, <1>23, ClosedCloses
<1>. QED
  BY <1>24

\* A tombstone closes all that waits.
LEMMA TombstonedCloses ==
    ASSUME NEW c, Typed(c), Below(c), Traced(c), Coherent(c), Allocated(c), c.next # 0, NEW op
    PROVE  \E mail, gone : Closes(c, Tombstoned(c, op), mail, gone)
<1>1. PICK d : d = Tombstoned(c, op)
  OBVIOUS
<1>2. c.next \in Nat \ {0} /\ c.nextQueue \in Nat /\ EntriesTyped(c.mail)
  BY DEF Typed
<1>3. PICK mail : mail = c.mail
  OBVIOUS
<1>4. Recalls(c, mail, c.nextQueue, c.nextQueue) /\ EntriesTyped(mail)
  BY <1>2, <1>3, KeptRecalls
<1>5. PICK gone : gone = Numbered(mail, DOMAIN mail, c.next)
  OBVIOUS
<1>6. PICK none : none = <<>>
  OBVIOUS
<1>7. DOMAIN none = {}
  BY <1>6
<1>8. PICK e : e = Closed(Mutated(c), mail, gone, none)
  OBVIOUS
<1>9. d = [e EXCEPT !.root = "tombstone", !.operation = op]
  BY Zenon, <1>1, <1>3, <1>5, <1>6, <1>8 DEF Tombstoned
<1>10. Carries(c, e) /\ ClosedAs(c, e, mail, gone, none)
  BY <1>8, ClosedCarries DEF Typed
<1>11. /\ d.revision = c.revision + 1 /\ d.cutoff = c.cutoff /\ d.tombstones = c.tombstones
       /\ d.nextAcc = c.nextAcc /\ d.nextQueue = c.nextQueue /\ d.pendingFx = c.pendingFx
       /\ d.terminalFx = c.terminalFx /\ d.tombstoneFx = c.tombstoneFx /\ d.nextFx = c.nextFx
       /\ d.mail = e.mail /\ d.receipts = e.receipts /\ d.next = e.next
  BY <1>9, <1>10 DEF Carries, Shaped, Fields
<1>12. ClosedAs(c, d, mail, gone, none)
  BY <1>10, <1>11, Zenon DEF ClosedAs
<1>13. Typed(d)
  BY <1>1, TombstonedTyped DEF Records
<1>14. MailMoves(c, d, mail) /\ \A g : ~Fresher(c, mail, g)
  <2>1. Recalls(c, mail, c.nextQueue, d.nextQueue) /\ d.nextQueue \in Nat /\ d.nextQueue >= c.nextQueue
    BY <1>2, <1>4, <1>11
  <2>. QED
    BY <1>11, <2>1, RecallsMove
<1>15. PICK k : k = Cardinality(DOMAIN mail)
  OBVIOUS
<1>16. /\ DOMAIN gone = DOMAIN mail /\ k \in Nat
       /\ \A g, h \in DOMAIN mail : gone[g] = gone[h] => g = h
       /\ {gone[g] : g \in DOMAIN mail} = c.next .. c.next + k - 1
  <2>1. \A g, h \in DOMAIN mail : mail[g].acc = mail[h].acc => g = h
    BY <1>14 DEF MailMoves
  <2>. QED
    BY <1>2, <1>4, <1>5, <1>15, <2>1, NumberedRange
<1>17. Numbering(c, mail, gone, none, k)
  BY <1>2, <1>7, <1>14, <1>16 DEF Numbering
<1>18. DOMAIN d.pendingFx = DOMAIN c.pendingFx \cup EffectsOf(none)
  BY <1>7, <1>11 DEF EffectsOf
<1>19. Closes(c, d, mail, gone)
  BY <1>4, <1>11, <1>12, <1>13, <1>14, <1>17, <1>18, ClosedCloses
<1>. QED
  BY <1>1, <1>19

\* A settled effect leaves the rest as it was.
LEMMA TerminalizedValid ==
    ASSUME NEW c, Typed(c), Traced(c), Valid(c), NEW f \in DOMAIN c.pendingFx, NEW outcome
    PROVE  Valid(Terminalized(c, f, outcome)) /\ Traced(Terminalized(c, f, outcome))
<1>1. PICK d : d = Terminalized(c, f, outcome)
  OBVIOUS
<1>2. PICK m : m = Mutated(c)
  OBVIOUS
<1>3. Shaped(c) /\ c.nextFx \in Nat
  BY DEF Typed
<1>4. Shaped(m) /\ SameEffects(c, m) /\ m.nextFx = c.nextFx
  BY <1>2, <1>3, MutatedShape DEF Mutated, Shaped, Fields
<1>5. PICK at : at = [g \in {f} |-> [seq |-> c.nextFx, outcome |-> outcome]]
  OBVIOUS
<1>6. DOMAIN at = {f} /\ at[f].seq = c.nextFx
  BY <1>5
<1>7. d = [m EXCEPT !.pendingFx = Restrict(@, DOMAIN @ \ {f}),
                    !.terminalFx = Merge(at, @), !.nextFx = @ + 1]
  BY Zenon, <1>1, <1>2, <1>5 DEF Terminalized
<1>8. /\ d.pendingFx = Restrict(c.pendingFx, DOMAIN c.pendingFx \ {f})
      /\ d.terminalFx = Merge(at, c.terminalFx) /\ d.tombstoneFx = c.tombstoneFx
      /\ d.nextFx = c.nextFx + 1
  BY <1>4, <1>7 DEF Shaped, Fields, SameEffects
<1>9. OutboxOnly(c, d)
  BY <1>1, <1>3, OutboxOperations
<1>10. SameRecords(c, d) /\ d.receipts = c.receipts
  BY <1>9 DEF OutboxOnly, SameRecords
<1>11. DOMAIN d.pendingFx = DOMAIN c.pendingFx \ {f}
  BY <1>8 DEF Restrict
<1>12. EffectsValid(c)
  BY DEF Valid, SemanticsValid
<1>13. /\ EffectsValid(d)
       /\ \A g \in DOMAIN d.terminalFx : d.terminalFx[g].seq \in Nat
       /\ \A g \in DOMAIN d.tombstoneFx : d.tombstoneFx[g].seq \in Nat
  BY <1>3, <1>6, <1>8, <1>10, <1>11, <1>12, SettledValid
<1>14. SourcesPresent(d) /\ SemanticsValid(d)
  BY <1>9, <1>10, <1>13, OutboxValid, SameSources DEF Valid, OutboxOnly, SameRecords
<1>. QED
  BY <1>1, <1>10, <1>13, <1>14, OutboxTraced DEF Valid

\* So does one compacted.
LEMMA CompactedRestorable ==
    ASSUME NEW c, Typed(c), Traced(c), Valid(c), NEW f \in DOMAIN c.terminalFx
    PROVE  Valid(Compacted(c, f)) /\ Traced(Compacted(c, f))
<1>1. PICK d : d = Compacted(c, f)
  OBVIOUS
<1>2. PICK m : m = Mutated(c)
  OBVIOUS
<1>3. Shaped(c)
  BY DEF Typed
<1>4. Shaped(m) /\ SameEffects(c, m) /\ m.nextFx = c.nextFx
  BY <1>2, <1>3, MutatedShape DEF Mutated, Shaped, Fields
<1>5. PICK at : at = [g \in {f} |-> c.terminalFx[f]]
  OBVIOUS
<1>6. DOMAIN at = {f} /\ at[f] = c.terminalFx[f]
  BY <1>5
<1>7. d = [m EXCEPT !.terminalFx = Restrict(@, DOMAIN @ \ {f}), !.tombstoneFx = Merge(at, @)]
  BY Zenon, <1>1, <1>2, <1>5 DEF Compacted
<1>8. /\ d.pendingFx = c.pendingFx /\ d.nextFx = c.nextFx
      /\ d.terminalFx = Restrict(c.terminalFx, DOMAIN c.terminalFx \ {f})
      /\ d.tombstoneFx = Merge(at, c.tombstoneFx)
  BY <1>4, <1>7 DEF Shaped, Fields, SameEffects
<1>9. OutboxOnly(c, d)
  BY <1>1, <1>3, OutboxOperations
<1>10. SameRecords(c, d) /\ d.receipts = c.receipts
  BY <1>9 DEF OutboxOnly, SameRecords
<1>11. EffectsValid(c)
  BY DEF Valid, SemanticsValid
<1>12. /\ EffectsValid(d)
       /\ \A g \in DOMAIN d.terminalFx : d.terminalFx[g].seq \in Nat
       /\ \A g \in DOMAIN d.tombstoneFx : d.tombstoneFx[g].seq \in Nat
  BY <1>6, <1>8, <1>10, <1>11, CompactedValid
<1>13. SourcesPresent(d) /\ SemanticsValid(d)
  BY <1>9, <1>10, <1>12, OutboxValid, SameSources DEF Valid, OutboxOnly, SameRecords
<1>. QED
  BY <1>1, <1>10, <1>12, <1>13, OutboxTraced DEF Valid

\* A first attempt is noted in the outbox.
LEMMA AttemptedTraced ==
    ASSUME NEW c, Typed(c), Traced(c), NEW f
    PROVE  Traced(Attempted(c, f))
<1>1. PICK d : d = Attempted(c, f)
  OBVIOUS
<1>2. PICK m : m = Mutated(c)
  OBVIOUS
<1>3. Shaped(c)
  BY DEF Typed
<1>4. Shaped(m) /\ SameEffects(c, m)
  BY <1>2, <1>3, MutatedShape
<1>5. d = [m EXCEPT !.pendingFx[f] = "attempted"]
  BY <1>1, <1>2 DEF Attempted
<1>6. d.terminalFx = c.terminalFx /\ d.tombstoneFx = c.tombstoneFx
  BY <1>4, <1>5 DEF Shaped, Fields, SameEffects
<1>7. SameRecords(c, d)
  BY <1>1, <1>3, OutboxOperations DEF OutboxOnly, SameRecords
<1>. QED
  BY <1>1, <1>6, <1>7, OutboxTraced DEF Traced

\* d has settled effects that c has.
NoneSettled(c, d) ==
    /\ \A f \in DOMAIN d.terminalFx :
          f \in DOMAIN c.terminalFx /\ d.terminalFx[f] = c.terminalFx[f]
    /\ \A f \in DOMAIN d.tombstoneFx :
          f \in DOMAIN c.tombstoneFx /\ d.tombstoneFx[f] = c.tombstoneFx[f]

\* An operation that leaves the outbox, or forgets effects settled, settles none.
LEMMA SameNoneSettled ==
    ASSUME NEW c, NEW d, SameEffects(c, d) \/ \E kept : Forgot(c, d, kept)
    PROVE  NoneSettled(c, d)
<1>1. CASE SameEffects(c, d)
  BY <1>1 DEF SameEffects, NoneSettled
<1>2. ASSUME NEW kept, Forgot(c, d, kept) PROVE NoneSettled(c, d)
  BY <1>2 DEF Forgot, Restrict, NoneSettled
<1>. QED
  BY <1>1, <1>2

\* Trimming leaves traces of what stays.
LEMMA TrimmedTraced ==
    ASSUME NEW c, Typed(c), Traced(c), NEW d, NEW cutoff, Trims(c, d, cutoff), NoneSettled(c, d),
           \/ d.tombstones = c.tombstones
           \/ d.tombstones = Merge(Compact(c, Through(c, cutoff)), c.tombstones)
    PROVE  Traced(d)
<1>1. d.next = c.next /\ d.mail = c.mail
  BY DEF Trims
<1>2. \A e : Old(c, e) => Old(d, e)
  BY <1>1 DEF Old
<1>3. \A s \in DOMAIN d.receipts : s \in DOMAIN c.receipts /\ d.receipts[s] = c.receipts[s]
  BY DEF Trims, Restrict
<1>4. \A s \in DOMAIN d.receipts : ReceiptTraced(d, s)
  BY <1>1, <1>2, <1>3 DEF Traced, ReceiptTraced
<1>5. ASSUME NEW e \in DOMAIN c.tombstones
      PROVE  Old(d, e) /\ c.tombstones[e].acc \in Nat /\ c.tombstones[e].seq \in Nat
  BY <1>2 DEF Traced
<1>6. PICK compact : compact = Compact(c, Through(c, cutoff))
  OBVIOUS
<1>7. ASSUME NEW e \in DOMAIN compact
      PROVE  Old(d, e) /\ compact[e].acc \in Nat /\ compact[e].seq \in Nat
  <2>1. PICK settled : settled = Through(c, cutoff) \cap OfKind(c, "event_terminal")
    OBVIOUS
  <2>2. compact = [x \in {c.receipts[s].id : s \in settled} |->
          LET s == CHOOSE y \in settled : c.receipts[y].id = x
          IN [body |-> c.receipts[s].body, acc |-> c.receipts[s].acc, seq |-> s]]
    BY <1>6, <2>1, Zenon DEF Compact
  <2>3. e \in {c.receipts[s].id : s \in settled}
    BY <1>7, <2>2
  <2>4. PICK s : s = CHOOSE y \in settled : c.receipts[y].id = e
    OBVIOUS
  <2>5. s \in settled /\ c.receipts[s].id = e
    BY <2>3, <2>4
  <2>6. compact[e].acc = c.receipts[s].acc /\ compact[e].seq = s
    BY <2>2, <2>3, <2>4
  <2>7. s \in DOMAIN c.receipts /\ c.receipts[s].kind = "event_terminal"
    BY <2>1, <2>5 DEF OfKind
  <2>8. s \in Nat /\ ReceiptTraced(c, s)
    BY <2>7 DEF Typed, ReceiptsTyped, Traced
  <2>. QED
    BY <1>2, <2>5, <2>6, <2>7, <2>8 DEF ReceiptTraced
<1>8. \A e \in DOMAIN d.tombstones :
         Old(d, e) /\ d.tombstones[e].acc \in Nat /\ d.tombstones[e].seq \in Nat
  BY <1>5, <1>6, <1>7 DEF Merge
<1>9. /\ \A f \in DOMAIN d.terminalFx : d.terminalFx[f].seq \in Nat
      /\ \A f \in DOMAIN d.tombstoneFx : d.tombstoneFx[f].seq \in Nat
  BY DEF NoneSettled, Traced
<1>10. \A e \in DOMAIN d.mail : Old(d, e)
  BY <1>1, <1>2 DEF Traced
<1>. QED
  BY <1>4, <1>8, <1>9, <1>10 DEF Traced

\* Putting receipts under another revision leaves them traced.
LEMMA RevisedTraced ==
    ASSUME NEW c, Traced(c), NEW next, NEW rev \in Int, NEW d,
           \A s \in DOMAIN c.receipts : IsReceipt(c.receipts[s]),
           d.receipts = Revised(c.receipts, next, rev), d.next = c.next, d.mail = c.mail,
           d.tombstones = c.tombstones, d.terminalFx = c.terminalFx,
           d.tombstoneFx = c.tombstoneFx
    PROVE  Traced(d)
<1>1. \A e : Old(c, e) => Old(d, e)
  BY DEF Old
<1>2. ASSUME NEW s \in DOMAIN d.receipts PROVE ReceiptTraced(d, s)
  <2>1. /\ s \in DOMAIN c.receipts
        /\ d.receipts[s] = IF s >= next THEN [c.receipts[s] EXCEPT !.rev = rev]
                           ELSE c.receipts[s]
    BY DEF Revised
  <2>2. ReceiptTraced(c, s) /\ IsReceipt(c.receipts[s])
    BY <2>1 DEF Traced
  <2>3. /\ d.receipts[s].acc = c.receipts[s].acc /\ d.receipts[s].queue = c.receipts[s].queue
        /\ d.receipts[s].rev \in Int /\ d.receipts[s].effects = c.receipts[s].effects
        /\ d.receipts[s].kind = c.receipts[s].kind /\ d.receipts[s].id = c.receipts[s].id
        /\ d.receipts[s].refs = c.receipts[s].refs
    BY <2>1, <2>2 DEF ReceiptTraced, IsReceipt, ReceiptFields
  <2>. QED
    BY <1>1, <2>2, <2>3 DEF ReceiptTraced
<1>. QED
  BY <1>1, <1>2 DEF Traced

\* So does a delivery admitted and processed in one commit.
LEMMA ProcessedTraced ==
    ASSUME Apart, NEW c, Typed(c), Below(c), Traced(c), c.next > 0, NEW delivery \in Delivery,
           NEW d \in ProcessedDelivery(c, delivery)
    PROVE  Traced(d)
<1>1. PICK batch : batch = <<delivery>>
  OBVIOUS
<1>2. PICK a : a = Admitted(c, batch)
  OBVIOUS
<1>3. PICK r : r = Target[delivery.body]
  OBVIOUS
<1>4. Acceptable(c, batch) /\ Valid(a)
  BY Zenon, <1>1, <1>2 DEF ProcessedDelivery
<1>5. PICK stepped \in Steps(a, r) :
         d = [stepped EXCEPT !.revision = c.revision + 1,
                             !.receipts = [s \in DOMAIN @ |->
                                IF s >= c.next THEN [@[s] EXCEPT !.rev = c.revision + 1]
                                ELSE @[s]]]
  BY Zenon, <1>1, <1>2, <1>3, <1>4 DEF ProcessedDelivery
<1>6. batch \in [1 .. 1 -> Delivery] /\ \A i, j \in 1 .. 1 : i # j => batch[i].id # batch[j].id
  BY <1>1
<1>7. Records(c, a) /\ a.root = c.root
  BY <1>2, <1>6, AdmittedTyped
<1>8. Typed(a) /\ Traced(a)
  BY <1>2, <1>6, AdmittedValid
<1>9. Below(a)
  <2>1. a.next > 0
    BY <1>7 DEF Records, Typed
  <2>. QED
    BY <1>4, <1>8, <2>1, ValidBelow DEF Valid
<1>10. a.root = "retained"
  BY <1>4, <1>7 DEF Acceptable
<1>11. Waiting(a, r, "ready") # {}
  BY <1>1, <1>2, <1>3, <1>4, AdmittedWaits
<1>12. Traced(stepped)
  BY <1>4, <1>8, <1>9, <1>10, <1>11, StepsValid DEF Valid
<1>13. Typed(stepped)
  BY <1>8, <1>9, <1>11, StepsTyped DEF Records
<1>14. PICK after : after = Revised(stepped.receipts, c.next, c.revision + 1)
  OBVIOUS
<1>15. d = [stepped EXCEPT !.revision = c.revision + 1, !.receipts = after]
  BY <1>5, <1>13, <1>14 DEF Typed, Shaped, Fields, Revised
<1>16. /\ d.next = stepped.next /\ d.mail = stepped.mail /\ d.tombstones = stepped.tombstones
       /\ d.terminalFx = stepped.terminalFx /\ d.tombstoneFx = stepped.tombstoneFx
       /\ d.receipts = after
  BY <1>13, <1>15 DEF Typed, Shaped, Fields
<1>17. /\ \A s \in DOMAIN stepped.receipts : IsReceipt(stepped.receipts[s])
       /\ c.revision + 1 \in Int
  BY <1>13 DEF Typed, ReceiptsTyped, ReceiptTyped
<1>. QED
  BY <1>12, <1>14, <1>16, <1>17, RevisedTraced

\* Neither a migration nor a tombstone changes runtimes or what entries say.
LEMMA ClosedSources ==
    ASSUME NEW c, Typed(c), Coherent(c), Allocated(c), SourcesPresent(c)
    PROVE  /\ \A d \in Maintenances(c) : SourcesPresent(d)
           /\ \A op : SourcesPresent(Tombstoned(c, op))
<1>1. PICK m : m = Mutated(c)
  OBVIOUS
<1>2. Shaped(m) /\ m.rt = c.rt
  BY <1>1, MutatedShape DEF Typed, Mutated, Shaped, Fields
<1>3. ASSUME NEW mail, NEW gone, NEW own, NEW k, k = Closed(m, mail, gone, own),
             \A e \in DOMAIN mail : e \in DOMAIN c.mail /\ mail[e].body = c.mail[e].body
      PROVE  Shaped(k) /\ SourcesPresent(k)
  <2>1. /\ Shaped(k) /\ k.rt = c.rt
        /\ \A e \in DOMAIN k.mail : e \in DOMAIN c.mail /\ k.mail[e].body = c.mail[e].body
    BY <1>2, <1>3, ClosedWaits
  <2>. QED
    BY <2>1 DEF SourcesPresent
<1>4. ASSUME NEW d \in Maintenances(c) PROVE SourcesPresent(d)
  <2>1. PICK op, D, S : d = Maintained(c, op, D, S) /\ S \subseteq DOMAIN c.mail
    BY SMT DEF Maintenances
  <2>2. PICK mail : mail = Merge(Renumbered(c.mail, S, c.nextQueue), c.mail)
    OBVIOUS
  <2>3. PICK k, gone, own : k = Closed(m, mail, gone, own)
                            /\ d = [k EXCEPT !.nextQueue = @ + Cardinality(S)]
    BY <1>1, <2>1, <2>2, Zenon DEF Maintained
  <2>4. PICK n : n = Cardinality(S)
    OBVIOUS
  <2>5. ASSUME NEW e \in DOMAIN mail
        PROVE  e \in DOMAIN c.mail /\ mail[e].body = c.mail[e].body
    <3>1. Recalls(c, mail, c.nextQueue, c.nextQueue + n) /\ DOMAIN mail = DOMAIN c.mail
      <4>1. c.nextQueue \in Nat /\ c.nextQueue >= c.nextQueue
        BY DEF Typed
      <4>2. Recalls(c, mail, c.nextQueue, c.nextQueue + n)
        BY <2>1, <2>2, <2>4, <4>1, RenumberedRecalls
      <4>. QED
        BY <4>2 DEF Recalls
    <3>. QED
      BY <2>5, <3>1 DEF Recalls
  <2>6. Shaped(k) /\ SourcesPresent(k)
    BY <1>3, <2>3, <2>5
  <2>7. d.rt = k.rt /\ d.mail = k.mail
    BY <2>3, <2>4, <2>6 DEF Shaped, Fields
  <2>. QED
    BY <2>6, <2>7, SameSources
<1>5. ASSUME NEW op PROVE SourcesPresent(Tombstoned(c, op))
  <2>1. PICK d, k, gone, none :
           /\ d = Tombstoned(c, op) /\ k = Closed(m, c.mail, gone, none)
           /\ d = [k EXCEPT !.root = "tombstone", !.operation = op]
    BY <1>1, Zenon DEF Tombstoned
  <2>2. Shaped(k) /\ SourcesPresent(k)
    BY <1>3, <2>1
  <2>3. d.rt = k.rt /\ d.mail = k.mail
    BY <2>1, <2>2 DEF Shaped, Fields
  <2>. QED
    BY <2>1, <2>2, <2>3, SameSources
<1>. QED
  BY <1>4, <1>5

\* What a retained root may be given, by migration or for good, restores.
LEMMA ClosedValid ==
    ASSUME NEW c, Typed(c), Below(c), Traced(c), Valid(c), c.root = "retained"
    PROVE  /\ \A d \in Maintenances(c) : Valid(d) /\ Traced(d)
           /\ \A op : Valid(Tombstoned(c, op)) /\ Traced(Tombstoned(c, op))
<1>0. SourcesPresent(c) /\ SemanticsValid(c)
  BY DEF Valid
<1>1. Coherent(c) /\ c.next > 0 /\ SequencesValid(c)
  BY <1>0, ValidCoherent, ValidNext
<1>2. Allocated(c) /\ c.next # 0
  BY <1>1, RetainedAllocated DEF Typed
<1>3. ASSUME NEW d \in Maintenances(c) PROVE SemanticsValid(d) /\ Traced(d)
  <2>1. PICK mail, gone : Closes(c, d, mail, gone)
    BY <1>1, <1>2, MaintainedCloses
  <2>. QED
    BY <1>1, <2>1, ClosesValid
<1>4. ASSUME NEW op PROVE SemanticsValid(Tombstoned(c, op)) /\ Traced(Tombstoned(c, op))
  <2>1. PICK mail, gone : Closes(c, Tombstoned(c, op), mail, gone)
    BY <1>1, <1>2, TombstonedCloses
  <2>. QED
    BY <1>1, <2>1, ClosesValid
<1>. QED
  BY <1>0, <1>1, <1>2, <1>3, <1>4, ClosedSources DEF Valid

\* A batch as the function it is.
LEMMA BatchIs ==
    ASSUME NEW batch \in Batches
    PROVE  \E n \in Nat : /\ batch \in [1 .. n -> Delivery]
                          /\ \A i, j \in 1 .. n : i # j => batch[i].id # batch[j].id
<1>1. PICK n \in 1 .. MaxBatch : batch \in [1 .. n -> Delivery]
  BY DEF Batches
<1>2. n \in Nat /\ DOMAIN batch = 1 .. n
  BY <1>1, CheckpointAssumption
<1>3. \A i, j \in DOMAIN batch : i # j => batch[i].id # batch[j].id
  BY Zenon DEF Batches
<1>. QED
  BY <1>1, <1>2, <1>3

\* Every operation leaves traces of what it did.
LEMMA NextTraced ==
    ASSUME Apart, Stored, Recorded, Traced(cp), Next
    PROVE  Traced(cp')
<1>0. /\ Typed(cp) /\ Below(cp)
      /\ Present => Valid(cp) /\ cp.next > 0
      /\ ~Present => cp.pendingFx = <<>> /\ cp.terminalFx = <<>>
  BY DEF Stored, Recorded, Present
<1>1. ASSUME Create PROVE Traced(cp')
  <2>1. PICK d \in Creations : Stage(d)
    BY <1>1 DEF Create
  <2>. QED
    BY <2>1, StageStored, CreationsValid
<1>2. ASSUME NEW batch \in Batches, Admit(batch) PROVE Traced(cp')
  <2>1. Stage(Admitted(cp, batch))
    BY Zenon, <1>2 DEF Admit
  <2>2. cp' = Admitted(cp, batch)
    BY <2>1, StageStored
  <2>3. PICK n \in Nat : /\ batch \in [1 .. n -> Delivery]
                         /\ \A i, j \in 1 .. n : i # j => batch[i].id # batch[j].id
    BY BatchIs
  <2>. QED
    BY <1>0, <2>2, <2>3, AdmittedValid
<1>3. ASSUME NEW r, ProcessReady(r) PROVE Traced(cp')
  <2>1. PICK d \in Steps(cp, r) : Stage(d)
    BY Zenon, <1>3 DEF ProcessReady
  <2>2. cp.root = "retained" /\ Waiting(cp, r, "ready") # {}
    BY Zenon, <1>3 DEF ProcessReady, Runnable
  <2>3. Traced(d)
    BY <1>0, <2>2, StepsValid DEF Present, Valid
  <2>. QED
    BY <2>1, <2>3, StageStored
<1>4. ASSUME NEW delivery \in Delivery, ProcessDelivery(delivery) PROVE Traced(cp')
  <2>1. PICK d \in ProcessedDelivery(cp, delivery) : Stage(d)
    BY Zenon, <1>4 DEF ProcessDelivery
  <2>2. cp.root = "retained"
    BY ProcessedShape DEF Stored
  <2>3. Traced(d)
    BY <1>0, <2>2, ProcessedTraced DEF Present
  <2>. QED
    BY <2>1, <2>3, StageStored
<1>5. ASSUME MaintenanceMigration PROVE Traced(cp')
  <2>1. cp.root = "retained"
    BY Zenon, <1>5 DEF MaintenanceMigration
  <2>2. PICK d \in Maintenances(cp) : Stage(d)
    BY Zenon, <1>5 DEF MaintenanceMigration
  <2>3. Traced(d)
    BY <1>0, <2>1, ClosedValid DEF Present
  <2>. QED
    BY <2>2, <2>3, StageStored
<1>6. ASSUME NEW op, TombstoneRoot(op) PROVE Traced(cp')
  <2>1. cp.root = "retained" /\ Stage(Tombstoned(cp, op))
    BY Zenon, <1>6 DEF TombstoneRoot, MayTombstone
  <2>2. cp' = Tombstoned(cp, op)
    BY <2>1, StageStored
  <2>. QED
    BY <1>0, <2>1, <2>2, ClosedValid DEF Present
<1>7. ASSUME NEW f, UpdatePendingOutbox(f) PROVE Traced(cp')
  <2>1. Stage(Attempted(cp, f))
    BY Zenon, <1>7 DEF UpdatePendingOutbox
  <2>. QED
    BY <1>0, <2>1, StageStored, AttemptedTraced
<1>8. ASSUME NEW f, NEW outcome, TerminalizeOutbox(f, outcome) PROVE Traced(cp')
  <2>1. f \in DOMAIN cp.pendingFx /\ Stage(Terminalized(cp, f, outcome))
    BY Zenon, <1>8 DEF TerminalizeOutbox
  <2>2. Valid(cp)
    BY <1>0, <2>1, EmptyMap
  <2>3. Traced(Terminalized(cp, f, outcome))
    BY <1>0, <2>1, <2>2, TerminalizedValid
  <2>. QED
    BY <2>1, <2>3, StageStored
<1>9. ASSUME NEW f, CompactOutbox(f) PROVE Traced(cp')
  <2>1. f \in DOMAIN cp.terminalFx /\ Stage(Compacted(cp, f))
    BY Zenon, <1>9 DEF CompactOutbox
  <2>2. Valid(cp)
    BY <1>0, <2>1, EmptyMap
  <2>3. Traced(Compacted(cp, f))
    BY <1>0, <2>1, <2>2, CompactedRestorable
  <2>. QED
    BY <2>1, <2>3, StageStored
<1>10. ASSUME NEW cutoff \in 0 .. cp.next, Prune(cutoff) PROVE Traced(cp')
  <2>0. cutoff \in Nat
    BY <1>0 DEF Typed
  <2>1. Stage(Pruned(cp, cutoff)) /\ cutoff \in Nat
    BY Zenon, <1>10, <2>0 DEF Prune
  <2>2. PICK d : d = Pruned(cp, cutoff)
    OBVIOUS
  <2>3. NoneSettled(cp, d)
    BY <1>0, <2>2, PrunedShape, SameNoneSettled DEF Typed
  <2>4. /\ Trims(cp, d, cutoff)
        /\ d.tombstones = Merge(Compact(cp, Through(cp, cutoff)), cp.tombstones)
    BY <1>0, <2>1, <2>2, PrunedTyped
  <2>5. Traced(d)
    BY <1>0, <2>3, <2>4, TrimmedTraced
  <2>. QED
    BY <2>1, <2>2, <2>5, StageStored
<1>11. ASSUME NEW cutoff \in Cutoffs, UpdateReplayRetention(cutoff) PROVE Traced(cp')
  <2>1. Stage(Cut(cp, cutoff)) /\ cutoff \in Nat \cup {None}
    BY Zenon, <1>11, HostAssumption DEF UpdateReplayRetention
  <2>2. PICK d : d = Cut(cp, cutoff)
    OBVIOUS
  <2>3. NoneSettled(cp, d)
    BY <1>0, <2>2, CutShape, SameNoneSettled DEF Typed
  <2>4. Trims(cp, d, cutoff) /\ d.tombstones = cp.tombstones
    BY <1>0, <2>1, <2>2, CutTyped
  <2>5. Traced(d)
    BY <1>0, <2>3, <2>4, TrimmedTraced
  <2>. QED
    BY <2>1, <2>2, <2>5, StageStored
<1>. QED
  BY <1>1, <1>2, <1>3, <1>4, <1>5, <1>6, <1>7, <1>8, <1>9, <1>10, <1>11 DEF Next

\* Effects, references and derived ids lead to the step they came of: an effect
\* has the sequence of the receipt that emitted it, an emission's id that of a step
\* that was taken, and a reference to a mailbox an entry that waits there.  The
\* code relies on it where it builds a candidate and checks none of it.
THEOREM TracedInvariant ==
    ASSUME Events \cap (Nat \X Nat) = {}
    PROVE  Spec => []Traced(cp)
<1>1. Apart
  BY DEF Apart
<1>2. Init => Traced(cp)
  BY BlankCoherent DEF Init
<1>3. Stored /\ Recorded /\ Traced(cp) /\ [Next]_cp => Traced(cp)'
  <2>1. ASSUME Stored, Recorded, Traced(cp), Next PROVE Traced(cp)'
    BY <1>1, <2>1, NextTraced
  <2>2. ASSUME Traced(cp), UNCHANGED cp PROVE Traced(cp)'
    BY <2>2
  <2>. QED
    BY <2>1, <2>2
<1>. QED
  BY <1>2, <1>3, StoredInvariant, RecordedInvariant, PTL DEF Spec

\* In such a state every candidate restores.
LEMMA StoredCandidates ==
    ASSUME Apart, Stored, Recorded, Traced(cp)
    PROVE  CandidatesRestorable
<1>0. /\ Typed(cp) /\ Below(cp)
      /\ Present => Valid(cp)
  BY DEF Stored, Recorded
<1>1. CASE ~Present
  BY <1>1, CreationsRestore DEF CandidatesRestorable
<1>2. CASE Present
  <2>0. Valid(cp)
    BY <1>0, <1>2
  <2>1. ASSUME NEW b \in HostDeliveries(cp) PROVE Valid(Admitted(cp, b))
    <3>1. /\ b \in Batches /\ Acceptable(cp, b)
          /\ \A i \in DOMAIN b : b[i].body \notin Internal
      BY <2>1, Zenon DEF HostDeliveries
    <3>2. PICK n \in Nat : /\ b \in [1 .. n -> Delivery]
                           /\ \A i, j \in 1 .. n : i # j => b[i].id # b[j].id
      BY <3>1, BatchIs
    <3>3. \A i \in 1 .. n : b[i].body \notin Internal
      BY <3>1, <3>2
    <3>4. cp.root = "retained"
      BY <3>1, Zenon DEF Acceptable
    <3>. QED
      BY <1>0, <2>0, <3>2, <3>3, <3>4, AdmittedRestores
  <2>2. ASSUME NEW r \in Runtimes, Runnable(cp, r), NEW d \in Steps(cp, r)
        PROVE  StepRestorable(cp, d)
    <3>1. cp.root = "retained" /\ cp.rt[r] = "running" /\ Waiting(cp, r, "ready") # {}
      BY Zenon, <2>2 DEF Runnable
    <3>. QED
      BY <1>0, <2>0, <3>1, StepsRestorable
  <2>3. ASSUME cp.root = "retained", NEW d \in Maintenances(cp) PROVE Valid(d)
    BY <1>0, <2>0, <2>3, ClosedValid
  <2>4. ASSUME MayTombstone(cp), NEW op \in Operations PROVE Valid(Tombstoned(cp, op))
    <3>1. cp.root = "retained"
      BY Zenon, <2>4 DEF MayTombstone
    <3>. QED
      BY <1>0, <2>0, <3>1, ClosedValid
  <2>5. ASSUME NEW f \in DOMAIN cp.pendingFx, NEW o \in Outcomes
        PROVE  Valid(Terminalized(cp, f, o))
    BY <1>0, <2>0, TerminalizedValid
  <2>6. ASSUME NEW f \in DOMAIN cp.terminalFx PROVE Valid(Compacted(cp, f))
    BY <1>0, <2>0, CompactedRestorable
  <2>. QED
    BY <1>2, <2>1, <2>2, <2>3, <2>4, <2>5, <2>6 DEF CandidatesRestorable
<1>. QED
  BY <1>1, <1>2

\* What the host computes for its callers it can also store: every creation,
\* admission, migration, tombstone and edit of the outbox of a stored checkpoint
\* passes the checks of its restoration, and so does every step that removes no
\* runtime whose message still waits, for every set of runtimes, bodies and ids
\* whose callers do not choose the ids that steps derive.
THEOREM CandidatesAlwaysRestorable ==
    ASSUME Events \cap (Nat \X Nat) = {}
    PROVE  Spec => []CandidatesRestorable
<1>1. Apart
  BY DEF Apart
<1>2. Stored /\ Recorded /\ Traced(cp) => CandidatesRestorable
  BY <1>1, StoredCandidates
<1>. QED
  BY <1>2, StoredInvariant, RecordedInvariant, TracedInvariant, PTL
=============================================================================
