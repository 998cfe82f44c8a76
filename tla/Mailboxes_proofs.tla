--------------------------- MODULE Mailboxes_proofs ---------------------------
(***************************************************************************)
(* Proofs about Mailboxes for every tree of runtimes, behaviour table,     *)
(* capacity and bound.  The inductive invariant strengthens MailboxesValid *)
(* with the typing of the aggregate and with where internal event ids come *)
(* from: a step numbers its emissions with a step sequence not used yet.   *)
(* The properties of lifecycles stand on the tree of owners, and on what a *)
(* step tells of the lifecycles it moves (Outcome).                        *)
(***************************************************************************)
EXTENDS Mailboxes, FiniteSetTheorems, SequenceTheorems, TLAPS

\* An admission batch is a sequence of deliveries.
LEMMA BatchIsSequence ==
    ASSUME NEW batch \in Batches
    PROVE  /\ Len(batch) \in Nat
           /\ DOMAIN batch = 1 .. Len(batch)
           /\ \A i \in 1 .. Len(batch) : batch[i] \in Delivery
<1>1. PICK n \in 1 .. MaxBatch : batch \in [1 .. n -> Delivery]
  BY DEF Batches
<1>2. n \in Nat /\ batch \in Seq(Delivery)
  BY <1>1, BoundsAssumption, SeqDef
<1>3. QED
  BY <1>1, <1>2, LenProperties

\* Acceptance sequences are finitely many, and so is any set of entries.
LEMMA EntriesFinite ==
    ASSUME TypeOK, NEW S \in SUBSET DOMAIN box
    PROVE  IsFiniteSet(S) /\ Cardinality(S) \in Nat
<1>1. DOMAIN box = 0 .. nextAcceptance - 1 /\ nextAcceptance - 1 \in Int
  BY DEF TypeOK
<1>2. IsFiniteSet(DOMAIN box)
  BY <1>1, FS_Interval
<1>3. QED
  BY <1>2, FS_Subset, FS_CardinalityType

\* Recalled entries get distinct positions, fewer than there are of them.
LEMMA RanksDistinct ==
    ASSUME TypeOK, NEW S \in SUBSET DOMAIN box,
           \A a, b \in S : a # b => box[a].queue # box[b].queue
    PROVE  /\ \A a \in S : RecallRank(S, a) \in 0 .. Cardinality(S) - 1
           /\ \A a, b \in S : a # b => RecallRank(S, a) # RecallRank(S, b)
           /\ \A a, b \in S : box[a].queue < box[b].queue => RecallRank(S, a) < RecallRank(S, b)
<1> DEFINE Below(a) == {c \in S : box[c].queue < box[a].queue}
<1>1. \A a \in S : box[a].queue \in Nat
  BY DEF TypeOK, Entry
<1>2. \A a \in S : IsFiniteSet(Below(a)) /\ Cardinality(Below(a)) \in Nat
  BY EntriesFinite
<1>3. \A a, b \in S : box[a].queue < box[b].queue => Cardinality(Below(a)) < Cardinality(Below(b))
  <2> SUFFICES ASSUME NEW a \in S, NEW b \in S, box[a].queue < box[b].queue
               PROVE  Cardinality(Below(a)) < Cardinality(Below(b))
    OBVIOUS
  <2>1. Below(a) \in SUBSET Below(b) /\ a \in Below(b) /\ a \notin Below(a)
    BY <1>1
  <2>2. Cardinality(Below(a)) <= Cardinality(Below(b)) /\ Cardinality(Below(a)) # Cardinality(Below(b))
    BY <2>1, <1>2, FS_Subset
  <2>3. QED
    <3> HIDE DEF Below
    <3> QED
      BY <2>2, <1>2
<1>4. \A a \in S : Cardinality(Below(a)) < Cardinality(S)
  <2> SUFFICES ASSUME NEW a \in S
               PROVE  Cardinality(Below(a)) < Cardinality(S)
    OBVIOUS
  <2>1. Below(a) \in SUBSET S /\ a \notin Below(a)
    BY <1>1
  <2>2. IsFiniteSet(S) /\ Cardinality(S) \in Nat
    BY EntriesFinite
  <2>3. Cardinality(Below(a)) <= Cardinality(S) /\ Cardinality(Below(a)) # Cardinality(S)
    BY <2>1, <2>2, FS_Subset
  <2>4. QED
    <3> HIDE DEF Below
    <3> QED
      BY <2>2, <2>3, <1>2
<1>5. \A a \in S : RecallRank(S, a) = Cardinality(Below(a))
  BY DEF RecallRank
<1> HIDE DEF Below
<1>6. ASSUME NEW a \in S, NEW b \in S, a # b
      PROVE  RecallRank(S, a) # RecallRank(S, b)
  <2>1. CASE box[a].queue < box[b].queue
    BY <2>1, <1>2, <1>3, <1>5
  <2>2. CASE box[b].queue < box[a].queue
    BY <2>2, <1>2, <1>3, <1>5
  <2>3. QED
    BY <2>1, <2>2, <1>1, <1>6
<1>7. Cardinality(S) \in Nat
  BY EntriesFinite
<1>8. \A a \in S : RecallRank(S, a) \in 0 .. Cardinality(S) - 1
  BY <1>2, <1>4, <1>5, <1>7
<1>9. \A a, b \in S : box[a].queue < box[b].queue => RecallRank(S, a) < RecallRank(S, b)
  BY <1>3, <1>5
<1> QED
  BY <1>6, <1>8, <1>9

-----------------------------------------------------------------------------
(* What Commit does, entry by entry.                                       *)

\* Commit keeps the entries it has, ends the head and what leaves with the removed
\* runtimes, and appends the emissions in order.
LEMMA CommitEntries ==
    ASSUME TypeOK, NEW h, NEW fate, NEW st, NEW ems, NEW S, Commit(h, fate, st, ems, S)
    PROVE  /\ Len(ems) \in Nat
           /\ \A k \in 1 .. Len(ems) : ems[k] \in Emission
           /\ DOMAIN box = 0 .. nextAcceptance - 1
           /\ nextAcceptance' = nextAcceptance + Len(ems)
           /\ nextQueue' = nextQueue + (Len(ems) + Cardinality(S))
           /\ status' = st
           /\ box' = [a \in 0 .. nextAcceptance' - 1 |->
                        IF a < nextAcceptance THEN Settled(a, h, fate, st, ems, S)
                        ELSE Emitted(ems, a - nextAcceptance + 1, st)]
           /\ \A a \in DOMAIN box : a \in DOMAIN box' /\ box'[a] = Settled(a, h, fate, st, ems, S)
           /\ \A a \in DOMAIN box' \ DOMAIN box :
                 /\ a - nextAcceptance + 1 \in 1 .. Len(ems)
                 /\ box'[a] = Emitted(ems, a - nextAcceptance + 1, st)
<1>1. ems \in Seq(Emission)
  BY DEF Commit
<1>2. Len(ems) \in Nat /\ \A k \in 1 .. Len(ems) : ems[k] \in Emission
  BY <1>1, LenProperties, ElementOfSeq
<1>3. /\ nextAcceptance' = nextAcceptance + Len(ems)
      /\ nextQueue' = nextQueue + (Len(ems) + Cardinality(S))
      /\ status' = st
      /\ box' = [a \in 0 .. nextAcceptance + Len(ems) - 1 |->
                   IF a < nextAcceptance THEN Settled(a, h, fate, st, ems, S)
                   ELSE Emitted(ems, a - nextAcceptance + 1, st)]
  BY DEF Commit, AdvanceAcceptance, AdvanceQueue
<1>4. DOMAIN box = 0 .. nextAcceptance - 1 /\ nextAcceptance \in Nat
  BY DEF TypeOK
<1>5. \A a \in DOMAIN box : a \in DOMAIN box' /\ box'[a] = Settled(a, h, fate, st, ems, S)
  BY <1>2, <1>3, <1>4
<1>6. \A a \in DOMAIN box' \ DOMAIN box :
         /\ a - nextAcceptance + 1 \in 1 .. Len(ems)
         /\ box'[a] = Emitted(ems, a - nextAcceptance + 1, st)
  BY <1>2, <1>3, <1>4
<1>7. QED
  BY <1>2, <1>3, <1>4, <1>5, <1>6

\* A commit keeps the types, whatever it disposes of, emits and recalls.
LEMMA CommitTyped ==
    ASSUME TypeOK, NEW h, NEW fate \in Dispositions, NEW st \in [Runtimes -> Status],
           NEW ems, NEW S \in SUBSET DOMAIN box,
           \A a, b \in S : a # b => box[a].queue # box[b].queue,
           Commit(h, fate, st, ems, S)
    PROVE  /\ status' \in [Runtimes -> Status]
           /\ nextAcceptance' \in Nat
           /\ nextQueue' \in Nat
           /\ box' \in [0 .. nextAcceptance' - 1 -> Entry]
<1>1. Cardinality(S) \in Nat /\ \A a \in S : RecallRank(S, a) \in Nat
  <2>1. Cardinality(S) \in Nat
    BY EntriesFinite
  <2>2. \A a \in S : RecallRank(S, a) \in 0 .. Cardinality(S) - 1
    BY RanksDistinct
  <2>3. QED
    BY <2>1, <2>2
<1>2. nextAcceptance' \in Nat /\ nextQueue' \in Nat /\ status' = st
  <2>1. Len(ems) \in Nat /\ nextAcceptance \in Nat /\ nextQueue \in Nat
    BY CommitEntries DEF TypeOK
  <2>2. /\ nextAcceptance' = nextAcceptance + Len(ems)
        /\ nextQueue' = nextQueue + (Len(ems) + Cardinality(S))
        /\ status' = st
    BY CommitEntries
  <2>3. QED
    BY <1>1, <2>1, <2>2
<1>3. ASSUME NEW a \in DOMAIN box
      PROVE  Settled(a, h, fate, st, ems, S) \in Entry
  <2>1. box[a] \in Entry
    BY DEF TypeOK
  <2>2. fate \in Waiting \cup Dispositions /\ "ready" \in Waiting \cup Dispositions
        /\ DisposalReason(box[a].target, st) \in Waiting \cup Dispositions
    BY DEF Dispositions, Waiting, DisposalReason
  <2>3. a \in S => nextQueue + Len(ems) + RecallRank(S, a) \in Nat
    BY <1>1, CommitEntries DEF TypeOK
  <2>4. QED
    BY <2>1, <2>2, <2>3 DEF Settled, Entry
<1>4. ASSUME NEW k \in 1 .. Len(ems)
      PROVE  Emitted(ems, k, st) \in Entry
  <2>1. ems[k] \in Emission /\ k \in Nat /\ nextStep \in Nat /\ nextQueue + k - 1 \in Nat
    BY CommitEntries DEF TypeOK
  <2>2. <<"step", nextStep, k>> \in Ids
    BY <2>1 DEF Ids
  <2>3. EmissionPlace(ems[k].target, st) \in Waiting \cup Dispositions
    BY DEF EmissionPlace, Waiting, Dispositions
  <2>4. QED
    BY <2>1, <2>2, <2>3 DEF Emitted, Emission, Entry
<1>5. box' \in [0 .. nextAcceptance' - 1 -> Entry]
  <2>1. /\ DOMAIN box' = 0 .. nextAcceptance' - 1
        /\ box' = [a \in DOMAIN box' |-> box'[a]]
    BY CommitEntries
  <2>2. \A a \in DOMAIN box' : box'[a] \in Entry
    BY <1>3, <1>4, CommitEntries
  <2>3. QED
    BY <2>1, <2>2
<1>6. QED
  BY <1>2, <1>5

-----------------------------------------------------------------------------
(* The inductive invariant.                                                *)

\* No entry has an id that a step to come will give to one of its emissions.
IdsBelow ==
    \A a \in DOMAIN box : \A n, k \in Nat : box[a].id = <<"step", n, k>> => n < nextStep

Inv == TypeOK /\ MailboxesValid /\ IdsBelow

\* The entries that are pending after a commit were pending, or are new.
LEMMA PendingAfterCommit ==
    ASSUME TypeOK, NEW h, NEW fate \in Dispositions, NEW st, NEW ems, NEW S \in SUBSET Pending,
           Commit(h, fate, st, ems, S)
    PROVE  \A a \in DOMAIN box : a \in Pending' =>
              /\ a \in Pending /\ a # h
              /\ a \in S => box'[a] = [box[a] EXCEPT !.place = "ready",
                                          !.queue = nextQueue + Len(ems) + RecallRank(S, a)]
              /\ a \notin S => box'[a] = box[a] /\ ~Ended(box[a].target, st)
<1> SUFFICES ASSUME NEW a \in DOMAIN box, a \in Pending'
             PROVE  /\ a \in Pending /\ a # h
                    /\ a \in S => box'[a] = [box[a] EXCEPT !.place = "ready",
                                                !.queue = nextQueue + Len(ems) + RecallRank(S, a)]
                    /\ a \notin S => box'[a] = box[a] /\ ~Ended(box[a].target, st)
  OBVIOUS
<1>1. box'[a] = Settled(a, h, fate, st, ems, S) /\ box'[a].place \in Waiting
  BY CommitEntries DEF Pending
<1>2. box[a] \in Entry
  BY DEF TypeOK
<1>3. fate \notin Waiting /\ DisposalReason(box[a].target, st) \notin Waiting
  BY DEF Dispositions, Waiting, DisposalReason
<1>4. a # h
  BY <1>1, <1>2, <1>3 DEF Settled, Entry
<1>5. a \in S \/ (a \notin S /\ box'[a] = box[a] /\ ~(a \in Pending /\ Ended(box[a].target, st)))
  BY <1>1, <1>2, <1>3, <1>4 DEF Settled, Entry
<1>6. a \in Pending
  BY <1>1, <1>5 DEF Pending
<1>7. QED
  BY <1>1, <1>4, <1>5, <1>6 DEF Settled

\* A commit keeps the mailboxes valid: recalled and emitted entries take fresh
\* queue sequences, and emitted ones the ids of a step sequence never used.
LEMMA CommitKeepsValid ==
    ASSUME Inv, NEW h, NEW fate \in Dispositions, NEW st, NEW ems, NEW S \in SUBSET Pending,
           Commit(h, fate, st, ems, S)
    PROVE  MailboxesValid'
<1> USE DEF Inv
<1>1. /\ S \in SUBSET DOMAIN box
      /\ \A a, b \in S : a # b => box[a].queue # box[b].queue
  BY DEF Pending, MailboxesValid
<1>2. /\ Cardinality(S) \in Nat
      /\ \A a \in S : RecallRank(S, a) \in 0 .. Cardinality(S) - 1
      /\ \A a, b \in S : a # b => RecallRank(S, a) # RecallRank(S, b)
  BY <1>1, EntriesFinite, RanksDistinct
<1>3. /\ Len(ems) \in Nat /\ nextQueue \in Nat /\ nextAcceptance \in Nat /\ nextStep \in Nat
      /\ nextQueue' = nextQueue + Len(ems) + Cardinality(S)
  BY <1>2, CommitEntries DEF TypeOK
<1>0. \A a \in DOMAIN box : a \in Pending' =>
         /\ a \in Pending /\ a # h
         /\ a \in S => box'[a] = [box[a] EXCEPT !.place = "ready",
                                     !.queue = nextQueue + Len(ems) + RecallRank(S, a)]
         /\ a \notin S => box'[a] = box[a] /\ ~Ended(box[a].target, st)
  BY PendingAfterCommit
<1>4. ASSUME NEW a \in Pending', a \in DOMAIN box
      PROVE  /\ a \in Pending /\ a # h
             /\ box'[a].id = box[a].id
             /\ box[a].queue \in Nat /\ box[a].queue < nextQueue
             /\ a \in S => box'[a].queue = nextQueue + Len(ems) + RecallRank(S, a)
             /\ a \notin S => box'[a].queue = box[a].queue
  <2>1. box[a] \in Entry
    BY <1>4 DEF TypeOK
  <2>2. /\ a \in Pending
        /\ a \in S => box'[a] = [box[a] EXCEPT !.place = "ready",
                                    !.queue = nextQueue + Len(ems) + RecallRank(S, a)]
        /\ a \notin S => box'[a] = box[a]
    BY <1>0, <1>4
  <2>3. a # h
    BY <1>0, <1>4
  <2>4. box[a].queue \in Nat /\ box[a].queue < nextQueue
    BY <2>1, <2>2 DEF Entry, MailboxesValid
  <2>5. CASE a \in S
    <3>1. box'[a] = [box[a] EXCEPT !.place = "ready",
                                   !.queue = nextQueue + Len(ems) + RecallRank(S, a)]
      BY <2>2, <2>5
    <3>2. box'[a].id = box[a].id /\ box'[a].queue = nextQueue + Len(ems) + RecallRank(S, a)
      BY <2>1, <3>1 DEF Entry
    <3>3. QED
      BY <2>2, <2>3, <2>4, <2>5, <3>2
  <2>6. CASE a \notin S
    <3>1. box'[a] = box[a]
      BY <2>2, <2>6
    <3>2. QED
      BY <2>2, <2>3, <2>4, <2>6, <3>1
  <2>7. QED
    BY <2>5, <2>6
<1>5. ASSUME NEW a \in Pending', a \notin DOMAIN box
      PROVE  \E k \in 1 .. Len(ems) :
                /\ a = nextAcceptance + k - 1
                /\ box'[a].id = <<"step", nextStep, k>>
                /\ box'[a].queue = nextQueue + k - 1
  <2>1. a \in DOMAIN box'
    BY DEF Pending
  <2>2. /\ a - nextAcceptance + 1 \in 1 .. Len(ems)
        /\ box'[a] = Emitted(ems, a - nextAcceptance + 1, st)
    BY <1>5, <2>1, CommitEntries
  <2>3. a \in Int
    BY <2>1, CommitEntries, <1>3
  <2>4. a = nextAcceptance + (a - nextAcceptance + 1) - 1
    BY <2>3, <1>3
  <2>5. QED
    BY <2>2, <2>4 DEF Emitted
<1>6. ASSUME NEW a \in Pending', NEW b \in Pending'
      PROVE  /\ box'[a].queue < nextQueue'
             /\ a # b => box'[a].queue # box'[b].queue
  <2>1. CASE a \in DOMAIN box /\ b \in DOMAIN box
    BY <2>1, <1>2, <1>3, <1>4 DEF MailboxesValid
  <2>2. CASE a \in DOMAIN box /\ b \notin DOMAIN box
    BY <2>2, <1>2, <1>3, <1>4, <1>5
  <2>3. CASE a \notin DOMAIN box /\ b \in DOMAIN box
    BY <2>3, <1>2, <1>3, <1>4, <1>5
  <2>4. CASE a \notin DOMAIN box /\ b \notin DOMAIN box
    BY <2>4, <1>2, <1>3, <1>5
  <2>5. QED
    BY <2>1, <2>2, <2>3, <2>4
<1>7. ASSUME NEW a \in Pending', NEW b \in Pending', a # b
      PROVE  box'[a].id # box'[b].id
  <2>1. CASE a \in DOMAIN box /\ b \in DOMAIN box
    BY <2>1, <1>4, <1>7 DEF MailboxesValid
  <2>2. ASSUME NEW x \in Pending', x \in DOMAIN box, NEW k \in Nat
        PROVE  box'[x].id # <<"step", nextStep, k>>
    BY <2>2, <1>3, <1>4 DEF IdsBelow
  <2>3. CASE a \in DOMAIN box /\ b \notin DOMAIN box
    BY <2>2, <2>3, <1>5
  <2>4. CASE a \notin DOMAIN box /\ b \in DOMAIN box
    BY <2>2, <2>4, <1>5
  <2>5. CASE a \notin DOMAIN box /\ b \notin DOMAIN box
    BY <2>5, <1>5, <1>7
  <2>6. QED
    BY <2>1, <2>3, <2>4, <2>5
<1>8. QED
  BY <1>6, <1>7 DEF MailboxesValid

\* A commit keeps the invariant, if a step that emits uses up its step sequence.
LEMMA CommitKeepsInv ==
    ASSUME Inv, NEW h, NEW fate \in Dispositions, NEW st \in [Runtimes -> Status],
           NEW ems, NEW S \in SUBSET Pending, Commit(h, fate, st, ems, S),
           mode' \in [Runtimes -> Modes],
           nextStep' = nextStep + 1 \/ (nextStep' = nextStep /\ ems = <<>>)
    PROVE  Inv'
<1> USE DEF Inv
<1>1. /\ S \in SUBSET DOMAIN box
      /\ \A a, b \in S : a # b => box[a].queue # box[b].queue
  BY DEF Pending, MailboxesValid
<1>2. nextStep \in Nat /\ nextStep' \in Nat
  BY DEF TypeOK
<1>3. /\ status' \in [Runtimes -> Status]
      /\ nextAcceptance' \in Nat
      /\ nextQueue' \in Nat
      /\ box' \in [0 .. nextAcceptance' - 1 -> Entry]
  BY <1>1, CommitTyped
<1>4. TypeOK'
  BY <1>2, <1>3 DEF TypeOK
<1>5. MailboxesValid'
  BY CommitKeepsValid
<1>6. ASSUME NEW a \in DOMAIN box', NEW n \in Nat, NEW k \in Nat, box'[a].id = <<"step", n, k>>
      PROVE  n < nextStep'
  <2>1. CASE a \in DOMAIN box
    <3>1. box'[a] = Settled(a, h, fate, st, ems, S)
      BY <2>1, CommitEntries
    <3>2. box'[a].id = box[a].id
      BY <2>1, <3>1 DEF Settled, TypeOK, Entry
    <3>3. n < nextStep
      BY <1>6, <2>1, <3>2 DEF IdsBelow
    <3>4. QED
      BY <1>2, <3>3
  <2>2. CASE a \notin DOMAIN box
    <3>1. /\ a - nextAcceptance + 1 \in 1 .. Len(ems)
          /\ box'[a] = Emitted(ems, a - nextAcceptance + 1, st)
      BY <2>2, CommitEntries
    <3>2. nextStep' = nextStep + 1
      BY <3>1, EmptySeq
    <3>3. n = nextStep
      BY <1>6, <3>1 DEF Emitted
    <3>4. QED
      BY <1>2, <3>2, <3>3
  <2>3. QED
    BY <2>1, <2>2
<1>7. IdsBelow'
  BY <1>6 DEF IdsBelow
<1>8. QED
  BY <1>4, <1>5, <1>7

-----------------------------------------------------------------------------
(* Every action is a commit, an admission or a deferral.                   *)

Live == {x \in Runtimes : status[x] \in {"running", "faulted"}}

\* A commit that respects what mailboxes need: runtimes that were live do not
\* become absent, only a running runtime gets its entries recalled, and what
\* is left deferred is deferred by the new mode or by an unchanged one.
Respects(st, S) ==
    /\ \A x \in Live : st[x] # "absent"
    /\ \A a \in S : st[box[a].target] = "running"
    /\ \A a \in DOMAIN box \ S :
          LET x == box[a].target
          IN /\ box[a].place = "deferred"
             /\ x \in Live
             /\ st[x] = "running"
             => \/ StructurallyDeferred(mode'[x], box[a].event)
                \/ status[x] = "running" /\ mode'[x] = mode[x]

\* A creation takes no delivery; a step takes the head of a runtime that may be
\* stepped, and recalls what was deferred for the same runtime.
Takes(h, fate, S) ==
    /\ fate \in {"handled", "unhandled", "faulted"}
    /\ \/ h = -1 /\ NoAggregate /\ S = {} /\ status'[Root] # "absent"
       \/ /\ h \in DOMAIN box /\ status[Root] = "running"
          /\ Eligible(box[h].target) /\ IsHead(box[h].target, h)
          /\ \A a \in S : box[a].place = "deferred" /\ box[a].target = box[h].target

CommitStep ==
    \E h : \E fate \in Dispositions : \E st \in [Runtimes -> Status] :
    \E ems : \E S \in SUBSET Pending :
       /\ Commit(h, fate, st, ems, S)
       /\ mode' \in [Runtimes -> Modes]
       /\ nextStep' = nextStep + 1 \/ (nextStep' = nextStep /\ ems = <<>>)
       /\ Respects(st, S)
       /\ Takes(h, fate, S)

\* The dispositions a step may give to the delivery it processes.
LEMMA DispositionsListed == /\ "handled" \in Dispositions
                            /\ "unhandled" \in Dispositions
                            /\ "faulted" \in Dispositions
BY DEF Dispositions

\* The head a step selects is one it may take.
LEMMA SelectedTakes ==
    ASSUME NEW r, NEW h \in DOMAIN box, Selects(r, h), NEW fate \in {"handled", "unhandled", "faulted"},
           NEW S, \A a \in S : box[a].place = "deferred" /\ box[a].target = r
    PROVE  Takes(h, fate, S)
<1>1. box[h].target = r
  BY DEF Selects, IsHead, InMailbox
<1>2. QED
  BY <1>1 DEF Selects, Takes

\* A step that recalls nothing and keeps the modes of the runtimes that run on
\* respects the mailboxes.
LEMMA PlainStep ==
    ASSUME NEW h, NEW fate \in Dispositions, NEW st \in [Runtimes -> Status], NEW ems,
           Commit(h, fate, st, ems, {}),
           mode' \in [Runtimes -> Modes],
           nextStep' = nextStep + 1 \/ (nextStep' = nextStep /\ ems = <<>>),
           Takes(h, fate, {}),
           \A x \in Live : st[x] # "absent" /\ (st[x] = "running"
                              => status[x] = "running" /\ mode'[x] = mode[x])
    PROVE  CommitStep
<1>1. Respects(st, {})
  BY DEF Respects
<1>2. {} \in SUBSET Pending
  OBVIOUS
<1>3. QED
  BY <1>1, <1>2 DEF CommitStep

\* A step of r, with what it creates and removes, leaves statuses.
LEMMA AfterTyped ==
    ASSUME TypeOK, NEW r \in Runtimes, NEW own \in {"running", "completed", "removed"},
           NEW created \in SUBSET {c \in Runtimes : status[c] = "absent"},
           NEW init \in InitResults(created), NEW removed
    PROVE  /\ After(r, own, created, init, removed) \in [Runtimes -> Status]
           /\ \A x \in Live : /\ After(r, own, created, init, removed)[x] # "absent"
                              /\ x # r /\ After(r, own, created, init, removed)[x] = "running"
                                    => status[x] = "running"
<1>1. \A x \in created : init[x] \in {"running", "faulted", "completed", "removed"}
  BY DEF InitResults
<1>2. \A x \in Runtimes : status[x] \in Status
  BY DEF TypeOK
<1>3. QED
  BY <1>1, <1>2 DEF After, Status, Live

\* Runtimes keep their mode unless the step makes them enter one.
LEMMA EnteredTyped ==
    ASSUME TypeOK, NEW X \in SUBSET Runtimes, NEW md \in [X -> Modes]
    PROVE  /\ Entered(md) \in [Runtimes -> Modes]
           /\ \A x \in Runtimes \ X : Entered(md)[x] = mode[x]
           /\ \A x \in X : Entered(md)[x] = md[x]
BY DEF TypeOK, Entered

\* Creating the root is one commit, with nothing handled.
LEMMA CreateCommits == TypeOK /\ Create => CommitStep
<1> SUFFICES ASSUME TypeOK, Create PROVE CommitStep
  OBVIOUS
<1>1. NoAggregate
  BY DEF Create
<1>2. PICK created \in SUBSET NonRoot :
        \E init \in InitResults(created) :
        \E md \in [Running(created, init) \cup {Root} -> Modes] : \E ems :
           /\ Commit(-1, "handled", After(Root, "running", created, init, {}), ems, {})
           /\ mode' = Entered(md)
  BY DEF Create
<1>3. PICK init \in InitResults(created) :
        \E md \in [Running(created, init) \cup {Root} -> Modes] : \E ems :
           /\ Commit(-1, "handled", After(Root, "running", created, init, {}), ems, {})
           /\ mode' = Entered(md)
  BY <1>2
<1>4. PICK md \in [Running(created, init) \cup {Root} -> Modes] : \E ems :
        /\ Commit(-1, "handled", After(Root, "running", created, init, {}), ems, {})
        /\ mode' = Entered(md)
  BY <1>3
<1> DEFINE st == After(Root, "running", created, init, {})
<1>5. PICK ems : Commit(-1, "handled", st, ems, {})
  BY <1>4
<1>6. /\ created \in SUBSET {c \in Runtimes : status[c] = "absent"}
      /\ Running(created, init) \cup {Root} \in SUBSET Runtimes
  BY <1>1, OwnershipAssumption DEF NonRoot, Running, NoAggregate
<1>7. st \in [Runtimes -> Status]
  BY <1>6, OwnershipAssumption, AfterTyped
<1>8. mode' \in [Runtimes -> Modes]
  BY <1>4, <1>6, EnteredTyped
<1>9. nextStep' = nextStep + 1
  BY DEF Create
<1>10. Live = {}
  BY <1>1 DEF Live, NoAggregate
<1>11. Takes(-1, "handled", {})
  <2>1. status' = st /\ st[Root] = "running"
    BY <1>5, OwnershipAssumption DEF Commit, After
  <2>2. QED
    BY <1>1, <2>1 DEF Takes
<1> HIDE DEF st
<1>12. QED
  BY <1>5, <1>7, <1>8, <1>9, <1>10, <1>11, DispositionsListed, PlainStep

\* So is creating a root that ends at once.
LEMMA CreateEndedCommits == TypeOK /\ CreateEnded => CommitStep
<1> SUFFICES ASSUME TypeOK, CreateEnded PROVE CommitStep
  OBVIOUS
<1>1. PICK own \in {"completed", "faulted"} : \E ems :
        Commit(-1, "handled", [status EXCEPT ![Root] = own], ems, {})
  BY DEF CreateEnded
<1>2. PICK ems : Commit(-1, "handled", [status EXCEPT ![Root] = own], ems, {})
  BY <1>1
<1>3. /\ [status EXCEPT ![Root] = own] \in [Runtimes -> Status]
      /\ mode' \in [Runtimes -> Modes]
      /\ nextStep' = nextStep + 1
  BY DEF CreateEnded, TypeOK, Status
<1>4. Live = {} /\ NoAggregate
  BY DEF CreateEnded, Live, NoAggregate
<1>6. Takes(-1, "handled", {})
  <2>1. status' = [status EXCEPT ![Root] = own] /\ status \in [Runtimes -> Status]
    BY <1>2 DEF Commit, TypeOK
  <2>2. status'[Root] = own
    BY <2>1, OwnershipAssumption
  <2>3. QED
    BY <1>4, <2>2 DEF Takes
<1>5. QED
  BY <1>2, <1>3, <1>4, <1>6, DispositionsListed, PlainStep

\* A step that handles nothing ends its head and changes nothing else.
LEMMA StepUnhandledCommits ==
    ASSUME TypeOK, NEW r \in Runtimes, NEW h \in DOMAIN box, StepUnhandled(r, h)
    PROVE  CommitStep
<1>1. /\ Commit(h, "unhandled", status, <<>>, {})
      /\ status \in [Runtimes -> Status]
      /\ mode' = mode /\ mode' \in [Runtimes -> Modes]
      /\ nextStep' = nextStep
  BY DEF StepUnhandled, TypeOK
<1>2. \A x \in Live : status[x] # "absent"
  BY DEF Live
<1>3. Takes(h, "unhandled", {})
  BY SelectedTakes DEF StepUnhandled
<1>4. QED
  BY <1>1, <1>2, <1>3, DispositionsListed, PlainStep

\* A fault emits at most one report and changes the status of one runtime.
LEMMA FaultCommits ==
    ASSUME TypeOK, NEW r \in Runtimes, NEW h \in DOMAIN box, Selects(r, h), Fault(r, h)
    PROVE  CommitStep
<1> DEFINE ems == IF r = Root THEN <<>> ELSE <<FailureReport(r)>>
           st == [status EXCEPT ![r] = "faulted"]
<1>1. Commit(h, "faulted", st, ems, {}) /\ mode' = mode /\ nextStep' = nextStep + 1
  BY DEF Fault
<1>2. st \in [Runtimes -> Status] /\ mode' \in [Runtimes -> Modes]
  BY <1>1 DEF TypeOK, Status
<1>3. \A x \in Live : st[x] # "absent" /\ (st[x] = "running" => status[x] = "running")
  BY DEF Live, TypeOK
<1>4. Takes(h, "faulted", {})
  BY SelectedTakes
<1> HIDE DEF ems, st
<1>5. QED
  BY <1>1, <1>2, <1>3, <1>4, DispositionsListed, PlainStep

\* The recall of a handled step looks at every entry deferred for its runtime.
LEMMA StepHandledCommits ==
    ASSUME TypeOK, NEW r \in Runtimes, NEW h \in DOMAIN box, StepHandled(r, h)
    PROVE  CommitStep
<1> DEFINE Absent == {c \in Descendants(r) : status[c] = "absent"}
<1>1. \E leaves \in BOOLEAN : \E tops \in SUBSET Cancellable(r) : \E created \in SUBSET Absent :
      \E init \in InitResults(created) : \E md \in [Running(created, init) \cup {r} -> Modes] :
         Transition(r, h, leaves, tops, created, init, md)
  BY DEF StepHandled
<1>2. PICK leaves \in BOOLEAN, tops \in SUBSET Cancellable(r), created \in SUBSET Absent :
         \E init \in InitResults(created) : \E md \in [Running(created, init) \cup {r} -> Modes] :
            Transition(r, h, leaves, tops, created, init, md)
  BY <1>1
<1>3. PICK init \in InitResults(created) : \E md \in [Running(created, init) \cup {r} -> Modes] :
         Transition(r, h, leaves, tops, created, init, md)
  BY <1>2
<1>4. PICK md \in [Running(created, init) \cup {r} -> Modes] :
         Transition(r, h, leaves, tops, created, init, md)
  BY <1>3
<1> DEFINE st == After(r, "running", created, init, Removed(r, tops, leaves))
           X == Running(created, init) \cup {r}
           S == Recalled(r, md[r])
<1>5. mode' = Entered(md) /\ \E ems : Commit(h, "handled", st, ems, S)
  BY <1>4 DEF Transition
<1>6. PICK ems : Commit(h, "handled", st, ems, S)
  BY <1>5
<1>7. /\ created \in SUBSET {c \in Runtimes : status[c] = "absent"}
      /\ X \in SUBSET Runtimes
      /\ \A x \in X : x = r \/ status[x] = "absent"
  BY DEF Descendants, Subtree, Running
<1>8. /\ st \in [Runtimes -> Status]
      /\ \A x \in Live : st[x] # "absent" /\ (x # r /\ st[x] = "running" => status[x] = "running")
  <2>1. "running" \in {"running", "completed", "removed"}
    OBVIOUS
  <2>2. QED
    BY <1>7, <2>1, AfterTyped
<1>15. st[r] = "running"
  BY DEF After
<1>9. /\ mode' \in [Runtimes -> Modes]
      /\ mode'[r] = md[r]
      /\ \A x \in Live : x # r => mode'[x] = mode[x]
  BY <1>5, <1>7, EnteredTyped DEF Live
<1>10. S \in SUBSET Pending /\ \A a \in S : box[a].target = r
  BY DEF Recalled, InMailbox, Pending, Waiting
<1>11. \A a \in DOMAIN box \ S : box[a].target = r /\ box[a].place = "deferred"
          => StructurallyDeferred(mode'[r], box[a].event)
  BY <1>9 DEF Recalled, InMailbox
<1>12. nextStep' = nextStep + 1
  BY DEF StepHandled
<1> HIDE DEF st, S
<1>13. Respects(st, S)
  BY <1>8, <1>9, <1>10, <1>11, <1>15 DEF Respects
<1>14. Takes(h, "handled", S)
  <2>1. \A a \in S : box[a].place = "deferred" /\ box[a].target = r
    BY DEF S, Recalled, InMailbox
  <2>2. QED
    BY <2>1, SelectedTakes DEF StepHandled
<1>16. QED
  BY <1>6, <1>8, <1>9, <1>10, <1>12, <1>13, <1>14, DispositionsListed DEF CommitStep

\* A step that completes its runtime removes everything the runtime owns.
LEMMA StepCompletedCommits ==
    ASSUME TypeOK, NEW r \in Runtimes, NEW h \in DOMAIN box, StepCompleted(r, h)
    PROVE  CommitStep
<1> DEFINE removed == Present \cap Descendants(r)
           own == IF Role[r] = "spawned" THEN "removed" ELSE "completed"
           st == After(r, own, {}, <<>>, removed)
<1>1. PICK ems : Commit(h, "handled", st, ems, {})
  BY DEF StepCompleted
<1>2. /\ st \in [Runtimes -> Status]
      /\ \A x \in Live : st[x] # "absent" /\ (st[x] = "running" => status[x] = "running")
  BY DEF After, TypeOK, Status, Live
<1>3. mode' = mode /\ mode' \in [Runtimes -> Modes] /\ nextStep' = nextStep + 1
  BY DEF StepCompleted, TypeOK
<1>4. Takes(h, "handled", {})
  BY SelectedTakes DEF StepCompleted
<1> HIDE DEF st
<1>5. QED
  BY <1>1, <1>2, <1>3, <1>4, DispositionsListed, PlainStep

\* What can happen to an aggregate.
LEMMA NextCases ==
    ASSUME TypeOK, Next
    PROVE  \/ CommitStep
           \/ \E batch \in Batches : Admit(batch)
           \/ \E r \in Runtimes : \E h \in DOMAIN box : StepDeferred(r, h)
<1>1. CASE Create
  BY <1>1, CreateCommits
<1>2. CASE CreateEnded
  BY <1>2, CreateEndedCommits
<1>3. CASE \E batch \in Batches : Admit(batch)
  BY <1>3
<1>4. ASSUME NEW r \in Runtimes, NEW h \in DOMAIN box, Step(r, h)
      PROVE  CommitStep \/ StepDeferred(r, h)
  <2>1. CASE StepUnhandled(r, h)
    BY <2>1, StepUnhandledCommits
  <2>2. CASE StepOverflow(r, h)
    BY <2>2, FaultCommits DEF StepOverflow
  <2>3. CASE StepFaulted(r, h)
    BY <2>3, FaultCommits DEF StepFaulted
  <2>4. CASE StepHandled(r, h)
    BY <2>4, StepHandledCommits
  <2>5. CASE StepCompleted(r, h)
    BY <2>5, StepCompletedCommits
  <2>6. QED
    BY <1>4, <2>1, <2>2, <2>3, <2>4, <2>5 DEF Step
<1>5. QED
  BY <1>1, <1>2, <1>3, <1>4 DEF Next

-----------------------------------------------------------------------------
(* Typing and valid mailboxes.                                             *)

\* Empty mailboxes are typed and valid.
LEMMA InitInv == Init => Inv
<1> SUFFICES ASSUME Init PROVE Inv
  OBVIOUS
<1>1. DOMAIN box = {} /\ box = <<>>
  BY EmptySeq DEF Init
<1>2. mode \in [Runtimes -> Modes]
  BY ModesAssumption DEF Init
<1>3. box \in [0 .. nextAcceptance - 1 -> Entry]
  BY <1>1 DEF Init
<1>4. TypeOK
  BY <1>2, <1>3 DEF Init, TypeOK, Status, NoAggregate
<1>5. QED
  BY <1>1, <1>4 DEF Inv, MailboxesValid, IdsBelow, Pending

\* A deferred head takes a fresh queue sequence and keeps its id.
LEMMA StepDeferredKeepsInv ==
    ASSUME Inv, NEW r \in Runtimes, NEW h \in DOMAIN box, StepDeferred(r, h)
    PROVE  Inv'
<1> USE DEF Inv
<1>1. /\ box' = [box EXCEPT ![h].place = "deferred",
                            ![h].queue = nextQueue,
                            ![h].deferrals = @ + 1]
      /\ nextQueue' = nextQueue + 1
      /\ UNCHANGED <<status, mode, nextAcceptance, nextStep>>
  BY DEF StepDeferred, AdvanceQueue, tree
<1>2. /\ nextQueue \in Nat /\ box \in [0 .. nextAcceptance - 1 -> Entry]
      /\ box[h] \in Entry
  BY DEF TypeOK
<1>3. box'[h] = [box[h] EXCEPT !.place = "deferred", !.queue = nextQueue,
                               !.deferrals = box[h].deferrals + 1]
  BY <1>1, <1>2
<1>4. /\ box'[h] \in Entry
      /\ box'[h].id = box[h].id /\ box'[h].queue = nextQueue
  <2>1. box[h].deferrals + 1 \in Nat /\ "deferred" \in Waiting \cup Dispositions
    BY <1>2 DEF Entry, Waiting
  <2> DEFINE n == box[h].deferrals + 1
  <2>2. n \in Nat /\ box'[h] = [box[h] EXCEPT !.place = "deferred", !.queue = nextQueue,
                                             !.deferrals = n]
    BY <1>3, <2>1
  <2> HIDE DEF n
  <2>3. QED
    BY <1>2, <2>1, <2>2 DEF Entry
<1>5. DOMAIN box' = DOMAIN box /\ \A a \in DOMAIN box : a # h => box'[a] = box[a]
  BY <1>1, <1>2
<1>6. TypeOK'
  <2>1. box' = [a \in 0 .. nextAcceptance - 1 |-> box'[a]]
    BY <1>1, <1>2
  <2>2. \A a \in 0 .. nextAcceptance - 1 : box'[a] \in Entry
    BY <1>2, <1>4, <1>5
  <2>3. box' \in [0 .. nextAcceptance - 1 -> Entry]
    BY <2>1, <2>2
  <2>4. QED
    BY <1>1, <2>3 DEF TypeOK
<1>7. h \in Pending
  BY DEF StepDeferred, Selects, IsHead, InMailbox, Pending, Waiting
<1>8. \A a \in Pending' : a \in Pending /\ box'[a].id = box[a].id
                          /\ (a # h => box'[a].queue = box[a].queue)
  BY <1>4, <1>5, <1>7 DEF Pending
<1>9. \A a \in Pending : box[a].queue \in Nat
  BY DEF Pending, TypeOK, Entry
<1>10. \A a \in Pending' : box'[a].queue < nextQueue'
  <2>1. \A a \in Pending : box[a].queue < nextQueue
    BY DEF MailboxesValid
  <2>2. nextQueue' = nextQueue + 1 /\ box'[h].queue = nextQueue
    BY <1>1, <1>4
  <2>3. QED
    BY <1>2, <1>8, <1>9, <2>1, <2>2
<1>13. \A a, b \in Pending' : a # b => box'[a].queue # box'[b].queue
  <2>1. \A a \in Pending : box[a].queue # nextQueue
    BY <1>2, <1>9 DEF MailboxesValid
  <2>2. QED
    BY <1>4, <1>8, <2>1 DEF MailboxesValid
<1>14. \A a, b \in Pending' : a # b => box'[a].id # box'[b].id
  BY <1>8 DEF MailboxesValid
<1>15. MailboxesValid'
  BY <1>10, <1>13, <1>14 DEF MailboxesValid
<1>11. IdsBelow'
  <2>1. \A a \in DOMAIN box : box'[a].id = box[a].id
    BY <1>4, <1>5
  <2>2. QED
    BY <1>1, <1>5, <2>1 DEF IdsBelow
<1>12. QED
  BY <1>6, <1>11, <1>15

\* An admission writes what it accepts behind everything there is.
LEMMA AdmitEntries ==
    ASSUME TypeOK, NEW batch \in Batches, Admit(batch)
    PROVE  /\ DOMAIN box' = 0 .. nextAcceptance' - 1
           /\ nextAcceptance' \in Nat /\ nextQueue' \in Nat
           /\ nextQueue' = nextQueue + Len(batch)
           /\ \A a \in DOMAIN box : a \in DOMAIN box' /\ box'[a] = box[a]
           /\ \A a \in DOMAIN box' \ DOMAIN box : \E i \in 1 .. Len(batch) :
                 /\ a = nextAcceptance + i - 1
                 /\ batch[i] \in Delivery
                 /\ box'[a] = [event |-> batch[i].event, target |-> batch[i].target,
                               source |-> batch[i].source, subject |-> batch[i].target,
                               id |-> batch[i].id, place |-> "ready",
                               queue |-> nextQueue + i - 1, deferrals |-> 0]
<1>1. Len(batch) \in Nat /\ \A i \in 1 .. Len(batch) : batch[i] \in Delivery
  BY BatchIsSequence
<1>2. nextAcceptance \in Nat /\ nextQueue \in Nat /\ DOMAIN box = 0 .. nextAcceptance - 1
  BY DEF TypeOK
<1>3. /\ nextAcceptance' = nextAcceptance + Len(batch)
      /\ nextQueue' = nextQueue + Len(batch)
      /\ box' = [a \in 0 .. nextAcceptance + Len(batch) - 1 |->
                   IF a < nextAcceptance THEN box[a]
                   ELSE LET d == batch[a - nextAcceptance + 1]
                        IN [event |-> d.event, target |-> d.target, source |-> d.source,
                            subject |-> d.target, id |-> d.id, place |-> "ready",
                            queue |-> nextQueue + a - nextAcceptance, deferrals |-> 0]]
  BY DEF Admit, AdvanceAcceptance, AdvanceQueue
<1>4. \A a \in DOMAIN box : a \in DOMAIN box' /\ box'[a] = box[a]
  BY <1>1, <1>2, <1>3
<1>5. ASSUME NEW a \in DOMAIN box' \ DOMAIN box
      PROVE  \E i \in 1 .. Len(batch) :
                /\ a = nextAcceptance + i - 1
                /\ batch[i] \in Delivery
                /\ box'[a] = [event |-> batch[i].event, target |-> batch[i].target,
                              source |-> batch[i].source, subject |-> batch[i].target,
                              id |-> batch[i].id, place |-> "ready",
                              queue |-> nextQueue + i - 1, deferrals |-> 0]
  <2> DEFINE i == a - nextAcceptance + 1
  <2>1. a \in 0 .. nextAcceptance + Len(batch) - 1 /\ ~(a < nextAcceptance)
    BY <1>1, <1>2, <1>3
  <2>2. i \in 1 .. Len(batch) /\ a = nextAcceptance + i - 1
        /\ nextQueue + a - nextAcceptance = nextQueue + i - 1
    BY <1>1, <1>2, <2>1
  <2>3. box'[a] = [event |-> batch[i].event, target |-> batch[i].target,
                   source |-> batch[i].source, subject |-> batch[i].target,
                   id |-> batch[i].id, place |-> "ready",
                   queue |-> nextQueue + a - nextAcceptance, deferrals |-> 0]
    BY <1>3, <2>1
  <2> HIDE DEF i
  <2>4. QED
    BY <1>1, <2>2, <2>3
<1>6. /\ DOMAIN box' = 0 .. nextAcceptance' - 1
      /\ nextAcceptance' \in Nat /\ nextQueue' \in Nat
  BY <1>1, <1>2, <1>3
<1>7. QED
  BY <1>3, <1>4, <1>5, <1>6

\* An accepted batch is appended in order, within the capacity of each target.
LEMMA AdmitKeepsInv ==
    ASSUME Inv, NEW batch \in Batches, Admit(batch)
    PROVE  Inv'
<1> USE DEF Inv
<1> DEFINE Accepts(a, i) ==
              /\ a = nextAcceptance + i - 1
              /\ batch[i] \in Delivery
              /\ box'[a] = [event |-> batch[i].event, target |-> batch[i].target,
                            source |-> batch[i].source, subject |-> batch[i].target,
                            id |-> batch[i].id, place |-> "ready",
                            queue |-> nextQueue + i - 1, deferrals |-> 0]
<1>1. /\ DOMAIN box' = 0 .. nextAcceptance' - 1
      /\ nextAcceptance' \in Nat /\ nextQueue' \in Nat
      /\ nextQueue' = nextQueue + Len(batch)
      /\ \A a \in DOMAIN box : a \in DOMAIN box' /\ box'[a] = box[a]
      /\ \A a \in DOMAIN box' \ DOMAIN box : \E i \in 1 .. Len(batch) : Accepts(a, i)
  BY AdmitEntries
<1>2. Len(batch) \in Nat /\ nextQueue \in Nat /\ nextAcceptance \in Nat
  BY BatchIsSequence DEF TypeOK
<1>3. /\ UNCHANGED <<status, mode, nextStep>>
      /\ \A i, j \in 1 .. Len(batch) : batch[i].id = batch[j].id => i = j
      /\ \A i \in 1 .. Len(batch) : batch[i].id \notin PendingIds
  BY BatchIsSequence DEF Admit, tree
<1>4. \A a, i : Accepts(a, i) /\ i \in 1 .. Len(batch) =>
         /\ box'[a] \in Entry
         /\ box'[a].id = batch[i].id
         /\ box'[a].id \in {<<"host", e, 0>> : e \in HostIds}
         /\ box'[a].queue = nextQueue + i - 1
  <2> SUFFICES ASSUME NEW a, NEW i \in 1 .. Len(batch), Accepts(a, i)
               PROVE  /\ box'[a] \in Entry
                      /\ box'[a].id = batch[i].id
                      /\ box'[a].id \in {<<"host", e, 0>> : e \in HostIds}
                      /\ box'[a].queue = nextQueue + i - 1
    OBVIOUS
  <2>1. /\ batch[i].event \in Events /\ batch[i].target \in Runtimes
        /\ batch[i].source \in Sources /\ batch[i].id \in {<<"host", e, 0>> : e \in HostIds}
    BY DEF Delivery, Events, Sources
  <2>2. nextQueue + i - 1 \in Nat /\ 0 \in Nat /\ "ready" \in Waiting \cup Dispositions
    BY <1>2 DEF Waiting
  <2>3. batch[i].id \in Ids
    BY <2>1 DEF Ids
  <2>4. QED
    BY <2>1, <2>2, <2>3 DEF Entry
<1> HIDE DEF Accepts
<1>5. \A a \in DOMAIN box' : box'[a] \in Entry
  BY <1>1, <1>4 DEF TypeOK
<1>6. TypeOK'
  <2>1. box' = [a \in 0 .. nextAcceptance' - 1 |-> box'[a]]
    BY <1>1 DEF Admit
  <2>2. box' \in [0 .. nextAcceptance' - 1 -> Entry]
    BY <1>1, <1>5, <2>1
  <2>3. QED
    BY <1>1, <1>3, <2>2 DEF TypeOK
<1>7. \A a \in Pending' :
         \/ a \in Pending /\ box'[a] = box[a]
         \/ a \notin DOMAIN box /\ \E i \in 1 .. Len(batch) : Accepts(a, i)
  BY <1>1 DEF Pending
<1>8. \A a \in Pending : box[a].queue \in Nat /\ box[a].queue < nextQueue
  BY DEF Pending, TypeOK, Entry, MailboxesValid
<1>9. \A a, b, i, j : Accepts(a, i) /\ Accepts(b, j) /\ a # b => i # j
  BY DEF Accepts
<1>10. \A a \in Pending' : box'[a].queue < nextQueue'
  BY <1>1, <1>2, <1>4, <1>7, <1>8
<1>11. ASSUME NEW a \in Pending', NEW b \in Pending', a # b
       PROVE  box'[a].queue # box'[b].queue /\ box'[a].id # box'[b].id
  <2>1. CASE a \in Pending /\ box'[a] = box[a] /\ b \in Pending /\ box'[b] = box[b]
    BY <1>11, <2>1 DEF MailboxesValid
  <2>2. ASSUME NEW x \in Pending, box'[x] = box[x], NEW y, NEW i \in 1 .. Len(batch), Accepts(y, i)
        PROVE  box'[x].queue # box'[y].queue /\ box'[x].id # box'[y].id
    BY <1>2, <1>3, <1>4, <1>8, <2>2 DEF PendingIds
  <2>3. ASSUME NEW i \in 1 .. Len(batch), Accepts(a, i), NEW j \in 1 .. Len(batch), Accepts(b, j)
        PROVE  box'[a].queue # box'[b].queue /\ box'[a].id # box'[b].id
    <3>1. i # j
      BY <1>9, <1>11, <2>3
    <3>2. QED
      BY <1>2, <1>3, <1>4, <2>3, <3>1
  <2>4. QED
    BY <1>7, <2>1, <2>2, <2>3
<1>12. MailboxesValid'
  BY <1>10, <1>11 DEF MailboxesValid
<1>13. IdsBelow'
  <2> SUFFICES ASSUME NEW a \in DOMAIN box', NEW n \in Nat, NEW k \in Nat,
                      box'[a].id = <<"step", n, k>>
               PROVE  n < nextStep
    BY <1>3 DEF IdsBelow
  <2>1. a \in DOMAIN box
    <3>1. ASSUME NEW i \in 1 .. Len(batch), Accepts(a, i) PROVE FALSE
      BY <1>4, <3>1
    <3>2. QED
      BY <1>1, <3>1
  <2>2. QED
    BY <1>1, <2>1 DEF IdsBelow
<1>14. QED
  BY <1>6, <1>12, <1>13

\* Every step of the aggregate keeps typing and valid mailboxes.
LEMMA NextKeepsInv == Inv /\ [Next]_vars => Inv'
<1> SUFFICES ASSUME Inv, [Next]_vars PROVE Inv'
  OBVIOUS
<1>1. CASE CommitStep
  BY <1>1, CommitKeepsInv DEF CommitStep
<1>2. CASE \E batch \in Batches : Admit(batch)
  BY <1>2, AdmitKeepsInv
<1>3. CASE \E r \in Runtimes : \E h \in DOMAIN box : StepDeferred(r, h)
  BY <1>3, StepDeferredKeepsInv
<1>4. CASE UNCHANGED vars
  BY <1>4 DEF vars, Inv, TypeOK, MailboxesValid, IdsBelow, Pending
<1>5. QED
  BY <1>1, <1>2, <1>3, <1>4, NextCases DEF Inv

\* The inductive invariant holds in every reachable state.
THEOREM InvAlways == Spec => []Inv
<1>1. QED
  BY InitInv, NextKeepsInv, PTL DEF Spec

\* Every operation leaves a well-typed aggregate, whose acceptance sequences
\* have no gap.
THEOREM TypeCorrect == Spec => []TypeOK
<1>1. Inv => TypeOK
  BY DEF Inv
<1>2. QED
  BY <1>1, InvAlways, PTL

\* However admission, deferral, emission and recall interleave, the mailboxes a
\* step writes back are those _validate_mailboxes accepts at the next restore.
THEOREM MailboxesAlwaysValid == Spec => []MailboxesValid
<1>1. Inv => MailboxesValid
  BY DEF Inv
<1>2. QED
  BY <1>1, InvAlways, PTL

-----------------------------------------------------------------------------
(* Nothing waits for a runtime that is gone, deferral stays within the     *)
(* capacity, and what is deferred is deferred by the current mode.         *)

\* What a commit leaves in the mailboxes, and whose they are.
LEMMA MailboxesAfterCommit ==
    ASSUME TypeOK, NEW h, NEW fate \in Dispositions, NEW st \in [Runtimes -> Status], NEW ems,
           NEW S \in SUBSET Pending, Commit(h, fate, st, ems, S)
    PROVE  /\ \A a \in Pending' : a \notin DOMAIN box =>
                 /\ box'[a].place = "ready"
                 /\ st[box'[a].target] \in {"running", "faulted"}
           /\ \A a \in Pending' : a \in DOMAIN box =>
                 /\ a \in Pending
                 /\ box'[a].target = box[a].target /\ box'[a].event = box[a].event
                 /\ a \in S => box'[a].place = "ready"
                 /\ a \notin S => box'[a].place = box[a].place /\ ~Ended(box[a].target, st)
<1>1. ASSUME NEW a \in Pending', a \notin DOMAIN box
      PROVE  box'[a].place = "ready" /\ st[box'[a].target] \in {"running", "faulted"}
  <2>1. PICK k : k \in 1 .. Len(ems) /\ box'[a] = Emitted(ems, k, st)
    BY <1>1, CommitEntries DEF Pending
  <2>2. /\ box'[a].place = EmissionPlace(ems[k].target, st)
        /\ box'[a].target = ems[k].target /\ box'[a].place \in Waiting
    BY <2>1 DEF Emitted, Pending
  <2>3. QED
    BY <2>2 DEF EmissionPlace, PresentIn, Waiting
<1>2. ASSUME NEW a \in Pending', a \in DOMAIN box
      PROVE  /\ a \in Pending
             /\ box'[a].target = box[a].target /\ box'[a].event = box[a].event
             /\ a \in S => box'[a].place = "ready"
             /\ a \notin S => box'[a].place = box[a].place /\ ~Ended(box[a].target, st)
  <2>1. /\ a \in Pending
        /\ a \in S => box'[a] = [box[a] EXCEPT !.place = "ready",
                                    !.queue = nextQueue + Len(ems) + RecallRank(S, a)]
        /\ a \notin S => box'[a] = box[a] /\ ~Ended(box[a].target, st)
    <3>1. a \in DOMAIN box /\ a \in Pending'
      BY <1>2
    <3>2. \A b \in DOMAIN box : b \in Pending' =>
              /\ b \in Pending /\ b # h
              /\ b \in S => box'[b] = [box[b] EXCEPT !.place = "ready",
                                          !.queue = nextQueue + Len(ems) + RecallRank(S, b)]
              /\ b \notin S => box'[b] = box[b] /\ ~Ended(box[b].target, st)
      BY PendingAfterCommit
    <3>3. QED
      BY <3>1, <3>2
  <2>2. box[a] \in Entry
    BY <1>2 DEF TypeOK
  <2>3. QED
    BY <2>1, <2>2 DEF Entry
<1>3. QED
  BY <1>1, <1>2

\* The same for a step of the aggregate, its recalled entries named.
LEMMA CommitStepMailboxes ==
    ASSUME TypeOK, CommitStep
    PROVE  \E S \in SUBSET Pending :
              /\ Respects(status', S)
              /\ status' \in [Runtimes -> Status]
              /\ \A a \in Pending' : a \notin DOMAIN box =>
                    /\ box'[a].place = "ready"
                    /\ status'[box'[a].target] \in {"running", "faulted"}
              /\ \A a \in Pending' : a \in DOMAIN box =>
                    /\ a \in Pending
                    /\ box'[a].target = box[a].target /\ box'[a].event = box[a].event
                    /\ a \in S => box'[a].place = "ready"
                    /\ a \notin S => box'[a].place = box[a].place /\ ~Ended(box[a].target, status')
<1>1. PICK h : \E fate \in Dispositions : \E st \in [Runtimes -> Status] :
               \E ems : \E S \in SUBSET Pending : Commit(h, fate, st, ems, S) /\ Respects(st, S)
  BY DEF CommitStep
<1>2. PICK fate \in Dispositions, st \in [Runtimes -> Status] :
               \E ems : \E S \in SUBSET Pending : Commit(h, fate, st, ems, S) /\ Respects(st, S)
  BY <1>1
<1>3. PICK ems : \E S \in SUBSET Pending : Commit(h, fate, st, ems, S) /\ Respects(st, S)
  BY <1>2
<1>4. PICK S \in SUBSET Pending : Commit(h, fate, st, ems, S) /\ Respects(st, S)
  BY <1>3
<1>5. status' = st
  BY <1>4, CommitEntries
<1>6. /\ \A a \in Pending' : a \notin DOMAIN box =>
            /\ box'[a].place = "ready"
            /\ st[box'[a].target] \in {"running", "faulted"}
      /\ \A a \in Pending' : a \in DOMAIN box =>
            /\ a \in Pending
            /\ box'[a].target = box[a].target /\ box'[a].event = box[a].event
            /\ a \in S => box'[a].place = "ready"
            /\ a \notin S => box'[a].place = box[a].place /\ ~Ended(box[a].target, st)
  BY <1>4, MailboxesAfterCommit
<1>7. QED
  BY <1>4, <1>5, <1>6

\* What a deferral changes.
LEMMA StepDeferredEntries ==
    ASSUME TypeOK, NEW r \in Runtimes, NEW h \in DOMAIN box, StepDeferred(r, h)
    PROVE  /\ UNCHANGED <<status, mode>>
           /\ DOMAIN box' = DOMAIN box
           /\ \A a \in DOMAIN box : box'[a].target = box[a].target /\ box'[a].event = box[a].event
           /\ \A a \in DOMAIN box : a # h => box'[a] = box[a]
           /\ box[h].target = r /\ box[h].place = "ready" /\ box'[h].place = "deferred"
<1>1. /\ box' = [box EXCEPT ![h].place = "deferred",
                            ![h].queue = nextQueue,
                            ![h].deferrals = @ + 1]
      /\ UNCHANGED <<status, mode>>
  BY DEF StepDeferred, tree
<1>2. box \in [0 .. nextAcceptance - 1 -> Entry] /\ box[h] \in Entry
  BY DEF TypeOK
<1>3. box[h].target = r /\ box[h].place = "ready"
  BY DEF StepDeferred, Selects, IsHead, InMailbox
<1>4. DOMAIN box' = DOMAIN box /\ \A a \in DOMAIN box : a # h => box'[a] = box[a]
  BY <1>1, <1>2
<1>5. box'[h] = [box[h] EXCEPT !.place = "deferred", !.queue = nextQueue,
                               !.deferrals = box[h].deferrals + 1]
  BY <1>1, <1>2
<1>6. box'[h].target = box[h].target /\ box'[h].event = box[h].event /\ box'[h].place = "deferred"
  <2> DEFINE n == box[h].deferrals + 1
  <2>1. box'[h] = [box[h] EXCEPT !.place = "deferred", !.queue = nextQueue, !.deferrals = n]
    BY <1>5
  <2> HIDE DEF n
  <2>2. QED
    BY <1>2, <2>1 DEF Entry
<1>7. \A a \in DOMAIN box : box'[a].target = box[a].target /\ box'[a].event = box[a].event
  BY <1>4, <1>6
<1>8. QED
  BY <1>1, <1>3, <1>4, <1>6, <1>7

\* What an admission changes.
LEMMA AdmitPlaces ==
    ASSUME TypeOK, NEW batch \in Batches, Admit(batch)
    PROVE  /\ UNCHANGED <<status, mode>>
           /\ \A a \in DOMAIN box : a \in DOMAIN box' /\ box'[a] = box[a]
           /\ \A a \in DOMAIN box' \ DOMAIN box :
                 box'[a].place = "ready" /\ status[box'[a].target] = "running"
<1>1. \A a \in DOMAIN box' \ DOMAIN box : \E i \in 1 .. Len(batch) :
         box'[a].place = "ready" /\ box'[a].target = batch[i].target
  BY AdmitEntries
<1>2. \A i \in 1 .. Len(batch) : status[batch[i].target] = "running"
  BY BatchIsSequence DEF Admit, Admissible, Eligible
<1>3. UNCHANGED <<status, mode>>
  BY DEF Admit, tree
<1>4. \A a \in DOMAIN box : a \in DOMAIN box' /\ box'[a] = box[a]
  BY AdmitEntries
<1>5. QED
  BY <1>1, <1>2, <1>3, <1>4

\* No step leaves a delivery pending in the mailbox of a runtime that is gone.
LEMMA NextKeepsNoOrphan == TypeOK /\ NoOrphan /\ [Next]_vars => NoOrphan'
<1> SUFFICES ASSUME TypeOK, NoOrphan, [Next]_vars PROVE NoOrphan'
  OBVIOUS
<1>1. CASE CommitStep
  <2>2. PICK S \in SUBSET Pending :
              /\ Respects(status', S)
              /\ status' \in [Runtimes -> Status]
              /\ \A a \in Pending' : a \notin DOMAIN box =>
                    /\ box'[a].place = "ready"
                    /\ status'[box'[a].target] \in {"running", "faulted"}
              /\ \A a \in Pending' : a \in DOMAIN box =>
                    /\ a \in Pending
                    /\ box'[a].target = box[a].target /\ box'[a].event = box[a].event
                    /\ a \in S => box'[a].place = "ready"
                    /\ a \notin S => box'[a].place = box[a].place /\ ~Ended(box[a].target, status')
    BY <1>1, CommitStepMailboxes
  <2>4. ASSUME NEW a \in Pending'
        PROVE  status'[box'[a].target] \in {"running", "faulted"}
    <3>1. CASE a \notin DOMAIN box
      BY <2>2, <3>1
    <3>2. CASE a \in S /\ a \in DOMAIN box
      BY <2>2, <3>2 DEF Respects
    <3>3. CASE a \notin S /\ a \in DOMAIN box
      <4>1. a \in Pending /\ box'[a].target = box[a].target /\ ~Ended(box[a].target, status')
        BY <2>2, <3>3
      <4>2. box[a].target \in Live
        BY <3>3, <4>1 DEF NoOrphan, Live, TypeOK, Entry
      <4>3. status'[box[a].target] # "absent" /\ status'[box[a].target] \in Status
        BY <2>2, <4>2 DEF Respects, Live
      <4>4. QED
        BY <4>1, <4>3 DEF Ended, Status
    <3>4. QED
      BY <3>1, <3>2, <3>3
  <2>5. QED
    BY <2>4 DEF NoOrphan
<1>2. ASSUME NEW batch \in Batches, Admit(batch) PROVE NoOrphan'
  BY <1>2, AdmitPlaces DEF NoOrphan, Pending
<1>3. ASSUME NEW r \in Runtimes, NEW h \in DOMAIN box, StepDeferred(r, h) PROVE NoOrphan'
  BY <1>3, StepDeferredEntries DEF NoOrphan, Pending, Waiting
<1>4. CASE UNCHANGED vars
  BY <1>4 DEF vars, NoOrphan, Pending
<1>5. QED
  BY <1>1, <1>2, <1>3, <1>4, NextCases

\* No step leaves an entry waiting for a runtime that completed, was cancelled
\* or lost its owner, nor for one that was never there.
THEOREM NoOrphanAlways == Spec => []NoOrphan
<1>1. Init => NoOrphan
  BY EmptySeq DEF Init, NoOrphan, Pending
<1>2. Inv /\ NoOrphan /\ [Next]_vars => NoOrphan'
  BY NextKeepsNoOrphan DEF Inv
<1>3. QED
  BY <1>1, <1>2, InvAlways, PTL DEF Spec

\* A delivery is deferred only where its runtime's state defers it, after any step.
LEMMA NextKeepsDeferralJustified ==
    TypeOK /\ NoOrphan /\ DeferralJustified /\ [Next]_vars => DeferralJustified'
<1> SUFFICES ASSUME TypeOK, NoOrphan, DeferralJustified, [Next]_vars PROVE DeferralJustified'
  OBVIOUS
<1>1. CASE CommitStep
  <2>2. PICK S \in SUBSET Pending :
              /\ Respects(status', S)
              /\ status' \in [Runtimes -> Status]
              /\ \A a \in Pending' : a \notin DOMAIN box =>
                    /\ box'[a].place = "ready"
                    /\ status'[box'[a].target] \in {"running", "faulted"}
              /\ \A a \in Pending' : a \in DOMAIN box =>
                    /\ a \in Pending
                    /\ box'[a].target = box[a].target /\ box'[a].event = box[a].event
                    /\ a \in S => box'[a].place = "ready"
                    /\ a \notin S => box'[a].place = box[a].place /\ ~Ended(box[a].target, status')
    BY <1>1, CommitStepMailboxes
  <2>4. ASSUME NEW a \in DOMAIN box', box'[a].place = "deferred", status'[box'[a].target] = "running"
        PROVE  Behaviour[mode'[box'[a].target]][box'[a].event] \in {"deferred", "guarded_deferred"}
    <3>1. a \in Pending'
      BY <2>4 DEF Pending, Waiting
    <3>2. /\ a \in Pending /\ a \notin S
          /\ box'[a].target = box[a].target /\ box'[a].event = box[a].event
          /\ box[a].place = "deferred"
      BY <2>2, <2>4, <3>1
    <3>3. a \in DOMAIN box /\ box[a].target \in Live
      BY <3>2 DEF NoOrphan, Live, TypeOK, Entry, Pending
    <3>4. \/ StructurallyDeferred(mode'[box[a].target], box[a].event)
          \/ status[box[a].target] = "running" /\ mode'[box[a].target] = mode[box[a].target]
      BY <2>2, <2>4, <3>2, <3>3 DEF Respects
    <3>5. QED
      BY <3>2, <3>3, <3>4 DEF StructurallyDeferred, DeferralJustified
  <2>5. QED
    BY <2>4 DEF DeferralJustified
<1>2. ASSUME NEW batch \in Batches, Admit(batch) PROVE DeferralJustified'
  BY <1>2, AdmitPlaces DEF DeferralJustified
<1>3. ASSUME NEW r \in Runtimes, NEW h \in DOMAIN box, StepDeferred(r, h) PROVE DeferralJustified'
  <2>1. Says(r, h) \in {"deferred", "guarded_deferred"}
    BY <1>3 DEF StepDeferred, MayDefer
  <2>2. QED
    BY <1>3, <2>1, StepDeferredEntries DEF DeferralJustified, Says
<1>4. CASE UNCHANGED vars
  BY <1>4 DEF vars, DeferralJustified
<1>5. QED
  BY <1>1, <1>2, <1>3, <1>4, NextCases

\* A deferred entry of a running runtime is one the runtime's current state
\* configuration defers: the recall after a handled step misses none.
THEOREM DeferralAlwaysJustified == Spec => []DeferralJustified
<1>1. Init => DeferralJustified
  BY EmptySeq DEF Init, DeferralJustified
<1>2. Inv /\ NoOrphan /\ DeferralJustified /\ [Next]_vars => DeferralJustified'
  BY NextKeepsDeferralJustified DEF Inv
<1>3. QED
  BY <1>1, <1>2, InvAlways, NoOrphanAlways, PTL DEF Spec

\* A commit adds nothing to a deferred mailbox.
LEMMA DeferredShrink ==
    ASSUME TypeOK, CommitStep, NEW r \in Runtimes
    PROVE  InMailbox(r, "deferred")' \subseteq InMailbox(r, "deferred")
<1>2. PICK S \in SUBSET Pending :
         \A a \in Pending' :
            /\ a \notin DOMAIN box => box'[a].place = "ready"
            /\ a \in DOMAIN box =>
                 /\ a \in Pending
                 /\ box'[a].target = box[a].target
                 /\ a \in S => box'[a].place = "ready"
                 /\ a \notin S => box'[a].place = box[a].place
  BY CommitStepMailboxes
<1>3. ASSUME NEW a \in InMailbox(r, "deferred")'
      PROVE  a \in InMailbox(r, "deferred")
  <2>1. a \in Pending' /\ box'[a].place = "deferred" /\ box'[a].target = r
    BY <1>3 DEF InMailbox, Pending, Waiting
  <2>2. a \in Pending /\ box[a].target = r /\ box[a].place = "deferred"
    BY <1>2, <2>1
  <2>3. QED
    BY <2>2 DEF InMailbox, Pending
<1>4. QED
  BY <1>3

\* The count of deferred deliveries stays within the declared capacity.
LEMMA NextKeepsDeferralBounded ==
    TypeOK /\ DeferralBounded /\ [Next]_vars => DeferralBounded'
<1> SUFFICES ASSUME TypeOK, DeferralBounded, [Next]_vars,
                    NEW r \in Runtimes, Capacity[r] # Unbounded
             PROVE  Cardinality(InMailbox(r, "deferred")') <= Capacity[r]
  BY DEF DeferralBounded
<1> DEFINE D == InMailbox(r, "deferred")
<1>1. /\ IsFiniteSet(D) /\ Cardinality(D) \in Nat
      /\ Capacity[r] \in Nat /\ Cardinality(D) <= Capacity[r]
  BY EntriesFinite, MailboxAssumption DEF DeferralBounded, InMailbox
<1>2. D' \subseteq D => Cardinality(D') <= Capacity[r]
  <2>1. D' \subseteq D => Cardinality(D') <= Cardinality(D) /\ Cardinality(D') \in Nat
    BY <1>1, FS_Subset, FS_CardinalityType
  <2> HIDE DEF D
  <2>2. QED
    BY <1>1, <2>1
<1>3. CASE CommitStep
  BY <1>2, <1>3, DeferredShrink
<1>4. ASSUME NEW batch \in Batches, Admit(batch) PROVE D' \subseteq D
  BY <1>4, AdmitPlaces DEF InMailbox
<1>5. ASSUME NEW x \in Runtimes, NEW h \in DOMAIN box, StepDeferred(x, h)
      PROVE  Cardinality(D') <= Capacity[r]
  <2>1. CASE x = r
    <3>1. D' = D \cup {h} /\ h \notin D
      BY <1>5, <2>1, StepDeferredEntries DEF InMailbox
    <3>2. Cardinality(D) < Capacity[r]
      BY <1>5, <2>1 DEF StepDeferred, HasRoom
    <3>3. Cardinality(D') = Cardinality(D) + 1
      BY <1>1, <3>1, FS_AddElement
    <3> HIDE DEF D
    <3>4. QED
      BY <1>1, <3>2, <3>3
  <2>2. CASE x # r
    <3>1. D' \subseteq D
      BY <1>5, <2>2, StepDeferredEntries DEF InMailbox
    <3>2. QED
      BY <1>2, <3>1
  <2>3. QED
    BY <2>1, <2>2
<1>6. CASE UNCHANGED vars
  BY <1>2, <1>6 DEF vars, InMailbox
<1>7. QED
  BY <1>2, <1>3, <1>4, <1>5, <1>6, NextCases

\* The deferred mailbox of a machine never exceeds the capacity it declares:
\* deferring one more is a fault instead.
THEOREM DeferralAlwaysBounded == Spec => []DeferralBounded
<1>1. Init => DeferralBounded
  <2>1. ASSUME Init, NEW r \in Runtimes PROVE InMailbox(r, "deferred") = {}
    BY <2>1, EmptySeq DEF Init, InMailbox
  <2>2. \A r \in Runtimes : Capacity[r] # Unbounded => 0 <= Capacity[r]
    BY MailboxAssumption
  <2>3. QED
    BY <2>1, <2>2, FS_EmptySet DEF DeferralBounded
<1>2. Inv /\ DeferralBounded /\ [Next]_vars => DeferralBounded'
  BY NextKeepsDeferralBounded DEF Inv
<1>3. QED
  BY <1>1, <1>2, InvAlways, PTL DEF Spec

-----------------------------------------------------------------------------
(* A commit, entry by entry.                                               *)

\* What becomes of the entry at a when h is processed and S recalled behind n
\* emissions.
Turns(a, h, fate, n, S) ==
    /\ a \in DOMAIN box'
    /\ box'[a].target = box[a].target /\ box'[a].event = box[a].event
    /\ box'[a].subject = box[a].subject /\ box'[a].deferrals = box[a].deferrals
    /\ a = h => box'[a].place = fate
    /\ a \in S => box'[a].place = "ready" /\ box'[a].queue = nextQueue + n + RecallRank(S, a)
    /\ a \notin S => box'[a].queue = box[a].queue
    /\ a # h /\ a \notin S =>
          IF a \in Pending /\ Ended(box[a].target, status')
          THEN box'[a].place = DisposalReason(box[a].target, status')
          ELSE box'[a] = box[a]

\* The entry at a is the emission numbered k.
Appends(a, k, em) ==
    /\ a = nextAcceptance + k - 1
    /\ box'[a].target = em.target /\ box'[a].event = em.event
    /\ box'[a].subject = em.subject /\ box'[a].deferrals = 0
    /\ box'[a].queue = nextQueue + k - 1
    /\ box'[a].place = EmissionPlace(em.target, status')

CommitShape(h, fate, ems, S) ==
    /\ S \subseteq Pending /\ h \notin S
    /\ Len(ems) \in Nat /\ \A k \in 1 .. Len(ems) : ems[k] \in Emission
    /\ status' \in [Runtimes -> Status]
    /\ Respects(status', S) /\ Takes(h, fate, S)
    /\ DOMAIN box' = 0 .. nextAcceptance' - 1
    /\ nextAcceptance' = nextAcceptance + Len(ems)
    /\ \A a \in DOMAIN box : Turns(a, h, fate, Len(ems), S)
    /\ \A a \in DOMAIN box' \ DOMAIN box : \E k \in 1 .. Len(ems) : Appends(a, k, ems[k])

\* Every commit has this shape.
LEMMA CommitStepShape ==
    ASSUME TypeOK, CommitStep
    PROVE  \E h, fate, ems, S : CommitShape(h, fate, ems, S)
<1>1. PICK h : \E fate \in Dispositions : \E st \in [Runtimes -> Status] :
               \E ems : \E S \in SUBSET Pending :
                  Commit(h, fate, st, ems, S) /\ Respects(st, S) /\ Takes(h, fate, S)
  BY DEF CommitStep
<1>2. PICK fate \in Dispositions, st \in [Runtimes -> Status] :
               \E ems : \E S \in SUBSET Pending :
                  Commit(h, fate, st, ems, S) /\ Respects(st, S) /\ Takes(h, fate, S)
  BY <1>1
<1>3. PICK ems : \E S \in SUBSET Pending :
                  Commit(h, fate, st, ems, S) /\ Respects(st, S) /\ Takes(h, fate, S)
  BY <1>2
<1>4. PICK S \in SUBSET Pending : Commit(h, fate, st, ems, S) /\ Respects(st, S) /\ Takes(h, fate, S)
  BY <1>3
<1>5. h \notin S
  BY <1>4 DEF Takes, IsHead, InMailbox
<1>6. /\ Len(ems) \in Nat
      /\ \A k \in 1 .. Len(ems) : ems[k] \in Emission
      /\ DOMAIN box = 0 .. nextAcceptance - 1
      /\ nextAcceptance' = nextAcceptance + Len(ems)
      /\ status' = st
      /\ DOMAIN box' = 0 .. nextAcceptance' - 1
      /\ \A a \in DOMAIN box : a \in DOMAIN box' /\ box'[a] = Settled(a, h, fate, st, ems, S)
      /\ \A a \in DOMAIN box' \ DOMAIN box :
            /\ a - nextAcceptance + 1 \in 1 .. Len(ems)
            /\ box'[a] = Emitted(ems, a - nextAcceptance + 1, st)
  BY <1>4, CommitEntries
<1>7. ASSUME NEW a \in DOMAIN box
      PROVE  Turns(a, h, fate, Len(ems), S)
  <2>1. box[a] \in Entry /\ a \in DOMAIN box' /\ box'[a] = Settled(a, h, fate, st, ems, S)
    BY <1>6 DEF TypeOK
  <2>2. CASE a = h
    <3>1. box'[a] = [box[a] EXCEPT !.place = fate] /\ a \notin S
      BY <1>5, <2>1, <2>2 DEF Settled
    <3>2. QED
      BY <2>1, <2>2, <3>1 DEF Turns, Entry
  <2>3. CASE a # h /\ a \in S
    <3>1. PICK q : q = nextQueue + Len(ems) + RecallRank(S, a)
      OBVIOUS
    <3>2. box'[a] = [box[a] EXCEPT !.place = "ready", !.queue = q]
      BY <2>1, <2>3, <3>1 DEF Settled
    <3>3. QED
      BY <2>1, <2>3, <3>1, <3>2 DEF Turns, Entry
  <2>4. CASE a # h /\ a \notin S
    <3>1. CASE a \in Pending /\ Ended(box[a].target, st)
      <4>1. box'[a] = [box[a] EXCEPT !.place = DisposalReason(box[a].target, st)]
        BY <2>1, <2>4, <3>1 DEF Settled
      <4>2. QED
        BY <1>6, <2>1, <2>4, <3>1, <4>1 DEF Turns, Entry
    <3>2. CASE ~(a \in Pending /\ Ended(box[a].target, st))
      <4>1. box'[a] = box[a]
        BY <2>1, <2>4, <3>2 DEF Settled
      <4>2. QED
        BY <1>6, <2>1, <2>4, <3>2, <4>1 DEF Turns
    <3>3. QED
      BY <3>1, <3>2
  <2>5. QED
    BY <2>2, <2>3, <2>4
<1>8. ASSUME NEW a \in DOMAIN box' \ DOMAIN box
      PROVE  \E k \in 1 .. Len(ems) : Appends(a, k, ems[k])
  <2>1. PICK k \in 1 .. Len(ems) : k = a - nextAcceptance + 1 /\ box'[a] = Emitted(ems, k, st)
    BY <1>6
  <2>2. a \in Int /\ nextAcceptance \in Nat
    BY <1>6 DEF TypeOK
  <2>3. a = nextAcceptance + k - 1
    BY <2>1, <2>2
  <2>4. QED
    BY <1>6, <2>1, <2>3 DEF Emitted, Appends
<1>9. QED
  BY <1>4, <1>5, <1>6, <1>7, <1>8 DEF CommitShape

\* No entries come before the aggregate does.
RootFirst == NoAggregate => DOMAIN box = {}

\* The aggregate is never undone.
LEMMA NextKeepsRootFirst == TypeOK /\ RootFirst /\ [Next]_vars => RootFirst'
<1> SUFFICES ASSUME TypeOK, RootFirst, [Next]_vars PROVE RootFirst'
  OBVIOUS
<1>1. NoAggregate <=> \A r \in Runtimes : status[r] = "absent"
  BY DEF NoAggregate, TypeOK
<1>2. CASE CommitStep
  <2>1. PICK h, fate, ems, S : CommitShape(h, fate, ems, S)
    BY <1>2, CommitStepShape
  <2>2. status'[Root] # "absent"
    BY <2>1, OwnershipAssumption DEF CommitShape, Takes, Respects, Live
  <2>3. QED
    BY <2>2, OwnershipAssumption DEF RootFirst, NoAggregate
<1>3. ASSUME NEW batch \in Batches, Admit(batch) PROVE RootFirst'
  BY <1>1, <1>3, OwnershipAssumption DEF Admit, RootFirst, NoAggregate, tree
<1>4. ASSUME NEW r \in Runtimes, NEW h \in DOMAIN box, StepDeferred(r, h) PROVE RootFirst'
  BY <1>1, <1>4, OwnershipAssumption DEF StepDeferred, Selects, RootFirst, NoAggregate, tree
<1>5. CASE UNCHANGED vars
  BY <1>5 DEF vars, RootFirst, NoAggregate
<1>6. QED
  BY <1>2, <1>3, <1>4, <1>5, NextCases

-----------------------------------------------------------------------------
(* The mailboxes implement the delivery ledger.                            *)

\* The mapping.
Fates == [a \in DOMAIN box |-> Fate(box[a].place)]

\* The sequences given out so far end at the last one.
LEMMA Gapless == ASSUME NEW n \in Nat PROVE \E m \in (0 .. n - 1) \cup {-1} : 0 .. n - 1 = 0 .. m
<1>1. CASE n = 0
  BY <1>1
<1>2. CASE n # 0
  <2>1. n - 1 \in 0 .. n - 1
    BY <1>2
  <2>2. QED
    BY <2>1
<1>3. QED
  BY <1>1, <1>2

\* New entries get the next acceptance sequences.
LEMMA LedgerExtends ==
    ASSUME TypeOK, TypeOK', NEW places,
           DOMAIN box \subseteq DOMAIN box',
           \A a \in DOMAIN box' \ DOMAIN box : Fate(box'[a].place) \in places
    PROVE  Ledger!Extends(places)
<1>1. DOMAIN Fates = DOMAIN box /\ DOMAIN Fates' = DOMAIN box'
  BY DEF Fates
<1>2. \E n \in DOMAIN Fates' \cup {-1} : DOMAIN Fates' = 0 .. n
  <2>1. DOMAIN box' = 0 .. nextAcceptance' - 1 /\ nextAcceptance' \in Nat
    BY DEF TypeOK
  <2>2. QED
    BY <1>1, <2>1, Gapless
<1>3. \A a \in DOMAIN box' : Fates'[a] = Fate(box'[a].place)
  BY DEF Fates
<1>4. QED
  BY <1>1, <1>2, <1>3 DEF Ledger!Extends, Ledger!Accepted, Fates

\* Every step of the aggregate is a step of the ledger, or none.
LEMMA NextLedger ==
    ASSUME Inv, Inv', NoOrphan, RootFirst, [Next]_vars
    PROVE  [Ledger!Next]_Fates
<1>. USE DEF Inv
<1>1. DOMAIN Fates = DOMAIN box /\ \A a \in DOMAIN box : Fates[a] = Fate(box[a].place)
  BY DEF Fates
<1>2. DOMAIN Fates' = DOMAIN box' /\ \A a \in DOMAIN box' : Fates'[a] = Fate(box'[a].place)
  BY DEF Fates
<1>3. CASE CommitStep
  <2>1. PICK h, fate, ems, S : CommitShape(h, fate, ems, S)
    BY <1>3, CommitStepShape
  <2>2. \A a \in DOMAIN box : Turns(a, h, fate, Len(ems), S)
    BY <2>1 DEF CommitShape
  <2>3. \A a \in DOMAIN box' \ DOMAIN box : Fate(box'[a].place) \in {"queued", "disposed"}
    BY <2>1 DEF CommitShape, Appends, EmissionPlace, Fate, Waiting
  <2>4. DOMAIN box \subseteq DOMAIN box'
    BY <2>2 DEF Turns
  <2>5. Ledger!Extends({"queued", "disposed"})
    BY <2>3, <2>4, LedgerExtends
  <2>6. CASE NoAggregate
    BY <1>1, <2>5, <2>6 DEF RootFirst, Ledger!Next, Ledger!Create, Ledger!Accepted, Fates
  <2>7. CASE ~NoAggregate
    <3>1. /\ h \in DOMAIN box /\ box[h].place = "ready"
          /\ fate \in {"handled", "unhandled", "faulted"}
      BY <2>1, <2>7 DEF CommitShape, Takes, IsHead, InMailbox
    <3>2. Fates[h] = "queued" /\ Fates'[h] = "processed"
      BY <1>1, <1>2, <2>2, <3>1, <2>4 DEF Turns, Fate, Waiting
    <3>3. ASSUME NEW a \in DOMAIN box, a # h
          PROVE  Fates'[a] = Fates[a] \/ (Fates[a] = "queued" /\ Fates'[a] = "disposed")
      <4>1. Turns(a, h, fate, Len(ems), S) /\ a \in DOMAIN box'
        BY <2>2, <2>4
      <4>2. CASE a \in S
        BY <1>1, <1>2, <2>1, <4>1, <4>2 DEF CommitShape, Turns, Fate, Waiting, Pending
      <4>3. CASE a \notin S /\ a \in Pending /\ Ended(box[a].target, status')
        BY <1>1, <1>2, <3>3, <4>1, <4>3 DEF Turns, Fate, Waiting, Pending, DisposalReason
      <4>4. CASE a \notin S /\ ~(a \in Pending /\ Ended(box[a].target, status'))
        BY <1>1, <1>2, <3>3, <4>1, <4>4 DEF Turns
      <4>5. QED
        BY <4>2, <4>3, <4>4
    <3>4. Ledger!Process
      BY <1>1, <2>5, <3>1, <3>2, <3>3 DEF Ledger!Process, Ledger!Queued, Ledger!Accepted, Fates
    <3>5. QED
      BY <3>4 DEF Ledger!Next
  <2>8. QED
    BY <2>6, <2>7
<1>4. ASSUME NEW batch \in Batches, Admit(batch) PROVE Ledger!Next
  <2>1. /\ DOMAIN box \subseteq DOMAIN box'
        /\ \A a \in DOMAIN box : box'[a] = box[a]
        /\ \A a \in DOMAIN box' \ DOMAIN box : Fate(box'[a].place) \in {"queued"}
    BY <1>4, AdmitPlaces DEF Fate, Waiting
  <2>2. Ledger!Extends({"queued"})
    BY <2>1, LedgerExtends
  <2>3. \A a \in DOMAIN box : Fates'[a] = Fates[a]
    BY <1>1, <1>2, <2>1
  <2>4. QED
    BY <1>1, <2>2, <2>3 DEF Ledger!Next, Ledger!Admit, Ledger!Accepted, Fates
<1>5. ASSUME NEW r \in Runtimes, NEW h \in DOMAIN box, StepDeferred(r, h) PROVE Fates' = Fates
  <2>1. /\ DOMAIN box' = DOMAIN box
        /\ \A a \in DOMAIN box : Fate(box'[a].place) = Fate(box[a].place)
    BY <1>5, StepDeferredEntries DEF Fate, Waiting
  <2>2. QED
    BY <2>1 DEF Fates
<1>6. CASE UNCHANGED vars
  BY <1>6 DEF vars, Fates
<1>7. QED
  BY <1>3, <1>4, <1>5, <1>6, NextCases

\* Whatever is deferred, recalled, emitted, cancelled or faults: an accepted delivery
\* is queued until a step processes it or ends its runtime, and stays so.
THEOREM MailboxesImplementLedger == Spec => ImplementsLedger
<1>1. Init => RootFirst /\ Ledger!Init
  BY EmptySeq DEF Init, RootFirst, Ledger!Init
<1>2. Inv /\ RootFirst /\ [Next]_vars => RootFirst'
  BY NextKeepsRootFirst DEF Inv
<1>3. Inv /\ Inv' /\ NoOrphan /\ RootFirst /\ [Next]_vars => [Ledger!Next]_Fates
  BY NextLedger
<1>4. QED
  BY <1>1, <1>2, <1>3, InvAlways, NoOrphanAlways, PTL DEF Spec, ImplementsLedger, Ledger!Spec, Fates


-----------------------------------------------------------------------------
(* First turns come in acceptance order, and a recall keeps the order.     *)

\* The ready mailbox of a runtime is ordered by acceptance as far as its entries
\* wait for their first turn; what was deferred has had one.
OrderSound ==
    /\ \A a \in DOMAIN box : box[a].place = "deferred" => box[a].deferrals # 0
    /\ \A a, b \in DOMAIN box :
          a < b /\ box[a].target = box[b].target /\ box[a].place = "ready" /\ box[a].deferrals = 0
          => box[b].place = "ready" /\ box[a].queue < box[b].queue

\* A commit takes the entry whose turn it is and appends behind the others.
LEMMA CommitKeepsOrder ==
    ASSUME Inv, NoOrphan, OrderSound, CommitStep
    PROVE  OrderSound'
<1>. USE DEF Inv
<1>1. PICK h, fate, ems, S : CommitShape(h, fate, ems, S)
  BY CommitStepShape
<1>2. /\ \A a \in DOMAIN box : Turns(a, h, fate, Len(ems), S)
      /\ \A a \in DOMAIN box' \ DOMAIN box : \E k \in 1 .. Len(ems) : Appends(a, k, ems[k])
      /\ S \subseteq Pending /\ h \notin S /\ Len(ems) \in Nat
      /\ Respects(status', S) /\ Takes(h, fate, S)
      /\ DOMAIN box = 0 .. nextAcceptance - 1 /\ DOMAIN box' = 0 .. nextAcceptance' - 1
      /\ status' \in [Runtimes -> Status]
  BY <1>1 DEF CommitShape, TypeOK
<1>3. /\ nextAcceptance \in Nat /\ nextQueue \in Nat /\ nextAcceptance' \in Nat
      /\ nextAcceptance' = nextAcceptance + Len(ems)
  BY <1>1, <1>2 DEF CommitShape, TypeOK
<1>4. \A a \in DOMAIN box : box[a] \in Entry
  BY DEF TypeOK
<1>5. fate \notin Waiting /\ \A x : DisposalReason(x, status') \notin Waiting
  BY <1>2 DEF Takes, Waiting, DisposalReason
<1>6. ASSUME NEW a \in DOMAIN box, box'[a].place = "deferred"
      PROVE  box'[a].deferrals # 0
  <2>1. box[a].place = "deferred" /\ box'[a].deferrals = box[a].deferrals
    BY <1>2, <1>5, <1>6 DEF Turns, Waiting
  <2>2. QED
    BY <2>1 DEF OrderSound
<1>7. ASSUME NEW a \in DOMAIN box' \ DOMAIN box
      PROVE  a >= nextAcceptance /\ box'[a].place # "deferred"
  BY <1>2, <1>3, <1>7 DEF Appends, EmissionPlace
<1>8. ASSUME NEW a \in DOMAIN box, box'[a].place = "ready", box'[a].deferrals = 0
      PROVE  /\ box'[a] = box[a] /\ a \in Pending /\ box[a].place = "ready"
             /\ ~Ended(box[a].target, status')
             /\ status'[box[a].target] \in {"running", "faulted"}
  <2>1. Turns(a, h, fate, Len(ems), S)
    BY <1>2
  <2>2. a # h
    BY <1>5, <1>8, <2>1 DEF Turns, Waiting
  <2>3. a \notin S
    <3>1. a \in S => box[a].place = "deferred"
      BY <1>2 DEF Takes
    <3>2. QED
      BY <1>8, <2>1, <3>1 DEF Turns, OrderSound
  <2>4. box'[a] = box[a] /\ ~(a \in Pending /\ Ended(box[a].target, status'))
    BY <1>5, <1>8, <2>1, <2>2, <2>3 DEF Turns, Waiting
  <2>5. a \in Pending /\ box[a].target \in Runtimes
    BY <1>4, <1>8, <2>4 DEF Pending, Waiting, Entry
  <2>6. status[box[a].target] \in {"running", "faulted"}
    BY <2>5 DEF NoOrphan
  <2>7. status'[box[a].target] # "absent" /\ status'[box[a].target] \in Status
    BY <1>2, <2>5, <2>6 DEF Respects, Live
  <2>8. QED
    BY <1>8, <2>4, <2>5, <2>7 DEF Ended, Status
<1>9. ASSUME NEW a \in DOMAIN box', NEW b \in DOMAIN box', a < b,
             box'[a].target = box'[b].target, box'[a].place = "ready", box'[a].deferrals = 0
      PROVE  box'[b].place = "ready" /\ box'[a].queue < box'[b].queue
  <2>1. CASE a \in DOMAIN box /\ b \in DOMAIN box
    <3>1. /\ box'[a] = box[a] /\ a \in Pending /\ box[a].place = "ready"
          /\ ~Ended(box[a].target, status')
      BY <1>8, <1>9, <2>1
    <3>2. Turns(b, h, fate, Len(ems), S)
      BY <1>2, <2>1
    <3>3. box[b].target = box[a].target
      BY <1>9, <3>1, <3>2 DEF Turns
    <3>4. box[b].place = "ready" /\ box[a].queue < box[b].queue
      BY <1>9, <2>1, <3>1, <3>3 DEF OrderSound
    <3>5. b # h
      <4>1. ASSUME b = h PROVE FALSE
        <5>1. IsHead(box[h].target, h)
          BY <1>2, <2>1, <4>1 DEF Takes, NoAggregate
        <5>2. box[h].queue <= box[a].queue
          BY <2>1, <3>1, <3>3, <4>1, <5>1 DEF IsHead, InMailbox
        <5>3. box[h].queue \in Nat /\ box[a].queue \in Nat
          BY <1>4, <2>1, <4>1 DEF Entry
        <5>4. QED
          BY <3>4, <4>1, <5>2, <5>3
      <4>2. QED
        BY <4>1
    <3>6. b \notin S
      BY <1>2, <3>4 DEF Takes
    <3>7. box'[b] = box[b]
      BY <3>1, <3>2, <3>3, <3>5, <3>6 DEF Turns
    <3>8. QED
      BY <3>1, <3>4, <3>7
  <2>2. CASE a \in DOMAIN box /\ b \notin DOMAIN box
    <3>1. /\ box'[a] = box[a] /\ a \in Pending
          /\ ~Ended(box[a].target, status')
          /\ status'[box[a].target] \in {"running", "faulted"}
      BY <1>8, <1>9, <2>2
    <3>2. PICK k \in 1 .. Len(ems) : Appends(b, k, ems[k])
      BY <1>2, <2>2
    <3>3. box'[b].place = EmissionPlace(box[a].target, status') /\ box'[b].queue = nextQueue + k - 1
      BY <1>9, <3>1, <3>2 DEF Appends
    <3>4. box[a].target \in Runtimes
      BY <1>4, <2>2 DEF Entry
    <3>5. box'[b].place = "ready"
      BY <3>1, <3>3, <3>4 DEF EmissionPlace, PresentIn, Ended
    <3>6. box[a].queue \in Nat /\ box[a].queue < nextQueue
      BY <1>4, <2>2, <3>1 DEF Entry, MailboxesValid
    <3>7. QED
      BY <1>3, <3>1, <3>3, <3>5, <3>6
  <2>3. CASE a \notin DOMAIN box
    <3>1. b \notin DOMAIN box
      BY <1>2, <1>3, <1>9, <2>3
    <3>2. PICK i \in 1 .. Len(ems) : Appends(a, i, ems[i])
      BY <1>2, <2>3
    <3>3. PICK k \in 1 .. Len(ems) : Appends(b, k, ems[k])
      BY <1>2, <3>1
    <3>4. /\ a = nextAcceptance + i - 1 /\ box'[a].queue = nextQueue + i - 1
          /\ b = nextAcceptance + k - 1 /\ box'[b].queue = nextQueue + k - 1
          /\ box'[b].place = box'[a].place
      BY <1>9, <3>2, <3>3 DEF Appends
    <3>5. i < k
      BY <1>3, <1>9, <3>4
    <3>6. QED
      BY <1>3, <1>9, <3>4, <3>5
  <2>4. QED
    BY <2>1, <2>2, <2>3
<1>10. \A a \in DOMAIN box' : box'[a].place = "deferred" => box'[a].deferrals # 0
  BY <1>6, <1>7
<1>11. QED
  BY <1>9, <1>10 DEF OrderSound

\* An admission appends.
LEMMA AdmitKeepsOrder ==
    ASSUME Inv, OrderSound, NEW batch \in Batches, Admit(batch)
    PROVE  OrderSound'
<1>. USE DEF Inv
<1>1. /\ nextAcceptance \in Nat /\ nextQueue \in Nat /\ Len(batch) \in Nat
      /\ DOMAIN box = 0 .. nextAcceptance - 1
      /\ \A a \in DOMAIN box : box[a] \in Entry
  BY BatchIsSequence DEF TypeOK
<1>2. \A a \in DOMAIN box : a \in DOMAIN box' /\ box'[a] = box[a]
  BY AdmitEntries
<1>3. \A a \in DOMAIN box' \ DOMAIN box : \E i \in 1 .. Len(batch) :
         /\ a = nextAcceptance + i - 1
         /\ box'[a].place = "ready" /\ box'[a].queue = nextQueue + i - 1
  BY AdmitEntries
<1>4. DOMAIN box' = 0 .. nextAcceptance' - 1 /\ nextAcceptance' \in Nat
  BY AdmitEntries
<1>5. ASSUME NEW a \in DOMAIN box', NEW b \in DOMAIN box', a < b,
             box'[a].target = box'[b].target, box'[a].place = "ready", box'[a].deferrals = 0
      PROVE  box'[b].place = "ready" /\ box'[a].queue < box'[b].queue
  <2>1. CASE b \in DOMAIN box
    <3>1. a \in DOMAIN box
      BY <1>1, <1>4, <1>5, <2>1
    <3>2. QED
      BY <1>2, <1>5, <2>1, <3>1 DEF OrderSound
  <2>2. CASE a \in DOMAIN box /\ b \notin DOMAIN box
    <3>1. box[a].queue \in Nat /\ box[a].queue < nextQueue /\ box'[a] = box[a]
      BY <1>1, <1>2, <1>5, <2>2 DEF Entry, MailboxesValid, Pending, Waiting
    <3>2. QED
      BY <1>1, <1>3, <2>2, <3>1
  <2>3. CASE a \notin DOMAIN box /\ b \notin DOMAIN box
    BY <1>1, <1>3, <1>5, <2>3
  <2>4. QED
    BY <2>1, <2>2, <2>3
<1>6. \A a \in DOMAIN box' : box'[a].place = "deferred" => box'[a].deferrals # 0
  BY <1>2, <1>3 DEF OrderSound
<1>7. QED
  BY <1>5, <1>6 DEF OrderSound

\* A deferral takes the head of its mailbox.
LEMMA DeferKeepsOrder ==
    ASSUME Inv, OrderSound, NEW r \in Runtimes, NEW h \in DOMAIN box, StepDeferred(r, h)
    PROVE  OrderSound'
<1>. USE DEF Inv
<1>1. /\ DOMAIN box' = DOMAIN box
      /\ \A a \in DOMAIN box : box'[a].target = box[a].target
      /\ \A a \in DOMAIN box : a # h => box'[a] = box[a]
      /\ box[h].target = r /\ box'[h].place = "deferred"
  BY StepDeferredEntries
<1>2. box \in [0 .. nextAcceptance - 1 -> Entry] /\ box[h].deferrals \in Nat
  BY DEF TypeOK, Entry
<1>3. box'[h].deferrals # 0
  <2>1. box'[h] = [box[h] EXCEPT !.place = "deferred", !.queue = nextQueue,
                                 !.deferrals = box[h].deferrals + 1]
    BY <1>2 DEF StepDeferred
  <2>2. PICK n : n = box[h].deferrals + 1
    OBVIOUS
  <2>3. box'[h].deferrals = n
    BY <1>2, <2>1, <2>2 DEF Entry
  <2>4. QED
    BY <1>2, <2>2, <2>3
<1>4. ASSUME NEW a \in DOMAIN box, NEW b \in DOMAIN box, a < b,
             box'[a].target = box'[b].target, box'[a].place = "ready", box'[a].deferrals = 0
      PROVE  box'[b].place = "ready" /\ box'[a].queue < box'[b].queue
  <2>1. a # h /\ box'[a] = box[a] /\ box[a].target = box[b].target
    BY <1>1, <1>4
  <2>2. box[b].place = "ready" /\ box[a].queue < box[b].queue
    BY <1>4, <2>1 DEF OrderSound
  <2>3. b # h
    <3>1. ASSUME b = h PROVE FALSE
      <4>1. box[h].queue <= box[a].queue
        BY <1>1, <1>4, <2>1, <3>1 DEF StepDeferred, Selects, IsHead, InMailbox
      <4>2. box[h].queue \in Nat /\ box[a].queue \in Nat
        BY <1>2 DEF Entry
      <4>3. QED
        BY <2>2, <3>1, <4>1, <4>2
    <3>2. QED
      BY <3>1
  <2>4. QED
    BY <1>1, <2>1, <2>2, <2>3
<1>5. \A a \in DOMAIN box' : box'[a].place = "deferred" => box'[a].deferrals # 0
  BY <1>1, <1>3 DEF OrderSound
<1>6. QED
  BY <1>1, <1>4, <1>5 DEF OrderSound

\* For every target, no delivery is taken, deferred or disposed of by its first turn
\* before one that was accepted earlier: however runtimes emit, defer and recall.
THEOREM FirstTurnsInOrder == Spec => []NoOvertaking
<1>1. Init => OrderSound
  BY EmptySeq DEF Init, OrderSound
<1>2. Inv /\ NoOrphan /\ OrderSound /\ [Next]_vars => OrderSound'
  <2>1. ASSUME Inv, NoOrphan, OrderSound, [Next]_vars PROVE OrderSound'
    <3>1. CASE UNCHANGED vars
      BY <2>1, <3>1 DEF vars, OrderSound
    <3>2. QED
      BY <2>1, <3>1, NextCases, CommitKeepsOrder, AdmitKeepsOrder, DeferKeepsOrder DEF Inv
  <2>2. QED
    BY <2>1
<1>3. OrderSound => NoOvertaking
  BY DEF OrderSound, NoOvertaking
<1>4. QED
  BY <1>1, <1>2, <1>3, InvAlways, NoOrphanAlways, PTL DEF Spec

\* What a step does to the order of what it recalls.
KeepsOrder ==
    \A a, b \in DOMAIN box :
       /\ box[a].place = "deferred" /\ box'[a].place = "ready"
       /\ box[b].target = box[a].target /\ box'[b].place = "ready"
       => IF box[b].place = "deferred"
          THEN box[a].queue < box[b].queue <=> box'[a].queue < box'[b].queue
          ELSE box'[b].queue < box'[a].queue

\* A commit recalls behind everything ready, and by rank.
LEMMA CommitRecallsInOrder ==
    ASSUME Inv, CommitStep
    PROVE  KeepsOrder
<1>. USE DEF Inv
<1>1. PICK h, fate, ems, S : CommitShape(h, fate, ems, S)
  BY CommitStepShape
<1>2. /\ \A a \in DOMAIN box : Turns(a, h, fate, Len(ems), S)
      /\ S \subseteq Pending /\ h \notin S /\ Len(ems) \in Nat
      /\ Takes(h, fate, S)
  BY <1>1 DEF CommitShape
<1>3. \A a \in DOMAIN box : box[a] \in Entry
  BY DEF TypeOK
<1>4. nextQueue \in Nat /\ S \in SUBSET DOMAIN box
  BY <1>2 DEF TypeOK, Pending
<1>5. /\ \A a \in S : RecallRank(S, a) \in 0 .. Cardinality(S) - 1
      /\ \A a, b \in S : box[a].queue < box[b].queue => RecallRank(S, a) < RecallRank(S, b)
  <2>1. \A a, b \in S : a # b => box[a].queue # box[b].queue
    BY <1>2 DEF MailboxesValid
  <2>2. QED
    BY <1>4, <2>1, RanksDistinct
<1>6. \A a \in S : RecallRank(S, a) \in Nat
  BY <1>4, <1>5, EntriesFinite
<1>7. ASSUME NEW a \in DOMAIN box, box'[a].place = "ready"
      PROVE  a \in S \/ (a \notin S /\ box[a].place = "ready" /\ box'[a].queue = box[a].queue)
  BY <1>2, <1>7 DEF Turns, Takes, DisposalReason
<1>8. ASSUME NEW a \in DOMAIN box, NEW b \in DOMAIN box,
             box[a].place = "deferred", box'[a].place = "ready",
             box[b].target = box[a].target, box'[b].place = "ready"
      PROVE  IF box[b].place = "deferred"
             THEN box[a].queue < box[b].queue <=> box'[a].queue < box'[b].queue
             ELSE box'[b].queue < box'[a].queue
  <2>1. a \in S /\ box'[a].queue = nextQueue + Len(ems) + RecallRank(S, a)
    BY <1>2, <1>7, <1>8 DEF Turns
  <2>2. CASE box[b].place = "deferred"
    <3>1. b \in S /\ box'[b].queue = nextQueue + Len(ems) + RecallRank(S, b)
      BY <1>2, <1>7, <1>8, <2>2 DEF Turns
    <3>2. box[a].queue \in Nat /\ box[b].queue \in Nat /\ (a # b => box[a].queue # box[b].queue)
      BY <1>2, <1>3, <2>1, <3>1 DEF Entry, MailboxesValid
    <3>3. /\ box[a].queue < box[b].queue => RecallRank(S, a) < RecallRank(S, b)
          /\ box[b].queue < box[a].queue => RecallRank(S, b) < RecallRank(S, a)
      BY <1>5, <2>1, <3>1
    <3>4. RecallRank(S, a) \in Nat /\ RecallRank(S, b) \in Nat
      BY <1>6, <2>1, <3>1
    <3>5. box[a].queue < box[b].queue <=> box'[a].queue < box'[b].queue
      BY <1>2, <1>4, <2>1, <3>1, <3>2, <3>3, <3>4
    <3>6. QED
      BY <2>2, <3>5
  <2>3. CASE box[b].place # "deferred"
    <3>1. box[b].place = "ready" /\ box'[b].queue = box[b].queue
      BY <1>2, <1>7, <1>8, <2>3 DEF Takes
    <3>2. box[b].queue \in Nat /\ box[b].queue < nextQueue
      BY <1>3, <3>1 DEF Entry, MailboxesValid, Pending, Waiting
    <3>3. QED
      BY <1>2, <1>4, <1>6, <2>1, <2>3, <3>1, <3>2
  <2>4. QED
    BY <2>2, <2>3
<1>9. QED
  BY <1>8 DEF KeepsOrder

\* A recall puts the released entries behind everything ready, in the order in which
\* they were deferred, whatever the same step emits and disposes of.
THEOREM RecallAlwaysKeepsOrder == Spec => RecallKeepsOrder
<1>1. Inv /\ [Next]_vars => [KeepsOrder]_vars
  <2>1. ASSUME Inv, [Next]_vars PROVE [KeepsOrder]_vars
    <3>1. ASSUME NEW batch \in Batches, Admit(batch) PROVE KeepsOrder
      BY <2>1, <3>1, AdmitPlaces DEF Inv, KeepsOrder
    <3>2. ASSUME NEW r \in Runtimes, NEW h \in DOMAIN box, StepDeferred(r, h) PROVE KeepsOrder
      BY <2>1, <3>2, StepDeferredEntries DEF Inv, KeepsOrder
    <3>3. QED
      BY <2>1, <3>1, <3>2, NextCases, CommitRecallsInOrder DEF Inv
  <2>2. QED
    BY <2>1
<1>2. QED
  BY <1>1, InvAlways, PTL DEF Spec, RecallKeepsOrder, KeepsOrder

-----------------------------------------------------------------------------
(* The tree of owners.  Ancestors is a recursive function; that it computes *)
(* the closure of Owner follows from a closure that is not recursive.      *)

\* A set of natural numbers that is not empty has a least element: the initial
\* segments of the natural numbers are well-ordered by inclusion.
LEMMA LeastNumber ==
    ASSUME NEW S, S \subseteq Nat, S # {}
    PROVE  \E x \in S : \A y \in S : x <= y
<1>. DEFINE T == {0 .. m : m \in S}
            R == StrictSubsetOrdering(Nat)
<1>1. IsWellFoundedOn(R, FiniteSubsetsOf(Nat))
  BY FS_StrictSubsetOrderingWellFounded
<1>2. T \subseteq FiniteSubsetsOf(Nat)
  <2>. SUFFICES ASSUME NEW m \in S
                PROVE  0 .. m \in FiniteSubsetsOf(Nat)
    OBVIOUS
  <2>1. m \in Int /\ 0 \in Int /\ 0 .. m \subseteq Nat
    OBVIOUS
  <2>2. IsFiniteSet(0 .. m)
    BY <2>1, FS_Interval
  <2>. QED
    BY <2>1, <2>2 DEF FiniteSubsetsOf
<1>3. T # {}
  OBVIOUS
<1>4. PICK I \in T : \A J \in T : ~ (<<J, I>> \in R)
  <2>. HIDE DEF T, R
  <2>. QED
    BY <1>1, <1>2, <1>3, WFMin
<1>5. PICK x \in S : I = 0 .. x
  BY <1>4
<1>6. ASSUME NEW y \in S
      PROVE  x <= y
  <2>. SUFFICES ASSUME y < x
                PROVE  FALSE
    OBVIOUS
  <2>1. /\ 0 .. y \subseteq 0 .. x /\ x \in 0 .. x /\ x \notin 0 .. y
        /\ 0 .. y \in SUBSET Nat /\ 0 .. x \in SUBSET Nat /\ 0 .. y \in T
    OBVIOUS
  <2>2. <<0 .. y, I>> \in R
    BY <1>5, <2>1 DEF StrictSubsetOrdering
  <2>. QED
    BY <1>4, <2>1, <2>2
<1>. QED
  BY <1>6


\* A set that is closed under owners.
UpwardClosed(S) == \A x \in S \ {Root} : Owner[x] \in S

\* The runtimes every set has that is closed under owners and starts above r.
Above(r) ==
    {a \in Runtimes : \A S \in SUBSET Runtimes :
        UpwardClosed(S) /\ (r # Root => Owner[r] \in S) => a \in S}

\* The closure satisfies the equation of Ancestors.
LEMMA AboveUnfolds ==
    ASSUME NEW r \in Runtimes
    PROVE  Above(r) = IF r = Root THEN {} ELSE {Owner[r]} \cup Above(Owner[r])
<1>1. CASE r = Root
  <2>1. UpwardClosed({}) /\ {} \in SUBSET Runtimes
    BY DEF UpwardClosed
  <2>. QED
    BY <1>1, <2>1 DEF Above
<1>2. CASE r # Root
  <2>. DEFINE o == Owner[r]
  <2>1. o \in Runtimes
    BY <1>2, OwnershipAssumption DEF NonRoot
  <2>. HIDE DEF o
  <2>2. ASSUME NEW a \in Above(o), NEW S \in SUBSET Runtimes, UpwardClosed(S), o \in S
        PROVE  a \in S
    <3>1. o # Root => Owner[o] \in S
      BY <2>1, <2>2 DEF UpwardClosed
    <3>. QED
      BY <2>2, <3>1 DEF Above
  <2>3. {o} \cup Above(o) \subseteq Above(r)
    <3>1. \A S \in SUBSET Runtimes : UpwardClosed(S) /\ (r # Root => Owner[r] \in S) => o \in S
      BY <1>2 DEF o
    <3>2. o \in Above(r)
      BY <2>1, <3>1 DEF Above
    <3>3. ASSUME NEW a \in Above(o) PROVE a \in Above(r)
      <4>1. a \in Runtimes
        BY <3>3 DEF Above
      <4>. QED
        BY <2>2, <3>1, <3>3, <4>1 DEF Above
    <3>. QED
      BY <3>2, <3>3
  <2>4. Above(r) \subseteq {o} \cup Above(o)
    <3>. DEFINE T == {o} \cup Above(o)
    <3>1. T \in SUBSET Runtimes
      BY <2>1 DEF Above
    <3>2. ASSUME NEW x \in T, x # Root PROVE Owner[x] \in Above(o)
      <4>1. x \in Runtimes /\ Owner[x] \in Runtimes
        BY <3>1, <3>2, OwnershipAssumption DEF NonRoot
      <4>2. ASSUME NEW S \in SUBSET Runtimes, UpwardClosed(S), o # Root => Owner[o] \in S
            PROVE  Owner[x] \in S
        <5>1. CASE x = o
          BY <3>2, <4>2, <5>1
        <5>2. CASE x \in Above(o)
          <6>1. x \in S
            BY <4>2, <5>2 DEF Above
          <6>. QED
            BY <3>2, <4>2, <6>1 DEF UpwardClosed
        <5>. QED
          BY <3>2, <5>1, <5>2
      <4>. QED
        BY <4>1, <4>2 DEF Above
    <3>3. UpwardClosed(T)
      BY <3>2 DEF UpwardClosed
    <3>4. Owner[r] \in T
      BY DEF o
    <3>. HIDE DEF T
    <3>5. Above(r) \subseteq T
      BY <3>1, <3>3, <3>4 DEF Above
    <3>. QED
      BY <3>5 DEF T
  <2>5. Above(r) = {o} \cup Above(o)
    BY <2>3, <2>4
  <2>. QED
    BY <1>2, <2>5 DEF o
<1>. QED
  BY <1>1, <1>2

\* The owners of a runtime are its owner and the owners of that one.
LEMMA AncestorsUnfold ==
    ASSUME NEW r \in Runtimes
    PROVE  Ancestors[r] = IF r = Root THEN {} ELSE {Owner[r]} \cup Ancestors[Owner[r]]
<1>1. PICK f : f = [x \in Runtimes |-> Above(x)]
  OBVIOUS
<1>2. ASSUME NEW x \in Runtimes
      PROVE  f[x] = IF x = Root THEN {} ELSE {Owner[x]} \cup f[Owner[x]]
  <2>1. x # Root => Owner[x] \in Runtimes
    BY OwnershipAssumption DEF NonRoot
  <2>2. f[x] = Above(x) /\ (x # Root => f[Owner[x]] = Above(Owner[x]))
    BY <1>1, <2>1
  <2>. QED
    BY <2>2, AboveUnfolds
<1>3. f = [x \in Runtimes |-> IF x = Root THEN {} ELSE {Owner[x]} \cup f[Owner[x]]]
  BY <1>1, <1>2
<1>4. Ancestors = CHOOSE g : g = [x \in Runtimes |-> IF x = Root THEN {} ELSE {Owner[x]} \cup g[Owner[x]]]
  BY Zenon DEF Ancestors
<1>5. Ancestors = [x \in Runtimes |-> IF x = Root THEN {} ELSE {Owner[x]} \cup Ancestors[Owner[x]]]
  BY Zenon, <1>3, <1>4
<1>. QED
  BY <1>5

\* An owner has a smaller identity.
LEMMA OwnerFacts ==
    ASSUME NEW r \in NonRoot
    PROVE  /\ r \in Runtimes /\ r \in Nat /\ Owner[r] \in Runtimes /\ Owner[r] \in Nat /\ Owner[r] < r
           /\ Ancestors[r] = {Owner[r]} \cup Ancestors[Owner[r]]
  BY OwnershipAssumption, AncestorsUnfold DEF NonRoot

\* The root has no owner.
LEMMA RootFacts == Root \in Runtimes /\ Ancestors[Root] = {}
  BY OwnershipAssumption, AncestorsUnfold

\* Whoever owns a runtime has a smaller identity, and is the root or owned by it;
\* and its owners own the runtime.
LEMMA AncestorsFacts ==
    ASSUME NEW r \in Runtimes
    PROVE  /\ \A a \in Ancestors[r] : a \in Runtimes /\ a < r /\ Ancestors[a] \subseteq Ancestors[r]
           /\ r # Root => Root \in Ancestors[r]
<1>. DEFINE Holds(x) ==
              /\ \A a \in Ancestors[x] : a \in Runtimes /\ a < x /\ Ancestors[a] \subseteq Ancestors[x]
              /\ x # Root => Root \in Ancestors[x]
            Bad == {x \in Runtimes : ~Holds(x)}
<1>1. Bad \subseteq Nat
  BY OwnershipAssumption
<1>2. SUFFICES ASSUME Bad # {} PROVE FALSE
  OBVIOUS
<1>3. PICK x \in Bad : \A y \in Bad : x <= y
  <2>. HIDE DEF Bad
  <2>. QED
    BY <1>1, <1>2, LeastNumber
<1>4. x # Root
  BY <1>3, RootFacts
<1>5. x \in NonRoot
  BY <1>3, <1>4 DEF NonRoot
<1>. DEFINE o == Owner[x]
<1>6. o \in Runtimes /\ o \in Nat /\ x \in Nat /\ o < x /\ Ancestors[x] = {o} \cup Ancestors[o]
  BY <1>5, OwnerFacts
<1>. HIDE DEF o
<1>7. Holds(o)
  BY <1>1, <1>3, <1>6
<1>8. ASSUME NEW a \in Ancestors[x] PROVE a \in Runtimes /\ a < x /\ Ancestors[a] \subseteq Ancestors[x]
  <2>1. CASE a = o
    BY <1>6, <2>1
  <2>2. CASE a \in Ancestors[o]
    <3>1. a \in Runtimes /\ a < o /\ Ancestors[a] \subseteq Ancestors[o]
      BY <1>7, <2>2
    <3>2. a \in Nat
      BY <3>1, OwnershipAssumption
    <3>. QED
      BY <1>6, <3>1, <3>2
  <2>. QED
    BY <1>6, <1>8, <2>1, <2>2
<1>9. Root \in Ancestors[x]
  BY <1>6, <1>7
<1>10. Holds(x)
  BY <1>8, <1>9
<1>. QED
  BY <1>3, <1>10

\* Nobody owns itself.
LEMMA NotItsOwnAncestor ==
    ASSUME NEW r \in Runtimes
    PROVE  r \notin Ancestors[r]
<1>1. r \in Nat
  BY OwnershipAssumption
<1>. QED
  BY <1>1, AncestorsFacts

\* What a runtime owns belongs to what its owners own; everything is below the root.
LEMMA SubtreeFacts ==
    ASSUME NEW t \in Runtimes
    PROVE  /\ Subtree(t) \subseteq Runtimes /\ t \in Subtree(t)
           /\ \A d \in Runtimes : d \in Subtree(t) <=> d = t \/ t \in Ancestors[d]
           /\ \A d \in NonRoot : d \in Subtree(t) <=> d = t \/ Owner[d] \in Subtree(t)
           /\ \A d \in Subtree(t) : d # t => d \in NonRoot
           /\ \A d \in Descendants(t) : d \in Runtimes /\ d # t /\ t \in Ancestors[d]
           /\ \A d \in Subtree(t) : Subtree(d) \subseteq Subtree(t)
           /\ Subtree(Root) = Runtimes
<1>1. Subtree(t) \subseteq Runtimes /\ t \in Subtree(t)
  BY DEF Subtree
<1>2. \A d \in Runtimes : d \in Subtree(t) <=> d = t \/ t \in Ancestors[d]
  BY DEF Subtree
<1>3. ASSUME NEW d \in NonRoot PROVE d \in Subtree(t) <=> d = t \/ Owner[d] \in Subtree(t)
  <2>1. d \in Runtimes /\ Owner[d] \in Runtimes /\ Ancestors[d] = {Owner[d]} \cup Ancestors[Owner[d]]
    BY OwnerFacts
  <2>. QED
    BY <1>2, <2>1
<1>4. \A d \in Subtree(t) : d # t => d \in NonRoot
  BY <1>1, <1>2, RootFacts DEF NonRoot
<1>5. \A d \in Descendants(t) : d \in Runtimes /\ d # t /\ t \in Ancestors[d]
  BY <1>1, <1>2 DEF Descendants
<1>6. ASSUME NEW d \in Subtree(t), NEW x \in Subtree(d) PROVE x \in Subtree(t)
  <2>1. d \in Runtimes
    BY <1>1, <1>6
  <2>2. x \in Runtimes /\ (x = d \/ d \in Ancestors[x]) /\ (d = t \/ t \in Ancestors[d])
    BY <1>2, <1>6, <2>1 DEF Subtree
  <2>3. d \in Ancestors[x] => Ancestors[d] \subseteq Ancestors[x]
    BY <2>2, AncestorsFacts
  <2>. QED
    BY <1>2, <2>2, <2>3
<1>7. Subtree(Root) = Runtimes
  BY RootFacts, AncestorsFacts DEF Subtree
<1>. QED
  BY <1>1, <1>2, <1>3, <1>4, <1>5, <1>6, <1>7

-----------------------------------------------------------------------------
(* The ownership tree.                                                     *)

OwnedIn(st) ==
    \A r \in PresentIn(st) \ {Root} : Owner[r] \in PresentIn(st) /\ st[Owner[r]] # "completed"

ComponentsIn(st, md) ==
    \A r \in Runtimes : st[r] = "running" => AllocatesFor(r, md[r], PresentIn(st))

\* The tree of owners and the components of each state, by status and mode.
LEMMA TreeParts ==
    /\ OwnershipWellFormed <=> OwnedIn(status) /\ ComponentsIn(status, mode)
    /\ OwnershipWellFormed' <=> OwnedIn(status') /\ ComponentsIn(status', mode')
  BY DEF OwnershipWellFormed, OwnedIn, ComponentsIn, Present

\* Cleanup takes neither the runtime that steps nor anything whose owner stays,
\* and of the components of others none.
CleansUp(r, leaves, R) ==
    /\ R \subseteq Present /\ r \notin R /\ \A x \in R : x \in Descendants(r)
    /\ \A x \in Present \cap NonRoot : Owner[x] \in R => x \in R
    /\ \A p \in Runtimes \ R : p \in Present /\ p # r => ComponentsOf(p) \cap R = {}
    /\ leaves => ComponentsOf(r) \cap Present \subseteq R
    /\ ~leaves => ComponentsOf(r) \cap R = {}

\* It does so whatever the step cancels.
LEMMA RemovedFacts ==
    ASSUME NEW r \in Runtimes, NEW tops \in SUBSET Cancellable(r), NEW leaves \in BOOLEAN,
           NEW R, R = Removed(r, tops, leaves)
    PROVE  CleansUp(r, leaves, R)
<1>. DEFINE T == tops \cup (IF leaves THEN ComponentsOf(r) ELSE {})
<1>1. \A x : x \in R <=> x \in Present /\ \E t \in T : x \in Subtree(t)
  BY DEF Removed
<1>2. \A c \in ComponentsOf(r) : c \in NonRoot /\ Owner[c] = r /\ c \in Components
  BY DEF ComponentsOf, Children
<1>3. \A t \in tops : t \in Spawned /\ t \in Descendants(r)
  BY DEF Cancellable
<1>4. \A t \in T : (t \in Spawned /\ t \in Descendants(r)) \/ (leaves /\ t \in ComponentsOf(r))
  BY <1>3
<1>5. leaves => ComponentsOf(r) \subseteq T
  OBVIOUS
<1>. HIDE DEF T
<1>6. \A c \in ComponentsOf(r) : c \in Descendants(r)
  <2>. SUFFICES ASSUME NEW c \in ComponentsOf(r) PROVE c \in Descendants(r)
    OBVIOUS
  <2>1. c \in Runtimes /\ Ancestors[c] = {r} \cup Ancestors[r]
    BY <1>2, OwnerFacts
  <2>2. c # r
    BY <2>1, NotItsOwnAncestor
  <2>. QED
    BY <2>1, <2>2 DEF Descendants, Subtree
<1>7. \A t \in T : t \in Descendants(r) /\ t \in Runtimes /\ t # r /\ r \in Ancestors[t]
  BY <1>4, <1>6, SubtreeFacts
<1>8. ASSUME NEW t \in T PROVE r \notin Subtree(t)
  <2>1. t \in Runtimes /\ t # r /\ r \in Ancestors[t]
    BY <1>7
  <2>2. t \notin Ancestors[r]
    BY <2>1, AncestorsFacts, NotItsOwnAncestor
  <2>. QED
    BY <2>1, <2>2, SubtreeFacts
<1>9. R \subseteq Present /\ r \notin R
  BY <1>1, <1>8
<1>10. ASSUME NEW x \in R PROVE x \in Descendants(r)
  <2>1. PICK t \in T : x \in Subtree(t)
    BY <1>1
  <2>2. t \in Subtree(r)
    BY <1>7 DEF Descendants
  <2>3. x \in Subtree(r)
    BY <2>1, <2>2, SubtreeFacts
  <2>. QED
    BY <1>9, <2>3 DEF Descendants
<1>11. ASSUME NEW x \in Present \cap NonRoot, Owner[x] \in R PROVE x \in R
  <2>1. PICK t \in T : Owner[x] \in Subtree(t)
    BY <1>1, <1>11
  <2>2. t \in Runtimes
    BY <1>7
  <2>3. x \in Subtree(t)
    BY <2>1, <2>2, SubtreeFacts
  <2>. QED
    BY <1>1, <1>11, <2>3
<1>12. ASSUME NEW p \in Runtimes \ R, p \in Present, p # r, NEW d \in ComponentsOf(p) PROVE d \notin R
  <2>. SUFFICES ASSUME d \in R PROVE FALSE
    OBVIOUS
  <2>1. d \in NonRoot /\ Owner[d] = p /\ d \in Components
    BY DEF ComponentsOf, Children
  <2>2. PICK t \in T : d \in Subtree(t)
    BY <1>1
  <2>3. t \in Runtimes /\ p \notin Subtree(t)
    BY <1>1, <1>7, <1>12, <2>2
  <2>4. d = t
    BY <2>1, <2>2, <2>3, SubtreeFacts
  <2>5. t \in Spawned => t \notin Components
    BY DEF Spawned, Components
  <2>. QED
    BY <1>2, <1>4, <1>12, <2>1, <2>4, <2>5
<1>13. leaves => ComponentsOf(r) \cap Present \subseteq R
  <2>1. \A c \in T : c \in Subtree(c)
    BY <1>7, SubtreeFacts
  <2>. QED
    BY <1>1, <1>5, <2>1
<1>14. ASSUME ~leaves, NEW d \in ComponentsOf(r) PROVE d \notin R
  <2>. SUFFICES ASSUME d \in R PROVE FALSE
    OBVIOUS
  <2>1. d \in NonRoot /\ Owner[d] = r /\ d \in Components
    BY DEF ComponentsOf, Children
  <2>2. PICK t \in T : d \in Subtree(t)
    BY <1>1
  <2>3. t \in Runtimes /\ r \notin Subtree(t)
    BY <1>7, <1>8
  <2>4. d = t
    BY <2>1, <2>2, <2>3, SubtreeFacts
  <2>5. t \in Spawned => t \notin Components
    BY DEF Spawned, Components
  <2>. QED
    BY <1>4, <1>14, <2>1, <2>4, <2>5
<1>. QED
  BY <1>9, <1>10, <1>11, <1>12, <1>13, <1>14 DEF CleansUp

\* A transition: what it removes goes with all it owns, what it creates hangs
\* below it, and a parallel state has its components.
LEMMA TransitionTree ==
    ASSUME TypeOK, OwnershipWellFormed, NEW r \in Runtimes, r = Root \/ r \in Present,
           NEW tops \in SUBSET Cancellable(r), NEW leaves \in BOOLEAN,
           NEW created \in SUBSET {c \in Runtimes : status[c] = "absent"}, r \notin created,
           Root \notin created,
           NEW init \in InitResults(created),
           NEW md \in [Running(created, init) \cup {r} -> Modes],
           CanCreate(r, created, init, md, leaves),
           ~leaves => status[r] = "running" /\ md[r] = mode[r],
           status' = After(r, "running", created, init, Removed(r, tops, leaves)),
           mode' = Entered(md)
    PROVE  OwnershipWellFormed'
<1>1. PICK R : R = Removed(r, tops, leaves)
  OBVIOUS
<1>2. /\ R \subseteq Present /\ r \notin R
      /\ \A x \in Present \cap NonRoot : Owner[x] \in R => x \in R
      /\ \A p \in Runtimes \ R : p \in Present /\ p # r => ComponentsOf(p) \cap R = {}
      /\ leaves => ComponentsOf(r) \cap Present \subseteq R
      /\ ~leaves => ComponentsOf(r) \cap R = {}
  <2>1. CleansUp(r, leaves, R)
    BY Zenon, <1>1, RemovedFacts
  <2>. QED
    BY <2>1 DEF CleansUp
<1>3. OwnedIn(status) /\ ComponentsIn(status, mode)
  BY TreeParts
<1>4. /\ \A x \in Present : x \in Runtimes /\ x \notin created
      /\ \A x \in Runtimes : x \in Present <=> status[x] \in {"running", "faulted", "completed"}
      /\ created \cap R = {}
  BY <1>2 DEF Present, PresentIn
<1>5. /\ status'[r] = "running"
      /\ \A x \in created : x \in Runtimes /\ status'[x] = init[x]
      /\ \A x \in R : status'[x] = "removed"
      /\ \A x \in Runtimes \ ({r} \cup created \cup R) : status'[x] = status[x]
  BY <1>1, <1>2, <1>4 DEF After
<1>6. /\ mode'[r] = md[r] /\ \A x \in Running(created, init) : mode'[x] = md[x]
      /\ \A x \in Runtimes \ ({r} \cup Running(created, init)) : mode'[x] = mode[x]
  BY DEF Entered, Running
<1>7. \A x \in created : x \in NonRoot /\ Owner[x] \in Runtimes
  BY OwnerFacts DEF NonRoot
<1>8. \A c \in created : Owner[c] = r \/ (Owner[c] \in created /\ init[Owner[c]] = "running")
  BY DEF CanCreate
<1>9. \A x : x \in PresentIn(status') <=> x \in Runtimes /\ status'[x] \in {"running", "faulted", "completed"}
  BY DEF PresentIn
<1>10. \A x \in Runtimes \ ({r} \cup created) : x \in PresentIn(status') <=> x \in Present \ R
  BY <1>4, <1>5, <1>9
<1>11. ASSUME NEW x \in PresentIn(status') \ {Root}
       PROVE  Owner[x] \in PresentIn(status') /\ status'[Owner[x]] # "completed"
  <2>1. x \in NonRoot /\ x \in Runtimes
    BY <1>9, <1>11 DEF NonRoot
  <2>2. Owner[x] \in Runtimes /\ Owner[x] # x
    BY <2>1, OwnerFacts
  <2>3. CASE x \in created
    BY <1>5, <1>8, <1>9, <2>2, <2>3
  <2>4. CASE x \notin created
    <3>1. x \in Present \ R
      BY <1>2, <1>10, <1>11, <2>1, <2>4
    <3>2. Owner[x] \in Present /\ status[Owner[x]] # "completed"
      BY <1>3, <1>11, <3>1 DEF OwnedIn, Present
    <3>3. Owner[x] \notin R /\ Owner[x] \notin created
      BY <1>2, <1>4, <2>1, <3>1, <3>2
    <3>4. CASE Owner[x] = r
      BY <1>5, <1>9, <3>4
    <3>5. CASE Owner[x] # r
      BY <1>5, <1>10, <2>2, <3>2, <3>3, <3>5
    <3>. QED
      BY <3>4, <3>5
  <2>. QED
    BY <2>3, <2>4
<1>12. \A p \in Runtimes : \A c \in ComponentsOf(p) : c \in NonRoot /\ Owner[c] = p /\ c \in Components /\ c \in Runtimes
  BY DEF ComponentsOf, Children, NonRoot
<1>13. \A c \in created \cap Components : c \in PresentIn(status')
  <2>. SUFFICES ASSUME NEW c \in created \cap Components PROVE c \in PresentIn(status')
    OBVIOUS
  <2>1. init[c] \in {"running", "faulted", "completed", "removed"} /\ (Role[c] # "spawned" => init[c] # "removed")
    BY DEF InitResults
  <2>2. Role[c] # "spawned"
    BY DEF Components
  <2>. QED
    BY <1>5, <1>9, <2>1, <2>2
<1>14. ASSUME NEW p \in Runtimes, status'[p] = "running"
       PROVE  AllocatesFor(p, mode'[p], PresentIn(status'))
  <2>1. CASE p = r
    <3>1. PresentIn(status') \cap ComponentsOf(r)
          = IF leaves THEN created \cap ComponentsOf(r) ELSE Present \cap ComponentsOf(r)
      <4>1. \A c \in ComponentsOf(r) : c # r
        BY <1>12, OwnerFacts
      <4>2. ~leaves => created \cap ComponentsOf(r) = {}
        BY DEF CanCreate
      <4>3. \A c \in ComponentsOf(r) : c \notin created => (c \in PresentIn(status') <=> c \in Present \ R)
        BY <1>10, <1>12, <4>1
      <4>. QED
        BY <1>2, <1>4, <1>12, <1>13, <4>2, <4>3
    <3>2. CASE leaves
      <4>1. AllocatesFor(r, md[r], created)
        BY <3>2 DEF CanCreate
      <4>. QED
        BY <1>6, <2>1, <3>1, <3>2, <4>1 DEF AllocatesFor
    <3>3. CASE ~leaves
      <4>1. AllocatesFor(r, mode[r], Present)
        BY <1>3, <3>3 DEF ComponentsIn, Present
      <4>. QED
        BY <1>6, <2>1, <3>1, <3>3, <4>1 DEF AllocatesFor
    <3>. QED
      BY <3>2, <3>3
  <2>2. CASE p \in created
    <3>1. init[p] = "running" /\ p \in Running(created, init)
      BY <1>5, <1>14, <2>2 DEF Running
    <3>2. AllocatesFor(p, md[p], created)
      BY <2>2, <3>1 DEF CanCreate
    <3>3. \A c \in ComponentsOf(p) : c \notin Present /\ c # r
      <4>1. \A x \in Present \ {Root} : Owner[x] \in Present
        BY <1>3 DEF OwnedIn, Present
      <4>2. r # Root => r \in Present
        OBVIOUS
      <4>. QED
        BY <1>4, <1>12, <2>2, <4>1, <4>2 DEF NonRoot
    <3>4. PresentIn(status') \cap ComponentsOf(p) = created \cap ComponentsOf(p)
      BY <1>10, <1>12, <1>13, <3>3
    <3>. QED
      BY <1>6, <3>1, <3>2, <3>4 DEF AllocatesFor
  <2>3. CASE p # r /\ p \notin created
    <3>1. p \notin R /\ status[p] = "running" /\ mode'[p] = mode[p]
      BY <1>5, <1>6, <1>14, <2>3 DEF Running
    <3>2. p \in Present /\ AllocatesFor(p, mode[p], Present)
      BY <1>3, <1>4, <3>1 DEF ComponentsIn, Present
    <3>3. \A c \in ComponentsOf(p) : c \notin created /\ c \notin R
      BY <1>2, <1>8, <1>12, <2>3, <3>1, <3>2
    <3>4. r \in ComponentsOf(p) => r \in Present /\ r \in PresentIn(status')
      BY <1>5, <1>9, <1>12 DEF NonRoot
    <3>5. PresentIn(status') \cap ComponentsOf(p) = Present \cap ComponentsOf(p)
      BY <1>10, <1>12, <3>3, <3>4
    <3>. QED
      BY <3>1, <3>2, <3>5 DEF AllocatesFor
  <2>. QED
    BY <2>1, <2>2, <2>3
<1>. QED
  BY <1>11, <1>14, TreeParts DEF OwnedIn, ComponentsIn

\* A completion takes everything the runtime owns.
LEMMA CompletionTree ==
    ASSUME TypeOK, OwnershipWellFormed, NEW r \in Present, status[r] = "running",
           NEW own, own = IF Role[r] = "spawned" THEN "removed" ELSE "completed",
           status' = After(r, own, {}, <<>>, Present \cap Descendants(r)), mode' = mode
    PROVE  OwnershipWellFormed'
<1>1. PICK R : R = Present \cap Descendants(r)
  OBVIOUS
<1>2. r \in Runtimes /\ r \notin R
  BY <1>1, SubtreeFacts DEF Present, PresentIn, Descendants
<1>3. OwnedIn(status) /\ ComponentsIn(status, mode)
  BY TreeParts
<1>4. /\ status'[r] = own
      /\ \A x \in R : status'[x] = "removed"
      /\ \A x \in Runtimes \ ({r} \cup R) : status'[x] = status[x]
  BY <1>1, <1>2 DEF After, Present, PresentIn
<1>5. /\ \A x : x \in PresentIn(status') <=> x \in Runtimes /\ status'[x] \in {"running", "faulted", "completed"}
      /\ \A x : x \in Present <=> x \in Runtimes /\ status[x] \in {"running", "faulted", "completed"}
  BY DEF PresentIn, Present
<1>6. \A x \in Runtimes \ {r} : x \in PresentIn(status') <=> x \in Present \ R
  BY <1>1, <1>4, <1>5
<1>7. ASSUME NEW x \in NonRoot, x \in Present \ R, x # r
      PROVE  Owner[x] \notin R /\ Owner[x] # r
  <2>1. x \in Runtimes /\ Owner[x] \in Runtimes
    BY OwnerFacts
  <2>2. x \notin Subtree(r)
    BY <1>1, <1>7 DEF Descendants
  <2>. QED
    BY <1>1, <1>2, <2>2, SubtreeFacts DEF Descendants
<1>8. ASSUME NEW x \in PresentIn(status') \ {Root}
      PROVE  Owner[x] \in PresentIn(status') /\ status'[Owner[x]] # "completed"
  <2>1. x \in NonRoot
    BY <1>5, <1>8 DEF NonRoot
  <2>2. x \in Present /\ Owner[x] \in Runtimes /\ Owner[x] # x
    <3>1. Owner[x] \in Runtimes /\ Owner[x] # x
      BY <2>1, OwnerFacts
    <3>2. x \in Runtimes /\ x \in PresentIn(status')
      BY <1>5, <1>8
    <3>. QED
      BY <1>6, <3>1, <3>2
  <2>3. Owner[x] \in Present /\ status[Owner[x]] # "completed"
    BY <1>3, <1>8, <2>2 DEF OwnedIn, Present
  <2>4. Owner[x] \notin R /\ Owner[x] # r
    <3>1. CASE x = r
      <4>1. Owner[r] \notin Descendants(r)
        <5>1. Owner[r] \in Ancestors[r]
          BY <2>1, <3>1, OwnerFacts
        <5>2. r \notin Ancestors[Owner[r]]
          BY <1>2, <5>1, AncestorsFacts, NotItsOwnAncestor
        <5>. QED
          BY <1>2, <5>2, SubtreeFacts
      <4>. QED
        BY <1>1, <2>2, <3>1, <4>1
    <3>2. CASE x # r
      BY <1>5, <1>6, <1>7, <1>8, <2>1, <3>2
    <3>. QED
      BY <3>1, <3>2
  <2>. QED
    BY <1>4, <1>6, <2>2, <2>3, <2>4
<1>9. ASSUME NEW p \in Runtimes, status'[p] = "running"
      PROVE  AllocatesFor(p, mode'[p], PresentIn(status'))
  <2>1. p # r /\ p \notin R /\ status[p] = "running"
    BY <1>4, <1>9
  <2>2. p \in Present /\ AllocatesFor(p, mode[p], Present)
    BY <1>3, <1>5, <2>1 DEF ComponentsIn, Present
  <2>3. p \notin Subtree(r)
    BY <1>1, <2>1, <2>2 DEF Descendants
  <2>4. \A c \in ComponentsOf(p) : c \in NonRoot /\ Owner[c] = p /\ c \in Components /\ c \in Runtimes
    BY DEF ComponentsOf, Children, NonRoot
  <2>5. \A c \in ComponentsOf(p) : c \notin R
    <3>. SUFFICES ASSUME NEW c \in ComponentsOf(p), c \in R PROVE FALSE
      OBVIOUS
    <3>1. c \in Subtree(r) /\ c # r
      BY <1>1 DEF Descendants
    <3>. QED
      BY <1>2, <2>3, <2>4, <3>1, SubtreeFacts
  <2>6. r \in Components => r \in PresentIn(status')
    BY <1>2, <1>4, <1>5 DEF Components
  <2>7. PresentIn(status') \cap ComponentsOf(p) = Present \cap ComponentsOf(p)
    BY <1>6, <2>4, <2>5, <2>6
  <2>. QED
    BY <2>2, <2>7 DEF AllocatesFor
<1>. QED
  BY <1>8, <1>9, TreeParts DEF OwnedIn, ComponentsIn

\* A status that stays, or becomes "faulted", leaves the tree as it is.
LEMMA FaultTree ==
    ASSUME TypeOK, OwnershipWellFormed, NEW r \in Runtimes, status[r] = "running",
           status' = [status EXCEPT ![r] = "faulted"], mode' = mode
    PROVE  OwnershipWellFormed'
<1>1. OwnedIn(status) /\ ComponentsIn(status, mode)
  BY TreeParts
<1>2. /\ status'[r] = "faulted"
      /\ \A x \in Runtimes : x # r => status'[x] = status[x]
  BY DEF TypeOK
<1>3. PresentIn(status') = PresentIn(status)
  BY <1>2 DEF PresentIn
<1>4. OwnedIn(status')
  <2>. SUFFICES ASSUME NEW x \in PresentIn(status) \ {Root}
                PROVE  status'[Owner[x]] # "completed" /\ Owner[x] \in PresentIn(status)
    BY <1>3 DEF OwnedIn
  <2>1. Owner[x] \in PresentIn(status) /\ status[Owner[x]] # "completed"
    BY <1>1 DEF OwnedIn
  <2>2. Owner[x] \in Runtimes
    BY <2>1 DEF PresentIn
  <2>. QED
    BY <1>2, <2>1, <2>2
<1>5. ComponentsIn(status', mode')
  <2>. SUFFICES ASSUME NEW p \in Runtimes, status'[p] = "running"
                PROVE  AllocatesFor(p, mode[p], PresentIn(status))
    BY <1>3 DEF ComponentsIn
  <2>1. status[p] = "running"
    BY <1>2
  <2>. QED
    BY <1>1, <2>1 DEF ComponentsIn
<1>. QED
  BY <1>4, <1>5, TreeParts

\* A creation makes a tree from nothing.
LEMMA CreateTree == ASSUME TypeOK, OwnershipWellFormed, Create PROVE OwnershipWellFormed'
<1>1. NoAggregate
  BY DEF Create
<1>2. PICK created \in SUBSET NonRoot :
        \E init \in InitResults(created) :
        \E md \in [Running(created, init) \cup {Root} -> Modes] : \E ems :
           /\ CanCreate(Root, created, init, md, TRUE)
           /\ Commit(-1, "handled", After(Root, "running", created, init, {}), ems, {})
           /\ mode' = Entered(md)
  BY DEF Create
<1>3. PICK init \in InitResults(created) :
        \E md \in [Running(created, init) \cup {Root} -> Modes] : \E ems :
           /\ CanCreate(Root, created, init, md, TRUE)
           /\ Commit(-1, "handled", After(Root, "running", created, init, {}), ems, {})
           /\ mode' = Entered(md)
  BY <1>2
<1>4. PICK md \in [Running(created, init) \cup {Root} -> Modes] : \E ems :
           /\ CanCreate(Root, created, init, md, TRUE)
           /\ Commit(-1, "handled", After(Root, "running", created, init, {}), ems, {})
           /\ mode' = Entered(md)
  BY <1>3
<1>5. /\ CanCreate(Root, created, init, md, TRUE)
      /\ status' = After(Root, "running", created, init, {})
      /\ mode' = Entered(md)
  BY <1>4 DEF Commit
<1>6. Removed(Root, {}, TRUE) = {}
  BY <1>1 DEF NoAggregate, Removed, Present, PresentIn
<1>7. /\ Root \in Runtimes /\ Root \notin created
      /\ created \in SUBSET {c \in Runtimes : status[c] = "absent"}
      /\ {} \in SUBSET Cancellable(Root) /\ TRUE \in BOOLEAN
  BY <1>1, RootFacts DEF NoAggregate, NonRoot
<1>8. status' = After(Root, "running", created, init, Removed(Root, {}, TRUE))
  BY <1>5, <1>6
<1>. QED
  BY Zenon, <1>5, <1>7, <1>8, TransitionTree

\* So does a creation that ends at once.
LEMMA CreateEndedTree == ASSUME TypeOK, CreateEnded PROVE OwnershipWellFormed'
<1>1. PICK own \in {"completed", "faulted"} : \E ems :
        Commit(-1, "handled", [status EXCEPT ![Root] = own], ems, {})
  BY DEF CreateEnded
<1>2. status' = [status EXCEPT ![Root] = own] /\ NoAggregate
  BY <1>1 DEF CreateEnded, Commit
<1>3. \A x \in Runtimes : status'[x] # "running" /\ (x # Root => status'[x] = "absent")
  BY <1>2 DEF NoAggregate, TypeOK
<1>. QED
  BY <1>3, TreeParts DEF OwnedIn, ComponentsIn, PresentIn

\* What a handled step picks.
LEMMA HandledParts ==
    ASSUME NEW r \in Runtimes, NEW h \in DOMAIN box, StepHandled(r, h)
    PROVE  \E leaves \in BOOLEAN, tops \in SUBSET Cancellable(r),
              created \in SUBSET {c \in Descendants(r) : status[c] = "absent"} :
           \E init \in InitResults(created) :
           \E md \in [Running(created, init) \cup {r} -> Modes] :
              Transition(r, h, leaves, tops, created, init, md)
  BY Zenon DEF StepHandled

\* A handled step leaves a tree.
LEMMA HandledTree ==
    ASSUME TypeOK, OwnershipWellFormed, NEW r \in Runtimes, NEW h \in DOMAIN box, StepHandled(r, h)
    PROVE  OwnershipWellFormed'
<1>1. PICK leaves \in BOOLEAN, tops \in SUBSET Cancellable(r),
           created \in SUBSET {c \in Descendants(r) : status[c] = "absent"} :
           \E init \in InitResults(created) :
           \E md \in [Running(created, init) \cup {r} -> Modes] :
              Transition(r, h, leaves, tops, created, init, md)
  BY Zenon, HandledParts
<1>2. PICK init \in InitResults(created) :
           \E md \in [Running(created, init) \cup {r} -> Modes] :
              Transition(r, h, leaves, tops, created, init, md)
  BY <1>1
<1>3. PICK md \in [Running(created, init) \cup {r} -> Modes] :
              Transition(r, h, leaves, tops, created, init, md)
  BY <1>2
<1>4. /\ ~leaves => md[r] = mode[r]
      /\ CanCreate(r, created, init, md, leaves)
      /\ status' = After(r, "running", created, init, Removed(r, tops, leaves))
      /\ mode' = Entered(md)
  BY <1>3 DEF Transition, Commit
<1>5. status[r] = "running" /\ r \in Present
  BY DEF StepHandled, Selects, Eligible, Present, PresentIn
<1>6. r \notin created /\ Root \notin created /\ created \in SUBSET {c \in Runtimes : status[c] = "absent"}
  BY SubtreeFacts, RootFacts
<1>. QED
  BY Zenon, <1>4, <1>5, <1>6, TransitionTree

\* No step breaks the tree of owners.
LEMMA NextKeepsTree == TypeOK /\ OwnershipWellFormed /\ [Next]_vars => OwnershipWellFormed'
<1>. SUFFICES ASSUME TypeOK, OwnershipWellFormed, [Next]_vars PROVE OwnershipWellFormed'
  OBVIOUS
<1>1. (status' = status /\ mode' = mode) => OwnershipWellFormed'
  BY Zenon, TreeParts
<1>2. ASSUME NEW batch \in Batches, Admit(batch) PROVE OwnershipWellFormed'
  BY <1>1, <1>2 DEF Admit, tree
<1>3. ASSUME NEW r \in Runtimes, NEW h \in DOMAIN box, Step(r, h) PROVE OwnershipWellFormed'
  <2>1. CASE StepUnhandled(r, h)
    BY <1>1, <2>1 DEF StepUnhandled, Commit
  <2>2. CASE StepDeferred(r, h)
    BY <1>1, <2>2 DEF StepDeferred, tree
  <2>3. ASSUME Selects(r, h), Fault(r, h) PROVE OwnershipWellFormed'
    <3>1. status[r] = "running"
      BY <2>3 DEF Selects, Eligible
    <3>2. status' = [status EXCEPT ![r] = "faulted"] /\ mode' = mode
      BY <2>3 DEF Fault, Commit
    <3>. QED
      BY <3>1, <3>2, FaultTree
  <2>4. CASE StepHandled(r, h)
    BY <2>4, HandledTree
  <2>5. CASE StepCompleted(r, h)
    <3>1. status[r] = "running" /\ r \in Present
      BY <2>5 DEF StepCompleted, Selects, Eligible, Present, PresentIn
    <3>2. PICK own : own = IF Role[r] = "spawned" THEN "removed" ELSE "completed"
      OBVIOUS
    <3>3. status' = After(r, own, {}, <<>>, Present \cap Descendants(r)) /\ mode' = mode
      BY <2>5, <3>2 DEF StepCompleted, Commit
    <3>. QED
      BY Zenon, <3>1, <3>2, <3>3, CompletionTree
  <2>. QED
    BY <1>3, <2>1, <2>2, <2>3, <2>4, <2>5 DEF Step, StepOverflow, StepFaulted
<1>4. CASE UNCHANGED vars
  BY <1>1, <1>4 DEF vars
<1>. QED
  BY <1>2, <1>3, <1>4, CreateTree, CreateEndedTree DEF Next

\* Whatever a step creates, cancels or completes, every runtime that is left has
\* a live owner that has not completed, and a running one has exactly the
\* components of its current activation (engine.py:1802, engine.py:2630).
THEOREM OwnershipAlwaysWellFormed == Spec => []OwnershipWellFormed
<1>1. Init => OwnershipWellFormed
  BY DEF Init, NoAggregate, OwnershipWellFormed, Present, PresentIn
<1>2. Inv /\ OwnershipWellFormed /\ [Next]_vars => OwnershipWellFormed'
  BY NextKeepsTree DEF Inv
<1>. QED
  BY <1>1, <1>2, InvAlways, PTL DEF Spec

-----------------------------------------------------------------------------
(* A fault freezes what it owns.                                           *)

\* The root completes only when nothing else is left.
LEMMA RootEndsAlone ==
    ASSUME NEW st, OwnedIn(st), st[Root] = "completed"
    PROVE  PresentIn(st) \subseteq {Root}
<1>. DEFINE Others == PresentIn(st) \ {Root}
<1>1. Others \subseteq Nat
  BY OwnershipAssumption DEF PresentIn
<1>2. SUFFICES ASSUME Others # {} PROVE FALSE
  OBVIOUS
<1>3. PICK x \in Others : \A y \in Others : x <= y
  <2>. HIDE DEF Others
  <2>. QED
    BY <1>1, <1>2, LeastNumber
<1>4. Owner[x] \in PresentIn(st) /\ st[Owner[x]] # "completed"
  BY <1>3 DEF OwnedIn
<1>5. x \in NonRoot
  BY <1>3 DEF PresentIn, NonRoot
<1>6. Owner[x] < x /\ x \in Nat /\ Owner[x] \in Nat
  BY <1>5, OwnerFacts
<1>7. Owner[x] \in Others
  BY <1>4
<1>. QED
  BY <1>3, <1>6, <1>7

Freezes ==
    \A a \in Pending :
       Frozen(box[a].target)
       => box'[a] = box[a] \/ (box'[a].place \in Dispositions \ {"handled", "unhandled", "faulted"}
                               /\ status'[box[a].target] \in {"removed", "completed"})

\* A runtime that may be stepped is not frozen.
LEMMA EligibleNotFrozen ==
    ASSUME NEW r, Eligible(r)
    PROVE  ~Frozen(r)
  BY DEF Eligible, Frozen

\* A commit takes entries below a fault only with their runtime.
LEMMA CommitFreezes ==
    ASSUME TypeOK, NoOrphan, OwnershipWellFormed', CommitStep
    PROVE  Freezes
<1>1. PICK h, fate, ems, S : CommitShape(h, fate, ems, S)
  BY CommitStepShape
<1>2. SUFFICES ASSUME NEW a \in Pending, Frozen(box[a].target), box'[a] # box[a]
               PROVE  /\ box'[a].place \in Dispositions \ {"handled", "unhandled", "faulted"}
                      /\ status'[box[a].target] \in {"removed", "completed"}
  BY DEF Freezes
<1>. DEFINE t == box[a].target
<1>3. a \in DOMAIN box /\ t \in Runtimes /\ t \in Live
  BY <1>2 DEF Pending, NoOrphan, Live, TypeOK, Entry
<1>4. Takes(h, fate, S) /\ Turns(a, h, fate, Len(ems), S) /\ Respects(status', S)
  BY <1>1, <1>3 DEF CommitShape
<1>5. ~NoAggregate
  BY <1>3 DEF NoAggregate, Live
<1>6. a # h /\ a \notin S
  <2>1. /\ h \in DOMAIN box /\ Eligible(box[h].target)
        /\ \A b \in S : box[b].target = box[h].target
    BY <1>4, <1>5 DEF Takes
  <2>. QED
    BY <1>2, <2>1, EligibleNotFrozen
<1>7. Ended(t, status') /\ box'[a].place = DisposalReason(t, status')
  BY <1>2, <1>4, <1>6 DEF Turns
<1>8. status'[t] # "absent" /\ status'[t] \in Status
  BY <1>1, <1>3, <1>4 DEF Respects, CommitShape
<1>9. status'[t] \in {"removed", "completed"}
  <2>1. CASE status'[Root] = "completed"
    <3>1. PresentIn(status') \subseteq {Root}
      BY <2>1, TreeParts, RootEndsAlone
    <3>. QED
      BY <1>3, <1>8, <2>1, <3>1 DEF PresentIn, Status
  <2>2. CASE status'[Root] # "completed"
    BY <1>7, <2>2 DEF Ended
  <2>. QED
    BY <2>1, <2>2
<1>. QED
  BY <1>7, <1>9 DEF DisposalReason, Dispositions

\* Below a fault, entries stay as they are until an owner's cleanup disposes of
\* them, whatever else the aggregate does (engine.py:2684, queueing.py:791).
THEOREM FaultAlwaysFreezes == Spec => FaultFreezesSubtree
<1>1. ASSUME Inv, NoOrphan, OwnershipWellFormed', Next PROVE Freezes
  <2>1. TypeOK
    BY <1>1 DEF Inv
  <2>2. CASE CommitStep
    BY <1>1, <2>1, <2>2, CommitFreezes
  <2>3. ASSUME NEW batch \in Batches, Admit(batch) PROVE Freezes
    BY <2>1, <2>3, AdmitPlaces DEF Freezes, Pending
  <2>4. ASSUME NEW r \in Runtimes, NEW h \in DOMAIN box, StepDeferred(r, h) PROVE Freezes
    <3>1. box[h].target = r /\ \A a \in DOMAIN box : a # h => box'[a] = box[a]
      BY <2>1, <2>4, StepDeferredEntries
    <3>2. ~Frozen(r)
      BY <2>4, EligibleNotFrozen DEF StepDeferred, Selects
    <3>. QED
      BY <3>1, <3>2 DEF Freezes, Pending
  <2>. QED
    BY <1>1, <2>1, <2>2, <2>3, <2>4, NextCases
<1>2. Inv /\ NoOrphan /\ OwnershipWellFormed' /\ [Next]_vars => [Freezes]_vars
  BY <1>1
<1>. QED
  BY <1>2, InvAlways, NoOrphanAlways, OwnershipAlwaysWellFormed, PTL
     DEF Spec, FaultFreezesSubtree, Freezes

-----------------------------------------------------------------------------
(* Sequences of reports.                                                   *)

\* Induction up to a bound, on a set.
LEMMA StepwiseInduction ==
    ASSUME NEW N \in Nat, NEW G, N >= 1 => 1 \in G,
           \A n \in 1 .. N : n \in G /\ n + 1 \in 1 .. N => n + 1 \in G
    PROVE  1 .. N \subseteq G
<1>. DEFINE Bad == (1 .. N) \ G
<1>1. Bad \subseteq Nat
  OBVIOUS
<1>2. SUFFICES ASSUME Bad # {} PROVE FALSE
  OBVIOUS
<1>3. PICK x \in Bad : \A y \in Bad : x <= y
  <2>. HIDE DEF Bad
  <2>. QED
    BY <1>1, <1>2, LeastNumber
<1>4. x \in Nat /\ x # 1 /\ x \in 1 .. N
  BY <1>3
<1>5. x - 1 \in 1 .. N /\ x - 1 \notin Bad /\ (x - 1) + 1 = x
  BY <1>3, <1>4
<1>. QED
  BY <1>3, <1>5

\* What FlattenSeq computes, as a function of how many sequences it has appended.
IsFlattening(seqs, f) ==
    f = [i \in 1 .. Len(seqs) |-> IF i = 1 THEN seqs[i] ELSE f[i - 1] \o seqs[i]]

\* f[i] is what the first i sequences give when they are appended to one another.
JoinsPrefixes(seqs, n, f) ==
    \A i \in 1 .. n : f[i] = IF i = 1 THEN seqs[i] ELSE f[i - 1] \o seqs[i]

\* The first n sequences can be appended to one another.
LEMMA FlatteningPrefix ==
    ASSUME NEW X, NEW seqs \in Seq(Seq(X))
    PROVE  \A n \in 1 .. Len(seqs) : \E f \in [1 .. n -> Seq(X)] : JoinsPrefixes(seqs, n, f)
<1>. DEFINE G == {n \in 1 .. Len(seqs) : \E f \in [1 .. n -> Seq(X)] : JoinsPrefixes(seqs, n, f)}
<1>1. Len(seqs) \in Nat /\ \A i \in 1 .. Len(seqs) : seqs[i] \in Seq(X)
  BY LenProperties, ElementOfSeq
<1>2. ASSUME Len(seqs) >= 1 PROVE 1 \in G
  <2>1. PICK f : f = [i \in 1 .. 1 |-> seqs[1]]
    OBVIOUS
  <2>2. 1 \in 1 .. Len(seqs) /\ f \in [1 .. 1 -> Seq(X)] /\ f[1] = seqs[1]
    BY <1>1, <1>2, <2>1
  <2>3. JoinsPrefixes(seqs, 1, f)
    BY <2>2 DEF JoinsPrefixes
  <2>. QED
    BY <2>2, <2>3
<1>3. ASSUME NEW n \in 1 .. Len(seqs), n \in G, n + 1 \in 1 .. Len(seqs) PROVE n + 1 \in G
  <2>1. PICK f \in [1 .. n -> Seq(X)] : JoinsPrefixes(seqs, n, f)
    BY <1>3
  <2>2. n \in Nat /\ n >= 1 /\ f[n] \in Seq(X) /\ seqs[n + 1] \in Seq(X)
    BY <1>1, <1>3
  <2>3. PICK last : last = f[n] \o seqs[n + 1]
    OBVIOUS
  <2>4. last \in Seq(X)
    BY <2>2, <2>3, ConcatProperties
  <2>5. PICK g : g = [i \in 1 .. n + 1 |-> IF i = n + 1 THEN last ELSE f[i]]
    OBVIOUS
  <2>6. /\ g \in [1 .. n + 1 -> Seq(X)] /\ g[n + 1] = last
        /\ \A i \in 1 .. n : g[i] = f[i]
    BY <2>2, <2>4, <2>5
  <2>7. ASSUME NEW i \in 1 .. n + 1 PROVE g[i] = IF i = 1 THEN seqs[i] ELSE g[i - 1] \o seqs[i]
    <3>1. CASE i = n + 1
      <4>1. i # 1 /\ i - 1 = n /\ n \in 1 .. n
        BY <2>2, <3>1
      <4>2. g[i] = f[n] \o seqs[i] /\ g[i - 1] = f[n]
        BY <2>3, <2>6, <3>1, <4>1
      <4>. QED
        BY <4>1, <4>2
    <3>2. CASE i # n + 1
      <4>1. i \in 1 .. n /\ (i # 1 => i - 1 \in 1 .. n)
        BY <2>2, <3>2
      <4>. QED
        BY <2>1, <2>6, <4>1 DEF JoinsPrefixes
    <3>. QED
      BY <3>1, <3>2
  <2>8. JoinsPrefixes(seqs, n + 1, g)
    BY <2>7 DEF JoinsPrefixes
  <2>. QED
    BY <1>3, <2>6, <2>8
<1>. HIDE DEF G
<1>4. 1 .. Len(seqs) \subseteq G
  BY <1>1, <1>2, <1>3, StepwiseInduction
<1>. QED
  BY <1>4 DEF G

\* FlattenSeq is the last value of such a function.
LEMMA FlattenUnfolds ==
    ASSUME NEW X, NEW seqs \in Seq(Seq(X)), Len(seqs) # 0
    PROVE  \E f \in [1 .. Len(seqs) -> Seq(X)] : IsFlattening(seqs, f) /\ FlattenSeq(seqs) = f[Len(seqs)]
<1>1. Len(seqs) \in Nat /\ Len(seqs) \in 1 .. Len(seqs)
  BY LenProperties
<1>2. PICK f \in [1 .. Len(seqs) -> Seq(X)] :
         JoinsPrefixes(seqs, Len(seqs), f)
  BY Zenon, <1>1, FlatteningPrefix
<1>3. IsFlattening(seqs, f)
  BY <1>2 DEF IsFlattening, JoinsPrefixes
<1>. DEFINE c == CHOOSE g : g = [i \in 1 .. Len(seqs) |-> IF i = 1 THEN seqs[i] ELSE g[i - 1] \o seqs[i]]
<1>4. IsFlattening(seqs, c)
  BY Zenon, <1>3 DEF IsFlattening
<1>5. FlattenSeq(seqs) = c[Len(seqs)]
  BY Zenon DEF FlattenSeq
<1>. HIDE DEF c
<1>6. DOMAIN c = 1 .. Len(seqs)
  BY <1>4 DEF IsFlattening
<1>7. \A i \in 1 .. Len(seqs) : c[i] = IF i = 1 THEN seqs[i] ELSE c[i - 1] \o seqs[i]
  BY <1>4 DEF IsFlattening
<1>. DEFINE G == {n \in 1 .. Len(seqs) : c[n] \in Seq(X)}
<1>8. 1 .. Len(seqs) \subseteq G
  <2>1. \A i \in 1 .. Len(seqs) : seqs[i] \in Seq(X)
    BY ElementOfSeq
  <2>2. Len(seqs) >= 1 => 1 \in G
    BY <1>1, <1>7, <2>1
  <2>3. ASSUME NEW n \in 1 .. Len(seqs), n \in G, n + 1 \in 1 .. Len(seqs) PROVE n + 1 \in G
    <3>1. n + 1 # 1 /\ (n + 1) - 1 = n
      BY <2>3
    <3>2. c[n + 1] = c[n] \o seqs[n + 1]
      BY <1>7, <2>3, <3>1
    <3>3. c[n] \in Seq(X) /\ seqs[n + 1] \in Seq(X)
      BY <2>1, <2>3
    <3>4. c[n + 1] \in Seq(X)
      BY <3>2, <3>3, ConcatProperties
    <3>. QED
      BY <2>3, <3>4
  <2>. HIDE DEF G
  <2>. QED
    BY <1>1, <2>2, <2>3, StepwiseInduction
<1>9. c \in [1 .. Len(seqs) -> Seq(X)]
  <2>1. \A n \in 1 .. Len(seqs) : c[n] \in Seq(X)
    BY <1>8
  <2>. QED
    BY <1>4, <2>1 DEF IsFlattening
<1>. QED
  BY <1>4, <1>5, <1>9

\* The places of the elements of the first n sequences.
Spots(seqs, n) == {p \in (1 .. n) \X Nat : p[2] \in 1 .. Len(seqs[p[1]])}

\* "at" says where each element of F is from: no place twice and none left out.
Locates(seqs, n, F, at) ==
    /\ \A k \in 1 .. Len(F) : at[k] \in Spots(seqs, n) /\ F[k] = seqs[at[k][1]][at[k][2]]
    /\ \A k, l \in 1 .. Len(F) : at[k] = at[l] => k = l
    /\ \A p \in Spots(seqs, n) : \E k \in 1 .. Len(F) : at[k] = p

\* One more sequence.
LEMMA LocatesAnother ==
    ASSUME NEW X, NEW seqs \in Seq(Seq(X)), NEW n \in 1 .. Len(seqs), n + 1 \in 1 .. Len(seqs),
           NEW F \in Seq(X), NEW at, Locates(seqs, n, F, at)
    PROVE  \E bt : Locates(seqs, n + 1, F \o seqs[n + 1], bt)
<1>. DEFINE s == seqs[n + 1]
<1>1. s \in Seq(X) /\ Len(s) \in Nat /\ Len(F) \in Nat /\ n \in Nat
  BY ElementOfSeq, LenProperties
<1>. HIDE DEF s
<1>2. PICK H : H = F \o s
  OBVIOUS
<1>3. /\ Len(H) = Len(F) + Len(s)
      /\ \A k \in 1 .. Len(F) : H[k] = F[k]
      /\ \A k \in 1 .. Len(H) : k \notin 1 .. Len(F) => k - Len(F) \in 1 .. Len(s) /\ H[k] = s[k - Len(F)]
  BY <1>1, <1>2, ConcatProperties
<1>4. PICK bt : bt = [k \in 1 .. Len(H) |-> IF k \in 1 .. Len(F) THEN at[k] ELSE <<n + 1, k - Len(F)>>]
  OBVIOUS
<1>5. /\ \A k \in 1 .. Len(F) : k \in 1 .. Len(H) /\ bt[k] = at[k]
      /\ \A k \in 1 .. Len(H) : k \notin 1 .. Len(F) => bt[k] = <<n + 1, k - Len(F)>>
  BY <1>1, <1>3, <1>4
<1>a. \A m \in Nat : \A i, j : <<i, j>> \in Spots(seqs, m) <=> i \in 1 .. m /\ j \in Nat /\ j \in 1 .. Len(seqs[i])
  BY DEF Spots
<1>b. \A m \in Nat : \A p \in Spots(seqs, m) : p = <<p[1], p[2]>>
  BY DEF Spots
<1>c. \A p \in Spots(seqs, n) : p \in Spots(seqs, n + 1) /\ p[1] # n + 1
  <2>1. TAKE p \in Spots(seqs, n)
  <2>2. PICK i, j : p = <<i, j>> /\ i = p[1]
    BY <1>1, <1>b
  <2>3. i \in 1 .. n /\ j \in Nat /\ j \in 1 .. Len(seqs[i])
    BY <1>1, <1>a, <2>2
  <2>4. i \in 1 .. n + 1 /\ i # n + 1 /\ n + 1 \in Nat
    BY <1>1, <2>3
  <2>. QED
    BY <1>a, <2>2, <2>3, <2>4
<1>d. \A j \in 1 .. Len(s) : <<n + 1, j>> \in Spots(seqs, n + 1)
  <2>1. n + 1 \in Nat /\ n + 1 \in 1 .. n + 1 /\ \A j \in 1 .. Len(s) : j \in Nat
    BY <1>1
  <2>. QED
    BY <1>a, <2>1 DEF s
<1>e. \A p \in Spots(seqs, n + 1) : p \in Spots(seqs, n) \/ \E j \in 1 .. Len(s) : p = <<n + 1, j>>
  <2>1. TAKE p \in Spots(seqs, n + 1)
  <2>2. PICK i, j : p = <<i, j>>
    BY <1>1, <1>b
  <2>3. i \in 1 .. n + 1 /\ j \in Nat /\ j \in 1 .. Len(seqs[i])
    BY <1>1, <1>a, <2>2
  <2>4. i = n + 1 \/ i \in 1 .. n
    BY <1>1, <2>3
  <2>. QED
    BY <1>1, <1>a, <2>2, <2>3, <2>4 DEF s
<1>6. /\ \A p \in Spots(seqs, n) : p \in Spots(seqs, n + 1) /\ p[1] # n + 1
      /\ \A j \in 1 .. Len(s) : <<n + 1, j>> \in Spots(seqs, n + 1)
      /\ \A p \in Spots(seqs, n + 1) :
            p \in Spots(seqs, n) \/ \E j \in 1 .. Len(s) : p = <<n + 1, j>>
  BY <1>c, <1>d, <1>e
<1>7. ASSUME NEW k \in 1 .. Len(H)
      PROVE  bt[k] \in Spots(seqs, n + 1) /\ H[k] = seqs[bt[k][1]][bt[k][2]]
  <2>1. CASE k \in 1 .. Len(F)
    <3>1. at[k] \in Spots(seqs, n) /\ F[k] = seqs[at[k][1]][at[k][2]]
      BY <2>1 DEF Locates
    <3>. QED
      BY <1>3, <1>5, <1>6, <2>1, <3>1
  <2>2. CASE k \notin 1 .. Len(F)
    <3>1. PICK j \in 1 .. Len(s) : j = k - Len(F) /\ H[k] = s[j]
      BY <1>3, <2>2
    <3>2. bt[k] = <<n + 1, j>>
      BY <1>5, <2>2, <3>1
    <3>. QED
      BY <1>6, <3>1, <3>2 DEF s
  <2>. QED
    BY <2>1, <2>2
<1>8. ASSUME NEW k \in 1 .. Len(H), NEW l \in 1 .. Len(H), bt[k] = bt[l]
      PROVE  k = l
  <2>1. k \in Int /\ l \in Int
    OBVIOUS
  <2>2. CASE k \in 1 .. Len(F) /\ l \in 1 .. Len(F)
    BY <1>5, <1>8, <2>2 DEF Locates
  <2>3. CASE k \notin 1 .. Len(F) /\ l \notin 1 .. Len(F)
    <3>1. <<n + 1, k - Len(F)>> = <<n + 1, l - Len(F)>>
      BY <1>5, <1>8, <2>3
    <3>. QED
      BY <1>1, <2>1, <3>1
  <2>4. ASSUME NEW i \in 1 .. Len(F), NEW j \in 1 .. Len(H), j \notin 1 .. Len(F), bt[i] = bt[j]
        PROVE  FALSE
    <3>1. at[i] \in Spots(seqs, n)
      BY DEF Locates
    <3>2. at[i] = <<n + 1, j - Len(F)>>
      BY <1>5, <2>4
    <3>. QED
      BY <1>6, <3>1, <3>2
  <2>. QED
    BY <1>8, <2>2, <2>3, <2>4
<1>9. ASSUME NEW p \in Spots(seqs, n + 1)
      PROVE  \E k \in 1 .. Len(H) : bt[k] = p
  <2>1. CASE p \in Spots(seqs, n)
    BY <1>5, <2>1 DEF Locates
  <2>2. CASE p \notin Spots(seqs, n)
    <3>1. PICK j \in 1 .. Len(s) : p = <<n + 1, j>>
      BY <1>6, <2>2
    <3>2. Len(F) + j \in 1 .. Len(H) /\ Len(F) + j \notin 1 .. Len(F) /\ (Len(F) + j) - Len(F) = j
      BY <1>1, <1>3
    <3>. QED
      BY <1>5, <3>1, <3>2
  <2>. QED
    BY <2>1, <2>2
<1>10. Locates(seqs, n + 1, H, bt)
  BY <1>7, <1>8, <1>9 DEF Locates
<1>. QED
  BY <1>2, <1>10 DEF s

\* Flattening keeps every element of every sequence, once.
LEMMA FlattenFacts ==
    ASSUME NEW X, NEW seqs \in Seq(Seq(X))
    PROVE  /\ FlattenSeq(seqs) \in Seq(X)
           /\ \E at : Locates(seqs, Len(seqs), FlattenSeq(seqs), at)
<1>1. Len(seqs) \in Nat /\ \A i \in 1 .. Len(seqs) : seqs[i] \in Seq(X)
  BY LenProperties, ElementOfSeq
<1>2. CASE Len(seqs) = 0
  <2>1. FlattenSeq(seqs) = seqs
    BY <1>2, Zenon DEF FlattenSeq
  <2>2. seqs = <<>>
    BY <1>2, EmptySeq
  <2>3. seqs \in Seq(X)
    BY <2>2
  <2>4. Spots(seqs, 0) = {} /\ 1 .. Len(seqs) = {}
    BY <1>2 DEF Spots
  <2>5. Locates(seqs, Len(seqs), seqs, <<>>)
    BY <1>2, <2>4 DEF Locates
  <2>. QED
    BY <2>1, <2>3, <2>5
<1>3. CASE Len(seqs) # 0
  <2>1. PICK f \in [1 .. Len(seqs) -> Seq(X)] : IsFlattening(seqs, f) /\ FlattenSeq(seqs) = f[Len(seqs)]
    BY <1>3, FlattenUnfolds
  <2>2. \A i \in 1 .. Len(seqs) : f[i] = IF i = 1 THEN seqs[i] ELSE f[i - 1] \o seqs[i]
    BY <2>1 DEF IsFlattening
  <2>3. 1 \in 1 .. Len(seqs) /\ Len(seqs) \in 1 .. Len(seqs)
    BY <1>1, <1>3
  <2>. DEFINE G == {n \in 1 .. Len(seqs) : \E at : Locates(seqs, n, f[n], at)}
  <2>4. 1 \in G
    <3>1. f[1] = seqs[1] /\ Len(seqs[1]) \in Nat
      BY <1>1, <2>2, <2>3, LenProperties
    <3>2. PICK at : at = [k \in 1 .. Len(seqs[1]) |-> <<1, k>>]
      OBVIOUS
    <3>3. /\ \A p \in Spots(seqs, 1) : p[2] \in 1 .. Len(seqs[1]) /\ p = <<1, p[2]>>
          /\ \A k \in 1 .. Len(seqs[1]) : <<1, k>> \in Spots(seqs, 1)
      BY <3>1 DEF Spots
    <3>4. Locates(seqs, 1, f[1], at)
      BY <3>1, <3>2, <3>3 DEF Locates
    <3>. QED
      BY <2>3, <3>4
  <2>5. ASSUME NEW n \in 1 .. Len(seqs), n \in G, n + 1 \in 1 .. Len(seqs) PROVE n + 1 \in G
    <3>1. n + 1 # 1 /\ (n + 1) - 1 = n
      BY <2>5
    <3>2. f[n + 1] = f[n] \o seqs[n + 1] /\ f[n] \in Seq(X)
      BY <2>1, <2>2, <2>5, <3>1
    <3>3. \E bt : Locates(seqs, n + 1, f[n] \o seqs[n + 1], bt)
      BY <2>5, <3>2, LocatesAnother
    <3>. QED
      BY <2>5, <3>2, <3>3
  <2>. HIDE DEF G
  <2>6. Len(seqs) \in G
    BY <1>1, <2>3, <2>4, <2>5, StepwiseInduction
  <2>. QED
    BY <2>1, <2>3, <2>6 DEF G
<1>. QED
  BY <1>2, <1>3

\* An injection into a set of the same size leaves nothing out.
LEMMA InjectionFills ==
    ASSUME NEW A, NEW B, IsFiniteSet(B), IsFiniteSet(A), Cardinality(A) = Cardinality(B),
           NEW f \in [A -> B], IsInjective(f)
    PROVE  f \in Surjection(A, B)
<1>1. f \in Injection(A, B)
  BY DEF Injection, IsInjective
<1>. QED
  BY <1>1, FS_Injection

\* A nonempty finite set of numbers has a greatest one.
LEMMA GreatestNumber ==
    ASSUME NEW E \in SUBSET Nat, IsFiniteSet(E), E # {}
    PROVE  \E e \in E : \A d \in E : d <= e
<1>. DEFINE Later(x) == {d \in E : x < d}
<1>1. \A x \in E : IsFiniteSet(Later(x)) /\ Cardinality(Later(x)) \in Nat
  BY FS_Subset, FS_CardinalityType
<1>2. ASSUME NEW x \in E, NEW y \in E, x < y PROVE Cardinality(Later(y)) < Cardinality(Later(x))
  <2>. \A d \in E : d \in Nat
    OBVIOUS
  <2>3. \A d \in Later(y) : d \in Later(x)
    BY <1>2
  <2>4. y \in Later(x) /\ y \notin Later(y)
    BY <1>2
  <2>1. Later(y) \in SUBSET Later(x) /\ y \in Later(x) /\ y \notin Later(y)
    BY <2>3, <2>4, Zenon
  <2>2. Cardinality(Later(y)) <= Cardinality(Later(x)) /\ Cardinality(Later(y)) # Cardinality(Later(x))
    BY <1>1, <2>1, FS_Subset
  <2>. HIDE DEF Later
  <2>. QED
    BY <1>1, <2>2
<1>. DEFINE C == {Cardinality(Later(x)) : x \in E}
<1>3. C \subseteq Nat /\ C # {}
  BY <1>1
<1>4. PICK n \in C : \A m \in C : n <= m
  <2>. HIDE DEF C
  <2>. QED
    BY <1>3, LeastNumber
<1>5. PICK e \in E : n = Cardinality(Later(e))
  BY <1>4
<1>. HIDE DEF Later
<1>6. ASSUME NEW d \in E PROVE d <= e
  <2>1. Cardinality(Later(d)) \in C /\ Cardinality(Later(d)) \in Nat /\ Cardinality(Later(e)) \in Nat
    BY <1>1
  <2>2. ~(Cardinality(Later(d)) < Cardinality(Later(e)))
    BY <1>4, <1>5, <2>1
  <2>3. ~(e < d)
    BY <1>2, <2>2
  <2>. QED
    BY <2>3
<1>. QED
  BY <1>6

Increasing(s) == \A i, j \in DOMAIN s : i < j => s[i] < s[j]

\* A finite set of numbers can be listed in increasing order.
LEMMA IncreasingListing ==
    ASSUME NEW E \in SUBSET Nat, IsFiniteSet(E)
    PROVE  \E s \in [1 .. Cardinality(E) -> E] : Increasing(s)
<1>. DEFINE Earlier(x) == {d \in E : d < x}
            n == Cardinality(E)
<1>1. n \in Nat /\ \A x \in E : IsFiniteSet(Earlier(x)) /\ Cardinality(Earlier(x)) \in Nat
  BY FS_Subset, FS_CardinalityType
<1>2. ASSUME NEW x \in E, NEW y \in E, x < y PROVE Cardinality(Earlier(x)) < Cardinality(Earlier(y))
  <2>. \A d \in E : d \in Nat
    OBVIOUS
  <2>3. \A d \in Earlier(x) : d \in Earlier(y)
    BY <1>2
  <2>4. x \in Earlier(y) /\ x \notin Earlier(x)
    BY <1>2
  <2>1. Earlier(x) \in SUBSET Earlier(y) /\ x \in Earlier(y) /\ x \notin Earlier(x)
    BY <2>3, <2>4, Zenon
  <2>2. Cardinality(Earlier(x)) <= Cardinality(Earlier(y)) /\ Cardinality(Earlier(x)) # Cardinality(Earlier(y))
    BY <1>1, <2>1, FS_Subset
  <2>. HIDE DEF Earlier
  <2>. QED
    BY <1>1, <2>2
<1>3. ASSUME NEW x \in E PROVE Cardinality(Earlier(x)) < n
  <2>1. Earlier(x) \in SUBSET E /\ x \notin Earlier(x)
    OBVIOUS
  <2>2. Cardinality(Earlier(x)) <= n /\ Cardinality(Earlier(x)) # n
    BY <1>1, <2>1, FS_Subset
  <2>. HIDE DEF Earlier, n
  <2>. QED
    BY <1>1, <2>2
<1>. DEFINE rank == [x \in E |-> Cardinality(Earlier(x)) + 1]
<1>4. \A x \in E : rank[x] = Cardinality(Earlier(x)) + 1
  OBVIOUS
<1>5. rank \in [E -> 1 .. n]
  <2>1. \A x \in E : Cardinality(Earlier(x)) + 1 \in 1 .. n
    <3>. HIDE DEF Earlier, n
    <3>. QED
      BY <1>1, <1>3
  <2>. QED
    BY <2>1
<1>. HIDE DEF rank, Earlier
<1>6. \A x, y \in E : x < y => rank[x] < rank[y]
  BY <1>1, <1>2, <1>4
<1>7. IsInjective(rank)
  <2>. SUFFICES ASSUME NEW x \in E, NEW y \in E, rank[x] = rank[y], x # y PROVE FALSE
    BY <1>5 DEF IsInjective
  <2>1. x < y \/ y < x
    BY <2>1
  <2>2. rank[x] \in Int /\ rank[y] \in Int
    BY <1>1, <1>5
  <2>. QED
    BY <1>6, <2>1, <2>2
<1>8. IsFiniteSet(1 .. n) /\ Cardinality(E) = Cardinality(1 .. n)
  <2>. HIDE DEF n
  <2>1. Cardinality(1 .. n) = n
    BY <1>1, FS_Interval
  <2>. QED
    BY <1>1, <2>1, FS_Interval DEF n
<1>9. \A i \in 1 .. n : \E x \in E : rank[x] = i
  <2>1. rank \in Surjection(E, 1 .. n)
    BY <1>1, <1>5, <1>7, <1>8, InjectionFills
  <2>. QED
    BY <2>1 DEF Surjection
<1>. DEFINE s == [i \in 1 .. n |-> CHOOSE x \in E : rank[x] = i]
<1>10. \A i \in 1 .. n : s[i] \in E /\ rank[s[i]] = i
  BY <1>9
<1>11. s \in [1 .. n -> E]
  BY <1>10
<1>12. DOMAIN s = 1 .. n
  OBVIOUS
<1>. HIDE DEF s
<1>13. ASSUME NEW i \in 1 .. n, NEW j \in 1 .. n, i < j PROVE s[i] < s[j]
  <2>1. s[i] \in Nat /\ s[j] \in Nat /\ s[i] \in E /\ s[j] \in E /\ rank[s[i]] = i /\ rank[s[j]] = j
    BY <1>10
  <2>2. ~(s[j] < s[i]) /\ s[i] # s[j]
    BY <1>6, <1>13, <2>1
  <2>. QED
    BY <2>1, <2>2
<1>14. Increasing(s)
  BY <1>12, <1>13 DEF Increasing
<1>. QED
  BY <1>11, <1>14

\* The runtimes that end while they initialise are each listed once.
LEMMA InOrderFacts ==
    ASSUME NEW E \in SUBSET Runtimes
    PROVE  /\ Cardinality(E) \in Nat
           /\ InOrder(E) \in [1 .. Cardinality(E) -> E]
           /\ \A i, j \in 1 .. Cardinality(E) : InOrder(E)[i] = InOrder(E)[j] => i = j
           /\ \A c \in E : \E i \in 1 .. Cardinality(E) : InOrder(E)[i] = c
<1>1. E \in SUBSET Nat /\ IsFiniteSet(E)
  BY OwnershipAssumption, FS_Subset
<1>2. Cardinality(E) \in Nat
  BY <1>1, FS_CardinalityType
<1>3. \E s \in [1 .. Cardinality(E) -> E] : Increasing(s)
  BY <1>1, IncreasingListing
<1>. DEFINE s == InOrder(E)
<1>4. s \in [1 .. Cardinality(E) -> E] /\ Increasing(s)
  BY Zenon, <1>3 DEF InOrder, Increasing
<1>. HIDE DEF s
<1>5. \A i \in 1 .. Cardinality(E) : s[i] \in Nat
  BY <1>1, <1>4
<1>6. ASSUME NEW i \in 1 .. Cardinality(E), NEW j \in 1 .. Cardinality(E), s[i] = s[j] PROVE i = j
  <2>1. ~(i < j) /\ ~(j < i)
    BY <1>4, <1>5, <1>6 DEF Increasing
  <2>. QED
    BY <1>2, <2>1
<1>7. /\ IsFiniteSet(1 .. Cardinality(E)) /\ Cardinality(1 .. Cardinality(E)) = Cardinality(E)
      /\ IsInjective(s)
  BY <1>2, <1>4, <1>6, FS_Interval DEF IsInjective
<1>8. \A c \in E : \E i \in 1 .. Cardinality(E) : s[i] = c
  <2>1. s \in Surjection(1 .. Cardinality(E), E)
    BY <1>1, <1>4, <1>7, InjectionFills
  <2>. QED
    BY <2>1 DEF Surjection
<1>. QED
  BY <1>2, <1>4, <1>6, <1>8 DEF s

-----------------------------------------------------------------------------
(* What a step reports.                                                    *)

\* The failures q reports are the new ones, each once.
FailuresTold(q) ==
    /\ \A k \in 1 .. Len(q) : q[k].event \in FailureEvents =>
          LET c == q[k].subject
          IN /\ c \in NonRoot /\ q[k].target = Owner[c]
             /\ status[c] \notin {"faulted", "removed"} /\ status'[c] = "faulted"
    /\ \A k, l \in 1 .. Len(q) :
          q[k].event \in FailureEvents /\ q[l].event \in FailureEvents /\ q[k].subject = q[l].subject
          => k = l
    /\ \A c \in NonRoot : status[c] # "faulted" /\ status'[c] = "faulted" =>
          \E k \in 1 .. Len(q) : q[k].event \in FailureEvents /\ q[k].subject = c

\* The activations q reports done are those whose last component has completed.
DoneTold(q) ==
    /\ \A k \in 1 .. Len(q) : q[k].event = "done" /\ q[k].subject \in Components =>
          /\ status[q[k].subject] \notin {"completed", "removed"}
          /\ \A d \in Siblings(q[k].subject) : status'[d] = "completed"
    /\ \A k, l \in 1 .. Len(q) :
          /\ q[k].event = "done" /\ q[k].subject \in Components
          /\ q[l].event = "done" /\ q[l].subject \in Siblings(q[k].subject)
          => k = l
    /\ \A c \in Components :
          /\ \A d \in Siblings(c) : status'[d] = "completed"
          /\ \E d \in Siblings(c) : status[d] # "completed"
          => \E k \in 1 .. Len(q) : q[k].event = "done" /\ q[k].subject \in Siblings(c)

\* Whom a step writes to is known to the aggregate.
KnowsTargets(q) == \A k \in 1 .. Len(q) : status'[q[k].target] # "absent"

\* The components of an activation share it, and are finitely many numbers.
LEMMA SiblingFacts ==
    ASSUME NEW c \in Components
    PROVE  /\ c \in Siblings(c) /\ c \in NonRoot /\ c \in Runtimes /\ Role[c] = "component"
           /\ \A d \in Siblings(c) : d \in Components /\ Siblings(d) = Siblings(c)
           /\ Siblings(c) \in SUBSET Nat /\ IsFiniteSet(Siblings(c))
<1>1. c \in Runtimes /\ Role[c] = "component" /\ c \in NonRoot
  BY OwnershipAssumption DEF Components, NonRoot
<1>2. Siblings(c) \in SUBSET Runtimes
  BY DEF Siblings, Components
<1>3. IsFiniteSet(Siblings(c)) /\ Siblings(c) \in SUBSET Nat
  BY <1>2, OwnershipAssumption, FS_Subset
<1>. QED
  BY <1>1, <1>3 DEF Siblings

\* Notifications are envelopes of the aggregate.
LEMMA ReportTyped ==
    ASSUME NEW c \in NonRoot, NEW event \in SystemEvents
    PROVE  /\ Report(event, c) \in Emission
           /\ Report(event, c).event = event /\ Report(event, c).subject = c
           /\ Report(event, c).target = Owner[c]
<1>1. event \in Events /\ Owner[c] \in Runtimes /\ c \in Runtimes /\ System \in Sources
  BY OwnerFacts DEF Events, Sources, NonRoot
<1>. QED
  BY <1>1 DEF Report, Emission

\* q is what the completion of c reports: besides its own completion, that of its
\* activation if "last" allows.
CompletionShape(q, c, last, st) ==
    /\ q \in Seq(Emission) /\ Len(q) \in {1, 2}
    /\ \A j \in 1 .. Len(q) : /\ q[j].subject = c /\ q[j].target = Owner[c]
                              /\ q[j].event \in {"component_completed", "done"}
    /\ Role[c] = "spawned" => Len(q) = 1
    /\ Role[c] # "spawned" =>
          /\ q[1].event # "done"
          /\ Len(q) = 2 <=> last /\ \A d \in Siblings(c) : st[d] = "completed"
          /\ Len(q) = 2 => q[2].event = "done"

\* The reports of a completion have that shape.
LEMMA CompletionReportsAre ==
    ASSUME NEW c \in NonRoot, NEW last, NEW st, NEW q, q = CompletionReports(c, last, st)
    PROVE  CompletionShape(q, c, last, st)
<1>. DEFINE d == Report("done", c)
            e == Report("component_completed", c)
            all == last /\ \A x \in Siblings(c) : st[x] = "completed"
<1>1. /\ d \in Emission /\ d.event = "done" /\ d.subject = c /\ d.target = Owner[c]
      /\ e \in Emission /\ e.event = "component_completed" /\ e.subject = c /\ e.target = Owner[c]
  BY ReportTyped DEF SystemEvents
<1>2. /\ Role[c] = "spawned" => q = <<d>>
      /\ Role[c] # "spawned" => q = <<e>> \o (IF all THEN <<d>> ELSE <<>>)
  BY DEF CompletionReports
<1>. HIDE DEF d, e
<1>4. CASE Role[c] = "spawned"
  <2>1. q = <<d>>
    BY <1>2, <1>4
  <2>2. q \in Seq(Emission) /\ Len(q) = 1 /\ \A j \in 1 .. Len(q) : q[j] = d
    BY <1>1, <2>1
  <2>. QED
    BY <1>1, <1>4, <2>2 DEF CompletionShape
<1>5. CASE Role[c] # "spawned" /\ all
  <2>1. q = <<e>> \o <<d>>
    BY <1>2, <1>5
  <2>2. q \in Seq(Emission) /\ Len(q) = 2 /\ q[1] = e /\ q[2] = d
    BY <1>1, <2>1
  <2>3. \A j \in 1 .. Len(q) : j = 1 \/ j = 2
    BY <2>2
  <2>. QED
    BY <1>1, <1>5, <2>2, <2>3 DEF CompletionShape
<1>6. CASE Role[c] # "spawned" /\ ~all
  <2>1. q = <<e>> \o <<>>
    BY <1>2, <1>6
  <2>2. q \in Seq(Emission) /\ Len(q) = 1 /\ q[1] = e
    BY <1>1, <2>1
  <2>3. \A j \in 1 .. Len(q) : j = 1
    BY <2>2
  <2>. QED
    BY <1>1, <1>6, <2>2, <2>3 DEF CompletionShape
<1>. QED
  BY <1>4, <1>5, <1>6

\* What an initialisation that does not leave c running reports.
LEMMA InitReportsOfAre ==
    ASSUME NEW c \in NonRoot, NEW st, NEW q, q = InitReportsOf(c, st)
    PROVE  /\ q \in Seq(Emission) /\ Len(q) \in {1, 2}
           /\ \A j \in 1 .. Len(q) : /\ q[j].subject = c /\ q[j].target = Owner[c]
                                     /\ q[j].event \in FailureEvents <=> st[c] = "faulted"
           /\ st[c] = "faulted" => Len(q) = 1
           /\ \A i, j \in 1 .. Len(q) : q[i].event = "done" /\ q[j].event = "done" => i = j
           /\ c \in Components =>
                 ((\E j \in 1 .. Len(q) : q[j].event = "done") <=>
                     /\ \A d \in Siblings(c) : d <= c
                     /\ \A d \in Siblings(c) : st[d] = "completed")
<1>1. CASE st[c] = "faulted"
  <2>. DEFINE f == FailureReport(c)
  <2>1. q = <<f>>
    BY <1>1 DEF InitReportsOf
  <2>2. f \in Emission /\ f.event \in FailureEvents /\ f.subject = c /\ f.target = Owner[c]
    BY ReportTyped DEF FailureReport, FailureEvents, SystemEvents
  <2>3. f.event # "done"
    BY <2>2 DEF FailureEvents
  <2>. HIDE DEF f
  <2>4. q \in Seq(Emission) /\ Len(q) = 1 /\ \A j \in 1 .. Len(q) : q[j] = f
    BY <2>1, <2>2
  <2>5. c \in Components => c \in Siblings(c) /\ st[c] # "completed"
    BY <1>1, SiblingFacts
  <2>. QED
    BY <1>1, <2>2, <2>3, <2>4, <2>5
<1>2. CASE st[c] # "faulted"
  <2>. DEFINE last == \A d \in Siblings(c) : d <= c
  <2>1. q = CompletionReports(c, last, st)
    BY <1>2 DEF InitReportsOf
  <2>. HIDE DEF last
  <2>2. /\ q \in Seq(Emission) /\ Len(q) \in {1, 2}
        /\ \A j \in 1 .. Len(q) : /\ q[j].subject = c /\ q[j].target = Owner[c]
                                  /\ q[j].event \in {"component_completed", "done"}
        /\ Role[c] = "spawned" => Len(q) = 1
        /\ Role[c] # "spawned" =>
              /\ q[1].event # "done"
              /\ Len(q) = 2 <=> last /\ \A d \in Siblings(c) : st[d] = "completed"
              /\ Len(q) = 2 => q[2].event = "done"
    BY <2>1, CompletionReportsAre DEF CompletionShape
  <2>3. \A j \in 1 .. Len(q) : q[j].event \notin FailureEvents
    BY <2>2 DEF FailureEvents
  <2>4. \A j \in 1 .. Len(q) : j = 1 \/ (j = 2 /\ Len(q) = 2)
    BY <2>2
  <2>5. \A i, j \in 1 .. Len(q) : q[i].event = "done" /\ q[j].event = "done" => i = j
    BY <2>2, <2>4
  <2>6. c \in Components => Role[c] # "spawned"
    BY SiblingFacts
  <2>7. c \in Components => ((\E j \in 1 .. Len(q) : q[j].event = "done") <=> Len(q) = 2)
    BY <2>2, <2>4, <2>6
  <2>. QED
    BY <1>2, <2>2, <2>3, <2>5, <2>6, <2>7 DEF last
<1>. QED
  BY <1>1, <1>2

\* "who" and "which" say what each element of R is: the report number which[k] of
\* the initialisation of who[k], none twice and none left out.
Collected(R, E, st, who, which) ==
    /\ \A k \in 1 .. Len(R) : /\ who[k] \in E /\ which[k] \in 1 .. Len(InitReportsOf(who[k], st))
                              /\ R[k] = InitReportsOf(who[k], st)[which[k]]
    /\ \A k, l \in 1 .. Len(R) : who[k] = who[l] /\ which[k] = which[l] => k = l
    /\ \A c \in E : \A j \in 1 .. Len(InitReportsOf(c, st)) :
          \E k \in 1 .. Len(R) : who[k] = c /\ which[k] = j

\* The initialisation reports are those of every runtime that ended.
LEMMA InitReportsCollected ==
    ASSUME NEW created \in SUBSET NonRoot, NEW st, NEW E, E = {c \in created : st[c] # "running"},
           NEW R, R = InitReports(created, st)
    PROVE  R \in Seq(Emission) /\ \E who, which : Collected(R, E, st, who, which)
<1>. DEFINE n == Cardinality(E)
            s == InOrder(E)
<1>1. E \in SUBSET Runtimes /\ E \in SUBSET NonRoot
  BY DEF NonRoot
<1>2. /\ n \in Nat /\ s \in [1 .. n -> E]
      /\ \A i, j \in 1 .. n : s[i] = s[j] => i = j
      /\ \A c \in E : \E i \in 1 .. n : s[i] = c
  BY <1>1, InOrderFacts
<1>3. R = FlattenSeq([i \in 1 .. Len(s) |-> InitReportsOf(s[i], st)])
  BY Zenon DEF InitReports
<1>. HIDE DEF n, s
<1>4. s \in Seq(E) /\ Len(s) = n
  BY <1>2
<1>. DEFINE q == [i \in 1 .. n |-> InitReportsOf(s[i], st)]
<1>5. \A i \in 1 .. n : s[i] \in NonRoot /\ InitReportsOf(s[i], st) \in Seq(Emission)
  BY <1>1, <1>2, InitReportsOfAre
<1>6. q \in Seq(Seq(Emission)) /\ Len(q) = n
  BY <1>2, <1>5
<1>7. \A i \in 1 .. n : q[i] = InitReportsOf(s[i], st)
  OBVIOUS
<1>8. R = FlattenSeq(q)
  BY <1>3, <1>4
<1>. HIDE DEF q
<1>9. R \in Seq(Emission) /\ \E at : Locates(q, n, R, at)
  BY <1>6, <1>8, FlattenFacts
<1>10. PICK at : Locates(q, n, R, at)
  BY <1>9
<1>11. /\ \A k \in 1 .. Len(R) : at[k] \in Spots(q, n) /\ R[k] = q[at[k][1]][at[k][2]]
       /\ \A k, l \in 1 .. Len(R) : at[k] = at[l] => k = l
       /\ \A p \in Spots(q, n) : \E k \in 1 .. Len(R) : at[k] = p
  BY <1>10 DEF Locates
<1>12. \A i \in 1 .. n : \A j \in 1 .. Len(q[i]) : <<i, j>> \in Spots(q, n)
  <2>1. \A i \in 1 .. n : \A j \in 1 .. Len(q[i]) : j \in Nat
    OBVIOUS
  <2>. QED
    BY <2>1 DEF Spots
<1>13. \A p \in Spots(q, n) : p = <<p[1], p[2]>> /\ p[1] \in 1 .. n /\ p[2] \in 1 .. Len(q[p[1]])
  BY DEF Spots
<1>. DEFINE who == [k \in 1 .. Len(R) |-> s[at[k][1]]]
            which == [k \in 1 .. Len(R) |-> at[k][2]]
<1>14. \A k \in 1 .. Len(R) : who[k] = s[at[k][1]] /\ which[k] = at[k][2]
  OBVIOUS
<1>. HIDE DEF who, which
<1>15. ASSUME NEW k \in 1 .. Len(R)
       PROVE  /\ who[k] \in E /\ which[k] \in 1 .. Len(InitReportsOf(who[k], st))
              /\ R[k] = InitReportsOf(who[k], st)[which[k]]
  <2>1. PICK i, j : i = at[k][1] /\ j = at[k][2] /\ i \in 1 .. n /\ j \in 1 .. Len(q[i])
    BY <1>11, <1>13
  <2>2. R[k] = q[i][j] /\ who[k] = s[i] /\ which[k] = j /\ q[i] = InitReportsOf(s[i], st)
    BY <1>7, <1>11, <1>14, <2>1
  <2>. QED
    BY <1>2, <2>1, <2>2
<1>16. ASSUME NEW k \in 1 .. Len(R), NEW l \in 1 .. Len(R), who[k] = who[l], which[k] = which[l]
       PROVE  k = l
  <2>1. at[k] \in Spots(q, n) /\ at[l] \in Spots(q, n)
    BY <1>11
  <2>2. s[at[k][1]] = s[at[l][1]] /\ at[k][2] = at[l][2]
    BY <1>14, <1>16
  <2>3. at[k][1] = at[l][1]
    BY <1>2, <1>13, <2>1, <2>2
  <2>4. at[k] = at[l]
    BY <1>13, <2>1, <2>2, <2>3
  <2>. QED
    BY <1>11, <2>4
<1>17. ASSUME NEW c \in E, NEW j \in 1 .. Len(InitReportsOf(c, st))
       PROVE  \E k \in 1 .. Len(R) : who[k] = c /\ which[k] = j
  <2>1. PICK i \in 1 .. n : s[i] = c
    BY <1>2
  <2>2. <<i, j>> \in Spots(q, n)
    BY <1>7, <1>12, <2>1
  <2>3. PICK k \in 1 .. Len(R) : at[k] = <<i, j>>
    BY <1>11, <2>2
  <2>. QED
    BY <1>14, <2>1, <2>3
<1>18. Collected(R, E, st, who, which)
  BY <1>15, <1>16, <1>17 DEF Collected
<1>. QED
  BY <1>9, <1>18

\* An initialisation reports every failure and every activation that is done.
LEMMA InitialTold ==
    ASSUME NEW created \in SUBSET NonRoot, NEW R, R = InitReports(created, status'),
           \A c \in created : status[c] = "absent" /\ status'[c] # "absent",
           \A x \in Runtimes \ created :
              status'[x] \in {"faulted", "completed"} => status[x] = status'[x],
           \A c \in created \cap Components : Siblings(c) \subseteq created
    PROVE  /\ R \in Seq(Emission) /\ FailuresTold(R) /\ DoneTold(R)
           /\ \A k \in 1 .. Len(R) : \E c \in created : R[k].target = Owner[c]
<1>0. /\ \A c \in created : status[c] = "absent" /\ status'[c] # "absent"
      /\ \A x \in Runtimes \ created :
            status'[x] \in {"faulted", "completed"} => status[x] = status'[x]
      /\ \A c \in created \cap Components : Siblings(c) \subseteq created
  OBVIOUS
<1>. DEFINE E == {c \in created : status'[c] # "running"}
<1>1. R \in Seq(Emission) /\ \E who, which : Collected(R, E, status', who, which)
  BY InitReportsCollected
<1>2. \A c : c \in E <=> c \in created /\ status'[c] # "running"
  OBVIOUS
<1>. HIDE DEF E
<1>3. PICK who, which : Collected(R, E, status', who, which)
  BY <1>1
<1>p. PICK P : \A c \in E : P[c] = InitReportsOf(c, status')
  <2>. PICK f : f = [c \in E |-> InitReportsOf(c, status')]
    OBVIOUS
  <2>. WITNESS f
  <2>. QED
    OBVIOUS
<1>4. /\ \A k \in 1 .. Len(R) : who[k] \in E /\ which[k] \in 1 .. Len(P[who[k]]) /\ R[k] = P[who[k]][which[k]]
      /\ \A k, l \in 1 .. Len(R) : who[k] = who[l] /\ which[k] = which[l] => k = l
      /\ \A c \in E : \A j \in 1 .. Len(P[c]) : \E k \in 1 .. Len(R) : who[k] = c /\ which[k] = j
  <2>1. /\ \A k \in 1 .. Len(R) : /\ who[k] \in E /\ which[k] \in 1 .. Len(InitReportsOf(who[k], status'))
                                  /\ R[k] = InitReportsOf(who[k], status')[which[k]]
        /\ \A k, l \in 1 .. Len(R) : who[k] = who[l] /\ which[k] = which[l] => k = l
        /\ \A c \in E : \A j \in 1 .. Len(InitReportsOf(c, status')) :
              \E k \in 1 .. Len(R) : who[k] = c /\ which[k] = j
    BY Zenon, <1>3 DEF Collected
  <2>. QED
    BY <1>p, <2>1
<1>5. ASSUME NEW c \in E
      PROVE  /\ c \in NonRoot /\ c \in created
             /\ P[c] \in Seq(Emission) /\ Len(P[c]) \in {1, 2}
             /\ \A j \in 1 .. Len(P[c]) : /\ P[c][j].subject = c /\ P[c][j].target = Owner[c]
                                          /\ P[c][j].event \in FailureEvents <=> status'[c] = "faulted"
             /\ status'[c] = "faulted" => Len(P[c]) = 1
             /\ \A i, j \in 1 .. Len(P[c]) : P[c][i].event = "done" /\ P[c][j].event = "done" => i = j
             /\ c \in Components =>
                   ((\E j \in 1 .. Len(P[c]) : P[c][j].event = "done") <=>
                       /\ \A d \in Siblings(c) : d <= c
                       /\ \A d \in Siblings(c) : status'[d] = "completed")
  <2>1. c \in NonRoot /\ c \in created
    BY <1>2
  <2>2. P[c] = InitReportsOf(c, status')
    BY <1>p
  <2>. QED
    BY <2>1, <2>2, InitReportsOfAre
<1>6. \A k \in 1 .. Len(R) : /\ who[k] \in E /\ R[k].subject = who[k] /\ R[k].target = Owner[who[k]]
                             /\ R[k].event \in FailureEvents <=> status'[who[k]] = "faulted"
                             /\ who[k] \in created /\ who[k] \in NonRoot
  <2>. SUFFICES ASSUME NEW k \in 1 .. Len(R)
                PROVE  /\ who[k] \in E /\ R[k].subject = who[k] /\ R[k].target = Owner[who[k]]
                       /\ R[k].event \in FailureEvents <=> status'[who[k]] = "faulted"
                       /\ who[k] \in created /\ who[k] \in NonRoot
    OBVIOUS
  <2>1. PICK c \in E : c = who[k]
    BY <1>4
  <2>2. PICK j \in 1 .. Len(P[c]) : R[k] = P[c][j]
    <3>1. \E j \in 1 .. Len(P[who[k]]) : R[k] = P[who[k]][j]
      <4>1. which[k] \in 1 .. Len(P[who[k]])
        BY Zenon, <1>4
      <4>2. R[k] = P[who[k]][which[k]]
        BY Zenon, <1>4
      <4>. QED
        BY Zenon, <4>1, <4>2
    <3>. QED
      BY Zenon, <2>1, <3>1
  <2>. QED
    BY <1>5, <2>1, <2>2
<1>7. FailuresTold(R)
  <2>1. ASSUME NEW k \in 1 .. Len(R), NEW l \in 1 .. Len(R),
               R[k].event \in FailureEvents, R[l].event \in FailureEvents, R[k].subject = R[l].subject
        PROVE  k = l
    <3>1. who[k] = who[l] /\ status'[who[k]] = "faulted" /\ who[k] \in E
      BY <1>6, <2>1
    <3>2. which[k] \in 1 .. 1 /\ which[l] \in 1 .. 1
      BY <1>4, <1>5, <3>1
    <3>3. which[k] = which[l]
      BY <3>2
    <3>. QED
      BY <1>4, <3>1, <3>3
  <2>2. ASSUME NEW c \in NonRoot, status[c] # "faulted", status'[c] = "faulted"
        PROVE  \E k \in 1 .. Len(R) : R[k].event \in FailureEvents /\ R[k].subject = c
    <3>1. c \in E
      BY <1>0, <1>2, <2>2 DEF NonRoot
    <3>2. 1 \in 1 .. Len(P[c])
      <4>1. Len(P[c]) \in {1, 2}
        BY Zenon, <1>5, <3>1
      <4>2. \A m \in {1, 2} : 1 \in 1 .. m
        OBVIOUS
      <4>. QED
        BY Zenon, <4>1, <4>2
    <3>3. PICK k \in 1 .. Len(R) : who[k] = c /\ which[k] = 1
      BY <1>4, <3>1, <3>2
    <3>. QED
      BY <1>6, <2>2, <3>3
  <2>. QED
    BY <1>0, <1>6, <2>1, <2>2 DEF FailuresTold
<1>8. DoneTold(R)
  <2>1. ASSUME NEW k \in 1 .. Len(R), R[k].event = "done", R[k].subject \in Components
        PROVE  /\ status[R[k].subject] \notin {"completed", "removed"}
               /\ \A d \in Siblings(R[k].subject) : status'[d] = "completed"
               /\ \A d \in Siblings(R[k].subject) : d <= R[k].subject
    <3>1. PICK c \in E : c = who[k] /\ R[k].subject = c /\ c \in created
      BY <1>6
    <3>2. PICK j \in 1 .. Len(P[c]) : R[k] = P[c][j]
      <4>1. \E j \in 1 .. Len(P[who[k]]) : R[k] = P[who[k]][j]
        <5>1. which[k] \in 1 .. Len(P[who[k]])
          BY Zenon, <1>4
        <5>2. R[k] = P[who[k]][which[k]]
          BY Zenon, <1>4
        <5>. QED
          BY Zenon, <5>1, <5>2
      <4>. QED
        BY Zenon, <3>1, <4>1
    <3>. QED
      BY <1>0, <1>5, <2>1, <3>1, <3>2
  <2>2. ASSUME NEW k \in 1 .. Len(R), NEW l \in 1 .. Len(R),
               R[k].event = "done", R[k].subject \in Components,
               R[l].event = "done", R[l].subject \in Siblings(R[k].subject)
        PROVE  k = l
    <3>1. PICK c, d : c = R[k].subject /\ d = R[l].subject
      OBVIOUS
    <3>2. c \in Components /\ d \in Components /\ Siblings(d) = Siblings(c) /\ c \in Siblings(c)
      BY <2>2, <3>1, SiblingFacts
    <3>3. c <= d /\ d <= c /\ c \in Nat /\ d \in Nat
      BY <2>1, <2>2, <3>1, <3>2, SiblingFacts
    <3>4. who[k] = c /\ who[l] = c /\ c \in E
      BY <1>6, <3>1, <3>3
    <3>5. which[k] \in 1 .. Len(P[c]) /\ which[l] \in 1 .. Len(P[c]) /\ R[k] = P[c][which[k]] /\ R[l] = P[c][which[l]]
      BY <1>4, <3>4
    <3>6. which[k] = which[l]
      BY <1>5, <2>2, <3>4, <3>5
    <3>. QED
      BY <1>4, <3>4, <3>6
  <2>3. ASSUME NEW c \in Components, \A d \in Siblings(c) : status'[d] = "completed",
               NEW x \in Siblings(c), status[x] # "completed"
        PROVE  \E k \in 1 .. Len(R) : R[k].event = "done" /\ R[k].subject \in Siblings(c)
    <3>1. x \in Components /\ Siblings(x) = Siblings(c) /\ x \in Runtimes
      BY SiblingFacts
    <3>2. Siblings(c) \subseteq created
      BY <1>0, <2>3, <3>1
    <3>3. PICK e \in Siblings(c) : \A d \in Siblings(c) : d <= e
      BY SiblingFacts, GreatestNumber
    <3>4. e \in Components /\ Siblings(e) = Siblings(c)
      BY SiblingFacts
    <3>5. e \in E
      BY <1>2, <2>3, <3>2
    <3>6. PICK j \in 1 .. Len(P[e]) : P[e][j].event = "done"
      BY <1>5, <2>3, <3>3, <3>4, <3>5
    <3>7. PICK k \in 1 .. Len(R) : who[k] = e /\ which[k] = j
      BY <1>4, <3>5
    <3>8. R[k] = P[e][j] /\ R[k].subject = e
      BY <1>4, <1>6, <3>7
    <3>. QED
      BY <3>6, <3>8
  <2>. QED
    BY <2>1, <2>2, <2>3 DEF DoneTold
<1>. QED
  BY <1>1, <1>6, <1>7, <1>8

\* Nothing faults or completes but what is created, and activations are whole.
EndsCreatedOnly(created) ==
    /\ \A c \in created : status[c] = "absent" /\ status'[c] # "absent"
    /\ \A x \in Runtimes \ created :
          status'[x] \in {"faulted", "completed"} => status[x] = status'[x]
    /\ \A c \in created \cap Components : Siblings(c) \subseteq created

\* Then an initialisation reports every failure and every activation that is done.
LEMMA InitReportsTell ==
    ASSUME NEW created \in SUBSET NonRoot, NEW R, R = InitReports(created, status'),
           EndsCreatedOnly(created)
    PROVE  /\ R \in Seq(Emission) /\ FailuresTold(R) /\ DoneTold(R)
           /\ \A k \in 1 .. Len(R) : \E c \in created : R[k].target = Owner[c]
<1>1. \A c \in created : status[c] = "absent" /\ status'[c] # "absent"
  BY Zenon DEF EndsCreatedOnly
<1>2. \A x \in Runtimes \ created :
         status'[x] \in {"faulted", "completed"} => status[x] = status'[x]
  BY Zenon DEF EndsCreatedOnly
<1>3. \A c \in created \cap Components : Siblings(c) \subseteq created
  BY Zenon DEF EndsCreatedOnly
<1>. QED
  BY <1>1, <1>2, <1>3, InitialTold

\* The emissions of a step: members of A, and the reports R somewhere among them.
Around(ems, A, R) ==
    \E n \in Nat :
       /\ n + Len(R) <= Len(ems)
       /\ \A k \in 1 .. Len(ems) : IF k - n \in 1 .. Len(R) THEN ems[k] = R[k - n] ELSE ems[k] \in A

\* Reports after the author's emissions, or before them, are around them.
LEMMA AroundSides ==
    ASSUME NEW A, NEW p \in Seq(A), NEW R \in Seq(Emission)
    PROVE  Around(p \o R, A, R) /\ Around(R \o p, A, R) /\ (R = <<>> => Around(p, A, R))
<1>1. /\ Len(p) \in Nat /\ Len(R) \in Nat
      /\ \A k \in 1 .. Len(p) : p[k] \in A
  BY LenProperties, ElementOfSeq
<1>2. PICK u : u = p \o R
  OBVIOUS
<1>3. Around(u, A, R)
  <2>1. /\ Len(u) = Len(p) + Len(R)
        /\ \A k \in 1 .. Len(u) : u[k] = IF k <= Len(p) THEN p[k] ELSE R[k - Len(p)]
    BY <1>1, <1>2, ConcatProperties
  <2>2. \A k \in 1 .. Len(u) :
           IF k - Len(p) \in 1 .. Len(R) THEN u[k] = R[k - Len(p)] ELSE u[k] \in A
    BY <1>1, <2>1
  <2>3. Len(p) + Len(R) <= Len(u)
    BY <1>1, <2>1
  <2>. QED
    BY <1>1, <2>2, <2>3 DEF Around
<1>4. PICK v : v = R \o p
  OBVIOUS
<1>5. Around(v, A, R)
  <2>1. /\ Len(v) = Len(R) + Len(p)
        /\ \A k \in 1 .. Len(v) : v[k] = IF k <= Len(R) THEN R[k] ELSE p[k - Len(R)]
    BY <1>1, <1>4, ConcatProperties
  <2>2. \A k \in 1 .. Len(v) :
           IF k - 0 \in 1 .. Len(R) THEN v[k] = R[k - 0] ELSE v[k] \in A
    BY <1>1, <2>1
  <2>3. 0 + Len(R) <= Len(v) /\ 0 \in Nat
    BY <1>1, <2>1
  <2>. QED
    BY <2>2, <2>3 DEF Around
<1>6. ASSUME R = <<>> PROVE Around(p, A, R)
  <2>1. Len(R) = 0
    BY <1>6
  <2>2. \A k \in 1 .. Len(p) : k - 0 \notin 1 .. Len(R)
    BY <1>1, <2>1
  <2>3. 0 + Len(R) <= Len(p) /\ 0 \in Nat
    BY <1>1, <2>1
  <2>. QED
    BY <1>1, <2>2, <2>3 DEF Around
<1>. QED
  BY <1>2, <1>3, <1>4, <1>5, <1>6

\* The author writes a finite sequence.
LEMMA AuthorWrites ==
    ASSUME NEW A, NEW p \in BoundedSeq(A, MaxSend)
    PROVE  p \in Seq(A)
<1>1. BoundedSeq(A, MaxSend) = UNION {[1 .. m -> A] : m \in 0 .. MaxSend}
  BY Zenon DEF BoundedSeq, SeqOf
<1>2. PICK m \in 0 .. MaxSend : p \in [1 .. m -> A]
  BY <1>1
<1>. QED
  BY <1>2

\* The emissions of a step are the author's around the reports.
LEMMA EmissionsAround ==
    ASSUME NEW X, NEW created, NEW R \in Seq(Emission), NEW ems \in Emissions(X, created, R)
    PROVE  Around(ems, AuthorEmissions(X, created), R)
<1>. DEFINE A == AuthorEmissions(X, created)
<1>1. \/ R = <<>> /\ ems \in BoundedSeq(A, MaxSend)
      \/ \E p \in BoundedSeq(A, MaxSend) : ems = p \o R
      \/ \E p \in BoundedSeq(A, MaxSend) : ems = R \o p
  BY DEF Emissions
<1>. HIDE DEF A
<1>2. CASE R = <<>> /\ ems \in BoundedSeq(A, MaxSend)
  <2>1. ems \in Seq(A)
    BY <1>2, AuthorWrites
  <2>. QED
    BY <1>2, <2>1, AroundSides DEF A
<1>3. ASSUME NEW p \in BoundedSeq(A, MaxSend), ems = p \o R \/ ems = R \o p
      PROVE  Around(ems, A, R)
  <2>1. p \in Seq(A)
    BY AuthorWrites
  <2>2. Around(p \o R, A, R) /\ Around(R \o p, A, R)
    BY <2>1, AroundSides
  <2>. QED
    BY <1>3, <2>2
<1>. QED
  BY <1>1, <1>2, <1>3 DEF A

Tells(q) == FailuresTold(q) /\ DoneTold(q) /\ KnowsTargets(q)

\* What the author writes besides is no report.
LEMMA AroundTells ==
    ASSUME NEW ems, NEW A, NEW R, Len(ems) \in Nat, Len(R) \in Nat, Around(ems, A, R), Tells(R),
           \A a \in A : a.event \notin SystemEvents /\ status'[a.target] # "absent"
    PROVE  Tells(ems)
<1>1. PICK n \in Nat :
       /\ n + Len(R) <= Len(ems)
       /\ \A k \in 1 .. Len(ems) : IF k - n \in 1 .. Len(R) THEN ems[k] = R[k - n] ELSE ems[k] \in A
  BY DEF Around
<1>2. \A j \in 1 .. Len(R) : /\ n + j \in 1 .. Len(ems) /\ ems[n + j] = R[j]
  <2>. SUFFICES ASSUME NEW j \in 1 .. Len(R) PROVE n + j \in 1 .. Len(ems) /\ ems[n + j] = R[j]
    OBVIOUS
  <2>1. n + j \in 1 .. Len(ems) /\ (n + j) - n = j
    BY <1>1
  <2>. QED
    BY <1>1, <2>1
<1>3. \A k \in 1 .. Len(ems) : ems[k].event \in SystemEvents => k - n \in 1 .. Len(R) /\ ems[k] = R[k - n]
  BY <1>1
<1>4. FailureEvents \subseteq SystemEvents /\ "done" \in SystemEvents
  BY DEF SystemEvents
<1>5. ASSUME NEW k \in 1 .. Len(ems), NEW l \in 1 .. Len(ems), k - n = l - n PROVE k = l
  <2>1. k \in Int /\ l \in Int
    OBVIOUS
  <2>. QED
    BY <1>5, <2>1
<1>6. FailuresTold(ems)
  <2>1. ASSUME NEW k \in 1 .. Len(ems), ems[k].event \in FailureEvents
        PROVE  LET c == ems[k].subject
               IN /\ c \in NonRoot /\ ems[k].target = Owner[c]
                  /\ status[c] \notin {"faulted", "removed"} /\ status'[c] = "faulted"
    BY <1>3, <1>4, <2>1 DEF Tells, FailuresTold
  <2>2. ASSUME NEW k \in 1 .. Len(ems), NEW l \in 1 .. Len(ems),
               ems[k].event \in FailureEvents, ems[l].event \in FailureEvents, ems[k].subject = ems[l].subject
        PROVE  k = l
    <3>1. PICK i \in 1 .. Len(R), j \in 1 .. Len(R) :
             i = k - n /\ j = l - n /\ ems[k] = R[i] /\ ems[l] = R[j]
      BY <1>3, <1>4, <2>2
    <3>2. R[i].event \in FailureEvents /\ R[j].event \in FailureEvents /\ R[i].subject = R[j].subject
      BY Zenon, <2>2, <3>1
    <3>3. i = j
      BY Zenon, <3>2 DEF Tells, FailuresTold
    <3>. QED
      BY <1>5, <3>1, <3>3
  <2>3. ASSUME NEW c \in NonRoot, status[c] # "faulted", status'[c] = "faulted"
        PROVE  \E k \in 1 .. Len(ems) : ems[k].event \in FailureEvents /\ ems[k].subject = c
    <3>1. PICK j \in 1 .. Len(R) : R[j].event \in FailureEvents /\ R[j].subject = c
      BY <2>3 DEF Tells, FailuresTold
    <3>2. n + j \in 1 .. Len(ems) /\ ems[n + j] = R[j]
      BY <1>2
    <3>. QED
      BY <3>1, <3>2
  <2>. QED
    BY <2>1, <2>2, <2>3 DEF FailuresTold
<1>7. DoneTold(ems)
  <2>1. ASSUME NEW k \in 1 .. Len(ems), ems[k].event = "done", ems[k].subject \in Components
        PROVE  /\ status[ems[k].subject] \notin {"completed", "removed"}
               /\ \A d \in Siblings(ems[k].subject) : status'[d] = "completed"
    BY <1>3, <1>4, <2>1 DEF Tells, DoneTold
  <2>2. ASSUME NEW k \in 1 .. Len(ems), NEW l \in 1 .. Len(ems),
               ems[k].event = "done", ems[k].subject \in Components,
               ems[l].event = "done", ems[l].subject \in Siblings(ems[k].subject)
        PROVE  k = l
    <3>1. PICK i \in 1 .. Len(R), j \in 1 .. Len(R) :
             i = k - n /\ j = l - n /\ ems[k] = R[i] /\ ems[l] = R[j]
      BY <1>3, <1>4, <2>2
    <3>2. /\ R[i].event = "done" /\ R[i].subject \in Components
          /\ R[j].event = "done" /\ R[j].subject \in Siblings(R[i].subject)
      BY Zenon, <2>2, <3>1
    <3>3. i = j
      BY Zenon, <3>2 DEF Tells, DoneTold
    <3>. QED
      BY <1>5, <3>1, <3>3
  <2>3. ASSUME NEW c \in Components, \A d \in Siblings(c) : status'[d] = "completed",
               \E d \in Siblings(c) : status[d] # "completed"
        PROVE  \E k \in 1 .. Len(ems) : ems[k].event = "done" /\ ems[k].subject \in Siblings(c)
    <3>1. PICK j \in 1 .. Len(R) : R[j].event = "done" /\ R[j].subject \in Siblings(c)
      BY <2>3 DEF Tells, DoneTold
    <3>2. n + j \in 1 .. Len(ems) /\ ems[n + j] = R[j]
      BY <1>2
    <3>. QED
      BY <3>1, <3>2
  <2>. QED
    BY <2>1, <2>2, <2>3 DEF DoneTold
<1>8. KnowsTargets(ems)
  BY <1>1 DEF Tells, KnowsTargets
<1>. QED
  BY <1>6, <1>7, <1>8 DEF Tells

\* A step of which no contained fault or completion comes may report nothing.
LEMMA NothingTold ==
    ASSUME \A x \in NonRoot : status'[x] \in {"faulted", "completed"} => status[x] = status'[x]
    PROVE  Tells(<<>>)
<1>1. 1 .. Len(<<>>) = {}
  OBVIOUS
<1>2. \A c \in Components : \A d \in Siblings(c) : d \in NonRoot
  BY SiblingFacts
<1>. QED
  BY <1>1, <1>2 DEF Tells, FailuresTold, DoneTold, KnowsTargets

\* The report of a fault in a step.
LEMMA FaultTold ==
    ASSUME TypeOK, NEW r \in NonRoot, status[r] = "running", status' = [status EXCEPT ![r] = "faulted"],
           status[Owner[r]] # "absent"
    PROVE  Tells(<<FailureReport(r)>>)
<1>1. PICK f : f = FailureReport(r)
  OBVIOUS
<1>2. /\ f.event \in FailureEvents /\ f.subject = r /\ f.target = Owner[r]
  BY <1>1, ReportTyped DEF FailureReport, FailureEvents, SystemEvents
<1>3. f.event # "done"
  BY <1>2 DEF FailureEvents
<1>4. PICK q : q = <<f>>
  OBVIOUS
<1>5. Len(q) = 1 /\ q[1] = f
  BY <1>4
<1>6. r \in Runtimes /\ Owner[r] \in Runtimes
  BY OwnerFacts DEF NonRoot
<1>7. status'[r] = "faulted" /\ \A x \in Runtimes : x # r => status'[x] = status[x]
  BY <1>6 DEF TypeOK
<1>8. \A c \in NonRoot : status[c] # "faulted" /\ status'[c] = "faulted" => c = r
  BY <1>7 DEF NonRoot
<1>9. \A c \in Components : \A d \in Siblings(c) : status'[d] = "completed" => status[d] = "completed"
  BY <1>7, SiblingFacts
<1>10. \A k \in 1 .. Len(q) : k = 1
  BY <1>5
<1>11. FailuresTold(q)
  BY <1>2, <1>5, <1>7, <1>8, <1>10 DEF FailuresTold
<1>12. DoneTold(q)
  BY <1>3, <1>5, <1>9, <1>10 DEF DoneTold
<1>13. KnowsTargets(q)
  BY <1>2, <1>5, <1>6, <1>7, <1>10 DEF KnowsTargets
<1>. QED
  BY <1>1, <1>4, <1>11, <1>12, <1>13 DEF Tells

\* The reports of a completion in a step.
LEMMA CompletionTold ==
    ASSUME NEW r \in Runtimes, status[r] = "running",
           status'[r] = IF Role[r] = "spawned" THEN "removed" ELSE "completed",
           \A x \in Runtimes : x # r /\ status'[x] \in {"faulted", "completed"} => status[x] = status'[x],
           r # Root => status'[Owner[r]] # "absent",
           NEW R, R = OwnReports(r, status')
    PROVE  R \in Seq(Emission) /\ Tells(R)
<1>1. CASE r = Root
  <2>1. R = <<>>
    BY <1>1 DEF OwnReports
  <2>2. \A x \in NonRoot : status'[x] \in {"faulted", "completed"} => status[x] = status'[x]
    BY <1>1 DEF NonRoot
  <2>. QED
    BY <2>1, <2>2, NothingTold
<1>2. CASE r # Root
  <2>1. r \in NonRoot /\ R = CompletionReports(r, TRUE, status')
    BY <1>2 DEF NonRoot, OwnReports
  <2>2. /\ R \in Seq(Emission) /\ Len(R) \in {1, 2}
        /\ \A j \in 1 .. Len(R) : /\ R[j].subject = r /\ R[j].target = Owner[r]
                                  /\ R[j].event \in {"component_completed", "done"}
        /\ Role[r] # "spawned" =>
              /\ R[1].event # "done"
              /\ Len(R) = 2 <=> \A d \in Siblings(r) : status'[d] = "completed"
              /\ Len(R) = 2 => R[2].event = "done"
    <3>1. CompletionShape(R, r, TRUE, status')
      BY Zenon, <2>1, CompletionReportsAre
    <3>. QED
      BY <3>1 DEF CompletionShape
  <2>3. \A j \in 1 .. Len(R) : R[j].event \notin FailureEvents
    BY <2>2 DEF FailureEvents
  <2>4. \A c \in NonRoot : status'[c] = "faulted" => status[c] = "faulted"
    <3>1. status'[r] # "faulted"
      OBVIOUS
    <3>. QED
      BY <3>1 DEF NonRoot
  <2>5. FailuresTold(R)
    BY <2>3, <2>4 DEF FailuresTold
  <2>6. r \in Components => Role[r] # "spawned"
    BY SiblingFacts
  <2>7. ASSUME NEW k \in 1 .. Len(R), R[k].event = "done", r \in Components
        PROVE  k = 2 /\ Len(R) = 2
    BY <2>2, <2>6, <2>7
  <2>8. ASSUME NEW c \in Components, \A d \in Siblings(c) : status'[d] = "completed",
               NEW x \in Siblings(c), status[x] # "completed"
        PROVE  \E k \in 1 .. Len(R) : R[k].event = "done" /\ R[k].subject \in Siblings(c)
    <3>1. x \in Components /\ x \in Runtimes /\ Siblings(x) = Siblings(c)
      BY SiblingFacts
    <3>2. x = r
      BY <2>8, <3>1
    <3>3. Len(R) = 2 /\ 2 \in 1 .. Len(R)
      BY <2>2, <2>6, <2>8, <3>1, <3>2
    <3>. QED
      BY <2>2, <2>6, <3>1, <3>2, <3>3
  <2>9. DoneTold(R)
    BY <2>2, <2>6, <2>7, <2>8 DEF DoneTold
  <2>10. KnowsTargets(R)
    BY <1>2, <2>2 DEF KnowsTargets
  <2>. QED
    BY <2>2, <2>5, <2>9, <2>10 DEF Tells
<1>. QED
  BY <1>1, <1>2

-----------------------------------------------------------------------------
(* What a step does to lifecycles, and what it tells of that.              *)

\* A lifecycle only goes on, and a spawned runtime leaves no completed state.
StatusMoves ==
    \A x \in Runtimes :
       /\ status[x] = "removed" => status'[x] = "removed"
       /\ status[x] = "completed" => status'[x] \in {"completed", "removed"}
       /\ status[x] = "faulted" => status'[x] \in {"faulted", "removed"}
       /\ status[x] # "absent" => status'[x] # "absent"
       /\ Role[x] = "spawned" /\ status[x] # "completed" => status'[x] # "completed"

\* The entries a commit adds are the emissions ems.
Adds(ems) ==
    /\ Len(ems) \in Nat
    /\ \A k \in 1 .. Len(ems) :
          /\ nextAcceptance + k - 1 \in DOMAIN box' \ DOMAIN box
          /\ LET e == box'[nextAcceptance + k - 1]
             IN /\ e.event = ems[k].event /\ e.target = ems[k].target /\ e.subject = ems[k].subject
                /\ e.place = EmissionPlace(ems[k].target, status')
    /\ \A a \in DOMAIN box' \ DOMAIN box : \E k \in 1 .. Len(ems) : a = nextAcceptance + k - 1

\* A failure notification is not dropped as unhandled.
KeepsFailures ==
    \A a \in DOMAIN box :
       box[a].event \in FailureEvents /\ box'[a].place = "unhandled" => box[a].place = "unhandled"

Outcome == StatusMoves /\ KeepsFailures /\ \E ems : Adds(ems) /\ Tells(ems)

\* A commit whose emissions tell what it did to the lifecycles has an outcome.
LEMMA CommitOutcome ==
    ASSUME TypeOK, NEW h, NEW fate, NEW st, NEW ems, NEW S, Commit(h, fate, st, ems, S),
           h \in DOMAIN box /\ fate = "unhandled" => box[h].event \notin FailureEvents,
           Tells(ems), StatusMoves
    PROVE  Outcome
<1>1. /\ Len(ems) \in Nat
      /\ \A k \in 1 .. Len(ems) : ems[k] \in Emission
      /\ DOMAIN box = 0 .. nextAcceptance - 1
      /\ nextAcceptance' = nextAcceptance + Len(ems)
      /\ status' = st
      /\ box' = [a \in 0 .. nextAcceptance' - 1 |->
                   IF a < nextAcceptance THEN Settled(a, h, fate, st, ems, S)
                   ELSE Emitted(ems, a - nextAcceptance + 1, st)]
      /\ \A a \in DOMAIN box : a \in DOMAIN box' /\ box'[a] = Settled(a, h, fate, st, ems, S)
      /\ \A a \in DOMAIN box' \ DOMAIN box :
            /\ a - nextAcceptance + 1 \in 1 .. Len(ems)
            /\ box'[a] = Emitted(ems, a - nextAcceptance + 1, st)
  BY CommitEntries
<1>2. nextAcceptance \in Nat
  BY DEF TypeOK
<1>3. DOMAIN box' = 0 .. nextAcceptance' - 1
  BY <1>1
<1>4. ASSUME NEW k \in 1 .. Len(ems)
      PROVE  /\ nextAcceptance + k - 1 \in DOMAIN box' \ DOMAIN box
             /\ LET e == box'[nextAcceptance + k - 1]
                IN /\ e.event = ems[k].event /\ e.target = ems[k].target /\ e.subject = ems[k].subject
                   /\ e.place = EmissionPlace(ems[k].target, status')
  <2>1. PICK a : a = nextAcceptance + k - 1
    OBVIOUS
  <2>2. a \in DOMAIN box' \ DOMAIN box /\ a - nextAcceptance + 1 = k
    BY <1>1, <1>2, <1>3, <2>1
  <2>3. box'[a] = Emitted(ems, k, st)
    BY <1>1, <2>2
  <2>. QED
    BY <1>1, <2>1, <2>2, <2>3 DEF Emitted
<1>5. ASSUME NEW a \in DOMAIN box' \ DOMAIN box
      PROVE  \E k \in 1 .. Len(ems) : a = nextAcceptance + k - 1
  <2>1. a - nextAcceptance + 1 \in 1 .. Len(ems) /\ a \in Int
    BY <1>1, <1>3
  <2>2. a = nextAcceptance + (a - nextAcceptance + 1) - 1
    BY <1>2, <2>1
  <2>. QED
    BY <2>1, <2>2
<1>6. Adds(ems)
  BY <1>1, <1>4, <1>5 DEF Adds
<1>7. KeepsFailures
  <2>. SUFFICES ASSUME NEW a \in DOMAIN box, box[a].event \in FailureEvents, box'[a].place = "unhandled"
                PROVE  box[a].place = "unhandled"
    BY DEF KeepsFailures
  <2>1. box'[a] = Settled(a, h, fate, st, ems, S) /\ box[a] \in Entry
    BY <1>1 DEF TypeOK
  <2>2. CASE a = h
    <3>1. box'[a] = [box[a] EXCEPT !.place = fate]
      BY <2>1, <2>2 DEF Settled
    <3>2. fate = "unhandled"
      BY <2>1, <3>1 DEF Entry
    <3>. QED
      BY <2>2, <3>2
  <2>3. CASE a # h /\ a \in S
    <3>1. PICK q : q = nextQueue + Len(ems) + RecallRank(S, a)
      OBVIOUS
    <3>2. box'[a] = [box[a] EXCEPT !.place = "ready", !.queue = q]
      BY <2>1, <2>3, <3>1 DEF Settled
    <3>. QED
      BY <2>1, <3>2 DEF Entry
  <2>4. CASE a # h /\ a \notin S /\ a \in Pending /\ Ended(box[a].target, st)
    <3>1. PICK reason : reason = DisposalReason(box[a].target, st)
      OBVIOUS
    <3>2. box'[a] = [box[a] EXCEPT !.place = reason] /\ reason # "unhandled"
      BY <2>1, <2>4, <3>1 DEF Settled, DisposalReason
    <3>. QED
      BY <2>1, <3>2 DEF Entry
  <2>5. CASE a # h /\ a \notin S /\ ~(a \in Pending /\ Ended(box[a].target, st))
    BY <2>1, <2>5 DEF Settled
  <2>. QED
    BY <2>2, <2>3, <2>4, <2>5
<1>. QED
  BY <1>6, <1>7 DEF Outcome

\* A step that leaves the lifecycles and adds no notification tells nothing.
LEMMA QuietMoves ==
    ASSUME status' = status
    PROVE  StatusMoves
  BY DEF StatusMoves

\* What the author of a step can name is known.
LEMMA AuthorKnows ==
    ASSUME NEW X, NEW created, NEW a \in AuthorEmissions(X, created),
           \A x \in X : status'[x] # "absent" /\ (x # Root => status'[Owner[x]] # "absent"),
           \A c \in created : status'[c] # "absent",
           \A c \in Runtimes : status[c] = "running" => status'[c] # "absent"
    PROVE  a.event \notin SystemEvents /\ status'[a.target] # "absent"
<1>1. PICK x \in X : \E e \in InternalEvents, t \in Addressable(x, created) : a = AuthorEmission(x, e, t)
  BY DEF AuthorEmissions
<1>2. PICK e \in InternalEvents, t \in Addressable(x, created) : a = AuthorEmission(x, e, t)
  BY <1>1
<1>3. a.event = e /\ a.target = t
  BY <1>2 DEF AuthorEmission
<1>4. e \notin SystemEvents
  BY MailboxAssumption
<1>5. \/ t = x \/ (x # Root /\ t = Owner[x]) \/ t \in created
      \/ t \in Runtimes /\ status[t] = "running"
  BY DEF Addressable, Eligible, ComponentsOf, Spawned, Components
<1>. QED
  BY <1>3, <1>4, <1>5

\* A runtime that can be stepped has an owner the aggregate knows.
LEMMA OwnerKnown ==
    ASSUME OwnershipWellFormed, NEW x \in Present, x # Root
    PROVE  Owner[x] \in Present /\ Owner[x] \in Runtimes /\ status[Owner[x]] # "absent"
  BY DEF OwnershipWellFormed, Present, PresentIn

\* An activation is created whole.
LEMMA ActivationsWhole ==
    ASSUME NEW r \in Runtimes, NEW created \in SUBSET NonRoot, NEW init, NEW md, NEW leaves \in BOOLEAN,
           CanCreate(r, created, init, md, leaves), NEW c \in created \cap Components
    PROVE  Siblings(c) \subseteq created
<1>1. c \in NonRoot /\ c \in ComponentsOf(Owner[c]) /\ Owner[c] \in Runtimes
  BY OwnerFacts DEF ComponentsOf, Children
<1>2. PICK p \in Runtimes : p = Owner[c] /\ c \in ComponentsOf(p) /\ c \in created \cap ComponentsOf(p)
  BY <1>1
<1>3. p = r \/ (p \in created /\ init[p] = "running")
  BY <1>2 DEF CanCreate
<1>4. AllocatesFor(p, md[p], created)
  <2>1. CASE p = r
    <3>1. leaves
      BY <1>2, <2>1 DEF CanCreate
    <3>. QED
      BY <2>1, <3>1 DEF CanCreate
  <2>2. CASE p \in created /\ init[p] = "running"
    BY <2>2 DEF CanCreate
  <2>. QED
    BY <1>3, <2>1, <2>2
<1>5. PICK d \in ComponentsOf(p) : created \cap ComponentsOf(p) = Siblings(d)
  BY <1>2, <1>4 DEF AllocatesFor
<1>6. d \in Components /\ c \in Siblings(d)
  BY <1>2, <1>5 DEF ComponentsOf
<1>7. Siblings(c) = Siblings(d)
  BY <1>6, SiblingFacts
<1>. QED
  BY <1>5, <1>7

\* A runtime r goes on, having created, initialised and removed others.
GoesOn(r, leaves, created, init, md, removed, exits) ==
    /\ r \in Runtimes /\ (r = Root \/ r \in Present) /\ status[r] \in {"absent", "running"}
    /\ created \in SUBSET {c \in NonRoot : status[c] = "absent"} /\ r \notin created
    /\ leaves \in BOOLEAN /\ init \in InitResults(created)
    /\ CanCreate(r, created, init, md, leaves)
    /\ removed \in SUBSET Present /\ r \notin removed /\ exits \in SUBSET Present
    /\ status' = After(r, "running", created, init, removed)

\* Those whose actions run in such a step.
Authors(r, created, init, exits) == {r} \cup {c \in created : init[c] # "faulted"} \cup exits

\* It tells what became of what it created.
LEMMA TransitionTells ==
    ASSUME TypeOK, OwnershipWellFormed, NEW r, NEW leaves, NEW created, NEW init, NEW md,
           NEW removed, NEW exits, GoesOn(r, leaves, created, init, md, removed, exits),
           NEW ems \in Emissions(Authors(r, created, init, exits), created, InitReports(created, status')), Len(ems) \in Nat
    PROVE  Tells(ems) /\ StatusMoves
<1>0. GoesOn(r, leaves, created, init, md, removed, exits)
  OBVIOUS
<1>. USE <1>0 DEF GoesOn
<1>x. PICK X : X = Authors(r, created, init, exits)
  OBVIOUS
<1>1. /\ \A x \in Present : x \in Runtimes /\ x \notin created /\ status[x] # "absent"
      /\ created \subseteq Runtimes /\ created \in SUBSET NonRoot
      /\ \A x \in created : status[x] = "absent"
  BY DEF Present, PresentIn, NonRoot
<1>2. \A x \in created : init[x] # "absent" /\ (Role[x] = "spawned" => init[x] # "completed")
  BY DEF InitResults
<1>3. /\ status'[r] = "running"
      /\ \A x \in created : status'[x] = init[x]
      /\ \A x \in removed : status'[x] = "removed"
      /\ \A x \in Runtimes \ ({r} \cup created \cup removed) : status'[x] = status[x]
  BY <1>1 DEF After
<1>4. StatusMoves
  <2>. SUFFICES ASSUME NEW x \in Runtimes
                PROVE  /\ status[x] = "removed" => status'[x] = "removed"
                       /\ status[x] = "completed" => status'[x] \in {"completed", "removed"}
                       /\ status[x] = "faulted" => status'[x] \in {"faulted", "removed"}
                       /\ status[x] # "absent" => status'[x] # "absent"
                       /\ Role[x] = "spawned" /\ status[x] # "completed" => status'[x] # "completed"
    BY DEF StatusMoves
  <2>1. CASE x = r
    BY <1>3, <2>1
  <2>2. CASE x \in created
    BY <1>1, <1>2, <1>3, <2>2
  <2>3. CASE x \in removed
    BY <1>3, <2>3 DEF Present, PresentIn
  <2>4. CASE x \notin {r} \cup created \cup removed
    BY <1>3, <2>4
  <2>. QED
    BY <2>1, <2>2, <2>3, <2>4
<1>5. PICK R : R = InitReports(created, status')
  OBVIOUS
<1>6. \A c \in created \cap Components : Siblings(c) \subseteq created
  BY <1>1, ActivationsWhole
<1>7. \A c \in created : status[c] = "absent" /\ status'[c] # "absent"
  BY <1>1, <1>2, <1>3
<1>8. \A x \in Runtimes \ created :
         status'[x] \in {"faulted", "completed"} => status[x] = status'[x]
  BY <1>3
<1>9. /\ R \in Seq(Emission) /\ FailuresTold(R) /\ DoneTold(R)
      /\ \A k \in 1 .. Len(R) : \E c \in created : R[k].target = Owner[c]
  <2>1. EndsCreatedOnly(created)
    BY <1>6, <1>7, <1>8 DEF EndsCreatedOnly
  <2>. QED
    BY <1>1, <1>5, <2>1, InitReportsTell
<1>10. \A c \in created : Owner[c] = r \/ Owner[c] \in created
  BY DEF CanCreate
<1>11. \A x \in Present : status'[x] # "absent"
  BY <1>1, <1>4 DEF StatusMoves
<1>12. Tells(R)
  BY <1>3, <1>7, <1>9, <1>10 DEF Tells, KnowsTargets
<1>13. \A x \in X : status'[x] # "absent" /\ (x # Root => status'[Owner[x]] # "absent")
  <2>1. \A x \in Present : x # Root => Owner[x] \in Present
    BY OwnerKnown
  <2>2. \A x \in X : x = r \/ x \in created \/ x \in Present
    BY <1>x DEF Authors
  <2>. QED
    BY <1>3, <1>7, <1>10, <1>11, <2>1, <2>2
<1>14. \A c \in Runtimes : status[c] = "running" => status'[c] # "absent"
  BY <1>4 DEF StatusMoves
<1>15. \A a \in AuthorEmissions(X, created) : a.event \notin SystemEvents /\ status'[a.target] # "absent"
  BY <1>7, <1>13, <1>14, AuthorKnows
<1>16. Around(ems, AuthorEmissions(X, created), R)
  BY <1>5, <1>9, <1>x, EmissionsAround
<1>17. Len(R) \in Nat
  BY <1>9, LenProperties
<1>. QED
  BY <1>4, <1>12, <1>15, <1>16, <1>17, AroundTells

\* A creation tells what became of what it created.
LEMMA CreateOutcome == ASSUME TypeOK, OwnershipWellFormed, Create PROVE Outcome
<1>1. NoAggregate
  BY DEF Create
<1>. DEFINE X(created, init) == {Root} \cup {c \in created : init[c] # "faulted"}
<1>2. PICK created \in SUBSET NonRoot :
        \E init \in InitResults(created) :
        \E md \in [Running(created, init) \cup {Root} -> Modes] :
           /\ CanCreate(Root, created, init, md, TRUE)
           /\ \E ems \in Emissions(X(created, init), created,
                                   InitReports(created, After(Root, "running", created, init, {}))) :
                 Commit(-1, "handled", After(Root, "running", created, init, {}), ems, {})
  BY DEF Create
<1>3. PICK init \in InitResults(created) :
        \E md \in [Running(created, init) \cup {Root} -> Modes] :
           /\ CanCreate(Root, created, init, md, TRUE)
           /\ \E ems \in Emissions(X(created, init), created,
                                   InitReports(created, After(Root, "running", created, init, {}))) :
                 Commit(-1, "handled", After(Root, "running", created, init, {}), ems, {})
  BY <1>2
<1>4. PICK md \in [Running(created, init) \cup {Root} -> Modes] :
           /\ CanCreate(Root, created, init, md, TRUE)
           /\ \E ems \in Emissions(X(created, init), created,
                                   InitReports(created, After(Root, "running", created, init, {}))) :
                 Commit(-1, "handled", After(Root, "running", created, init, {}), ems, {})
  BY <1>3
<1>5. PICK st : st = After(Root, "running", created, init, {})
  OBVIOUS
<1>6. PICK ems \in Emissions(X(created, init), created, InitReports(created, st)) :
        Commit(-1, "handled", st, ems, {})
  BY <1>4, <1>5
<1>7. status' = st /\ Len(ems) \in Nat
  BY <1>6, CommitEntries
<1>8. /\ Root \in Runtimes /\ Root \notin created /\ status[Root] = "absent"
      /\ created \in SUBSET {c \in NonRoot : status[c] = "absent"}
  BY <1>1, RootFacts DEF NoAggregate, NonRoot
<1>9. {} \in SUBSET Present /\ Root \notin {} /\ TRUE \in BOOLEAN /\ "absent" \in {"absent", "running"}
  OBVIOUS
<1>10. X(created, init) = Authors(Root, created, init, {})
  BY DEF Authors
<1>11. Tells(ems) /\ StatusMoves
  <2>1. ems \in Emissions(Authors(Root, created, init, {}), created, InitReports(created, status'))
    BY <1>6, <1>7, <1>10
  <2>2. status' = After(Root, "running", created, init, {})
    BY <1>5, <1>7
  <2>3. status[Root] \in {"absent", "running"}
    BY <1>8
  <2>5. CanCreate(Root, created, init, md, TRUE)
    BY <1>4
  <2>6. GoesOn(Root, TRUE, created, init, md, {}, {})
    BY <1>8, <1>9, <2>2, <2>3, <2>5 DEF GoesOn
  <2>. QED
    BY Zenon, <1>7, <2>1, <2>6, TransitionTells
<1>12. -1 \notin DOMAIN box
  BY DEF TypeOK
<1>. QED
  BY <1>6, <1>11, <1>12, CommitOutcome

\* A creation that ends at once tells no owner.
LEMMA CreateEndedOutcome == ASSUME TypeOK, CreateEnded PROVE Outcome
<1>1. \E own \in {"completed", "faulted"} : \E ems : \E st :
        /\ st = [status EXCEPT ![Root] = own]
        /\ Commit(-1, "handled", st, ems, {})
        /\ ems = <<>> \/ ems \in Emissions({Root}, {}, <<>>)
  <2>1. CASE \E ems \in Emissions({Root}, {}, <<>>) :
                Commit(-1, "handled", [status EXCEPT ![Root] = "completed"], ems, {})
    <3>1. PICK ems \in Emissions({Root}, {}, <<>>) :
             Commit(-1, "handled", [status EXCEPT ![Root] = "completed"], ems, {})
      BY <2>1
    <3>2. PICK own, st : own = "completed" /\ st = [status EXCEPT ![Root] = own]
      OBVIOUS
    <3>3. Commit(-1, "handled", st, ems, {}) /\ own \in {"completed", "faulted"}
      BY <3>1, <3>2
    <3>. QED
      BY Zenon, <3>2, <3>3
  <2>2. CASE Commit(-1, "handled", [status EXCEPT ![Root] = "faulted"], <<>>, {})
    <3>1. PICK own, st : own = "faulted" /\ st = [status EXCEPT ![Root] = own]
      OBVIOUS
    <3>2. Commit(-1, "handled", st, <<>>, {}) /\ own \in {"completed", "faulted"}
      BY <2>2, <3>1
    <3>. QED
      BY Zenon, <3>1, <3>2
  <2>. QED
    BY <2>1, <2>2 DEF CreateEnded
<1>2. PICK own \in {"completed", "faulted"} : \E ems : \E st :
        /\ st = [status EXCEPT ![Root] = own]
        /\ Commit(-1, "handled", st, ems, {})
        /\ ems = <<>> \/ ems \in Emissions({Root}, {}, <<>>)
  BY <1>1
<1>e. PICK ems, st :
        /\ st = [status EXCEPT ![Root] = own]
        /\ Commit(-1, "handled", st, ems, {})
        /\ ems = <<>> \/ ems \in Emissions({Root}, {}, <<>>)
  BY <1>2
<1>3. Commit(-1, "handled", st, ems, {}) /\ status' = st /\ Len(ems) \in Nat
  BY <1>e, CommitEntries
<1>4. /\ Root \in Runtimes
      /\ \A x \in Runtimes : status[x] = "absent"
      /\ status'[Root] = own /\ own # "absent"
      /\ \A x \in Runtimes : x # Root => status'[x] = "absent"
  BY <1>e, <1>3, RootFacts DEF CreateEnded, NoAggregate
<1>5. Role[Root] # "spawned"
  BY OwnershipAssumption
<1>6. StatusMoves
  BY <1>4, <1>5 DEF StatusMoves
<1>7. Tells(<<>>)
  <2>1. \A x \in NonRoot : status'[x] \in {"faulted", "completed"} => status[x] = status'[x]
    BY <1>4 DEF NonRoot
  <2>. QED
    BY Zenon, <2>1, NothingTold
<1>8. ASSUME ems \in Emissions({Root}, {}, <<>>) PROVE Tells(ems)
  <2>1. PICK X, created, R : X = {Root} /\ created = {} /\ R = <<>>
    OBVIOUS
  <2>2. R \in Seq(Emission) /\ Len(R) \in Nat /\ ems \in Emissions(X, created, R) /\ Tells(R)
    BY <1>7, <1>8, <2>1
  <2>3. Around(ems, AuthorEmissions(X, created), R)
    BY <2>2, EmissionsAround
  <2>4. /\ \A x \in X : status'[x] # "absent" /\ (x # Root => status'[Owner[x]] # "absent")
        /\ \A c \in created : status'[c] # "absent"
        /\ \A c \in Runtimes : status[c] = "running" => status'[c] # "absent"
    BY <1>4, <2>1
  <2>5. \A a \in AuthorEmissions(X, created) : a.event \notin SystemEvents /\ status'[a.target] # "absent"
    BY <2>4, AuthorKnows
  <2>. QED
    BY <1>3, <2>2, <2>3, <2>5, AroundTells
<1>9. Tells(ems)
  BY <1>e, <1>7, <1>8
<1>10. -1 \notin DOMAIN box
  BY DEF TypeOK
<1>. QED
  BY <1>3, <1>6, <1>9, <1>10, CommitOutcome

\* A fault tells the owner.
LEMMA FaultOutcome ==
    ASSUME TypeOK, OwnershipWellFormed, NEW r \in Runtimes, NEW h, Selects(r, h), Fault(r, h)
    PROVE  Outcome
<1>1. PICK st, ems : /\ st = [status EXCEPT ![r] = "faulted"]
                     /\ ems = IF r = Root THEN <<>> ELSE <<FailureReport(r)>>
  OBVIOUS
<1>2. Commit(h, "faulted", st, ems, {}) /\ status' = st
  <2>1. Commit(h, "faulted", st, ems, {})
    BY <1>1 DEF Fault
  <2>. QED
    BY <2>1, CommitEntries
<1>3. status[r] = "running" /\ r \in Present
  BY DEF Selects, Eligible, Present, PresentIn
<1>4. status'[r] = "faulted" /\ \A x \in Runtimes : x # r => status'[x] = status[x]
  BY <1>1, <1>2 DEF TypeOK
<1>5. StatusMoves
  BY <1>3, <1>4 DEF StatusMoves
<1>6. CASE r = Root
  <2>1. \A x \in NonRoot : status'[x] \in {"faulted", "completed"} => status[x] = status'[x]
    BY <1>4, <1>6 DEF NonRoot
  <2>2. Tells(<<>>)
    BY Zenon, <2>1, NothingTold
  <2>3. Tells(ems)
    BY <1>1, <1>6, <2>2
  <2>. QED
    BY <1>2, <1>5, <2>3, CommitOutcome
<1>7. CASE r # Root
  <2>1. r \in NonRoot /\ status[Owner[r]] # "absent"
    BY <1>3, <1>7, OwnerKnown DEF NonRoot
  <2>2. status' = [status EXCEPT ![r] = "faulted"]
    BY <1>1, <1>2
  <2>3. Tells(<<FailureReport(r)>>)
    BY Zenon, <1>3, <2>1, <2>2, FaultTold
  <2>4. Tells(ems)
    BY <1>1, <1>7, <2>3
  <2>. QED
    BY <1>2, <1>5, <2>4, CommitOutcome
<1>. QED
  BY <1>6, <1>7

\* An unhandled event changes no lifecycle, and is no failure notification.
LEMMA UnhandledOutcome ==
    ASSUME TypeOK, NEW r \in Runtimes, NEW h \in DOMAIN box, StepUnhandled(r, h)
    PROVE  Outcome
<1>1. PICK ems : ems = <<>>
  OBVIOUS
<1>2. /\ Commit(h, "unhandled", status, ems, {})
      /\ box[h].event \notin FailureEvents
  BY <1>1 DEF StepUnhandled
<1>3. status' = status
  BY <1>2, CommitEntries
<1>4. Tells(ems)
  <2>1. \A x \in NonRoot : status'[x] \in {"faulted", "completed"} => status[x] = status'[x]
    BY <1>3
  <2>2. Tells(<<>>)
    BY Zenon, <2>1, NothingTold
  <2>. QED
    BY <1>1, <2>2
<1>5. StatusMoves
  BY <1>3, QuietMoves
<1>. QED
  BY <1>2, <1>4, <1>5, CommitOutcome

\* A handled step tells what became of what it created.
LEMMA HandledOutcome ==
    ASSUME TypeOK, OwnershipWellFormed, NEW r \in Runtimes, NEW h \in DOMAIN box, StepHandled(r, h)
    PROVE  Outcome
<1>1. PICK leaves \in BOOLEAN, tops \in SUBSET Cancellable(r),
           created \in SUBSET {c \in Descendants(r) : status[c] = "absent"} :
           \E init \in InitResults(created) :
           \E md \in [Running(created, init) \cup {r} -> Modes] :
              Transition(r, h, leaves, tops, created, init, md)
  BY Zenon, HandledParts
<1>2. PICK init \in InitResults(created) :
           \E md \in [Running(created, init) \cup {r} -> Modes] :
              Transition(r, h, leaves, tops, created, init, md)
  BY <1>1
<1>3. PICK md \in [Running(created, init) \cup {r} -> Modes] :
              Transition(r, h, leaves, tops, created, init, md)
  BY <1>2
<1>4. PICK removed, exits, st, X, S :
         /\ removed = Removed(r, tops, leaves)
         /\ exits = ExitSenders(removed)
         /\ st = After(r, "running", created, init, removed)
         /\ X = Authors(r, created, init, exits)
         /\ S = Recalled(r, md[r])
  OBVIOUS
<1>5. /\ CanCreate(r, created, init, md, leaves)
      /\ \E ems \in Emissions(X, created, InitReports(created, st)) : Commit(h, "handled", st, ems, S)
  BY <1>3, <1>4 DEF Transition, Authors
<1>6. PICK ems \in Emissions(X, created, InitReports(created, st)) : Commit(h, "handled", st, ems, S)
  BY <1>5
<1>7. status' = st /\ Len(ems) \in Nat
  BY <1>6, CommitEntries
<1>8. status[r] \in {"absent", "running"}
  BY DEF StepHandled, Selects, Eligible
<1>r. r = Root \/ r \in Present
  BY DEF StepHandled, Selects, Eligible, Present, PresentIn
<1>9. r \notin created /\ created \in SUBSET {c \in NonRoot : status[c] = "absent"}
  BY SubtreeFacts, RootFacts DEF NonRoot
<1>10. removed \in SUBSET Present /\ r \notin removed
  <2>1. CleansUp(r, leaves, removed)
    BY Zenon, <1>4, RemovedFacts
  <2>. QED
    BY <2>1 DEF CleansUp
<1>11. exits \in SUBSET Present
  BY <1>4, <1>10 DEF ExitSenders
<1>12. Tells(ems) /\ StatusMoves
  <2>1. ems \in Emissions(Authors(r, created, init, exits), created, InitReports(created, status'))
    BY <1>4, <1>6, <1>7
  <2>2. status' = After(r, "running", created, init, removed)
    BY <1>4, <1>7
  <2>4. CanCreate(r, created, init, md, leaves)
    BY <1>5
  <2>5. Len(ems) \in Nat
    BY <1>7
  <2>6. r \notin removed /\ removed \in SUBSET Present
    BY <1>10
  <2>7. GoesOn(r, leaves, created, init, md, removed, exits)
    BY <1>8, <1>r, <1>9, <1>11, <2>2, <2>4, <2>6 DEF GoesOn
  <2>. QED
    BY Zenon, <2>1, <2>5, <2>7, TransitionTells
<1>. QED
  BY <1>6, <1>12, CommitOutcome

\* A completion tells the owner.
LEMMA CompletedOutcome ==
    ASSUME TypeOK, OwnershipWellFormed, NEW r \in Runtimes, NEW h \in DOMAIN box, StepCompleted(r, h)
    PROVE  Outcome
<1>1. PICK removed, own, st, X, created :
         /\ removed = Present \cap Descendants(r)
         /\ own = IF Role[r] = "spawned" THEN "removed" ELSE "completed"
         /\ st = After(r, own, {}, <<>>, removed)
         /\ X = {r} \cup ExitSenders(removed)
         /\ created = {}
  OBVIOUS
<1>2. PICK author \in BoundedSeq(AuthorEmissions(X, created), MaxSend) :
         Commit(h, "handled", st, author \o OwnReports(r, st), {})
  BY <1>1 DEF StepCompleted
<1>3. PICK R, ems : R = OwnReports(r, st) /\ ems = author \o R
  OBVIOUS
<1>4. Commit(h, "handled", st, ems, {}) /\ status' = st /\ Len(ems) \in Nat
  <2>1. Commit(h, "handled", st, ems, {})
    BY <1>2, <1>3
  <2>. QED
    BY <2>1, CommitEntries
<1>5. status[r] = "running" /\ r \in Present
  BY DEF StepCompleted, Selects, Eligible, Present, PresentIn
<1>6. removed \in SUBSET Present /\ r \notin removed
  BY <1>1 DEF Descendants
<1>7. /\ status'[r] = own
      /\ \A x \in removed : status'[x] = "removed"
      /\ \A x \in Runtimes \ ({r} \cup removed) : status'[x] = status[x]
  BY <1>1, <1>4, <1>6 DEF After, Present, PresentIn
<1>8. StatusMoves
  <2>. SUFFICES ASSUME NEW x \in Runtimes
                PROVE  /\ status[x] = "removed" => status'[x] = "removed"
                       /\ status[x] = "completed" => status'[x] \in {"completed", "removed"}
                       /\ status[x] = "faulted" => status'[x] \in {"faulted", "removed"}
                       /\ status[x] # "absent" => status'[x] # "absent"
                       /\ Role[x] = "spawned" /\ status[x] # "completed" => status'[x] # "completed"
    BY DEF StatusMoves
  <2>1. CASE x = r
    BY <1>1, <1>5, <1>7, <2>1
  <2>2. CASE x \in removed
    BY <1>6, <1>7, <2>2 DEF Present, PresentIn
  <2>3. CASE x \notin {r} \cup removed
    BY <1>7, <2>3
  <2>. QED
    BY <2>1, <2>2, <2>3
<1>9. \A x \in Present : status'[x] # "absent" /\ (x # Root => status'[Owner[x]] # "absent")
  <2>1. \A x \in Present : x \in Runtimes /\ status[x] # "absent"
    BY DEF Present, PresentIn
  <2>2. \A x \in Present : x # Root => Owner[x] \in Present
    BY OwnerKnown
  <2>. QED
    BY <1>8, <2>1, <2>2 DEF StatusMoves
<1>10. R \in Seq(Emission) /\ Tells(R)
  <2>1. status'[r] = IF Role[r] = "spawned" THEN "removed" ELSE "completed"
    BY <1>1, <1>7
  <2>2. \A x \in Runtimes : x # r /\ status'[x] \in {"faulted", "completed"} => status[x] = status'[x]
    BY <1>7
  <2>3. r # Root => status'[Owner[r]] # "absent"
    BY <1>5, <1>9
  <2>4. R = OwnReports(r, status')
    BY <1>3, <1>4
  <2>. QED
    BY Zenon, <1>5, <2>1, <2>2, <2>3, <2>4, CompletionTold
<1>11. author \in Seq(AuthorEmissions(X, created))
  BY Zenon, AuthorWrites
<1>12. Around(ems, AuthorEmissions(X, created), R)
  BY <1>3, <1>10, <1>11, AroundSides
<1>13. /\ \A x \in X : status'[x] # "absent" /\ (x # Root => status'[Owner[x]] # "absent")
       /\ \A c \in created : status'[c] # "absent"
       /\ \A c \in Runtimes : status[c] = "running" => status'[c] # "absent"
  <2>1. X \subseteq Present
    BY <1>1, <1>5, <1>6 DEF ExitSenders
  <2>. QED
    BY <1>1, <1>8, <1>9, <2>1 DEF StatusMoves
<1>14. \A a \in AuthorEmissions(X, created) : a.event \notin SystemEvents /\ status'[a.target] # "absent"
  BY <1>13, AuthorKnows
<1>15. Len(R) \in Nat
  BY <1>10, LenProperties
<1>16. Tells(ems)
  BY <1>4, <1>10, <1>12, <1>14, <1>15, AroundTells
<1>. QED
  BY <1>4, <1>8, <1>16, CommitOutcome

-----------------------------------------------------------------------------
(* What the entries of an aggregate say of its lifecycles.                 *)

Persists(a) ==
    /\ a \in DOMAIN box' /\ box'[a].event = box[a].event
    /\ box'[a].target = box[a].target /\ box'[a].subject = box[a].subject

\* An admission or a deferral: no lifecycle moves and no notification is added.
Quiet ==
    /\ status' = status
    /\ \A a \in DOMAIN box : Persists(a) /\ box'[a].place \in {box[a].place, "deferred"}
    /\ \A a \in DOMAIN box' \ DOMAIN box :
          box'[a].event \notin SystemEvents /\ box'[a].place = "ready"

\* A commit: what was accepted stays, and is processed, recalled or disposed of.
Moves ==
    /\ status' \in [Runtimes -> Status] /\ status[Root] # "completed"
    /\ \A a \in DOMAIN box :
          /\ Persists(a)
          /\ \/ box'[a].place \in {box[a].place, "ready", "handled", "unhandled", "faulted"}
             \/ /\ Ended(box[a].target, status')
                /\ box'[a].place = DisposalReason(box[a].target, status')

\* Every commit does that to the entries.
LEMMA CommitMoves == ASSUME TypeOK, CommitStep PROVE Moves
<1>1. PICK h, fate, ems, S : CommitShape(h, fate, ems, S)
  BY CommitStepShape
<1>2. /\ status' \in [Runtimes -> Status] /\ Takes(h, fate, S)
      /\ \A a \in DOMAIN box : Turns(a, h, fate, Len(ems), S)
  BY <1>1 DEF CommitShape
<1>3. status[Root] # "completed" /\ fate \in {"handled", "unhandled", "faulted"}
  BY <1>2, RootFacts DEF Takes, NoAggregate
<1>4. ASSUME NEW a \in DOMAIN box
      PROVE  /\ Persists(a)
             /\ \/ box'[a].place \in {box[a].place, "ready", "handled", "unhandled", "faulted"}
                \/ /\ Ended(box[a].target, status')
                   /\ box'[a].place = DisposalReason(box[a].target, status')
  <2>1. Turns(a, h, fate, Len(ems), S)
    BY <1>2
  <2>2. Persists(a)
    BY <2>1 DEF Turns, Persists
  <2>3. CASE a = h
    BY <1>3, <2>1, <2>2, <2>3 DEF Turns
  <2>4. CASE a \in S
    BY <2>1, <2>2, <2>4 DEF Turns
  <2>5. CASE a # h /\ a \notin S /\ a \in Pending /\ Ended(box[a].target, status')
    BY <2>1, <2>2, <2>5 DEF Turns
  <2>6. CASE a # h /\ a \notin S /\ ~(a \in Pending /\ Ended(box[a].target, status'))
    BY <2>1, <2>2, <2>6 DEF Turns
  <2>. QED
    BY <2>3, <2>4, <2>5, <2>6
<1>. QED
  BY <1>2, <1>3, <1>4 DEF Moves

\* An admission is quiet: the system's events are in no alphabet of a host.
LEMMA AdmitQuiet == ASSUME TypeOK, NEW batch \in Batches, Admit(batch) PROVE Quiet
<1>1. /\ status' = status
      /\ \A a \in DOMAIN box : a \in DOMAIN box' /\ box'[a] = box[a]
  BY AdmitPlaces
<1>2. ASSUME NEW a \in DOMAIN box' \ DOMAIN box
      PROVE  box'[a].event \notin SystemEvents /\ box'[a].place = "ready"
  <2>1. PICK i \in 1 .. Len(batch) :
          batch[i] \in Delivery /\ box'[a].event = batch[i].event /\ box'[a].place = "ready"
    BY AdmitEntries
  <2>2. batch[i].event \in InputEvents \cup InternalEvents
    BY <2>1 DEF Delivery
  <2>. QED
    BY <2>1, <2>2, MailboxAssumption
<1>. QED
  BY <1>1, <1>2 DEF Quiet, Persists

\* A deferral is quiet.
LEMMA DeferQuiet ==
    ASSUME TypeOK, NEW r \in Runtimes, NEW h \in DOMAIN box, StepDeferred(r, h)
    PROVE  Quiet
<1>1. /\ status' = status /\ DOMAIN box' = DOMAIN box
      /\ \A a \in DOMAIN box : box'[a].target = box[a].target /\ box'[a].event = box[a].event
      /\ \A a \in DOMAIN box : a # h => box'[a] = box[a]
      /\ box'[h].place = "deferred"
  BY StepDeferredEntries
<1>2. box'[h].subject = box[h].subject
  <2>1. PICK n : n = box[h].deferrals + 1
    OBVIOUS
  <2>2. box[h] \in Entry /\ box'[h] = [box[h] EXCEPT !.place = "deferred", !.queue = nextQueue, !.deferrals = n]
    BY <2>1 DEF StepDeferred, TypeOK
  <2>. QED
    BY <2>2 DEF Entry
<1>. QED
  BY <1>1, <1>2 DEF Quiet, Persists

\* Every step is quiet, or a commit that tells what it did to lifecycles.
LEMMA NextOutcome ==
    ASSUME TypeOK, OwnershipWellFormed, [Next]_vars
    PROVE  Quiet \/ (Moves /\ Outcome)
<1>1. CASE Create
  BY <1>1, CreateCommits, CommitMoves, CreateOutcome
<1>2. CASE CreateEnded
  BY <1>2, CreateEndedCommits, CommitMoves, CreateEndedOutcome
<1>3. CASE \E batch \in Batches : Admit(batch)
  BY <1>3, AdmitQuiet
<1>4. ASSUME NEW r \in Runtimes, NEW h \in DOMAIN box, Step(r, h)
      PROVE  Quiet \/ (Moves /\ Outcome)
  <2>1. CASE StepUnhandled(r, h)
    BY <2>1, StepUnhandledCommits, CommitMoves, UnhandledOutcome
  <2>2. CASE StepOverflow(r, h)
    BY <2>2, FaultCommits, CommitMoves, FaultOutcome DEF StepOverflow
  <2>3. CASE StepFaulted(r, h)
    BY <2>3, FaultCommits, CommitMoves, FaultOutcome DEF StepFaulted
  <2>4. CASE StepHandled(r, h)
    BY <2>4, StepHandledCommits, CommitMoves, HandledOutcome
  <2>5. CASE StepCompleted(r, h)
    BY <2>5, StepCompletedCommits, CommitMoves, CompletedOutcome
  <2>6. CASE StepDeferred(r, h)
    BY <2>6, DeferQuiet
  <2>. QED
    BY <1>4, <2>1, <2>2, <2>3, <2>4, <2>5, <2>6 DEF Step
<1>5. CASE UNCHANGED vars
  BY <1>5 DEF vars, Quiet, Persists
<1>. QED
  BY <1>1, <1>2, <1>3, <1>4, <1>5 DEF Next

-----------------------------------------------------------------------------
(* Reasons of disposal.                                                    *)

\* A spawned runtime that completes is dropped.
SpawnedGo == \A x \in Spawned : status[x] # "completed"

\* No step makes the reason of a disposition untrue.
LEMMA NextKeepsReasons ==
    TypeOK /\ OwnershipWellFormed /\ TypeOK' /\ SpawnedGo /\ DispositionJustified /\ [Next]_vars
    => SpawnedGo' /\ DispositionJustified'
<1>. SUFFICES ASSUME TypeOK, OwnershipWellFormed, TypeOK', SpawnedGo, DispositionJustified, [Next]_vars
              PROVE  SpawnedGo' /\ DispositionJustified'
  OBVIOUS
<1>1. Quiet \/ (Moves /\ Outcome)
  BY NextOutcome
<1>2. \A a \in DOMAIN box : box[a] \in Entry /\ box[a].target \in Runtimes
  BY DEF TypeOK, Entry
<1>3. CASE Quiet
  <2>1. SpawnedGo'
    BY <1>3 DEF Quiet, SpawnedGo
  <2>2. ASSUME NEW a \in DOMAIN box'
        PROVE  /\ box'[a].place = "aggregate_completed" => status'[Root] = "completed"
               /\ box'[a].place = "runtime_completed" =>
                     Role[box'[a].target] = "component" /\ status'[box'[a].target] \in {"completed", "removed"}
               /\ box'[a].place = "runtime_cancelled" => status'[box'[a].target] = "removed"
    <3>1. CASE a \in DOMAIN box
      BY <1>3, <3>1 DEF Quiet, Persists, DispositionJustified
    <3>2. CASE a \notin DOMAIN box
      BY <1>3, <3>2 DEF Quiet
    <3>. QED
      BY <3>1, <3>2
  <2>. QED
    BY <2>1, <2>2 DEF DispositionJustified
<1>4. CASE Moves /\ Outcome
  <2>1. StatusMoves /\ \E ems : Adds(ems) /\ Tells(ems)
    BY <1>4 DEF Outcome
  <2>2. SpawnedGo'
    BY <2>1 DEF StatusMoves, SpawnedGo, Spawned
  <2>3. status[Root] # "completed" /\ \A x \in Runtimes : status'[x] \in Status
    BY <1>4 DEF Moves
  <2>4. \A x \in Runtimes : x # Root /\ status'[x] = "completed" => Role[x] = "component"
    BY <2>2, OwnershipAssumption DEF SpawnedGo, Spawned
  <2>5. ASSUME NEW a \in DOMAIN box'
        PROVE  /\ box'[a].place = "aggregate_completed" => status'[Root] = "completed"
               /\ box'[a].place = "runtime_completed" =>
                     Role[box'[a].target] = "component" /\ status'[box'[a].target] \in {"completed", "removed"}
               /\ box'[a].place = "runtime_cancelled" => status'[box'[a].target] = "removed"
    <3>1. CASE a \in DOMAIN box
      <4>1. PICK t : t = box[a].target /\ t = box'[a].target /\ t \in Runtimes
        BY <1>2, <1>4, <3>1 DEF Moves, Persists
      <4>2. CASE box'[a].place = box[a].place
        <5>1. /\ box'[a].place = "aggregate_completed" => status[Root] = "completed"
              /\ box'[a].place = "runtime_completed" =>
                     Role[t] = "component" /\ status[t] \in {"completed", "removed"}
              /\ box'[a].place = "runtime_cancelled" => status[t] = "removed"
          BY <3>1, <4>1, <4>2 DEF DispositionJustified
        <5>2. status[t] \in {"completed", "removed"} => status'[t] \in {"completed", "removed"}
          BY <2>1, <4>1 DEF StatusMoves
        <5>3. status[t] = "removed" => status'[t] = "removed"
          BY <2>1, <4>1 DEF StatusMoves
        <5>. QED
          BY <2>3, <4>1, <5>1, <5>2, <5>3
      <4>3. CASE box'[a].place \in {"ready", "handled", "unhandled", "faulted"}
        BY <4>3
      <4>4. CASE Ended(t, status') /\ box'[a].place = DisposalReason(t, status')
        <5>1. status'[Root] # "completed" => t # Root \/ status'[t] = "removed"
          BY <4>4 DEF Ended
        <5>. QED
          BY <2>4, <4>1, <4>4, <5>1 DEF Ended, DisposalReason
      <4>. QED
        BY <1>4, <3>1, <4>1, <4>2, <4>3, <4>4 DEF Moves
    <3>2. CASE a \notin DOMAIN box
      <4>1. PICK ems : Adds(ems) /\ Tells(ems)
        BY <2>1
      <4>2. PICK k \in 1 .. Len(ems) : a = nextAcceptance + k - 1
        BY <3>2, <4>1 DEF Adds
      <4>3. PICK t : t = ems[k].target
        OBVIOUS
      <4>4. box'[a].target = t /\ box'[a].place = EmissionPlace(t, status')
        BY <4>1, <4>2, <4>3 DEF Adds
      <4>5. t \in Runtimes
        BY <4>4 DEF TypeOK, Entry
      <4>6. status'[t] # "absent"
        BY <4>1, <4>2, <4>3 DEF Tells, KnowsTargets
      <4>7. t \notin PresentIn(status') => status'[t] = "removed"
        BY <2>3, <4>5, <4>6 DEF PresentIn, Status
      <4>. QED
        BY <2>4, <4>4, <4>5, <4>7 DEF EmissionPlace
    <3>. QED
      BY <3>1, <3>2
  <2>. QED
    BY <2>2, <2>5 DEF DispositionJustified
<1>. QED
  BY <1>1, <1>3, <1>4

\* The reason an unprocessed delivery is given is true and stays true, whether it
\* was waiting when its target ended or was sent to one that had ended
\* (queueing.py:645, queueing.py:658).
THEOREM DispositionAlwaysJustified == Spec => []DispositionJustified
<1>1. Init => SpawnedGo /\ DispositionJustified
  <2>. SUFFICES ASSUME Init PROVE SpawnedGo /\ DispositionJustified
    OBVIOUS
  <2>1. \A x \in Runtimes : status[x] = "absent"
    BY DEF Init, NoAggregate
  <2>2. DOMAIN box = {}
    BY DEF Init
  <2>. QED
    BY <2>1, <2>2 DEF SpawnedGo, Spawned, DispositionJustified
<1>2. /\ Inv /\ Inv' /\ OwnershipWellFormed /\ SpawnedGo /\ DispositionJustified /\ [Next]_vars
      => SpawnedGo' /\ DispositionJustified'
  BY NextKeepsReasons DEF Inv
<1>. QED
  BY <1>1, <1>2, InvAlways, OwnershipAlwaysWellFormed, PTL DEF Spec

-----------------------------------------------------------------------------
(* Notifications.                                                          *)

\* The entry at a tells a failure of c; it tells that the activation of c is done.
TellsFailure(a, c) == box[a].event \in FailureEvents /\ box[a].subject = c
TellsDone(a, c) == box[a].event = "done" /\ box[a].subject \in Siblings(c)

\* A runtime of which a failure is told has faulted, and no second one is told.
FailuresSettled ==
    \A c \in NonRoot :
       /\ \A a, b \in DOMAIN box : TellsFailure(a, c) /\ TellsFailure(b, c) => a = b
       /\ \A a \in DOMAIN box : TellsFailure(a, c) =>
             /\ status[c] \in {"faulted", "removed"}
             /\ box[a].target = Owner[c] /\ box[a].place # "unhandled"
       /\ status[c] = "faulted" => \E a \in DOMAIN box : TellsFailure(a, c)

\* Once an activation is told to be done its components never run again.
DoneSettled ==
    \A c \in Components :
       /\ \A a, b \in DOMAIN box : TellsDone(a, c) /\ TellsDone(b, c) => a = b
       /\ \A a \in DOMAIN box : TellsDone(a, c) =>
             \A d \in Siblings(c) : status[d] \in {"completed", "removed"}
       /\ (\A d \in Siblings(c) : status[d] = "completed") =>
             \E a \in DOMAIN box : TellsDone(a, c)

\* A quiet step tells nothing and keeps what was told.
LEMMA QuietTells ==
    ASSUME Quiet
    PROVE  /\ \A a \in DOMAIN box : \A c :
                 (TellsFailure(a, c)' <=> TellsFailure(a, c)) /\ (TellsDone(a, c)' <=> TellsDone(a, c))
           /\ \A a \in DOMAIN box' \ DOMAIN box : \A c : ~TellsFailure(a, c)' /\ ~TellsDone(a, c)'
<1>1. FailureEvents \subseteq SystemEvents /\ "done" \in SystemEvents
  BY DEF SystemEvents
<1>. QED
  BY <1>1 DEF Quiet, Persists, TellsFailure, TellsDone

\* A commit keeps what was told and adds what it tells.
LEMMA CommitTells ==
    ASSUME Moves, NEW ems, Adds(ems)
    PROVE  /\ DOMAIN box \subseteq DOMAIN box'
           /\ \A a \in DOMAIN box : \A c :
                 (TellsFailure(a, c)' <=> TellsFailure(a, c)) /\ (TellsDone(a, c)' <=> TellsDone(a, c))
           /\ \A a \in DOMAIN box' \ DOMAIN box : \E k \in 1 .. Len(ems) :
                 /\ a = nextAcceptance + k - 1
                 /\ box'[a].target = ems[k].target
                 /\ box'[a].place = EmissionPlace(ems[k].target, status')
                 /\ \A c : /\ TellsFailure(a, c)' <=> ems[k].event \in FailureEvents /\ ems[k].subject = c
                           /\ TellsDone(a, c)' <=> ems[k].event = "done" /\ ems[k].subject \in Siblings(c)
           /\ \A k \in 1 .. Len(ems) : \E a \in DOMAIN box' :
                 \A c : /\ TellsFailure(a, c)' <=> ems[k].event \in FailureEvents /\ ems[k].subject = c
                        /\ TellsDone(a, c)' <=> ems[k].event = "done" /\ ems[k].subject \in Siblings(c)
<1>1. /\ DOMAIN box \subseteq DOMAIN box'
      /\ \A a \in DOMAIN box : \A c :
                 (TellsFailure(a, c)' <=> TellsFailure(a, c)) /\ (TellsDone(a, c)' <=> TellsDone(a, c))
  BY DEF Moves, Persists, TellsFailure, TellsDone
<1>2. ASSUME NEW k \in 1 .. Len(ems), NEW a, a = nextAcceptance + k - 1
      PROVE  /\ a \in DOMAIN box' \ DOMAIN box
             /\ box'[a].target = ems[k].target
             /\ box'[a].place = EmissionPlace(ems[k].target, status')
             /\ \A c : /\ TellsFailure(a, c)' <=> ems[k].event \in FailureEvents /\ ems[k].subject = c
                       /\ TellsDone(a, c)' <=> ems[k].event = "done" /\ ems[k].subject \in Siblings(c)
  BY <1>2 DEF Adds, TellsFailure, TellsDone
<1>3. \A a \in DOMAIN box' \ DOMAIN box : \E k \in 1 .. Len(ems) : a = nextAcceptance + k - 1
  BY DEF Adds
<1>. QED
  BY <1>1, <1>2, <1>3

\* No step tells a failure twice, none that did not happen, and misses none.
LEMMA NextKeepsFailures ==
    TypeOK /\ OwnershipWellFormed /\ FailuresSettled /\ [Next]_vars => FailuresSettled'
<1>. SUFFICES ASSUME TypeOK, OwnershipWellFormed, FailuresSettled, [Next]_vars PROVE FailuresSettled'
  OBVIOUS
<1>1. Quiet \/ (Moves /\ Outcome)
  BY NextOutcome
<1>2. SUFFICES ASSUME NEW c \in NonRoot
               PROVE  /\ \A a, b \in DOMAIN box' : TellsFailure(a, c)' /\ TellsFailure(b, c)' => a = b
                      /\ \A a \in DOMAIN box' : TellsFailure(a, c)' =>
                            /\ status'[c] \in {"faulted", "removed"}
                            /\ box'[a].target = Owner[c] /\ box'[a].place # "unhandled"
                      /\ status'[c] = "faulted" => \E a \in DOMAIN box' : TellsFailure(a, c)'
  BY DEF FailuresSettled
<1>3. c \in Runtimes
  BY DEF NonRoot
<1>4. /\ \A a, b \in DOMAIN box : TellsFailure(a, c) /\ TellsFailure(b, c) => a = b
      /\ \A a \in DOMAIN box : TellsFailure(a, c) =>
            /\ status[c] \in {"faulted", "removed"}
            /\ box[a].target = Owner[c] /\ box[a].place # "unhandled"
      /\ status[c] = "faulted" => \E a \in DOMAIN box : TellsFailure(a, c)
  BY DEF FailuresSettled
<1>5. CASE Quiet
  <2>1. /\ \A a \in DOMAIN box : TellsFailure(a, c)' <=> TellsFailure(a, c)
        /\ \A a \in DOMAIN box' : TellsFailure(a, c)' => a \in DOMAIN box
    BY <1>5, QuietTells
  <2>2. /\ status' = status
        /\ \A a \in DOMAIN box : /\ a \in DOMAIN box' /\ box'[a].target = box[a].target
                                 /\ box'[a].place \in {box[a].place, "deferred"}
    BY <1>5 DEF Quiet, Persists
  <2>. QED
    BY <1>4, <2>1, <2>2
<1>6. CASE Moves /\ Outcome
  <2>1. PICK ems : Adds(ems) /\ Tells(ems)
    BY <1>6 DEF Outcome
  <2>2. /\ DOMAIN box \subseteq DOMAIN box'
        /\ \A a \in DOMAIN box : TellsFailure(a, c)' <=> TellsFailure(a, c)
        /\ \A a \in DOMAIN box' \ DOMAIN box : \E k \in 1 .. Len(ems) :
              /\ a = nextAcceptance + k - 1
              /\ box'[a].target = ems[k].target
              /\ box'[a].place = EmissionPlace(ems[k].target, status')
              /\ TellsFailure(a, c)' <=> ems[k].event \in FailureEvents /\ ems[k].subject = c
        /\ \A k \in 1 .. Len(ems) : \E a \in DOMAIN box' :
              TellsFailure(a, c)' <=> ems[k].event \in FailureEvents /\ ems[k].subject = c
    <3>1. /\ DOMAIN box \subseteq DOMAIN box'
          /\ \A a \in DOMAIN box : TellsFailure(a, c)' <=> TellsFailure(a, c)
      BY <1>6, <2>1, CommitTells
    <3>2. \A a \in DOMAIN box' \ DOMAIN box : \E k \in 1 .. Len(ems) :
              /\ a = nextAcceptance + k - 1
              /\ box'[a].target = ems[k].target
              /\ box'[a].place = EmissionPlace(ems[k].target, status')
              /\ TellsFailure(a, c)' <=> ems[k].event \in FailureEvents /\ ems[k].subject = c
      BY <1>6, <2>1, CommitTells
    <3>3. \A k \in 1 .. Len(ems) : \E a \in DOMAIN box' :
              TellsFailure(a, c)' <=> ems[k].event \in FailureEvents /\ ems[k].subject = c
      BY <1>6, <2>1, CommitTells
    <3>. QED
      BY <3>1, <3>2, <3>3
  <2>3. /\ \A k \in 1 .. Len(ems) : ems[k].event \in FailureEvents /\ ems[k].subject = c =>
              /\ ems[k].target = Owner[c]
              /\ status[c] \notin {"faulted", "removed"} /\ status'[c] = "faulted"
        /\ \A k, l \in 1 .. Len(ems) :
              /\ ems[k].event \in FailureEvents /\ ems[k].subject = c
              /\ ems[l].event \in FailureEvents /\ ems[l].subject = c
              => k = l
        /\ status[c] # "faulted" /\ status'[c] = "faulted" =>
              \E k \in 1 .. Len(ems) : ems[k].event \in FailureEvents /\ ems[k].subject = c
    BY <2>1 DEF Tells, FailuresTold
  <2>4. /\ status[c] = "removed" => status'[c] = "removed"
        /\ status[c] = "faulted" => status'[c] \in {"faulted", "removed"}
    BY <1>3, <1>6 DEF Outcome, StatusMoves
  <2>5. ASSUME NEW a \in DOMAIN box', TellsFailure(a, c)', a \notin DOMAIN box
        PROVE  \E k \in 1 .. Len(ems) :
                  /\ a = nextAcceptance + k - 1
                  /\ ems[k].event \in FailureEvents /\ ems[k].subject = c
                  /\ box'[a].target = ems[k].target
                  /\ box'[a].place = EmissionPlace(ems[k].target, status')
    BY <2>2, <2>5
  <2>6. ASSUME NEW a \in DOMAIN box', NEW b \in DOMAIN box', TellsFailure(a, c)', TellsFailure(b, c)'
        PROVE  a = b
    <3>1. CASE a \in DOMAIN box /\ b \in DOMAIN box
      BY <1>4, <2>2, <2>6, <3>1
    <3>2. CASE a \notin DOMAIN box /\ b \notin DOMAIN box
      BY <2>3, <2>5, <2>6, <3>2
    <3>3. CASE a \in DOMAIN box <=> b \notin DOMAIN box
      <4>1. status[c] \in {"faulted", "removed"}
        BY <1>4, <2>2, <2>6, <3>3
      <4>2. \E k \in 1 .. Len(ems) : ems[k].event \in FailureEvents /\ ems[k].subject = c
        BY <2>5, <2>6, <3>3
      <4>. QED
        BY <2>3, <4>1, <4>2
    <3>. QED
      BY <3>1, <3>2, <3>3
  <2>7. ASSUME NEW a \in DOMAIN box', TellsFailure(a, c)'
        PROVE  /\ status'[c] \in {"faulted", "removed"}
               /\ box'[a].target = Owner[c] /\ box'[a].place # "unhandled"
    <3>1. CASE a \in DOMAIN box
      <4>1. status[c] \in {"faulted", "removed"} /\ box[a].target = Owner[c] /\ box[a].place # "unhandled"
        BY <1>4, <2>2, <2>7, <3>1
      <4>2. box[a].event \in FailureEvents
        BY <2>2, <2>7, <3>1 DEF TellsFailure
      <4>3. box'[a].target = box[a].target /\ box'[a].place # "unhandled"
        BY <1>6, <3>1, <4>1, <4>2 DEF Moves, Persists, Outcome, KeepsFailures
      <4>. QED
        BY <2>4, <4>1, <4>3
    <3>2. CASE a \notin DOMAIN box
      <4>1. PICK k \in 1 .. Len(ems) :
                  /\ ems[k].event \in FailureEvents /\ ems[k].subject = c
                  /\ box'[a].target = ems[k].target
                  /\ box'[a].place = EmissionPlace(ems[k].target, status')
        BY <2>5, <2>7, <3>2
      <4>2. EmissionPlace(ems[k].target, status') # "unhandled"
        BY DEF EmissionPlace
      <4>. QED
        BY <2>3, <4>1, <4>2
    <3>. QED
      BY <3>1, <3>2
  <2>8. ASSUME status'[c] = "faulted" PROVE \E a \in DOMAIN box' : TellsFailure(a, c)'
    <3>1. CASE status[c] = "faulted"
      BY <1>4, <2>2, <3>1
    <3>2. CASE status[c] # "faulted"
      <4>1. PICK k \in 1 .. Len(ems) : ems[k].event \in FailureEvents /\ ems[k].subject = c
        BY <2>3, <2>8, <3>2
      <4>. QED
        BY <2>2, <4>1
    <3>. QED
      BY <3>1, <3>2
  <2>. QED
    BY <2>6, <2>7, <2>8
<1>. QED
  BY <1>1, <1>5, <1>6

\* A contained fault is reported to the owner exactly once, whichever step it
\* comes of, and its report is not dropped as unhandled (engine.py:1687,
\* engine.py:1934, engine.py:2829).
THEOREM ContainedFaultsAlwaysReported == Spec => []ContainedFaultsReported
<1>1. Init => FailuresSettled
  <2>. SUFFICES ASSUME Init PROVE FailuresSettled
    OBVIOUS
  <2>1. \A x \in Runtimes : status[x] = "absent"
    BY DEF Init, NoAggregate
  <2>2. DOMAIN box = {}
    BY DEF Init
  <2>. QED
    BY <2>1, <2>2 DEF FailuresSettled, NonRoot
<1>2. Inv /\ OwnershipWellFormed /\ FailuresSettled /\ [Next]_vars => FailuresSettled'
  BY NextKeepsFailures DEF Inv
<1>3. FailuresSettled => ContainedFaultsReported
  <2>. SUFFICES ASSUME FailuresSettled, NEW c \in NonRoot
                PROVE  /\ status[c] = "faulted" => Cardinality(FailureReportsOf(c)) = 1
                       /\ \A a \in FailureReportsOf(c) : box[a].target = Owner[c] /\ box[a].place # "unhandled"
    BY DEF ContainedFaultsReported
  <2>1. \A a : a \in FailureReportsOf(c) <=> a \in DOMAIN box /\ TellsFailure(a, c)
    BY DEF FailureReportsOf, TellsFailure
  <2>2. ASSUME status[c] = "faulted" PROVE Cardinality(FailureReportsOf(c)) = 1
    <3>1. PICK a \in DOMAIN box : TellsFailure(a, c)
      BY <2>2 DEF FailuresSettled
    <3>2. FailureReportsOf(c) = {a}
      BY <2>1, <3>1 DEF FailuresSettled
    <3>. QED
      BY <3>2, FS_Singleton
  <2>. QED
    BY <2>1, <2>2 DEF FailuresSettled
<1>. QED
  BY <1>1, <1>2, <1>3, InvAlways, OwnershipAlwaysWellFormed, PTL DEF Spec

\* No step tells twice that an activation is done, nor too early, nor never.
LEMMA NextKeepsDone ==
    TypeOK /\ OwnershipWellFormed /\ DoneSettled /\ [Next]_vars => DoneSettled'
<1>. SUFFICES ASSUME TypeOK, OwnershipWellFormed, DoneSettled, [Next]_vars PROVE DoneSettled'
  OBVIOUS
<1>1. Quiet \/ (Moves /\ Outcome)
  BY NextOutcome
<1>2. SUFFICES ASSUME NEW c \in Components
               PROVE  /\ \A a, b \in DOMAIN box' : TellsDone(a, c)' /\ TellsDone(b, c)' => a = b
                      /\ \A a \in DOMAIN box' : TellsDone(a, c)' =>
                            \A d \in Siblings(c) : status'[d] \in {"completed", "removed"}
                      /\ (\A d \in Siblings(c) : status'[d] = "completed") =>
                            \E a \in DOMAIN box' : TellsDone(a, c)'
  BY DEF DoneSettled
<1>3. \A d \in Siblings(c) : d \in Runtimes /\ d \in Components /\ Siblings(d) = Siblings(c)
  BY SiblingFacts
<1>4. /\ \A a, b \in DOMAIN box : TellsDone(a, c) /\ TellsDone(b, c) => a = b
      /\ \A a \in DOMAIN box : TellsDone(a, c) =>
            \A d \in Siblings(c) : status[d] \in {"completed", "removed"}
      /\ (\A d \in Siblings(c) : status[d] = "completed") => \E a \in DOMAIN box : TellsDone(a, c)
  BY DEF DoneSettled
<1>5. CASE Quiet
  <2>1. /\ \A a \in DOMAIN box : TellsDone(a, c)' <=> TellsDone(a, c)
        /\ \A a \in DOMAIN box' : TellsDone(a, c)' => a \in DOMAIN box
    BY <1>5, QuietTells
  <2>2. status' = status /\ \A a \in DOMAIN box : a \in DOMAIN box'
    BY <1>5 DEF Quiet, Persists
  <2>. QED
    BY <1>4, <2>1, <2>2
<1>6. CASE Moves /\ Outcome
  <2>1. PICK ems : Adds(ems) /\ Tells(ems)
    BY <1>6 DEF Outcome
  <2>2. /\ DOMAIN box \subseteq DOMAIN box'
        /\ \A a \in DOMAIN box : TellsDone(a, c)' <=> TellsDone(a, c)
        /\ \A a \in DOMAIN box' \ DOMAIN box : \E k \in 1 .. Len(ems) :
              /\ a = nextAcceptance + k - 1
              /\ TellsDone(a, c)' <=> ems[k].event = "done" /\ ems[k].subject \in Siblings(c)
        /\ \A k \in 1 .. Len(ems) : \E a \in DOMAIN box' :
              TellsDone(a, c)' <=> ems[k].event = "done" /\ ems[k].subject \in Siblings(c)
    <3>1. /\ DOMAIN box \subseteq DOMAIN box'
          /\ \A a \in DOMAIN box : TellsDone(a, c)' <=> TellsDone(a, c)
      BY <1>6, <2>1, CommitTells
    <3>2. \A a \in DOMAIN box' \ DOMAIN box : \E k \in 1 .. Len(ems) :
              /\ a = nextAcceptance + k - 1
              /\ TellsDone(a, c)' <=> ems[k].event = "done" /\ ems[k].subject \in Siblings(c)
      BY <1>6, <2>1, CommitTells
    <3>3. \A k \in 1 .. Len(ems) : \E a \in DOMAIN box' :
              TellsDone(a, c)' <=> ems[k].event = "done" /\ ems[k].subject \in Siblings(c)
      BY <1>6, <2>1, CommitTells
    <3>. QED
      BY <3>1, <3>2, <3>3
  <2>3. ASSUME NEW k \in 1 .. Len(ems), ems[k].event = "done", ems[k].subject \in Siblings(c)
        PROVE  /\ status[ems[k].subject] \notin {"completed", "removed"}
               /\ \A d \in Siblings(c) : status'[d] = "completed"
    <3>1. ems[k].subject \in Components /\ Siblings(ems[k].subject) = Siblings(c)
      BY <1>3, <2>3
    <3>. QED
      BY <2>1, <2>3, <3>1 DEF Tells, DoneTold
  <2>4. ASSUME NEW k \in 1 .. Len(ems), NEW l \in 1 .. Len(ems),
               ems[k].event = "done", ems[k].subject \in Siblings(c),
               ems[l].event = "done", ems[l].subject \in Siblings(c)
        PROVE  k = l
    <3>1. ems[k].subject \in Components /\ Siblings(ems[k].subject) = Siblings(c)
      BY <1>3, <2>4
    <3>. QED
      BY <2>1, <2>4, <3>1 DEF Tells, DoneTold
  <2>5. /\ \A d \in Siblings(c) : status'[d] = "completed"
        /\ \E d \in Siblings(c) : status[d] # "completed"
        => \E k \in 1 .. Len(ems) : ems[k].event = "done" /\ ems[k].subject \in Siblings(c)
    BY <2>1 DEF Tells, DoneTold
  <2>6. \A d \in Siblings(c) : status[d] \in {"completed", "removed"} => status'[d] \in {"completed", "removed"}
    BY <1>3, <1>6 DEF Outcome, StatusMoves
  <2>7. ASSUME NEW a \in DOMAIN box', TellsDone(a, c)', a \notin DOMAIN box
        PROVE  \E k \in 1 .. Len(ems) :
                  /\ a = nextAcceptance + k - 1
                  /\ ems[k].event = "done" /\ ems[k].subject \in Siblings(c)
    BY <2>2, <2>7
  <2>8. ASSUME NEW a \in DOMAIN box', NEW b \in DOMAIN box', TellsDone(a, c)', TellsDone(b, c)'
        PROVE  a = b
    <3>1. CASE a \in DOMAIN box /\ b \in DOMAIN box
      BY <1>4, <2>2, <2>8, <3>1
    <3>2. CASE a \notin DOMAIN box /\ b \notin DOMAIN box
      BY <2>4, <2>7, <2>8, <3>2
    <3>3. CASE a \in DOMAIN box <=> b \notin DOMAIN box
      <4>1. \A d \in Siblings(c) : status[d] \in {"completed", "removed"}
        BY <1>4, <2>2, <2>8, <3>3
      <4>2. \E k \in 1 .. Len(ems) : ems[k].event = "done" /\ ems[k].subject \in Siblings(c)
        BY <2>7, <2>8, <3>3
      <4>. QED
        BY <2>3, <4>1, <4>2
    <3>. QED
      BY <3>1, <3>2, <3>3
  <2>9. ASSUME NEW a \in DOMAIN box', TellsDone(a, c)', NEW d \in Siblings(c)
        PROVE  status'[d] \in {"completed", "removed"}
    <3>1. CASE a \in DOMAIN box
      BY <1>4, <2>2, <2>6, <2>9, <3>1
    <3>2. CASE a \notin DOMAIN box
      BY <2>3, <2>7, <2>9, <3>2
    <3>. QED
      BY <3>1, <3>2
  <2>10. ASSUME \A d \in Siblings(c) : status'[d] = "completed"
         PROVE  \E a \in DOMAIN box' : TellsDone(a, c)'
    <3>1. CASE \A d \in Siblings(c) : status[d] = "completed"
      BY <1>4, <2>2, <3>1
    <3>2. CASE \E d \in Siblings(c) : status[d] # "completed"
      <4>1. PICK k \in 1 .. Len(ems) : ems[k].event = "done" /\ ems[k].subject \in Siblings(c)
        BY <2>5, <2>10, <3>2
      <4>. QED
        BY <2>2, <4>1
    <3>. QED
      BY <3>1, <3>2
  <2>. QED
    BY <2>8, <2>9, <2>10
<1>. QED
  BY <1>1, <1>5, <1>6

\* A parallel activation is told to be done at most once, only when each of its
\* components has completed, and always then (engine.py:1614, engine.py:2734).
THEOREM DoneIsExactlyAllCompleted == Spec => []DoneExactlyWhenAllCompleted
<1>1. Init => DoneSettled
  <2>. SUFFICES ASSUME Init PROVE DoneSettled
    OBVIOUS
  <2>1. \A c \in Components : c \in Siblings(c) /\ status[c] = "absent"
    BY SiblingFacts DEF Init, NoAggregate
  <2>2. DOMAIN box = {}
    BY DEF Init
  <2>. QED
    BY <2>1, <2>2 DEF DoneSettled
<1>2. Inv /\ OwnershipWellFormed /\ DoneSettled /\ [Next]_vars => DoneSettled'
  BY NextKeepsDone DEF Inv
<1>3. DoneSettled => DoneExactlyWhenAllCompleted
  <2>. SUFFICES ASSUME DoneSettled, NEW c \in Components
                PROVE  /\ Cardinality(DoneOf(c)) <= 1
                       /\ DoneOf(c) # {} => \A d \in Siblings(c) : status[d] \in {"completed", "removed"}
                       /\ (\A d \in Siblings(c) : status[d] = "completed") => DoneOf(c) # {}
    BY DEF DoneExactlyWhenAllCompleted
  <2>1. \A a : a \in DoneOf(c) <=> a \in DOMAIN box /\ TellsDone(a, c)
    BY DEF DoneOf, TellsDone
  <2>2. CASE DoneOf(c) = {}
    BY <2>1, <2>2, FS_EmptySet DEF DoneSettled
  <2>3. CASE DoneOf(c) # {}
    <3>1. PICK a \in DOMAIN box : TellsDone(a, c)
      BY <2>1, <2>3
    <3>2. DoneOf(c) = {a}
      BY <2>1, <3>1 DEF DoneSettled
    <3>3. Cardinality(DoneOf(c)) = 1
      BY <3>2, FS_Singleton
    <3>. QED
      BY <2>1, <3>1, <3>3 DEF DoneSettled
  <2>. QED
    BY <2>2, <2>3
<1>. QED
  BY <1>1, <1>2, <1>3, InvAlways, OwnershipAlwaysWellFormed, PTL DEF Spec
=============================================================================
