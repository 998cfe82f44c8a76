----------------------- MODULE PersistenceHost_proofs ------------------------
(***************************************************************************)
(* Proofs about PersistenceHost for every set of events and bodies and     *)
(* every bound on revisions and inbox: what is acknowledged was processed, *)
(* no event is processed twice, and a quarantined event is processed only  *)
(* after its own release.                                                  *)
(*                                                                         *)
(* The argument is about the record the host finds for an event, which is  *)
(* the first: a later quarantine hides behind it, and the record of a      *)
(* released event is replaced where it stands.  So an event that has an    *)
(* application row is found as committed with the body of its row, and is  *)
(* never processed again.  Receipts play no part in this, as pruning takes *)
(* them away: one that is left says what the row says.                     *)
(***************************************************************************)
EXTENDS PersistenceHost, FiniteSetTheorems, WellFoundedInduction, TLAPS

-----------------------------------------------------------------------------
(* The inductive invariant.                                                *)

Records == [event : Events, body : Bodies, disposition : {"quarantined", "committed"}]

IsDocument(d) ==
    /\ d = [revision |-> d.revision, waiting |-> d.waiting, receipts |-> d.receipts,
            tombstones |-> d.tombstones, inbox |-> d.inbox, rows |-> d.rows, quarantine |-> d.quarantine]
    /\ d.revision \in Nat /\ d.waiting \in BOOLEAN /\ d.inbox \in Seq(Records)
    /\ d.quarantine = [event |-> d.quarantine.event, released |-> d.quarantine.released]
    /\ d.quarantine.released \in BOOLEAN

\* The document has its fields.
TypeOK == IsDocument(document)

\* An event with an application row is found in the inbox as committed, with the
\* body of its row, and a receipt is of such an event and says the same.
InboxSound(d) ==
    /\ \A event \in DOMAIN d.rows :
          /\ PriorOf(d, event) # 0
          /\ d.inbox[PriorOf(d, event)] = Record(event, d.rows[event], "committed")
    /\ \A event \in DOMAIN d.receipts :
          event \in DOMAIN d.rows /\ d.receipts[event].body = d.rows[event]

\* What is acknowledged has its application row.
AcknowledgedStored ==
    \A p \in acknowledged : p[1] \in DOMAIN document.rows /\ document.rows[p[1]] = p[2]

IInv == TypeOK /\ InboxSound(document) /\ AcknowledgedStored

-----------------------------------------------------------------------------
(* The first record of an event.                                           *)

First(s, event) == SelectInSeq(s, LAMBDA record : record.event = event)

\* A set of natural numbers that is not empty has a least element: the initial
\* segments of the natural numbers are well-ordered by inclusion.
LEMMA LeastOf ==
    ASSUME NEW S, S \subseteq Nat, S # {}
    PROVE  Min(S) \in S /\ \A y \in S : Min(S) <= y
<1> DEFINE T == {0 .. m : m \in S}
           R == StrictSubsetOrdering(Nat)
<1>1. IsWellFoundedOn(R, FiniteSubsetsOf(Nat))
  BY FS_StrictSubsetOrderingWellFounded
<1>2. T \subseteq FiniteSubsetsOf(Nat)
  <2> SUFFICES ASSUME NEW m \in S
               PROVE  0 .. m \in FiniteSubsetsOf(Nat)
    OBVIOUS
  <2>1. m \in Int /\ 0 \in Int /\ 0 .. m \subseteq Nat
    OBVIOUS
  <2>2. IsFiniteSet(0 .. m)
    BY <2>1, FS_Interval
  <2> QED
    BY <2>1, <2>2 DEF FiniteSubsetsOf
<1>3. T # {}
  OBVIOUS
<1>4. PICK I \in T : \A J \in T : ~ (<<J, I>> \in R)
  <2> HIDE DEF T, R
  <2> QED
    BY <1>1, <1>2, <1>3, WFMin
<1>5. PICK x \in S : I = 0 .. x
  BY <1>4
<1>6. ASSUME NEW y \in S
      PROVE  x <= y
  <2> SUFFICES ASSUME y < x
               PROVE  FALSE
    OBVIOUS
  <2>1. 0 .. y \in T
    OBVIOUS
  <2>2. /\ 0 .. y \subseteq 0 .. x /\ x \in 0 .. x /\ x \notin 0 .. y
        /\ 0 .. y \in SUBSET Nat /\ 0 .. x \in SUBSET Nat
    OBVIOUS
  <2>3. <<0 .. y, I>> \in R
    BY <2>2, <1>5 DEF StrictSubsetOrdering
  <2> QED
    BY <2>1, <2>3, <1>4
<1> QED
  BY <1>6 DEF Min

\* The host finds nothing, or the first of the records of the event.
LEMMA FirstFacts ==
    ASSUME NEW s \in Seq(Records), NEW event
    PROVE  /\ First(s, event) \in 0 .. Len(s)
           /\ First(s, event) = 0 => \A i \in 1 .. Len(s) : s[i].event # event
           /\ First(s, event) # 0 =>
                 /\ s[First(s, event)].event = event
                 /\ \A i \in 1 .. First(s, event) - 1 : s[i].event # event
<1>1. PICK S : S = {i \in 1 .. Len(s) : s[i].event = event}
  OBVIOUS
<1>2. First(s, event) = IF S # {} THEN Min(S) ELSE 0
  BY <1>1 DEF First, SelectInSeq
<1>3. Len(s) \in Nat /\ S \subseteq Nat
  BY <1>1
<1>4. CASE S = {}
  BY <1>1, <1>2, <1>3, <1>4
<1>5. CASE S # {}
  <2>1. PICK m : m = Min(S)
    OBVIOUS
  <2>2. m \in S /\ \A y \in S : m <= y
    BY <1>3, <1>5, <2>1, LeastOf
  <2>3. m \in 1 .. Len(s) /\ s[m].event = event /\ \A i \in 1 .. m - 1 : s[i].event # event
    BY <1>1, <1>3, <2>2
  <2>4. First(s, event) = m
    BY <1>2, <1>5, <2>1
  <2> QED
    BY <2>3, <2>4, <1>3
<1> QED
  BY <1>4, <1>5

\* A record of the event with none before it is the one that is found.
LEMMA FirstIs ==
    ASSUME NEW s \in Seq(Records), NEW event, NEW k \in 1 .. Len(s), s[k].event = event,
           \A i \in 1 .. k - 1 : s[i].event # event
    PROVE  First(s, event) = k
<1>1. PICK m : m = First(s, event)
  OBVIOUS
<1>2. /\ m \in 0 .. Len(s)
      /\ m = 0 => \A i \in 1 .. Len(s) : s[i].event # event
      /\ m # 0 => s[m].event = event /\ \A i \in 1 .. m - 1 : s[i].event # event
  BY <1>1, FirstFacts
<1>3. m # 0
  BY <1>2
<1>4. Len(s) \in Nat /\ m \in Nat /\ k \in Nat
  BY <1>2
<1>5. ~(m < k) /\ ~(k < m)
  BY <1>2, <1>3, <1>4
<1> QED
  BY <1>1, <1>4, <1>5

\* A record is found where it was found before another one was appended.
LEMMA FirstOfAppend ==
    ASSUME NEW s \in Seq(Records), NEW event, NEW x \in Records
    PROVE  /\ Append(s, x) \in Seq(Records) /\ Len(Append(s, x)) = Len(s) + 1
           /\ Append(s, x)[Len(s) + 1] = x
           /\ \A i \in 1 .. Len(s) : Append(s, x)[i] = s[i]
           /\ First(s, event) # 0 => First(Append(s, x), event) = First(s, event)
           /\ First(s, event) = 0 /\ x.event = event => First(Append(s, x), event) = Len(s) + 1
<1>1. PICK t : t = Append(s, x)
  OBVIOUS
<1>2. /\ t \in Seq(Records) /\ Len(t) = Len(s) + 1 /\ t[Len(s) + 1] = x
      /\ \A i \in 1 .. Len(s) : t[i] = s[i]
      /\ Len(s) \in Nat
  BY <1>1
<1>3. PICK k : k = First(s, event)
  OBVIOUS
<1>4. /\ k \in 0 .. Len(s)
      /\ k = 0 => \A i \in 1 .. Len(s) : s[i].event # event
      /\ k # 0 => s[k].event = event /\ \A i \in 1 .. k - 1 : s[i].event # event
  BY <1>3, FirstFacts
<1>5. ASSUME k # 0
      PROVE  First(t, event) = k
  <2>1. k \in 1 .. Len(t) /\ t[k].event = event /\ \A i \in 1 .. k - 1 : t[i].event # event
    BY <1>2, <1>4, <1>5
  <2> QED
    BY <2>1, <1>2, FirstIs
<1>6. ASSUME k = 0, x.event = event
      PROVE  First(t, event) = Len(s) + 1
  <2>1. PICK n : n = Len(s) + 1
    OBVIOUS
  <2>2. n \in 1 .. Len(t) /\ t[n].event = event /\ \A i \in 1 .. n - 1 : t[i].event # event
    BY <1>2, <1>4, <1>6, <2>1
  <2> QED
    BY <2>1, <2>2, <1>2, FirstIs
<1> QED
  BY <1>1, <1>2, <1>3, <1>5, <1>6

\* Replacing the record of an event moves nothing.
LEMMA FirstOfReplaced ==
    ASSUME NEW s \in Seq(Records), NEW k \in 1 .. Len(s), NEW x \in Records,
           x.event = s[k].event, NEW t, t = [s EXCEPT ![k] = x]
    PROVE  /\ t \in Seq(Records) /\ Len(t) = Len(s) /\ t[k] = x
           /\ \A i \in 1 .. Len(s) : i # k => t[i] = s[i]
           /\ \A event : First(t, event) = First(s, event)
<1>1. /\ t \in Seq(Records) /\ Len(t) = Len(s) /\ t[k] = x /\ Len(s) \in Nat
      /\ \A i \in 1 .. Len(s) : i # k => t[i] = s[i]
  OBVIOUS
<1>2. \A i \in 1 .. Len(s) : t[i].event = s[i].event
  BY <1>1
<1>3. ASSUME NEW event
      PROVE  First(t, event) = First(s, event)
  <2>1. {i \in 1 .. Len(t) : t[i].event = event} = {i \in 1 .. Len(s) : s[i].event = event}
    BY <1>1, <1>2
  <2> QED
    BY <2>1 DEF First, SelectInSeq
<1> QED
  BY <1>1, <1>3

-----------------------------------------------------------------------------
(* The operations.                                                         *)

\* Giving up an event appends a record, behind one that may be there already.
LEMMA QuarantineStep ==
    ASSUME IInv, NEW event \in Events, NEW body \in Bodies, Quarantine(event, body)
    PROVE  /\ IInv' /\ document'.receipts = document.receipts
<1>1. PICK d, n : d = document /\ n = document'
  OBVIOUS
<1>2. PICK inbox, mark : /\ inbox = Append(d.inbox, Record(event, body, "quarantined"))
                         /\ mark = [event |-> event, released |-> FALSE]
  OBVIOUS
<1>3. n = [d EXCEPT !.quarantine = mark, !.inbox = inbox] /\ acknowledged' = acknowledged
  BY <1>1, <1>2 DEF Quarantine, HostTransaction
<1>4. IsDocument(d) /\ InboxSound(d)
  BY <1>1 DEF IInv, TypeOK
<1>5. n = [revision |-> d.revision, waiting |-> d.waiting, receipts |-> d.receipts,
           tombstones |-> d.tombstones, inbox |-> inbox, rows |-> d.rows, quarantine |-> mark]
  BY <1>3, <1>4 DEF IsDocument
<1>6. /\ n.revision = d.revision /\ n.waiting = d.waiting /\ n.receipts = d.receipts
      /\ n.tombstones = d.tombstones
      /\ n.inbox = inbox /\ n.rows = d.rows /\ n.quarantine = mark
  BY <1>5
<1>7. PICK x : x = Record(event, body, "quarantined")
  OBVIOUS
<1>8. x \in Records
  BY <1>7 DEF Record, Records
<1>9. d.inbox \in Seq(Records)
  BY <1>4 DEF IsDocument
<1>10. inbox \in Seq(Records) /\ Len(d.inbox) \in Nat
  BY <1>2, <1>7, <1>8, <1>9, FirstOfAppend
<1>11. mark.event = event /\ mark.released = FALSE /\ mark = [event |-> mark.event, released |-> mark.released]
  BY <1>2
<1>12. IsDocument(n)
  BY <1>4, <1>5, <1>6, <1>10, <1>11 DEF IsDocument
<1>13. InboxSound(n)
  <2> SUFFICES ASSUME NEW e \in DOMAIN n.rows
               PROVE  PriorOf(n, e) # 0 /\ n.inbox[PriorOf(n, e)] = Record(e, n.rows[e], "committed")
    BY <1>4, <1>6 DEF InboxSound
  <2>1. /\ First(d.inbox, e) # 0
        /\ d.inbox[First(d.inbox, e)] = Record(e, d.rows[e], "committed")
    BY <1>4, <1>6 DEF InboxSound, PriorOf, First
  <2>2. First(d.inbox, e) \in 1 .. Len(d.inbox)
    BY <2>1, <1>9, <1>10, FirstFacts
  <2>3. First(inbox, e) = First(d.inbox, e) /\ inbox[First(d.inbox, e)] = d.inbox[First(d.inbox, e)]
    BY <2>1, <2>2, <1>2, <1>7, <1>8, <1>9, FirstOfAppend
  <2> QED
    BY <2>1, <2>3, <1>6 DEF PriorOf, First
<1>14. AcknowledgedStored'
  BY <1>1, <1>3, <1>6 DEF IInv, AcknowledgedStored
<1> QED
  BY <1>1, <1>6, <1>12, <1>13, <1>14 DEF IInv, TypeOK

\* What is acknowledged again has the body of the row.
LEMMA ReplayStep ==
    ASSUME IInv, NEW event \in Events, NEW body \in Bodies, Replay(event, body)
    PROVE  /\ IInv' /\ document'.receipts = document.receipts
<1>1. /\ event \in DOMAIN document.receipts /\ UNCHANGED document
      /\ document.inbox[PriorOf(document, event)].body = body
      /\ acknowledged' = acknowledged \cup {<<event, body>>}
  BY DEF Replay
<1>2. /\ event \in DOMAIN document.rows
      /\ document.inbox[PriorOf(document, event)] = Record(event, document.rows[event], "committed")
  BY <1>1 DEF IInv, InboxSound
<1>3. document.rows[event] = body
  BY <1>1, <1>2 DEF Record
<1>4. AcknowledgedStored'
  BY <1>1, <1>2, <1>3 DEF IInv, AcknowledgedStored
<1>5. TypeOK' /\ InboxSound(document)'
  BY <1>1 DEF IInv, TypeOK
<1> QED
  BY <1>1, <1>4, <1>5 DEF IInv

\* The inbox after an event was processed has its record where the host looks for it.
LEMMA InboxedFacts ==
    ASSUME NEW d, IsDocument(d), NEW event \in Events, NEW body \in Bodies,
           PriorOf(d, event) = 0 \/ Released(d, event),
           NEW m, m = Inboxed(d, event, body)
    PROVE  /\ IsDocument(m) /\ m.receipts = d.receipts /\ m.rows = d.rows
           /\ PriorOf(m, event) # 0
           /\ m.inbox[PriorOf(m, event)] = Record(event, body, "committed")
           /\ \A e : e # event /\ PriorOf(d, e) # 0 =>
                 PriorOf(m, e) = PriorOf(d, e) /\ m.inbox[PriorOf(m, e)] = d.inbox[PriorOf(d, e)]
<1>1. PICK x : x = Record(event, body, "committed")
  OBVIOUS
<1>2. x \in Records /\ x.event = event
  BY <1>1 DEF Record, Records
<1>3. d.inbox \in Seq(Records) /\ Len(d.inbox) \in Nat
  BY DEF IsDocument
<1>4. \A e : PriorOf(d, e) = First(d.inbox, e) /\ PriorOf(m, e) = First(m.inbox, e)
  BY DEF PriorOf, First
<1>5. CASE Released(d, event)
  <2>1. PICK k : k = PriorOf(d, event)
    OBVIOUS
  <2>2. k \in 1 .. Len(d.inbox) /\ d.inbox[k].event = event
    BY <2>1, <1>3, <1>4, <1>5, FirstFacts DEF Released
  <2>3. PICK inbox : inbox = [d.inbox EXCEPT ![k] = x]
    OBVIOUS
  <2>4. /\ inbox \in Seq(Records) /\ Len(inbox) = Len(d.inbox) /\ inbox[k] = x
        /\ \A i \in 1 .. Len(d.inbox) : i # k => inbox[i] = d.inbox[i]
        /\ \A e : First(inbox, e) = First(d.inbox, e)
    BY <2>2, <2>3, <1>2, <1>3, FirstOfReplaced
  <2>5. m = [d EXCEPT !.inbox = inbox, !.quarantine = NoQuarantine]
    <3>1. m = [d EXCEPT !.inbox[k] = x, !.quarantine = NoQuarantine]
      BY <2>1, <1>1, <1>5 DEF Inboxed
    <3> QED
      BY <3>1, <2>3 DEF IsDocument
  <2>6. m = [revision |-> d.revision, waiting |-> d.waiting, receipts |-> d.receipts,
             tombstones |-> d.tombstones, inbox |-> inbox, rows |-> d.rows, quarantine |-> NoQuarantine]
    BY <2>5 DEF IsDocument
  <2>7. /\ m.revision = d.revision /\ m.waiting = d.waiting /\ m.receipts = d.receipts
        /\ m.tombstones = d.tombstones /\ m.inbox = inbox /\ m.rows = d.rows /\ m.quarantine = NoQuarantine
    BY <2>6
  <2>8. IsDocument(m)
    <3>1. /\ NoQuarantine = [event |-> NoQuarantine.event, released |-> NoQuarantine.released]
          /\ NoQuarantine.released \in BOOLEAN
      BY DEF NoQuarantine
    <3> QED
      BY <3>1, <2>4, <2>6, <2>7 DEF IsDocument
  <2>9. ASSUME NEW e, e # event, PriorOf(d, e) # 0
        PROVE  PriorOf(m, e) = PriorOf(d, e) /\ m.inbox[PriorOf(m, e)] = d.inbox[PriorOf(d, e)]
    <3>1. First(d.inbox, e) \in 1 .. Len(d.inbox) /\ d.inbox[First(d.inbox, e)].event = e
      BY <2>9, <1>3, <1>4, FirstFacts
    <3>2. First(d.inbox, e) # k
      BY <3>1, <2>2, <2>9
    <3> QED
      BY <3>1, <3>2, <2>4, <2>7, <1>4
  <2>10. PriorOf(m, event) = k
    BY <2>1, <2>4, <2>7, <1>4
  <2> QED
    BY <2>2, <2>4, <2>7, <2>8, <2>9, <2>10, <1>1
<1>6. CASE ~Released(d, event)
  <2>1. PICK inbox : inbox = Append(d.inbox, x)
    OBVIOUS
  <2>2. First(d.inbox, event) = 0
    BY <1>4, <1>6
  <2>3. /\ inbox \in Seq(Records) /\ inbox[Len(d.inbox) + 1] = x
        /\ \A i \in 1 .. Len(d.inbox) : inbox[i] = d.inbox[i]
        /\ First(inbox, event) = Len(d.inbox) + 1
        /\ \A e : First(d.inbox, e) # 0 => First(inbox, e) = First(d.inbox, e)
    BY <2>1, <2>2, <1>2, <1>3, FirstOfAppend
  <2>4. m = [d EXCEPT !.inbox = inbox]
    BY <2>1, <1>1, <1>6 DEF Inboxed
  <2>5. m = [revision |-> d.revision, waiting |-> d.waiting, receipts |-> d.receipts,
             tombstones |-> d.tombstones, inbox |-> inbox, rows |-> d.rows, quarantine |-> d.quarantine]
    BY <2>4 DEF IsDocument
  <2>6. /\ m.revision = d.revision /\ m.waiting = d.waiting /\ m.receipts = d.receipts
        /\ m.tombstones = d.tombstones /\ m.inbox = inbox /\ m.rows = d.rows /\ m.quarantine = d.quarantine
    BY <2>5
  <2>7. IsDocument(m)
    BY <2>3, <2>5, <2>6 DEF IsDocument
  <2>8. ASSUME NEW e, e # event, PriorOf(d, e) # 0
        PROVE  PriorOf(m, e) = PriorOf(d, e) /\ m.inbox[PriorOf(m, e)] = d.inbox[PriorOf(d, e)]
    <3>1. First(d.inbox, e) \in 1 .. Len(d.inbox)
      BY <2>8, <1>3, <1>4, FirstFacts
    <3> QED
      BY <3>1, <2>3, <2>6, <2>8, <1>4
  <2>9. PriorOf(m, event) = Len(d.inbox) + 1
    BY <2>3, <2>6, <1>4
  <2> QED
    BY <2>3, <2>6, <2>7, <2>8, <2>9, <1>1, <1>3
<1> QED
  BY <1>5, <1>6

\* Processing gives an event that has no application row its receipt, its row and
\* its committed record.
LEMMA ProcessStep ==
    ASSUME IInv, NEW event \in Events, NEW body \in Bodies, NEW expected,
           Process(event, body, expected)
    PROVE  /\ IInv' /\ event \notin DOMAIN document.rows
           /\ DOMAIN document'.receipts \ DOMAIN document.receipts \subseteq {event}
<1>1. PICK d, m, n : d = document /\ m = Inboxed(d, event, body) /\ n = document'
  OBVIOUS
<1>2. /\ PriorOf(d, event) = 0 \/ Released(d, event)
      /\ n = Processed(d, event, body)
      /\ acknowledged' \in {acknowledged, acknowledged \cup {<<event, body>>}}
  BY <1>1 DEF Process, HostTransaction
<1>3. IsDocument(d) /\ InboxSound(d)
  BY <1>1 DEF IInv, TypeOK
<1>4. /\ IsDocument(m) /\ m.receipts = d.receipts /\ m.rows = d.rows
      /\ PriorOf(m, event) # 0
      /\ m.inbox[PriorOf(m, event)] = Record(event, body, "committed")
      /\ \A e : e # event /\ PriorOf(d, e) # 0 =>
            PriorOf(m, e) = PriorOf(d, e) /\ m.inbox[PriorOf(m, e)] = d.inbox[PriorOf(d, e)]
  BY <1>1, <1>2, <1>3, InboxedFacts
<1>5. event \notin DOMAIN d.rows
  <2> SUFFICES ASSUME event \in DOMAIN d.rows
               PROVE  FALSE
    OBVIOUS
  <2>1. /\ PriorOf(d, event) # 0
        /\ d.inbox[PriorOf(d, event)] = Record(event, d.rows[event], "committed")
    BY <1>3 DEF InboxSound
  <2>2. PICK record : record = d.inbox[PriorOf(d, event)]
    OBVIOUS
  <2>3. record.disposition = "committed"
    BY <2>1, <2>2 DEF Record
  <2> QED
    BY <2>1, <2>2, <2>3, <1>2 DEF Released
<1>6. event \notin DOMAIN d.receipts
  BY <1>3, <1>5 DEF InboxSound
<1>7. PICK receipts, rows :
         /\ receipts = Merge([e \in {event} |-> [body |-> body, number |-> d.revision + 1]], d.receipts)
         /\ rows = Merge([e \in {event} |-> body], d.rows)
  OBVIOUS
<1>8. /\ DOMAIN receipts = {event} \cup DOMAIN d.receipts /\ receipts[event].body = body
      /\ \A e \in DOMAIN d.receipts : receipts[e] = d.receipts[e]
  BY <1>6, <1>7 DEF Merge
<1>9. /\ DOMAIN rows = {event} \cup DOMAIN d.rows /\ rows[event] = body
      /\ \A e \in DOMAIN d.rows : rows[e] = d.rows[e]
  BY <1>5, <1>7 DEF Merge
<1>10. n = [m EXCEPT !.revision = m.revision + 1, !.receipts = receipts, !.rows = rows]
  BY <1>1, <1>2, <1>4, <1>7 DEF Processed
<1>11. n = [revision |-> m.revision + 1, waiting |-> m.waiting, receipts |-> receipts,
            tombstones |-> m.tombstones, inbox |-> m.inbox, rows |-> rows,
            quarantine |-> m.quarantine]
  BY <1>4, <1>10 DEF IsDocument
<1>12. /\ n.revision = m.revision + 1 /\ n.waiting = m.waiting /\ n.receipts = receipts
       /\ n.tombstones = m.tombstones
       /\ n.inbox = m.inbox /\ n.rows = rows /\ n.quarantine = m.quarantine
  BY <1>11
<1>13. IsDocument(n)
  BY <1>4, <1>11, <1>12 DEF IsDocument
<1>14. \A e : PriorOf(n, e) = PriorOf(m, e)
  BY <1>12 DEF PriorOf
<1>15. ASSUME NEW e \in DOMAIN rows
       PROVE  PriorOf(n, e) # 0 /\ n.inbox[PriorOf(n, e)] = Record(e, rows[e], "committed")
  <2>1. CASE e = event
    BY <2>1, <1>4, <1>9, <1>12, <1>14
  <2>2. CASE e # event
    <3>1. e \in DOMAIN d.rows /\ rows[e] = d.rows[e]
      BY <2>2, <1>9, <1>15
    <3>2. PriorOf(d, e) # 0 /\ d.inbox[PriorOf(d, e)] = Record(e, d.rows[e], "committed")
      BY <3>1, <1>3 DEF InboxSound
    <3> QED
      BY <2>2, <3>1, <3>2, <1>4, <1>12, <1>14
  <2> QED
    BY <2>1, <2>2
<1>16. ASSUME NEW e \in DOMAIN receipts
       PROVE  e \in DOMAIN rows /\ receipts[e].body = rows[e]
  <2>1. CASE e = event
    BY <2>1, <1>8, <1>9
  <2>2. CASE e # event
    BY <2>2, <1>3, <1>8, <1>9, <1>16 DEF InboxSound
  <2> QED
    BY <2>1, <2>2
<1>17. InboxSound(n)
  BY <1>12, <1>15, <1>16 DEF InboxSound
<1>18. AcknowledgedStored'
  <2> SUFFICES ASSUME NEW p \in acknowledged'
               PROVE  p[1] \in DOMAIN rows /\ rows[p[1]] = p[2]
    BY <1>1, <1>12 DEF AcknowledgedStored
  <2>1. CASE p \in acknowledged
    <3>1. p[1] \in DOMAIN d.rows /\ d.rows[p[1]] = p[2]
      BY <2>1, <1>1 DEF IInv, AcknowledgedStored
    <3> QED
      BY <3>1, <1>9
  <2>2. CASE p = <<event, body>>
    BY <2>2, <1>9
  <2> QED
    BY <2>1, <2>2, <1>2
<1> QED
  BY <1>1, <1>5, <1>8, <1>12, <1>13, <1>17, <1>18 DEF IInv, TypeOK

\* A step that leaves inbox and rows alone and adds no receipt.
LEMMA ElsewhereStep ==
    ASSUME IInv, NEW revision \in Nat, NEW waiting \in BOOLEAN, NEW receipts, NEW tombstones, NEW mark,
           \A e \in DOMAIN receipts : e \in DOMAIN document.receipts /\ receipts[e] = document.receipts[e],
           mark = [event |-> mark.event, released |-> mark.released], mark.released \in BOOLEAN,
           document' = [revision |-> revision, waiting |-> waiting, receipts |-> receipts,
                        tombstones |-> tombstones, inbox |-> document.inbox,
                        rows |-> document.rows, quarantine |-> mark],
           acknowledged' = acknowledged
    PROVE  /\ IInv' /\ DOMAIN document'.receipts \subseteq DOMAIN document.receipts
<1>1. PICK d, n : d = document /\ n = document'
  OBVIOUS
<1>2. /\ n.revision = revision /\ n.waiting = waiting /\ n.receipts = receipts
      /\ n.inbox = d.inbox /\ n.rows = d.rows /\ n.quarantine = mark
  BY <1>1
<1>3. IsDocument(d) /\ InboxSound(d)
  BY <1>1 DEF IInv, TypeOK
<1>4. n = [revision |-> n.revision, waiting |-> n.waiting, receipts |-> n.receipts,
           tombstones |-> n.tombstones, inbox |-> n.inbox, rows |-> n.rows,
           quarantine |-> n.quarantine]
  BY <1>1
<1>5. IsDocument(n)
  BY <1>2, <1>3, <1>4 DEF IsDocument
<1>6. InboxSound(n)
  <2>1. \A e : PriorOf(n, e) = PriorOf(d, e)
    BY <1>2 DEF PriorOf
  <2>2. \A e \in DOMAIN n.receipts : e \in DOMAIN d.receipts /\ n.receipts[e] = d.receipts[e]
    BY <1>1, <1>2
  <2> QED
    BY <2>1, <2>2, <1>2, <1>3 DEF InboxSound
<1>7. AcknowledgedStored'
  BY <1>1, <1>2 DEF IInv, AcknowledgedStored
<1> QED
  BY <1>1, <1>2, <1>5, <1>6, <1>7 DEF IInv, TypeOK

\* Pruning keeps some receipts as they are.
LEMMA AboveKeeps ==
    ASSUME NEW receipts, NEW cutoff, NEW e \in DOMAIN Above(receipts, cutoff)
    PROVE  e \in DOMAIN receipts /\ Above(receipts, cutoff)[e] = receipts[e]
BY DEF Above, Restrict

\* Releases and the operations of other hosts leave the inbox alone.
LEMMA OthersStep ==
    ASSUME IInv,
           \/ \E event \in Events : ReleaseQuarantine(event)
           \/ \E cutoff \in 0 .. document.revision : Prune(cutoff) \/ UpdateReplayRetention(cutoff)
           \/ \E waiting \in BOOLEAN : OtherOperation(waiting)
    PROVE  /\ IInv' /\ DOMAIN document'.receipts \subseteq DOMAIN document.receipts
<1>1. PICK d : d = document
  OBVIOUS
<1>2. IsDocument(d) /\ d.revision + 1 \in Nat
  BY <1>1 DEF IInv, TypeOK, IsDocument
<1>3. /\ d.quarantine.released \in BOOLEAN
      /\ d.quarantine = [event |-> d.quarantine.event, released |-> d.quarantine.released]
  BY <1>2 DEF IsDocument
<1>4. CASE \E event \in Events : ReleaseQuarantine(event)
  <2>1. PICK mark : mark = [d.quarantine EXCEPT !.released = TRUE]
    OBVIOUS
  <2>2. mark = [event |-> d.quarantine.event, released |-> TRUE]
    BY <2>1, <1>3
  <2>3. mark.event = d.quarantine.event /\ mark.released = TRUE
    BY <2>2
  <2>4. document' = [d EXCEPT !.quarantine = mark] /\ acknowledged' = acknowledged
    <3>1. document' = [d EXCEPT !.quarantine.released = TRUE] /\ acknowledged' = acknowledged
      BY <1>1, <1>4 DEF ReleaseQuarantine, HostTransaction
    <3> QED
      BY <3>1, <2>1, <1>2 DEF IsDocument
  <2>5. document' = [revision |-> d.revision, waiting |-> d.waiting, receipts |-> d.receipts,
                     tombstones |-> d.tombstones, inbox |-> d.inbox, rows |-> d.rows,
                     quarantine |-> mark]
    BY <2>4, <1>2 DEF IsDocument
  <2>6. /\ d.revision \in Nat /\ d.waiting \in BOOLEAN /\ mark.released \in BOOLEAN
        /\ mark = [event |-> mark.event, released |-> mark.released]
    BY <2>2, <2>3, <1>2 DEF IsDocument
  <2> QED
    BY <2>4, <2>5, <2>6, <1>1, ElsewhereStep
<1>5. ASSUME NEW kept, NEW tombstones, Forget(kept, tombstones),
             \A e \in DOMAIN kept : e \in DOMAIN d.receipts /\ kept[e] = d.receipts[e]
      PROVE  /\ IInv' /\ DOMAIN document'.receipts \subseteq DOMAIN document.receipts
  <2>1. PICK known : known = d.tombstones \cup tombstones
    OBVIOUS
  <2>2. /\ document' = [d EXCEPT !.revision = d.revision + 1, !.receipts = kept, !.tombstones = known]
        /\ acknowledged' = acknowledged
    BY <2>1, <1>1, <1>5 DEF Forget, HostTransaction
  <2>3. document' = [revision |-> d.revision + 1, waiting |-> d.waiting, receipts |-> kept,
                     tombstones |-> known, inbox |-> d.inbox, rows |-> d.rows,
                     quarantine |-> d.quarantine]
    BY <2>2, <1>2 DEF IsDocument
  <2>4. d.waiting \in BOOLEAN
    BY <1>2 DEF IsDocument
  <2>5. PICK revision, waiting, mark :
           revision = d.revision + 1 /\ waiting = d.waiting /\ mark = d.quarantine
    OBVIOUS
  <2>6. /\ revision \in Nat /\ waiting \in BOOLEAN
        /\ mark = [event |-> mark.event, released |-> mark.released] /\ mark.released \in BOOLEAN
    BY <2>4, <2>5, <1>2, <1>3
  <2>7. document' = [revision |-> revision, waiting |-> waiting, receipts |-> kept,
                     tombstones |-> known, inbox |-> document.inbox, rows |-> document.rows,
                     quarantine |-> mark]
    BY <2>3, <2>5, <1>1
  <2>8. /\ \A e \in DOMAIN kept : e \in DOMAIN document.receipts /\ kept[e] = document.receipts[e]
        /\ acknowledged' = acknowledged
    BY <2>2, <1>1, <1>5
  <2> QED
    BY <2>6, <2>7, <2>8, ElsewhereStep
<1>6. ASSUME NEW cutoff, Prune(cutoff) \/ UpdateReplayRetention(cutoff)
      PROVE  /\ IInv' /\ DOMAIN document'.receipts \subseteq DOMAIN document.receipts
  <2>1. PICK kept : kept = Above(d.receipts, cutoff)
    OBVIOUS
  <2>2. \A e \in DOMAIN kept : e \in DOMAIN d.receipts /\ kept[e] = d.receipts[e]
    BY <2>1, AboveKeeps
  <2>3. Forget(kept, DOMAIN d.receipts \ DOMAIN kept) \/ Forget(kept, {})
    BY <2>1, <1>1, <1>6 DEF Prune, UpdateReplayRetention
  <2> QED
    BY <2>2, <2>3, <1>5
<1>7. CASE \E waiting \in BOOLEAN : OtherOperation(waiting)
  <2>1. PICK waiting \in BOOLEAN :
           /\ document' = [d EXCEPT !.revision = d.revision + 1, !.waiting = waiting]
           /\ acknowledged' = acknowledged
    BY <1>1, <1>7 DEF OtherOperation, HostTransaction
  <2>2. document' = [revision |-> d.revision + 1, waiting |-> waiting, receipts |-> d.receipts,
                     tombstones |-> d.tombstones, inbox |-> d.inbox, rows |-> d.rows,
                     quarantine |-> d.quarantine]
    BY <2>1, <1>2 DEF IsDocument
  <2> QED
    BY <2>1, <2>2, <1>1, <1>2, <1>3, ElsewhereStep
<1> QED
  BY <1>4, <1>6, <1>7

-----------------------------------------------------------------------------
(* The invariant and what follows from it.                                 *)

\* A root just created has processed nothing.
LEMMA InitIInv == Init => IInv
<1> SUFFICES ASSUME Init
             PROVE  IInv
  OBVIOUS
<1>1. PICK d : d = document
  OBVIOUS
<1>2. /\ d = [revision |-> 0, waiting |-> FALSE, receipts |-> <<>>, tombstones |-> {},
              inbox |-> <<>>, rows |-> <<>>, quarantine |-> NoQuarantine]
      /\ acknowledged = {}
  BY <1>1 DEF Init
<1>3. /\ d.revision = 0 /\ d.waiting = FALSE /\ d.receipts = <<>> /\ d.inbox = <<>>
      /\ d.rows = <<>> /\ d.quarantine = NoQuarantine
  BY <1>2
<1>4. <<>> \in Seq(Records) /\ DOMAIN <<>> = {}
  OBVIOUS
<1>5. IsDocument(d)
  BY <1>2, <1>3, <1>4 DEF IsDocument, NoQuarantine
<1> QED
  BY <1>1, <1>2, <1>3, <1>4, <1>5 DEF IInv, TypeOK, InboxSound, AcknowledgedStored

\* Every step of the host and of its store keeps the invariant.
LEMMA NextIInv == IInv /\ [Next]_vars => IInv'
<1> SUFFICES ASSUME IInv, [Next]_vars
             PROVE  IInv'
  OBVIOUS
<1>1. CASE UNCHANGED vars
  BY <1>1 DEF vars, IInv, TypeOK, AcknowledgedStored
<1>2. CASE Next
  BY <1>2, QuarantineStep, ReplayStep, ProcessStep, OthersStep DEF Next
<1> QED
  BY <1>1, <1>2

\* The inductive invariant of the durable host holds in every state.
THEOREM Invariant == Spec => []IInv
  BY InitIInv, NextIInv, PTL DEF Spec

\* What was taken off the broker was processed with the body it had (process_v1).
THEOREM AcknowledgedAlwaysProcessed == Spec => []AcknowledgedIsProcessed
<1>1. IInv => AcknowledgedIsProcessed
  <2> SUFFICES ASSUME IInv, NEW p \in acknowledged
               PROVE  /\ p[1] \in DOMAIN document.rows /\ document.rows[p[1]] = p[2]
                      /\ PriorOf(document, p[1]) # 0
                      /\ document.inbox[PriorOf(document, p[1])] = Record(p[1], p[2], "committed")
                      /\ p[1] \in DOMAIN document.receipts => document.receipts[p[1]].body = p[2]
    BY DEF AcknowledgedIsProcessed
  <2>1. p[1] \in DOMAIN document.rows /\ document.rows[p[1]] = p[2]
    BY DEF IInv, AcknowledgedStored
  <2> QED
    BY <2>1 DEF IInv, InboxSound
<1> QED
  BY <1>1, Invariant, PTL

\* What ProcessedWhenDue says of a step.
NewlyDue ==
    \A event \in DOMAIN document'.receipts \ DOMAIN document.receipts :
       /\ event \notin DOMAIN document.rows
       /\ (\E i \in DOMAIN document.inbox : document.inbox[i].event = event) =>
             document.quarantine = [event |-> event, released |-> TRUE]

\* An event gets a receipt once, also when the checkpoint has forgotten it, and one
\* with a record only after its own release (process_v1, release_quarantine_v1).
THEOREM AlwaysProcessedWhenDue == Spec => ProcessedWhenDue
<1>1. IInv /\ [Next]_vars => [NewlyDue]_vars
  <2> SUFFICES ASSUME IInv, Next
               PROVE  NewlyDue
    OBVIOUS
  <2>1. ASSUME NEW event \in Events, NEW body \in Bodies, NEW expected,
               Process(event, body, expected)
        PROVE  NewlyDue
    <3>1. PriorOf(document, event) = 0 \/ Released(document, event)
      BY <2>1 DEF Process
    <3>2. document.inbox \in Seq(Records)
      BY DEF IInv, TypeOK, IsDocument
    <3>3. PriorOf(document, event) = 0 =>
             \A i \in DOMAIN document.inbox : document.inbox[i].event # event
      <4>1. PICK s : s = document.inbox
        OBVIOUS
      <4>2. First(s, event) = 0 => \A i \in 1 .. Len(s) : s[i].event # event
        BY <3>2, <4>1, FirstFacts
      <4>3. DOMAIN s = 1 .. Len(s) /\ PriorOf(document, event) = First(s, event)
        BY <3>2, <4>1 DEF PriorOf, First
      <4> QED
        BY <4>1, <4>2, <4>3
    <3>4. DOMAIN document'.receipts \ DOMAIN document.receipts \subseteq {event} \ DOMAIN document.rows
      BY <2>1, ProcessStep
    <3> QED
      BY <3>1, <3>3, <3>4 DEF NewlyDue, Released
  <2>2. ASSUME DOMAIN document'.receipts \subseteq DOMAIN document.receipts
        PROVE  NewlyDue
    BY <2>2 DEF NewlyDue
  <2> QED
    BY <2>1, <2>2, QuarantineStep, ReplayStep, OthersStep DEF Next
<1> QED
  BY <1>1, Invariant, PTL DEF Spec, ProcessedWhenDue, NewlyDue
=============================================================================
