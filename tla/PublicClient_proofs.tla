------------------------- MODULE PublicClient_proofs -------------------------
(***************************************************************************)
(* Proofs about PublicClient for every deployment, set of operation ids,   *)
(* events and hosts.  The inductive invariant says, beside the types, what *)
(* a database holds of each request it has answered, that what is on its   *)
(* way (in a call, a journal or on the wire) names a revision its scope    *)
(* has reached and the row it was written with, and that every response a  *)
(* caller holds, keeps or was told is still justified by its host.         *)
(***************************************************************************)
EXTENDS PublicClient, FiniteSetTheorems, SequenceTheorems, TLAPS

-----------------------------------------------------------------------------
(* Types.                                                                  *)

Request ==
    {q \in [op : OperationIds, kind : {"create", "admit", "process"},
            what : Creations \cup Events \cup {"step"}, at : Nat, scope : Hosts] :
        q.kind = "admit" => q.what \in Events}

Root ==
    [revision : Nat, accepted : SUBSET Events, queue : Seq(Events),
     status : {"running", "completed", "faulted"}]

Commitment ==
    [status : {"committed"}, revision : Nat, receipt : Request \cup {None},
     disposition : {"created", "accepted", "not_runnable", "rejected"} \cup Dispositions]

Codes ==
    {"host_capability_mismatch", "creation_id_conflict", "invalid_instance_target", "terminal_root",
     "checkpoint_revision_conflict", "binding_unavailable", "missing_required_artifact",
     "operation_id_conflict"}

Rejection == [status : {"rejected"}, code : Codes]

Answer == Commitment \cup Rejection

Saved == [request : Request, response : Commitment]

\* A function to T from some of S.
IsPartial(f, S, T) == DOMAIN f \in SUBSET S /\ f \in [DOMAIN f -> T]

IsDatabase(d) ==
    /\ d = [setup |-> d.setup, root |-> d.root, saved |-> d.saved, changes |-> d.changes]
    /\ d.setup \in BOOLEAN
    /\ d.root \in Root \cup {None}
    /\ IsPartial(d.saved, OperationIds, Saved)
    /\ \A x \in d.changes : x \in [request : Request, revision : Nat]

Row == [endpoint : Endpoints, request : Request, answer : Answer \cup {None}]

Call ==
    {NoCall} \cup [phase : {"save"}, endpoint : Endpoints, request : Request]
    \cup [phase : {"wait"}, request : Request]
    \cup [phase : {"answered"}, request : Request, response : Answer]

Message == [client : Clients, endpoint : Endpoints, request : Request]

\* The databases, journals, calls and messages have the shape of their code.
TypeOK ==
    /\ plan \in Plans
    /\ host = [h \in Hosts |-> host[h]] /\ \A h \in Hosts : IsDatabase(host[h])
    /\ journal = [c \in Clients |-> journal[c]]
    /\ \A c \in Clients : IsPartial(journal[c], OperationIds, Row)
    /\ call \in [Callers -> Call]
    /\ alias \in [Clients -> Endpoints]
    /\ serving \in [Endpoints -> plan.hosts]
    /\ \A m \in wire : m \in Message
    /\ \A x \in told : x \in Clients \X Request \X Answer
    /\ moves \in Nat

-----------------------------------------------------------------------------
(* The inductive invariant.                                                *)

\* What a database holds: nothing before its root, the creation with it, and for
\* every change the response to the request that made it.
Sound(h, d) ==
    /\ d.root = None => DOMAIN d.saved = {} /\ d.changes = {}
    /\ d.root # None => \E op \in DOMAIN d.saved : d.saved[op].request.kind = "create"
    /\ \A op \in DOMAIN d.saved :
          d.saved[op].request.kind = "create" => d.saved[op].response.revision = 0
    /\ \A x \in d.changes :
          /\ x.request.scope = h /\ x.request.op \in DOMAIN d.saved
          /\ d.saved[x.request.op].request = x.request
    /\ \A x, y \in d.changes : x.request.kind = "create" /\ y.request.kind = "create" => x = y

HostsSound == \A h \in Hosts : Sound(h, host[h])

\* A request names no revision its scope has yet to reach.
Reached(q) ==
    q.kind # "create" => host[q.scope].root # None /\ q.at <= host[q.scope].root.revision

\* The scope has moved beyond the revision a request names, without it.
Outdated(q) ==
    /\ q.kind # "create"
    /\ host[q.scope].root # None /\ q.at < host[q.scope].root.revision
    /\ \A h \in Hosts : \A x \in host[h].changes : x.request # q

Justified(q, response) ==
    /\ response.status = "committed" =>
          /\ q.op \in DOMAIN host[q.scope].saved
          /\ host[q.scope].saved[q.op] = [request |-> q, response |-> response]
    /\ response = Moved => Outdated(q)

JournalSound ==
    \A c \in Clients : \A op \in DOMAIN journal[c] :
       /\ journal[c][op].request.op = op
       /\ Reached(journal[c][op].request)
       /\ journal[c][op].answer # None => Justified(journal[c][op].request, journal[c][op].answer)

\* The row a request was written with.
HasRow(c, q) == q.op \in DOMAIN journal[c] /\ journal[c][q.op].request = q

\* A call has a request its scope may have reached, from then on that of its row,
\* and the answer of its host.
CallSound(t, c) ==
    /\ c.phase = "save" => Reached(c.request)
    /\ c.phase \in {"wait", "answered"} => Reached(c.request) /\ HasRow(ClientOf[t], c.request)
    /\ c.phase = "answered" => Justified(c.request, c.response)

CallsSound == \A t \in Callers : CallSound(t, call[t])

WireSound ==
    \A m \in wire :
       /\ Reached(m.request) /\ HasRow(m.client, m.request)
       /\ journal[m.client][m.request.op].endpoint = m.endpoint

ToldSound == \A x \in told : Justified(x[2], x[3])

IInv == TypeOK /\ HostsSound /\ JournalSound /\ CallsSound /\ WireSound /\ ToldSound

-----------------------------------------------------------------------------
(* A host.                                                                 *)

\* What a database may become by one request.
Grown(h, d, e) ==
    /\ \A op \in DOMAIN d.saved : op \in DOMAIN e.saved /\ e.saved[op] = d.saved[op]
    /\ d.root # None => e.root # None /\ d.root.revision <= e.root.revision
    /\ \A y \in e.changes :
          \/ y \in d.changes
          \/ y.request.scope = h /\ (y.request.kind # "create" => y.request.at = d.root.revision)

\* None is no root, no request and no answer.
LEMMA NoneIsNothing == None \notin Root /\ None \notin Request /\ None \notin Answer
<1>1. \A r \in Root : "revision" \in DOMAIN r
  BY DEF Root
<1>2. \A q \in Request : "op" \in DOMAIN q
  BY DEF Request
<1>3. \A r \in Answer : "status" \in DOMAIN r
  BY DEF Answer, Commitment, Rejection
<1>4. DOMAIN None = {"none"}
  BY DEF None
<1> QED
  BY <1>1, <1>2, <1>3, <1>4

\* A rejection is an answer without a commitment, and two are equal when their codes are.
LEMMA RejectedAnswer ==
    ASSUME NEW code \in Codes
    PROVE  /\ Rejected(code) \in Answer /\ Rejected(code).status # "committed"
           /\ Rejected(code) = Moved => code = "checkpoint_revision_conflict"
<1>1. Rejected(code) \in Rejection /\ Rejected(code).status = "rejected"
  BY DEF Rejected, Rejection
<1>2. Rejected(code).code = code /\ Moved.code = "checkpoint_revision_conflict"
  BY DEF Rejected, Moved
<1> QED
  BY <1>1, <1>2 DEF Answer

\* The first creation of a root is one of the saved creations.
LEMMA FirstCreationSaved ==
    ASSUME NEW h, NEW d, IsDatabase(d), Sound(h, d), d.root # None
    PROVE  /\ FirstCreation(d) \in Saved
           /\ FirstCreation(d).request.kind = "create"
           /\ FirstCreation(d).response.revision = 0
<1> DEFINE All == {d.saved[op] : op \in DOMAIN d.saved}
<1>1. \E s \in All : s.request.kind = "create"
  BY DEF Sound
<1>2. FirstCreation(d) \in All /\ FirstCreation(d).request.kind = "create"
  BY <1>1 DEF FirstCreation
<1>3. PICK op \in DOMAIN d.saved : FirstCreation(d) = d.saved[op]
  BY <1>2
<1>4. d.saved[op] \in Saved
  BY DEF IsDatabase, IsPartial
<1> QED
  BY <1>2, <1>3, <1>4 DEF Sound

\* A root that accepts an event is a root.
LEMMA RootAdmits ==
    ASSUME NEW A, NEW Q, NEW S, NEW root \in [revision : Nat, accepted : A, queue : Q, status : S],
           NEW n \in Nat, NEW a \in A, NEW w \in Q
    PROVE  [root EXCEPT !.revision = n, !.accepted = a, !.queue = w]
                 \in [revision : Nat, accepted : A, queue : Q, status : S]
  OBVIOUS

\* A root after a step is a root.
LEMMA RootSteps ==
    ASSUME NEW A, NEW Q, NEW S, NEW root \in [revision : Nat, accepted : A, queue : Q, status : S],
           NEW n \in Nat, NEW w \in Q, NEW s \in S
    PROVE  [root EXCEPT !.revision = n, !.queue = w, !.status = s]
                 \in [revision : Nat, accepted : A, queue : Q, status : S]
  OBVIOUS

\* What an operation makes of a root: the new one, the same or the next revision.
LEMMA OutcomeRoot ==
    ASSUME NEW h, NEW d, IsDatabase(d), NEW q \in Request,
           q.kind # "create" => d.root # None, NEW x \in Outcomes(d, q)
    PROVE  /\ x.root \in Root
           /\ d.root # None => d.root.revision <= x.root.revision
           /\ q.kind = "create" /\ d.root # None => x.root = d.root
           /\ d.root = None => x.root = NewRoot
           /\ x.disposition \in {"created", "accepted", "not_runnable", "rejected"} \cup Dispositions
           /\ x.changed \in BOOLEAN
<1>1. d.root \in Root \cup {None}
  BY DEF IsDatabase
<1>2. q.kind \in {"create", "admit", "process"} /\ (q.kind = "admit" => q.what \in Events)
  BY DEF Request
<1>3. CASE d.root = None
  <2>1. q.kind = "create" /\ x = [root |-> NewRoot, disposition |-> "created", changed |-> TRUE]
    BY <1>3 DEF Outcomes
  <2>2. <<>> \in Seq(Events)
    OBVIOUS
  <2> QED
    BY <1>3, <2>1, <2>2 DEF NewRoot, Root
<1>4. CASE d.root # None
  <2>1. d.root \in Root
    BY <1>1, <1>4
  <2>2. CASE \E s \in {"created", "accepted", "not_runnable", "rejected"}, b \in BOOLEAN :
               x \in Stay(d, s, b)
    BY <2>1, <2>2, <1>4 DEF Stay, Root
  <2>3. CASE /\ q.kind = "admit"
             /\ x = [root |-> Admitted(d.root, q.what), disposition |-> "accepted", changed |-> TRUE]
    <3>1. Admitted(d.root, q.what) \in Root
      <4>1. q.what \in Events /\ d.root.queue \in Seq(Events)
        BY <2>1, <2>3, <1>2 DEF Root
      <4>2. Append(d.root.queue, q.what) \in Seq(Events)
        BY <4>1
      <4>3. d.root.revision + 1 \in Nat /\ d.root.accepted \cup {q.what} \in SUBSET Events
        BY <4>1, <2>1 DEF Root
      <4> QED
        BY <4>2, <4>3, <2>1, RootAdmits DEF Admitted, Root
    <3>2. Admitted(d.root, q.what).revision = d.root.revision + 1
      BY <2>1 DEF Admitted, Root
    <3>3. d.root.revision \in Nat
      BY <2>1 DEF Root
    <3> QED
      BY <2>3, <3>1, <3>2, <3>3, <1>4
  <2>4. CASE /\ q.kind = "process" /\ d.root.queue # <<>>
             /\ \E s \in Dispositions :
                   x = [root |-> Stepped(d.root, s), disposition |-> s, changed |-> TRUE]
    <3>1. PICK s \in Dispositions :
                   x = [root |-> Stepped(d.root, s), disposition |-> s, changed |-> TRUE]
      BY <2>4
    <3>2. Stepped(d.root, s) \in Root /\ Stepped(d.root, s).revision = d.root.revision + 1
      <4>1. Tail(d.root.queue) \in Seq(Events) /\ <<>> \in Seq(Events)
        BY <2>1, <2>4, HeadTailProperties DEF Root
      <4>2. d.root.revision + 1 \in Nat
        BY <2>1 DEF Root
      <4> DEFINE queue == IF s = "completed" THEN <<>> ELSE Tail(d.root.queue)
                 status == IF s = "handled" THEN "running" ELSE s
      <4>3. queue \in Seq(Events) /\ status \in {"running", "completed", "faulted"}
        BY <4>1 DEF Dispositions
      <4>4. Stepped(d.root, s) = [d.root EXCEPT !.revision = d.root.revision + 1, !.queue = queue,
                                               !.status = status]
        BY DEF Stepped
      <4> HIDE DEF queue, status
      <4>5. Stepped(d.root, s) \in Root
        <5>1. [d.root EXCEPT !.revision = d.root.revision + 1, !.queue = queue, !.status = status]
                 \in [revision : Nat, accepted : SUBSET Events, queue : Seq(Events),
                      status : {"running", "completed", "faulted"}]
          BY <4>2, <4>3, <2>1, RootSteps, Zenon DEF Root
        <5> QED
          BY <5>1, <4>4 DEF Root
      <4>6. Stepped(d.root, s).revision = d.root.revision + 1
        BY <4>4, <2>1 DEF Root
      <4> QED
        BY <4>5, <4>6
    <3>3. d.root.revision \in Nat
      BY <2>1 DEF Root
    <3> QED
      BY <2>4, <3>1, <3>2, <3>3, <1>4
  <2> QED
    BY <2>2, <2>3, <2>4, <1>2, <1>4 DEF Outcomes
<1> QED
  BY <1>3, <1>4

\* The response to an operation is a commitment; a creation answers revision 0.
LEMMA ResponseSound ==
    ASSUME NEW h, NEW d, IsDatabase(d), Sound(h, d), NEW q \in Request,
           q.kind # "create" => d.root # None, NEW x \in Outcomes(d, q)
    PROVE  /\ Response(d, q, x) \in Commitment
           /\ q.kind = "create" => Response(d, q, x).revision = 0
<1>1. CASE q.kind = "create" /\ d.root # None
  <2>1. Response(d, q, x) = [FirstCreation(d).response EXCEPT !.receipt = q]
    BY <1>1 DEF Response, Recreated
  <2>2. FirstCreation(d).response \in Commitment /\ FirstCreation(d).response.revision = 0
    BY <1>1, FirstCreationSaved DEF Saved
  <2> QED
    BY <2>1, <2>2 DEF Commitment
<1>2. CASE ~(q.kind = "create" /\ d.root # None)
  <2>1. Response(d, q, x) = Committed(q, x.disposition, x.root, x.changed)
    BY <1>2 DEF Response
  <2>2. /\ x.root \in Root
        /\ d.root = None => x.root = NewRoot
        /\ x.disposition \in {"created", "accepted", "not_runnable", "rejected"} \cup Dispositions
    BY OutcomeRoot
  <2>3. x.root.revision \in Nat
    BY <2>2 DEF Root
  <2>4. Committed(q, x.disposition, x.root, x.changed) \in Commitment
    BY <2>2, <2>3 DEF Committed, Commitment
  <2>5. q.kind = "create" => Committed(q, x.disposition, x.root, x.changed).revision = 0
    BY <1>2, <2>2 DEF Committed, NewRoot
  <2> QED
    BY <2>1, <2>4, <2>5
<1> QED
  BY <1>1, <1>2

\* A request that is executed and saved leaves a sound database with its response.
LEMMA SaveSound ==
    ASSUME NEW h, NEW d, IsDatabase(d), Sound(h, d), NEW q \in Request, q.scope = h,
           q.op \notin DOMAIN d.saved, q.kind # "create" => d.root # None,
           q.kind = "process" => d.root.revision = q.at,
           q.kind = "admit" /\ ~Known(d, q) => d.root.revision = q.at,
           NEW x \in Outcomes(d, q)
    PROVE  /\ IsDatabase(Save(d, q, x)) /\ Sound(h, Save(d, q, x)) /\ Grown(h, d, Save(d, q, x))
           /\ q.op \in DOMAIN Save(d, q, x).saved
           /\ Save(d, q, x).saved[q.op] = [request |-> q, response |-> Response(d, q, x)]
<1> DEFINE entry == [request |-> q, response |-> Response(d, q, x)]
           saved == [op \in DOMAIN d.saved \cup {q.op} |-> IF op = q.op THEN entry ELSE d.saved[op]]
           change == [request |-> q, revision |-> x.root.revision]
           changes == IF x.root = d.root THEN d.changes ELSE d.changes \cup {change}
           e == Save(d, q, x)
<1>1. /\ Response(d, q, x) \in Commitment
      /\ q.kind = "create" => Response(d, q, x).revision = 0
  BY ResponseSound
<1>2. /\ x.root \in Root
      /\ d.root # None => d.root.revision <= x.root.revision
      /\ q.kind = "create" /\ d.root # None => x.root = d.root
  BY OutcomeRoot
<1>3. /\ d = [setup |-> d.setup, root |-> d.root, saved |-> d.saved, changes |-> d.changes]
      /\ d.setup \in BOOLEAN
      /\ DOMAIN d.saved \in SUBSET OperationIds /\ d.saved \in [DOMAIN d.saved -> Saved]
      /\ \A y \in d.changes : y \in [request : Request, revision : Nat]
  BY DEF IsDatabase, IsPartial
<1>4. e = [setup |-> d.setup, root |-> x.root, saved |-> saved, changes |-> changes]
  <2>1. e = [d EXCEPT !.root = x.root, !.saved = saved, !.changes = changes]
    BY DEF Save
  <2> HIDE DEF saved, changes
  <2> QED
    BY <2>1, <1>3
<1>5. entry \in Saved /\ q.op \in OperationIds
  BY <1>1 DEF Saved, Request
<1>6. change \in [request : Request, revision : Nat]
  BY <1>2 DEF Root
<1>7. DOMAIN saved = DOMAIN d.saved \cup {q.op} /\ saved[q.op] = entry
  OBVIOUS
<1>8. \A op \in DOMAIN d.saved : op \in DOMAIN saved /\ saved[op] = d.saved[op]
  OBVIOUS
<1>9. IsPartial(saved, OperationIds, Saved)
  <2>1. DOMAIN saved \in SUBSET OperationIds
    BY <1>3, <1>5, <1>7
  <2>2. \A op \in DOMAIN saved : saved[op] \in Saved
    BY <1>3, <1>5
  <2>3. saved = [op \in DOMAIN saved |-> saved[op]]
    OBVIOUS
  <2> HIDE DEF saved
  <2> QED
    BY <2>1, <2>2, <2>3 DEF IsPartial
<1>10. entry.request = q /\ entry.response = Response(d, q, x) /\ change.request = q
  OBVIOUS
<1>11. \A y \in changes : y \in d.changes \/ (y = change /\ x.root # d.root)
  OBVIOUS
<1> HIDE DEF entry, saved, change, changes, e
<1>12. /\ e.setup = d.setup /\ e.root = x.root /\ e.saved = saved /\ e.changes = changes
       /\ e = [setup |-> e.setup, root |-> e.root, saved |-> e.saved, changes |-> e.changes]
  BY <1>4
<1>13. IsDatabase(e)
  BY <1>2, <1>3, <1>6, <1>9, <1>11, <1>12 DEF IsDatabase
<1>14. Grown(h, d, e)
  <2>1. d.root # None => e.root # None /\ d.root.revision <= e.root.revision
    BY <1>2, <1>12, NoneIsNothing
  <2>2. ASSUME NEW y \in e.changes
        PROVE  y \in d.changes \/ (y.request.scope = h /\ (y.request.kind # "create" => y.request.at = d.root.revision))
    <3>1. CASE y = change /\ x.root # d.root /\ q.kind # "create"
      <4>1. q.kind = "admit" \/ q.kind = "process"
        BY <3>1 DEF Request
      <4>2. q.kind = "admit" => ~Known(d, q)
        BY <3>1 DEF Outcomes, Stay
      <4> QED
        BY <3>1, <4>1, <4>2, <1>10
    <3> QED
      BY <2>2, <3>1, <1>10, <1>11, <1>12
  <2> QED
    BY <2>1, <2>2, <1>8, <1>12 DEF Grown
<1>15. Sound(h, e)
  <2>1. e.root # None
    BY <1>2, <1>12, NoneIsNothing
  <2>2. \E op \in DOMAIN e.saved : e.saved[op].request.kind = "create"
    <3>1. CASE d.root # None
      BY <3>1, <1>8, <1>12 DEF Sound
    <3>2. CASE d.root = None
      BY <3>2, <1>7, <1>10, <1>12
    <3> QED
      BY <3>1, <3>2
  <2>3. \A op \in DOMAIN e.saved : e.saved[op].request.kind = "create" => e.saved[op].response.revision = 0
    BY <1>1, <1>7, <1>8, <1>10, <1>12 DEF Sound
  <2>4. \A y \in e.changes : /\ y.request.scope = h /\ y.request.op \in DOMAIN e.saved
                            /\ e.saved[y.request.op].request = y.request
    BY <1>7, <1>8, <1>10, <1>11, <1>12 DEF Sound
  <2>5. \A y, z \in e.changes : y.request.kind = "create" /\ z.request.kind = "create" => y = z
    <3>1. CASE x.root = d.root
      BY <3>1, <1>11, <1>12 DEF Sound
    <3>2. CASE x.root # d.root /\ d.root # None
      BY <3>2, <1>2, <1>10, <1>11, <1>12 DEF Sound
    <3>3. CASE d.root = None
      BY <3>3, <1>11, <1>12 DEF Sound
    <3> QED
      BY <3>1, <3>2, <3>3
  <2> QED
    BY <2>1, <2>2, <2>3, <2>4, <2>5 DEF Sound
<1> QED
  BY <1>7, <1>10, <1>12, <1>13, <1>14, <1>15 DEF entry, e

\* Whatever a host makes of a request: its database stays sound and keeps what it
\* has saved, a commitment is saved, and who is told that the checkpoint has moved
\* has asked for a revision before the present one, without effect.
LEMMA HandleSound ==
    ASSUME TypeOK, HostsSound, NEW h \in Hosts, NEW q \in Request, Reached(q),
           NEW x \in Handle(h, q)
    PROVE  /\ IsDatabase(x.database) /\ Sound(h, x.database) /\ Grown(h, host[h], x.database)
           /\ x.response \in Answer
           /\ x.response.status = "committed" =>
                 /\ q.scope = h /\ q.op \in DOMAIN x.database.saved
                 /\ x.database.saved[q.op] = [request |-> q, response |-> x.response]
           /\ x.response = Moved =>
                 /\ q.scope = h /\ x.database = host[h] /\ q.kind # "create"
                 /\ host[h].root # None /\ q.at < host[h].root.revision
                 /\ \A y \in host[h].changes : y.request # q
<1> DEFINE d == host[h]
<1>1. IsDatabase(d) /\ Sound(h, d)
  BY DEF TypeOK, HostsSound
<1>2. Grown(h, d, d)
  <2>1. d.root # None => d.root.revision \in Nat
    BY <1>1 DEF IsDatabase, Root
  <2> HIDE DEF d
  <2> QED
    BY <2>1 DEF Grown
<1>3. ASSUME NEW code \in Codes, x = Unwritten(h, Rejected(code))
      PROVE  /\ x.database = d /\ x.response \in Answer /\ x.response.status # "committed"
             /\ x.response = Moved => code = "checkpoint_revision_conflict"
  <2>1. x.database = d /\ x.response = Rejected(code)
    BY <1>3 DEF Unwritten
  <2> HIDE DEF d
  <2> QED
    BY <2>1, RejectedAnswer
<1>4. ScopeRefusal(h, q) \in Codes \cup {"none"}
  BY DEF ScopeRefusal, Refusal, Codes
<1>5. ASSUME ScopeRefusal(h, q) = "checkpoint_revision_conflict"
      PROVE  /\ q.scope = h /\ q.kind # "create" /\ d.root # None /\ q.at < d.root.revision
             /\ \A y \in d.changes : y.request # q
  <2>1. q.scope = h /\ q.op \notin DOMAIN d.saved /\ Refusal(d, q) = "checkpoint_revision_conflict"
    BY <1>5 DEF ScopeRefusal
  <2>2. q.kind # "create" /\ d.root # None /\ d.root.revision # q.at
    BY <2>1 DEF Refusal, Precondition
  <2>3. q.at <= d.root.revision /\ q.at \in Nat /\ d.root.revision \in Nat
    <3>1. d.root \in Root
      BY <1>1, <2>2 DEF IsDatabase
    <3> QED
      BY <2>1, <2>2, <3>1 DEF Reached, Root, Request
  <2>4. \A y \in d.changes : y.request # q
    BY <2>1, <1>1 DEF Sound
  <2> HIDE DEF d
  <2> QED
    BY <2>1, <2>2, <2>3, <2>4
<1>6. CASE MayMissArtifact(h, q) /\ x = Unwritten(h, Rejected("missing_required_artifact"))
  <2>1. /\ x.database = d /\ x.response \in Answer /\ x.response.status # "committed"
        /\ x.response # Moved
    BY <1>3, <1>6 DEF Codes
  <2> QED
    BY <2>1, <1>1, <1>2
<1>7. CASE ScopeRefusal(h, q) # "none" /\ x = Unwritten(h, Rejected(ScopeRefusal(h, q)))
  <2>1. /\ x.database = d /\ x.response \in Answer /\ x.response.status # "committed"
        /\ x.response = Moved => ScopeRefusal(h, q) = "checkpoint_revision_conflict"
    <3>1. ScopeRefusal(h, q) \in Codes /\ x = Unwritten(h, Rejected(ScopeRefusal(h, q)))
      BY <1>4, <1>7
    <3> QED
      BY <3>1, <1>3
  <2> QED
    BY <2>1, <1>1, <1>2, <1>5
<1>8. CASE /\ ScopeRefusal(h, q) = "none" /\ q.op \in DOMAIN d.saved
           /\ x = Unwritten(h, Replayed(d, q))
  <2>1. q.scope = h
    BY <1>8 DEF ScopeRefusal
  <2>2. x.database = d /\ x.response = Replayed(d, q)
    BY <1>8 DEF Unwritten
  <2>3. CASE d.saved[q.op].request = q
    <3>1. d.saved[q.op] \in Saved /\ x.response = d.saved[q.op].response
      BY <2>2, <2>3, <1>1, <1>8 DEF Replayed, IsDatabase, IsPartial
    <3>2. x.response \in Commitment /\ d.saved[q.op] = [request |-> q, response |-> x.response]
      BY <3>1, <2>3 DEF Saved
    <3>3. x.response \in Answer /\ x.response # Moved
      BY <3>2 DEF Answer, Commitment, Moved, Rejected
    <3> QED
      BY <3>2, <3>3, <2>1, <2>2, <1>1, <1>2, <1>8
  <2>4. CASE d.saved[q.op].request # q
    <3>1. x.response = Rejected("operation_id_conflict")
      BY <2>2, <2>4 DEF Replayed
    <3>2. x.response \in Answer /\ x.response.status # "committed" /\ x.response # Moved
      BY <3>1, RejectedAnswer DEF Codes
    <3> QED
      BY <3>2, <2>2, <1>1, <1>2
  <2> QED
    BY <2>3, <2>4
<1>9. CASE /\ ScopeRefusal(h, q) = "none" /\ q.op \notin DOMAIN d.saved
           /\ \E y \in Outcomes(d, q) : x = [database |-> Save(d, q, y), response |-> Response(d, q, y)]
  <2>1. PICK y \in Outcomes(d, q) : x = [database |-> Save(d, q, y), response |-> Response(d, q, y)]
    BY <1>9
  <2>2. q.scope = h /\ Refusal(d, q) = "none"
    BY <1>9 DEF ScopeRefusal
  <2>3. /\ q.kind # "create" => d.root # None
        /\ q.kind = "process" => d.root.revision = q.at
        /\ q.kind = "admit" /\ ~Known(d, q) => d.root.revision = q.at
    BY <2>2 DEF Refusal, Precondition
  <2>4. Response(d, q, y) \in Commitment
    BY <1>1, <2>3, ResponseSound
  <2>5. /\ IsDatabase(Save(d, q, y)) /\ Sound(h, Save(d, q, y)) /\ Grown(h, d, Save(d, q, y))
        /\ q.op \in DOMAIN Save(d, q, y).saved
        /\ Save(d, q, y).saved[q.op] = [request |-> q, response |-> Response(d, q, y)]
    BY <1>1, <1>9, <2>2, <2>3, SaveSound
  <2>6. x.response \in Answer /\ x.response # Moved
    BY <2>1, <2>4 DEF Answer, Commitment, Moved, Rejected
  <2> QED
    BY <2>1, <2>2, <2>5, <2>6
<1> QED
  BY <1>6, <1>7, <1>8, <1>9 DEF Handle

\* What was justified by a host stays so when the host answers another request.
LEMMA HostStep ==
    ASSUME TypeOK, HostsSound, NEW h \in Hosts, NEW e, IsDatabase(e), Sound(h, e),
           Grown(h, host[h], e), host' = [host EXCEPT ![h] = e]
    PROVE  /\ host' = [g \in Hosts |-> host'[g]] /\ \A g \in Hosts : IsDatabase(host'[g])
           /\ HostsSound'
           /\ \A q \in Request : Reached(q) => Reached(q)'
           /\ \A q \in Request, r \in Answer : Justified(q, r) => Justified(q, r)'
<1>1. \A g \in Hosts : IsDatabase(host[g]) /\ Sound(g, host[g])
  BY DEF TypeOK, HostsSound
<1>2. host = [g \in Hosts |-> host[g]]
  BY DEF TypeOK
<1>3. host'[h] = e /\ \A g \in Hosts : g # h => host'[g] = host[g]
  BY <1>2
<1>4. host' = [g \in Hosts |-> host'[g]]
  BY <1>2
<1>5. \A g \in Hosts : IsDatabase(host'[g]) /\ Sound(g, host'[g])
  BY <1>1, <1>3
<1>6. \A g \in Hosts : host[g].root # None =>
         /\ host'[g].root # None /\ host[g].root.revision <= host'[g].root.revision
         /\ host[g].root.revision \in Nat /\ host'[g].root.revision \in Nat
  <2> SUFFICES ASSUME NEW g \in Hosts, host[g].root # None
               PROVE  /\ host'[g].root # None /\ host[g].root.revision <= host'[g].root.revision
                      /\ host[g].root.revision \in Nat /\ host'[g].root.revision \in Nat
    OBVIOUS
  <2>1. host[g].root.revision \in Nat
    BY <1>1 DEF IsDatabase, Root
  <2>2. host'[g].root # None /\ host[g].root.revision <= host'[g].root.revision
    BY <1>3, <2>1 DEF Grown
  <2>3. host'[g].root.revision \in Nat
    BY <1>5, <2>2 DEF IsDatabase, Root
  <2> QED
    BY <2>1, <2>2, <2>3
<1>7. ASSUME NEW q \in Request, Reached(q)
      PROVE  Reached(q)'
  <2>1. q.scope \in Hosts /\ q.at \in Nat
    BY DEF Request
  <2> QED
    BY <2>1, <1>6, <1>7 DEF Reached
<1>8. ASSUME NEW q \in Request, Outdated(q)
      PROVE  Outdated(q)'
  <2>1. q.scope \in Hosts /\ q.at \in Nat
    BY DEF Request
  <2>2. host'[q.scope].root # None /\ q.at < host'[q.scope].root.revision
    BY <2>1, <1>6, <1>8 DEF Outdated
  <2>3. ASSUME NEW g \in Hosts, NEW y \in host'[g].changes, y.request = q
        PROVE  FALSE
    <3>1. g = h /\ y \notin host[g].changes
      BY <2>3, <1>3, <1>8 DEF Outdated
    <3>2. q.scope = h /\ q.at = host[h].root.revision
      BY <2>3, <3>1, <1>3, <1>8 DEF Grown, Outdated
    <3> QED
      BY <3>2, <2>1, <1>6, <1>8 DEF Outdated
  <2> QED
    BY <2>2, <2>3, <1>8 DEF Outdated
<1>9. ASSUME NEW q \in Request, NEW r \in Answer, Justified(q, r)
      PROVE  Justified(q, r)'
  <2>1. q.scope \in Hosts
    BY DEF Request
  <2>2. \A op \in DOMAIN host[q.scope].saved :
           op \in DOMAIN host'[q.scope].saved /\ host'[q.scope].saved[op] = host[q.scope].saved[op]
    BY <2>1, <1>3 DEF Grown
  <2> QED
    BY <2>2, <1>8, <1>9 DEF Justified, Moved, Rejected
<1>10. HostsSound'
  BY <1>5 DEF HostsSound
<1> QED
  BY <1>4, <1>5, <1>7, <1>9, <1>10

-----------------------------------------------------------------------------
(* The clients.                                                            *)

\* What no step takes back: what is justified, and the request and the endpoint of
\* a row.
Keeps ==
    /\ plan' = plan
    /\ \A q \in Request : Reached(q) => Reached(q)'
    /\ \A q \in Request, r \in Answer : Justified(q, r) => Justified(q, r)'
    /\ \A c \in Clients : \A op \in DOMAIN journal[c] :
          /\ op \in DOMAIN journal'[c]
          /\ journal'[c][op].request = journal[c][op].request
          /\ journal'[c][op].endpoint = journal[c][op].endpoint

\* The plan fixes who calls whom and what may be stored.
LEMMA PlanFixed ==
    ASSUME plan' = plan
    PROVE  /\ Callers' = Callers /\ ClientOf' = ClientOf /\ Clients' = Clients
           /\ Endpoints' = Endpoints /\ Row' = Row /\ Call' = Call /\ Message' = Message
<1>1. Callers' = Callers /\ ClientOf' = ClientOf /\ Endpoints' = Endpoints
  BY DEF Callers, ClientOf, Endpoints
<1>2. Clients' = Clients
  BY <1>1 DEF Clients
<1> QED
  BY <1>1, <1>2 DEF Row, Call, Message

\* A caller has a client, and its journal rows and its wishes are typed.
LEMMA CallerTypes ==
    ASSUME TypeOK, NEW t \in Callers
    PROVE  /\ ClientOf[t] \in Clients /\ t \in DOMAIN plan.wanted
           /\ \A q \in plan.wanted[t] : q \in Wishes
           /\ plan.hosts \subseteq Hosts
           /\ Journal(t) \in [DOMAIN Journal(t) -> Row] /\ DOMAIN Journal(t) \subseteq OperationIds
<1>1. ClientOf[t] \in Clients
  BY DEF Clients
<1>2. plan \in Plans
  BY DEF TypeOK
<1>3. /\ DOMAIN plan.clientOf = DOMAIN plan.wanted /\ plan.hosts \subseteq Hosts
      /\ \A u \in DOMAIN plan.wanted : plan.wanted[u] \subseteq Wishes
  BY <1>2, ClientAssumption
<1>4. IsPartial(journal[ClientOf[t]], OperationIds, Row)
  BY <1>1 DEF TypeOK
<1> QED
  BY <1>1, <1>3, <1>4 DEF Callers, Journal, IsPartial

\* Steps that leave the journals, or only add to them, leave the rows written.
LEMMA RowsKept ==
    ASSUME TypeOK, Keeps, NEW c \in Clients, NEW q, HasRow(c, q)
    PROVE  HasRow(c, q)'
  BY DEF HasRow, Keeps

\* The wire is sound after a step that sends nothing.
LEMMA WireKept ==
    ASSUME IInv, Keeps, wire' = wire
    PROVE  WireSound'
<1> SUFFICES ASSUME NEW m \in wire
             PROVE  /\ Reached(m.request)' /\ HasRow(m.client, m.request)'
                    /\ journal'[m.client][m.request.op].endpoint = m.endpoint
  BY DEF WireSound
<1>1. m.client \in Clients /\ m.request \in Request
  BY DEF IInv, TypeOK, Message
<1>2. /\ Reached(m.request) /\ HasRow(m.client, m.request)
      /\ journal[m.client][m.request.op].endpoint = m.endpoint
  BY DEF IInv, WireSound
<1>3. HasRow(m.client, m.request)'
  BY <1>1, <1>2, RowsKept DEF IInv
<1> QED
  BY <1>1, <1>2, <1>3 DEF Keeps, HasRow

\* A call that has not changed is as sound as it was.
LEMMA CallKept ==
    ASSUME IInv, Keeps, NEW t \in Callers, call'[t] = call[t]
    PROVE  CallSound(t, call[t])'
<1>1. CallSound(t, call[t]) /\ ClientOf[t] \in Clients /\ call[t] \in Call
  BY CallerTypes DEF IInv, CallsSound, TypeOK
<1>2. ClientOf' = ClientOf
  BY PlanFixed DEF Keeps
<1>3. CASE call[t].phase = "save"
  <2>1. call[t].request \in Request
    BY <1>1, <1>3 DEF Call, NoCall
  <2> QED
    BY <1>1, <1>3, <2>1 DEF CallSound, Keeps
<1>4. CASE call[t].phase \in {"wait", "answered"}
  <2>1. /\ call[t].request \in Request
        /\ call[t].phase = "answered" => call[t].response \in Answer
    BY <1>1, <1>4 DEF Call, NoCall
  <2>2. HasRow(ClientOf[t], call[t].request)'
    BY <1>1, <1>2, <1>4, RowsKept DEF CallSound, IInv
  <2> QED
    BY <1>1, <1>2, <1>4, <2>1, <2>2 DEF CallSound, Keeps
<1> QED
  BY <1>3, <1>4 DEF CallSound

\* One caller goes on, the others stay.
LEMMA CallMoves ==
    ASSUME IInv, Keeps, NEW t \in Callers, NEW c \in Call, At(t, c), CallSound(t, c)'
    PROVE  call' \in [Callers -> Call] /\ CallsSound'
<1>1. call \in [Callers -> Call] /\ Callers' = Callers
  BY PlanFixed DEF IInv, TypeOK, Keeps
<1>2. call' = [call EXCEPT ![t] = c]
  BY DEF At
<1>3. \A u \in Callers : CallSound(u, call[u])'
  <2> TAKE u \in Callers
  <2>1. CASE u = t
    BY <1>1, <1>2, <2>1
  <2>2. CASE u # t
    BY <1>1, <1>2, <2>2, CallKept
  <2> QED
    BY <2>1, <2>2
<1> QED
  BY <1>1, <1>2, <1>3 DEF CallsSound

\* The journals are sound after a step that writes none.
LEMMA JournalKept ==
    ASSUME IInv, Keeps, journal' = journal
    PROVE  JournalSound'
<1>1. Clients' = Clients
  BY PlanFixed DEF Keeps
<1> SUFFICES ASSUME NEW c \in Clients, NEW op \in DOMAIN journal[c]
             PROVE  /\ journal[c][op].request.op = op
                    /\ Reached(journal[c][op].request)'
                    /\ journal[c][op].answer # None =>
                          Justified(journal[c][op].request, journal[c][op].answer)'
  BY <1>1 DEF JournalSound
<1>2. journal[c][op] \in Row
  BY DEF IInv, TypeOK, IsPartial
<1>3. journal[c][op].request \in Request /\ journal[c][op].answer \in Answer \cup {None}
  BY <1>2 DEF Row
<1> QED
  BY <1>3 DEF IInv, JournalSound, Keeps

\* A caller is told a response its host justifies.
LEMMA TellSound ==
    ASSUME IInv, Keeps, NEW t \in Callers, NEW q \in Request, NEW r \in Answer,
           Justified(q, r), Tell(t, q, r)
    PROVE  ToldSound' /\ \A x \in told' : x \in Clients \X Request \X Answer
<1>1. \A x \in told' : x \in told \/ x = <<ClientOf[t], q, r>>
  BY DEF Tell
<1>2. ClientOf[t] \in Clients
  BY CallerTypes DEF IInv
<1>3. \A x \in told : x \in Clients \X Request \X Answer /\ Justified(x[2], x[3])
  BY DEF IInv, TypeOK, ToldSound
<1>4. \A x \in told' : x \in Clients \X Request \X Answer /\ Justified(x[2], x[3])
  BY <1>1, <1>2, <1>3
<1>5. \A x \in told' : Justified(x[2], x[3])'
  BY <1>4 DEF Keeps
<1> QED
  BY <1>4, <1>5 DEF ToldSound

\* What was told stays justified.
LEMMA ToldKept ==
    ASSUME IInv, Keeps, told' = told
    PROVE  ToldSound'
  BY DEF IInv, TypeOK, ToldSound, Keeps

\* Without a change of the hosts and the journals everything is kept.
LEMMA NothingKept ==
    ASSUME TypeOK, plan' = plan, host' = host, journal' = journal
    PROVE  Keeps
<1>1. \A q : Reached(q) => Reached(q)'
  BY DEF Reached
<1>2. \A q, r : Justified(q, r) => Justified(q, r)'
  BY DEF Justified, Outdated, Moved, Rejected
<1> QED
  BY <1>1, <1>2 DEF Keeps

\* A step of one call keeps the invariant if its new state is sound.
LEMMA OnlyCall ==
    ASSUME IInv, NEW t \in Callers, NEW c \in Call, At(t, c), plan' = plan,
           UNCHANGED <<host, journal, alias, serving, wire, told, moves>>,
           CallSound(t, c)'
    PROVE  IInv'
<1>1. Keeps
  BY NothingKept DEF IInv
<1>2. CallsSound' /\ call' \in [Callers -> Call]
  BY <1>1, CallMoves
<1>3. JournalSound' /\ WireSound' /\ ToldSound'
  BY <1>1, JournalKept, WireKept, ToldKept
<1>4. HostsSound'
  BY DEF IInv, HostsSound
<1>5. TypeOK'
  BY <1>2, PlanFixed DEF IInv, TypeOK
<1> QED
  BY <1>2, <1>3, <1>4, <1>5 DEF IInv

\* A request is resolved for the host whose revision its caller has read.
LEMMA SubmitStep ==
    ASSUME IInv, NEW t \in Callers, Submit(t), plan' = plan
    PROVE  IInv'
<1>0. PICK q \in Requests(t) : \E e, h, r :
         /\ e = alias[ClientOf[t]] /\ h = serving[e] /\ r = Resolved(q, h)
         /\ At(t, [phase |-> "save", endpoint |-> e, request |-> r])
  BY DEF Submit
<1>1. PICK e, h, r :
         /\ e = alias[ClientOf[t]] /\ h = serving[e] /\ r = Resolved(q, h)
         /\ At(t, [phase |-> "save", endpoint |-> e, request |-> r])
  BY <1>0
<1> DEFINE c == [phase |-> "save", endpoint |-> e, request |-> r]
<1>2. /\ e \in Endpoints /\ h \in Hosts
      /\ q \in Wishes /\ (q.kind = "create" \/ q.at \in Readable(t))
  BY <1>1, CallerTypes DEF IInv, TypeOK, Requests
<1>3. IsDatabase(host[h])
  BY <1>2 DEF IInv, TypeOK
<1>4. r \in Request
  BY <1>1, <1>2 DEF Wishes, Request, Resolved
<1>5. c \in Call
  BY <1>2, <1>4 DEF Call
<1>6. Reached(r)
  <2>1. q.kind # "create" => host[h].root # None /\ q.at \in 0 .. host[h].root.revision
    BY <1>1, <1>2 DEF Readable
  <2>2. host[h].root # None => host[h].root.revision \in Nat
    BY <1>3 DEF IsDatabase, Root
  <2>3. r.kind = q.kind /\ r.scope = h /\ r.at = q.at
    BY <1>1 DEF Resolved
  <2> QED
    BY <2>1, <2>2, <2>3 DEF Reached
<1>7. At(t, c) /\ c.phase = "save" /\ c.request = r
  BY <1>1
<1>8. UNCHANGED <<host, journal, alias, serving, wire, told, moves>>
  BY DEF Submit
<1>9. CallSound(t, c)'
  <2>1. Reached(r)'
    BY <1>6, <1>8 DEF Reached
  <2> HIDE DEF c
  <2> QED
    BY <1>7, <2>1 DEF CallSound
<1> HIDE DEF c
<1> QED
  BY <1>5, <1>7, <1>8, <1>9, OnlyCall

\* A call that ends has nothing to be justified.
LEMMA CallEnds ==
    ASSUME IInv, NEW t \in Callers, At(t, NoCall), plan' = plan,
           UNCHANGED <<host, journal, alias, serving, wire, told, moves>>
    PROVE  IInv'
<1>1. NoCall \in Call /\ NoCall.phase = "idle"
  BY DEF Call, NoCall
<1>2. CallSound(t, NoCall)'
  BY <1>1 DEF CallSound, NoCall
<1> QED
  BY <1>1, <1>2, OnlyCall

\* A row is written for an operation the journal has none for.
LEMMA SaveRequestStep ==
    ASSUME IInv, NEW t \in Callers, SaveRequest(t), plan' = plan
    PROVE  IInv'
<1> DEFINE c == ClientOf[t]
           q == call[t].request
           row == RowFor(t)
           rows == [op \in DOMAIN journal[c] \cup {q.op} |-> IF op = q.op THEN row ELSE journal[c][op]]
<1>1. c \in Clients /\ call[t] \in Call /\ call[t].phase = "save" /\ CallSound(t, call[t])
  BY CallerTypes DEF IInv, TypeOK, CallsSound, SaveRequest
<1>2. q \in Request /\ call[t].endpoint \in Endpoints /\ Reached(q)
  BY <1>1 DEF Call, NoCall, CallSound
<1>3. row \in Row /\ row.request = q /\ row.answer = None
  BY <1>2 DEF RowFor, Row
<1>4. q.op \notin DOMAIN journal[c] /\ q.op \in OperationIds
  BY <1>2 DEF SaveRequest, MayInsert, Journal, Request
<1>5. journal' = [journal EXCEPT ![c] = rows] /\ journal = [d \in Clients |-> journal[d]]
  BY DEF SaveRequest, IInv, TypeOK
<1>6. DOMAIN journal[c] \subseteq OperationIds /\ journal[c] \in [DOMAIN journal[c] -> Row]
  BY CallerTypes DEF IInv, Journal
<1>7. /\ DOMAIN rows = DOMAIN journal[c] \cup {q.op} /\ rows[q.op] = row
      /\ \A op \in DOMAIN journal[c] : rows[op] = journal[c][op]
      /\ rows = [op \in DOMAIN rows |-> rows[op]]
  BY <1>4
<1> HIDE DEF rows, row
<1>8. IsPartial(rows, OperationIds, Row)
  BY <1>3, <1>4, <1>6, <1>7 DEF IsPartial
<1>9. journal'[c] = rows /\ \A d \in Clients : d # c => journal'[d] = journal[d]
  BY <1>1, <1>5
<1>10. UNCHANGED <<host, alias, serving, wire, told, moves>> /\ At(t, NoCall)
  BY DEF SaveRequest
<1>11. Keeps
  <2>1. \A p : Reached(p) => Reached(p)'
    BY <1>10 DEF Reached
  <2>2. \A p, r : Justified(p, r) => Justified(p, r)'
    BY <1>10 DEF Justified, Outdated, Moved, Rejected
  <2>3. \A d \in Clients : \A op \in DOMAIN journal[d] :
           op \in DOMAIN journal'[d] /\ journal'[d][op] = journal[d][op]
    BY <1>7, <1>9
  <2> QED
    BY <2>1, <2>2, <2>3 DEF Keeps
<1>12. call' \in [Callers -> Call] /\ CallsSound'
  <2>1. NoCall \in Call /\ CallSound(t, NoCall)'
    BY DEF Call, NoCall, CallSound
  <2> QED
    BY <2>1, <1>10, <1>11, CallMoves
<1>13. JournalSound'
  <2>1. Clients' = Clients
    BY PlanFixed
  <2> SUFFICES ASSUME NEW d \in Clients, NEW op \in DOMAIN journal'[d],
                      NEW x, x = journal'[d][op]
               PROVE  /\ x.request.op = op /\ Reached(x.request)'
                      /\ x.answer # None => Justified(x.request, x.answer)'
    BY <2>1 DEF JournalSound
  <2>2. CASE op \in DOMAIN journal[d]
    <3>1. x = journal[d][op]
      BY <2>2, <1>7, <1>9
    <3>2. journal[d][op] \in Row
      BY <2>2 DEF IInv, TypeOK, IsPartial
    <3>3. journal[d][op].request \in Request /\ journal[d][op].answer \in Answer \cup {None}
      BY <3>2 DEF Row
    <3> QED
      BY <3>1, <3>3, <2>2, <1>11 DEF IInv, JournalSound, Keeps
  <2>3. CASE op \notin DOMAIN journal[d]
    <3>1. d = c /\ op = q.op /\ x = row
      BY <2>3, <1>7, <1>9
    <3> QED
      BY <3>1, <1>2, <1>3, <1>11 DEF Keeps
  <2> QED
    BY <2>2, <2>3
<1>14. WireSound' /\ ToldSound' /\ HostsSound'
  BY <1>10, <1>11, WireKept, ToldKept DEF IInv, HostsSound
<1>15. TypeOK'
  <2>1. journal' = [d \in Clients |-> journal'[d]]
    BY <1>5
  <2>2. \A d \in Clients : IsPartial(journal'[d], OperationIds, Row)
    BY <1>8, <1>9 DEF IInv, TypeOK
  <2> QED
    BY <2>1, <2>2, <1>10, <1>12, PlanFixed DEF IInv, TypeOK
<1> QED
  BY <1>12, <1>13, <1>14, <1>15 DEF IInv

\* A row of a client is typed and sound.
LEMMA RowTyped ==
    ASSUME IInv, NEW t \in Callers, NEW op \in DOMAIN Journal(t)
    PROVE  /\ ClientOf[t] \in Clients /\ Journal(t)[op].request.op = op
           /\ Journal(t)[op].request \in Request /\ Journal(t)[op].endpoint \in Endpoints
           /\ Journal(t)[op].answer \in Answer \cup {None}
           /\ Reached(Journal(t)[op].request)
           /\ Journal(t)[op].answer # None => Justified(Journal(t)[op].request, Journal(t)[op].answer)
           /\ HasRow(ClientOf[t], Journal(t)[op].request)
<1>1. ClientOf[t] \in Clients /\ Journal(t)[op] \in Row
  BY CallerTypes DEF IInv
<1> QED
  BY <1>1 DEF IInv, JournalSound, Journal, Row, HasRow

\* An answer that is told from a journal or by the host itself.
LEMMA TellStep ==
    ASSUME IInv, NEW t \in Callers, NEW q \in Request, NEW r \in Answer,
           Justified(q, r), Tell(t, q, r), plan' = plan,
           UNCHANGED <<host, journal, call, alias, serving, wire, moves>>
    PROVE  IInv'
<1>1. Keeps
  BY NothingKept DEF IInv
<1>2. ToldSound' /\ \A x \in told' : x \in Clients \X Request \X Answer
  BY <1>1, TellSound
<1>3. CallsSound'
  <2>1. Callers' = Callers
    BY PlanFixed
  <2> QED
    BY <2>1, <1>1, CallKept DEF CallsSound
<1>4. JournalSound' /\ WireSound' /\ HostsSound'
  BY <1>1, JournalKept, WireKept DEF IInv, HostsSound
<1>5. TypeOK'
  BY <1>2, PlanFixed DEF IInv, TypeOK
<1> QED
  BY <1>2, <1>3, <1>4, <1>5 DEF IInv

\* retry tells the answer of the row.
LEMMA GiveKeptStep ==
    ASSUME IInv, NEW t \in Callers, NEW op \in DOMAIN Journal(t), GiveKept(t, op), plan' = plan
    PROVE  IInv'
<1>1. PICK q, r : q = Journal(t)[op].request /\ r = Journal(t)[op].answer
  OBVIOUS
<1>2. q \in Request /\ r \in Answer /\ Justified(q, r)
  BY <1>1, RowTyped DEF GiveKept
<1>3. Tell(t, q, r) /\ UNCHANGED <<host, journal, call, alias, serving, wire, moves>>
  BY <1>1 DEF GiveKept
<1> QED
  BY <1>2, <1>3, TellStep

\* receipt tells what the host has saved for the very request of the row.
LEMMA ReceiptStep ==
    ASSUME IInv, NEW t \in Callers, NEW op \in DOMAIN Journal(t), Receipt(t, op), plan' = plan
    PROVE  IInv'
<1>1. PICK row, h : row = Journal(t)[op] /\ h = serving[row.endpoint]
  OBVIOUS
<1>2. PICK r : r = host[h].saved[op].response
  OBVIOUS
<1>3. /\ row.request.scope = h /\ op \in DOMAIN host[h].saved
      /\ host[h].saved[op].request = row.request
      /\ Tell(t, row.request, r) /\ UNCHANGED <<host, journal, call, alias, serving, wire, moves>>
  BY <1>1, <1>2 DEF Receipt
<1>4. row.request \in Request /\ row.request.op = op
  BY <1>1, RowTyped
<1>5. h \in Hosts
  BY <1>3, <1>4 DEF Request
<1>6. IsDatabase(host[h])
  BY <1>5 DEF IInv, TypeOK
<1>7. host[h].saved[op] \in Saved
  BY <1>3, <1>6 DEF IsDatabase, IsPartial
<1>8. r \in Commitment /\ host[h].saved[op] = [request |-> row.request, response |-> r]
  BY <1>2, <1>3, <1>7 DEF Saved
<1>9. r \in Answer /\ r # Moved
  BY <1>8 DEF Answer, Commitment, Moved, Rejected
<1>10. Justified(row.request, r)
  BY <1>3, <1>4, <1>8, <1>9 DEF Justified
<1> QED
  BY <1>3, <1>4, <1>9, <1>10, TellStep

\* A message carries the request and the endpoint of a row.
LEMMA SendStep ==
    ASSUME IInv, NEW t \in Callers, NEW op \in DOMAIN Journal(t), Send(t, op), plan' = plan
    PROVE  IInv'
<1>1. PICK q, e : q = Journal(t)[op].request /\ e = Journal(t)[op].endpoint
  OBVIOUS
<1> DEFINE m == [client |-> ClientOf[t], endpoint |-> e, request |-> q]
           c == [phase |-> "wait", request |-> q]
<1>2. /\ ClientOf[t] \in Clients /\ q \in Request /\ q.op = op /\ e \in Endpoints
      /\ Reached(q) /\ HasRow(ClientOf[t], q)
  BY <1>1, RowTyped
<1>3. /\ UNCHANGED <<host, journal, alias, serving, told, moves>>
      /\ wire' = wire \cup {m} /\ At(t, c)
  BY <1>1 DEF Send, SavedEndpoint
<1>4. Keeps
  BY <1>3, NothingKept DEF IInv
<1>5. m \in Message /\ m.client = ClientOf[t] /\ m.endpoint = e /\ m.request = q
  BY <1>2 DEF Message
<1>6. c \in Call /\ c.phase = "wait" /\ c.request = q
  BY <1>2 DEF Call
<1> HIDE DEF m, c
<1>7. ClientOf' = ClientOf /\ Callers' = Callers
  BY PlanFixed
<1>8. call' \in [Callers -> Call] /\ CallsSound'
  <2>1. PICK k \in Clients : k = ClientOf[t]
    BY <1>2
  <2>2. Reached(q)' /\ HasRow(k, q)'
    BY <2>1, <1>2, <1>4, RowsKept DEF IInv, Keeps
  <2>3. CallSound(t, c)'
    BY <2>1, <2>2, <1>6, <1>7 DEF CallSound
  <2> QED
    BY <2>3, <1>3, <1>4, <1>6, CallMoves
<1>9. WireSound'
  <2>1. \A n \in wire : /\ n.request \in Request /\ Reached(n.request) /\ HasRow(n.client, n.request)
                       /\ journal[n.client][n.request.op].endpoint = n.endpoint
    BY DEF IInv, TypeOK, Message, WireSound
  <2>2. journal[m.client][m.request.op].endpoint = m.endpoint
    BY <1>1, <1>2, <1>5 DEF Journal
  <2>3. \A n \in wire' : /\ n.request \in Request /\ Reached(n.request) /\ HasRow(n.client, n.request)
                        /\ journal[n.client][n.request.op].endpoint = n.endpoint
    BY <2>1, <2>2, <1>2, <1>3, <1>5
  <2> QED
    BY <2>3, <1>3, <1>4 DEF WireSound, Keeps, HasRow
<1>10. JournalSound' /\ ToldSound' /\ HostsSound'
  BY <1>3, <1>4, JournalKept, ToldKept DEF IInv, HostsSound
<1>11. TypeOK'
  BY <1>3, <1>5, <1>8, PlanFixed DEF IInv, TypeOK
<1> QED
  BY <1>8, <1>9, <1>10, <1>11 DEF IInv

\* The first answer is kept with the row whose request it answers.
LEMMA TakeAnswerStep ==
    ASSUME IInv, NEW t \in Callers, TakeAnswer(t), plan' = plan
    PROVE  IInv'
<1>1. PICK c, q, r : c = ClientOf[t] /\ q = call[t].request /\ r = call[t].response
  OBVIOUS
<1>2. /\ journal' = [journal EXCEPT ![c][q.op] = Kept(@, r)]
      /\ Tell(t, q, r) /\ At(t, NoCall) /\ UNCHANGED <<host, alias, serving, wire, moves>>
  BY <1>1 DEF TakeAnswer
<1>3. c \in Clients /\ call[t] \in Call /\ call[t].phase = "answered" /\ CallSound(t, call[t])
  BY <1>1, CallerTypes DEF IInv, TypeOK, CallsSound, TakeAnswer
<1>4. q \in Request /\ r \in Answer /\ HasRow(c, q) /\ Justified(q, r)
  BY <1>1, <1>3 DEF Call, NoCall, CallSound
<1>5. q.op \in DOMAIN journal[c] /\ journal[c][q.op].request = q
  BY <1>4 DEF HasRow
<1>6. journal = [d \in Clients |-> journal[d]] /\ journal[c] \in [DOMAIN journal[c] -> Row]
  BY <1>3 DEF IInv, TypeOK, IsPartial
<1> DEFINE row == Kept(journal[c][q.op], r)
           rows == [journal[c] EXCEPT ![q.op] = row]
<1>7. row \in Row /\ row.request = q /\ row.endpoint = journal[c][q.op].endpoint
      /\ row.answer \in {r, journal[c][q.op].answer}
  <2>1. journal[c][q.op] \in Row
    BY <1>5, <1>6
  <2> QED
    BY <2>1, <1>4, <1>5 DEF Kept, Row
<1>8. journal'[c] = rows /\ \A d \in Clients : d # c => journal'[d] = journal[d]
  BY <1>2, <1>3, <1>6
<1> HIDE DEF row
<1>9. /\ DOMAIN rows = DOMAIN journal[c] /\ rows[q.op] = row
      /\ \A op \in DOMAIN journal[c] : op # q.op => rows[op] = journal[c][op]
      /\ rows \in [DOMAIN journal[c] -> Row]
  BY <1>5, <1>6, <1>7
<1> HIDE DEF rows
<1>10. Keeps
  <2>1. \A p : Reached(p) => Reached(p)'
    BY <1>2 DEF Reached
  <2>2. \A p, a : Justified(p, a) => Justified(p, a)'
    BY <1>2 DEF Justified, Outdated, Moved, Rejected
  <2>3. ASSUME NEW d \in Clients, NEW op \in DOMAIN journal[d]
        PROVE  /\ op \in DOMAIN journal'[d]
               /\ journal'[d][op].request = journal[d][op].request
               /\ journal'[d][op].endpoint = journal[d][op].endpoint
    BY <1>5, <1>7, <1>8, <1>9
  <2> QED
    BY <2>1, <2>2, <2>3 DEF Keeps
<1>11. call' \in [Callers -> Call] /\ CallsSound'
  <2>1. NoCall \in Call /\ CallSound(t, NoCall)'
    BY DEF Call, NoCall, CallSound
  <2> QED
    BY <2>1, <1>2, <1>10, CallMoves
<1>12. JournalSound'
  <2>1. Clients' = Clients
    BY PlanFixed
  <2> SUFFICES ASSUME NEW d \in Clients, NEW op \in DOMAIN journal'[d],
                      NEW x, x = journal'[d][op]
               PROVE  /\ x.request.op = op /\ Reached(x.request)'
                      /\ x.answer # None => Justified(x.request, x.answer)'
    BY <2>1 DEF JournalSound
  <2>2. op \in DOMAIN journal[d] /\ journal[d][op] \in Row
    BY <1>8, <1>9 DEF IInv, TypeOK, IsPartial
  <2>3. /\ journal[d][op].request \in Request /\ journal[d][op].answer \in Answer \cup {None}
        /\ journal[d][op].request.op = op /\ Reached(journal[d][op].request)
        /\ journal[d][op].answer # None => Justified(journal[d][op].request, journal[d][op].answer)
    BY <2>2 DEF Row, IInv, JournalSound
  <2>4. CASE d = c /\ op = q.op
    <3>1. x = row
      BY <2>4, <1>8, <1>9
    <3>2. x.answer # None => x.answer \in Answer /\ Justified(q, x.answer)
      BY <3>1, <2>3, <2>4, <1>4, <1>5, <1>7
    <3> QED
      BY <3>1, <3>2, <2>3, <2>4, <1>4, <1>5, <1>7, <1>10 DEF Keeps
  <2>5. CASE ~(d = c /\ op = q.op)
    <3>1. x = journal[d][op]
      BY <2>2, <2>5, <1>8, <1>9
    <3> QED
      BY <3>1, <2>3, <1>10 DEF Keeps
  <2> QED
    BY <2>4, <2>5
<1>13. ToldSound' /\ \A x \in told' : x \in Clients \X Request \X Answer
  BY <1>2, <1>4, <1>10, TellSound
<1>14. WireSound' /\ HostsSound'
  BY <1>2, <1>10, WireKept DEF IInv, HostsSound
<1>15. TypeOK'
  <2>1. journal' = [d \in Clients |-> journal'[d]]
    BY <1>2, <1>6
  <2>2. \A d \in Clients : IsPartial(journal'[d], OperationIds, Row)
    BY <1>8, <1>9 DEF IInv, TypeOK, IsPartial
  <2> QED
    BY <2>1, <2>2, <1>2, <1>11, <1>13, PlanFixed DEF IInv, TypeOK
<1> QED
  BY <1>11, <1>12, <1>13, <1>14, <1>15 DEF IInv

\* A request arrives: its host answers it, and who waits for it gets the answer.
LEMMA ArriveStep ==
    ASSUME IInv, NEW m \in wire, Arrive(m), plan' = plan
    PROVE  IInv'
<1>1. PICK h, q : h = serving[m.endpoint] /\ q = m.request
  OBVIOUS
<1>2. PICK x \in Handle(h, q) :
         /\ host' = [host EXCEPT ![h] = x.database]
         /\ \/ UNCHANGED call
            \/ \E t \in Callers :
                  Waits(t, m) /\ At(t, [phase |-> "answered", request |-> q, response |-> x.response])
  BY <1>1 DEF Arrive
<1>3. UNCHANGED <<journal, alias, serving, wire, told, moves>>
  BY DEF Arrive
<1>4. q \in Request /\ Reached(q) /\ h \in Hosts
  <2>1. m \in Message
    BY DEF IInv, TypeOK
  <2>2. m.endpoint \in Endpoints /\ q \in Request
    BY <1>1, <2>1 DEF Message
  <2>3. serving[m.endpoint] \in plan.hosts /\ plan.hosts \subseteq Hosts
    BY <2>2, ClientAssumption DEF IInv, TypeOK
  <2> QED
    BY <1>1, <2>2, <2>3 DEF IInv, WireSound
<1>5. /\ IsDatabase(x.database) /\ Sound(h, x.database) /\ Grown(h, host[h], x.database)
      /\ x.response \in Answer
      /\ x.response.status = "committed" =>
            /\ q.scope = h /\ q.op \in DOMAIN x.database.saved
            /\ x.database.saved[q.op] = [request |-> q, response |-> x.response]
      /\ x.response = Moved =>
            /\ q.scope = h /\ x.database = host[h] /\ q.kind # "create"
            /\ host[h].root # None /\ q.at < host[h].root.revision
            /\ \A y \in host[h].changes : y.request # q
  BY <1>4, HandleSound DEF IInv
<1>6. /\ host' = [g \in Hosts |-> host'[g]] /\ \A g \in Hosts : IsDatabase(host'[g])
      /\ HostsSound'
      /\ \A p \in Request : Reached(p) => Reached(p)'
      /\ \A p \in Request, r \in Answer : Justified(p, r) => Justified(p, r)'
  BY <1>2, <1>4, <1>5, HostStep DEF IInv
<1>7. Keeps
  BY <1>3, <1>6 DEF Keeps
<1>8. host'[h] = x.database /\ \A g \in Hosts : g # h => host'[g] = host[g]
  BY <1>2, <1>4 DEF IInv, TypeOK
<1>9. Justified(q, x.response)'
  <2>1. PICK r : r = x.response
    OBVIOUS
  <2>2. r.status = "committed" =>
           /\ q.op \in DOMAIN host'[q.scope].saved
           /\ host'[q.scope].saved[q.op] = [request |-> q, response |-> r]
    BY <2>1, <1>5, <1>8
  <2>3. r = Moved => Outdated(q)'
    <3> SUFFICES ASSUME r = Moved
                 PROVE  Outdated(q)'
      OBVIOUS
    <3>1. /\ q.scope = h /\ q.kind # "create" /\ host'[h] = host[h]
          /\ host[h].root # None /\ q.at < host[h].root.revision
      BY <2>1, <1>5, <1>8
    <3>2. \A g \in Hosts : \A y \in host'[g].changes : y.request # q
      <4>1. \A g \in Hosts : \A y \in host'[g].changes : y.request.scope = g
        BY <1>6 DEF HostsSound, Sound
      <4>2. \A y \in host'[h].changes : y.request # q
        BY <2>1, <3>1, <1>5
      <4> QED
        BY <4>1, <4>2, <3>1
    <3> QED
      BY <3>1, <3>2 DEF Outdated
  <2>4. Justified(q, r)'
    BY <2>2, <2>3 DEF Justified, Moved, Rejected
  <2> QED
    BY <2>1, <2>4
<1>10. call' \in [Callers -> Call] /\ CallsSound'
  <2>1. CASE UNCHANGED call
    <3>1. Callers' = Callers
      BY PlanFixed
    <3> QED
      BY <2>1, <3>1, <1>7, CallKept DEF CallsSound, IInv, TypeOK
  <2>2. CASE \E t \in Callers :
                Waits(t, m) /\ At(t, [phase |-> "answered", request |-> q, response |-> x.response])
    <3>0. PICK t \in Callers :
             Waits(t, m) /\ At(t, [phase |-> "answered", request |-> q, response |-> x.response])
      BY <2>2
    <3>1. PICK c, k :
             /\ c = [phase |-> "answered", request |-> q, response |-> x.response]
             /\ k = ClientOf[t] /\ Waits(t, m) /\ At(t, c)
      BY <3>0
    <3>2. c \in Call /\ c.phase = "answered" /\ c.request = q /\ c.response = x.response
      BY <3>1, <1>4, <1>5 DEF Call
    <3>3. HasRow(k, q) /\ k \in Clients
      BY <3>1, <1>1, CallerTypes DEF Waits, IInv, CallsSound, CallSound
    <3>4. HasRow(k, q)' /\ Reached(q)'
      BY <3>3, <1>4, <1>7, RowsKept DEF IInv, Keeps
    <3>5. ClientOf' = ClientOf
      BY PlanFixed
    <3>6. CallSound(t, c)'
      BY <3>1, <3>2, <3>4, <3>5, <1>9 DEF CallSound
    <3> QED
      BY <3>1, <3>2, <3>6, <1>7, CallMoves
  <2> QED
    BY <2>1, <2>2, <1>2
<1>11. JournalSound' /\ WireSound' /\ ToldSound'
  BY <1>3, <1>7, JournalKept, WireKept, ToldKept
<1>12. TypeOK'
  BY <1>3, <1>6, <1>10, PlanFixed DEF IInv, TypeOK
<1> QED
  BY <1>6, <1>10, <1>11, <1>12 DEF IInv

\* Setting up the schema changes nothing else of a database.
LEMMA SchemaSet ==
    ASSUME NEW b, NEW d,
           d = [setup |-> d.setup, root |-> d.root, saved |-> d.saved, changes |-> d.changes]
    PROVE  [d EXCEPT !.setup = b] = [setup |-> b, root |-> d.root, saved |-> d.saved, changes |-> d.changes]
  OBVIOUS

\* The schema of a database is set up once, before anything is saved.
LEMMA SetupStep ==
    ASSUME IInv, NEW h \in plan.hosts, SetupSchema(h), plan' = plan,
           UNCHANGED <<journal, call, alias, serving, wire, told, moves>>
    PROVE  IInv'
<1> DEFINE e == [host[h] EXCEPT !.setup = TRUE]
<1>1. h \in Hosts
  BY ClientAssumption DEF IInv, TypeOK
<1>2. IsDatabase(host[h]) /\ Sound(h, host[h])
  BY <1>1 DEF IInv, TypeOK, HostsSound
<1>3. /\ e.root = host[h].root /\ e.saved = host[h].saved /\ e.changes = host[h].changes
      /\ e.setup = TRUE
      /\ e = [setup |-> e.setup, root |-> e.root, saved |-> e.saved, changes |-> e.changes]
  <2>1. e = [setup |-> TRUE, root |-> host[h].root, saved |-> host[h].saved, changes |-> host[h].changes]
    BY <1>2, SchemaSet DEF IsDatabase
  <2> HIDE DEF e
  <2> QED
    BY <2>1
<1>4. host' = [host EXCEPT ![h] = e]
  BY DEF SetupSchema
<1> HIDE DEF e
<1>5. IsDatabase(e) /\ Sound(h, e)
  BY <1>2, <1>3 DEF IsDatabase, Sound
<1>6. Grown(h, host[h], e)
  <2>1. host[h].root # None => host[h].root.revision \in Nat
    BY <1>2 DEF IsDatabase, Root
  <2> QED
    BY <2>1, <1>3 DEF Grown
<1>7. /\ host' = [g \in Hosts |-> host'[g]] /\ \A g \in Hosts : IsDatabase(host'[g])
      /\ HostsSound'
      /\ \A p \in Request : Reached(p) => Reached(p)'
      /\ \A p \in Request, r \in Answer : Justified(p, r) => Justified(p, r)'
  BY <1>1, <1>4, <1>5, <1>6, HostStep DEF IInv
<1>8. Keeps
  BY <1>7 DEF Keeps
<1>9. CallsSound'
  <2>1. Callers' = Callers
    BY PlanFixed
  <2> QED
    BY <2>1, <1>8, CallKept DEF CallsSound
<1>10. JournalSound' /\ WireSound' /\ ToldSound'
  BY <1>8, JournalKept, WireKept, ToldKept
<1>11. TypeOK'
  BY <1>7, PlanFixed DEF IInv, TypeOK
<1> QED
  BY <1>7, <1>9, <1>10, <1>11 DEF IInv

\* A restart ends calls; what is written, sent and told stays.
LEMMA RestartStep ==
    ASSUME IInv, NEW c \in Clients, Restart(c), plan' = plan
    PROVE  IInv'
<1>1. UNCHANGED <<host, journal, serving, wire, told>> /\ moves' = moves + 1
  BY DEF Restart
<1>2. Keeps
  BY <1>1, NothingKept DEF IInv
<1>3. call' = [t \in Callers |-> IF ClientOf[t] = c THEN NoCall ELSE call[t]]
  BY DEF Restart
<1>4. Callers' = Callers /\ Clients' = Clients /\ Endpoints' = Endpoints /\ Call' = Call
  BY PlanFixed
<1>5. call' \in [Callers -> Call] /\ CallsSound'
  <2>1. \A t \in Callers : call'[t] \in Call
    BY <1>3 DEF IInv, TypeOK, Call
  <2>2. ASSUME NEW t \in Callers
        PROVE  CallSound(t, call[t])'
    <3>1. CASE ClientOf[t] = c
      <4>1. call'[t] = NoCall
        BY <3>1, <1>3
      <4> QED
        BY <4>1 DEF CallSound, NoCall
    <3>2. CASE ClientOf[t] # c
      BY <3>2, <1>2, <1>3, CallKept
    <3> QED
      BY <3>1, <3>2
  <2> QED
    BY <2>1, <2>2, <1>3, <1>4 DEF CallsSound
<1>6. alias' \in [Clients -> Endpoints]
  BY DEF Restart, IInv, TypeOK
<1>7. JournalSound' /\ WireSound' /\ ToldSound' /\ HostsSound'
  BY <1>1, <1>2, JournalKept, WireKept, ToldKept DEF IInv, HostsSound
<1>8. TypeOK'
  BY <1>1, <1>5, <1>6, PlanFixed DEF IInv, TypeOK
<1> QED
  BY <1>5, <1>7, <1>8 DEF IInv

\* A redeployment moves endpoints; what is written, sent and told stays.
LEMMA RedeployStep ==
    ASSUME IInv, NEW e \in Endpoints, Redeploy(e), plan' = plan
    PROVE  IInv'
<1>1. UNCHANGED <<host, journal, call, alias, wire, told>> /\ moves' = moves + 1
  BY DEF Redeploy
<1>2. Keeps
  BY <1>1, NothingKept DEF IInv
<1>3. serving' \in [Endpoints -> plan.hosts]
  BY DEF Redeploy, IInv, TypeOK
<1>4. CallsSound'
  <2>1. Callers' = Callers
    BY PlanFixed
  <2> QED
    BY <2>1, <1>1, <1>2, CallKept DEF CallsSound
<1>5. JournalSound' /\ WireSound' /\ ToldSound' /\ HostsSound'
  BY <1>1, <1>2, JournalKept, WireKept, ToldKept DEF IInv, HostsSound
<1>6. TypeOK'
  BY <1>1, <1>3, PlanFixed DEF IInv, TypeOK
<1> QED
  BY <1>4, <1>5, <1>6 DEF IInv

-----------------------------------------------------------------------------
(* The invariant and what follows from it.                                 *)

\* Before the first request nothing is stored, sent or told.
LEMMA InitIInv == Init => IInv
<1> SUFFICES ASSUME Init
             PROVE  IInv
  OBVIOUS
<1>1. /\ plan \in Plans /\ host = [h \in Hosts |-> NoDatabase]
      /\ journal = [c \in Clients |-> <<>>] /\ call = [t \in Callers |-> NoCall]
      /\ alias \in [Clients -> Endpoints] /\ serving \in [Endpoints -> plan.hosts]
      /\ wire = {} /\ told = {} /\ moves = 0
  BY DEF Init, HostInit
<1>2. DOMAIN <<>> = {} /\ <<>> \in [{} -> Saved] /\ <<>> \in [{} -> Row]
  OBVIOUS
<1>3. /\ NoDatabase.setup = FALSE /\ NoDatabase.root = None /\ NoDatabase.saved = <<>>
      /\ NoDatabase.changes = {}
      /\ NoDatabase = [setup |-> NoDatabase.setup, root |-> NoDatabase.root,
                       saved |-> NoDatabase.saved, changes |-> NoDatabase.changes]
  BY DEF NoDatabase
<1> HIDE DEF NoDatabase
<1>4. IsDatabase(NoDatabase) /\ \A h : Sound(h, NoDatabase)
  BY <1>2, <1>3 DEF IsDatabase, IsPartial, Sound
<1>5. IsPartial(<<>>, OperationIds, Row)
  BY <1>2 DEF IsPartial
<1>6. TypeOK
  BY <1>1, <1>4, <1>5 DEF TypeOK, Call
<1>7. HostsSound /\ JournalSound /\ WireSound /\ ToldSound
  BY <1>1, <1>2, <1>4 DEF HostsSound, JournalSound, WireSound, ToldSound
<1>8. CallsSound
  BY <1>1 DEF CallsSound, CallSound, NoCall
<1> QED
  BY <1>6, <1>7, <1>8 DEF IInv

\* Every step of a host, a client, the transport or a deployment keeps the invariant.
LEMMA NextIInv == IInv /\ [Next]_vars => IInv'
<1> SUFFICES ASSUME IInv, [Next]_vars
             PROVE  IInv'
  OBVIOUS
<1>1. CASE UNCHANGED vars
  <2>1. Callers' = Callers /\ Clients' = Clients
    BY <1>1, PlanFixed DEF vars
  <2>2. Keeps
    BY <1>1, NothingKept DEF vars, IInv
  <2>3. CallsSound' /\ JournalSound' /\ WireSound' /\ ToldSound' /\ HostsSound'
    BY <1>1, <2>1, <2>2, CallKept, JournalKept, WireKept, ToldKept DEF vars, CallsSound, IInv, HostsSound
  <2>4. TypeOK'
    BY <1>1, PlanFixed DEF vars, IInv, TypeOK
  <2> QED
    BY <2>3, <2>4 DEF IInv
<1>2. CASE Next
  <2>1. plan' = plan
    BY <1>2 DEF Next
  <2>2. ASSUME NEW h \in plan.hosts, SetupSchema(h),
               UNCHANGED <<journal, call, alias, serving, wire, told, moves>>
        PROVE  IInv'
    BY <2>1, <2>2, SetupStep
  <2>3. ASSUME NEW t \in Callers, Submit(t) \/ SaveRequest(t) \/ TakeAnswer(t)
        PROVE  IInv'
    BY <2>1, <2>3, SubmitStep, SaveRequestStep, TakeAnswerStep
  <2>4. ASSUME NEW t \in Callers, RefuseRow(t) \/ RefuseAnswer(t) \/ GiveUp(t)
        PROVE  IInv'
    BY <2>1, <2>4, CallEnds DEF RefuseRow, RefuseAnswer, GiveUp
  <2>5. ASSUME NEW t \in Callers, NEW op \in DOMAIN Journal(t),
               GiveKept(t, op) \/ Send(t, op) \/ Receipt(t, op)
        PROVE  IInv'
    BY <2>1, <2>5, GiveKeptStep, SendStep, ReceiptStep
  <2>6. ASSUME NEW m \in wire, Arrive(m)
        PROVE  IInv'
    BY <2>1, <2>6, ArriveStep
  <2>7. ASSUME NEW c \in Clients, Restart(c)
        PROVE  IInv'
    BY <2>1, <2>7, RestartStep
  <2>8. ASSUME NEW e \in Endpoints, Redeploy(e)
        PROVE  IInv'
    BY <2>1, <2>8, RedeployStep
  <2> QED
    BY <1>2, <2>2, <2>3, <2>4, <2>5, <2>6, <2>7, <2>8 DEF Next, Step
<1> QED
  BY <1>1, <1>2

\* The inductive invariant holds in every reachable state.
THEOREM Invariant == Spec => []IInv
  BY InitIInv, NextIInv, PTL DEF Spec

\* Whoever is told committed is told what the host of the scope has saved for it.
THEOREM CommittedAlwaysSaved == Spec => []CommittedIsSaved
<1>1. IInv => CommittedIsSaved
  BY DEF IInv, ToldSound, Justified, CommittedIsSaved
<1> QED
  BY <1>1, Invariant, PTL

\* A client's operation id stands for one request, scope and endpoint on the wire.
THEOREM OneRequestAlways == Spec => []OneRequestPerOperation
<1>1. IInv => OneRequestPerOperation
  <2> SUFFICES ASSUME IInv, NEW m \in wire, NEW n \in wire,
                      m.client = n.client, m.request.op = n.request.op
               PROVE  m = n
    BY DEF OneRequestPerOperation
  <2>1. m \in Message /\ n \in Message
    BY DEF IInv, TypeOK
  <2>2. m.request = n.request /\ m.endpoint = n.endpoint
    BY DEF IInv, WireSound, HasRow
  <2> QED
    BY <2>1, <2>2 DEF Message
<1> QED
  BY <1>1, Invariant, PTL

\* No copy of a request refused for its revision ever changes a root.
THEOREM RefusalAlwaysFinal == Spec => []RefusedForRevisionIsFinal
<1>1. IInv => RefusedForRevisionIsFinal
  BY DEF IInv, ToldSound, Justified, Outdated, RefusedForRevisionIsFinal
<1> QED
  BY <1>1, Invariant, PTL

\* A root is created once and its creation is always answered with revision 0.
THEOREM AlwaysCreatedOnce == Spec => []CreatedOnce
<1>1. IInv => CreatedOnce
  <2> SUFFICES ASSUME IInv, NEW h \in Hosts
               PROVE  /\ Cardinality({x \in host[h].changes : x.request.kind = "create"}) <= 1
                      /\ \A op \in DOMAIN host[h].saved :
                            host[h].saved[op].request.kind = "create" => host[h].saved[op].response.revision = 0
    BY DEF CreatedOnce
  <2> DEFINE S == {x \in host[h].changes : x.request.kind = "create"}
  <2>1. Sound(h, host[h])
    BY DEF IInv, HostsSound
  <2>2. \A x, y \in S : x = y
    BY <2>1 DEF Sound
  <2>3. Cardinality(S) <= 1
    <3> HIDE DEF S
    <3>1. CASE S = {}
      BY <3>1, FS_EmptySet
    <3>2. CASE S # {}
      <4>1. PICK x : S = {x}
        BY <3>2, <2>2
      <4>2. Cardinality({x}) = 1
        BY FS_Singleton
      <4> QED
        BY <4>1, <4>2
    <3> QED
      BY <3>1, <3>2
  <2> QED
    BY <2>1, <2>3 DEF Sound
<1> QED
  BY <1>1, Invariant, PTL
=============================================================================
