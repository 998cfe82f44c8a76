---------------------------- MODULE PublicClient ----------------------------
(***************************************************************************)
(* PublicHostClient of public_client.py over a transport, with the hosts   *)
(* it reaches.  A client is a journal file; its callers are threads of one *)
(* process or of several.  A request is written to the journal before it   *)
(* is sent, with the endpoint and the scope that were discovered for it.   *)
(*                                                                         *)
(* The transport may lose, delay and repeat a request, and lose or delay a *)
(* response: what was sent stays on the wire and may arrive at any time.   *)
(* Deployments change the endpoint a name is bound to, at a restart, and   *)
(* the host that serves an endpoint, at any time.                          *)
(***************************************************************************)
EXTENDS PublicHost

CONSTANT Plans      \* deployments and the work callers have there: the bounds of each

ASSUME ClientAssumption ==
    \A p \in Plans :
       /\ DOMAIN p.clientOf = DOMAIN p.wanted
       /\ \A t \in DOMAIN p.wanted : p.wanted[t] \subseteq Wishes
       /\ p.hosts \subseteq Hosts /\ p.moves \in Nat

VARIABLES
    plan,       \* chosen once: clientOf (caller |-> the client whose journal it uses),
                \* wanted (caller |-> requests it may have), endpoints, hosts, and how
                \* many redeployments and changes of an alias
    journal,    \* client |-> operation |-> endpoint, request and answer
    call,       \* caller |-> where its call is
    alias,      \* client |-> endpoint its binding names
    serving,    \* endpoint |-> host
    wire,       \* requests sent
    told,       \* history: <<client, request, response>> callers were given, of what
                \* was committed or refused for its revision
    moves

vars == <<plan, host, journal, call, alias, serving, wire, told, moves>>

Callers == DOMAIN plan.clientOf
ClientOf == plan.clientOf
Endpoints == plan.endpoints
Clients == {ClientOf[t] : t \in Callers}
NoCall == [phase |-> "idle"]

Init ==
    /\ plan \in Plans
    /\ HostInit
    /\ journal = [c \in Clients |-> <<>>]
    /\ call = [t \in Callers |-> NoCall]
    /\ alias \in [Clients -> Endpoints]
    /\ serving \in [Endpoints -> plan.hosts]
    /\ wire = {} /\ told = {} /\ moves = 0

Journal(t) == journal[ClientOf[t]]

At(t, state) == call' = [call EXCEPT ![t] = state]

Moved == Rejected("checkpoint_revision_conflict")

Tell(t, q, response) ==
    told' = IF response.status = "committed" \/ response = Moved
            THEN told \cup {<<ClientOf[t], q, response>>} ELSE told

-----------------------------------------------------------------------------
(* _checked_response                                                       *)

ReceiptRequired(q, response) ==
    response.status = "committed" /\ (q.kind = "process" => response.disposition # "not_runnable")

Checked(q, response) ==
    /\ ReceiptRequired(q, response) => response.receipt # None
    /\ response.status = "committed" => response.receipt \in {None, q}

-----------------------------------------------------------------------------
(* submit and retry.                                                       *)

\* The revisions a caller can have read.
Readable(t) ==
    LET root == host[serving[alias[ClientOf[t]]]].root
    IN IF root = None THEN {} ELSE 0 .. root.revision

\* The caller's requests that name none or a revision it has read.
Requests(t) == {q \in plan.wanted[t] : q.kind = "create" \/ q.at \in Readable(t)}

\* submit, of an operation the journal does not have, and discover: the scope is
\* that of whichever host serves the endpoint now, and nothing is written yet.
\* Another request under an operation id of the journal is refused without any
\* effect, the very request is a retry, and a discovery that fails ends the call.
Submit(t) ==
    /\ call[t] = NoCall
    /\ \E q \in Requests(t) :
          /\ q.op \notin DOMAIN Journal(t)
          /\ LET endpoint == alias[ClientOf[t]]
             IN At(t, [phase |-> "save", endpoint |-> endpoint,
                       request |-> Resolved(q, serving[endpoint])])
    /\ UNCHANGED <<host, journal, alias, serving, wire, told, moves>>

\* The row a caller may write.
RowFor(t) ==
    [endpoint |-> call[t].endpoint, request |-> call[t].request, answer |-> None]

\* An insert that replaces the row of a rival.
MayInsertOver(t) == TRUE

\* The insert fails when a rival has written a row for the operation since.
MayInsert(t) == call[t].request.op \notin DOMAIN Journal(t)

\* The row is written; submit goes on with retry, unless the process ends here.
SaveRequest(t) ==
    /\ call[t].phase = "save" /\ MayInsert(t)
    /\ journal' = [journal EXCEPT ![ClientOf[t]] =
                     [op \in DOMAIN @ \cup {call[t].request.op} |->
                        IF op = call[t].request.op THEN RowFor(t) ELSE @[op]]]
    /\ At(t, NoCall)
    /\ UNCHANGED <<host, alias, serving, wire, told, moves>>

\* operation_id_conflict
RefuseRow(t) ==
    /\ call[t].phase = "save" /\ ~MayInsert(t)
    /\ At(t, NoCall)
    /\ UNCHANGED <<host, journal, alias, serving, wire, told, moves>>

\* retry: an answer that was kept is given without the transport.
GiveKept(t, op) ==
    /\ call[t] = NoCall
    /\ Journal(t)[op].answer # None
    /\ Tell(t, Journal(t)[op].request, Journal(t)[op].answer)
    /\ UNCHANGED <<host, journal, call, alias, serving, wire, moves>>

\* The endpoint of the row.
SavedEndpoint(t, op) == Journal(t)[op].endpoint

\* retry, of a row without an answer.
Send(t, op) ==
    /\ call[t] = NoCall
    /\ Journal(t)[op].answer = None
    /\ wire' = wire \cup {[client |-> ClientOf[t], endpoint |-> SavedEndpoint(t, op),
                           request |-> Journal(t)[op].request]}
    /\ At(t, [phase |-> "wait", request |-> Journal(t)[op].request])
    /\ UNCHANGED <<host, journal, alias, serving, told, moves>>

Waits(t, m) ==
    call[t].phase = "wait" /\ call[t].request = m.request /\ ClientOf[t] = m.client

\* A request arrives, perhaps again; a caller that waits for it gets the
\* response, or nobody does.
Arrive(m) ==
    /\ LET h == serving[m.endpoint]
       IN \E x \in Handle(h, m.request) :
             /\ host' = [host EXCEPT ![h] = x.database]
             /\ \/ UNCHANGED call
                \/ \E t \in Callers :
                      Waits(t, m) /\ At(t, [phase |-> "answered", request |-> m.request,
                                            response |-> x.response])
    /\ UNCHANGED <<journal, alias, serving, wire, told, moves>>

\* The answer that is kept: the first.
Kept(row, response) == IF row.answer = None THEN [row EXCEPT !.answer = response] ELSE row

TakeAnswer(t) ==
    /\ call[t].phase = "answered"
    /\ LET q == call[t].request
           response == call[t].response
       IN /\ Checked(q, response)
          /\ journal' = [journal EXCEPT ![ClientOf[t]][q.op] = Kept(@, response)]
          /\ Tell(t, q, response)
    /\ At(t, NoCall)
    /\ UNCHANGED <<host, alias, serving, wire, moves>>

RefuseAnswer(t) ==
    /\ call[t].phase = "answered" /\ ~Checked(call[t].request, call[t].response)
    /\ At(t, NoCall)
    /\ UNCHANGED <<host, journal, alias, serving, wire, told, moves>>

\* The transport raises.
GiveUp(t) ==
    /\ call[t].phase = "wait"
    /\ At(t, NoCall)
    /\ UNCHANGED <<host, journal, alias, serving, wire, told, moves>>

\* receipt: what the host at the endpoint of the row keeps for it.  Neither side
\* writes anything.
Receipt(t, op) ==
    /\ call[t] = NoCall
    /\ LET row == Journal(t)[op]
           h == serving[row.endpoint]
       IN /\ row.request.scope = h /\ op \in DOMAIN host[h].saved
          /\ host[h].saved[op].request = row.request
          /\ Checked(row.request, host[h].saved[op].response)
          /\ Tell(t, row.request, host[h].saved[op].response)
    /\ UNCHANGED <<host, journal, call, alias, serving, wire, moves>>

-----------------------------------------------------------------------------
(* Restarts and deployments.                                               *)

\* The processes of a client end, and start again with other bindings.
Restart(c) ==
    /\ moves < plan.moves /\ moves' = moves + 1
    /\ call' = [t \in Callers |-> IF ClientOf[t] = c THEN NoCall ELSE call[t]]
    /\ \E e \in Endpoints : alias' = [alias EXCEPT ![c] = e]
    /\ UNCHANGED <<host, journal, serving, wire, told>>

Redeploy(e) ==
    /\ moves < plan.moves /\ moves' = moves + 1
    /\ \E h \in plan.hosts : serving' = [serving EXCEPT ![e] = h]
    /\ UNCHANGED <<host, journal, call, alias, wire, told>>

Step ==
    \/ \E h \in plan.hosts :
          SetupSchema(h) /\ UNCHANGED <<journal, call, alias, serving, wire, told, moves>>
    \/ \E t \in Callers :
          \/ Submit(t) \/ SaveRequest(t) \/ RefuseRow(t)
          \/ \E op \in DOMAIN Journal(t) : GiveKept(t, op) \/ Send(t, op) \/ Receipt(t, op)
          \/ TakeAnswer(t) \/ RefuseAnswer(t) \/ GiveUp(t)
    \/ \E m \in wire : Arrive(m)
    \/ \E c \in Clients : Restart(c)
    \/ \E e \in Endpoints : Redeploy(e)

Next == Step /\ UNCHANGED plan

Spec == Init /\ [][Next]_vars

-----------------------------------------------------------------------------
(* Properties.                                                             *)

\* Whatever was lost, delayed, repeated or answered twice, every caller that is
\* told an operation is committed is told what the host of the scope it was meant
\* for has saved as the first response, also when it asks again after a restart
\* or when another client used the operation id (README.md:50-52).
CommittedIsSaved ==
    \A x \in told : x[3].status = "committed" =>
       LET saved == host[x[2].scope].saved
       IN x[2].op \in DOMAIN saved /\ saved[x[2].op] = [request |-> x[2], response |-> x[3]]

\* A client's operation id stands for one request in one scope, sent to one
\* endpoint, although its callers submit it at the same time and names are bound
\* anew between discovery, saving and sending (README.md:41-44).
OneRequestPerOperation ==
    \A m, n \in wire : m.client = n.client /\ m.request.op = n.request.op => m = n

\* A caller that was refused because the checkpoint had moved may submit its work
\* again under a new operation id: no copy of the refused request that is still on
\* its way changes the root.
RefusedForRevisionIsFinal ==
    \A x \in told : x[3] = Moved =>
       \A h \in Hosts : \A change \in host[h].changes : change.request # x[2]

\* A root is created once, and whoever asks for that creation under whichever
\* operation id, however far the root has moved on since, is given the checkpoint
\* of the creation (README.md:50-52).
CreatedOnce ==
    \A h \in Hosts :
       /\ Cardinality({x \in host[h].changes : x.request.kind = "create"}) <= 1
       /\ \A op \in DOMAIN host[h].saved :
             host[h].saved[op].request.kind = "create" => host[h].saved[op].response.revision = 0

\* An equal retry is given the saved first response (README.md:50-52), and
\* retry and receipt reach it (README.md:42-44): what a host has saved for a
\* request is a response its client accepts.
SavedIsAcceptable ==
    \A h \in Hosts : \A op \in DOMAIN host[h].saved :
       Checked(host[h].saved[op].request, host[h].saved[op].response)
=============================================================================
