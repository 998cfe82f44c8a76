----------------------------- MODULE Authority ------------------------------
(***************************************************************************)
(* The local scope authority of authority.py: one SQLite database with the *)
(* ledger of its only scope, requests that are performed under an expected *)
(* generation and kept with their result, a journal of effect work, and    *)
(* the execution store whose checkpoints are committed with the ledger.    *)
(*                                                                         *)
(* Each operation is one BEGIN IMMEDIATE transaction and so one step.      *)
(* Requests are messages: a request made at some generation may be         *)
(* performed at any later time, again, by another session, or never, and   *)
(* its answer may be lost.  The epoch of the authority never changes and   *)
(* is left out.  Work of a native effect journal is in EffectHost.         *)
(***************************************************************************)
EXTENDS Integers, FiniteSets, Functions

CONSTANTS
    Owner,
    Workers,
    OperationIds,   \* ids callers choose
    Mutations,      \* native mutation bytes of guarded commits
    Works,          \* effect work of the authority's own journal
    Bindings,       \* what identifies a work: its root and operation token
    Roots,
    Definitions,    \* bundle fingerprints a checkpoint refers to
    MaxGeneration   \* bound

ASSUME AuthorityAssumption ==
    /\ Owner \notin Workers
    /\ MaxGeneration \in Nat

VARIABLES
    fencing,    \* worker_fencing is configured; it stays as it is
    ledger,     \* the ledger of the scope
    stored,     \* root |-> checkpoint in the execution table
    lapsed,     \* works whose lease has run out
    told        \* history: operation id |-> accepted results callers have got

vars == <<fencing, ledger, stored, lapsed, told>>

None == -1
NoClaim == [work |-> "none"]
Put(f, x, v) == [y \in {x} \cup DOMAIN f |-> IF y = x THEN v ELSE f[y]]

Generations == 0 .. MaxGeneration

\* _valid_request: an operation, its id and expected generation, its arguments.
GuardedCommits ==
    [op : {"guarded_commit"}, id : OperationIds, gen : Generations, mutation : Mutations]
Freezes == [op : {"freeze_scope"}, id : OperationIds, gen : Generations]
Fencings ==
    [op : {"fence_worker"}, id : OperationIds, gen : Generations, work : Works,
     binding : Bindings, worker : Workers, fence : {None, 0, 1}]
Requests == GuardedCommits \cup Freezes \cup Fencings

\* _result of an accepted request.
Result(r, gen, claim) == [request |-> r, gen |-> gen, claim |-> claim]

CheckpointId(c) == <<"checkpoint", c.root, c.revision, c.definition>>

-----------------------------------------------------------------------------
(* allocate and register_effect_work.                                      *)

\* allocate, in a database of its own (_insert_ledger).
Init ==
    /\ fencing \in BOOLEAN
    /\ ledger = [state |-> "active", generation |-> 0, receipts |-> <<>>,
                 mutations |-> {}, entries |-> <<>>, bindings |-> <<>>,
                 records |-> <<>>, active |-> {}, claimed |-> {},
                 history |-> {}, inventory |-> {}]
    /\ stored = <<>>
    /\ lapsed = {} /\ told = <<>>

\* Known work keeps its binding.
RegisterEffectWork(work, binding) ==
    /\ fencing
    /\ ledger.state = "active" /\ ledger.generation < MaxGeneration
    /\ work \notin DOMAIN ledger.bindings
    /\ ledger' = [ledger EXCEPT
                    !.bindings = Put(@, work, binding),
                    !.records = Put(@, work, [fence |-> 0, state |-> "unclaimed"]),
                    !.entries = Put(@, work, 0),
                    !.generation = @ + 1]
    /\ UNCHANGED <<stored, lapsed, told>>

-----------------------------------------------------------------------------
(* perform.                                                                *)

\* A kept result looked up by what was asked instead of the operation id.
PriorByRequest(l, r) == {i \in DOMAIN l.receipts : l.receipts[i].request = r}

\* The kept result of the operation, if there is one.
Prior(l, r) == {i \in DOMAIN l.receipts : i = r.id}

\* The checks that come before those of the single operations.
Current(l, p, r) ==
    /\ Prior(l, r) = {}
    /\ l.state = "active"
    /\ r.gen = l.generation
    /\ r.op # "fence_worker" => p = Owner

\* The journal entry is at the fence the worker expects; "none yet" is only for
\* work nobody has claimed.
ExpectedFence(l, r) ==
    /\ r.work \in DOMAIN l.entries
    /\ \/ l.entries[r.work] = r.fence
       \/ /\ r.fence = None /\ l.entries[r.work] = 0
          /\ \A c \in l.claimed : c.work # r.work

\* A record taken for claimable whatever has become of its last claim.
ClaimableAgain(l, r) == ExpectedFence(l, r) /\ l.bindings[r.work] = r.binding

Claimable(l, r) ==
    /\ ExpectedFence(l, r)
    /\ l.bindings[r.work] = r.binding
    /\ l.records[r.work] = [fence |-> l.entries[r.work], state |-> "unclaimed"]
    /\ \A c \in l.claimed : c.work = r.work => c.fence <= l.entries[r.work]

ClaimOf(l, r) ==
    [work |-> r.work, binding |-> r.binding, worker |-> r.worker,
     fence |-> l.entries[r.work] + 1]

\* Everything is under the guard's control: no work in the journal, and every
\* stored checkpoint one that was committed with the ledger.
Freezable(l) ==
    /\ l.entries = <<>> /\ l.active = {}
    /\ \A root \in DOMAIN stored : stored[root] \in l.history

\* An inventory of what is stored now alone.
InventoryOfRows(l, rows) ==
    {<<"receipt", i>> : i \in DOMAIN l.receipts}
    \cup {<<"mutation", m>> : m \in l.mutations}
    \cup {<<"checkpoint", rows[root]>> : root \in DOMAIN rows}
    \cup {<<"root", root>> : root \in DOMAIN rows}
    \cup {<<"definition", rows[root].definition>> : root \in DOMAIN rows}

\* _inventory: operations, checkpoints and what they refer to.
Inventory(l, rows) ==
    {<<"receipt", i>> : i \in DOMAIN l.receipts}
    \cup {<<"mutation", m>> : m \in l.mutations}
    \cup {<<"checkpoint", rows[root]>> : root \in DOMAIN rows}
    \cup {<<"root", root>> : root \in DOMAIN rows}
    \cup {<<"definition", c.definition>> : c \in l.history \cup Range(rows)}

\* The receipt is appended with the generation it was committed at.
Receipted(l, r, claim) ==
    [l EXCEPT !.generation = @ + 1,
              !.receipts = Put(@, r.id, Result(r, l.generation + 1, claim))]

Fenced(l, r) ==
    LET claim == ClaimOf(l, r)
    IN [Receipted(l, r, claim) EXCEPT
          !.entries[r.work] = claim.fence,
          !.records[r.work] = [fence |-> claim.fence, state |-> "leased"],
          !.active = {c \in @ : c.work # r.work} \cup {claim},
          !.claimed = @ \cup {claim}]

Guarded(l, r) == [Receipted(l, r, NoClaim) EXCEPT !.mutations = @ \cup {r.mutation}]

Frozen(l, r) ==
    LET done == Receipted(l, r, NoClaim)
    IN [done EXCEPT !.state = "frozen", !.inventory = Inventory(done, stored)]

Told(i) == IF i \in DOMAIN told THEN told[i] ELSE {}
TellTo(i, result) == told' = Put(told, i, Told(i) \cup {result})

\* The answer arrives, or it is lost after the commit.
Accepted(new, r) ==
    /\ new.generation <= MaxGeneration
    /\ ledger' = new
    /\ TellTo(r.id, new.receipts[r.id]) \/ UNCHANGED told
    /\ UNCHANGED <<stored, lapsed>>

GuardedCommit(p, r) ==
    /\ r.op = "guarded_commit" /\ Current(ledger, p, r)
    /\ Accepted(Guarded(ledger, r), r)

FreezeScope(p, r) ==
    /\ r.op = "freeze_scope" /\ Current(ledger, p, r) /\ Freezable(ledger)
    /\ Accepted(Frozen(ledger, r), r)

FenceWorker(p, r) ==
    /\ r.op = "fence_worker" /\ fencing
    /\ Current(ledger, p, r) /\ p = r.worker
    /\ Claimable(ledger, r)
    /\ Accepted(Fenced(ledger, r), r)

\* Known operation: the same request gets the kept result, another a conflict.
Replay(r) ==
    /\ \E i \in Prior(ledger, r) :
          ledger.receipts[i].request = r /\ TellTo(r.id, ledger.receipts[i])
    /\ UNCHANGED <<ledger, stored, lapsed>>

Perform(p, r) ==
    \/ GuardedCommit(p, r)
    \/ FreezeScope(p, r)
    \/ FenceWorker(p, r)
    \/ Replay(r)

Lapse(work) ==
    /\ work \notin lapsed /\ \E c \in ledger.active : c.work = work
    /\ lapsed' = lapsed \cup {work}
    /\ UNCHANGED <<ledger, stored, told>>

-----------------------------------------------------------------------------
(* Transactions whose fate is unknown.                                     *)

\* _mark_transaction_in_doubt
MarkInDoubt ==
    /\ ledger.state = "active"
    /\ ledger' = [ledger EXCEPT !.state = "transaction_in_doubt"]
    /\ UNCHANGED <<stored, lapsed, told>>

\* _resolve_rolled_back_fate
ResolveRolledBack(i) ==
    /\ ledger.state = "transaction_in_doubt"
    /\ i \notin DOMAIN ledger.receipts
    /\ ledger' = [ledger EXCEPT !.state = "active"]
    /\ UNCHANGED <<stored, lapsed, told>>

-----------------------------------------------------------------------------
(* AuthoritySQLiteExecutionStore.                                          *)

Succeeding(root, definition) ==
    [root |-> root, definition |-> definition,
     revision |-> IF root \in DOMAIN stored THEN stored[root].revision + 1 ELSE 0]

Known(root) == root \in DOMAIN stored => stored[root] \in ledger.history

\* transaction: the checkpoint, the generation and a receipt in one commit.
StoreTransaction(root, definition) ==
    LET c == Succeeding(root, definition)
        r == [op |-> "guarded_commit", id |-> CheckpointId(c), gen |-> ledger.generation,
              mutation |-> c]
    IN /\ ledger.state = "active" /\ ledger.generation < MaxGeneration
       /\ Known(root)
       /\ Prior(ledger, r) = {}
       /\ ledger' = [Guarded(ledger, r) EXCEPT !.history = @ \cup {c}]
       /\ stored' = Put(stored, root, c)
       /\ UNCHANGED <<lapsed, told>>

\* A plain SQLiteExecutionStore over the same file knows of no authority.
PlainTransaction(root, definition) ==
    /\ root \in DOMAIN stored => stored[root].revision < MaxGeneration
    /\ stored' = Put(stored, root, Succeeding(root, definition))
    /\ UNCHANGED <<ledger, lapsed, told>>

Step ==
    \/ \E work \in Works, binding \in Bindings : RegisterEffectWork(work, binding)
    \/ \E r \in Requests, p \in {Owner} \cup Workers :
          r.gen <= ledger.generation /\ Perform(p, r)
    \/ \E work \in Works : Lapse(work)
    \/ MarkInDoubt
    \/ \E i \in OperationIds : ResolveRolledBack(i)
    \/ \E root \in Roots, definition \in Definitions :
          StoreTransaction(root, definition) \/ PlainTransaction(root, definition)

Next == Step /\ UNCHANGED fencing

Spec == Init /\ [][Next]_vars
-----------------------------------------------------------------------------
(* Properties.                                                             *)

\* A frozen scope has in its inventory every operation it ever committed, the
\* freeze among them, every checkpoint its store committed that is still the
\* stored one, every definition any of them referred to, and no checkpoint that
\* came to be stored without the guard (README.md:383-385).
FrozenIsComplete ==
    ledger.state = "frozen" =>
       /\ \A i \in DOMAIN ledger.receipts : <<"receipt", i>> \in ledger.inventory
       /\ \A root \in DOMAIN stored :
             stored[root] \in ledger.history => <<"checkpoint", stored[root]>> \in ledger.inventory
       /\ \A c \in ledger.history :
             /\ <<"definition", c.definition>> \in ledger.inventory
             /\ <<"root", c.root>> \in ledger.inventory
       /\ \A x \in ledger.inventory : x[1] = "checkpoint" => x[2] \in ledger.history

\* check_worker_claim
ClaimHolds(c) ==
    /\ fencing /\ ledger.state = "active"
    /\ c \in ledger.active /\ c.work \notin lapsed
    /\ ledger.entries[c.work] = c.fence
    /\ ledger.bindings[c.work] = c.binding
    /\ ledger.records[c.work] = [fence |-> c.fence, state |-> "leased"]

\* Workers that retry, race or come back after a lost answer: a work is claimed
\* once, by one worker, under the binding it was registered with, and the claim a
\* worker was told of is good until its lease runs out.
OneClaimPerWork ==
    /\ \A c, d \in ledger.claimed : c.work = d.work => c = d
    /\ \A i \in DOMAIN told : \A result \in told[i] :
          result.claim # NoClaim /\ ledger.state = "active" /\ result.claim.work \notin lapsed =>
             ClaimHolds(result.claim)

\* The log: where an operation stands, and what its caller had read.
Position ==
    [i \in OperationIds |-> IF i \in DOMAIN ledger.receipts THEN ledger.receipts[i].gen ELSE 0]
Basis ==
    [i \in OperationIds |->
       IF i \in DOMAIN ledger.receipts THEN ledger.receipts[i].request.gen ELSE 0]
Places == [i \in OperationIds |-> {result.gen : result \in Told(i)}]

Abstractly == INSTANCE ScopeLog WITH
    Ids <- OperationIds,
    position <- Position,
    basis <- Basis,
    length <- ledger.generation,
    closed <- ledger.state = "frozen",
    answers <- Places

\* Lost answers, repeated and reordered requests and doubts change nothing of
\* this: operations form one log, an operation is in it once and right behind
\* what its caller had read, so over no change its caller did not know of; callers
\* are told its place there and no other, and nothing follows a freeze.
ImplementsScopeLog == Abstractly!Spec
=============================================================================
