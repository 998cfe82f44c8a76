------------------------------ MODULE Ownership ------------------------------
(***************************************************************************)
(* The ownership tree of one aggregate and what one run-to-completion step *)
(* of the engine (engine.py, class _Execution) may do to it: which owned   *)
(* runtimes it creates, cancels or completes, and which lifecycle          *)
(* notifications it sends.                                                 *)
(*                                                                         *)
(* A runtime identity is a hash of its owner, of the declaration that      *)
(* creates it and of a sequence number the owner never reuses, so owner,   *)
(* role and parallel activation are functions of the identity, and an      *)
(* identity lives at most once: absent, then running, faulted or           *)
(* completed, then removed.  Identities are numbered in the order the      *)
(* owners allocate them (declaration order within one activation).         *)
(*                                                                         *)
(* The state configuration of a runtime is abstracted to its mode: the     *)
(* active leaf state.  A parallel mode owns one activation of components.  *)
(*                                                                         *)
(* A definition no action uses, right before the one it is a variant of,   *)
(* is a deliberate mistake used to see which property would notice it.     *)
(***************************************************************************)
EXTENDS Integers, FiniteSets, Sequences, SequencesExt

CONSTANTS
    Runtimes,       \* pool of runtime identities
    Root,           \* the root runtime of the aggregate
    Role,           \* runtime |-> "root", "component" or "spawned"
    Owner,          \* runtime |-> the runtime that owns it
    Activation,     \* component |-> the parallel activation that allocated it
    Modes,          \* abstract state configurations
    ParallelModes   \* those whose leaf is a parallel state

NonRoot == Runtimes \ {Root}
Components == {c \in Runtimes : Role[c] = "component"}
Spawned == {c \in Runtimes : Role[c] = "spawned"}

ASSUME OwnershipAssumption ==
    /\ Runtimes \subseteq Nat
    /\ IsFiniteSet(Runtimes)
    /\ Root \in Runtimes
    /\ Role \in [Runtimes -> {"root", "component", "spawned"}]
    /\ \A r \in Runtimes : Role[r] = "root" <=> r = Root
    /\ Owner \in [NonRoot -> Runtimes]
    /\ \A r \in NonRoot : Owner[r] < r
    /\ DOMAIN Activation = Components
    /\ \A c, d \in Components : Activation[c] = Activation[d] => Owner[c] = Owner[d]

ASSUME ModesAssumption == Modes # {} /\ ParallelModes \subseteq Modes

VARIABLES
    status,         \* runtime |-> its lifecycle status
    mode            \* runtime |-> its mode, meaningful while it runs

Status == {"absent", "running", "faulted", "completed", "removed"}

\* Runtimes that have an object in the aggregate's "runtimes" under the statuses st.
PresentIn(st) == {r \in Runtimes : st[r] \in {"running", "faulted", "completed"}}
Present == PresentIn(status)

Children(r) == {c \in NonRoot : Owner[c] = r}
ComponentsOf(r) == Children(r) \cap Components
Siblings(c) == {d \in Components : Activation[d] = Activation[c]}

Ancestors[r \in Runtimes] ==
    IF r = Root THEN {} ELSE {Owner[r]} \cup Ancestors[Owner[r]]

Subtree(r) == {r} \cup {d \in Runtimes : r \in Ancestors[d]}
Descendants(r) == Subtree(r) \ {r}

-----------------------------------------------------------------------------
(* Eligibility.                                                            *)

EligibleAlone(r) == status[r] = "running"

\* A running runtime none of whose owners is faulted.
Eligible(r) ==
    /\ status[r] = "running"
    /\ \A a \in Ancestors[r] : status[a] \in {"running", "completed"}

\* A faulted owner freezes its whole subtree: no exit action runs there.
Frozen(r) == \E a \in {r} \cup Ancestors[r] : status[a] = "faulted"

-----------------------------------------------------------------------------
(* Run-to-completion outcomes.                                             *)

RemovedByCancel(r, tops, leaves) == Present \cap UNION {Subtree(t) : t \in tops}

\* What a step of r removes: the spawned runtimes it cancels and, when it
\* leaves its leaf state, the components of that state, each with its subtree.
Removed(r, tops, leaves) ==
    Present \cap UNION {Subtree(t) : t \in tops \cup (IF leaves THEN ComponentsOf(r) ELSE {})}

\* The spawned runtimes r may cancel: those it owns, directly or not.
Cancellable(r) == Present \cap Spawned \cap Descendants(r)

\* A parallel mode allocates one whole activation of its owner, others none.
AllocatesFor(p, m, created) ==
    IF m \in ParallelModes
    THEN \E c \in ComponentsOf(p) : created \cap ComponentsOf(p) = Siblings(c)
    ELSE created \cap ComponentsOf(p) = {}

\* Initialisation results: a component that completes stays, a spawned
\* runtime that completes is dropped, a faulted one keeps its diagnostic.
InitResults(created) ==
    {f \in [created -> {"running", "faulted", "completed", "removed"}] :
       \A c \in created : f[c] # IF Role[c] = "spawned" THEN "completed" ELSE "removed"}

\* Which absent descendants a step of r may create, when the runtimes that enter
\* a mode (r itself, if it "enters" one, and the created ones) get it from md.  A runtime whose initialisation faults keeps nothing it had created.
CanCreate(r, created, init, md, enters) ==
    /\ \A c \in created : Owner[c] = r \/ (Owner[c] \in created /\ init[Owner[c]] = "running")
    /\ IF enters THEN AllocatesFor(r, md[r], created)
                 ELSE created \cap ComponentsOf(r) = {}
    /\ \A p \in created : init[p] = "running" => AllocatesFor(p, md[p], created)

-----------------------------------------------------------------------------
(* Lifecycle notifications, sent by the system to the owner.               *)

\* Sources of envelopes that are not runtimes.
Host == -1
System == -2

FailureEvents == {"component_failed", "spawned_instance_failed"}
SystemEvents == FailureEvents \cup {"component_completed", "done"}

Report(event, c) ==
    [event |-> event, target |-> Owner[c], source |-> System, subject |-> c]

FailureReport(c) ==
    Report(IF Role[c] = "component" THEN "component_failed" ELSE "spawned_instance_failed", c)

DoneWithAnyCompletion(c, last, st) ==
    IF Role[c] = "spawned" THEN <<Report("done", c)>>
    ELSE <<Report("component_completed", c)>> \o (IF last THEN <<Report("done", c)>> ELSE <<>>)

\* "done" goes with the completion that leaves every sibling completed.
CompletionReports(c, last, st) ==
    IF Role[c] = "spawned" THEN <<Report("done", c)>>
    ELSE <<Report("component_completed", c)>> \o
         (IF last /\ \A d \in Siblings(c) : st[d] = "completed"
          THEN <<Report("done", c)>> ELSE <<>>)

\* The members of E in allocation order.
InOrder(E) ==
    CHOOSE s \in [1 .. Cardinality(E) -> E] : \A i, j \in DOMAIN s : i < j => s[i] < s[j]

SilentInitFaults(created, st) ==
    LET ended == InOrder({c \in created : st[c] \notin {"running", "faulted"}})
    IN FlattenSeq([i \in 1 .. Len(ended) |-> CompletionReports(ended[i], FALSE, st)])

\* What the initialisation of c reports when it does not leave c running; the
\* last component of an activation sees how all of them fared.
InitReportsOf(c, st) ==
    IF st[c] = "faulted" THEN <<FailureReport(c)>>
    ELSE CompletionReports(c, \A d \in Siblings(c) : d <= c, st)

\* What the initialisation of the created runtimes reports, in allocation order.
InitReports(created, st) ==
    LET ended == InOrder({c \in created : st[c] # "running"})
    IN FlattenSeq([i \in 1 .. Len(ended) |-> InitReportsOf(ended[i], st)])

\* What the completion of r itself reports.
OwnReports(r, st) == IF r = Root THEN <<>> ELSE CompletionReports(r, TRUE, st)

-----------------------------------------------------------------------------
(* Addressing: whom the author's send actions can name.                    *)

\* Self, the owner, an eligible component of the sender, an eligible instance.
Addressable(x, created) ==
    {x} \cup (IF x = Root THEN {} ELSE {Owner[x]})
        \cup {c \in ComponentsOf(x) \cup Spawned : c \in created \/ Eligible(c)}

=============================================================================
