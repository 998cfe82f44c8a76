------------------------------- MODULE Stores -------------------------------
(***************************************************************************)
(* The execution stores (stores/*.py) under the transactions of the        *)
(* execution host and of run_shared_transaction (host.py).  Sessions are   *)
(* threads or processes that run one host operation at a time in one store *)
(* transaction: open, load, stage an insert or a replacement, commit.      *)
(* What an operation does to a checkpoint is in Checkpoint and             *)
(* ExecutionHost; here a checkpoint is its revision and the operations it  *)
(* keeps a receipt of, and "exactly equal" stands for revision and digest. *)
(*                                                                         *)
(* Locks, atomic renaming and row versions are those of the operating      *)
(* system, of SQLite and of PostgreSQL at its default isolation.           *)
(***************************************************************************)
EXTENDS Naturals, FiniteSets

CONSTANTS
    Roots,
    Creations,      \* create_v1, by creation id
    Changes,        \* operations answered with a "result"
    Evidenced,      \* admit_v1, process_ready_v1, terminalize_outbox: answered without
    Configs,        \* stores and what uses them: the bounds of each
    MaxRevision     \* bound

Policies == {"bounded", "permanent"}
Databases == {"sqlite", "postgresql"}
Adapters == Databases \cup {"memory", "file"}
Prune == "prune"
Kept == Creations \cup Changes \cup Evidenced
Operations == Kept \cup {Prune}

ASSUME StoresAssumption ==
    /\ MaxRevision \in Nat
    /\ Creations \cap (Changes \cup Evidenced) = {} /\ Changes \cap Evidenced = {}
    /\ Prune \notin Kept
    /\ \A c \in Configs :
          /\ c.adapter \in Adapters
          /\ \A s \in DOMAIN c.policyOf : c.policyOf[s] \in Policies
          /\ c.roots \subseteq Roots /\ c.operations \subseteq Operations
          /\ c.backups \subseteq c.roots /\ c.crashes \in Nat /\ c.verified \in BOOLEAN

VARIABLES
    config,     \* chosen once: adapter, policyOf (session |-> the replay retention
                \* its store is configured with), roots and operations used, roots
                \* whose backup is validated, how many crashes, and whether the
                \* policy is verified whenever capabilities are asked for
    schema,     \* retention policy recorded at setup, or "none"
    visible,    \* root |-> committed checkpoint or None
    rows,       \* application rows: <<root, operation>> they were written with
    session,
    told,       \* <<root, operation>> answered as committed
    backup,     \* a call of validate_backup_restore_v1
    crashes

vars == <<config, schema, visible, rows, session, told, backup, crashes>>

adapter == config.adapter
Sessions == DOMAIN config.policyOf

None == [none |-> TRUE]

Idle == [phase |-> "idle"]
NoBackup == [phase |-> "none"]

InTransaction(s) == session[s].phase \notin {"idle", "called"}

-----------------------------------------------------------------------------
(* What the adapters allow.                                                *)

\* One lock for the whole store: a thread lock, or SQLite's BEGIN IMMEDIATE.
HoldsStore(t) == adapter \in {"memory", "sqlite"} /\ InTransaction(t)

\* A lock file for each root.
HoldsFile(t, root) == adapter = "file" /\ InTransaction(t) /\ session[t].root = root

\* A row is locked by who selected it for update, or inserted it.
HoldsRow(t, root) ==
    /\ adapter = "postgresql" /\ InTransaction(t) /\ session[t].root = root
    /\ session[t].phase # "open"
    /\ session[t].seen # None \/ session[t].staged # None

MayOpen(s) ==
    \A t \in Sessions \ {s} : ~HoldsStore(t) /\ ~HoldsFile(t, session[s].root)

RowLocked(s) == \E t \in Sessions \ {s} : HoldsRow(t, session[s].root)

\* _validate_schema: exact tables, triggers and metadata, which name the policy.
PolicyRecorded(s) == schema = config.policyOf[s]

\* Checked in each transaction; _require_schema of a file store asks for a marker.
SchemaValid(s) ==
    /\ adapter \in Databases => PolicyRecorded(s)
    /\ adapter = "file" => schema # "none"

\* Only "permanent" databases claim permanent receipts; the host then refuses a
\* candidate that forgets one.  Capabilities verifies the recorded policy over a
\* connection of its own and claims nothing when that fails, for whatever reason.
MayForget(s) == adapter \in Databases /\ config.verified => config.policyOf[s] # "permanent"

-----------------------------------------------------------------------------
(* One host operation in one transaction.                                  *)

Init ==
    /\ config \in Configs
    /\ schema = "none"
    /\ visible = [r \in Roots |-> None]
    /\ rows = {} /\ told = {}
    /\ session = [s \in Sessions |-> Idle]
    /\ backup = NoBackup /\ crashes = 0

\* setup_schema; a schema that is there is validated and left as it is.
SetupSchema(s) ==
    /\ schema = "none"
    /\ schema' = config.policyOf[s]
    /\ UNCHANGED <<config, visible, rows, session, told, backup, crashes>>

Go(s, new) ==
    /\ session' = [session EXCEPT ![s] = new]
    /\ UNCHANGED <<config, schema, backup, crashes>>

\* A caller names the operation and the checkpoint it last read; only a store
\* that claims shared_application_transaction runs a callback.
Call(s, root, op, shared) ==
    /\ session[s] = Idle
    /\ shared => adapter = "postgresql"
    /\ Go(s, [phase |-> "called", root |-> root, op |-> op, shared |-> shared,
              expected |-> visible[root]])
    /\ UNCHANGED <<visible, rows, told>>

Open(s) ==
    /\ session[s].phase = "called"
    /\ SchemaValid(s) /\ MayOpen(s)
    /\ Go(s, [session[s] EXCEPT !.phase = "open"])
    /\ UNCHANGED <<visible, rows, told>>

Load(s) ==
    /\ session[s].phase = "open"
    /\ visible[session[s].root] # None => ~RowLocked(s)
    /\ Go(s, [phase |-> "loaded", root |-> session[s].root, op |-> session[s].op,
              shared |-> session[s].shared, expected |-> session[s].expected,
              seen |-> visible[session[s].root], staged |-> None])
    /\ UNCHANGED <<visible, rows, told>>

\* The receipt of an earlier run of the operation is found.
Replays(s) == session[s].seen # None /\ session[s].op \in session[s].seen.done

\* _check_expected, and the root must not or must exist.
Expected(s) ==
    IF session[s].op \in Creations THEN session[s].seen = None
    ELSE session[s].seen # None /\ session[s].seen = session[s].expected

\* The checkpoints an operation makes of the one it loaded.
Candidates(s) ==
    IF session[s].op \in Creations THEN {[revision |-> 0, done |-> {session[s].op}]}
    ELSE IF session[s].op = Prune
         THEN {[revision |-> session[s].seen.revision + 1, done |-> kept] :
                  kept \in {k \in SUBSET session[s].seen.done :
                               session[s].seen.done \cap Creations \subseteq k}}
    ELSE {[revision |-> session[s].seen.revision + 1,
           done |-> session[s].seen.done \cup {session[s].op}]}

\* insert and replace of the memory and file stores: what was read at the opening.
AsRead(s) == adapter \notin Databases /\ session[s].seen = session[s].expected

\* A database insert that replaces what it finds.
InsertOrReplace(s) == TRUE

\* A database insert waits for a rival's and does nothing when the row is there.
Inserts(s) == visible[session[s].root] = None

\* A database update names the revision and digest to replace.
Replaces(s) == visible[session[s].root] = session[s].expected

SwapSucceeds(s) ==
    IF session[s].op \in Creations
    THEN IF adapter \in Databases THEN Inserts(s) ELSE session[s].seen = None
    ELSE AsRead(s) \/ (adapter \in Databases /\ Replaces(s))

Stage(s) ==
    /\ session[s].phase = "loaded" /\ ~Replays(s) /\ Expected(s)
    /\ session[s].op = Prune => MayForget(s)
    /\ ~RowLocked(s)
    /\ SwapSucceeds(s)
    /\ \E candidate \in Candidates(s) :
          /\ candidate.revision <= MaxRevision
          /\ Go(s, [session[s] EXCEPT !.phase = "staged", !.staged = candidate])
    /\ UNCHANGED <<visible, rows, told>>

FindReceipt(s) ==
    /\ session[s].phase = "loaded" /\ Replays(s)
    /\ Go(s, [session[s] EXCEPT !.phase = "staged"])
    /\ UNCHANGED <<visible, rows, told>>

\* A callback whose rows are committed when it returns.
ReturnCommitting(s) ==
    /\ session[s].phase = "staged" /\ session[s].shared
    /\ session' = [session EXCEPT ![s].phase = "returned"]
    /\ rows' = rows \cup {<<session[s].root, session[s].op>>}
    /\ UNCHANGED <<config, schema, visible, told, backup, crashes>>

\* run_shared_transaction: the callback returns.
Return(s) ==
    /\ session[s].phase = "staged" /\ session[s].shared
    /\ Go(s, [session[s] EXCEPT !.phase = "returned"])
    /\ UNCHANGED <<visible, rows, told>>

\* _finish looks for a "result" in the response of the operation.
HasResult(op) == op \notin Evidenced

\* The answer reaches the caller, or is lost.
Answer(s) ==
    \/ session[s].op \in Kept /\ told' = told \cup {<<session[s].root, session[s].op>>}
    \/ UNCHANGED told

Written(s) ==
    visible' = IF session[s].staged = None THEN visible
               ELSE [visible EXCEPT ![session[s].root] = session[s].staged]

\* Application rows are in the same native transaction.
AppRows(s) ==
    IF session[s].shared THEN rows \cup {<<session[s].root, session[s].op>>} ELSE rows

Commit(s) ==
    /\ \/ session[s].phase = "staged" /\ ~session[s].shared
       \/ session[s].phase = "returned" /\ HasResult(session[s].op)
    /\ adapter = "file" => session[s].staged = None
    /\ Written(s) /\ rows' = AppRows(s)
    /\ Answer(s)
    /\ Go(s, Idle)

-----------------------------------------------------------------------------
(* _FileTransaction.commit: a temporary file, its renaming, the directory. *)

\* What the file of the root holds while the temporary one is written.
WhileWriting(s) == visible[session[s].root]

WriteTemporary(s) ==
    /\ adapter = "file" /\ session[s].phase = "staged" /\ session[s].staged # None
    /\ Go(s, [session[s] EXCEPT !.phase = "temporary"])
    /\ visible' = [visible EXCEPT ![session[s].root] = WhileWriting(s)]
    /\ UNCHANGED <<rows, told>>

Rename(s) ==
    /\ session[s].phase = "temporary"
    /\ Written(s)
    /\ Go(s, [session[s] EXCEPT !.phase = "renamed"])
    /\ UNCHANGED <<rows, told>>

SyncDirectory(s) ==
    /\ session[s].phase = "renamed"
    /\ Answer(s)
    /\ Go(s, Idle)
    /\ UNCHANGED <<visible, rows>>

-----------------------------------------------------------------------------
(* Failures.                                                               *)

\* What the code raises for: no valid schema, an unknown root, another checkpoint
\* than the expected one, a rival's insert; and the bound.
Refused(s) ==
    \/ session[s].phase = "called" /\ ~SchemaValid(s)
    \/ /\ session[s].phase = "loaded" /\ ~Replays(s)
       /\ \/ ~Expected(s)
          \/ session[s].op = Prune /\ ~MayForget(s)
          \/ ~SwapSucceeds(s) /\ ~RowLocked(s)
          \/ session[s].seen # None /\ session[s].seen.revision = MaxRevision

Refuse(s) ==
    /\ Refused(s)
    /\ Go(s, Idle)
    /\ UNCHANGED <<visible, rows, told>>

\* An exception of the callback, an I/O error: what is staged is dropped; a file
\* that was renamed stays.
Fail(s) ==
    /\ session[s].phase \notin {"idle", "called", "returned"}
    /\ Go(s, Idle)
    /\ UNCHANGED <<visible, rows, told>>

RaiseAtFinish(s) ==
    /\ session[s].phase = "returned" /\ ~HasResult(session[s].op)
    /\ Go(s, Idle)
    /\ UNCHANGED <<visible, rows, told>>

\* The processes end: locks and open transactions go with them, and so does a
\* store that lives in memory.
Crash ==
    /\ crashes < config.crashes /\ crashes' = crashes + 1
    /\ session' = [s \in Sessions |-> Idle]
    /\ backup' = NoBackup
    /\ IF adapter = "memory"
       THEN visible' = [r \in Roots |-> None] /\ told' = {} /\ schema' = "none"
       ELSE UNCHANGED <<visible, told, schema>>
    /\ UNCHANGED <<config, rows>>

-----------------------------------------------------------------------------
(* validate_backup_restore_v1, for a backup.                               *)

\* read_checkpoint: a transaction of its own.
Readable(r) ==
    \A t \in Sessions : ~HoldsStore(t) /\ ~HoldsFile(t, r) /\ ~HoldsRow(t, r)

Backup(new) ==
    /\ backup' = new
    /\ UNCHANGED <<config, schema, visible, rows, session, told, crashes>>

\* The caller collects the members, in any order and over any time.
Collect(r) ==
    /\ backup = NoBackup \/ backup.phase = "collecting"
    /\ Readable(r) /\ visible[r] # None
    /\ LET members == IF backup = NoBackup THEN [x \in {} |-> None] ELSE backup.members
       IN /\ r \notin DOMAIN members
          /\ Backup([phase |-> "collecting",
                     members |-> [x \in DOMAIN members \cup {r} |->
                                    IF x = r THEN visible[r] ELSE members[x]]])

\* and calls with what it has; the time of the call is kept for BackupIsSnapshot.
CallBackup ==
    /\ backup.phase = "collecting"
    /\ Backup([phase |-> "checking", members |-> backup.members, checked |-> {},
               called |-> visible])

\* Each member must still be stored, in this or a later revision.
UnchangedOrLater(r) ==
    visible[r] # None /\ visible[r].revision >= backup.members[r].revision

\* Each member must still be the stored one, byte for byte.
Unchanged(r) == visible[r] = backup.members[r]

CheckMember(r) ==
    /\ backup.phase = "checking" /\ r \in DOMAIN backup.members \ backup.checked
    /\ Readable(r) /\ Unchanged(r)
    /\ Backup([backup EXCEPT !.checked = @ \cup {r}])

EndBackup ==
    /\ backup # NoBackup
    /\ Backup(NoBackup)

Validated == backup.phase = "checking" /\ backup.checked = DOMAIN backup.members

-----------------------------------------------------------------------------
Proceed(s) ==
    \/ Open(s) \/ Load(s) \/ Stage(s) \/ FindReceipt(s) \/ Return(s)
    \/ Commit(s) \/ WriteTemporary(s) \/ Rename(s) \/ SyncDirectory(s)
    \/ RaiseAtFinish(s) \/ Refuse(s)

Next ==
    \/ \E s \in Sessions :
          \/ SetupSchema(s)
          \/ \E r \in config.roots, op \in config.operations, shared \in BOOLEAN : Call(s, r, op, shared)
          \/ Proceed(s)
          \/ Fail(s)
    \/ Crash
    \/ \E r \in config.backups : Collect(r) \/ CheckMember(r)
    \/ CallBackup
    \/ EndBackup

Spec == Init /\ [][Next]_vars

-----------------------------------------------------------------------------
(* Properties.                                                             *)

\* A database set up for permanent receipts, whose policy can be verified.
ClaimsReceipts == schema = "permanent" /\ adapter \in Databases /\ config.verified

Register == INSTANCE CheckpointRegister WITH
    Operations <- Kept, value <- visible, ephemeral <- adapter = "memory",
    permanent <- ClaimsReceipts

\* Whatever sessions of whatever store do at the same time, wherever they fail or
\* crash, each root is one register: no update is lost or half visible, no
\* operation committed twice, what a caller was told is so (README.md:239-243), and
\* a database set up for permanent receipts forgets none while its policy can be
\* verified, although anyone may open it with another one (README.md:246-252).
ImplementsRegister == Register!Spec

\* Rows an application writes in a shared transaction are committed with the
\* checkpoint that has the operation's receipt, or not at all (README.md:273-278).
RowsWithTheirCheckpoint ==
    [][/\ \A p \in rows' \ rows :
             p[2] \in Kept => visible'[p[1]] # None /\ p[2] \in visible'[p[1]].done
       /\ \A s \in Sessions :
             session[s].phase = "returned" /\ visible'[session[s].root] # visible[session[s].root]
             => <<session[s].root, session[s].op>> \in rows']_vars

\* The members of a validated backup were stored together, at the time of the
\* call, although they are collected and checked one by one and the roots change
\* in between: a checkpoint once replaced never comes back (host.py:643).
BackupIsSnapshot ==
    Validated => \A r \in DOMAIN backup.members : backup.called[r] = backup.members[r]

\* An operation staged without an error in a callback that returned is committed
\* (README.md:274-278).
StagedIsCommitted ==
    [][\A s \in Sessions :
          session[s].phase = "returned" /\ session'[s].phase = "idle"
          /\ session[s].op \in Kept /\ crashes' = crashes =>
             (visible'[session[s].root] # None
              /\ session[s].op \in visible'[session[s].root].done)]_vars
=============================================================================
