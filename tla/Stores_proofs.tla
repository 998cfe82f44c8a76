---------------------------- MODULE Stores_proofs ----------------------------
(***************************************************************************)
(* Proofs about Stores for every set of roots and operations, every bound  *)
(* on revisions and every configuration: any number of sessions, each with *)
(* a policy of its own, over any of the four adapters.                     *)
(*                                                                         *)
(* The argument is about who may write a root.  A session guards its root  *)
(* once nobody else can change it: from the opening with a lock, from the  *)
(* first row it sees or inserts with PostgreSQL.  Two sessions never guard *)
(* the same root, and what a session read is what is stored while it       *)
(* guards it, so what it stages follows what is stored.                    *)
(***************************************************************************)
EXTENDS Stores, TLAPS

-----------------------------------------------------------------------------
(* The inductive invariant.                                                *)

IsCheckpoint(c) ==
    /\ c = [revision |-> c.revision, done |-> c.done]
    /\ c.revision \in Nat /\ c.done \subseteq Kept

Reading == {"loaded", "staged", "returned", "temporary", "renamed"}
Staging == {"staged", "returned", "temporary", "renamed"}

IsSession(x) ==
    \/ x = Idle
    \/ /\ x.root \in Roots /\ x.op \in Operations /\ x.shared \in BOOLEAN
       /\ \/ /\ x.phase \in {"called", "open"}
             /\ x = [phase |-> x.phase, root |-> x.root, op |-> x.op, shared |-> x.shared,
                     expected |-> x.expected]
          \/ /\ x.phase \in Reading
             /\ x = [phase |-> x.phase, root |-> x.root, op |-> x.op, shared |-> x.shared,
                     expected |-> x.expected, seen |-> x.seen, staged |-> x.staged]

\* Every variable has its fields.
TypeOK ==
    /\ config \in Configs
    /\ schema \in Policies \cup {"none"}
    /\ visible = [r \in Roots |-> visible[r]]
    /\ \A r \in Roots : visible[r] = None \/ IsCheckpoint(visible[r])
    /\ session = [s \in Sessions |-> session[s]]
    /\ \A s \in Sessions : IsSession(session[s])

Inside(x) == x.phase \notin {"idle", "called"}

\* Nobody else can change the root of such a session.
Guards(x) ==
    /\ Inside(x)
    /\ adapter = "postgresql" => x.phase # "open" /\ (x.seen # None \/ x.staged # None)

\* What is staged follows what was read, by the operation or by a pruning; with
\* nothing staged, the receipt was there.
Follows(x) ==
    \/ x.staged = None /\ x.seen # None /\ x.op \in x.seen.done
    \/ x.staged # None /\ x.seen = None /\ x.op \in Kept /\ x.staged = [revision |-> 0, done |-> {x.op}]
    \/ /\ x.staged # None /\ x.seen # None /\ x.op \in Kept /\ x.op \notin x.seen.done
       /\ x.staged = [revision |-> x.seen.revision + 1, done |-> x.seen.done \cup {x.op}]
    \/ /\ x.staged # None /\ x.seen # None /\ x.op = Prune
       /\ x.staged = [revision |-> x.seen.revision + 1, done |-> x.staged.done]
       /\ x.staged.done \subseteq x.seen.done

\* What a session knows, given the schema and what its root holds.
Sound(s, x) ==
    /\ Inside(x) /\ adapter \in Databases => PolicyRecorded(s)
    /\ x.phase # "idle" /\ x.shared => adapter = "postgresql"
    /\ x.phase = "loaded" => x.staged = None
    /\ x.phase \in Staging => Follows(x)
    /\ x.phase \in Staging /\ x.op = Prune /\ x.staged # None => MayForget(s)
    /\ x.phase = "returned" => x.shared
    /\ x.phase \in {"temporary", "renamed"} => adapter = "file" /\ x.staged # None
    /\ x.phase \in Reading /\ Guards(x) =>
          visible[x.root] = IF x.phase = "renamed" THEN x.staged ELSE x.seen

SessionsSound == \A s \in Sessions : Sound(s, session[s])

\* No two sessions guard the same root.
Exclusive ==
    \A s, t \in Sessions :
       s # t /\ Guards(session[s]) /\ Guards(session[t]) => session[s].root # session[t].root

\* A database that was not set up is empty.
SchemaFirst == adapter \in Databases /\ schema = "none" => \A r \in Roots : visible[r] = None

\* d is c, or what a root holds some commits after it held c.
Precedes(c, d) ==
    /\ c # None /\ d # None
    /\ c.revision <= d.revision
    /\ c.revision = d.revision => c = d

\* A member was stored when it was collected, and what is stored now is it or later;
\* so is what was stored at the time of the call, in between.
BackupSound ==
    \/ backup = NoBackup
    \/ /\ backup = [phase |-> "collecting", members |-> backup.members]
       /\ \A r \in DOMAIN backup.members :
             r \in Roots /\ IsCheckpoint(backup.members[r]) /\ Precedes(backup.members[r], visible[r])
    \/ /\ backup = [phase |-> "checking", members |-> backup.members, checked |-> backup.checked,
                    called |-> backup.called]
       /\ \A r \in DOMAIN backup.members :
             /\ r \in Roots /\ IsCheckpoint(backup.members[r]) /\ IsCheckpoint(backup.called[r])
             /\ Precedes(backup.members[r], backup.called[r])
             /\ Precedes(backup.called[r], visible[r])
             /\ r \in backup.checked => backup.called[r] = backup.members[r]

IInv == TypeOK /\ SessionsSound /\ Exclusive /\ SchemaFirst /\ BackupSound

-----------------------------------------------------------------------------
(* Operators.                                                              *)

\* A checkpoint is not the absence of one.
LEMMA NotNone ==
    ASSUME NEW c, IsCheckpoint(c)
    PROVE  c # None
<1>1. c = [revision |-> c.revision, done |-> c.done]
  BY DEF IsCheckpoint
<1>2. DOMAIN c = {"revision", "done"}
  BY <1>1
<1>3. DOMAIN None = {"none"}
  BY DEF None
<1> QED
  BY <1>2, <1>3

\* Revisions only grow, so what follows what follows, follows.
LEMMA PrecedesTransitive ==
    ASSUME NEW c, NEW d, NEW e, IsCheckpoint(c), IsCheckpoint(d), IsCheckpoint(e),
           Precedes(c, d), Precedes(d, e)
    PROVE  Precedes(c, e)
  BY DEF Precedes, IsCheckpoint

\* A checkpoint precedes itself.
LEMMA PrecedesItself ==
    ASSUME NEW c, IsCheckpoint(c)
    PROVE  Precedes(c, c)
  BY NotNone DEF Precedes, IsCheckpoint

\* What a configuration may be.
LEMMA Configured ==
    ASSUME TypeOK
    PROVE  /\ adapter \in Adapters
           /\ \A s \in Sessions : config.policyOf[s] \in Policies
           /\ config.roots \subseteq Roots /\ config.operations \subseteq Operations
           /\ config.backups \subseteq Roots
  BY StoresAssumption DEF TypeOK, adapter, Sessions

\* A session that has called has a root and an operation.
LEMMA Caller ==
    ASSUME NEW x, IsSession(x), x.phase # "idle"
    PROVE  x.root \in Roots /\ x.op \in Operations /\ x.shared \in BOOLEAN
  BY DEF IsSession, Idle

\* One that has read its root has all fields.
LEMMA Reader ==
    ASSUME NEW x, IsSession(x), x.phase \in Reading
    PROVE  x = [phase |-> x.phase, root |-> x.root, op |-> x.op, shared |-> x.shared,
                expected |-> x.expected, seen |-> x.seen, staged |-> x.staged]
  BY DEF IsSession, Idle, Reading

\* The next phase of a session that has read its root, with what it stages.
LEMMA Proceeds ==
    ASSUME NEW x, IsSession(x), x.phase \in Reading, NEW p \in Reading, NEW c,
           NEW y, y = [phase |-> p, root |-> x.root, op |-> x.op, shared |-> x.shared,
                       expected |-> x.expected, seen |-> x.seen, staged |-> c]
    PROVE  /\ IsSession(y) /\ y.phase = p /\ y.root = x.root /\ y.op = x.op
           /\ y.shared = x.shared /\ y.seen = x.seen /\ y.staged = c
<1>1. /\ y.phase = p /\ y.root = x.root /\ y.op = x.op /\ y.shared = x.shared
      /\ y.expected = x.expected /\ y.seen = x.seen /\ y.staged = c
  OBVIOUS
<1>2. x.root \in Roots /\ x.op \in Operations /\ x.shared \in BOOLEAN
  BY Caller DEF Reading
<1> QED
  BY <1>1, <1>2 DEF IsSession

\* The same with the staged checkpoint as it is.
LEMMA ChangesPhase ==
    ASSUME NEW x, IsSession(x), x.phase \in Reading, NEW p \in Reading,
           NEW y, y = [x EXCEPT !.phase = p]
    PROVE  /\ IsSession(y) /\ y.phase = p /\ y.root = x.root /\ y.op = x.op
           /\ y.shared = x.shared /\ y.seen = x.seen /\ y.staged = x.staged
<1>1. x = [phase |-> x.phase, root |-> x.root, op |-> x.op, shared |-> x.shared,
           expected |-> x.expected, seen |-> x.seen, staged |-> x.staged]
  BY Reader
<1>2. y = [phase |-> p, root |-> x.root, op |-> x.op, shared |-> x.shared,
           expected |-> x.expected, seen |-> x.seen, staged |-> x.staged]
  BY <1>1
<1>3. /\ y.phase = p /\ y.root = x.root /\ y.op = x.op /\ y.shared = x.shared
      /\ y.expected = x.expected /\ y.seen = x.seen /\ y.staged = x.staged
  BY <1>2
<1>4. x.root \in Roots /\ x.op \in Operations /\ x.shared \in BOOLEAN
  BY Caller DEF Reading
<1> QED
  BY <1>2, <1>3, <1>4 DEF IsSession

-----------------------------------------------------------------------------
(* Steps of one session.                                                   *)

\* What a step of one session does to the others: nothing.
LEMMA Alone ==
    ASSUME TypeOK, NEW s \in Sessions, NEW y, session' = [session EXCEPT ![s] = y],
           config' = config
    PROVE  /\ Sessions' = Sessions /\ adapter' = adapter
           /\ session' = [t \in Sessions |-> session'[t]]
           /\ session'[s] = y
           /\ \A t \in Sessions : t # s => session'[t] = session[t]
  BY DEF TypeOK, Sessions, adapter

\* What a session knows stays true while its root stays as it is, or it does not
\* guard it.
LEMMA SoundKept ==
    ASSUME NEW s, NEW x, Sound(s, x), config' = config,
           Inside(x) /\ adapter \in Databases => schema' = schema,
           x.phase \in Reading /\ Guards(x) => visible'[x.root] = visible[x.root]
    PROVE  Sound(s, x)'
<1>1. adapter' = adapter
  BY DEF adapter
<1>2. Guards(x)' = Guards(x)
  BY <1>1 DEF Guards, Inside
<1>3. MayForget(s)' = MayForget(s)
  BY <1>1 DEF MayForget
<1>4. Inside(x) /\ adapter \in Databases => PolicyRecorded(s)' = PolicyRecorded(s)
  BY DEF PolicyRecorded
<1> QED
  BY <1>1, <1>2, <1>3, <1>4 DEF Sound, Inside, Follows

\* A session that writes no root.
LEMMA QuietStep ==
    ASSUME IInv, NEW s \in Sessions, NEW y, Go(s, y), visible' = visible,
           IsSession(y), Sound(s, y),
           Guards(y) =>
              \/ Guards(session[s]) /\ y.root = session[s].root
              \/ \A t \in Sessions \ {s} : Guards(session[t]) => session[t].root # y.root
    PROVE  IInv'
<1>1. UNCHANGED <<config, schema, backup>> /\ session' = [session EXCEPT ![s] = y]
  BY DEF Go
<1>2. /\ Sessions' = Sessions /\ adapter' = adapter
      /\ session' = [t \in Sessions |-> session'[t]] /\ session'[s] = y
      /\ \A t \in Sessions : t # s => session'[t] = session[t]
  BY <1>1, Alone DEF IInv
<1>3. TypeOK'
  BY <1>1, <1>2 DEF IInv, TypeOK
<1>4. \A x : Guards(x)' = Guards(x)
  BY <1>2 DEF Guards, Inside
<1>5. SessionsSound'
  <2>1. \A t \in Sessions : Sound(t, session'[t])
    BY <1>2 DEF IInv, SessionsSound
  <2>2. \A t \in Sessions : \A x : Sound(t, x) => Sound(t, x)'
    BY <1>1, SoundKept
  <2> QED
    BY <1>2, <2>1, <2>2 DEF SessionsSound
<1>6. Exclusive'
  <2>1. \A t, u \in Sessions :
           t # u /\ Guards(session'[t]) /\ Guards(session'[u]) => session'[t].root # session'[u].root
    BY <1>2 DEF IInv, Exclusive
  <2> QED
    BY <1>2, <1>4, <2>1 DEF Exclusive
<1>7. SchemaFirst' /\ BackupSound'
  BY <1>1, <1>2 DEF IInv, SchemaFirst, BackupSound
<1> QED
  BY <1>3, <1>5, <1>6, <1>7 DEF IInv

\* What a session is about to write follows what its root holds.
LEMMA StagedFollows ==
    ASSUME IInv, NEW s \in Sessions, NEW x, x = session[s],
           x.phase \in {"staged", "returned", "temporary"}
    PROVE  /\ IsSession(x) /\ Inside(x) /\ Guards(x) /\ Follows(x)
           /\ x.root \in Roots /\ x.op \in Operations
           /\ visible[x.root] = x.seen
           /\ x.seen = None \/ IsCheckpoint(x.seen)
           /\ x.staged # None => /\ IsCheckpoint(x.staged)
                                 /\ x.seen # None => Precedes(x.seen, x.staged)
<1>1. IsSession(x) /\ Sound(s, x)
  BY DEF IInv, TypeOK, SessionsSound
<1>2. x.root \in Roots /\ x.op \in Operations
  BY <1>1, Caller
<1>3. Inside(x) /\ Follows(x) /\ x.phase \in Reading
  BY <1>1 DEF Inside, Sound, Staging, Reading
<1>4. x.staged # None \/ x.seen # None
  BY <1>3 DEF Follows
<1>5. Guards(x)
  BY <1>3, <1>4 DEF Guards
<1>6. visible[x.root] = x.seen
  BY <1>1, <1>3, <1>5 DEF Sound
<1>7. x.seen = None \/ IsCheckpoint(x.seen)
  BY <1>2, <1>6 DEF IInv, TypeOK
<1>8. ASSUME x.staged # None
      PROVE  /\ IsCheckpoint(x.staged)
             /\ x.seen # None => Precedes(x.seen, x.staged)
  <2>1. CASE x.seen = None
    <3>1. x.op \in Kept /\ x.staged = [revision |-> 0, done |-> {x.op}]
      BY <1>3, <1>8, <2>1 DEF Follows
    <3>2. x.staged.revision = 0 /\ x.staged.done = {x.op}
      BY <3>1
    <3> QED
      BY <2>1, <3>1, <3>2 DEF IsCheckpoint
  <2>2. CASE x.seen # None
    <3>1. IsCheckpoint(x.seen)
      BY <1>7, <2>2
    <3>2. PICK done : done \subseteq Kept /\ x.staged = [revision |-> x.seen.revision + 1, done |-> done]
      BY <1>3, <1>8, <2>2, <3>1 DEF Follows, IsCheckpoint
    <3>3. x.staged.revision = x.seen.revision + 1 /\ x.staged.done = done
      BY <3>2
    <3>4. IsCheckpoint(x.staged)
      BY <3>1, <3>2, <3>3 DEF IsCheckpoint
    <3> QED
      BY <1>8, <2>2, <3>1, <3>3, <3>4 DEF Precedes, IsCheckpoint
  <2> QED
    BY <2>1, <2>2
<1> QED
  BY <1>1, <1>2, <1>3, <1>5, <1>6, <1>7, <1>8

\* A backup stays sound while roots only go forward.
LEMMA BackupKept ==
    ASSUME TypeOK, BackupSound, backup' = backup,
           \A r \in Roots : visible[r] # None =>
              IsCheckpoint(visible'[r]) /\ Precedes(visible[r], visible'[r])
    PROVE  BackupSound'
<1>1. CASE backup = NoBackup
  BY <1>1 DEF BackupSound
<1> DEFINE collecting == backup = [phase |-> "collecting", members |-> backup.members]
           checking == backup = [phase |-> "checking", members |-> backup.members,
                                 checked |-> backup.checked, called |-> backup.called]
<1>2. ASSUME NEW c, NEW r \in Roots, IsCheckpoint(c), Precedes(c, visible[r])
      PROVE  Precedes(c, visible'[r])
  <2>1. visible[r] # None /\ IsCheckpoint(visible[r])
    BY <1>2 DEF TypeOK, Precedes
  <2> QED
    BY <1>2, <2>1, PrecedesTransitive
<1>3. CASE collecting /\ \A r \in DOMAIN backup.members :
             r \in Roots /\ IsCheckpoint(backup.members[r]) /\ Precedes(backup.members[r], visible[r])
  BY <1>2, <1>3 DEF BackupSound
<1>4. CASE checking /\ \A r \in DOMAIN backup.members :
             /\ r \in Roots /\ IsCheckpoint(backup.members[r]) /\ IsCheckpoint(backup.called[r])
             /\ Precedes(backup.members[r], backup.called[r])
             /\ Precedes(backup.called[r], visible[r])
             /\ r \in backup.checked => backup.called[r] = backup.members[r]
  BY <1>2, <1>4 DEF BackupSound
<1> QED
  BY <1>1, <1>3, <1>4 DEF BackupSound

\* A session that writes what it staged, and ends or goes on with its root.
LEMMA WriteStep ==
    ASSUME IInv, NEW s \in Sessions, NEW x, x = session[s], NEW y, Go(s, y),
           x.phase \in {"staged", "returned", "temporary"}, x.staged # None,
           visible' = [visible EXCEPT ![x.root] = x.staged],
           IsSession(y), Sound(s, y)', Guards(y) => y.root = x.root
    PROVE  IInv'
<1>1. UNCHANGED <<config, schema, backup>> /\ session' = [session EXCEPT ![s] = y]
  BY DEF Go
<1>2. /\ Sessions' = Sessions /\ adapter' = adapter
      /\ session' = [t \in Sessions |-> session'[t]] /\ session'[s] = y
      /\ \A t \in Sessions : t # s => session'[t] = session[t]
  BY <1>1, Alone DEF IInv
<1>3. /\ Guards(x) /\ Inside(x) /\ x.root \in Roots /\ visible[x.root] = x.seen
      /\ IsCheckpoint(x.staged) /\ (x.seen # None => Precedes(x.seen, x.staged))
  BY StagedFollows
<1>4. /\ visible' = [r \in Roots |-> visible'[r]] /\ visible'[x.root] = x.staged
      /\ \A r \in Roots : r # x.root => visible'[r] = visible[r]
  BY <1>3 DEF IInv, TypeOK
<1>5. TypeOK'
  BY <1>1, <1>2, <1>3, <1>4 DEF IInv, TypeOK, IsSession
<1>6. \A z : Guards(z)' = Guards(z)
  BY <1>2 DEF Guards, Inside
<1>7. \A t \in Sessions : t # s /\ Guards(session[t]) => session[t].root # x.root
  BY <1>3 DEF IInv, Exclusive
<1>8. SessionsSound'
  <2>1. ASSUME NEW t \in Sessions, t # s
        PROVE  Sound(t, session[t])'
    <3>1. PICK z : z = session[t]
      OBVIOUS
    <3>2. Sound(t, z) /\ IsSession(z)
      BY <3>1 DEF IInv, SessionsSound, TypeOK
    <3>3. z.phase \in Reading /\ Guards(z) => visible'[z.root] = visible[z.root]
      BY <1>4, <1>7, <2>1, <3>1, <3>2, Caller DEF Reading
    <3>4. Sound(t, z)'
      BY <1>1, <3>2, <3>3, SoundKept
    <3> QED
      BY <1>2, <2>1, <3>1, <3>4
  <2> QED
    BY <1>2, <2>1 DEF SessionsSound
<1>9. Exclusive'
  <2>1. \A t, u \in Sessions :
           t # u /\ Guards(session'[t]) /\ Guards(session'[u]) => session'[t].root # session'[u].root
    BY <1>2, <1>7 DEF IInv, Exclusive
  <2> QED
    BY <1>2, <1>6, <2>1 DEF Exclusive
<1>10. SchemaFirst'
  <2>1. adapter \in Databases => schema # "none"
    BY <1>3, Configured DEF IInv, SessionsSound, Sound, PolicyRecorded, Policies
  <2> QED
    BY <1>1, <1>2, <2>1 DEF SchemaFirst
<1>11. BackupSound'
  <2>1. \A r \in Roots : visible[r] # None =>
           IsCheckpoint(visible'[r]) /\ Precedes(visible[r], visible'[r])
    BY <1>3, <1>4, PrecedesItself DEF IInv, TypeOK
  <2> QED
    BY <1>1, <2>1, BackupKept DEF IInv
<1> QED
  BY <1>5, <1>8, <1>9, <1>10, <1>11 DEF IInv

\* A session that ends guards nothing.
LEMMA EndsQuietly ==
    ASSUME IInv, NEW s \in Sessions, Go(s, Idle), visible' = visible
    PROVE  IInv'
<1>1. IsSession(Idle)
  BY DEF IsSession
<1>2. Sound(s, Idle) /\ ~Guards(Idle)
  BY DEF Sound, Guards, Inside, Idle, Reading, Staging
<1> QED
  BY <1>1, <1>2, QuietStep

\* A step by which a session keeps its root and what it guards.
LEMMA GoesOn ==
    ASSUME IInv, NEW s \in Sessions, NEW x, x = session[s], x.phase \in Reading, Guards(x),
           NEW p \in Reading, NEW y, y = [x EXCEPT !.phase = p], Go(s, y), visible' = visible,
           x.phase = "renamed" <=> p = "renamed",
           p = "loaded" => x.staged = None,
           p \in Staging => Follows(x),
           p \in Staging /\ x.op = Prune /\ x.staged # None => MayForget(s),
           p = "returned" => x.shared,
           p \in {"temporary", "renamed"} => adapter = "file" /\ x.staged # None
    PROVE  IInv'
<1>1. IsSession(x) /\ Sound(s, x)
  BY DEF IInv, TypeOK, SessionsSound
<1>2. /\ IsSession(y) /\ y.phase = p /\ y.root = x.root /\ y.op = x.op
      /\ y.shared = x.shared /\ y.seen = x.seen /\ y.staged = x.staged
  BY <1>1, ChangesPhase
<1>3. Inside(x) /\ Inside(y) /\ (Follows(y) <=> Follows(x)) /\ x.phase # "idle"
  BY <1>2 DEF Inside, Follows, Reading
<1>4. Sound(s, y)
  BY <1>1, <1>2, <1>3 DEF Sound
<1> QED
  BY <1>1, <1>2, <1>4, QuietStep

\* A caller names a root and an operation.
LEMMA CallStep ==
    ASSUME IInv, NEW s \in Sessions, NEW root \in Roots, NEW op \in Operations,
           NEW shared \in BOOLEAN, Call(s, root, op, shared)
    PROVE  IInv'
<1>1. PICK y : y = [phase |-> "called", root |-> root, op |-> op, shared |-> shared,
                    expected |-> visible[root]]
  OBVIOUS
<1>2. y.phase = "called" /\ y.root = root /\ y.op = op /\ y.shared = shared /\ y.expected = visible[root]
  BY <1>1
<1>3. Go(s, y) /\ visible' = visible /\ (shared => adapter = "postgresql")
  BY <1>1 DEF Call
<1>4. IsSession(y)
  BY <1>1, <1>2 DEF IsSession
<1>5. Sound(s, y) /\ ~Guards(y)
  BY <1>2, <1>3 DEF Sound, Guards, Inside, Reading, Staging
<1> QED
  BY <1>3, <1>4, <1>5, QuietStep

\* Opening takes the lock of the store or of the root, where there is one.
LEMMA OpenStep ==
    ASSUME IInv, NEW s \in Sessions, Open(s)
    PROVE  IInv'
<1>1. PICK x, y : x = session[s] /\ y = [x EXCEPT !.phase = "open"]
  OBVIOUS
<1>2. /\ x.phase = "called" /\ Go(s, y) /\ visible' = visible /\ SchemaValid(s) /\ MayOpen(s)
  BY <1>1 DEF Open
<1>3. IsSession(x) /\ Sound(s, x)
  BY <1>1 DEF IInv, TypeOK, SessionsSound
<1>4. x = [phase |-> x.phase, root |-> x.root, op |-> x.op, shared |-> x.shared,
           expected |-> x.expected]
  BY <1>2, <1>3 DEF IsSession, Idle, Reading
<1>5. y = [phase |-> "open", root |-> x.root, op |-> x.op, shared |-> x.shared,
           expected |-> x.expected]
  BY <1>1, <1>4
<1>6. /\ y.phase = "open" /\ y.root = x.root /\ y.op = x.op /\ y.shared = x.shared
      /\ y.expected = x.expected
  BY <1>5
<1>7. IsSession(y)
  BY <1>2, <1>3, <1>5, <1>6, Caller DEF IsSession
<1>8. Sound(s, y)
  BY <1>2, <1>3, <1>6 DEF Sound, SchemaValid, Reading, Staging
<1>9. ASSUME Guards(y), NEW t \in Sessions \ {s}, Guards(session[t])
      PROVE  session[t].root # y.root
  <2>1. adapter \in {"memory", "sqlite", "file"}
    BY <1>6, <1>9, Configured DEF IInv, Guards, Adapters, Databases
  <2>2. InTransaction(t)
    BY <1>9 DEF Guards, Inside, InTransaction
  <2>3. ~HoldsStore(t) /\ ~HoldsFile(t, x.root)
    BY <1>1, <1>2 DEF MayOpen
  <2> QED
    BY <2>1, <2>2, <2>3, <1>6 DEF HoldsStore, HoldsFile
<1> QED
  BY <1>2, <1>7, <1>8, <1>9, QuietStep

\* With PostgreSQL a session that waited for no row lock guards the root.
LEMMA NoRival ==
    ASSUME adapter = "postgresql", NEW s \in Sessions, ~RowLocked(s),
           NEW t \in Sessions \ {s}, Guards(session[t])
    PROVE  session[t].root # session[s].root
  BY DEF Guards, Inside, RowLocked, HoldsRow, InTransaction

\* Loading reads what the root holds, and locks it.
LEMMA LoadStep ==
    ASSUME IInv, NEW s \in Sessions, Load(s)
    PROVE  IInv'
<1>1. PICK x, y : /\ x = session[s]
                  /\ y = [phase |-> "loaded", root |-> x.root, op |-> x.op, shared |-> x.shared,
                          expected |-> x.expected, seen |-> visible[x.root], staged |-> None]
  OBVIOUS
<1>2. /\ x.phase = "open" /\ Go(s, y) /\ visible' = visible
      /\ visible[x.root] # None => ~RowLocked(s)
  BY <1>1 DEF Load
<1>3. IsSession(x) /\ Sound(s, x)
  BY <1>1 DEF IInv, TypeOK, SessionsSound
<1>4. /\ y.phase = "loaded" /\ y.root = x.root /\ y.op = x.op /\ y.shared = x.shared
      /\ y.seen = visible[x.root] /\ y.staged = None /\ y.expected = x.expected
  BY <1>1
<1>5. IsSession(y)
  BY <1>1, <1>2, <1>3, <1>4, Caller DEF IsSession, Reading
<1>6. Sound(s, y)
  BY <1>2, <1>3, <1>4 DEF Sound, Inside, Reading, Staging
<1>7. CASE adapter = "postgresql"
  <2>1. Guards(y) => ~RowLocked(s)
    BY <1>2, <1>4, <1>7 DEF Guards
  <2> QED
    BY <2>1, <1>1, <1>2, <1>4, <1>5, <1>6, <1>7, NoRival, QuietStep
<1>8. CASE adapter # "postgresql"
  <2>1. Guards(x)
    BY <1>2, <1>8 DEF Guards, Inside
  <2> QED
    BY <2>1, <1>1, <1>2, <1>4, <1>5, <1>6, QuietStep
<1> QED
  BY <1>7, <1>8

\* What an operation makes of the checkpoint it loaded follows it.
LEMMA CandidateFollows ==
    ASSUME IInv, NEW s \in Sessions, NEW x, x = session[s], x.phase = "loaded",
           ~Replays(s), Expected(s), NEW c \in Candidates(s),
           NEW y, y.op = x.op, y.seen = x.seen, y.staged = c
    PROVE  Follows(y) /\ c # None /\ (x.seen = None => x.op \in Creations)
<1>1. IsSession(x) /\ Sound(s, x) /\ x.op \in Operations
  BY Caller DEF IInv, TypeOK, SessionsSound
<1>2. x.seen = None \/ IsCheckpoint(x.seen)
  <2>1. x.seen # None => Guards(x)
    BY DEF Guards, Inside
  <2>2. x.root \in Roots
    BY <1>1, Caller
  <2> QED
    BY <1>1, <2>1, <2>2 DEF Sound, Reading, IInv, TypeOK
<1>3. ASSUME NEW n \in Nat, NEW done \in SUBSET Kept, c = [revision |-> n, done |-> done]
      PROVE  c # None /\ c.done = done
  <2>1. c.revision = n /\ c.done = done
    BY <1>3
  <2>2. IsCheckpoint(c)
    BY <1>3, <2>1 DEF IsCheckpoint
  <2> QED
    BY <2>1, <2>2, NotNone
<1>4. CASE x.op \in Creations
  <2>1. x.seen = None /\ x.op \in Kept /\ c = [revision |-> 0, done |-> {x.op}]
    BY <1>4 DEF Expected, Candidates, Kept
  <2>2. c # None
    BY <1>3, <2>1
  <2> QED
    BY <1>4, <2>1, <2>2 DEF Follows
<1>5. CASE x.op \notin Creations
  <2>1. x.seen # None /\ IsCheckpoint(x.seen) /\ x.op \notin x.seen.done
    BY <1>2, <1>5 DEF Expected, Replays
  <2>2. x.seen.revision + 1 \in Nat /\ x.seen.done \subseteq Kept
    BY <2>1 DEF IsCheckpoint
  <2>3. CASE x.op = Prune
    <3>1. PICK kept \in SUBSET x.seen.done : c = [revision |-> x.seen.revision + 1, done |-> kept]
      BY <1>5, <2>3 DEF Candidates
    <3>2. c # None /\ c.done = kept
      BY <1>3, <2>2, <3>1
    <3> QED
      BY <1>5, <2>1, <2>3, <3>1, <3>2 DEF Follows
  <2>4. CASE x.op # Prune
    <3>1. x.op \in Kept
      BY <1>1, <2>4 DEF Operations
    <3>2. c = [revision |-> x.seen.revision + 1, done |-> x.seen.done \cup {x.op}]
      BY <1>5, <2>4 DEF Candidates
    <3>3. c # None
      BY <1>3, <2>2, <3>1, <3>2
    <3> QED
      BY <1>5, <2>1, <3>1, <3>2, <3>3 DEF Follows
  <2> QED
    BY <2>3, <2>4
<1> QED
  BY <1>4, <1>5

\* Staging writes a row with a database, and so locks it.
LEMMA StageStep ==
    ASSUME IInv, NEW s \in Sessions, Stage(s)
    PROVE  IInv'
<1>1. PICK x : x = session[s]
  OBVIOUS
<1>2. PICK c \in Candidates(s) : Go(s, [x EXCEPT !.phase = "staged", !.staged = c])
  BY <1>1 DEF Stage
<1>3. PICK y : y = [x EXCEPT !.phase = "staged", !.staged = c]
  OBVIOUS
<1>4. /\ x.phase = "loaded" /\ ~Replays(s) /\ Expected(s) /\ Go(s, y) /\ visible' = visible
      /\ x.op = Prune => MayForget(s)
      /\ ~RowLocked(s) /\ SwapSucceeds(s)
  BY <1>1, <1>2, <1>3 DEF Stage
<1>5. IsSession(x) /\ Sound(s, x)
  BY <1>1 DEF IInv, TypeOK, SessionsSound
<1>6. /\ IsSession(y) /\ y.phase = "staged" /\ y.root = x.root /\ y.op = x.op
      /\ y.shared = x.shared /\ y.seen = x.seen /\ y.staged = c
  <2>1. x = [phase |-> x.phase, root |-> x.root, op |-> x.op, shared |-> x.shared,
             expected |-> x.expected, seen |-> x.seen, staged |-> x.staged]
    BY <1>4, <1>5, Reader DEF Reading
  <2>2. y = [phase |-> "staged", root |-> x.root, op |-> x.op, shared |-> x.shared,
             expected |-> x.expected, seen |-> x.seen, staged |-> c]
    BY <1>3, <2>1
  <2> QED
    BY <1>4, <1>5, <2>2, Proceeds DEF Reading
<1>7. Follows(y) /\ c # None /\ (x.seen = None => x.op \in Creations)
  BY <1>1, <1>4, <1>6, CandidateFollows
<1>8. visible[x.root] = x.seen
  <2>1. CASE Guards(x)
    BY <2>1, <1>4, <1>5 DEF Sound, Reading
  <2>2. CASE ~Guards(x)
    <3>1. adapter = "postgresql" /\ x.seen = None /\ x.op \in Creations
      BY <1>4, <1>7, <2>2 DEF Guards, Inside
    <3> QED
      BY <3>1, <1>1, <1>4 DEF SwapSucceeds, Inserts, Databases
  <2> QED
    BY <2>1, <2>2
<1>9. Sound(s, y)
  BY <1>4, <1>5, <1>6, <1>7, <1>8 DEF Sound, Inside, Reading, Staging
<1>10. CASE adapter = "postgresql"
  BY <1>1, <1>4, <1>6, <1>9, <1>10, NoRival, QuietStep
<1>11. CASE adapter # "postgresql"
  <2>1. Guards(x)
    BY <1>4, <1>11 DEF Guards, Inside
  <2> QED
    BY <2>1, <1>1, <1>4, <1>6, <1>9, QuietStep
<1> QED
  BY <1>10, <1>11

\* A receipt that is found is that of the row the session guards.
LEMMA FindReceiptStep ==
    ASSUME IInv, NEW s \in Sessions, FindReceipt(s)
    PROVE  IInv'
<1>1. PICK x, y : x = session[s] /\ y = [x EXCEPT !.phase = "staged"]
  OBVIOUS
<1>2. /\ x.phase = "loaded" /\ x.seen # None /\ x.op \in x.seen.done
      /\ Go(s, y) /\ visible' = visible
  BY <1>1 DEF FindReceipt, Replays
<1>3. Sound(s, x)
  BY <1>1 DEF IInv, SessionsSound
<1>4. x.staged = None /\ Guards(x) /\ Follows(x)
  BY <1>2, <1>3 DEF Sound, Guards, Inside, Follows
<1> QED
  BY <1>1, <1>2, <1>4, GoesOn DEF Reading, Staging

\* The callback returns; nothing is committed by that.
LEMMA ReturnStep ==
    ASSUME IInv, NEW s \in Sessions, Return(s)
    PROVE  IInv'
<1>1. PICK x, y : x = session[s] /\ y = [x EXCEPT !.phase = "returned"]
  OBVIOUS
<1>2. x.phase = "staged" /\ x.shared /\ Go(s, y) /\ visible' = visible
  BY <1>1 DEF Return
<1>3. Sound(s, x) /\ Guards(x) /\ Follows(x)
  BY <1>1, <1>2, StagedFollows DEF IInv, SessionsSound
<1>4. x.op = Prune /\ x.staged # None => MayForget(s)
  BY <1>2, <1>3 DEF Sound, Staging
<1> QED
  BY <1>1, <1>2, <1>3, <1>4, GoesOn DEF Reading, Staging

\* A commit writes what is staged, or ends the transaction with nothing written.
LEMMA CommitStep ==
    ASSUME IInv, NEW s \in Sessions, Commit(s)
    PROVE  IInv'
<1>1. PICK x : x = session[s]
  OBVIOUS
<1>2. /\ x.phase \in {"staged", "returned"} /\ Go(s, Idle)
      /\ visible' = IF x.staged = None THEN visible ELSE [visible EXCEPT ![x.root] = x.staged]
  BY <1>1 DEF Commit, Written
<1>3. CASE x.staged = None
  BY <1>2, <1>3, EndsQuietly
<1>4. CASE x.staged # None
  <2>1. IsSession(Idle)
    BY DEF IsSession
  <2>2. Sound(s, Idle)' /\ ~Guards(Idle)
    BY DEF Sound, Guards, Inside, Idle, Reading, Staging
  <2> QED
    BY <1>1, <1>2, <1>4, <2>1, <2>2, WriteStep
<1> QED
  BY <1>3, <1>4

\* The root's file is as it was while the temporary one is written.
LEMMA WriteTemporaryStep ==
    ASSUME IInv, NEW s \in Sessions, WriteTemporary(s)
    PROVE  IInv'
<1>1. PICK x, y : x = session[s] /\ y = [x EXCEPT !.phase = "temporary"]
  OBVIOUS
<1>2. /\ x.phase = "staged" /\ adapter = "file" /\ x.staged # None /\ Go(s, y)
      /\ visible' = [visible EXCEPT ![x.root] = visible[x.root]]
  BY <1>1 DEF WriteTemporary, WhileWriting
<1>3. Sound(s, x) /\ Guards(x) /\ Follows(x)
  BY <1>1, <1>2, StagedFollows DEF IInv, SessionsSound
<1>4. visible' = visible
  BY <1>2 DEF IInv, TypeOK
<1>5. x.op = Prune /\ x.staged # None => MayForget(s)
  BY <1>2, <1>3 DEF Sound, Staging
<1> QED
  BY <1>1, <1>2, <1>3, <1>4, <1>5, GoesOn DEF Reading, Staging

\* Renaming writes the file of the root in one step; its lock is still held.
LEMMA RenameStep ==
    ASSUME IInv, NEW s \in Sessions, Rename(s)
    PROVE  IInv'
<1>1. PICK x, y : x = session[s] /\ y = [x EXCEPT !.phase = "renamed"]
  OBVIOUS
<1>2. /\ x.phase = "temporary" /\ Go(s, y)
      /\ visible' = IF x.staged = None THEN visible ELSE [visible EXCEPT ![x.root] = x.staged]
  BY <1>1 DEF Rename, Written
<1>3. /\ Sound(s, x) /\ Guards(x) /\ Follows(x) /\ IsSession(x) /\ x.root \in Roots
  BY <1>1, <1>2, StagedFollows DEF IInv, SessionsSound
<1>4. adapter = "file" /\ x.staged # None
  BY <1>2, <1>3 DEF Sound
<1>5. /\ IsSession(y) /\ y.phase = "renamed" /\ y.root = x.root /\ y.op = x.op
      /\ y.shared = x.shared /\ y.seen = x.seen /\ y.staged = x.staged
  BY <1>1, <1>2, <1>3, ChangesPhase DEF Reading
<1>6. visible'[x.root] = x.staged
  BY <1>2, <1>3, <1>4 DEF IInv, TypeOK
<1>7. Follows(y) /\ (x.op = Prune => MayForget(s)) /\ (x.shared => adapter = "postgresql")
  BY <1>2, <1>3, <1>4, <1>5 DEF Follows, Sound, Staging
<1>8. adapter' = adapter /\ config' = config /\ (Follows(y)' <=> Follows(y)) /\ (MayForget(s)' <=> MayForget(s))
  BY <1>2 DEF Go, adapter, Follows, MayForget
<1>9. Sound(s, y)'
  BY <1>4, <1>5, <1>6, <1>7, <1>8 DEF Sound, Inside, Databases, Reading, Staging
<1>10. visible' = [visible EXCEPT ![x.root] = x.staged]
  BY <1>2, <1>4
<1>11. x = session[s]
  BY <1>1
<1> QED
  BY <1>2, <1>4, <1>5, <1>9, <1>10, <1>11, WriteStep

-----------------------------------------------------------------------------
(* Setting up, crashes, and backups.                                       *)

\* Nobody is inside before the schema is there.
LEMMA SetupStep ==
    ASSUME IInv, NEW s \in Sessions, SetupSchema(s)
    PROVE  IInv'
<1>1. /\ schema = "none" /\ schema' = config.policyOf[s] /\ schema' \in Policies
      /\ UNCHANGED <<config, visible, session, backup>>
  BY Configured DEF IInv, SetupSchema
<1>2. Sessions' = Sessions /\ adapter' = adapter
  BY <1>1 DEF Sessions, adapter
<1>3. TypeOK'
  BY <1>1, <1>2 DEF IInv, TypeOK
<1>4. SessionsSound'
  <2>1. ASSUME NEW t \in Sessions
        PROVE  Sound(t, session[t])'
    <3>1. PICK x : x = session[t]
      OBVIOUS
    <3>2. Sound(t, x)
      BY <3>1 DEF IInv, SessionsSound
    <3>3. ~(Inside(x) /\ adapter \in Databases)
      BY <1>1, <3>2, Configured DEF IInv, Sound, PolicyRecorded, Policies
    <3>4. Sound(t, x)'
      BY <1>1, <3>2, <3>3, SoundKept
    <3> QED
      BY <1>1, <3>1, <3>4
  <2> QED
    BY <1>2, <2>1 DEF SessionsSound
<1>5. Exclusive'
  BY <1>1, <1>2 DEF IInv, Exclusive, Guards, Inside
<1>6. SchemaFirst' /\ BackupSound'
  BY <1>1, <1>2 DEF IInv, SchemaFirst, BackupSound, Policies
<1> QED
  BY <1>3, <1>4, <1>5, <1>6 DEF IInv

\* After a crash nobody is inside, and a store in memory is empty.
LEMMA CrashStep ==
    ASSUME IInv, Crash
    PROVE  IInv'
<1>1. /\ session' = [s \in Sessions |-> Idle] /\ backup' = NoBackup /\ config' = config
      /\ \/ visible' = [r \in Roots |-> None] /\ schema' = "none"
         \/ UNCHANGED <<visible, schema>>
  BY DEF Crash
<1>2. Sessions' = Sessions /\ adapter' = adapter
  BY <1>1 DEF Sessions, adapter
<1>3. TypeOK'
  BY <1>1, <1>2 DEF IInv, TypeOK, IsSession
<1>4. \A s \in Sessions : session'[s] = Idle
  BY <1>1
<1>5. SessionsSound' /\ Exclusive'
  BY <1>2, <1>4 DEF SessionsSound, Exclusive, Sound, Guards, Inside, Idle, Reading, Staging
<1>6. SchemaFirst' /\ BackupSound'
  BY <1>1, <1>2 DEF IInv, SchemaFirst, BackupSound
<1> QED
  BY <1>3, <1>5, <1>6 DEF IInv

\* Reading changes nothing in the store.
LEMMA BackupStep ==
    ASSUME IInv, NEW new, Backup(new), BackupSound'
    PROVE  IInv'
<1>1. UNCHANGED <<config, schema, visible, session>>
  BY DEF Backup
<1>2. Sessions' = Sessions /\ adapter' = adapter
  BY <1>1 DEF Sessions, adapter
<1>3. TypeOK' /\ Exclusive' /\ SchemaFirst'
  BY <1>1, <1>2 DEF IInv, TypeOK, Exclusive, SchemaFirst, Guards, Inside
<1>4. SessionsSound'
  <2>1. \A t \in Sessions : \A x : Sound(t, x) => Sound(t, x)'
    BY <1>1, SoundKept
  <2> QED
    BY <1>1, <1>2, <2>1 DEF IInv, SessionsSound
<1> QED
  BY <1>3, <1>4 DEF IInv

\* The fields of a backup that is not over.
LEMMA Members ==
    ASSUME IInv, backup # NoBackup
    PROVE  \A r \in DOMAIN backup.members :
              r \in Roots /\ IsCheckpoint(backup.members[r]) /\ Precedes(backup.members[r], visible[r])
<1> SUFFICES ASSUME NEW r \in DOMAIN backup.members
             PROVE  r \in Roots /\ IsCheckpoint(backup.members[r]) /\ Precedes(backup.members[r], visible[r])
  OBVIOUS
<1>1. /\ r \in Roots /\ IsCheckpoint(backup.members[r])
      /\ \/ Precedes(backup.members[r], visible[r])
         \/ /\ IsCheckpoint(backup.called[r]) /\ Precedes(backup.members[r], backup.called[r])
            /\ Precedes(backup.called[r], visible[r])
  BY DEF IInv, BackupSound
<1>2. visible[r] # None => IsCheckpoint(visible[r])
  BY <1>1 DEF IInv, TypeOK
<1> QED
  BY <1>1, <1>2, PrecedesTransitive DEF Precedes

\* A member that is collected is what is stored.
LEMMA CollectStep ==
    ASSUME IInv, NEW root \in Roots, Collect(root)
    PROVE  IInv'
<1>1. PICK members : members = IF backup = NoBackup THEN [x \in {} |-> None] ELSE backup.members
  OBVIOUS
<1>2. PICK more : more = [x \in DOMAIN members \cup {root} |->
                            IF x = root THEN visible[root] ELSE members[x]]
  OBVIOUS
<1>3. PICK new : new = [phase |-> "collecting", members |-> more]
  OBVIOUS
<1>4. visible[root] # None /\ Backup(new)
  BY <1>1, <1>2, <1>3 DEF Collect
<1>5. backup' = new /\ visible' = visible
  BY <1>4 DEF Backup
<1>6. \A r \in DOMAIN members :
         r \in Roots /\ IsCheckpoint(members[r]) /\ Precedes(members[r], visible[r])
  BY <1>1, Members
<1>7. IsCheckpoint(visible[root]) /\ Precedes(visible[root], visible[root])
  BY <1>4, PrecedesItself DEF IInv, TypeOK
<1>8. \A r \in DOMAIN more :
         r \in Roots /\ IsCheckpoint(more[r]) /\ Precedes(more[r], visible[r])
  BY <1>2, <1>6, <1>7
<1>9. new.members = more /\ new = [phase |-> "collecting", members |-> new.members]
  BY <1>3
<1>10. BackupSound'
  BY <1>5, <1>8, <1>9 DEF BackupSound
<1> QED
  BY <1>4, <1>10, BackupStep

\* What is stored at the time of the call is what the members precede.
LEMMA CallBackupStep ==
    ASSUME IInv, CallBackup
    PROVE  IInv'
<1>1. PICK members : members = backup.members
  OBVIOUS
<1>2. PICK new : new = [phase |-> "checking", members |-> members, checked |-> {},
                        called |-> visible]
  OBVIOUS
<1>3. backup.phase = "collecting" /\ Backup(new)
  BY <1>1, <1>2 DEF CallBackup
<1>4. backup # NoBackup
  BY <1>3 DEF NoBackup
<1>5. \A r \in DOMAIN members :
         r \in Roots /\ IsCheckpoint(members[r]) /\ Precedes(members[r], visible[r])
  BY <1>1, <1>4, Members
<1>6. \A r \in DOMAIN members : IsCheckpoint(visible[r]) /\ Precedes(visible[r], visible[r])
  BY <1>5, PrecedesItself DEF IInv, TypeOK, Precedes
<1>7. /\ new.members = members /\ new.checked = {} /\ new.called = visible
      /\ new = [phase |-> "checking", members |-> new.members, checked |-> new.checked,
                called |-> new.called]
  BY <1>2
<1>8. backup' = new /\ visible' = visible
  BY <1>3 DEF Backup
<1>9. BackupSound'
  BY <1>5, <1>6, <1>7, <1>8 DEF BackupSound
<1> QED
  BY <1>3, <1>9, BackupStep

\* A member that is still stored was stored at the time of the call.
LEMMA CheckMemberStep ==
    ASSUME IInv, NEW root, CheckMember(root)
    PROVE  IInv'
<1>1. PICK b : b = backup
  OBVIOUS
<1>2. PICK new : new = [b EXCEPT !.checked = b.checked \cup {root}]
  OBVIOUS
<1>3. /\ b.phase = "checking" /\ root \in DOMAIN b.members /\ visible[root] = b.members[root]
      /\ Backup(new)
  BY <1>1, <1>2 DEF CheckMember, Unchanged
<1>4. b # NoBackup /\ b.phase # "collecting"
  BY <1>3 DEF NoBackup
<1>5. /\ b = [phase |-> "checking", members |-> b.members, checked |-> b.checked,
              called |-> b.called]
      /\ \A r \in DOMAIN b.members :
             /\ r \in Roots /\ IsCheckpoint(b.members[r]) /\ IsCheckpoint(b.called[r])
             /\ Precedes(b.members[r], b.called[r])
             /\ Precedes(b.called[r], visible[r])
             /\ r \in b.checked => b.called[r] = b.members[r]
  BY <1>1, <1>4 DEF IInv, BackupSound
<1>6. b.called[root] = b.members[root]
  <2>1. PICK c, d : c = b.members[root] /\ d = b.called[root]
    OBVIOUS
  <2>2. IsCheckpoint(c) /\ IsCheckpoint(d) /\ Precedes(c, d) /\ Precedes(d, c)
    BY <1>3, <1>5, <2>1
  <2> QED
    BY <2>1, <2>2 DEF Precedes, IsCheckpoint
<1>7. new = [phase |-> "checking", members |-> b.members, checked |-> b.checked \cup {root},
             called |-> b.called]
  BY <1>2, <1>5
<1>8. /\ new.members = b.members /\ new.checked = b.checked \cup {root} /\ new.called = b.called
      /\ new = [phase |-> "checking", members |-> new.members, checked |-> new.checked,
                called |-> new.called]
  BY <1>7
<1>9. backup' = new /\ visible' = visible
  BY <1>3 DEF Backup
<1>10. BackupSound'
  BY <1>5, <1>6, <1>8, <1>9 DEF BackupSound
<1>11. Backup(new)
  BY <1>3
<1> QED
  BY <1>10, <1>11, BackupStep

-----------------------------------------------------------------------------
(* The invariant and what follows from it.                                 *)

\* Empty stores, idle sessions and no backup satisfy the invariant.
LEMMA InitIInv == Init => IInv
<1> SUFFICES ASSUME Init
             PROVE  IInv
  OBVIOUS
<1>1. /\ config \in Configs /\ schema = "none" /\ backup = NoBackup
      /\ visible = [r \in Roots |-> None] /\ session = [s \in Sessions |-> Idle]
  BY DEF Init
<1>2. \A s \in Sessions : session[s] = Idle
  BY <1>1
<1>3. SessionsSound /\ Exclusive
  BY <1>2 DEF SessionsSound, Exclusive, Sound, Guards, Inside, Idle, Reading, Staging
<1> QED
  BY <1>1, <1>2, <1>3 DEF IInv, TypeOK, IsSession, SchemaFirst, BackupSound

\* Every step of a store and its sessions keeps the invariant.
LEMMA NextIInv == IInv /\ [Next]_vars => IInv'
<1> SUFFICES ASSUME IInv, [Next]_vars
             PROVE  IInv'
  OBVIOUS
<1>1. CASE UNCHANGED vars
  <2>1. UNCHANGED <<config, schema, visible, session, backup>> /\ Sessions' = Sessions /\ adapter' = adapter
    BY <1>1 DEF vars, Sessions, adapter
  <2>2. SessionsSound'
    <3>1. \A t \in Sessions : \A x : Sound(t, x) => Sound(t, x)'
      BY <2>1, SoundKept
    <3> QED
      BY <2>1, <3>1 DEF IInv, SessionsSound
  <2> QED
    BY <2>1, <2>2 DEF IInv, TypeOK, Exclusive, SchemaFirst, BackupSound, Guards, Inside
<1>2. CASE Next
  <2>1. ASSUME NEW s \in Sessions, SetupSchema(s)
        PROVE  IInv'
    BY <2>1, SetupStep
  <2>2. ASSUME NEW s \in Sessions, NEW r \in config.roots, NEW op \in config.operations,
               NEW shared \in BOOLEAN, Call(s, r, op, shared)
        PROVE  IInv'
    BY <2>2, CallStep, Configured DEF IInv
  <2>3. ASSUME NEW s \in Sessions, Proceed(s)
        PROVE  IInv'
    <3>1. CASE Open(s) \/ Load(s) \/ Stage(s) \/ FindReceipt(s) \/ Return(s)
      BY <3>1, OpenStep, LoadStep, StageStep, FindReceiptStep, ReturnStep
    <3>2. CASE Commit(s) \/ WriteTemporary(s) \/ Rename(s)
      BY <3>2, CommitStep, WriteTemporaryStep, RenameStep
    <3>3. CASE SyncDirectory(s) \/ RaiseAtFinish(s) \/ Refuse(s)
      BY <3>3, EndsQuietly DEF SyncDirectory, RaiseAtFinish, Refuse
    <3> QED
      BY <2>3, <3>1, <3>2, <3>3 DEF Proceed
  <2>4. ASSUME NEW s \in Sessions, Fail(s)
        PROVE  IInv'
    BY <2>4, EndsQuietly DEF Fail
  <2>5. ASSUME NEW r \in config.backups, Collect(r) \/ CheckMember(r)
        PROVE  IInv'
    BY <2>5, CollectStep, CheckMemberStep, Configured DEF IInv
  <2>6. ASSUME EndBackup
        PROVE  IInv'
    <3>1. Backup(NoBackup)
      BY <2>6 DEF EndBackup
    <3>2. BackupSound'
      BY <3>1 DEF Backup, BackupSound
    <3> QED
      BY <3>1, <3>2, BackupStep
  <2> QED
    BY <1>2, <2>1, <2>2, <2>3, <2>4, <2>5, <2>6, CrashStep, CallBackupStep DEF Next
<1> QED
  BY <1>1, <1>2

\* The inductive invariant of the stores holds in every state.
THEOREM Invariant == Spec => []IInv
  BY InitIInv, NextIInv, PTL DEF Spec

\* The members of a validated backup were stored together (validate_backup_restore_v1).
THEOREM BackupAlwaysSnapshot == Spec => []BackupIsSnapshot
<1>1. IInv => BackupIsSnapshot
  <2> SUFFICES ASSUME IInv, backup.phase = "checking", backup.checked = DOMAIN backup.members,
                      NEW r \in DOMAIN backup.members
               PROVE  backup.called[r] = backup.members[r]
    BY DEF BackupIsSnapshot, Validated
  <2>1. backup # NoBackup /\ backup # [phase |-> "collecting", members |-> backup.members]
    BY DEF NoBackup
  <2> QED
    BY <2>1 DEF IInv, BackupSound
<1> QED
  BY <1>1, Invariant, PTL

-----------------------------------------------------------------------------
(* Rows of the application.                                                *)

\* A transaction that ends as committed leaves its operation in its root, and the
\* other roots as they were.
LEMMA Committed ==
    ASSUME IInv, NEW s \in Sessions, NEW x, x = session[s],
           x.phase \in {"staged", "returned", "temporary"}, Written(s)
    PROVE  /\ visible'[x.root] # None
           /\ x.op \in Kept => x.op \in visible'[x.root].done
           /\ \A r \in Roots : r # x.root => visible'[r] = visible[r]
<1>1. /\ Follows(x) /\ x.root \in Roots /\ visible[x.root] = x.seen
      /\ x.staged # None => IsCheckpoint(x.staged)
  BY StagedFollows
<1>2. CASE x.staged = None
  <2>1. visible' = visible
    BY <1>2 DEF Written
  <2> QED
    BY <2>1, <1>1, <1>2 DEF Follows
<1>3. CASE x.staged # None
  <2>1. visible'[x.root] = x.staged /\ \A r \in Roots : r # x.root => visible'[r] = visible[r]
    BY <1>1, <1>3 DEF Written, IInv, TypeOK
  <2>2. x.op \in Kept => x.op \in x.staged.done
    <3>1. CASE x.seen = None
      BY <3>1, <1>1, <1>3 DEF Follows
    <3>2. CASE x.seen # None /\ x.op \in Kept
      <4>1. x.staged = [revision |-> x.seen.revision + 1, done |-> x.seen.done \cup {x.op}]
        BY <3>2, <1>1, <1>3, StoresAssumption DEF Follows
      <4> QED
        BY <4>1
    <3> QED
      BY <3>1, <3>2
  <2> QED
    BY <2>1, <2>2, <1>3
<1> QED
  BY <1>2, <1>3

\* What RowsWithTheirCheckpoint says of a step.
RowsCommitted ==
    /\ \A p \in rows' \ rows :
          p[2] \in Kept => visible'[p[1]] # None /\ p[2] \in visible'[p[1]].done
    /\ \A s \in Sessions :
          session[s].phase = "returned" /\ visible'[session[s].root] # visible[session[s].root]
          => <<session[s].root, session[s].op>> \in rows'

\* A callback has returned only with PostgreSQL, and its session guards its root.
LEMMA Returned ==
    ASSUME IInv, NEW s \in Sessions, session[s].phase = "returned"
    PROVE  /\ adapter = "postgresql" /\ Guards(session[s]) /\ session[s].root \in Roots
           /\ session[s].shared
<1>1. PICK x : x = session[s]
  OBVIOUS
<1>2. x.phase = "returned"
  BY <1>1
<1>3. Guards(x) /\ x.root \in Roots
  BY <1>1, <1>2, StagedFollows
<1>4. Sound(s, x)
  BY <1>1 DEF IInv, SessionsSound
<1> QED
  BY <1>1, <1>2, <1>3, <1>4 DEF Sound

\* A commit writes rows with the checkpoint, and no other session's root.
LEMMA CommitRows ==
    ASSUME IInv, NEW s \in Sessions, Commit(s)
    PROVE  RowsCommitted
<1>1. PICK x : x = session[s]
  OBVIOUS
<1>2. /\ x.phase \in {"staged", "returned"} /\ Written(s)
      /\ rows' = IF x.shared THEN rows \cup {<<x.root, x.op>>} ELSE rows
  BY <1>1 DEF Commit, AppRows
<1>3. /\ visible'[x.root] # None /\ (x.op \in Kept => x.op \in visible'[x.root].done)
      /\ \A r \in Roots : r # x.root => visible'[r] = visible[r]
  BY <1>1, <1>2, Committed
<1>4. Guards(x)
  BY <1>1, <1>2, StagedFollows
<1>5. ASSUME NEW p \in rows' \ rows, p[2] \in Kept
      PROVE  visible'[p[1]] # None /\ p[2] \in visible'[p[1]].done
  <2>1. p = <<x.root, x.op>>
    BY <1>2, <1>5
  <2> QED
    BY <2>1, <1>3, <1>5
<1>6. ASSUME NEW t \in Sessions, session[t].phase = "returned",
             visible'[session[t].root] # visible[session[t].root]
      PROVE  <<session[t].root, session[t].op>> \in rows'
  <2>1. Guards(session[t]) /\ session[t].root \in Roots /\ session[t].shared
    BY <1>6, Returned
  <2>2. session[t].root = x.root
    BY <2>1, <1>3, <1>6
  <2>3. t = s
    BY <2>1, <2>2, <1>1, <1>4 DEF IInv, Exclusive
  <2> QED
    BY <2>1, <2>3, <1>1, <1>2
<1> QED
  BY <1>5, <1>6 DEF RowsCommitted

\* Steps that change neither rows nor, where a callback has returned, a root.
LEMMA OtherRows ==
    ASSUME IInv, rows' = rows, visible' = visible \/ adapter # "postgresql"
    PROVE  RowsCommitted
  BY Returned DEF RowsCommitted

\* Application rows are committed with the checkpoint that has the receipt of their
\* operation, and with every change of its root (run_shared_transaction).
THEOREM RowsAlwaysCommitted == Spec => RowsWithTheirCheckpoint
<1>1. IInv /\ [Next]_vars => [RowsCommitted]_vars
  <2> SUFFICES ASSUME IInv, Next
               PROVE  RowsCommitted
    OBVIOUS
  <2>1. ASSUME NEW s \in Sessions, Proceed(s) \/ Fail(s) \/ SetupSchema(s)
        PROVE  RowsCommitted
    <3>1. CASE Commit(s)
      BY <3>1, CommitRows
    <3>2. CASE WriteTemporary(s)
      BY <3>2, OtherRows DEF WriteTemporary
    <3>3. CASE Rename(s)
      <4>1. adapter # "postgresql" /\ rows' = rows
        BY <3>3 DEF Rename, IInv, SessionsSound, Sound
      <4> QED
        BY <4>1, OtherRows
    <3>4. CASE ~(Commit(s) \/ WriteTemporary(s) \/ Rename(s))
      <4>1. UNCHANGED <<rows, visible>>
        BY <2>1, <3>4 DEF Proceed, Open, Load, Stage, FindReceipt, Return, SyncDirectory,
                          RaiseAtFinish, Refuse, Fail, SetupSchema
      <4> QED
        BY <4>1, OtherRows
    <3> QED
      BY <3>1, <3>2, <3>3, <3>4
  <2>2. ASSUME NEW s \in Sessions, NEW r, NEW op, NEW shared, Call(s, r, op, shared)
        PROVE  RowsCommitted
    BY <2>2, OtherRows DEF Call
  <2>3. ASSUME Crash
        PROVE  RowsCommitted
    <3>1. rows' = rows /\ (visible' = visible \/ adapter # "postgresql")
      BY <2>3 DEF Crash
    <3> QED
      BY <3>1, OtherRows
  <2>4. ASSUME NEW new, Backup(new)
        PROVE  RowsCommitted
    BY <2>4, OtherRows DEF Backup
  <2>5. ASSUME NEW r, Collect(r) \/ CheckMember(r) \/ CallBackup \/ EndBackup
        PROVE  RowsCommitted
    <3>1. \E new : Backup(new)
      BY <2>5, Zenon DEF Collect, CheckMember, CallBackup, EndBackup
    <3> QED
      BY <3>1, <2>4
  <2> QED
    BY <2>1, <2>2, <2>3, <2>5 DEF Next
<1> QED
  BY <1>1, Invariant, PTL DEF Spec, RowsWithTheirCheckpoint, RowsCommitted

-----------------------------------------------------------------------------
(* The stores implement the register.                                      *)

Registers == <<visible, told, adapter = "memory", ClaimsReceipts>>

\* A transaction that wrote something is a write of the register, whether its
\* answer arrives with it, later or never.
LEMMA Writes ==
    ASSUME IInv, NEW s \in Sessions, NEW x, x = session[s],
           x.phase \in {"staged", "returned", "temporary"}, x.staged # None, Written(s),
           Answer(s) \/ UNCHANGED told
    PROVE  Register!Write
<1>1. /\ Follows(x) /\ x.root \in Roots /\ visible[x.root] = x.seen /\ Guards(x)
  BY StagedFollows
<1>2. visible' = [visible EXCEPT ![x.root] = x.staged] /\ visible'[x.root] = x.staged
  BY <1>1 DEF Written, IInv, TypeOK
<1>3. visible' = [visible EXCEPT ![x.root] = visible'[x.root]]
  BY <1>2
<1>4. (x.op \in Kept /\ told' = told \cup {<<x.root, x.op>>}) \/ told' = told
  BY DEF Answer
<1>5. CASE x.op \in Kept
  <2>1. x.op # Prune
    BY <1>5, StoresAssumption
  <2>2. x.staged \in Register!After(x.seen, x.op)
    <3>1. CASE x.seen = None
      BY <3>1, <1>1, <2>1 DEF Follows, Register!After
    <3>2. CASE x.seen # None
      <4>1. x.op \notin x.seen.done
        BY <3>2, <1>1, <2>1 DEF Follows
      <4>2. x.staged = [revision |-> x.seen.revision + 1, done |-> x.seen.done \cup {x.op}]
        BY <3>2, <1>1, <2>1 DEF Follows
      <4> QED
        BY <3>2, <4>1, <4>2 DEF Register!After
    <3> QED
      BY <3>1, <3>2
  <2>3. visible'[x.root] \in Register!After(visible[x.root], x.op)
    BY <2>2, <1>1, <1>2
  <2>4. told' \in {told, told \cup {<<x.root, x.op>>}}
    BY <1>4
  <2> QED
    BY <1>1, <1>3, <1>5, <2>3, <2>4 DEF Register!Write
<1>6. CASE x.op \notin Kept
  <2>1. /\ x.seen # None /\ x.op = Prune
        /\ x.staged = [revision |-> x.seen.revision + 1, done |-> x.staged.done]
        /\ x.staged.done \subseteq x.seen.done
    <3>1. x.seen # None
      BY <1>1, <1>6 DEF Follows
    <3> QED
      BY <3>1, <1>1, <1>6 DEF Follows
  <2>2. x.staged \in Register!Pruned(x.seen)
    <3>1. PICK kept : kept = x.staged.done
      OBVIOUS
    <3>2. kept \in SUBSET x.seen.done /\ x.staged = [revision |-> x.seen.revision + 1, done |-> kept]
      BY <2>1, <3>1
    <3> QED
      BY <3>2 DEF Register!Pruned
  <2>3. ~ClaimsReceipts
    <3>1. Sound(s, x) /\ Inside(x)
      BY <1>1 DEF IInv, SessionsSound, Guards
    <3> QED
      BY <3>1, <2>1 DEF Sound, Staging, MayForget, PolicyRecorded, Inside, ClaimsReceipts
  <2>4. told' = told
    BY <1>4, <1>6
  <2>5. visible'[x.root] \in Register!Pruned(visible[x.root]) /\ visible[x.root] # None
    BY <2>1, <2>2, <1>1, <1>2
  <2> QED
    BY <1>1, <1>3, <2>3, <2>4, <2>5 DEF Register!Write
<1> QED
  BY <1>5, <1>6

\* An answer without a write is of an operation that is there.
LEMMA Answers ==
    ASSUME NEW s \in Sessions, NEW x, x = session[s], x.root \in Roots,
           visible[x.root] # None, x.op \in Kept => x.op \in visible[x.root].done,
           visible' = visible, Answer(s)
    PROVE  Register!Answer \/ UNCHANGED <<visible, told>>
<1>1. \/ x.op \in Kept /\ told' = told \cup {<<x.root, x.op>>}
      \/ told' = told
  BY DEF Answer
<1> QED
  BY <1>1 DEF Register!Answer

\* What a register is besides its values changes with the schema alone.
LEMMA SamePolicy ==
    ASSUME config' = config, schema' = schema
    PROVE  UNCHANGED <<adapter = "memory", ClaimsReceipts>>
  BY DEF adapter, ClaimsReceipts

\* A commit writes the register, answers, or does neither.
LEMMA CommitRegister ==
    ASSUME IInv, NEW s \in Sessions, Commit(s)
    PROVE  Register!Next \/ UNCHANGED Registers
<1>1. PICK x : x = session[s]
  OBVIOUS
<1>2. /\ x.phase \in {"staged", "returned"} /\ Written(s) /\ Answer(s)
      /\ config' = config /\ schema' = schema
  BY <1>1 DEF Commit, Go
<1>3. UNCHANGED <<adapter = "memory", ClaimsReceipts>>
  BY <1>2, SamePolicy
<1>4. CASE x.staged # None
  BY <1>1, <1>2, <1>3, <1>4, Writes DEF Register!Next
<1>5. CASE x.staged = None
  <2>1. visible' = visible
    BY <1>1, <1>2, <1>5 DEF Written
  <2>2. x.root \in Roots
    BY <1>1, <1>2, StagedFollows
  <2>3. visible[x.root] # None /\ (x.op \in Kept => x.op \in visible[x.root].done)
    BY <1>1, <1>2, <2>1, Committed
  <2> QED
    BY <1>1, <1>2, <1>3, <2>1, <2>2, <2>3, Answers DEF Register!Next, Registers
<1> QED
  BY <1>4, <1>5

\* A renaming writes the register without an answer.
LEMMA RenameRegister ==
    ASSUME IInv, NEW s \in Sessions, Rename(s)
    PROVE  Register!Next
<1>1. PICK x : x = session[s]
  OBVIOUS
<1>2. /\ x.phase = "temporary" /\ Written(s) /\ told' = told
      /\ config' = config /\ schema' = schema
  BY <1>1 DEF Rename, Go
<1>3. x.staged # None
  BY <1>1, <1>2 DEF IInv, SessionsSound, Sound
<1>4. UNCHANGED <<adapter = "memory", ClaimsReceipts>>
  BY <1>2, SamePolicy
<1> QED
  BY <1>1, <1>2, <1>3, <1>4, Writes DEF Register!Next

\* What was renamed is there, and is answered for.
LEMMA SyncRegister ==
    ASSUME IInv, NEW s \in Sessions, SyncDirectory(s)
    PROVE  Register!Next \/ UNCHANGED Registers
<1>1. PICK x : x = session[s]
  OBVIOUS
<1>2. /\ x.phase = "renamed" /\ Answer(s) /\ visible' = visible
      /\ config' = config /\ schema' = schema
  BY <1>1 DEF SyncDirectory, Go
<1>3. UNCHANGED <<adapter = "memory", ClaimsReceipts>>
  BY <1>2, SamePolicy
<1>4. /\ Sound(s, x) /\ x.root \in Roots
  BY <1>1, <1>2, Caller DEF IInv, TypeOK, SessionsSound
<1>5. x.staged # None /\ Follows(x) /\ adapter = "file"
  BY <1>2, <1>4 DEF Sound, Staging
<1>6. visible[x.root] = x.staged
  BY <1>2, <1>4, <1>5 DEF Sound, Guards, Inside, Reading
<1>7. x.op \in Kept => x.op \in x.staged.done
  <2>1. CASE x.seen = None
    BY <2>1, <1>5 DEF Follows
  <2>2. CASE x.seen # None /\ x.op \in Kept
    <3>1. x.staged = [revision |-> x.seen.revision + 1, done |-> x.seen.done \cup {x.op}]
      BY <2>2, <1>5, StoresAssumption DEF Follows
    <3> QED
      BY <3>1
  <2> QED
    BY <2>1, <2>2
<1>8. Register!Answer \/ UNCHANGED <<visible, told>>
  BY <1>1, <1>2, <1>4, <1>5, <1>6, <1>7, Answers
<1> QED
  BY <1>3, <1>8 DEF Register!Next, Registers

\* A database is set up while it is empty.
LEMMA SetupRegister ==
    ASSUME IInv, NEW s \in Sessions, SetupSchema(s)
    PROVE  Register!Next \/ UNCHANGED Registers
<1>1. /\ schema = "none" /\ UNCHANGED <<config, visible, told>>
  BY DEF SetupSchema
<1>2. adapter' = adapter
  BY <1>1 DEF adapter
<1>3. ClaimsReceipts = FALSE /\ ClaimsReceipts' \in BOOLEAN
  BY <1>1 DEF ClaimsReceipts
<1>4. CASE ClaimsReceipts'
  <2>1. \A r \in Roots : visible[r] = None
    BY <1>1, <1>2, <1>4 DEF IInv, SchemaFirst, ClaimsReceipts
  <2> QED
    BY <1>1, <1>2, <1>3, <1>4, <2>1 DEF Register!Next, Register!SetUpPermanent
<1>5. CASE ~ClaimsReceipts'
  <2>1. ClaimsReceipts' = ClaimsReceipts
    BY <1>3, <1>5
  <2> QED
    BY <1>1, <1>2, <2>1 DEF Registers
<1> QED
  BY <1>4, <1>5

\* Only a store in memory vanishes.
LEMMA CrashRegister ==
    ASSUME Crash
    PROVE  Register!Next \/ UNCHANGED Registers
<1>1. config' = config /\ adapter' = adapter
  BY DEF Crash, adapter
<1>2. CASE adapter = "memory"
  <2>1. /\ visible' = [r \in Roots |-> None] /\ told' = {}
    BY <1>2 DEF Crash
  <2>2. ClaimsReceipts = FALSE /\ ClaimsReceipts' = FALSE
    BY <1>1, <1>2 DEF Databases, ClaimsReceipts
  <2> QED
    BY <1>1, <1>2, <2>1, <2>2 DEF Register!Next, Register!Vanish
<1>3. CASE adapter # "memory"
  <2>1. UNCHANGED <<visible, told, schema>>
    BY <1>3 DEF Crash
  <2> QED
    BY <1>1, <2>1, SamePolicy DEF Registers
<1> QED
  BY <1>2, <1>3

\* Every step of a store is one of the register or leaves it as it is.
LEMMA NextRegister ==
    ASSUME IInv, [Next]_vars
    PROVE  Register!Next \/ UNCHANGED Registers
<1>1. ASSUME UNCHANGED <<config, schema, visible, told>>
      PROVE  UNCHANGED Registers
  BY <1>1, SamePolicy DEF Registers
<1>2. CASE UNCHANGED vars
  BY <1>1, <1>2 DEF vars
<1>3. ASSUME NEW s \in Sessions, Proceed(s) \/ Fail(s)
      PROVE  Register!Next \/ UNCHANGED Registers
  <2>1. CASE Commit(s)
    BY <2>1, CommitRegister
  <2>2. CASE Rename(s)
    BY <2>2, RenameRegister
  <2>3. CASE SyncDirectory(s)
    BY <2>3, SyncRegister
  <2>4. CASE WriteTemporary(s)
    <3>1. visible' = visible
      BY <2>4 DEF WriteTemporary, WhileWriting, IInv, TypeOK
    <3> QED
      BY <3>1, <2>4, <1>1 DEF WriteTemporary, Go
  <2>5. CASE ~(Commit(s) \/ Rename(s) \/ SyncDirectory(s) \/ WriteTemporary(s))
    <3>1. UNCHANGED <<config, schema, visible, told>>
      BY <1>3, <2>5 DEF Proceed, Open, Load, Stage, FindReceipt, Return, RaiseAtFinish, Refuse,
                        Fail, Go
    <3> QED
      BY <3>1, <1>1
  <2> QED
    BY <2>1, <2>2, <2>3, <2>4, <2>5
<1>4. ASSUME NEW s \in Sessions, NEW r, NEW op, NEW shared, Call(s, r, op, shared)
      PROVE  UNCHANGED Registers
  BY <1>1, <1>4 DEF Call, Go
<1>5. ASSUME NEW r, Collect(r) \/ CheckMember(r) \/ CallBackup \/ EndBackup
      PROVE  UNCHANGED Registers
  <2>1. \E new : Backup(new)
    BY <1>5, Zenon DEF Collect, CheckMember, CallBackup, EndBackup
  <2> QED
    BY <2>1, <1>1 DEF Backup
<1> QED
  BY <1>2, <1>3, <1>4, <1>5, SetupRegister, CrashRegister DEF Next

\* Empty roots are an empty register.
LEMMA InitRegister == Init => Register!Init
  BY DEF Init, Register!Init, ClaimsReceipts

\* Under any number of sessions, with whatever policies, failures and crashes, each
\* root is one register that is written by compare-and-swap.
THEOREM StoresImplementRegister == Spec => ImplementsRegister
<1>1. IInv /\ [Next]_vars => [Register!Next]_(Register!vars)
  BY NextRegister DEF Register!vars, Registers
<1> QED
  BY <1>1, InitRegister, Invariant, PTL DEF Spec, ImplementsRegister, Register!Spec
=============================================================================
