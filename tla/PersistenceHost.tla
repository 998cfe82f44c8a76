--------------------------- MODULE PersistenceHost --------------------------
(***************************************************************************)
(* The durable host of persistence.py.  One document per root holds the    *)
(* checkpoint, an inbox, application rows and one quarantine marker, and   *)
(* is replaced as a whole by one transaction of MemoryDurableHostStore or  *)
(* SQLiteDurableHostStore.  A broker delivers requests at least once, in   *)
(* any order, until they are acknowledged, and may present an event id     *)
(* with another body.                                                      *)
(*                                                                         *)
(* Of the checkpoint there is its revision, the events it has a terminal   *)
(* receipt or a tombstone of and whether other entries wait for the root;  *)
(* how deliveries are processed is in Checkpoint.  These events reach the  *)
(* root through this host only; other hosts of the same store do anything  *)
(* else, and as the store does not claim to keep its receipts, they may    *)
(* take those of the processed events away.                                *)
(***************************************************************************)
EXTENDS Naturals, Sequences, SequencesExt, Functions

CONSTANTS
    Events,
    Bodies,         \* what an envelope digest stands for
    MaxRevision,    \* bounds
    MaxInbox

ASSUME PersistenceAssumption == MaxRevision \in Nat /\ MaxInbox \in Nat

VARIABLES
    document,
    acknowledged    \* <<event, body>> taken off the broker

vars == <<document, acknowledged>>

NoQuarantine == [event |-> "none", released |-> FALSE]

Merge(f, g) == [x \in DOMAIN f \cup DOMAIN g |-> IF x \in DOMAIN f THEN f[x] ELSE g[x]]

\* seed: a root just created.
Init ==
    /\ document = [revision |-> 0, waiting |-> FALSE, receipts |-> <<>>, tombstones |-> {},
                   inbox |-> <<>>, rows |-> <<>>, quarantine |-> NoQuarantine]
    /\ acknowledged = {}

\* One transaction replaces the document; one that raises replaces nothing.
HostTransaction(new) == document' = new

Record(event, body, disposition) == [event |-> event, body |-> body, disposition |-> disposition]

\* The latest record of an event in place of the first.
LatestOf(d, event) == SelectLastInSeq(d.inbox, LAMBDA record : record.event = event)

\* Position of the record the host finds for an event, 0 if there is none.
PriorOf(d, event) == SelectInSeq(d.inbox, LAMBDA record : record.event = event)

Released(d, event) ==
    /\ PriorOf(d, event) # 0
    /\ d.inbox[PriorOf(d, event)].disposition = "quarantined"
    /\ d.quarantine = [event |-> event, released |-> TRUE]

-----------------------------------------------------------------------------
(* process_v1.                                                             *)

\* Policy permanent_quarantine: the event is noted as given up, whatever is known
\* of it, and the marker of another event is replaced.
Quarantine(event, body) ==
    /\ Len(document.inbox) < MaxInbox
    /\ HostTransaction(
          [document EXCEPT !.quarantine = [event |-> event, released |-> FALSE],
                           !.inbox = Append(@, Record(event, body, "quarantined"))])
    /\ UNCHANGED acknowledged

\* A retry answered whatever its body is.
ReplayAnyBody(event, body) ==
    /\ PriorOf(document, event) # 0 /\ ~Released(document, event)
    /\ event \in DOMAIN document.receipts
    /\ acknowledged' = acknowledged \cup {<<event, body>>}
    /\ UNCHANGED document

\* A record that is not a released quarantine: the same body is acknowledged when
\* there is a receipt to answer with.  For another body the call raises, and so it
\* does when the event was never processed or its receipt was taken away.
Replay(event, body) ==
    /\ PriorOf(document, event) # 0 /\ ~Released(document, event)
    /\ document.inbox[PriorOf(document, event)].body = body
    /\ event \in DOMAIN document.receipts
    /\ acknowledged' = acknowledged \cup {<<event, body>>}
    /\ UNCHANGED document

\* process_delivery_v1 on the document's checkpoint: under the expected revision,
\* with nothing waiting before the delivery, and for an event it does not know.
Processable(d, event, expected) ==
    /\ expected = d.revision /\ ~d.waiting
    /\ event \notin DOMAIN d.receipts \cup d.tombstones

\* The record of a released event becomes the committed one; a new event gets one.
Inboxed(d, event, body) ==
    IF Released(d, event)
    THEN [d EXCEPT !.inbox[PriorOf(d, event)] = Record(event, body, "committed"),
                   !.quarantine = NoQuarantine]
    ELSE [d EXCEPT !.inbox = Append(@, Record(event, body, "committed"))]

Processed(d, event, body) ==
    [Inboxed(d, event, body) EXCEPT
        !.revision = @ + 1,
        !.receipts = Merge([e \in {event} |-> [body |-> body, number |-> d.revision + 1]], @),
        !.rows = Merge([e \in {event} |-> body], @)]

\* Acknowledged, unless the process ends or the answer is lost after the commit; a
\* fault before it (transient_retry, inject_pre_commit) leaves all as it was.
Process(event, body, expected) ==
    /\ PriorOf(document, event) = 0 \/ Released(document, event)
    /\ Processable(document, event, expected)
    /\ document.revision < MaxRevision /\ Len(document.inbox) < MaxInbox
    /\ HostTransaction(Processed(document, event, body))
    /\ acknowledged' \in {acknowledged, acknowledged \cup {<<event, body>>}}

-----------------------------------------------------------------------------
(* release_quarantine_v1 and the other users of the store.                 *)

ReleaseQuarantine(event) ==
    /\ document.quarantine.event = event
    /\ HostTransaction([document EXCEPT !.quarantine.released = TRUE])
    /\ UNCHANGED acknowledged

\* The receipts numbered above a cutoff.  A receipt is numbered by the revision it
\* was committed with: a cutoff inside one transaction is refused.
Above(receipts, cutoff) ==
    Restrict(receipts, {event \in DOMAIN receipts : receipts[event].number > cutoff})

\* DurableHostStore.transaction: an execution host takes receipts away ...
Forget(kept, tombstones) ==
    /\ kept # document.receipts
    /\ document.revision < MaxRevision
    /\ HostTransaction([document EXCEPT !.revision = @ + 1, !.receipts = kept,
                                        !.tombstones = @ \cup tombstones])
    /\ UNCHANGED acknowledged

\* ... and knows their events by tombstones from then on, or forgets them.
Prune(cutoff) ==
    LET kept == Above(document.receipts, cutoff)
    IN  Forget(kept, DOMAIN document.receipts \ DOMAIN kept)

UpdateReplayRetention(cutoff) == Forget(Above(document.receipts, cutoff), {})

\* Or it admits, steps, settles effects: what takes no receipt away.
OtherOperation(waiting) ==
    /\ document.revision < MaxRevision
    /\ HostTransaction([document EXCEPT !.revision = @ + 1, !.waiting = waiting])
    /\ UNCHANGED acknowledged

Next ==
    \/ \E event \in Events, body \in Bodies :
          \/ Quarantine(event, body)
          \/ Replay(event, body)
          \/ \E expected \in 0 .. document.revision : Process(event, body, expected)
    \/ \E event \in Events : ReleaseQuarantine(event)
    \/ \E cutoff \in 0 .. document.revision : Prune(cutoff) \/ UpdateReplayRetention(cutoff)
    \/ \E waiting \in BOOLEAN : OtherOperation(waiting)

Spec == Init /\ [][Next]_vars
-----------------------------------------------------------------------------
(* Properties.                                                             *)

\* At-least-once delivery, lost answers, repeated requests with other bodies,
\* quarantines and pruning come to this: what is taken off the broker has been
\* processed with the very body it had.  Its application rows are stored, the host
\* finds it as committed, and its receipt, while it is kept, says the same.
AcknowledgedIsProcessed ==
    \A p \in acknowledged :
       /\ p[1] \in DOMAIN document.rows /\ document.rows[p[1]] = p[2]
       /\ PriorOf(document, p[1]) # 0
       /\ document.inbox[PriorOf(document, p[1])] = Record(p[1], p[2], "committed")
       /\ p[1] \in DOMAIN document.receipts => document.receipts[p[1]].body = p[2]

\* An event is processed only when it is due, however often it is presented, given
\* up and released, and other events meanwhile: never a second time, also when the
\* checkpoint no longer knows it, and after it was given up only by its own release.
ProcessedWhenDue ==
    [][\A event \in DOMAIN document'.receipts \ DOMAIN document.receipts :
          /\ event \notin DOMAIN document.rows
          /\ (\E i \in DOMAIN document.inbox : document.inbox[i].event = event) =>
                document.quarantine = [event |-> event, released |-> TRUE]]_vars

\* What fails once receipts may go: a retry of a processed event has an answer
\* (persistence.py:315-320 raises StopIteration).
RetryIsAnswered ==
    \A event \in Events : LET prior == PriorOf(document, event) IN
       prior # 0 /\ document.inbox[prior].disposition = "committed" =>
          event \in DOMAIN document.receipts
=============================================================================
