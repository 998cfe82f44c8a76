-------------------------- MODULE Authority_proofs --------------------------
(***************************************************************************)
(* Proofs about Authority for every set of operations, works, roots and    *)
(* definitions and every bound on the generation: claims, the inventory of *)
(* a freeze, and that the ledger implements ScopeLog.  No constant is      *)
(* assumed to differ from another: an id a caller chooses may even be that *)
(* of a checkpoint.                                                        *)
(***************************************************************************)
EXTENDS Authority, TLAPS

-----------------------------------------------------------------------------
(* The inductive invariant.                                                *)

IsLedger(l) ==
    /\ l = [state |-> l.state, generation |-> l.generation, receipts |-> l.receipts,
            mutations |-> l.mutations, entries |-> l.entries, bindings |-> l.bindings,
            records |-> l.records, active |-> l.active, claimed |-> l.claimed,
            history |-> l.history, inventory |-> l.inventory]
    /\ l.state \in {"active", "transaction_in_doubt", "frozen"}
    /\ l.generation \in Nat
    /\ l.entries = [w \in DOMAIN l.entries |-> l.entries[w]]
    /\ l.records = [w \in DOMAIN l.records |-> l.records[w]]
    /\ DOMAIN l.entries = DOMAIN l.bindings /\ DOMAIN l.records = DOMAIN l.bindings
    /\ \A i \in DOMAIN l.receipts : l.receipts[i].gen \in Nat \ {0}

\* The ledger has its fields, and a row is that of its root.
TypeOK ==
    /\ fencing \in BOOLEAN
    /\ IsLedger(ledger)
    /\ \A root \in DOMAIN stored : stored[root].root = root /\ stored[root].revision \in Nat

\* What a ledger knows of a claim that was ever made.
Holds(l, c) ==
    /\ c \in l.active /\ c.work \in DOMAIN l.bindings
    /\ l.entries[c.work] = c.fence
    /\ l.bindings[c.work] = c.binding
    /\ l.records[c.work] = [fence |-> c.fence, state |-> "leased"]

\* Claims are made only with fencing, one for a work, and never given up; a receipt
\* and an answer carry a claim that was made.
ClaimsSound ==
    /\ ledger.claimed # {} => fencing
    /\ \A c \in ledger.claimed : Holds(ledger, c)
    /\ \A c, d \in ledger.claimed : c.work = d.work => c = d
    /\ \A i \in DOMAIN ledger.receipts :
          ledger.receipts[i].claim # NoClaim => ledger.receipts[i].claim \in ledger.claimed
    /\ \A i \in DOMAIN told : \A result \in told[i] :
          result.claim # NoClaim => result.claim \in ledger.claimed

\* No checkpoint of the history is ahead of the row of its root.
HistorySound ==
    \A c \in ledger.history :
       /\ c.root \in DOMAIN stored
       /\ c.revision \in Nat /\ c.revision <= stored[c.root].revision

IInv == TypeOK /\ ClaimsSound /\ HistorySound /\ FrozenIsComplete

-----------------------------------------------------------------------------
(* Operators.                                                              *)

\* n is l with one more operation, of this id and result.
Logged(l, n, id, result) ==
    /\ n.generation = l.generation + 1
    /\ DOMAIN n.receipts = {id} \cup DOMAIN l.receipts
    /\ n.receipts[id] = result
    /\ \A i \in DOMAIN l.receipts : n.receipts[i] = l.receipts[i]
    /\ result.gen = l.generation + 1 /\ result.request.gen = l.generation

\* A receipt is all that is appended for an operation.
LEMMA ReceiptedFields ==
    ASSUME NEW l, IsLedger(l), NEW r, NEW claim, Prior(l, r) = {}, r.gen = l.generation,
           NEW n, n = Receipted(l, r, claim)
    PROVE  /\ IsLedger(n) /\ Logged(l, n, r.id, Result(r, l.generation + 1, claim))
           /\ n.state = l.state /\ n.mutations = l.mutations /\ n.entries = l.entries
           /\ n.bindings = l.bindings /\ n.records = l.records /\ n.active = l.active
           /\ n.claimed = l.claimed /\ n.history = l.history /\ n.inventory = l.inventory
<1>1. PICK result : result = Result(r, l.generation + 1, claim)
  OBVIOUS
<1>2. PICK receipts : receipts = Put(l.receipts, r.id, result)
  OBVIOUS
<1>3. r.id \notin DOMAIN l.receipts
  BY DEF Prior
<1>4. /\ DOMAIN receipts = {r.id} \cup DOMAIN l.receipts /\ receipts[r.id] = result
      /\ \A i \in DOMAIN l.receipts : receipts[i] = l.receipts[i]
  BY <1>2, <1>3 DEF Put
<1>5. result.gen = l.generation + 1 /\ result.request = r
  BY <1>1 DEF Result
<1>6. n = [l EXCEPT !.generation = l.generation + 1, !.receipts = receipts]
  BY <1>1, <1>2 DEF Receipted
<1>7. n = [state |-> l.state, generation |-> l.generation + 1, receipts |-> receipts,
           mutations |-> l.mutations, entries |-> l.entries, bindings |-> l.bindings,
           records |-> l.records, active |-> l.active, claimed |-> l.claimed,
           history |-> l.history, inventory |-> l.inventory]
  BY <1>6 DEF IsLedger
<1>8. /\ n.generation = l.generation + 1 /\ n.receipts = receipts
      /\ n.state = l.state /\ n.mutations = l.mutations /\ n.entries = l.entries
      /\ n.bindings = l.bindings /\ n.records = l.records /\ n.active = l.active
      /\ n.claimed = l.claimed /\ n.history = l.history /\ n.inventory = l.inventory
  BY <1>7
<1>9. Logged(l, n, r.id, result)
  BY <1>4, <1>5, <1>8 DEF Logged
<1>10. IsLedger(n)
  <2>1. l.generation + 1 \in Nat \ {0}
    BY DEF IsLedger
  <2>2. \A i \in DOMAIN n.receipts : n.receipts[i].gen \in Nat \ {0}
    BY <2>1, <1>4, <1>5, <1>8 DEF IsLedger
  <2> QED
    BY <2>1, <2>2, <1>7, <1>8 DEF IsLedger
<1> QED
  BY <1>1, <1>8, <1>9, <1>10

\* A guarded commit appends its mutation.
LEMMA GuardedFields ==
    ASSUME NEW l, IsLedger(l), NEW r, Prior(l, r) = {}, r.gen = l.generation,
           NEW n, n = Guarded(l, r)
    PROVE  /\ IsLedger(n) /\ Logged(l, n, r.id, Result(r, l.generation + 1, NoClaim))
           /\ n.state = l.state /\ n.entries = l.entries
           /\ n.bindings = l.bindings /\ n.records = l.records /\ n.active = l.active
           /\ n.claimed = l.claimed /\ n.history = l.history /\ n.inventory = l.inventory
<1>1. PICK m : m = Receipted(l, r, NoClaim)
  OBVIOUS
<1>2. /\ IsLedger(m) /\ Logged(l, m, r.id, Result(r, l.generation + 1, NoClaim))
      /\ m.state = l.state /\ m.entries = l.entries
      /\ m.bindings = l.bindings /\ m.records = l.records /\ m.active = l.active
      /\ m.claimed = l.claimed /\ m.history = l.history /\ m.inventory = l.inventory
  BY <1>1, ReceiptedFields
<1>3. n = [m EXCEPT !.mutations = m.mutations \cup {r.mutation}]
  BY <1>1 DEF Guarded
<1>4. n = [state |-> m.state, generation |-> m.generation, receipts |-> m.receipts,
           mutations |-> m.mutations \cup {r.mutation}, entries |-> m.entries,
           bindings |-> m.bindings, records |-> m.records, active |-> m.active,
           claimed |-> m.claimed, history |-> m.history, inventory |-> m.inventory]
  BY <1>2, <1>3 DEF IsLedger
<1>5. /\ n.state = m.state /\ n.generation = m.generation /\ n.receipts = m.receipts
      /\ n.mutations = m.mutations \cup {r.mutation} /\ n.entries = m.entries
      /\ n.bindings = m.bindings /\ n.records = m.records /\ n.active = m.active
      /\ n.claimed = m.claimed /\ n.history = m.history /\ n.inventory = m.inventory
  BY <1>4
<1>6. IsLedger(n)
  BY <1>2, <1>4, <1>5 DEF IsLedger
<1> QED
  BY <1>2, <1>5, <1>6 DEF Logged

\* A freeze closes the ledger with the inventory of what is stored.
LEMMA FrozenFields ==
    ASSUME NEW l, IsLedger(l), NEW r, Prior(l, r) = {}, r.gen = l.generation,
           NEW n, n = Frozen(l, r)
    PROVE  /\ IsLedger(n) /\ Logged(l, n, r.id, Result(r, l.generation + 1, NoClaim))
           /\ n.state = "frozen" /\ n.claimed = l.claimed /\ n.history = l.history
           /\ n.entries = l.entries /\ n.bindings = l.bindings /\ n.records = l.records
           /\ n.active = l.active
           /\ \E m : /\ m.receipts = n.receipts /\ m.history = l.history
                    /\ n.inventory = Inventory(m, stored)
<1>1. PICK m : m = Receipted(l, r, NoClaim)
  OBVIOUS
<1>2. /\ IsLedger(m) /\ Logged(l, m, r.id, Result(r, l.generation + 1, NoClaim))
      /\ m.entries = l.entries
      /\ m.bindings = l.bindings /\ m.records = l.records /\ m.active = l.active
      /\ m.claimed = l.claimed /\ m.history = l.history
  BY <1>1, ReceiptedFields
<1>3. PICK inventory : inventory = Inventory(m, stored)
  OBVIOUS
<1>4. n = [m EXCEPT !.state = "frozen", !.inventory = inventory]
  BY <1>1, <1>3 DEF Frozen
<1>5. n = [state |-> "frozen", generation |-> m.generation, receipts |-> m.receipts,
           mutations |-> m.mutations, entries |-> m.entries, bindings |-> m.bindings,
           records |-> m.records, active |-> m.active, claimed |-> m.claimed,
           history |-> m.history, inventory |-> inventory]
  BY <1>2, <1>4 DEF IsLedger
<1>6. /\ n.state = "frozen" /\ n.generation = m.generation /\ n.receipts = m.receipts
      /\ n.mutations = m.mutations /\ n.entries = m.entries
      /\ n.bindings = m.bindings /\ n.records = m.records /\ n.active = m.active
      /\ n.claimed = m.claimed /\ n.history = m.history /\ n.inventory = inventory
  BY <1>5
<1>7. IsLedger(n)
  BY <1>2, <1>5, <1>6 DEF IsLedger
<1> QED
  BY <1>2, <1>3, <1>6, <1>7 DEF Logged

\* A claim moves the fence of its work and marks it leased.
LEMMA FencedFields ==
    ASSUME NEW l, IsLedger(l), NEW r, Prior(l, r) = {}, r.gen = l.generation,
           r.work \in DOMAIN l.bindings, l.bindings[r.work] = r.binding,
           NEW n, n = Fenced(l, r)
    PROVE  /\ IsLedger(n) /\ Logged(l, n, r.id, Result(r, l.generation + 1, ClaimOf(l, r)))
           /\ n.state = l.state /\ n.history = l.history /\ n.inventory = l.inventory
           /\ n.claimed = l.claimed \cup {ClaimOf(l, r)}
           /\ Holds(n, ClaimOf(l, r)) /\ ClaimOf(l, r).work = r.work
           /\ \A c : c.work # r.work /\ Holds(l, c) => Holds(n, c)
<1>1. PICK claim : claim = ClaimOf(l, r)
  OBVIOUS
<1>2. PICK m : m = Receipted(l, r, claim)
  OBVIOUS
<1>3. /\ IsLedger(m) /\ Logged(l, m, r.id, Result(r, l.generation + 1, claim))
      /\ m.state = l.state /\ m.entries = l.entries
      /\ m.bindings = l.bindings /\ m.records = l.records /\ m.active = l.active
      /\ m.claimed = l.claimed /\ m.history = l.history /\ m.inventory = l.inventory
  BY <1>2, ReceiptedFields
<1>4. claim.work = r.work /\ claim.binding = r.binding /\ claim.fence = l.entries[r.work] + 1
  BY <1>1 DEF ClaimOf
<1> DEFINE entries == [m.entries EXCEPT ![r.work] = claim.fence]
           leased == [fence |-> claim.fence, state |-> "leased"]
           records == [m.records EXCEPT ![r.work] = leased]
           active == {c \in m.active : c.work # r.work} \cup {claim}
           claimed == m.claimed \cup {claim}
<1>5. n = [m EXCEPT !.entries = entries, !.records = records, !.active = active, !.claimed = claimed]
  BY <1>1, <1>2 DEF Fenced
<1>6. /\ DOMAIN entries = DOMAIN l.bindings /\ entries[r.work] = claim.fence
      /\ \A w \in DOMAIN l.bindings : w # r.work => entries[w] = l.entries[w]
      /\ entries = [w \in DOMAIN entries |-> entries[w]]
  BY <1>3 DEF IsLedger
<1>7. /\ DOMAIN records = DOMAIN l.bindings /\ records[r.work] = leased
      /\ \A w \in DOMAIN l.bindings : w # r.work => records[w] = l.records[w]
      /\ records = [w \in DOMAIN records |-> records[w]]
  BY <1>3 DEF IsLedger
<1>8. claim \in active /\ \A c \in l.active : c.work # r.work => c \in active
  BY <1>3
<1> HIDE DEF entries, records, active, claimed
<1>9. n = [state |-> m.state, generation |-> m.generation, receipts |-> m.receipts,
           mutations |-> m.mutations, entries |-> entries, bindings |-> m.bindings,
           records |-> records, active |-> active, claimed |-> claimed,
           history |-> m.history, inventory |-> m.inventory]
  BY <1>3, <1>5 DEF IsLedger
<1>10. /\ n.state = m.state /\ n.generation = m.generation /\ n.receipts = m.receipts
       /\ n.mutations = m.mutations /\ n.entries = entries
       /\ n.bindings = m.bindings /\ n.records = records /\ n.active = active
       /\ n.claimed = claimed /\ n.history = m.history /\ n.inventory = m.inventory
  BY <1>9
<1>11. IsLedger(n)
  BY <1>3, <1>6, <1>7, <1>9, <1>10 DEF IsLedger
<1>12. Holds(n, claim)
  BY <1>3, <1>4, <1>6, <1>7, <1>8, <1>10 DEF Holds
<1>13. \A c : c.work # r.work /\ Holds(l, c) => Holds(n, c)
  BY <1>3, <1>6, <1>7, <1>8, <1>10 DEF Holds
<1> QED
  BY <1>1, <1>3, <1>4, <1>10, <1>11, <1>12, <1>13 DEF Logged, claimed

\* Callers are told the given result, besides what they were told before.
LEMMA ToldMore ==
    ASSUME NEW i, NEW result, TellTo(i, result) \/ UNCHANGED told
    PROVE  \A j \in DOMAIN told' : \A x \in told'[j] :
              (j \in DOMAIN told /\ x \in told[j]) \/ x = result
<1>1. CASE UNCHANGED told
  BY <1>1
<1>2. CASE TellTo(i, result)
  <2>1. told' = Put(told, i, Told(i) \cup {result})
    BY <1>2 DEF TellTo
  <2>2. /\ DOMAIN told' = {i} \cup DOMAIN told /\ told'[i] = Told(i) \cup {result}
        /\ \A j \in DOMAIN told : j # i => told'[j] = told[j]
    BY <2>1 DEF Put
  <2> QED
    BY <2>2 DEF Told
<1> QED
  BY <1>1, <1>2

\* Claims stay sound when none is made and no fact about one changes.
LEMMA ClaimsKept ==
    ASSUME ClaimsSound, fencing' = fencing,
           ledger'.claimed = ledger.claimed,
           \A c \in ledger.claimed : Holds(ledger, c) => Holds(ledger', c),
           \A i \in DOMAIN ledger'.receipts :
              \/ ledger'.receipts[i].claim = NoClaim
              \/ i \in DOMAIN ledger.receipts /\ ledger'.receipts[i] = ledger.receipts[i],
           \A j \in DOMAIN told' : \A x \in told'[j] :
              \/ x.claim = NoClaim \/ x.claim \in ledger.claimed
              \/ j \in DOMAIN told /\ x \in told[j]
    PROVE  ClaimsSound'
  BY DEF ClaimsSound

\* The answer to an operation without a claim.
LEMMA AcceptedClaims ==
    ASSUME IInv, fencing' = fencing, NEW r, NEW n, ledger' = n,
           Logged(ledger, n, r.id, Result(r, ledger.generation + 1, NoClaim)),
           n.claimed = ledger.claimed, n.entries = ledger.entries, n.bindings = ledger.bindings,
           n.records = ledger.records, n.active = ledger.active,
           TellTo(r.id, n.receipts[r.id]) \/ UNCHANGED told
    PROVE  ClaimsSound'
<1>1. n.receipts[r.id].claim = NoClaim
  BY DEF Logged, Result
<1>2. \A i \in DOMAIN n.receipts :
         \/ n.receipts[i].claim = NoClaim
         \/ i \in DOMAIN ledger.receipts /\ n.receipts[i] = ledger.receipts[i]
  BY <1>1 DEF Logged
<1>3. \A c : Holds(ledger, c) => Holds(n, c)
  BY DEF Holds
<1>4. \A j \in DOMAIN told' : \A x \in told'[j] :
         x.claim = NoClaim \/ (j \in DOMAIN told /\ x \in told[j])
  BY <1>1, ToldMore
<1> QED
  BY <1>2, <1>3, <1>4, ClaimsKept DEF IInv

\* Without a change of the rows and the history both stay in step.
LEMMA HistoryKept ==
    ASSUME HistorySound, ledger'.history = ledger.history, stored' = stored
    PROVE  HistorySound'
  BY DEF HistorySound

-----------------------------------------------------------------------------
(* The operations.                                                         *)

\* A registration is of work nobody has claimed.
LEMMA RegisterStep ==
    ASSUME IInv, NEW work, NEW binding, RegisterEffectWork(work, binding), fencing' = fencing
    PROVE  IInv'
<1> DEFINE l == ledger
           bindings == Put(l.bindings, work, binding)
           records == Put(l.records, work, [fence |-> 0, state |-> "unclaimed"])
           entries == Put(l.entries, work, 0)
<1>1. IsLedger(l) /\ work \notin DOMAIN l.bindings /\ l.state = "active"
  BY DEF IInv, TypeOK, RegisterEffectWork
<1>2. ledger' = [l EXCEPT !.bindings = bindings, !.records = records, !.entries = entries,
                          !.generation = l.generation + 1]
  BY DEF RegisterEffectWork
<1>3. /\ DOMAIN bindings = {work} \cup DOMAIN l.bindings
      /\ \A w \in DOMAIN l.bindings : w # work => bindings[w] = l.bindings[w]
  BY DEF Put
<1>4. /\ DOMAIN records = {work} \cup DOMAIN l.records
      /\ \A w \in DOMAIN l.records : w # work => records[w] = l.records[w]
      /\ records = [w \in DOMAIN records |-> records[w]]
  BY DEF Put
<1>5. /\ DOMAIN entries = {work} \cup DOMAIN l.entries
      /\ \A w \in DOMAIN l.entries : w # work => entries[w] = l.entries[w]
      /\ entries = [w \in DOMAIN entries |-> entries[w]]
  BY DEF Put
<1> HIDE DEF bindings, records, entries
<1>6. ledger' = [state |-> l.state, generation |-> l.generation + 1, receipts |-> l.receipts,
                 mutations |-> l.mutations, entries |-> entries, bindings |-> bindings,
                 records |-> records, active |-> l.active, claimed |-> l.claimed,
                 history |-> l.history, inventory |-> l.inventory]
  BY <1>1, <1>2 DEF IsLedger
<1>7. PICK n : n = ledger'
  OBVIOUS
<1>8. /\ n.state = l.state /\ n.generation = l.generation + 1 /\ n.receipts = l.receipts
      /\ n.mutations = l.mutations /\ n.entries = entries /\ n.bindings = bindings
      /\ n.records = records /\ n.active = l.active /\ n.claimed = l.claimed
      /\ n.history = l.history /\ n.inventory = l.inventory
  BY <1>6, <1>7
<1>9. IsLedger(n)
  BY <1>1, <1>3, <1>4, <1>5, <1>6, <1>7, <1>8 DEF IsLedger
<1>10. \A c : Holds(l, c) => Holds(n, c)
  BY <1>1, <1>3, <1>4, <1>5, <1>8 DEF Holds, IsLedger
<1>11. UNCHANGED <<stored, lapsed, told>>
  BY DEF RegisterEffectWork
<1>12. ClaimsSound'
  BY <1>7, <1>8, <1>10, <1>11, ClaimsKept DEF IInv
<1>13. HistorySound'
  BY <1>7, <1>8, <1>11, HistoryKept DEF IInv
<1>14. FrozenIsComplete'
  BY <1>1, <1>7, <1>8 DEF FrozenIsComplete
<1>15. TypeOK'
  BY <1>7, <1>9, <1>11 DEF IInv, TypeOK
<1> QED
  BY <1>12, <1>13, <1>14, <1>15 DEF IInv

\* A guarded commit makes no claim and leaves rows and history alone.
LEMMA GuardedStep ==
    ASSUME IInv, NEW p, NEW r, GuardedCommit(p, r), fencing' = fencing
    PROVE  IInv'
<1>1. PICK n : n = Guarded(ledger, r)
  OBVIOUS
<1>2. /\ IsLedger(ledger) /\ Prior(ledger, r) = {} /\ ledger.state = "active"
      /\ r.gen = ledger.generation
  BY DEF IInv, TypeOK, GuardedCommit, Current
<1>3. /\ ledger' = n /\ UNCHANGED <<stored, lapsed>>
      /\ TellTo(r.id, n.receipts[r.id]) \/ UNCHANGED told
  BY <1>1 DEF GuardedCommit, Accepted
<1>4. /\ IsLedger(n) /\ Logged(ledger, n, r.id, Result(r, ledger.generation + 1, NoClaim))
      /\ n.state = ledger.state /\ n.entries = ledger.entries
      /\ n.bindings = ledger.bindings /\ n.records = ledger.records /\ n.active = ledger.active
      /\ n.claimed = ledger.claimed /\ n.history = ledger.history
  BY <1>1, <1>2, GuardedFields
<1>5. ClaimsSound'
  BY <1>3, <1>4, AcceptedClaims
<1>6. HistorySound'
  BY <1>3, <1>4, HistoryKept DEF IInv
<1>7. FrozenIsComplete'
  BY <1>2, <1>3, <1>4 DEF FrozenIsComplete
<1>8. TypeOK'
  BY <1>3, <1>4 DEF IInv, TypeOK
<1> QED
  BY <1>5, <1>6, <1>7, <1>8 DEF IInv

\* An inventory has every row, its root and every definition of the history, and no
\* checkpoint but the rows.
LEMMA InventoryFacts ==
    ASSUME NEW l, NEW rows
    PROVE  /\ \A i \in DOMAIN l.receipts : <<"receipt", i>> \in Inventory(l, rows)
           /\ \A root \in DOMAIN rows : /\ <<"checkpoint", rows[root]>> \in Inventory(l, rows)
                                     /\ <<"root", root>> \in Inventory(l, rows)
           /\ \A c \in l.history : <<"definition", c.definition>> \in Inventory(l, rows)
           /\ \A x \in Inventory(l, rows) : x[1] = "checkpoint" =>
                 \E root \in DOMAIN rows : x = <<"checkpoint", rows[root]>>
<1> DEFINE Received == {<<"receipt", i>> : i \in DOMAIN l.receipts}
           Mutated == {<<"mutation", m>> : m \in l.mutations}
           Stored == {<<"checkpoint", rows[root]>> : root \in DOMAIN rows}
           Rooted == {<<"root", root>> : root \in DOMAIN rows}
           Defined == {<<"definition", c.definition>> : c \in l.history \cup Range(rows)}
<1>1. Inventory(l, rows) = Received \cup Mutated \cup Stored \cup Rooted \cup Defined
  BY Zenon DEF Inventory
<1>2. \A x \in Received \cup Mutated \cup Rooted \cup Defined : x[1] # "checkpoint"
  OBVIOUS
<1>3. \A x \in Stored : \E root \in DOMAIN rows : x = <<"checkpoint", rows[root]>>
  OBVIOUS
<1>4. /\ \A i \in DOMAIN l.receipts : <<"receipt", i>> \in Received
      /\ \A root \in DOMAIN rows : <<"checkpoint", rows[root]>> \in Stored /\ <<"root", root>> \in Rooted
      /\ \A c \in l.history : <<"definition", c.definition>> \in Defined
  OBVIOUS
<1> HIDE DEF Received, Mutated, Stored, Rooted, Defined
<1> QED
  BY <1>1, <1>2, <1>3, <1>4

\* The inventory of a freeze is complete: every stored row is in the history, and
\* every checkpoint of the history has a row of its root.
LEMMA FreezeStep ==
    ASSUME IInv, NEW p, NEW r, FreezeScope(p, r), fencing' = fencing
    PROVE  IInv'
<1>1. PICK n : n = Frozen(ledger, r)
  OBVIOUS
<1>2. /\ IsLedger(ledger) /\ Prior(ledger, r) = {} /\ ledger.state = "active"
      /\ r.gen = ledger.generation /\ Freezable(ledger)
  BY DEF IInv, TypeOK, FreezeScope, Current
<1>3. /\ ledger' = n /\ UNCHANGED <<stored, lapsed>>
      /\ TellTo(r.id, n.receipts[r.id]) \/ UNCHANGED told
  BY <1>1 DEF FreezeScope, Accepted
<1>4. /\ IsLedger(n) /\ Logged(ledger, n, r.id, Result(r, ledger.generation + 1, NoClaim))
      /\ n.claimed = ledger.claimed /\ n.history = ledger.history
      /\ n.entries = ledger.entries /\ n.bindings = ledger.bindings /\ n.records = ledger.records
      /\ n.active = ledger.active
  BY <1>1, <1>2, FrozenFields
<1>5. PICK m : /\ m.receipts = n.receipts /\ m.history = ledger.history
              /\ n.inventory = Inventory(m, stored)
  BY <1>1, <1>2, FrozenFields
<1>6. ClaimsSound'
  BY <1>3, <1>4, AcceptedClaims
<1>7. HistorySound'
  BY <1>3, <1>4, HistoryKept DEF IInv
<1>8. TypeOK'
  BY <1>3, <1>4 DEF IInv, TypeOK
<1>9. FrozenIsComplete'
  <2>1. \A i \in DOMAIN n.receipts : <<"receipt", i>> \in n.inventory
    BY <1>5 DEF Inventory
  <2>2. \A root \in DOMAIN stored : /\ <<"checkpoint", stored[root]>> \in n.inventory
                                  /\ <<"root", root>> \in n.inventory
    <3> SUFFICES ASSUME NEW root \in DOMAIN stored
                 PROVE  /\ <<"checkpoint", stored[root]>> \in n.inventory
                        /\ <<"root", root>> \in n.inventory
      OBVIOUS
    <3>1. <<"checkpoint", stored[root]>> \in n.inventory
      BY <1>5 DEF Inventory
    <3>2. <<"root", root>> \in n.inventory
      BY <1>5 DEF Inventory
    <3> QED
      BY <3>1, <3>2
  <2>3. \A c \in ledger.history : <<"definition", c.definition>> \in n.inventory
    BY <1>5, InventoryFacts
  <2>4. \A c \in ledger.history : <<"root", c.root>> \in n.inventory
    BY <2>2 DEF IInv, HistorySound
  <2>5. ASSUME NEW x \in n.inventory, x[1] = "checkpoint"
        PROVE  x[2] \in ledger.history
    <3>1. PICK root \in DOMAIN stored : x = <<"checkpoint", stored[root]>>
      BY <2>5, <1>5, InventoryFacts
    <3> QED
      BY <3>1, <1>2 DEF Freezable
  <2> QED
    BY <2>1, <2>2, <2>3, <2>4, <2>5, <1>3, <1>4 DEF FrozenIsComplete
<1> QED
  BY <1>6, <1>7, <1>8, <1>9 DEF IInv

\* A work is claimed only while its record says that it never was.
LEMMA FenceStep ==
    ASSUME IInv, NEW p, NEW r, FenceWorker(p, r), fencing' = fencing
    PROVE  IInv'
<1>1. PICK n, claim : n = Fenced(ledger, r) /\ claim = ClaimOf(ledger, r)
  OBVIOUS
<1>2. /\ IsLedger(ledger) /\ Prior(ledger, r) = {} /\ ledger.state = "active"
      /\ r.gen = ledger.generation /\ fencing
      /\ r.work \in DOMAIN ledger.bindings /\ ledger.bindings[r.work] = r.binding
      /\ ledger.records[r.work] = [fence |-> ledger.entries[r.work], state |-> "unclaimed"]
  BY DEF IInv, TypeOK, FenceWorker, Current, Claimable, ExpectedFence, IsLedger
<1>3. /\ ledger' = n /\ UNCHANGED <<stored, lapsed>>
      /\ TellTo(r.id, n.receipts[r.id]) \/ UNCHANGED told
  BY <1>1 DEF FenceWorker, Accepted
<1>4. /\ IsLedger(n) /\ Logged(ledger, n, r.id, Result(r, ledger.generation + 1, claim))
      /\ n.state = ledger.state /\ n.history = ledger.history
      /\ n.claimed = ledger.claimed \cup {claim}
      /\ Holds(n, claim) /\ claim.work = r.work
      /\ \A c : c.work # r.work /\ Holds(ledger, c) => Holds(n, c)
  BY <1>1, <1>2, FencedFields
<1>5. \A c \in ledger.claimed : Holds(ledger, c) /\ c.work # r.work
  <2> SUFFICES ASSUME NEW c \in ledger.claimed
               PROVE  Holds(ledger, c) /\ c.work # r.work
    OBVIOUS
  <2>1. Holds(ledger, c)
    BY DEF IInv, ClaimsSound
  <2>2. ledger.records[c.work].state = "leased" /\ ledger.records[r.work].state = "unclaimed"
    BY <1>2, <2>1 DEF Holds
  <2> QED
    BY <2>1, <2>2
<1>6. n.receipts[r.id].claim = claim
  BY <1>4 DEF Logged, Result
<1>7. ClaimsSound'
  <2>1. \A c \in n.claimed : Holds(n, c)
    BY <1>4, <1>5
  <2>2. \A c, d \in n.claimed : c.work = d.work => c = d
    BY <1>4, <1>5 DEF IInv, ClaimsSound
  <2>3. \A i \in DOMAIN n.receipts : n.receipts[i].claim # NoClaim => n.receipts[i].claim \in n.claimed
    BY <1>4, <1>6 DEF Logged, IInv, ClaimsSound
  <2>4. \A j \in DOMAIN told' : \A x \in told'[j] : x.claim # NoClaim => x.claim \in n.claimed
    BY <1>3, <1>4, <1>6, ToldMore DEF IInv, ClaimsSound
  <2> QED
    BY <2>1, <2>2, <2>3, <2>4, <1>2, <1>3 DEF ClaimsSound
<1>8. HistorySound'
  BY <1>3, <1>4, HistoryKept DEF IInv
<1>9. FrozenIsComplete'
  BY <1>2, <1>3, <1>4 DEF FrozenIsComplete
<1>10. TypeOK'
  BY <1>3, <1>4 DEF IInv, TypeOK
<1> QED
  BY <1>7, <1>8, <1>9, <1>10 DEF IInv

\* The kept result of an operation carries a claim that was made, or none.
LEMMA ReplayStep ==
    ASSUME IInv, NEW r, Replay(r), fencing' = fencing
    PROVE  IInv'
<1>1. PICK i \in DOMAIN ledger.receipts : TellTo(r.id, ledger.receipts[i])
  BY DEF Replay, Prior
<1>2. UNCHANGED <<ledger, stored, lapsed>>
  BY DEF Replay
<1>3. \A j \in DOMAIN told' : \A x \in told'[j] :
         \/ x.claim = NoClaim \/ x.claim \in ledger.claimed
         \/ j \in DOMAIN told /\ x \in told[j]
  BY <1>1, ToldMore DEF IInv, ClaimsSound
<1>4. ClaimsSound'
  BY <1>2, <1>3, ClaimsKept DEF IInv
<1>5. HistorySound' /\ FrozenIsComplete' /\ TypeOK'
  BY <1>2 DEF IInv, HistorySound, FrozenIsComplete, TypeOK
<1> QED
  BY <1>4, <1>5 DEF IInv

\* A doubt and its end change the state of the ledger only.
LEMMA DoubtStep ==
    ASSUME IInv, fencing' = fencing, UNCHANGED <<stored, lapsed, told>>,
           NEW s \in {"active", "transaction_in_doubt"},
           ledger' = [ledger EXCEPT !.state = s]
    PROVE  IInv'
<1>1. PICK n : n = ledger'
  OBVIOUS
<1>2. IsLedger(ledger)
  BY DEF IInv, TypeOK
<1>3. n = [state |-> s, generation |-> ledger.generation, receipts |-> ledger.receipts,
           mutations |-> ledger.mutations, entries |-> ledger.entries, bindings |-> ledger.bindings,
           records |-> ledger.records, active |-> ledger.active, claimed |-> ledger.claimed,
           history |-> ledger.history, inventory |-> ledger.inventory]
  BY <1>1, <1>2 DEF IsLedger
<1>4. /\ n.state = s /\ n.generation = ledger.generation /\ n.receipts = ledger.receipts
      /\ n.mutations = ledger.mutations /\ n.entries = ledger.entries
      /\ n.bindings = ledger.bindings /\ n.records = ledger.records /\ n.active = ledger.active
      /\ n.claimed = ledger.claimed /\ n.history = ledger.history
      /\ n.inventory = ledger.inventory
  BY <1>3
<1>5. IsLedger(n)
  BY <1>2, <1>3, <1>4 DEF IsLedger
<1>6. \A c : Holds(ledger, c) => Holds(n, c)
  BY <1>4 DEF Holds
<1>7. ClaimsSound'
  BY <1>1, <1>4, <1>6, ClaimsKept DEF IInv
<1>8. HistorySound' /\ FrozenIsComplete' /\ TypeOK'
  BY <1>1, <1>4, <1>5 DEF IInv, HistorySound, FrozenIsComplete, TypeOK
<1> QED
  BY <1>7, <1>8 DEF IInv

\* The checkpoint that follows the stored one is ahead of all of the history.
LEMMA Ahead ==
    ASSUME TypeOK, HistorySound, NEW root, NEW definition, NEW c, c = Succeeding(root, definition)
    PROVE  /\ c.root = root /\ c.revision \in Nat /\ c \notin ledger.history
           /\ root \in DOMAIN stored => stored[root].revision < c.revision
<1>1. c.root = root /\ c.revision = IF root \in DOMAIN stored THEN stored[root].revision + 1 ELSE 0
  BY DEF Succeeding
<1>2. root \in DOMAIN stored => stored[root].revision \in Nat
  BY DEF TypeOK
<1> QED
  BY <1>1, <1>2 DEF HistorySound

\* The store commits the checkpoint with the ledger.
LEMMA StoreStep ==
    ASSUME IInv, NEW root, NEW definition, StoreTransaction(root, definition), fencing' = fencing
    PROVE  IInv'
<1>1. PICK c, r, m :
         /\ c = Succeeding(root, definition)
         /\ r = [op |-> "guarded_commit", id |-> CheckpointId(c), gen |-> ledger.generation,
                 mutation |-> c]
         /\ m = Guarded(ledger, r)
  OBVIOUS
<1>2. /\ ledger.state = "active" /\ Prior(ledger, r) = {}
      /\ ledger' = [m EXCEPT !.history = m.history \cup {c}]
      /\ stored' = Put(stored, root, c) /\ UNCHANGED <<lapsed, told>>
  BY <1>1 DEF StoreTransaction
<1>3. IsLedger(ledger)
  BY DEF IInv, TypeOK
<1>4. r.gen = ledger.generation
  BY <1>1
<1>5. /\ IsLedger(m) /\ Logged(ledger, m, r.id, Result(r, ledger.generation + 1, NoClaim))
      /\ m.state = ledger.state /\ m.entries = ledger.entries
      /\ m.bindings = ledger.bindings /\ m.records = ledger.records /\ m.active = ledger.active
      /\ m.claimed = ledger.claimed /\ m.history = ledger.history
  BY <1>1, <1>2, <1>3, <1>4, GuardedFields
<1>6. PICK n : n = ledger'
  OBVIOUS
<1>7. n = [state |-> m.state, generation |-> m.generation, receipts |-> m.receipts,
           mutations |-> m.mutations, entries |-> m.entries, bindings |-> m.bindings,
           records |-> m.records, active |-> m.active, claimed |-> m.claimed,
           history |-> m.history \cup {c}, inventory |-> m.inventory]
  BY <1>2, <1>5, <1>6 DEF IsLedger
<1>8. /\ n.state = m.state /\ n.generation = m.generation /\ n.receipts = m.receipts
      /\ n.mutations = m.mutations /\ n.entries = m.entries
      /\ n.bindings = m.bindings /\ n.records = m.records /\ n.active = m.active
      /\ n.claimed = m.claimed /\ n.history = m.history \cup {c} /\ n.inventory = m.inventory
  BY <1>7
<1>9. IsLedger(n)
  BY <1>5, <1>7, <1>8 DEF IsLedger
<1>10. Logged(ledger, n, r.id, Result(r, ledger.generation + 1, NoClaim))
  BY <1>5, <1>8 DEF Logged
<1>11. ClaimsSound'
  <2>1. \A i \in DOMAIN n.receipts :
           \/ n.receipts[i].claim = NoClaim
           \/ i \in DOMAIN ledger.receipts /\ n.receipts[i] = ledger.receipts[i]
    BY <1>10 DEF Logged, Result
  <2>2. \A d : Holds(ledger, d) => Holds(n, d)
    BY <1>5, <1>8 DEF Holds
  <2> QED
    BY <2>1, <2>2, <1>2, <1>5, <1>6, <1>8, ClaimsKept DEF IInv
<1>12. /\ DOMAIN stored' = {root} \cup DOMAIN stored /\ stored'[root] = c
       /\ \A x \in DOMAIN stored : x # root => stored'[x] = stored[x]
  BY <1>2 DEF Put
<1>13. /\ c.root = root /\ c.revision \in Nat
       /\ root \in DOMAIN stored => stored[root].revision < c.revision
  BY <1>1, Ahead DEF IInv
<1>14. \A x \in DOMAIN stored : stored[x].root = x /\ stored[x].revision \in Nat
  BY DEF IInv, TypeOK
<1>15. HistorySound'
  <2> SUFFICES ASSUME NEW d \in n.history
               PROVE  /\ d.root \in DOMAIN stored' /\ d.revision \in Nat
                      /\ d.revision <= stored'[d.root].revision
    BY <1>6 DEF HistorySound
  <2>1. CASE d = c
    BY <2>1, <1>12, <1>13
  <2>2. CASE d \in ledger.history
    <3>1. d.root \in DOMAIN stored /\ d.revision \in Nat /\ d.revision <= stored[d.root].revision
      BY <2>2 DEF IInv, HistorySound
    <3> QED
      BY <3>1, <1>12, <1>13, <1>14
  <2> QED
    BY <2>1, <2>2, <1>5, <1>8
<1>16. FrozenIsComplete'
  BY <1>2, <1>5, <1>6, <1>8 DEF FrozenIsComplete
<1>17. TypeOK'
  BY <1>6, <1>9, <1>12, <1>13, <1>14 DEF IInv, TypeOK
<1> QED
  BY <1>11, <1>15, <1>16, <1>17 DEF IInv

\* A store that knows no authority writes a checkpoint that is not of the history.
LEMMA PlainStep ==
    ASSUME IInv, NEW root, NEW definition, PlainTransaction(root, definition), fencing' = fencing
    PROVE  IInv'
<1>1. PICK c : c = Succeeding(root, definition)
  OBVIOUS
<1>2. stored' = Put(stored, root, c) /\ UNCHANGED <<ledger, lapsed, told>>
  BY <1>1 DEF PlainTransaction
<1>3. /\ DOMAIN stored' = {root} \cup DOMAIN stored /\ stored'[root] = c
      /\ \A x \in DOMAIN stored : x # root => stored'[x] = stored[x]
  BY <1>2 DEF Put
<1>4. /\ c.root = root /\ c.revision \in Nat /\ c \notin ledger.history
      /\ root \in DOMAIN stored => stored[root].revision < c.revision
  BY <1>1, Ahead DEF IInv
<1>5. \A x \in DOMAIN stored : stored[x].root = x /\ stored[x].revision \in Nat
  BY DEF IInv, TypeOK
<1>6. ClaimsSound'
  BY <1>2 DEF IInv, ClaimsSound
<1>7. HistorySound'
  <2> SUFFICES ASSUME NEW d \in ledger.history
               PROVE  /\ d.root \in DOMAIN stored' /\ d.revision \in Nat
                      /\ d.revision <= stored'[d.root].revision
    BY <1>2 DEF HistorySound
  <2>1. d.root \in DOMAIN stored /\ d.revision \in Nat /\ d.revision <= stored[d.root].revision
    BY DEF IInv, HistorySound
  <2> QED
    BY <2>1, <1>3, <1>4, <1>5
<1>8. FrozenIsComplete'
  BY <1>2, <1>3, <1>4 DEF IInv, FrozenIsComplete
<1>9. TypeOK'
  BY <1>2, <1>3, <1>4, <1>5 DEF IInv, TypeOK
<1> QED
  BY <1>6, <1>7, <1>8, <1>9 DEF IInv

-----------------------------------------------------------------------------
(* The invariant and what follows from it.                                 *)

\* An empty ledger over an empty store satisfies the invariant.
LEMMA InitIInv == Init => IInv
<1> SUFFICES ASSUME Init
             PROVE  IInv
  OBVIOUS
<1>1. PICK l : l = ledger
  OBVIOUS
<1>2. /\ l = [state |-> "active", generation |-> 0, receipts |-> <<>>,
              mutations |-> {}, entries |-> <<>>, bindings |-> <<>>,
              records |-> <<>>, active |-> {}, claimed |-> {},
              history |-> {}, inventory |-> {}]
      /\ fencing \in BOOLEAN /\ stored = <<>> /\ told = <<>>
  BY <1>1 DEF Init
<1>3. DOMAIN <<>> = {} /\ <<>> = [w \in DOMAIN <<>> |-> <<>>[w]]
  OBVIOUS
<1>4. /\ l.state = "active" /\ l.generation = 0 /\ l.receipts = <<>> /\ l.entries = <<>>
      /\ l.bindings = <<>> /\ l.records = <<>> /\ l.claimed = {} /\ l.history = {}
      /\ l = [state |-> l.state, generation |-> l.generation, receipts |-> l.receipts,
              mutations |-> l.mutations, entries |-> l.entries, bindings |-> l.bindings,
              records |-> l.records, active |-> l.active, claimed |-> l.claimed,
              history |-> l.history, inventory |-> l.inventory]
  BY <1>2
<1>5. IsLedger(l)
  BY <1>3, <1>4 DEF IsLedger
<1> QED
  BY <1>1, <1>2, <1>3, <1>4, <1>5 DEF IInv, TypeOK, ClaimsSound, HistorySound, FrozenIsComplete

\* Every step of the authority keeps the invariant.
LEMMA NextIInv == IInv /\ [Next]_vars => IInv'
<1> SUFFICES ASSUME IInv, [Next]_vars
             PROVE  IInv'
  OBVIOUS
<1>1. CASE UNCHANGED vars
  BY <1>1 DEF vars, IInv, TypeOK, ClaimsSound, HistorySound, FrozenIsComplete
<1>2. CASE Next
  <2>1. fencing' = fencing /\ Step
    BY <1>2 DEF Next
  <2>2. ASSUME NEW work \in Works, NEW binding \in Bindings, RegisterEffectWork(work, binding)
        PROVE  IInv'
    BY <2>1, <2>2, RegisterStep
  <2>3. ASSUME NEW r \in Requests, NEW p \in {Owner} \cup Workers, Perform(p, r)
        PROVE  IInv'
    BY <2>1, <2>3, GuardedStep, FreezeStep, FenceStep, ReplayStep DEF Perform
  <2>4. ASSUME NEW work \in Works, Lapse(work)
        PROVE  IInv'
    BY <2>1, <2>4 DEF Lapse, IInv, TypeOK, ClaimsSound, HistorySound, FrozenIsComplete
  <2>5. ASSUME MarkInDoubt \/ \E i \in OperationIds : ResolveRolledBack(i)
        PROVE  IInv'
    BY <2>1, <2>5, DoubtStep DEF MarkInDoubt, ResolveRolledBack
  <2>6. ASSUME NEW root \in Roots, NEW definition \in Definitions,
               StoreTransaction(root, definition) \/ PlainTransaction(root, definition)
        PROVE  IInv'
    BY <2>1, <2>6, StoreStep, PlainStep
  <2> QED
    BY <2>1, <2>2, <2>3, <2>4, <2>5, <2>6 DEF Step
<1> QED
  BY <1>1, <1>2

\* The inductive invariant of the authority holds in every state.
THEOREM Invariant == Spec => []IInv
  BY InitIInv, NextIInv, PTL DEF Spec

\* The inventory of a frozen scope is complete, and has no checkpoint the guard
\* did not see (_inventory, AuthoritySession.freeze_scope).
THEOREM FreezeAlwaysComplete == Spec => []FrozenIsComplete
<1>1. IInv => FrozenIsComplete
  BY DEF IInv
<1> QED
  BY <1>1, Invariant, PTL

\* A work is claimed once, and a claim its worker was told of holds until its lease
\* runs out (AuthoritySession.fence_worker, check_worker_claim).
THEOREM AlwaysOneClaim == Spec => []OneClaimPerWork
<1>1. IInv => OneClaimPerWork
  <2> SUFFICES ASSUME IInv
               PROVE  OneClaimPerWork
    OBVIOUS
  <2>1. ASSUME NEW c \in ledger.claimed, ledger.state = "active", c.work \notin lapsed
        PROVE  ClaimHolds(c)
    BY <2>1 DEF IInv, ClaimsSound, Holds, ClaimHolds
  <2> QED
    BY <2>1 DEF IInv, ClaimsSound, OneClaimPerWork
<1> QED
  BY <1>1, Invariant, PTL

-----------------------------------------------------------------------------
(* The ledger implements the log.                                          *)

Log == <<Position, Basis, ledger.generation, ledger.state = "frozen", Places>>

\* Operations of the log stand where they stood when no receipt of theirs changes.
LEMMA PlacesKept ==
    ASSUME \A i \in OperationIds :
              /\ i \in DOMAIN ledger'.receipts <=> i \in DOMAIN ledger.receipts
              /\ i \in DOMAIN ledger.receipts => ledger'.receipts[i] = ledger.receipts[i]
    PROVE  Position' = Position /\ Basis' = Basis
  BY DEF Position, Basis

\* What was not told anew is as it was told.
LEMMA AnswersKept ==
    ASSUME UNCHANGED told
    PROVE  Places' = Places
  BY DEF Places, Told

\* A result that is told is told with its place, to its caller and to nobody else.
LEMMA AnswersTold ==
    ASSUME NEW id, NEW result, TellTo(id, result)
    PROVE  Places' = [i \in OperationIds |->
                        IF i = id THEN Places[i] \cup {result.gen} ELSE Places[i]]
<1>1. told' = Put(told, id, Told(id) \cup {result})
  BY DEF TellTo
<1>2. /\ DOMAIN told' = {id} \cup DOMAIN told /\ told'[id] = Told(id) \cup {result}
      /\ \A j \in DOMAIN told : j # id => told'[j] = told[j]
  BY <1>1 DEF Put
<1>3. \A i : Told(i)' = IF i = id THEN Told(i) \cup {result} ELSE Told(i)
  BY <1>2 DEF Told
<1>4. \A i \in OperationIds : Places'[i] = {x.gen : x \in Told(i)'}
  BY DEF Places
<1>5. \A i \in OperationIds : Places[i] = {x.gen : x \in Told(i)}
  BY DEF Places
<1>6. \A i \in OperationIds :
         Places'[i] = IF i = id THEN Places[i] \cup {result.gen} ELSE Places[i]
  BY <1>3, <1>4, <1>5
<1>7. Places' = [i \in OperationIds |-> Places'[i]]
  BY DEF Places
<1> QED
  BY <1>6, <1>7

\* An operation whose caller chose its id is appended behind what the caller read.
LEMMA ListedPerforms ==
    ASSUME IInv, NEW id \in OperationIds, NEW result, ledger.state = "active",
           id \notin DOMAIN ledger.receipts, Logged(ledger, ledger', id, result),
           TellTo(id, ledger'.receipts[id]) \/ UNCHANGED told
    PROVE  Abstractly!Perform
<1>1. /\ ledger.generation \in Nat /\ ledger'.generation = ledger.generation + 1
      /\ result.gen = ledger.generation + 1 /\ result.request.gen = ledger.generation
  BY DEF IInv, TypeOK, IsLedger, Logged
<1>2. Position' = [Position EXCEPT ![id] = ledger'.generation]
  BY <1>1 DEF Position, Logged
<1>3. Basis' = [Basis EXCEPT ![id] = ledger.generation]
  BY <1>1 DEF Basis, Logged
<1>4. Position[id] = 0
  BY DEF Position
<1>5. Position'[id] = ledger'.generation /\ Position'[id] # 0
  BY <1>1 DEF Position, Logged
<1>6. /\ \A i \in OperationIds : Places'[i] \subseteq Places[i] \cup ({Position'[i]} \ {0})
      /\ \A i \in OperationIds : Places[i] \subseteq Places'[i]
  <2>1. CASE UNCHANGED told
    BY <2>1, AnswersKept
  <2>2. CASE TellTo(id, ledger'.receipts[id])
    <3>1. ledger'.receipts[id].gen = Position'[id]
      BY <1>1, <1>5 DEF Logged
    <3>2. \A i \in OperationIds :
             Places'[i] = IF i = id THEN Places[i] \cup {Position'[id]} ELSE Places[i]
      BY <2>2, <3>1, AnswersTold
    <3> QED
      BY <3>2, <1>5
  <2> QED
    BY <2>1, <2>2
<1> QED
  BY <1>1, <1>2, <1>3, <1>4, <1>6 DEF Abstractly!Perform

\* A change that is no operation of a caller only makes the log longer.
LEMMA UnlistedPerforms ==
    ASSUME ledger.state = "active", ledger'.state = "active",
           ledger'.generation = ledger.generation + 1, UNCHANGED told,
           \A i \in OperationIds :
              /\ i \in DOMAIN ledger'.receipts <=> i \in DOMAIN ledger.receipts
              /\ i \in DOMAIN ledger.receipts => ledger'.receipts[i] = ledger.receipts[i]
    PROVE  Abstractly!Perform
<1>1. Position' = Position /\ Basis' = Basis
  BY PlacesKept
<1>2. Places' = Places
  BY AnswersKept
<1> QED
  BY <1>1, <1>2 DEF Abstractly!Perform

\* Whatever else changes, the log is what it was.
LEMMA LogKept ==
    ASSUME ledger'.receipts = ledger.receipts, ledger'.generation = ledger.generation,
           (ledger'.state = "frozen") = (ledger.state = "frozen"), UNCHANGED told
    PROVE  UNCHANGED Log
<1>1. Position' = Position /\ Basis' = Basis
  BY PlacesKept
<1>2. Places' = Places
  BY AnswersKept
<1> QED
  BY <1>1, <1>2 DEF Log

\* An accepted request is appended to the log.
LEMMA RequestPerforms ==
    ASSUME IInv, NEW p, NEW r \in Requests,
           GuardedCommit(p, r) \/ FreezeScope(p, r) \/ FenceWorker(p, r)
    PROVE  Abstractly!Perform
<1>1. /\ IsLedger(ledger) /\ Prior(ledger, r) = {} /\ ledger.state = "active"
      /\ r.gen = ledger.generation
  BY DEF IInv, TypeOK, GuardedCommit, FreezeScope, FenceWorker, Current
<1>2. r.id \in OperationIds
  BY DEF Requests, GuardedCommits, Freezes, Fencings
<1>3. r.id \notin DOMAIN ledger.receipts
  BY <1>1 DEF Prior
<1>4. \E result : /\ Logged(ledger, ledger', r.id, result)
                  /\ TellTo(r.id, ledger'.receipts[r.id]) \/ UNCHANGED told
  <2>1. CASE GuardedCommit(p, r)
    <3>1. PICK n : n = Guarded(ledger, r)
      OBVIOUS
    <3>2. ledger' = n /\ (TellTo(r.id, n.receipts[r.id]) \/ UNCHANGED told)
      BY <2>1, <3>1 DEF GuardedCommit, Accepted
    <3> QED
      BY <1>1, <3>1, <3>2, GuardedFields
  <2>2. CASE FreezeScope(p, r)
    <3>1. PICK n : n = Frozen(ledger, r)
      OBVIOUS
    <3>2. ledger' = n /\ (TellTo(r.id, n.receipts[r.id]) \/ UNCHANGED told)
      BY <2>2, <3>1 DEF FreezeScope, Accepted
    <3> QED
      BY <1>1, <3>1, <3>2, FrozenFields
  <2>3. CASE FenceWorker(p, r)
    <3>1. PICK n : n = Fenced(ledger, r)
      OBVIOUS
    <3>2. ledger' = n /\ (TellTo(r.id, n.receipts[r.id]) \/ UNCHANGED told)
      BY <2>3, <3>1 DEF FenceWorker, Accepted
    <3>3. r.work \in DOMAIN ledger.bindings /\ ledger.bindings[r.work] = r.binding
      BY <1>1, <2>3 DEF FenceWorker, Claimable, ExpectedFence, IsLedger
    <3> QED
      BY <1>1, <3>1, <3>2, <3>3, FencedFields
  <2> QED
    BY <2>1, <2>2, <2>3
<1> QED
  BY <1>1, <1>2, <1>3, <1>4, ListedPerforms

\* The kept result has the place of the operation in the log.
LEMMA ReplayAnswers ==
    ASSUME IInv, NEW r \in Requests, Replay(r)
    PROVE  Abstractly!Answer
<1>1. /\ r.id \in DOMAIN ledger.receipts /\ TellTo(r.id, ledger.receipts[r.id])
      /\ ledger' = ledger
  BY DEF Replay, Prior
<1>2. r.id \in OperationIds
  BY DEF Requests, GuardedCommits, Freezes, Fencings
<1>3. Position[r.id] = ledger.receipts[r.id].gen /\ Position[r.id] # 0
  BY <1>1, <1>2 DEF Position, IInv, TypeOK, IsLedger
<1>4. Places' = [i \in OperationIds |->
                   IF i = r.id THEN Places[i] \cup {Position[r.id]} ELSE Places[i]]
  BY <1>1, <1>3, AnswersTold
<1>5. Places = [i \in OperationIds |-> Places[i]]
  BY DEF Places
<1>6. Places' = [Places EXCEPT ![r.id] = Places[r.id] \cup {Position[r.id]}]
  BY <1>4, <1>5
<1>7. Position' = Position /\ Basis' = Basis
  BY <1>1, PlacesKept
<1> QED
  BY <1>1, <1>2, <1>3, <1>6, <1>7 DEF Abstractly!Answer

\* A commit of the store is an operation of the log, under an id a caller may
\* choose too or under one of its own.
LEMMA StorePerforms ==
    ASSUME IInv, NEW root, NEW definition, StoreTransaction(root, definition)
    PROVE  Abstractly!Perform
<1>1. PICK c, r, m :
         /\ c = Succeeding(root, definition)
         /\ r = [op |-> "guarded_commit", id |-> CheckpointId(c), gen |-> ledger.generation,
                 mutation |-> c]
         /\ m = Guarded(ledger, r)
  OBVIOUS
<1>2. /\ ledger.state = "active" /\ Prior(ledger, r) = {}
      /\ ledger' = [m EXCEPT !.history = m.history \cup {c}] /\ UNCHANGED told
  BY <1>1 DEF StoreTransaction
<1>3. IsLedger(ledger) /\ r.gen = ledger.generation
  BY <1>1 DEF IInv, TypeOK
<1>4. PICK result : result = Result(r, ledger.generation + 1, NoClaim)
  OBVIOUS
<1>5. IsLedger(m) /\ Logged(ledger, m, r.id, result) /\ m.state = ledger.state
  BY <1>1, <1>2, <1>3, <1>4, GuardedFields
<1>6. ledger'.receipts = m.receipts /\ ledger'.generation = m.generation /\ ledger'.state = m.state
  BY <1>2, <1>5 DEF IsLedger
<1>7. Logged(ledger, ledger', r.id, result)
  BY <1>5, <1>6 DEF Logged
<1>8. r.id \notin DOMAIN ledger.receipts
  BY <1>2 DEF Prior
<1>9. CASE r.id \in OperationIds
  BY <1>2, <1>7, <1>8, <1>9, ListedPerforms
<1>10. CASE r.id \notin OperationIds
  <2>1. \A i \in OperationIds :
           /\ i \in DOMAIN ledger'.receipts <=> i \in DOMAIN ledger.receipts
           /\ i \in DOMAIN ledger.receipts => ledger'.receipts[i] = ledger.receipts[i]
    BY <1>7, <1>10 DEF Logged
  <2>2. ledger'.generation = ledger.generation + 1
    BY <1>7 DEF Logged
  <2> QED
    BY <2>1, <2>2, <1>2, <1>5, <1>6, UnlistedPerforms
<1> QED
  BY <1>9, <1>10

\* A registration counts as a change of the scope, and is nobody's operation.
LEMMA RegisterPerforms ==
    ASSUME IInv, NEW work, NEW binding, RegisterEffectWork(work, binding)
    PROVE  Abstractly!Perform
<1>1. /\ ledger.state = "active" /\ UNCHANGED told
      /\ ledger'.state = ledger.state /\ ledger'.receipts = ledger.receipts
      /\ ledger'.generation = ledger.generation + 1
  BY DEF RegisterEffectWork, IInv, TypeOK, IsLedger
<1> QED
  BY <1>1, UnlistedPerforms

\* The empty ledger is the empty log.
LEMMA InitLog == Init => Abstractly!Init
<1> SUFFICES ASSUME Init
             PROVE  Abstractly!Init
  OBVIOUS
<1>1. /\ ledger.receipts = <<>> /\ ledger.generation = 0 /\ ledger.state = "active"
      /\ told = <<>>
  BY DEF Init
<1>2. \A i : i \notin DOMAIN ledger.receipts /\ i \notin DOMAIN told
  BY <1>1
<1>3. Position = [i \in OperationIds |-> 0] /\ Basis = [i \in OperationIds |-> 0]
  BY <1>2 DEF Position, Basis
<1>4. Places = [i \in OperationIds |-> {}]
  BY <1>2 DEF Places, Told
<1> QED
  BY <1>1, <1>3, <1>4 DEF Abstractly!Init

\* Every step of the ledger is one of the log or leaves it as it is.
LEMMA NextLog ==
    ASSUME IInv, [Next]_vars
    PROVE  Abstractly!Perform \/ Abstractly!Answer \/ UNCHANGED Log
<1>1. CASE UNCHANGED vars
  BY <1>1, LogKept DEF vars
<1>2. CASE Next
  <2>1. ASSUME NEW work \in Works, NEW binding \in Bindings, RegisterEffectWork(work, binding)
        PROVE  Abstractly!Perform
    BY <2>1, RegisterPerforms
  <2>2. ASSUME NEW r \in Requests, NEW p \in {Owner} \cup Workers, Perform(p, r)
        PROVE  Abstractly!Perform \/ Abstractly!Answer
    BY <2>2, RequestPerforms, ReplayAnswers DEF Perform
  <2>3. ASSUME NEW work \in Works, Lapse(work)
        PROVE  UNCHANGED Log
    BY <2>3, LogKept DEF Lapse
  <2>4. ASSUME MarkInDoubt \/ \E i \in OperationIds : ResolveRolledBack(i)
        PROVE  UNCHANGED Log
    <3>1. /\ ledger'.receipts = ledger.receipts /\ ledger'.generation = ledger.generation
          /\ ledger'.state # "frozen" /\ ledger.state # "frozen" /\ UNCHANGED told
      BY <2>4 DEF MarkInDoubt, ResolveRolledBack, IInv, TypeOK, IsLedger
    <3> QED
      BY <3>1, LogKept
  <2>5. ASSUME NEW root \in Roots, NEW definition \in Definitions,
               StoreTransaction(root, definition)
        PROVE  Abstractly!Perform
    BY <2>5, StorePerforms
  <2>6. ASSUME NEW root \in Roots, NEW definition \in Definitions,
               PlainTransaction(root, definition)
        PROVE  UNCHANGED Log
    BY <2>6, LogKept DEF PlainTransaction
  <2> QED
    BY <1>2, <2>1, <2>2, <2>3, <2>4, <2>5, <2>6 DEF Next, Step
<1> QED
  BY <1>1, <1>2

\* The ledger implements the log: lost answers, repeated and reordered requests,
\* doubts and stores beside the guard change nothing of where operations stand.
THEOREM LedgerImplementsScopeLog == Spec => ImplementsScopeLog
<1>1. IInv /\ [Next]_vars => [Abstractly!Perform \/ Abstractly!Answer]_Log
  BY NextLog
<1> QED
  BY <1>1, InitLog, Invariant, PTL DEF Spec, ImplementsScopeLog, Abstractly!Spec, Log
=============================================================================
