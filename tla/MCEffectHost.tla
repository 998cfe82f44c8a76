---------------------------- MODULE MCEffectHost ----------------------------
(* Instances of EffectHost for TLC.                                        *)
EXTENDS EffectHost, TLC

CONSTANTS i1, i2,       \* event ids of the queued deliveries
          w1, w2,       \* workers
          o1, o2,       \* operation ids
          system

OneRuntime == {0}
KindBodies == {"invoke", "failure", "succeeded", "domain_rejected", "cancelled"}
ToRoot == [b \in KindBodies |-> 0]
OnlyReports == [b \in {"failure"} |-> system]

\* A root and its child, which the caller asks to answer the root.
TwoRuntimes == {0, 1}
TalkBodies == {"invoke", "ask", "reply", "failure", "succeeded", "cancelled"}
TalkTarget == [b \in TalkBodies |-> IF b = "ask" THEN 1 ELSE 0]
Talk == [b \in {"reply", "failure"} |-> IF b = "reply" THEN 1 ELSE system]

ResultIds(events) == events \cup {<<"result", e, k>> : e \in 0 .. 9,
                                   k \in {"succeeded", "domain_rejected", "cancelled"}}
OneInput == ResultIds({i1})
TwoInputs == ResultIds({i1, i2})

\* Which id was queued first plays no part: i1 before i2.
OrderedInit ==
    Init /\ DOMAIN doc.cp.mail = {i1, i2} /\ doc.cp.mail[i1].acc < doc.cp.mail[i2].acc

InOrder == OrderedInit /\ [][Next]_vars /\ WF_vars(Recover)

Symmetry == Permutations({w1, w2}) \cup Permutations({o1, o2})
=============================================================================
