---------------------------- MODULE ScoredRunner ----------------------------
(***************************************************************************)
(* The audited runner with its rows scored as they are written, so that the *)
(* scorecard of `recoup metrics`, which has the rows and the final records, *)
(* can be held against what the run did.                                    *)
(***************************************************************************)
EXTENDS AuditedRunner, Metrics

VARIABLE score   \* what compute_arm_metrics counts in the rows written so far

scoredVars == <<auditVars, score>>

ScoredInit == AuditInit /\ score = NoScore

ScoredNext == AuditNext /\ score' = ScoreRow(score, row')

ScoredSpec == ScoredInit /\ [][ScoredNext]_scoredVars

(* The contacts and links the scorecard counts in the rows are those the    *)
(* contact ledgers of the records hold, the links are those the engine      *)
(* counted against its budget, and only a record some row stopped is        *)
(* written off: a contact that is made and not logged, or logged and     *)
(* not made, would show an arm cheaper or dearer than it was.               *)
ScoreIsTheLedgers ==
    /\ score.contacts = SumFunction([i \in Invoices |-> Len(accounts[i].attempts)])
    /\ score.links = SumFunction([i \in Invoices |-> accounts[i].links])
    /\ HasPolicy => engine.linksUsed = score.links
    /\ WrittenOff(accounts) \subseteq score.stopped

(* payer_human_queue is told from the run's own escalations by the record's *)
(* id alone.  That is the difference report.py defines, a final HUMAN_QUEUE *)
(* record not placed there by an ESCALATE_HUMAN decision, because a record  *)
(* a payer's answer has queued is never escalated later, nor the other way  *)
(* about.                                                                   *)
QueueIsAttributed ==
    [][\A i \in Invoices : accounts'[i].state = "HUMAN_QUEUE" =>
           IF accounts[i].state = "HUMAN_QUEUE"
           THEN i \in PayerHumanQueue(accounts', score')
                    <=> i \in PayerHumanQueue(accounts, score)
           ELSE i \in PayerHumanQueue(accounts', score') <=> row'.kind = "OUTCOME"]_scoredVars
=============================================================================
