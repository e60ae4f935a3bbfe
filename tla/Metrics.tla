------------------------------- MODULE Metrics -------------------------------
(***************************************************************************)
(* recoup.metrics.compute: the scorecard of one arm, from its final records *)
(* and its rows alone.  What the rows count is kept as a tally that each    *)
(* row is added to; what the records count is read at the end.              *)
(***************************************************************************)
EXTENDS Ledger

NoScore == [contacts |-> 0, links |-> 0, escalated |-> {}, stopped |-> {}]

\* Mutant: a proposal the policy vetoed is scored as if it were made.
ScoreVetoesToo(score, r) ==
    IF r.kind # "DECISION" THEN score
    ELSE [score EXCEPT !.contacts = @ + IF IsContact(r.intervention) THEN 1 ELSE 0]

\* The mark a row leaves on the tally; a vetoed decision leaves none.
ScoreRow(score, r) ==
    IF r.kind # "DECISION" \/ ~r.executed THEN score
    ELSE [contacts |-> score.contacts + IF IsContact(r.intervention) THEN 1 ELSE 0,
          links |-> score.links + ApiUnits(r.intervention),
          escalated |-> score.escalated
                            \cup IF r.intervention = "ESCALATE_HUMAN" THEN {r.record} ELSE {},
          stopped |-> score.stopped \cup IF r.intervention = "STOP" THEN {r.record} ELSE {}]

In(records, states) == {i \in DOMAIN records : records[i].state \in states}

\* payer_human_queue and written_off_records, as the records counted.
PayerHumanQueue(records, score) == In(records, {"HUMAN_QUEUE"}) \ score.escalated
WrittenOff(records) == In(records, {"WRITTEN_OFF"})
=============================================================================
