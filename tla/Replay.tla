------------------------------- MODULE Replay -------------------------------
(***************************************************************************)
(* recoup.audit: the rows a run leaves and the ledger they rebuild.  Replay *)
(* goes through the ledger's own writers, from the opening book and the     *)
(* rows alone.                                                              *)
(*                                                                         *)
(* A row is a record of kind DECISION or OUTCOME; INTAKE rows and the rows  *)
(* the runner has not written yet change nothing.  The hash chain is ideal: *)
(* what is appended to a chain verifies, and so does every prefix of it.    *)
(***************************************************************************)
EXTENDS Ledger, SequencesExt

\* What a row of a log says: a decision on a record, or an outcome, whose
\* promise, if it is one, resolves on the tick it was made.
LogRows(invoices) ==
    [kind: {"DECISION"}, record: invoices, tick: Nat, intervention: Interventions,
     executed: BOOLEAN, defer: Nat \cup {NoTick}]
    \cup {r \in [kind: {"OUTCOME"}, record: invoices, tick: Nat, outcome: Outcomes] :
            r.outcome.kind = "PROMISED" =>
                /\ r.outcome.phrase \in Phrases
                /\ Resolve[r.outcome.phrase][r.tick] \in Nat \cup {NoTick}}

\* _apply_decision: a vetoed proposal spends a review slot and nothing else.
ReplayDecision(a, r) ==
    IF r.executed
    THEN [RecordAction(a, r.intervention, r.tick) EXCEPT
              !.nextReview = NextReview(r.intervention, r.tick, r.defer)]
    ELSE RecordVeto(a, r.intervention, r.tick, r.defer)

\* Mutant: a promise is replayed as any other outcome.
ReplayOutcomeUnresolved(amount, a, r) == RecordOutcome(amount, a, r.outcome, r.tick)

\* _apply_outcome: the row carries the phrase, the due tick is computed again.
ReplayOutcome(amount, a, r) == ApplyOutcome(amount, a, r.outcome, r.tick)

\* One row onto a book, a function from invoices to accounts.
ReplayRow(amounts, book, r) ==
    CASE r.kind = "DECISION" ->
            [book EXCEPT ![r.record] = ReplayDecision(@, r)]
      [] r.kind = "OUTCOME" ->
            [book EXCEPT ![r.record] = ReplayOutcome(amounts[r.record], @, r)]
      [] OTHER -> book

OpeningBook(invoices) == [i \in invoices |-> OpeningAccount]

\* replay: the whole log, from the opening book.
ReplayLog(amounts, rows) ==
    FoldLeft(LAMBDA book, r : ReplayRow(amounts, book, r),
             OpeningBook(DOMAIN amounts), rows)
=============================================================================
