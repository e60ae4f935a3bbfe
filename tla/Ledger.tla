------------------------------- MODULE Ledger -------------------------------
(***************************************************************************)
(* recoup.ledger.ledger: the state machine of one receivable and the only   *)
(* operations that write one.  An account is the part of an Invoice the     *)
(* ledger may change; who owes it, how much and the text on it are          *)
(* constants of the modules above.                                          *)
(*                                                                         *)
(* Everything here is a function of an account, so that the runner and the  *)
(* replay apply the same machine to their own copy, as the source does.     *)
(***************************************************************************)
EXTENDS Interventions, Sequences, FiniteSets

CONSTANTS
    Phrases,   \* the promise phrases payers use
    Resolve    \* Resolve[p][t]: the deadline phrase p names when read at tick t

NoTick == -1           \* Python's None for a tick
NoPhrase == "none"

TerminalStates == {"PAID", "WRITTEN_OFF"}
UnattendedStates == {"HUMAN_QUEUE"}

AllowedTransitions ==
    [s \in RecordStates |->
        CASE s = "AT_RISK" -> RecordStates \ {"WRITTEN_OFF"}
          [] s \in {"CONTACTED", "PROMISED"} -> RecordStates \ {"AT_RISK", "WRITTEN_OFF"}
          [] s = "DISPUTED" -> {"DISPUTED", "HUMAN_QUEUE", "PAID", "WRITTEN_OFF"}
          [] s = "HUMAN_QUEUE" -> {"HUMAN_QUEUE", "DISPUTED", "PAID", "WRITTEN_OFF"}
          [] s = "EXHAUSTED" -> {"EXHAUSTED", "DISPUTED", "HUMAN_QUEUE", "PAID", "WRITTEN_OFF"}
          [] OTHER -> {}]

IsTerminal(s) == s \in TerminalStates

Legal(current, target) ==
    IF target \in AllowedTransitions[current] THEN target ELSE current

StateAfterAction(current, i) ==
    CASE IsTerminal(current) -> current
      [] i = "ESCALATE_HUMAN" -> Legal(current, "HUMAN_QUEUE")
      [] i = "STOP" -> Legal(current, "EXHAUSTED")
      [] IsContact(i) /\ current = "AT_RISK" -> Legal(current, "CONTACTED")
      [] OTHER -> current

\* Mutant: a broken promise sends any record back to the chase.
StateAfterAnyBrokenPromise(current, kind) ==
    CASE IsTerminal(current) -> current
      [] kind = "PAID_FULL" -> Legal(current, "PAID")
      [] kind = "PROMISED" -> Legal(current, "PROMISED")
      [] kind = "DISPUTE_RAISED" -> Legal(current, "DISPUTED")
      [] kind \in {"COMPLAINT", "ESCALATED"} -> Legal(current, "HUMAN_QUEUE")
      [] kind = "PROMISE_BROKEN" -> "CONTACTED"
      [] kind = "REPLIED" /\ current = "AT_RISK" -> "CONTACTED"
      [] kind = "WRITTEN_OFF" -> Legal(current, "WRITTEN_OFF")
      [] OTHER -> current

StateAfterOutcome(current, kind) ==
    CASE IsTerminal(current) -> current
      [] kind = "PAID_FULL" -> Legal(current, "PAID")
      [] kind = "PROMISED" -> Legal(current, "PROMISED")
      [] kind = "DISPUTE_RAISED" -> Legal(current, "DISPUTED")
      [] kind \in {"COMPLAINT", "ESCALATED"} -> Legal(current, "HUMAN_QUEUE")
      [] kind = "PROMISE_BROKEN" /\ current = "PROMISED" -> "CONTACTED"
      [] kind = "REPLIED" /\ current = "AT_RISK" -> "CONTACTED"
      [] kind = "WRITTEN_OFF" -> Legal(current, "WRITTEN_OFF")
      [] OTHER -> current

-----------------------------------------------------------------------------
(* Accounts.                                                                *)

OpeningAccount ==
    [state |-> "AT_RISK", nextReview |-> 0, recovered |-> 0, phrase |-> NoPhrase,
     due |-> NoTick, resolved |-> NoTick, attempts |-> << >>, links |-> 0]

Accounts ==
    [state: RecordStates, nextReview: Nat, recovered: Nat,
     phrase: Phrases \cup {NoPhrase}, due: Nat \cup {NoTick},
     resolved: Nat \cup {NoTick}, attempts: Seq(Nat), links: Nat]

Outstanding(amount, a) == IF a.recovered < amount THEN amount - a.recovered ELSE 0

\* Mutant: the resolution tick is stamped on every move, not on the last.
TransitionStampingAlways(a, target, t) ==
    [a EXCEPT !.state = target, !.resolved = IF target # a.state THEN t ELSE @]

\* The only place a state is assigned.  The derivations above are filtered
\* by the transition table, so the IllegalTransition branch is not reached:
\* that is the lemma MovesAreLegal of LedgerProofs.
Transition(a, target, t) ==
    [a EXCEPT !.state = target,
              !.resolved = IF target # a.state /\ IsTerminal(target) /\ @ = NoTick
                           THEN t ELSE @]

\* Mutants: a missing override is stored as it is; a deferral is ignored.
NextReviewUnchecked(i, t, override) == override
NextReviewOnCadence(i, t, override) == t + ReviewTicks(i)

NextReview(i, t, override) == IF override # NoTick THEN override ELSE t + ReviewTicks(i)

\* record_action with executed=False: the review slot is spent, nothing else.
RecordVeto(a, i, t, override) ==
    [a EXCEPT !.nextReview = NextReview(i, t, override)]

\* Mutant: only a message is noted as a contact.
RecordActionOfMessages(a, i, t) ==
    [Transition(a, StateAfterAction(a.state, i), t) EXCEPT
        !.attempts = IF i \in {"SOFT_REMINDER", "PAYMENT_LINK"} THEN Append(@, t) ELSE @,
        !.links = @ + ApiUnits(i),
        !.nextReview = NextReview(i, t, NoTick)]

\* record_action with executed=True.
RecordAction(a, i, t) ==
    [Transition(a, StateAfterAction(a.state, i), t) EXCEPT
        !.attempts = IF IsContact(i) THEN Append(@, t) ELSE @,
        !.links = @ + ApiUnits(i),
        !.nextReview = NextReview(i, t, NoTick)]

Outcomes ==
    [kind: OutcomeKinds, amount: Nat, phrase: Phrases \cup {NoPhrase}]

RecordOutcome(amount, a, o, t) ==
    LET credited == IF a.recovered + o.amount < amount
                    THEN a.recovered + o.amount ELSE amount
        booked == [a EXCEPT
            !.recovered = IF o.kind \in {"PAID_FULL", "PAID_PARTIAL"} THEN credited ELSE @,
            !.phrase = IF o.kind = "PROMISE_BROKEN" THEN NoPhrase ELSE @,
            !.due = IF o.kind = "PROMISE_BROKEN" THEN NoTick ELSE @]
    IN  Transition(booked, StateAfterOutcome(a.state, o.kind), t)

\* The phrase is always recorded; the state moves only for a phrase that
\* names a date, and only where the table allows it.
SetPromise(a, p, due, t) ==
    LET noted == [a EXCEPT !.phrase = p, !.due = due]
    IN  IF due # NoTick /\ "PROMISED" \in AllowedTransitions[a.state]
        THEN Transition(noted, "PROMISED", t) ELSE noted

\* _apply_outcome: a promise goes through the clock, the rest through
\* record_outcome.
ApplyOutcome(amount, a, o, t) ==
    IF o.kind = "PROMISED" THEN SetPromise(a, o.phrase, Resolve[o.phrase][t], t)
    ELSE RecordOutcome(amount, a, o, t)

-----------------------------------------------------------------------------
(* Readings of a whole ledger, a function from invoices to accounts.        *)

Active(ledger) == {i \in DOMAIN ledger : ~IsTerminal(ledger[i].state)}

\* Mutant: the cadence gate is left out.
DueAnytime(ledger, t) ==
    {i \in Active(ledger) : ledger[i].state \notin UnattendedStates}

\* Mutant: a case a person holds comes up again like any other.
DueWhoeverHoldsIt(ledger, t) ==
    {i \in Active(ledger) :
        t >= ledger[i].nextReview \/ ledger[i].state \in UnattendedStates}

DueForReview(ledger, t) ==
    {i \in Active(ledger) :
        t >= ledger[i].nextReview /\ ledger[i].state \notin UnattendedStates}

AwaitingWriteOff(ledger) == {i \in DOMAIN ledger : ledger[i].state = "EXHAUSTED"}

\* Every contact to a payer at or after t, on any of its invoices, as
\* <<invoice, position>>: contacts of one tick on two invoices count twice.
ContactsSince(ledger, invoices, t) ==
    UNION {{<<i, k>> : k \in {n \in DOMAIN ledger[i].attempts :
                                  ledger[i].attempts[n] >= t}} : i \in invoices}

PayerContactTicks(ledger, invoices) ==
    UNION {{ledger[i].attempts[k] : k \in DOMAIN ledger[i].attempts} : i \in invoices}

PayerContactsSince(ledger, invoices, t) == Cardinality(ContactsSince(ledger, invoices, t))
=============================================================================
