----------------------------- MODULE OfflineArms -----------------------------
(***************************************************************************)
(* The two arms that go through the policy gate and ask no model: the       *)
(* chaser of recoup.baseline with a gate, and the agent on the fallback of  *)
(* recoup.reasoner (DeterministicFallback, DeterministicBatchFallback),     *)
(* which is what runs when the model cannot be reached.  Both are the       *)
(* runner with its proposals fixed, so whatever holds of an agent that may  *)
(* propose anything holds of them.                                          *)
(***************************************************************************)
EXTENDS RunnerProperties

CONSTANTS
    DueDay,               \* due_on of each invoice, a virtual date
    LadderAttempts,       \* reasoner.fallback.MAX_ATTEMPTS
    MinCandidateRecords,  \* MIN_CANDIDATE_RECORDS
    MinCandidatePayers,   \* MIN_CANDIDATE_PAYERS
    GroupOrder            \* the group ids as a sequence, in their own order

ASSUME OfflineAssumption ==
    /\ Arm = "AGENT"
    /\ {NoDraft, "S"} \subseteq Drafts
    /\ DueDay \in [Invoices -> Int]
    /\ LadderAttempts \in Nat /\ MinCandidateRecords \in Nat /\ MinCandidatePayers \in Nat
    /\ GroupOrder \in Seq({Group[i] : i \in Invoices})

VARIABLE arm   \* which of the two arms this run is

offlineVars == <<vars, arm>>

DaysOverdue(i) == VirtualDate(tick) - DueDay[i]

-----------------------------------------------------------------------------
(* DeterministicFallback.propose: the structured facts, no free text.       *)

\* Mutant: the ladder stops one contact early.
RungShort(made) ==
    CASE made = 0 -> "SOFT_REMINDER"
      [] made \in 1 .. 2 -> "PAYMENT_LINK"
      [] made = 3 -> "PHONE_FOLLOWUP"
      [] OTHER -> "STOP"

Rung(made) ==
    CASE made = 0 -> "SOFT_REMINDER"
      [] made \in 1 .. 2 -> "PAYMENT_LINK"
      [] made = 3 -> "PHONE_FOLLOWUP"
      [] made > 3 /\ made = LadderAttempts - 2 -> "SOFT_REMINDER"
      [] OTHER -> "STOP"

FallbackChoice(i) ==
    IF DaysOverdue(i) < 0 \/ accounts[i].state = "PROMISED" THEN "WAIT"
    ELSE Rung(Len(accounts[i].attempts))

\* _draft: the two written contacts carry a service message.
FallbackDraft(intervention) ==
    IF intervention \in {"SOFT_REMINDER", "PAYMENT_LINK"} THEN "S" ELSE NoDraft

FallbackProposal(i) ==
    [intervention |-> FallbackChoice(i), draft |-> FallbackDraft(FallbackChoice(i))]

FixedProposal(i) ==
    IF arm = "AGENT" THEN FallbackProposal(i)
    ELSE [intervention |-> NaiveChoice(accounts[i]), draft |-> NoDraft]

-----------------------------------------------------------------------------
(* DeterministicBatchFallback.analyze.                                      *)

OpenMembers(g) == {i \in Invoices : Group[i] = g /\ Open(i) > 0}

\* Positions in GroupOrder of the groups wide enough to name.
Candidates ==
    {k \in DOMAIN GroupOrder :
        /\ Cardinality(OpenMembers(GroupOrder[k])) >= MinCandidateRecords
        /\ Cardinality({Payer[i] : i \in OpenMembers(GroupOrder[k])}) >= MinCandidatePayers}

\* The most records, ties by group id.
Named(k) ==
    /\ k \in Candidates
    /\ \A j \in Candidates \ {k} :
        LET mine == Cardinality(OpenMembers(GroupOrder[k]))
            other == Cardinality(OpenMembers(GroupOrder[j]))
        IN  mine > other \/ (mine = other /\ k < j)

\* The insight goes through adjudicate_batch and arms the engine like any
\* other; only the agent has a batch reasoner.
ArmedByFallback ==
    {i \in Invoices :
        /\ arm = "AGENT"
        /\ \E k \in Candidates :
            /\ Named(k) /\ i \in OpenMembers(GroupOrder[k])
            /\ SuppressionApproved(GroupOrder[k], OpenMembers(GroupOrder[k]))}

-----------------------------------------------------------------------------

OpenOfflineRun ==
    /\ phase = "open"
    /\ engine' = [engine EXCEPT !.suppressed = ArmedByFallback]
    /\ phase' = "land"
    /\ row' = NoRow
    /\ UNCHANGED <<tick, todo, accounts, pending>>

OfflineReview(i) ==
    /\ phase = "decide" /\ Visit(i)
    /\ LET v == Decision(i, FixedProposal(i)) IN ReviewVetoed(i, v) \/ ReviewExecuted(i, v)

OfflineInit == Init /\ arm \in {"AGENT", "POLICY_BASELINE"}

OfflineNext ==
    /\ UNCHANGED arm
    /\ \/ OpenOfflineRun
       \/ \E p \in pending : LandResponse(p) \/ DropResponse(p)
       \/ StartPromises
       \/ \E i \in Invoices : ResolvePromise(i) \/ PassPromise(i)
       \/ StartSpontaneous
       \/ \E i \in Invoices : SettleSpontaneously(i) \/ StayQuiet(i)
       \/ StartReviews
       \/ \E i \in Invoices : OfflineReview(i)
       \/ Advance
       \/ \E i \in Invoices : WriteOff(i)
       \/ CloseRun
       \/ Closed

OfflineSpec == OfflineInit /\ [][OfflineNext]_offlineVars

-----------------------------------------------------------------------------
(* Properties, at the source's own constants.                               *)

\* docs/BUILD-LOG.md, "Zero write-offs": both arms end mid-ladder, so that
\* nothing is given up, or written off, in a run of 28 days.  The fifth contact
\* STOP waits for never comes: the payer's allowance is four in 30 days.
NothingGivenUp == \A i \in Invoices : accounts[i].state \notin {"EXHAUSTED", "WRITTEN_OFF"}

\* A record is put off by more than the longest cadence only when its payer
\* has had the whole allowance of contacts: hours, spacing and the windows
\* only ever move a contact within the chase, whichever of them come together.
PutOffOnlyWhenSpent ==
    \A i \in Invoices \ engine.suppressed :
        /\ accounts[i].state \in {"AT_RISK", "CONTACTED", "PROMISED"}
        /\ Cardinality({c \in Contacts : Payer[c[1]] = Payer[i]}) < MaxContacts
        => accounts[i].nextReview <= tick + PhoneReview
=============================================================================
