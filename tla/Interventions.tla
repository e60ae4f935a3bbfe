---------------------------- MODULE Interventions ----------------------------
(***************************************************************************)
(* The closed enums of recoup.domain and the cost table every intervention  *)
(* appears in exactly once.  The cadences are CONSTANTS: the source's       *)
(* values are 8 (WAIT), 12 (SOFT_REMINDER and PAYMENT_LINK), 18             *)
(* (PHONE_FOLLOWUP) and 10^9 (ESCALATE_HUMAN and STOP).                     *)
(***************************************************************************)
EXTENDS Integers

CONSTANTS
    WaitReview,     \* ticks before a held record is looked at again
    MessageReview,  \* ticks after a reminder or a payment link
    PhoneReview,    \* ticks after a phone call
    ReviewNever     \* REVIEW_NEVER: a review tick no run reaches

ASSUME CadenceAssumption ==
    /\ WaitReview \in Nat \ {0}
    /\ MessageReview \in Nat \ {0}
    /\ PhoneReview \in Nat \ {0}
    /\ ReviewNever \in Nat \ {0}

RecordStates == {"AT_RISK", "CONTACTED", "PROMISED", "PAID", "DISPUTED",
                 "HUMAN_QUEUE", "EXHAUSTED", "WRITTEN_OFF"}

Interventions == {"WAIT", "SOFT_REMINDER", "PAYMENT_LINK", "PHONE_FOLLOWUP",
                  "ESCALATE_HUMAN", "STOP"}

OutcomeKinds == {"NO_RESPONSE", "REPLIED", "PROMISED", "PAID_FULL", "PAID_PARTIAL",
                 "DISPUTE_RAISED", "COMPLAINT", "ESCALATED", "PROMISE_BROKEN",
                 "WRITTEN_OFF"}

ContactInterventions == {"SOFT_REMINDER", "PAYMENT_LINK", "PHONE_FOLLOWUP"}

IsContact(i) == i \in ContactInterventions

\* Mutant: STOP is reviewed again like a WAIT.
ReviewTicksAfterStop(i) ==
    CASE i \in {"WAIT", "STOP"} -> WaitReview
      [] i \in {"SOFT_REMINDER", "PAYMENT_LINK"} -> MessageReview
      [] i = "PHONE_FOLLOWUP" -> PhoneReview
      [] i = "ESCALATE_HUMAN" -> ReviewNever

ReviewTicks(i) ==
    CASE i = "WAIT" -> WaitReview
      [] i \in {"SOFT_REMINDER", "PAYMENT_LINK"} -> MessageReview
      [] i = "PHONE_FOLLOWUP" -> PhoneReview
      [] i \in {"ESCALATE_HUMAN", "STOP"} -> ReviewNever

ApiUnits(i) == IF i = "PAYMENT_LINK" THEN 1 ELSE 0

\* The DLT category a message of this kind must carry; voice and the
\* interventions that send nothing have none.
NoCategory == "none"
CorrectCategory(i) ==
    IF i \in {"SOFT_REMINDER", "PAYMENT_LINK"} THEN "S" ELSE NoCategory

\* The table that licenses the policy engine's single pass.
ContactIntensity(i) ==
    CASE i \in {"WAIT", "STOP", "ESCALATE_HUMAN"} -> 0
      [] i = "SOFT_REMINDER" -> 1
      [] i = "PAYMENT_LINK" -> 2
      [] i = "PHONE_FOLLOWUP" -> 3
=============================================================================
