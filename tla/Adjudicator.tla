----------------------------- MODULE Adjudicator -----------------------------
(***************************************************************************)
(* recoup.ledger.adjudicator: what a payer does back.  Every answer is a    *)
(* draw compared with a threshold.  The draw belongs to the invoice, the    *)
(* tick and the channel, and to nothing an arm does; the archetype, the     *)
(* intervention, the age of the bill and the payer's fatigue are in the     *)
(* threshold.  Here draws and probabilities are whole ten-thousandths, and  *)
(* the source's floats are rounded down to them.                            *)
(***************************************************************************)
EXTENDS Interventions

CONSTANT FatigueOnset   \* FATIGUE_ONSET: contacts that cost nothing, 3

ASSUME FatigueAssumption == FatigueOnset \in Nat

Draws == 0 .. 9999
MaxMass == 9500   \* _MAX_RESPONSE_MASS

\* PROFILES.  hazard is the per-tick chance of settling unprompted, share the
\* percent of those payments that are partial, odds the response odds per
\* mille in ladder order, kept the percent of promises honoured.
Profiles ==
    [RELIABLE_BUT_SLOW |-> [hazard |-> 168, share |-> 4, odds |-> <<30, 10, 150, 300, 5, 20>>, kept |-> 88],
     CHRONIC_LATE |-> [hazard |-> 48, share |-> 18, odds |-> <<110, 70, 240, 220, 20, 30>>, kept |-> 58],
     DISPUTING |-> [hazard |-> 9, share |-> 45, odds |-> <<15, 30, 50, 180, 260, 45>>, kept |-> 40],
     DISTRESSED |-> [hazard |-> 15, share |-> 55, odds |-> <<20, 55, 170, 230, 20, 90>>, kept |-> 34],
     SILENT |-> [hazard |-> 31, share |-> 20, odds |-> <<30, 20, 45, 70, 10, 20>>, kept |-> 45],
     PAID_UNRECONCILED |-> [hazard |-> 263, share |-> 2, odds |-> <<40, 5, 30, 420, 30, 70>>, kept |-> 80]]

Archetypes == DOMAIN Profiles

\* The order of the ladder in resolve_response.
Rungs == <<"PAID_FULL", "PAID_PARTIAL", "PROMISED", "REPLIED", "DISPUTE_RAISED", "COMPLAINT">>

\* POTENCY, in percent and in ladder order.
Potency ==
    [SOFT_REMINDER |-> <<100, 100, 100, 100, 100, 100>>,
     PAYMENT_LINK |-> <<165, 165, 85, 90, 105, 115>>,
     PHONE_FOLLOWUP |-> <<120, 120, 170, 145, 130, 160>>]

\* _overdue_multiplier in percent, the curve read at every thirtieth day: it
\* halves in 90 days and never falls below OVERDUE_FLOOR.
OverdueMultiplier(days) ==
    LET steps == (days - 30) \div 30
    IN  IF days <= 30 THEN 100
        ELSE IF steps < 5 THEN <<100, 79, 63, 50, 40>>[steps + 1] ELSE 35

\* FATIGUE_PAY_DECAY ** n, in percent.
PayDecay[n \in Nat] == IF n = 0 THEN 100 ELSE (PayDecay[n - 1] * 82) \div 100

Fatigue(recent) ==
    LET excess == IF recent > FatigueOnset THEN recent - FatigueOnset ELSE 0
    IN  [pay |-> PayDecay[excess], complaint |-> 150 * excess]

-----------------------------------------------------------------------------
(* resolve_response: the ladder of a contact, and the rung a draw lands on.  *)

Total(ladder) == ladder[1] + ladder[2] + ladder[3] + ladder[4] + ladder[5] + ladder[6]

\* Mutant: fatigue wears down the whole ladder, complaints included.
MassesAllDecayed(archetype, intervention, days, recent) ==
    LET tired == Fatigue(recent)
        base == [k \in 1 .. 6 |-> Profiles[archetype].odds[k] * Potency[intervention][k]]
    IN  [k \in 1 .. 6 |->
            IF k \in 1 .. 2 THEN (base[k] * OverdueMultiplier(days) * tired.pay) \div 100000
            ELSE (base[k] * tired.pay) \div 1000]

\* The share of each rung before the ceiling.
Masses(archetype, intervention, days, recent) ==
    LET tired == Fatigue(recent)
        base == [k \in 1 .. 6 |-> Profiles[archetype].odds[k] * Potency[intervention][k]]
    IN  [k \in 1 .. 6 |->
            CASE k \in 1 .. 2 -> (base[k] * OverdueMultiplier(days) * tired.pay) \div 100000
              [] k = 3 -> (base[k] * tired.pay) \div 1000
              [] k \in 4 .. 5 -> base[k] \div 10
              [] k = 6 -> base[k] \div 10 + tired.complaint]

\* Past the ceiling every rung shrinks in proportion, so none is clipped.
Rescaled(masses) ==
    LET mass == Total(masses)
    IN  IF mass > MaxMass THEN [k \in 1 .. 6 |-> (masses[k] * MaxMass) \div mass] ELSE masses

Ladder(archetype, intervention, days, recent) ==
    Rescaled(Masses(archetype, intervention, days, recent))

\* The top of rung k, counted from the first.
Reach(ladder, k) == Total([j \in 1 .. 6 |-> IF j <= k THEN ladder[j] ELSE 0])

\* The first rung whose top is above the draw.
LandsOn(ladder, draw, k) ==
    draw < Reach(ladder, k) /\ \A j \in 1 .. k - 1 : draw >= Reach(ladder, j)

Answer(ladder, draw) ==
    IF \E k \in 1 .. 6 : LandsOn(ladder, draw, k)
    THEN Rungs[CHOOSE k \in 1 .. 6 : LandsOn(ladder, draw, k)] ELSE "NO_RESPONSE"

-----------------------------------------------------------------------------
(* Money and promises.                                                      *)

\* Mutant: the percent reaches eighty-five.
PartialAmountWide(outstanding, draw) ==
    LET percent == 33 + (draw * 53) \div 10000
        part == (outstanding * percent) \div 100
    IN  IF part > 1 THEN part ELSE 1

\* _partial_amount: a whole percent of what is left, and never nothing.
PartialAmount(outstanding, draw) ==
    LET percent == 33 + (draw * 52) \div 10000
        part == (outstanding * percent) \div 100
    IN  IF part > 1 THEN part ELSE 1

\* resolve_spontaneous: the chance on one tick, and where within it a payment
\* stops being partial.
Hazard(archetype, days) == (Profiles[archetype].hazard * OverdueMultiplier(days)) \div 100
FallsInPart(archetype, days, draw) ==
    draw * 100 < Profiles[archetype].share * Hazard(archetype, days)

\* resolve_promise: honoured below this draw.
KeptBelow(archetype, days) == Profiles[archetype].kept * OverdueMultiplier(days)
=============================================================================
