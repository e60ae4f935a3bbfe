----------------------------- MODULE SharedWorld -----------------------------
(***************************************************************************)
(* The runner and the adjudicator together, beside the same book left       *)
(* alone.  "alone" is the CONTROL arm of the same seed: nobody contacts     *)
(* anybody, and what a payer does unprompted is drawn on the same invoice   *)
(* and tick, so each draw is taken once and read by both.  Every step is a  *)
(* step of Runner with its outcome drawn instead of chosen.                 *)
(*                                                                         *)
(* The three channels are hashes apart.  The draw of a part payment or of   *)
(* a phrase is one hash whatever asked for it; here it is taken afresh by   *)
(* every response, which only adds outcomes.                                *)
(***************************************************************************)
EXTENDS RunnerProperties, Adjudicator

CONSTANTS
    ArchetypeOf,   \* payer_archetype of each invoice
    FellDue,       \* due_on of each invoice, a virtual date
    SomeDraws,     \* draws of a response or a promise the runs look at (a bound)
    SomeLuck,      \* and of the spontaneous channel
    SomeAmounts    \* and of the amount channel

ASSUME SharedAssumption ==
    /\ ArchetypeOf \in [Invoices -> Archetypes]
    /\ FellDue \in [Invoices -> Int]
    /\ ResponseKinds = {Rungs[k] : k \in 1 .. 6} \cup {"NO_RESPONSE"}
    /\ SpontaneousKinds = {"PAID_FULL", "PAID_PARTIAL"}
    /\ SomeDraws \subseteq Draws /\ SomeLuck \subseteq Draws /\ SomeAmounts \subseteq Draws

VARIABLES
    alone,   \* the ledger of the CONTROL arm, in step with accounts
    asked    \* _Pending's intervention and contacts_at_send, NotAsked if none

sharedVars == <<vars, alone, asked>>

NotAsked == [intervention |-> "none", recent |-> 0]
Nothing == Outcome("NO_RESPONSE", 0)
Luck == [draw: SomeLuck, amount: SomeAmounts]

Age(i) == VirtualDate(tick) - FellDue[i]

-----------------------------------------------------------------------------
(* The draws, made into the outcomes of one record.                         *)

PartPayment(left, amount) == Outcome("PAID_PARTIAL", PartialAmount(left, amount))

LadderOf(i) == Ladder(ArchetypeOf[i], asked[i].intervention, Age(i), asked[i].recent)

\* resolve_response, with _response_outcome.
Response(i, draw, amount, phrase) ==
    LET kind == Answer(LadderOf(i), draw)
    IN  CASE kind = "PAID_FULL" -> FullPayment(i)
          [] kind = "PAID_PARTIAL" -> PartPayment(Open(i), amount)
          [] kind = "PROMISED" -> [kind |-> "PROMISED", amount |-> 0, phrase |-> phrase]
          [] OTHER -> Outcome(kind, 0)

\* Mutant: a payer being chased no longer settles on its own cycle.
UnpromptedUnlessChased(i, a, l) ==
    LET left == Outstanding(Amount[i], a)
    IN  IF l.draw >= Hazard(ArchetypeOf[i], Age(i)) \/ left = 0 \/ a.attempts # << >> THEN Nothing
        ELSE IF FallsInPart(ArchetypeOf[i], Age(i), l.draw) THEN PartPayment(left, l.amount)
        ELSE Outcome("PAID_FULL", left)

\* resolve_spontaneous on the account of either arm.
Unprompted(i, a, l) ==
    LET left == Outstanding(Amount[i], a)
    IN  IF l.draw >= Hazard(ArchetypeOf[i], Age(i)) \/ left = 0 THEN Nothing
        ELSE IF FallsInPart(ArchetypeOf[i], Age(i), l.draw) THEN PartPayment(left, l.amount)
        ELSE Outcome("PAID_FULL", left)

Settled(i, a, l) ==
    IF IsTerminal(a.state) \/ Unprompted(i, a, l) = Nothing THEN a
    ELSE ApplyOutcome(Amount[i], a, Unprompted(i, a, l), tick)

\* resolve_promise, for a promise that is due.
PromiseAnswer(i, draw) ==
    IF draw < KeptBelow(ArchetypeOf[i], Age(i)) THEN FullPayment(i) ELSE Outcome("PROMISE_BROKEN", 0)

-----------------------------------------------------------------------------
(* The steps of the run that the other arm has no part in.                  *)

Answered(i) == asked' = [asked EXCEPT ![i] = NotAsked]

LandDrawn(p) ==
    /\ phase = "land" /\ NextDue(p)
    /\ ~IsTerminal(accounts[p.invoice].state)
    /\ \E draw \in SomeDraws, amount \in SomeAmounts, phrase \in PhrasesOf[p.invoice] :
          Apply(p.invoice, Response(p.invoice, draw, amount, phrase))
    /\ pending' = pending \ {p}
    /\ UNCHANGED <<tick, phase, todo, engine>>
    /\ Answered(p.invoice) /\ UNCHANGED alone

DropDrawn(p) == DropResponse(p) /\ Answered(p.invoice) /\ UNCHANGED alone

ResolveDrawn(i) ==
    /\ phase = "promises" /\ Visit(i)
    /\ PromiseDue(i)
    /\ \E draw \in SomeDraws : Apply(i, PromiseAnswer(i, draw))
    /\ UNCHANGED <<pending, engine, asked, alone>>

\* contacts_at_send is counted before the contact itself is recorded, over the
\* window the policy also defaults to.
ReviewAsking(i) ==
    /\ phase = "decide" /\ Visit(i)
    /\ \E proposal \in Proposals(i) :
          LET v == Decision(i, proposal) IN
          \/ ReviewVetoed(i, v) /\ UNCHANGED asked
          \/ /\ ReviewExecuted(i, v)
             /\ asked' = IF ~IsContact(v.final) THEN asked
                         ELSE [asked EXCEPT ![i] =
                            [intervention |-> v.final,
                             recent |-> PayerContactsSince(accounts, PayerInvoices(i), Floor(tick))]]
    /\ UNCHANGED alone

-----------------------------------------------------------------------------
(* The steps both arms take.                                                *)

\* A record settled here and open there still draws there.
StartSpontaneousOfBoth ==
    /\ StartSpontaneous
    /\ \E luck \in [Active(alone) \ Active(accounts) -> Luck] :
          alone' = [i \in Invoices |-> IF i \in DOMAIN luck THEN Settled(i, alone[i], luck[i])
                                      ELSE alone[i]]
    /\ UNCHANGED asked

SettleDrawn(i) ==
    /\ phase = "spontaneous" /\ Visit(i)
    /\ \E l \in Luck :
        /\ Unprompted(i, accounts[i], l) # Nothing
        /\ Apply(i, Unprompted(i, accounts[i], l))
        /\ alone' = [alone EXCEPT ![i] = Settled(i, @, l)]
    /\ UNCHANGED <<pending, engine, asked>>

StayQuietDrawn(i) ==
    /\ StayQuiet(i)
    /\ \E l \in Luck :
        /\ Unprompted(i, accounts[i], l) = Nothing
        /\ alone' = [alone EXCEPT ![i] = Settled(i, @, l)]
    /\ UNCHANGED asked

\* AlwaysWait decides every record that is due in the book left alone.
StartReviewsOfBoth ==
    /\ StartReviews
    /\ alone' = [i \in Invoices |->
                    IF i \in DueForReview(alone, tick) THEN RecordAction(alone[i], "WAIT", tick)
                    ELSE alone[i]]
    /\ UNCHANGED asked

-----------------------------------------------------------------------------

SharedInit ==
    /\ Init
    /\ alone = [i \in Invoices |-> OpeningAccount]
    /\ asked = [i \in Invoices |-> NotAsked]

\* What only the run does: the rest of Runner's steps, untouched.
RestOfRun ==
    /\ \/ OpenRun
       \/ StartPromises
       \/ \E i \in Invoices : PassPromise(i)
       \/ Advance
       \/ \E i \in Invoices : WriteOff(i)
       \/ CloseRun
       \/ Closed
    /\ UNCHANGED <<alone, asked>>

SharedNext ==
    \/ \E p \in pending : LandDrawn(p) \/ DropDrawn(p)
    \/ \E i \in Invoices : ResolveDrawn(i)
    \/ StartSpontaneousOfBoth
    \/ \E i \in Invoices : SettleDrawn(i) \/ StayQuietDrawn(i)
    \/ StartReviewsOfBoth
    \/ \E i \in Invoices : ReviewAsking(i)
    \/ RestOfRun

SharedSpec == SharedInit /\ [][SharedNext]_sharedVars

-----------------------------------------------------------------------------

\* Every answer the adjudicator draws is one the runner provides for, so what
\* is proved of Runner holds of every world.
DrawsAreOutcomes == Spec

\* Chasing never costs a rupee: at every moment the run has recovered at
\* least what the same book, left alone under the same luck, has.  The odds
\* of the module docstring may fall with pressure, but the channels are apart
\* and a contact only ever adds to what comes in unprompted.
ChasingNeverCosts ==
    \A i \in Invoices : Open(i) <= Outstanding(Amount[i], alone[i])

\* resolve_spontaneous: "A record nobody has touched draws exactly the same
\* sequence as one being chased weekly".  Untouched, it stands where the
\* book left alone has it, whatever was done to its payer's other invoices.
UntouchedPaysAlike ==
    \A i \in Invoices :
        accounts[i].attempts = << >> =>
            /\ accounts[i].recovered = alone[i].recovered
            /\ accounts[i].state = "PAID" <=> alone[i].state = "PAID"

Awaiting == {i \in Invoices : asked[i] # NotAsked}

\* One more contact to a payer never makes it likelier to pay or to promise
\* and never makes a complaint less likely, the rescaling included.
TirednessNeverHelps ==
    \A i \in Awaiting :
        LET tired == Ladder(ArchetypeOf[i], asked[i].intervention, Age(i), asked[i].recent + 1)
        IN  /\ \A k \in 1 .. 3 : Reach(tired, k) <= Reach(LadderOf(i), k)
            /\ tired[6] >= LadderOf(i)[6]
=============================================================================
