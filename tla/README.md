# A TLA+ model of recoup

recoup chases unpaid invoices over virtual time: a proposer (a rule or a model)
suggests one intervention per record under review, a policy engine lets it
through, reduces it or vetoes it, a ledger applies what is left, an adjudicator
says what the payer does back, and every step becomes a row of an audit log from
which the run can be replayed. This directory models that machine, checks it
with TLC on small books and proves its safety properties with TLAPS for every
book.

Paths below are relative to the repository; `recoup/...` is its package,
`src/recoup/...`. `PROJECT.json` names every line a definition translates, every
run, mutant, hazard and theorem.

## 1. Inventory

| Part | State | Operations | What is hard | What makes it correct |
|---|---|---|---|---|
| Ledger (`recoup/ledger/ledger.py`, `recoup/domain`) | eight-state record, next review, recovered money, promise, contact history, links | `record_action`, `record_outcome`, `set_promise`, `due_for_review`, `awaiting_write_off` | the transition table is wider than the run: legal chains of moves that must never happen | only legal moves; PAID means paid in full; a dispute or a person's case is never chased or lost |
| Clock (`recoup/ledger/clock.py`) | the tick | advance, hours and dates of ticks, `resolve_promise_phrase` | a 6-hour grid offset from midnight; month ends | every phrase resolves to the end of the right day, never before the tick it is said on |
| Adjudicator (`recoup/ledger/adjudicator.py`) | none: hash draws, keyed by record, tick and channel | `resolve_response`, `resolve_spontaneous`, `resolve_promise` | arms must meet the same luck; masses that are rescaled together; `_partial_amount` at a balance of one paisa | every outcome is well formed; the unprompted channel does not feel the chase |
| Policy engine (`recoup/policy`) | links used, armed suppression, group escalation opened | `adjudicate`, `adjudicate_batch`, `arm_batch_suppression` | one pass over eleven rules that modify or veto; windows and deferrals | no contact outside hours, spacing, frequency, caps; deferrals to later ticks only |
| Batch runner (`recoup/runner/batch.py`) | pending answers, the four steps of a tick | `run_batch`, `run_live_batch`, `write_run` | order of steps; answers in flight; two passes that must agree | no decision before the last answer; no promise left behind; everything closed |
| Baseline (`recoup/baseline`) | none | `NaiveChaser.propose` | - | - |
| Reasoner (`recoup/reasoner`) | call counter, spend, circuit breaker, cache | `propose`, `analyze` | guards that trip in the middle of a run | never more calls than the budget; a fallback for every failure |
| Audit (`recoup/audit`) | the rows | `append`, `resume`, `write`, `replay`, `compare` | the log is rewritten, not appended to | replaying the rows gives the closing ledger |
| Executors (`recoup/executor`) | allocation, session, live links | `LinkAllocator`, `perform`, `find_link` | a remote service that fails or answers late | the link budget; a real link is always on record |
| Reconciliation (`recoup/executor/reconcile.py`, `webhook/app.py`) | the run's files | `reconcile_payment` | several files, several processes, redeliveries, crashes | a payment is booked exactly once |
| Generator (`recoup/generator`) | the templates spent so far | `apportion`, `generate_batch`, `_build_record`, `_prior_history` | shares rounded to a total, then split over payers; bands of templates that run out | the size asked for, each archetype's share, graded hints that do not repeat |
| Metrics (`recoup/metrics`) | none | `compute_arm_metrics` | rows and final records joined by id | the score is what the run did |
| Command line (`recoup/cli.py`) | none | `run`, `reconcile`, `generate`, `replay`... | which proposer an arm gets; links made before a session is written | wiring |
| Dashboard, prompts, signatures | none beyond files | - | - | pure functions or displays |

How they interact: the runner owns the loop and calls everything else in
process, on one thread. Each tick it asks the ledger which records are due,
hands each snapshot to the arm's proposer (the chaser, or the reasoner over the
model, its cache and its fallback), passes the proposal through the policy
engine, lets the executor perform what is left, writes the ledger and appends a
row; what a payer does back is drawn by the adjudicator and lands some ticks
later. Concurrency enters only after a run: the webhook and the command line
rewrite the same files of a finished run when Razorpay reports a payment.
Remote failure enters in two places, the model's API and Razorpay's.

Each hazard is listed in `PROJECT.json` at the line where it bites, with the
properties that would catch it.

## 2. Modules

| Module | Models | State it declares | Extends |
|---|---|---|---|
| `Interventions` | `domain/enums.py`, `domain/interventions.py`: the eight states, the closed enums of interventions and outcomes, the cadences | - | - |
| `Ledger` | `ledger/ledger.py`: the transition table, `action_transition`, `outcome_transition`, `record_action`, `record_outcome`, `set_promise`, `due_for_review`, `awaiting_write_off`, as operators on an account | - | `Interventions` |
| `Clock` | `ledger/clock.py`: hours and dates of ticks, the contact hours, the next lawful tick | - | - |
| `PolicyEngine` | `policy/`: the eleven rules as one record each, the ladder, `adjudicate`, `arm_batch_suppression`, `adjudicate_batch` | - | `Ledger`, `Clock` |
| `Runner` | `runner/batch.py` `run_batch`, with the adjudicator and the proposers as choices | `tick phase todo accounts pending engine row` | `PolicyEngine` |
| `RunnerProperties` | the promises of a run, and the refinement mapping to `Receivable` | - | `Runner` |
| `Adjudicator` | `ledger/adjudicator.py`: the archetypes' tables, the ladder of a response, fatigue, age, rescaling, part payments, promises, as operators on a draw | - | `Interventions` |
| `SharedWorld` | the runner with its outcomes drawn instead of chosen, in step with the `CONTROL` book under the same draws | `alone asked` | `RunnerProperties`, `Adjudicator` |
| `Receivable` | the abstract book: six standings, money, open or closed | `standing collected open` | - |
| `Replay`, `AuditedRunner` | `audit/replay.py`; the runner with a second ledger fed only from its rows | `replayed` | `Ledger`; `Runner` |
| `Metrics`, `ScoredRunner` | `metrics/compute.py`: what the scorecard counts in rows and final records; the audited runner with its rows scored as they are written | `score` | `Ledger`; `AuditedRunner` |
| `Generator` | `generator/generate.py`, `archetypes.py`: shares, cluster, pools, spotlight, prior bills | `count shares stage slot built spent carried ...` | - |
| `OfflineArms` | `NaiveChaser` behind the gate, and the agent on `DeterministicFallback` and `DeterministicBatchFallback` | `arm` | `RunnerProperties` |
| `Promises`, `PromiseClock` | `resolve_promise_phrase` on what a text names; the same words said over time | `start now phrase said ...` | `Clock` |
| `Reasoner` | `reasoner/client.py` and `cache.py`: cache, contract, call budget, circuit breaker, restarts | `disk contract permitted calls failures open ...` | - |
| `LiveRun` | `run_live_batch`, `LinkAllocator`, `LiveRazorpayExecutor`, the session file, over a faulty Razorpay | `stage dry live done granted session rows razorpay recorded ...` | - |
| `Reconcile` | `reconcile_payment`, its two callers and the four files it rewrites | `run disk receiver applied acknowledged events crashes` | `Replay` |
| `MC*` | the small instances | - | one of the above |
| `*Proofs` | theorems | - | one of the above |

### How the runner corresponds to the code

An account of `Ledger` is an `Invoice` together with its `ContactLedger`:
`state`, `nextReview` (`next_review_tick`), `recovered`, `due`
(`promised_due_tick`), `resolved` (`resolved_tick`), `attempts` (the ticks of
the contacts), `links`. What identifies an invoice, its payer, group and amount,
is in constants. `tick` is `VirtualClock.tick`, `pending` the runner's list of
answers in flight, `engine` the three attributes of `PolicyEngine` that change,
`row` the audit row the last step appended.

`run_batch` computes a list at the start of each step of a tick and then walks
it in id order. `phase` is the step, `todo` what is left of its list, and
`Visit(i)` takes its least element, so that a record changed early in a walk is
seen changed later in the same walk, as in the code.

| Action | Code |
|---|---|
| `OpenRun` | the batch insight, `adjudicate_batch` and `arm_batch_suppression` before the first tick |
| `LandResponse`, `DropResponse` | `_land_responses`: an answer due now is drawn and applied, or dropped because its record was settled |
| `StartPromises`, `ResolvePromise`, `PassPromise` | `_resolve_promises` |
| `StartSpontaneous`, `SettleSpontaneously`, `StayQuiet` | `_settle_spontaneous` |
| `StartReviews`, `Review` | `due_for_review` and the body of the decision loop: context, proposal, verdict, then `ReviewVetoed` or `ReviewExecuted` |
| `Advance` | `clock.advance`, or the horizon |
| `WriteOff`, `CloseRun`, `Closed` | the finalisation; the run has returned |

The adjudicator is a choice over every outcome a draw can produce, a partial
payment over every whole percent from 33 to 84 of what is open, floored, and at
least one. The agent is a choice over every intervention and draft category and
over arming any group or none. So nothing proved or checked of `Runner` rests on
what a payer or a model is likely to say. The `BASELINE` and `CONTROL` arms are
choices with one element; `OfflineArms` fixes the others.

Strings are abstracted: a free text is a member of `TextDispute` or is not, a
draft is its TRAI category, a promise phrase a model value resolved by the table
`Resolve`. `Promises` is where the table comes from: a phrase is the set of
things its text names (a weekday, an ordinal day, a number of days...), and
`Deadline` is the code's precedence among them and its calendar, leap years
included.

### The other components

* **`Reconcile`** takes a reconciliation apart at every file access. `Receive`
  is `find_link`; `ReadLog` the read and `verify_chain`; `AnswerAlreadyApplied`
  the idempotency check; `BookPayment` the replay, the comparison with
  `final.json` and the new rows; `GiveUp` each refusal; `OpenFile` and
  `CloseFile` the truncating write of each file, in the order log, final,
  summary, session; `AppendEvent` the line in `reconciliation.jsonl` and the
  200. A file is a set of at most one readable content. While it is being
  written a reader, or a crash, finds any prefix of a log and nothing readable
  of the JSON files. Replays are those of `Replay`, on real rows.
* **`LiveRun`** sees a pass as the links it asks for and the records it leaves
  open; `DryPass` picks one, `RefuseToSpend` and `StartLivePass` are the
  `--confirm` guard, and the live pass performs its requests one by one:
  `Simulate` (not worth a link, or not allowed by the allocator), `CreateSucceeds`,
  `CreateRefused`, `CreateLost`. `Diverge` is `assert_same_decisions`.
  `CrashAndRerun` forgets everything but Razorpay.
* **`Reasoner`** has one action per way a question is answered: from the cache,
  by a call whose answer is or is not stored, by a fallback because spending is
  not allowed, because the call failed or because its answer was unusable; and
  `StartProcess`, which keeps only the disk.
* **`SharedWorld`** is the runner and the adjudicator together. Each step of
  `Runner` that chose an outcome draws one (`LandDrawn`, `ResolveDrawn`,
  `SettleDrawn`, `StayQuietDrawn`), and the draw of the spontaneous channel is
  read a second time by `alone`, the book of the `CONTROL` arm, because the code
  keys it by record, tick and channel and by nothing an arm does.
  `StartReviewsOfBoth` is `AlwaysWait` there. `asked` is what `_Pending` carries:
  the intervention, and the payer's contacts in the window when it was sent.
* **`Metrics`** adds each row to a tally as `compute_arm_metrics` would, and reads
  the rest off the final records; `ScoredRunner` holds it beside the run.
* **`Generator`** writes one record per step: `WriteCluster` the nine of the group,
  each avoiding what the ones before it spent, `WriteGeneral` the rest in the
  order of the pools, `Refuse` the `ValueError`, `WriteBatch` the end. Every draw
  of a record's RNG is a choice.
* **`OfflineArms`** replaces the two choices of `Runner` (the armed group and
  the proposal) by the functions of `baseline` and `reasoner/fallback.py`,
  `batch_insight.py`.

## 3. What is checked

Every run is exhaustive. Each listed property has a mutant in `PROJECT.json`: a
plausible slip in a mapped definition under which the same run fails.

| Run | Module | Question |
|---|---|---|
| `agent_pair` | `MCAudit` | Under an agent that may propose anything and a payer who may answer anything, do the books balance, do the policy limits hold across both invoices of the payer, is every promise settled in time, is `Receivable` implemented, do the rows rebuild the ledger at every step, and does the scorecard count what the run did and tell a case the payer raised from one the run escalated? |
| `shared_world` | `MCSharedWorld` | With the adjudicator's own tables and every draw shared with the book left alone: does chasing ever leave an invoice with less paid, does a record nobody touched stand where it would have, does one more contact ever help, is every drawn answer one `Runner` provides for? |
| `agent_deferrals` | `MCRunner` | Is a deferred contact looked at again at exactly the deferred tick? |
| `offline_arms` | `MCOffline` | At the source's own constants and over whole runs of 112 ticks, does the frequency cap hold, does an armed suppression, is anything ever given up, is a record put off for long only when its payer's allowance is spent? |
| `promise_phrases` | `MCPromiseClock` | Is every deadline ahead of the tick it is said on, and the nearest day that fits the words? |
| `reasoner_guards` | `MCReasoner` | Is only what the model said under this contract cached, is spend capped, do answers repeat within a process? |
| `live_links` | `MCLiveRun` | Whatever Razorpay does: is the budget held, has every record a link that was owed more than one that has, has a confirmed run a link left that can be paid, does a LIVE row mean a link, is every link named or reported, does the command end? |
| `reconcile` | `MCReconcile` | One receiver, redeliveries, up to two crashes: is a payment booked exactly once, are closed records kept, is what was answered kept wherever the log still replays, does every payment land unless a crash parted the files for good? |
| `batch_plans` | `MCGenerator` | At twenty-six sizes, is a batch of the size asked for with each archetype's share, does every size the command line takes have one spotlight and its five objections in prose alone, is a letter sent twice only when the band is used up? |
| `settled_history`, `reconcile_acknowledged`, `two_receivers` | | Three claims of the repository that its code does not keep (section 6) |

### Bounds, and why they are enough

* `agent_pair`: two invoices of one payer, because every limit but the group's
  relates two contacts to one payer; amounts 1 and 2 against a threshold of 1,
  so that one is high-value and a part payment meets both roundings (1 of 1, 1
  of 2). Cadences 2, 3 and 5 keep the order of the source's 8, 12 and 18 and
  outlast the response delay as they do; spacing 3 and window 6 overlap two
  cadences, the cap of two contacts and one link is reached within the horizon
  of 7 ticks, which also holds a night, so hours, spacing and frequency defer
  the same contact. Drafts are none, promotional and service, the three the
  message-category rules tell apart.
* `shared_world`: two invoices of one payer, one of a paisa and one of a rupee,
  of the two archetypes whose odds move most. Four ticks with a delay of one hold
  three contacts and their answers; the fatigue onset is 0, so that the second
  contact already tires. Five draws land on pay, part payment, promise, reply or
  dispute and silence; three lucks pay in full, in part and not at all. The one
  draw of an amount is the one that takes the largest part. `SharedProofs` covers
  every draw, amount, date and table of phrases. Probabilities are rounded down to
  ten-thousandths, and the overdue curve is read at every thirtieth day.
* `batch_plans`: sizes from 120, the least the command line takes, to 140 pass
  through every rounding of the shares; 126 is the published one; 0 and 7 are
  smaller than the cluster, 19 and 21 are refused and have ties at the cut, which
  float fractions would break by rounding and the model breaks either way. The
  cluster's bands are the real ones; the general pool has two letters and a note
  per archetype. One prior bill is kept per payer and the days a record draws are
  the lowest. `settled_history` takes the latest settlement the table allows.
* `agent_deferrals`: one invoice and nine ticks; a deferral needs one record,
  the rule that causes it and the time to come back.
* `offline_arms`: the source's constants, unscaled. Four invoices: a group of
  three, one of whose payers owes a fourth invoice outside it. One of the three is not
  due when the run opens and one has a dispute in its text, so that the fallback's
  suppression meets a member that waits, one that is escalated for itself, and one
  that is held for the group. The source's window of 120 ticks outlasts the run, so
  that it never slides there: `FrequencyAlwaysHeld` covers every window and horizon.
* `promise_phrases`: 27 phrases, alone and combined, from each of three starts for 111 ticks,
  with the turn of a year and a leap February inside.
* `reasoner_guards`: two inputs, two answers, an old and a new contract, three
  processes, a limit of two failures and of three calls: the circuit and the
  budget both trip, and a process starts over a cache an older contract filled.
* `live_links`: three records over a capacity of two; the smallest asks first,
  one asks twice and is part paid in between, one falls below the minimum; every
  set of records may be open at the close; one crash.
* `reconcile`: two invoices and three payments, two of them on one invoice. They
  do not add up to it, so that one credited twice shows; after a run that closed
  with a part payment the first of them settles it and the other meets a paid
  record. The other closings have a written-off record, and a promised and an
  escalated one. Two crashes, at any step, within a write included.

Every bound is a constant named in the cfg or the MC module; `Horizon`,
`MaxCrashes`, `MaxRestarts` and `Window` appear in guards.

### Fairness and stopping

`FairSpec` is weak fairness of the runner's `Next`: `run_batch` is one thread
in a `for` loop with no wait. `FairLiveSpec` is weak fairness of `LiveNext`,
since calls to Razorpay's SDK time out and end in one of the outcomes modelled.
`FairRecSpec` gives each receiver weak fairness of its own work and each
payment strong fairness of its delivery: Razorpay retries a delivery that was
not answered 200, and a receiver may be busy with another between two tries. No
fairness is assumed of payers, the model, or crashes.

A crash excuses a payment of `EveryPaymentLands` only where it leaves the files
`Parted` for good: an unreadable session, so that no link is found, or no log that
replays to `final.json`. After any other crash the payment lands, an unreadable
summary included: each later reconciliation then fails there, but with its log and
position written, and its redelivery is answered from the log.

A closed run stutters explicitly (`Closed`), so deadlock is checked everywhere
but in `live_links` and the generator's runs, where the command returns, and in `reconcile` and its two
variants, where a crash inside the session file leaves a file no delivery can
get past and nothing more can happen.

## 4. What is proved

`tlapm` checks the theorems of eight modules, for every book, horizon, cadence,
limit, phrase table and arm that satisfy the assumptions below.

* `LedgerProofs`: `MovesAreLegal`, the two state derivations stay in the
  transition table; and the lemmas on sums over a finite set and on least and
  greatest elements that the other modules cite.
* `RunnerProofs`: of the engine, `VerdictIsSound` (closed enums; deferrals to
  later ticks), `ContactsAreLawful` (what a contact that passes satisfies) and
  `OnePassIsEnough` (proposing again what was let through is approved as it
  stands: walking the ladder once, with rules that modify, misses nothing). Of a
  run, `RunInvariant`, from which `TypeCorrect` and `NoDecisionBeforeTheAnswer`;
  objections stay, only the close writes off, the books balance, promises are
  dated and never stale and no answer is dropped that falls due within the run
  (`PromisesNeverStale`), contacts are owed, in hours, spaced and within the
  allowance of any window (`FrequencyAlwaysHeld`), link caps hold and high values
  are never abandoned, a suppressed group is held; and `RunImplementsTheBook`:
  every run is a behaviour of `Receivable`.
* `SharedProofs`: `SharedImplementsRunner`, every run under drawn answers is a run
  of `Runner`, so that all of the above holds of it; `ChasingNeverCostsAnyone`, no
  policy leaves an invoice with less recovered than leaving it alone under the
  same draws; `UntouchedAlwaysPaysAlike`, a record that was never chased stands
  exactly where it would have; `RescaledFits`, the rescaled odds fit under the
  ceiling whatever the tables say; `OneMoreContactNeverHelps` and
  `TirednessNeverHelpsAnyone`, with the code's tables a contact more never raises
  the odds of a payment or a promise nor lowers those of a complaint, whatever the
  onset, the archetype, the kind of contact, the age of the bill and the contacts
  before; `AnswersAreAskedFor`, every answer in flight is that of a contact.
* `AuditProofs`: `LogIsSufficient`, the replay of the rows is the ledger at every
  step; `ScoreIsAlwaysTheLedgers`, the scorecard's sums and counts, taken from
  rows, are those of the ledger; `QueueIsAlwaysAttributed`, a case in the human
  queue is counted for whoever raised it; `RowsAreLogRows`, every row of a run is
  one the reconciliation may find in a closing log.
* `OfflineProofs`: `OfflineImplementsRunner`, so that every theorem on runs is one
  about the deterministic arms (two are instantiated); `PutOffAlwaysOnlyWhenSpent`
  and `NothingIsGivenUp`, under the orderings of constants named below.
* `ServiceProofs`, of three parts that share nothing. Of the reasoner, only the
  model is cached, spend is capped, answers repeat. Of the calendar,
  `DeadlineIsAlwaysAhead` and `DeadlineAlwaysFitsNearest` (a deadline is ahead, and
  the nearest day that fits the words) on every tick and set of readings, and
  `DeadlinesAreNoEarlier` and `FirmPhrasesAreDated`, which say that a table made of
  `Deadline` meets what `Runner` assumes of its own. Of the generator,
  `SharesAreAlwaysFair` and `PublishedSizesAlwaysHold` for every size, and
  `ClusterAlwaysRepeatsOnlyWhenSpent` for every corpus.
* `LiveProofs`: for every set of passes and every failure of Razorpay, the budget
  is held and a live row means a link on record. Of a run that finished, a record
  owed more than one with a link has one too, unless each of its creates failed;
  one that had to be payable has a link on a record still open, or no link could be
  made of any request of some such record; and a link at Razorpay that the session
  does not name is one whose create was reported failed, unless an attempt before
  it died.
* `ReconcileProofs`: `CreditedAlwaysOnce` and `ClosedRecordsAreAlwaysKept` for any
  number of receivers, payments and crashes; `AnsweredIsAlwaysKept`,
  `AppliedIsAlwaysBooked` and `HistoryIsAlwaysWhole` for one receiver, which is
  where `two_receivers` shows the limit to be.

**Assumptions.** `CadenceAssumption` and `PolicyAssumption` say that the
constants are natural numbers. `RunnerAssumption` types the book.
`PromiseAssumption` says that a phrase resolves to no earlier tick than it is
said on, which is proved of the code's calendar (`DeadlinesAreNoEarlier`,
`FirmPhrasesAreDated`), and that a payer's pool is all dated or all vague, as the
adjudicator's two tuples are. `CadenceOutlastsResponse` says that the two contact
cadences exceed the response delay (12 and 18 against 2) and that `REVIEW_NEVER`
is past the horizon; no line of the code checks either, and without the first a
record would be decided with its answer in flight. `SharedAssumption` gives each
invoice an archetype and a due date and takes the kinds of answers to be those of
the adjudicator's ladder. `LiveAssumption` says that a pass asks in the order of
ticks and once a record per tick, as a run does. `ReconcileAssumption` types the
payments and has finitely many; `ClosingAssumption` takes a closing log to be
made of rows a run writes, which is proved of runs (`RowsAreLogRows`).
`GeneratorAssumption` keeps the bounded draws within the profiles' ranges;
`TemplatesAssumption` says that each band of the CLUSTER pool has a note for each of
the nine that takes one there, which `tests/test_corpus.py:159` asserts of the
corpus, and that templates have ids of their own.
`OfflineAssumption`, `ReasonerAssumption` and `PromiseClockAssumption` type the
constants of their modules. TLC evaluates each on the runs of its module;
`offline_arms` evaluates those of the runner and its parts at the source's own
values.

Two theorems name an ordering of constants instead. `CallsWaitLongest`, for
`PutOffAlwaysOnlyWhenSpent`: a phone call's cadence (18 ticks) is no shorter than
that of a message (12) or of a wait (8), than the spacing between two contacts, or
than a day.
`EndsMidLadder`, for `NothingIsGivenUp`: the frequency window covers the run, the
allowance is under the attempts that exhaust a record, and neither ladder has STOP
on a rung the allowance reaches. `SourceEndsMidLadder` shows that the ladders of
the source meet it with its allowance of four and its five and six attempts.
`offline_arms` checks both properties at the source's values.

**The invariant of a run** is `IInv == TypeOK /\ Past /\ Walks /\ InFlight /\ GivenUp`.
`NoReviewInFlight` is not inductive: that a record under review has no answer in
flight follows from its next review being later than the answer is due
(`InFlight`), which a step may rely on only because the walked list still holds
just records the step's condition held of (`Walks`), and because no contact is
in the future (`Past`). `GivenUp` is what keeps exhausted records out of
reviews: they are active in the code's sense, and only a next review past the
horizon excludes them. It has one preservation lemma per action.

**The step kinds.** The safety theorems do not repeat that case split.
`StepKinds` shows once that a step of a run is quiet (the ledger stands), a
booking of one legal outcome on one record that is not terminal, or a review of
one record; every later theorem is then two cases. `GatedReview` is what
the engine's theorems say of a review that contacts. `BooksBalance` and
`SpacingHeld` are inductive with `IInv`; dates of promises need
`PromisersNameDates`, that a record promised is one whose pool is dated. For the
refinement a booking is one of the book's payments, losses or objections, or a
stutter, a review an objection, an abandonment or a stutter, and a quiet step
closes the book or stutters (`BookClosesOnce`: it never opens again).

**Windows.** `FrequencyHeld` bounds the contacts in every window that has one at
its end, those that are past included. A contact is added at the present tick
only, so only the window that ends there grows; the engine counted that window
before the contact, and the count of the others stands because no earlier
contact is added or removed.

**The shared world.** A part payment of a larger balance leaves the larger balance
(`LargerKeepsMore`, a percent floored twice), so the same draw read by two books
keeps their order (`SameLuckKeepsOrder`), and whatever else a run does only lowers
what is open (`BalancesOnlyFall`). It takes `BooksBalance` to know that a record
whose state is paid has nothing open. `UntouchedPaysAlike` is the same argument
with equality for as long as there is no contact.

**Tiredness.** A rung shrinks, or grows, through the rescaling as its share of the
ladder does (`RescaledKeepsOrder`, shares compared cross-multiplied and floored),
so a contact more must take from each paying rung at least its share of what it
takes from the ladder. In exact fractions that is general. Rounded to
ten-thousandths, with a decay that is itself rounded at each contact, it depends
on the tables, and the proof reads them: `PayDecayValues` unfolds the decay to its
eighteen values, and `WeightsOf` has what the paying and the other rungs weigh for
each of the eighteen pairs of archetype and contact. `Headroom` then splits the
cases: either the contact takes no more from the paying rungs than the complaint's
150 gives back, so that the ladder does not shrink while its paying rungs do, or
the ladder is under the ceiling and nothing is rescaled. One case has neither, the
first call past the onset to a payer who is late by habit (`FirstTiringCall`), and
is computed for the six values of the overdue multiplier. `AskedInv`, that a
record with an answer in flight has been asked and by a contact, carries this from
the tables to the runs.

**The audit log.** `RowsRebuildTheLedger` is inductive once `Rebuilds` adds that
a closed run writes no row: each action's row, replayed through the same ledger
operators on the same account, makes the same account (`StepsAreReplayed`). For
the score each tally is stated as a sum over the records, which a step changes at
one record, and two facts on the attribution are carried with it: a record the
row counts as stopped or escalated is one the ledger holds there.

**Putting off and giving up.** A review leaves the next one past the longest
cadence only by a deferral, and defers past a night or the spacing only when the
payer's window is full; contacts are only ever added to what a payer has had, so
its allowance stays spent (`SpentGrows`). For the second, the contacts of one
record are among its payer's, so `FrequencyHeld` bounds the rung of the ladder a
review may be at.

**The calendar.** `MonthStart` is the closed form of the Gregorian count of days;
that months follow one another without a gap (`MonthFollows`), are in order and
28 days long at least give that the month of a day is unique. Each kind of reading
then has a lemma that its day is ahead and the nearest of its sort, and the
precedence among readings picks the first that is there.

**The generator.** `SharesAddUp` is an argument on fractions: the records left over
are as many as the fractions add up to, so no share without a fraction gets one,
and none is off by a whole record. That the cluster's shares are taken out once is
then a sum of six terms (`ClusterIsShared`). `GeneratorInv` says that no archetype
has more than its share, and what the spotlight and the objections in prose alone
depend on: how many of their pool are written. `BandsLast` says that a band has
given no more notes than there were slots for it so far, which with
`TemplatesAssumption` leaves one.

**The reasoner.** `ReasonerInv` adds to the types that an input has at most one
entry, that what was stored is still found under the contract it was stored
under, and that a closed circuit has seen fewer failures than the limit.

**Live links.** `LiveInv` says what has been done at each stage (`Stages`), that
there is a grant for each link of the session and one link a record (`Spent`),
that the session has the link of each live row, that each request of a shortlisted
record so far was too small, has its link, found the budget spent or failed, and
only shortlisted records have links (`Funded`), and that what is at Razorpay and not
in the session has failed (`Named`). The budget is enough for the whole shortlist,
so at the end a record of it has its link or none of its requests could be made
(`ShortlistIsServed`). That gives `NothingIsSpentInVain`, as the guard's record is
one of them; that the largest are funded needs besides that the shortlist holds the
greatest first requests (`LargestAreAlwaysFunded`).

**Reconciliation.** `RecInv` has the whole of each file's possible content: a log
on disk, or in a receiver's hands, is the closing log with payments appended, each
payment at most once and each on a record the replay allowed it, so that what a
receiver writes is a log of the same kind whoever wrote before it. With one
receiver (`AloneInv`) a history of the logs that were whole shows more: what is on
disk or about to be is never shorter than what was answered for. A beginning
of it that replays to its position has lost no payment (`SameBookSamePayments`), so
what was answered is there after a crash too, wherever the log replays to
`final.json`. Replay is a fold,
and `BookUnfolds` shows once that a row more is a step more.

**Sums, folds, decay and months** are defined by recursion on their size. What is shown
of them for every size (that a sum changes as its one changed term, that a replay
is one step more, that the pay odds run out after eighteen contacts, that months
are in order) is shown from a least counterexample,
since the library's induction rules take an operator as parameter and no installed
prover can apply those.

## 5. What is only model-checked, and what is not modelled

*Only model-checked:* liveness (`DeferralsReturn`, `EveryPaymentLands`,
`LiveRunEnds`), which the prover does not reach. Every other property of a passing
run is also a theorem.

*Not modelled:* of the generator, amounts, names, invoice numbers, the slots of a
template, the day a reply came and the serialised batch; of the adjudicator, the hash (a draw is
any number) and the text of an answer; of the metrics, rates, veto counts, false
interventions and the report; the dashboard and printing, which read a finished
run; prompts and schemas, which are text; webhook signatures, a pure check; the
command line, beyond its reconcile command, the live arm and what each arm proposes; the SHA-256 chain, taken as ideal;
`write_run` and the other writes made once after a run; missing files and protected
run ids in the reconciliation; a cache file that does not parse.

## 6. Where the code and its documents part

* `settled_history`: `_prior_history` dates a prior bill from this bill's issue day,
  34 to 45 days per bill back, then adds its terms and up to 95 days of lateness,
  and never compares the sum with the day the batch is read. A bill can be "settled" after
  that day and is sent to the reasoner as history. In
  `data/batches/seed-42-n126.json` it is 10 of 516 events, the latest of 14 May
  2026 against an epoch of 6 April. `generator/generate.py:206` says the list is
  how the payer settled its previous bills.
* `reconcile_acknowledged`: a crash after the log was written and before
  `final.json` leaves a payment that every redelivery is told is already
  applied, in a position that never gets it, and refuses all other payments of
  the run.
* `two_receivers`: `recoup reconcile` beside a running webhook can drop a row the
  webhook has answered for; `audit/log.py` calls the log append-only.

Seen while modelling, with no run of their own.

* A part payment is at least one paisa and moves no state, so one that is all of
  a one-paisa balance leaves a record open with nothing outstanding, which is
  reviewed on; `docs/POLICY-SOURCES.md:254` says such a record is terminal.
* The engine takes the escalation of any member for the group's one escalation, a
  member escalated for its own dispute included, and the others are then vetoed
  with no escalation of their own. `policy/rules/__init__.py:19` says a disputed
  invoice is not absorbed into the group's decision.
* A session file left unreadable by a crash stops `find_link` for its own links and
  for those of the runs sorted after it, and no command mends it.
* A record of the cluster may send the same letter twice when its band is used up,
  and a second letter of one member can use up the STRONG band for another.
  `generator/generate.py:490` says no two of them reach for the same template, and
  `tests/test_generator.py:172` asserts it of seed 42.
* An objection in prose alone may have no prose: a note is drawn nine times in
  ten, a letter eight. The tests see that it is there for seed 42.
* A phone call to a chronically late payer already passes the ceiling of the odds
  without any fatigue, although the comment on the rescaling speaks of a fatigued payer.
* At the source's constants a payer behind the gate is never asked with more than
  three contacts in the window, which is the onset of fatigue: it touches only the
  `BASELINE` arm. Where it does, one more contact can turn a complaint into
  silence, as the rungs below shrink by more than the complaint grows.
* The `--confirm` guard wants a shortlisted record still open at the close, and does
  not look at the least amount of a link: a confirmed run may find that record too
  small and end with nothing payable. `NothingSpentInVain` says as much.
* A record whose first create was refused may have its second link funded, although
  `executor/budget.py:99` says only the first is. A create whose answer was lost
  can be followed by a second real link for the same invoice on a later tick. A run
  that diverges or dies leaves links no session file names; `executor/session.py:13`
  says the file is rewritten as the run adds to it, and the command writes it once.
* "The 31st" said in April has no deadline, though May has a 31st; "next week"
  said on a Sunday is the week after the one that starts next day.
* A model call that failed in the dry pass may succeed in the live one, and the
  passes then diverge. A payment id is looked for as a substring of a row's detail.
* `NothingGivenUp` explains the zero write-offs of `docs/BUILD-LOG.md:355`: the
  fifth contact after which both arms stop is never made, as the payer's allowance
  is four in thirty days and a run has twenty-eight.

## 7. Plan

The order was: the ledger and the policy engine, since every other part is about
what they allow; the runner over them; the audit log over the runner; then the
parts that meet a faulty world (reconciliation, live links, the reasoner), and
the pure calendar; then what stands before and after a run, the adjudicator's
draws, the batch it starts from and the score it is given. Done so far: all modules
of section 2, the runs of section 3 and the proofs of section 4.

Left: the missing-file and protected-run paths of the reconciliation,
`write_run`, and the guards of the command line before a run, none of which is
modelled yet.
