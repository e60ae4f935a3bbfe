------------------------------- MODULE LiveRun -------------------------------
(***************************************************************************)
(* run_live_batch, LinkAllocator and LiveRazorpayExecutor: the agent arm    *)
(* with real Razorpay payment links.  A dry pass reveals which links the    *)
(* arm sends, the allocator gives the scarce budget to the most valuable of *)
(* them, and a second pass makes the same decisions with real links.        *)
(*                                                                         *)
(* A pass is here the sequence of its executed PAYMENT_LINK rows and the    *)
(* records it leaves open: the rest of a run never reaches a live client.   *)
(* Razorpay is external: a create may succeed, fail, or create the link and *)
(* lose the answer; a reference id it knows is refused.                     *)
(***************************************************************************)
EXTENDS Integers, Sequences, FiniteSets

CONSTANTS
    Records,        \* invoice ids, numbers: their order is the id order
    Passes,         \* what a pass may do: [links, open]
    Capacity,       \* live links the run may create
    MinLink,        \* MIN_LINK_PAISE
    RequirePayable, \* --confirm
    CreateFails,    \* Razorpay may refuse a create
    AnswersLost,    \* Razorpay may create a link whose answer is lost
    Repeats,        \* the second pass decides as the first did
    MaxCrashes      \* how often the command may die and be run again (a bound)

\* The rows are in the order of the run, whose cadence gives a record one
\* decision a tick at most.
ASSUME LiveAssumption ==
    /\ Records \subseteq Nat
    /\ Capacity \in Nat /\ MinLink \in Nat /\ MaxCrashes \in Nat
    /\ {RequirePayable, CreateFails, AnswersLost, Repeats} \subseteq BOOLEAN
    /\ \A p \in Passes :
        /\ p.open \subseteq Records
        /\ p.links \in Seq([invoice: Records, tick: Nat, outstanding: Nat])
        /\ \A k \in DOMAIN p.links : \A j \in 1 .. k - 1 :
            /\ p.links[j].tick <= p.links[k].tick
            /\ p.links[j].invoice = p.links[k].invoice => p.links[j].tick < p.links[k].tick

VARIABLES
    stage,      \* where the command is
    dry,        \* the dry pass
    live,       \* the live pass as it will go
    done,       \* how many links of it have been performed
    granted,    \* LinkAllocator.granted
    session,    \* LiveSession.links of the process, by request
    rows,       \* the ExecutionResult stamped on each performed link
    razorpay,   \* links that exist at Razorpay, by reference id
    recorded,   \* the session file, NoSession until it is written
    failures,   \* LiveRazorpayExecutor.failures, by request
    crashes

liveVars == <<stage, dry, live, done, granted, session, rows, razorpay, recorded,
              failures, crashes>>

NoPass == [links |-> << >>, open |-> {}]
NoSession == {}

-----------------------------------------------------------------------------
(* The allocator.                                                           *)

\* demand_from_log: the executed links, in row order.
Demand(pass) == {pass.links[k] : k \in DOMAIN pass.links}

\* The first link each record asks for.
First(pass) ==
    {r \in Demand(pass) : \A q \in Demand(pass) : q.invoice = r.invoice => r.tick <= q.tick}

\* The sort key (-outstanding, tick, invoice id).
RanksBefore(r, q) ==
    \/ r.outstanding > q.outstanding
    \/ r.outstanding = q.outstanding /\ r.tick < q.tick
    \/ r.outstanding = q.outstanding /\ r.tick = q.tick /\ r.invoice < q.invoice

Shortlist(pass) ==
    {r \in First(pass) : Cardinality({q \in First(pass) : RanksBefore(q, r)}) < Capacity}

Permits(i) == \E r \in Shortlist(dry) : r.invoice = i

\* Mutant: a record may be funded again.
MaySpendAgain(i) == Permits(i) /\ Capacity - Cardinality(granted) > 0

MaySpend(i) == Permits(i) /\ i \notin granted /\ Capacity - Cardinality(granted) > 0

-----------------------------------------------------------------------------
(* run_live_batch.                                                          *)

\* The dry pass, with the simulated executor: it touches no client.
DryPass ==
    /\ stage = "start"
    /\ dry' \in Passes
    /\ stage' = "planned"
    /\ UNCHANGED <<live, done, granted, session, rows, razorpay, recorded, failures, crashes>>

\* Mutant: any open record will do.
AnyPayable == dry.open # {}

Payable == \E r \in Shortlist(dry) : r.invoice \in dry.open

\* NoPayableLink: raised before anything is spent.
RefuseToSpend ==
    /\ stage = "planned"
    /\ RequirePayable /\ ~Payable
    /\ stage' = "refused"
    /\ UNCHANGED <<dry, live, done, granted, session, rows, razorpay, recorded, failures, crashes>>

\* The live pass is the dry one, unless a proposer's answers differ.
StartLivePass ==
    /\ stage = "planned"
    /\ RequirePayable => Payable
    /\ live' \in IF Repeats THEN {dry} ELSE Passes
    /\ stage' = "live"
    /\ UNCHANGED <<dry, done, granted, session, rows, razorpay, recorded, failures, crashes>>

-----------------------------------------------------------------------------
(* LiveRazorpayExecutor.perform, on the next link of the live pass.         *)

Request == live.links[done + 1]
ReferenceId(r) == [invoice |-> r.invoice, tick |-> r.tick]
Performing == stage = "live" /\ done < Len(live.links)

Stamp(kind) ==
    /\ rows' = Append(rows, kind)
    /\ done' = done + 1
    /\ UNCHANGED <<stage, dry, live, recorded, crashes>>

\* Too little is owed, or the allocator refuses: an ordinary simulated row.
Simulate ==
    /\ Performing
    /\ Request.outstanding < MinLink \/ ~MaySpend(Request.invoice)
    /\ Stamp("SIMULATED")
    /\ UNCHANGED <<granted, session, razorpay, failures>>

Creating == Performing /\ Request.outstanding >= MinLink /\ MaySpend(Request.invoice)

CreateSucceeds ==
    /\ Creating
    /\ ReferenceId(Request) \notin razorpay
    /\ razorpay' = razorpay \cup {ReferenceId(Request)}
    /\ granted' = granted \cup {Request.invoice}
    /\ session' = session \cup {ReferenceId(Request)}
    /\ Stamp("LIVE")
    /\ UNCHANGED failures

Failed == failures' = failures \cup {ReferenceId(Request)}

\* Mutant: the unit is committed before there is a link to show for it.
CreateRefusedSpending ==
    /\ Creating
    /\ CreateFails \/ ReferenceId(Request) \in razorpay
    /\ Failed
    /\ granted' = granted \cup {Request.invoice}
    /\ Stamp("SIMULATED")
    /\ UNCHANGED <<session, razorpay>>

\* Any exception degrades the row and leaves the budget where it was.
CreateRefused ==
    /\ Creating
    /\ CreateFails \/ ReferenceId(Request) \in razorpay
    /\ Failed
    /\ Stamp("SIMULATED")
    /\ UNCHANGED <<granted, session, razorpay>>

\* Mutant: an answer without a usable id is taken for a link.
CreateLostAsLive ==
    /\ Creating /\ AnswersLost
    /\ ReferenceId(Request) \notin razorpay
    /\ razorpay' = razorpay \cup {ReferenceId(Request)}
    /\ Failed
    /\ Stamp("LIVE")
    /\ UNCHANGED <<granted, session>>

\* A timeout after the link was made, or an answer without a usable id.
CreateLost ==
    /\ Creating /\ AnswersLost
    /\ ReferenceId(Request) \notin razorpay
    /\ razorpay' = razorpay \cup {ReferenceId(Request)}
    /\ Failed
    /\ Stamp("SIMULATED")
    /\ UNCHANGED <<granted, session>>

-----------------------------------------------------------------------------
(* After the live pass.                                                     *)

\* assert_same_decisions raises, and the command ends.
Diverge ==
    /\ stage = "live" /\ done = Len(live.links)
    /\ live # dry
    /\ stage' = "diverged"
    /\ UNCHANGED <<dry, live, done, granted, session, rows, razorpay, recorded, failures, crashes>>

\* Mutant: a session with failures is not written.
WriteCleanSession ==
    /\ stage = "live" /\ done = Len(live.links)
    /\ live = dry /\ failures = {}
    /\ recorded' = session
    /\ stage' = "done"
    /\ UNCHANGED <<dry, live, done, granted, session, rows, razorpay, failures, crashes>>

\* Mutant: only the links that can still be paid are written.
WriteOpenLinks ==
    /\ stage = "live" /\ done = Len(live.links)
    /\ live = dry
    /\ recorded' = {l \in session : l.invoice \in live.open}
    /\ stage' = "done"
    /\ UNCHANGED <<dry, live, done, granted, session, rows, razorpay, failures, crashes>>

\* _run_live_agent_arm: the session file is written once the run is over.
WriteSession ==
    /\ stage = "live" /\ done = Len(live.links)
    /\ live = dry
    /\ recorded' = session
    /\ stage' = "done"
    /\ UNCHANGED <<dry, live, done, granted, session, rows, razorpay, failures, crashes>>

\* The command dies and is run again under the same run id; only Razorpay
\* remembers.
CrashAndRerun ==
    /\ stage \in {"planned", "live"} /\ crashes < MaxCrashes
    /\ crashes' = crashes + 1
    /\ stage' = "start" /\ dry' = NoPass /\ live' = NoPass /\ done' = 0
    /\ granted' = {} /\ session' = {} /\ rows' = << >> /\ failures' = {}
    /\ UNCHANGED <<razorpay, recorded>>

LiveInit ==
    /\ stage = "start"
    /\ dry = NoPass /\ live = NoPass /\ done = 0
    /\ granted = {} /\ session = {} /\ rows = << >>
    /\ razorpay = {} /\ recorded = NoSession
    /\ failures = {} /\ crashes = 0

LiveNext ==
    \/ DryPass \/ RefuseToSpend \/ StartLivePass
    \/ Simulate \/ CreateSucceeds \/ CreateRefused \/ CreateLost
    \/ Diverge \/ WriteSession \/ CrashAndRerun

LiveSpec == LiveInit /\ [][LiveNext]_liveVars

\* One thread, and the SDK's calls time out.
FairLiveSpec == LiveSpec /\ WF_liveVars(LiveNext)

-----------------------------------------------------------------------------
(* Properties.                                                              *)

(* The budget holds whatever Razorpay does: the process never has more     *)
(* links on its session than its capacity, nor two of one record            *)
(* (LinkAllocator).                                                         *)
LiveBudgetHeld ==
    /\ Cardinality(session) <= Capacity
    /\ \A l, m \in session : l.invoice = m.invoice => l = m

(* A row says LIVE exactly when the session has its link and Razorpay too:  *)
(* a failed or lost create never claims an object nobody can find and burns *)
(* no budget, every unit committed bought an object of the session.         *)
LiveMeansALink ==
    /\ granted = {l.invoice : l \in session} /\ session \subseteq razorpay
    /\ \A k \in 1 .. done :
        rows[k] = "LIVE" <=>
            ReferenceId(live.links[k]) \in session /\ ReferenceId(live.links[k]) \in razorpay

\* Whether the session file names a link of record i that exists, and whether
\* no request of i could be made into one: too little owed, or reported failed.
HasLink(i) == \E l \in recorded \cap razorpay : l.invoice = i
NoneCouldBeMade(i) ==
    \A r \in Demand(dry) : r.invoice = i =>
        r.outstanding < MinLink \/ ReferenceId(r) \in failures

(* The budget goes to the largest receivables and not to the first that     *)
(* ask, whatever fails: a record owed more than one that got its link has   *)
(* one too, unless each of its creates failed.  A failure costs no other    *)
(* record its link, nor the record its next try.                            *)
LargestAreFunded ==
    stage = "done" =>
        \A r, q \in First(dry) :
            (r.outstanding > q.outstanding /\ HasLink(q.invoice) /\ ~HasLink(r.invoice))
                => NoneCouldBeMade(r.invoice)

(* A confirmed run that ends leaves a real link somebody can still pay: one *)
(* the file names, on a record open when the book closes.  Failing that, the *)
(* creates for such a record were tried and failed, or it owed less than a   *)
(* link may ask, which the guard before the spending does not look at.      *)
NothingSpentInVain ==
    (RequirePayable /\ stage = "done") =>
        \E r \in Shortlist(dry) :
            /\ r.invoice \in live.open
            /\ HasLink(r.invoice) \/ NoneCouldBeMade(r.invoice)

(* Every run ends: refused, diverged, or with its session on disk.          *)
LiveRunEnds == <>(stage \in {"refused", "diverged", "done"})

(* The session file names only links that exist and, unless an earlier      *)
(* attempt died, every one whose create was not reported failed: so its     *)
(* payment can be reconciled, and a real link behind a SIMULATED row is one *)
(* the command told its operator of.                                        *)
SessionNamesEveryLink ==
    stage = "done" =>
        /\ recorded \subseteq razorpay
        /\ crashes = 0 => razorpay \ recorded \subseteq failures
=============================================================================
