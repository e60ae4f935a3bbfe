----------------------------- MODULE LiveProofs -----------------------------
(***************************************************************************)
(* The live command as theorems, for every run it may make, every budget    *)
(* and every way Razorpay may fail: what a LIVE row and a unit of the       *)
(* budget mean, who gets the budget, and what the session file names.       *)
(*                                                                         *)
(* The inductive invariant ties the four places a link is written (the      *)
(* budget, the session, the row, Razorpay) to the part of the live pass     *)
(* performed so far; who gets the budget then follows at the end, from the  *)
(* rank of the shortlist.                                                   *)
(***************************************************************************)
EXTENDS LiveRun, FiniteSetTheorems, TLAPS

Asks == [invoice: Records, tick: Nat, outstanding: Nat]

\* A pass asks in the order of its ticks, once a tick for a record at most.
WellFormed(pass) ==
    /\ pass.links \in Seq(Asks)
    /\ \A k \in 1 .. Len(pass.links) : \A j \in 1 .. k - 1 :
          /\ pass.links[j].tick <= pass.links[k].tick
          /\ pass.links[j].invoice = pass.links[k].invoice
                => pass.links[j].tick < pass.links[k].tick

\* Where the command is, and what it has of each pass there.
Stages ==
    /\ stage \in {"start", "planned", "live", "refused", "diverged", "done"}
    /\ WellFormed(dry) /\ WellFormed(live)
    /\ done \in 0 .. Len(live.links)
    /\ rows \in Seq({"LIVE", "SIMULATED"}) /\ Len(rows) = done
    /\ crashes \in Nat
    /\ stage \in {"start", "planned", "refused"} => done = 0 /\ session = {} /\ granted = {}
    /\ stage = "done" => live = dry /\ done = Len(live.links) /\ recorded = session

\* One unit of the budget for each link of the session, one link a record.
Spent ==
    /\ IsFiniteSet(granted) /\ IsFiniteSet(session)
    /\ Cardinality(granted) <= Capacity /\ Cardinality(session) = Cardinality(granted)
    /\ \A l, m \in session : l.invoice = m.invoice => l = m
    /\ \A l \in session : \E k \in 1 .. done : l = ReferenceId(live.links[k])

Shortlisted == {r.invoice : r \in Shortlist(dry)}

\* Request r was no request for a real link, or got one, or found the budget
\* spent, or its create failed.
Answered(r) ==
    \/ ~(r.outstanding >= MinLink)
    \/ r.invoice \in granted
    \/ Cardinality(granted) = Capacity
    \/ ReferenceId(r) \in failures

\* The budget goes to the shortlist, and no record of it was left out but for a
\* failure.
Funded ==
    /\ granted \subseteq Shortlisted
    /\ \A k \in 1 .. done : live.links[k].invoice \in Shortlisted => Answered(live.links[k])

\* What may be spent, and what the file will name.
Named ==
    /\ RequirePayable /\ stage \in {"live", "diverged", "done"} => Payable
    /\ crashes = 0 => razorpay \ session \subseteq failures

LiveInv == Stages /\ Spent /\ LiveMeansALink /\ Funded /\ Named

-----------------------------------------------------------------------------
(* The invariant.                                                           *)

\* Every pass the command may make is well formed, the empty one included.
LEMMA PassesAreWellFormed == \A p \in Passes \cup {NoPass} : WellFormed(p)
  <1>1. ASSUME NEW p \in Passes PROVE WellFormed(p)
    <2>1. p.links \in Seq(Asks)
      BY LiveAssumption, Zenon DEF Asks
    <2>2. \A k \in DOMAIN p.links : \A j \in 1 .. k - 1 :
            /\ p.links[j].tick <= p.links[k].tick
            /\ p.links[j].invoice = p.links[k].invoice => p.links[j].tick < p.links[k].tick
      BY LiveAssumption, Zenon
    <2> QED BY <2>1, <2>2 DEF WellFormed
  <1>2. WellFormed(NoPass)
    BY DEF WellFormed, NoPass
  <1> QED BY <1>1, <1>2

\* The shortlist is the dry pass's, and stays while that does.
LEMMA SameDry ==
    ASSUME dry' = dry
    PROVE  Shortlisted' = Shortlisted /\ (Payable' <=> Payable)
  BY DEF Shortlisted, Payable, Shortlist, First, Demand, RanksBefore

\* The allocator permits exactly the records run_live_batch shortlisted.
LEMMA PermitsShortlisted == \A i : Permits(i) <=> i \in Shortlisted
  BY DEF Permits, Shortlisted

\* The invariant holds as the command starts, before the dry pass.
LEMMA InitLive == LiveInit => LiveInv
  <1> SUFFICES ASSUME LiveInit PROVE LiveInv
    OBVIOUS
  <1>1. Stages
    <2>1. WellFormed(dry) /\ WellFormed(live)
      BY PassesAreWellFormed DEF LiveInit
    <2>2. live.links = << >> /\ rows = << >>
      BY DEF LiveInit, NoPass
    <2>3. Len(live.links) = 0 /\ rows \in Seq({"LIVE", "SIMULATED"}) /\ Len(rows) = 0
      BY <2>2
    <2>4. done \in 0 .. Len(live.links) /\ rows \in Seq({"LIVE", "SIMULATED"}) /\ Len(rows) = done
      BY <2>3 DEF LiveInit
    <2>5. /\ stage = "start" /\ done = 0 /\ session = {} /\ granted = {}
          /\ crashes = 0
      BY DEF LiveInit
    <2> QED BY <2>1, <2>4, <2>5 DEF Stages
  <1>2. Spent
    BY FS_EmptySet, LiveAssumption DEF LiveInit, Spent
  <1>3. LiveMeansALink /\ Funded /\ Named
    BY DEF LiveInit, LiveMeansALink, Funded, Named, NoPass
  <1> QED BY <1>1, <1>2, <1>3 DEF LiveInv

\* The next link of the live pass is well formed, and none before it was for
\* the same record and tick.
LEMMA RequestType ==
    ASSUME LiveInv, Performing
    PROVE  /\ Request \in Asks /\ done + 1 \in 1 .. Len(live.links)
           /\ ReferenceId(Request) \notin session
           /\ \A k \in 1 .. done : ReferenceId(live.links[k]) # ReferenceId(Request)
  <1>1. /\ done \in Nat /\ Len(live.links) \in Nat /\ done < Len(live.links)
        /\ live.links \in Seq(Asks)
    BY DEF LiveInv, Stages, WellFormed, Performing
  <1>2. done + 1 \in 1 .. Len(live.links)
    BY <1>1
  <1>3. Request \in Asks /\ \A k \in 1 .. done : live.links[k] \in Asks
    BY <1>1, <1>2 DEF Request
  <1>4. ASSUME NEW k \in 1 .. done PROVE ReferenceId(live.links[k]) # ReferenceId(Request)
    <2>1. k \in 1 .. (done + 1) - 1
      BY <1>1
    <2>2. live.links[k].invoice = Request.invoice => live.links[k].tick < Request.tick
      BY <1>2, <2>1 DEF LiveInv, Stages, WellFormed, Request
    <2> QED BY <1>3, <2>2 DEF ReferenceId, Asks
  <1>5. ReferenceId(Request) \notin session
    BY <1>4 DEF LiveInv, Spent
  <1> QED BY <1>2, <1>3, <1>4, <1>5

\* The stamp puts one more row on the pass and the rows before it stay.
LEMMA StampEffect ==
    ASSUME LiveInv, Performing, NEW kind \in {"LIVE", "SIMULATED"}, Stamp(kind)
    PROVE  /\ done' = done + 1 /\ rows' \in Seq({"LIVE", "SIMULATED"}) /\ Len(rows') = done'
           /\ rows'[done + 1] = kind /\ \A k \in 1 .. done : rows'[k] = rows[k]
           /\ 1 .. done' = (1 .. done) \cup {done + 1}
           /\ done' \in 0 .. Len(live.links)
           /\ UNCHANGED <<stage, dry, live, recorded, crashes>>
  <1>1. rows \in Seq({"LIVE", "SIMULATED"}) /\ Len(rows) = done /\ done \in Nat
    BY DEF LiveInv, Stages
  <1>2. rows' = Append(rows, kind) /\ done' = done + 1
        /\ UNCHANGED <<stage, dry, live, recorded, crashes>>
    BY DEF Stamp
  <1>3. done' \in 0 .. Len(live.links) /\ 1 .. done' = (1 .. done) \cup {done + 1}
    BY <1>1, <1>2, RequestType
  <1> QED BY <1>1, <1>2, <1>3

\* A create that succeeds takes one unit, for a record that had none.
LEMMA CreateKeeps == LiveInv /\ CreateSucceeds => LiveInv'
  <1> SUFFICES ASSUME LiveInv, CreateSucceeds PROVE LiveInv'
    OBVIOUS
  <1> DEFINE ref == ReferenceId(Request)
             i == Request.invoice
  <1>1. /\ Performing /\ Stamp("LIVE") /\ ref \notin razorpay
        /\ razorpay' = razorpay \cup {ref} /\ granted' = granted \cup {i}
        /\ session' = session \cup {ref} /\ failures' = failures
        /\ Permits(i) /\ i \notin granted /\ Capacity - Cardinality(granted) > 0
        /\ stage = "live"
    BY DEF CreateSucceeds, Creating, MaySpend, Performing
  <1>2. /\ Request \in Asks /\ ref.invoice = i
        /\ \A k \in 1 .. done : ReferenceId(live.links[k]) # ref
    BY <1>1, RequestType DEF ReferenceId
  <1>3. /\ done' = done + 1 /\ rows' \in Seq({"LIVE", "SIMULATED"}) /\ Len(rows') = done'
        /\ rows'[done + 1] = "LIVE" /\ \A k \in 1 .. done : rows'[k] = rows[k]
        /\ 1 .. done' = (1 .. done) \cup {done + 1}
        /\ done' \in 0 .. Len(live.links)
        /\ UNCHANGED <<stage, dry, live, recorded, crashes>>
    BY <1>1, StampEffect
  <1>4. ref = ReferenceId(live.links[done + 1])
    BY DEF Request
  <1> HIDE DEF ref, i
  <1>5. Stages'
    BY <1>1, <1>3 DEF LiveInv, Stages
  <1>6. Spent'
    <2>1. /\ IsFiniteSet(granted) /\ IsFiniteSet(session)
          /\ Cardinality(granted) \in Nat /\ Cardinality(session) = Cardinality(granted)
      BY FS_CardinalityType DEF LiveInv, Spent
    <2>2. ref \notin session
      BY <1>1 DEF LiveInv, LiveMeansALink
    <2>3. /\ IsFiniteSet(granted') /\ IsFiniteSet(session')
          /\ Cardinality(granted') = Cardinality(granted) + 1
          /\ Cardinality(session') = Cardinality(session) + 1
      BY <1>1, <2>1, <2>2, FS_AddElement
    <2>4. Cardinality(granted') <= Capacity
      BY <1>1, <2>1, <2>3, LiveAssumption
    <2>5. \A l \in session : l.invoice # i
      BY <1>1 DEF LiveInv, LiveMeansALink
    <2>6. \A l, m \in session' : l.invoice = m.invoice => l = m
      BY <1>1, <1>2, <2>5 DEF LiveInv, Spent
    <2>7. \A l \in session' : \E k \in 1 .. done' : l = ReferenceId(live.links[k])
      BY <1>1, <1>3, <1>4 DEF LiveInv, Spent
    <2>8. \A l \in session' : \E k \in 1 .. done' : l = ReferenceId(live'.links[k])
      BY <1>3, <2>7
    <2> QED BY <2>1, <2>3, <2>4, <2>6, <2>8 DEF Spent, ReferenceId
  <1>7. LiveMeansALink'
    <2>1. granted' = {l.invoice : l \in session'} /\ session' \subseteq razorpay'
      BY <1>1, <1>2 DEF LiveInv, LiveMeansALink
    <2>2. ASSUME NEW k \in 1 .. done'
          PROVE  rows'[k] = "LIVE" <=> ReferenceId(live.links[k]) \in session'
                                       /\ ReferenceId(live.links[k]) \in razorpay'
      <3>1. CASE k = done + 1
        BY <1>1, <1>3, <1>4, <3>1
      <3>2. CASE k \in 1 .. done
        BY <1>1, <1>2, <1>3, <3>2 DEF LiveInv, LiveMeansALink
      <3> QED BY <1>3, <3>1, <3>2
    <2>3. \A k \in 1 .. done' :
            rows'[k] = "LIVE" <=> ReferenceId(live'.links[k]) \in session'
                                  /\ ReferenceId(live'.links[k]) \in razorpay'
      BY <1>3, <2>2
    <2> QED BY <2>1, <2>3 DEF LiveMeansALink, ReferenceId
  <1>8. Shortlisted' = Shortlisted /\ (Payable' <=> Payable) /\ i \in Shortlisted
    BY <1>1, <1>3, SameDry, PermitsShortlisted
  <1>9. Funded'
    <2>1. Cardinality(granted) # Capacity
      BY <1>1, LiveAssumption, FS_CardinalityType DEF LiveInv, Spent
    <2>2. ASSUME NEW k \in 1 .. done', live.links[k].invoice \in Shortlisted
          PROVE  \/ ~(live.links[k].outstanding >= MinLink)
                 \/ live.links[k].invoice \in granted'
                 \/ ReferenceId(live.links[k]) \in failures'
      <3>1. CASE k = done + 1
        BY <1>1, <1>3, <3>1 DEF Request, i
      <3>2. CASE k \in 1 .. done
        BY <1>1, <1>3, <2>1, <2>2, <3>2 DEF LiveInv, Funded, Answered
      <3> QED BY <1>3, <3>1, <3>2
    <2>3. \A k \in 1 .. done' : live'.links[k].invoice \in Shortlisted => Answered(live.links[k])'
      BY <1>3, <2>2 DEF Answered, ReferenceId
    <2> QED BY <1>1, <1>3, <1>8, <2>3 DEF LiveInv, Funded
  <1>10. Named'
    BY <1>1, <1>3, <1>8 DEF LiveInv, Named
  <1> QED BY <1>5, <1>6, <1>7, <1>9, <1>10 DEF LiveInv

\* A link that is not made leaves the budget and the session where they were,
\* and its row says so.
LEMMA SimulatedKeeps ==
    ASSUME LiveInv, Performing, Stamp("SIMULATED"), UNCHANGED <<granted, session>>,
           razorpay \subseteq razorpay',
           \/ /\ failures' = failures /\ razorpay' = razorpay
              /\ Request.outstanding < MinLink \/ ~MaySpend(Request.invoice)
           \/ Failed /\ razorpay' \subseteq razorpay \cup {ReferenceId(Request)}
    PROVE  LiveInv'
  <1> DEFINE i == Request.invoice
  <1>1. /\ Request \in Asks /\ ReferenceId(live.links[done + 1]) \notin session
    BY RequestType DEF Request
  <1>2. /\ done' = done + 1 /\ rows' \in Seq({"LIVE", "SIMULATED"}) /\ Len(rows') = done'
        /\ rows'[done + 1] = "SIMULATED" /\ \A k \in 1 .. done : rows'[k] = rows[k]
        /\ 1 .. done' = (1 .. done) \cup {done + 1}
        /\ done' \in 0 .. Len(live.links)
        /\ UNCHANGED <<stage, dry, live, recorded, crashes>>
    BY StampEffect
  <1>3. stage = "live"
    BY DEF Performing
  <1>4. Stages'
    BY <1>2, <1>3 DEF LiveInv, Stages
  <1>5. Spent'
    <2>1. \A l \in session' : \E k \in 1 .. done' : l = ReferenceId(live.links[k])
      BY <1>2 DEF LiveInv, Spent
    <2>2. \A l \in session' : \E k \in 1 .. done' : l = ReferenceId(live'.links[k])
      BY <1>2, <2>1
    <2> QED BY <2>2 DEF LiveInv, Spent, ReferenceId
  <1>6. LiveMeansALink'
    <2>1. \A k \in 1 .. done' :
            rows'[k] = "LIVE" <=> ReferenceId(live.links[k]) \in session
                                  /\ ReferenceId(live.links[k]) \in razorpay
      BY <1>1, <1>2 DEF LiveInv, LiveMeansALink
    <2>2. session \subseteq razorpay /\ session \subseteq razorpay'
      BY DEF LiveInv, LiveMeansALink
    <2>3. \A k \in 1 .. done' :
            rows'[k] = "LIVE" <=> ReferenceId(live'.links[k]) \in session'
                                  /\ ReferenceId(live'.links[k]) \in razorpay'
      BY <1>2, <2>1, <2>2
    <2> QED BY <2>2, <2>3 DEF LiveInv, LiveMeansALink, ReferenceId
  <1>7. Shortlisted' = Shortlisted /\ (Payable' <=> Payable)
    BY <1>2, SameDry
  <1>8. Funded'
    <2>1. Cardinality(granted) \in Nat /\ Cardinality(granted) <= Capacity
      BY FS_CardinalityType DEF LiveInv, Spent
    <2>2. MaySpend(i) <=> i \in Shortlisted /\ i \notin granted /\ Cardinality(granted) # Capacity
      BY <2>1, LiveAssumption, PermitsShortlisted DEF MaySpend
    <2>3. ASSUME NEW k \in 1 .. done', live.links[k].invoice \in Shortlisted
          PROVE  \/ ~(live.links[k].outstanding >= MinLink)
                 \/ live.links[k].invoice \in granted \/ Cardinality(granted) = Capacity
                 \/ ReferenceId(live.links[k]) \in failures'
      <3>1. CASE k = done + 1
        <4>1. live.links[k] = Request /\ live.links[k].invoice = i /\ Request.outstanding \in Nat
          BY <1>1, <3>1 DEF Request, Asks
        <4>2. CASE Request.outstanding < MinLink \/ ~MaySpend(Request.invoice)
          BY <2>2, <2>3, <4>1, <4>2, LiveAssumption
        <4>3. CASE Failed
          BY <4>1, <4>3 DEF Failed
        <4> QED BY <4>2, <4>3
      <3>2. CASE k \in 1 .. done
        BY <2>3, <3>2 DEF LiveInv, Funded, Answered, Failed
      <3> QED BY <1>2, <3>1, <3>2
    <2>4. \A k \in 1 .. done' : live'.links[k].invoice \in Shortlisted => Answered(live.links[k])'
      BY <1>2, <2>3 DEF Answered, ReferenceId
    <2> QED BY <1>2, <1>7, <2>4 DEF LiveInv, Funded
  <1>9. Named'
    BY <1>2, <1>7 DEF LiveInv, Named, Failed
  <1> QED BY <1>4, <1>5, <1>6, <1>8, <1>9 DEF LiveInv

\* Nothing of the invariant but its first part looks at the stage of a command
\* that has not begun the live pass, or has performed all of it.
LEMMA SameLinks ==
    ASSUME LiveInv, UNCHANGED <<dry, live, done, granted, session, rows, razorpay, failures, crashes>>
    PROVE  Spent' /\ LiveMeansALink' /\ Funded' /\ Shortlisted' = Shortlisted /\ (Payable' <=> Payable)
  <1>1. Shortlisted' = Shortlisted /\ (Payable' <=> Payable)
    BY SameDry
  <1>2. Spent' /\ LiveMeansALink'
    BY DEF LiveInv, Spent, LiveMeansALink, ReferenceId
  <1>3. Funded'
    BY <1>1 DEF LiveInv, Funded, Answered, ReferenceId
  <1> QED BY <1>1, <1>2, <1>3

\* A command with no link performed, and no unit spent, satisfies what is said
\* of links and units.
LEMMA NothingYet ==
    ASSUME granted' = {}, session' = {}, done' = 0
    PROVE  Spent' /\ LiveMeansALink' /\ Funded'
  BY FS_EmptySet, LiveAssumption DEF Spent, LiveMeansALink, Funded

\* Each step keeps the invariant.
LEMMA StepLive == LiveInv /\ [LiveNext]_liveVars => LiveInv'
  <1> SUFFICES ASSUME LiveInv, [LiveNext]_liveVars PROVE LiveInv'
    OBVIOUS
  <1>1. CASE DryPass
    <2>1. WellFormed(dry)'
      BY <1>1, PassesAreWellFormed DEF DryPass, WellFormed
    <2>2. Stages'
      BY <1>1, <2>1 DEF DryPass, LiveInv, Stages, WellFormed
    <2>3. Spent' /\ LiveMeansALink' /\ Funded'
      BY <1>1, NothingYet DEF DryPass, LiveInv, Stages
    <2>4. Named'
      BY <1>1 DEF DryPass, LiveInv, Named
    <2> QED BY <2>2, <2>3, <2>4 DEF LiveInv
  <1>2. CASE RefuseToSpend
    <2>1. Stages'
      BY <1>2 DEF RefuseToSpend, LiveInv, Stages, WellFormed
    <2>2. Spent' /\ LiveMeansALink' /\ Funded'
      BY <1>2, SameLinks DEF RefuseToSpend
    <2>3. Named'
      BY <1>2 DEF RefuseToSpend, LiveInv, Named
    <2> QED BY <2>1, <2>2, <2>3 DEF LiveInv
  <1>3. CASE StartLivePass
    <2>1. WellFormed(live)'
      BY <1>3, PassesAreWellFormed DEF StartLivePass, WellFormed, LiveInv, Stages
    <2>2. Stages'
      BY <1>3, <2>1 DEF StartLivePass, LiveInv, Stages, WellFormed
    <2>3. Spent' /\ LiveMeansALink' /\ Funded'
      BY <1>3, NothingYet DEF StartLivePass, LiveInv, Stages
    <2>4. Payable' <=> Payable
      BY <1>3, SameDry DEF StartLivePass
    <2>5. Named'
      BY <1>3, <2>4 DEF StartLivePass, LiveInv, Named
    <2> QED BY <2>2, <2>3, <2>5 DEF LiveInv
  <1>4. CASE Simulate
    BY <1>4, SimulatedKeeps DEF Simulate
  <1>5. CASE CreateSucceeds
    BY <1>5, CreateKeeps
  <1>6. CASE CreateRefused \/ CreateLost
    BY <1>6, SimulatedKeeps DEF CreateRefused, CreateLost, Creating
  <1>7. CASE Diverge \/ WriteSession
    <2>1. /\ stage = "live" /\ stage' \in {"diverged", "done"}
          /\ UNCHANGED <<dry, live, done, granted, session, rows, razorpay, failures, crashes>>
          /\ stage' = "done" => live = dry /\ done = Len(live.links) /\ recorded' = session
      BY <1>7 DEF Diverge, WriteSession
    <2>2. Stages'
      BY <2>1 DEF LiveInv, Stages, WellFormed
    <2>3. Spent' /\ LiveMeansALink' /\ Funded' /\ (Payable' <=> Payable)
      BY <2>1, SameLinks
    <2>4. Named'
      BY <2>1, <2>3 DEF LiveInv, Named
    <2> QED BY <2>2, <2>3, <2>4 DEF LiveInv
  <1>8. CASE CrashAndRerun
    <2>1. WellFormed(NoPass) /\ NoPass.links = << >>
      BY PassesAreWellFormed DEF NoPass
    <2>2. rows' \in Seq({"LIVE", "SIMULATED"}) /\ Len(rows') = 0 /\ Len(NoPass.links) = 0
      BY <1>8, <2>1 DEF CrashAndRerun
    <2>3. WellFormed(dry)' /\ WellFormed(live)'
      BY <1>8, <2>1 DEF CrashAndRerun, WellFormed
    <2>4. done' \in 0 .. Len(live'.links) /\ Len(rows') = done'
      BY <1>8, <2>2 DEF CrashAndRerun
    <2>5. /\ stage' = "start" /\ done' = 0 /\ session' = {} /\ granted' = {}
          /\ crashes' \in Nat
      BY <1>8 DEF CrashAndRerun, LiveInv, Stages
    <2>6. Stages'
      BY <2>2, <2>3, <2>4, <2>5 DEF Stages
    <2>7. Spent' /\ LiveMeansALink' /\ Funded'
      BY <1>8, NothingYet DEF CrashAndRerun
    <2>8. Named'
      BY <1>8 DEF CrashAndRerun, LiveInv, Stages, Named
    <2> QED BY <2>6, <2>7, <2>8 DEF LiveInv
  <1>9. CASE UNCHANGED liveVars
    <2>1. Stages'
      BY <1>9 DEF liveVars, LiveInv, Stages, WellFormed
    <2>2. Spent' /\ LiveMeansALink' /\ Funded' /\ (Payable' <=> Payable)
      BY <1>9, SameLinks DEF liveVars
    <2>3. Named'
      BY <1>9, <2>2 DEF liveVars, LiveInv, Named
    <2> QED BY <2>1, <2>2, <2>3 DEF LiveInv
  <1> QED BY <1>1, <1>2, <1>3, <1>4, <1>5, <1>6, <1>7, <1>8, <1>9 DEF LiveNext

\* run_live_batch keeps the budget, the rows, the session and the links on
\* Razorpay in agreement at every step, over every pass and every failure.
THEOREM LiveInvariant == LiveSpec => []LiveInv
  BY InitLive, StepLive, PTL DEF LiveSpec

-----------------------------------------------------------------------------
(* Budget, rows and session.                                                *)

\* The process never has more links on its session than the capacity it was
\* given, nor two of one record, whatever Razorpay answers and however often
\* the command dies.
THEOREM LiveBudgetAlwaysHeld == LiveSpec => []LiveBudgetHeld
  <1>1. LiveInv => LiveBudgetHeld
    BY DEF LiveInv, Spent, LiveBudgetHeld
  <1> QED BY <1>1, LiveInvariant, PTL

\* A row says LIVE exactly when the link is on the session and at Razorpay,
\* and every unit of the budget bought one.
THEOREM LiveAlwaysMeansALink == LiveSpec => []LiveMeansALink
  <1>1. LiveInv => LiveMeansALink
    BY DEF LiveInv
  <1> QED BY <1>1, LiveInvariant, PTL

\* The session file of a command that ends names only links that exist and, at
\* a first attempt, every one but those whose create was reported failed.
THEOREM SessionAlwaysNamesEveryLink == LiveSpec => []SessionNamesEveryLink
  <1>1. LiveInv => SessionNamesEveryLink
    BY DEF LiveInv, Stages, LiveMeansALink, Named, SessionNamesEveryLink
  <1> QED BY <1>1, LiveInvariant, PTL

-----------------------------------------------------------------------------
(* Who gets the budget.                                                     *)

Asking == First(dry)
Ahead(r) == {q \in Asking : RanksBefore(q, r)}

\* Each record that asks is ranked once, by its first request.
LEMMA AskingType ==
    ASSUME LiveInv
    PROVE  /\ IsFiniteSet(Asking) /\ Asking \subseteq Asks
           /\ \A r, q \in Asking : r.invoice = q.invoice => r = q
  <1> DEFINE links == dry.links
  <1>1. /\ links \in Seq(Asks) /\ Len(links) \in Nat /\ DOMAIN links = 1 .. Len(links)
        /\ \A k \in 1 .. Len(links) : links[k] \in Asks
        /\ \A k \in 1 .. Len(links) : \A j \in 1 .. k - 1 :
             links[j].invoice = links[k].invoice => links[j].tick < links[k].tick
    BY DEF LiveInv, Stages, WellFormed
  <1>2. Demand(dry) = {links[k] : k \in 1 .. Len(links)}
    BY <1>1 DEF Demand
  <1> HIDE DEF links
  <1>3. IsFiniteSet(Demand(dry))
    <2> DEFINE f == [k \in 1 .. Len(links) |-> links[k]]
    <2>1. f \in Surjection(1 .. Len(links), Demand(dry))
      BY <1>2 DEF Surjection
    <2>2. IsFiniteSet(1 .. Len(links))
      BY <1>1, FS_Interval
    <2> HIDE DEF f
    <2> QED BY <2>1, <2>2, FS_Surjection
  <1>4. Asking \in SUBSET Demand(dry)
    BY DEF Asking, First
  <1>5. ASSUME NEW r \in Asking, NEW q \in Asking, r.invoice = q.invoice PROVE r = q
    <2>1. PICK k \in 1 .. Len(links), j \in 1 .. Len(links) : r = links[k] /\ q = links[j]
      BY <1>2, <1>4
    <2>2. links[k].tick <= links[j].tick /\ links[j].tick <= links[k].tick
      BY <1>4, <1>5, <2>1 DEF Asking, First
    <2>3. links[k].tick \in Nat /\ links[j].tick \in Nat
      BY <1>1 DEF Asks
    <2>4. ~(k < j) /\ ~(j < k)
      BY <1>1, <1>5, <2>1, <2>2, <2>3
    <2>5. k = j
      BY <1>1, <2>4
    <2> QED BY <2>1, <2>5
  <1> QED BY <1>1, <1>2, <1>3, <1>4, <1>5, FS_Subset

\* Whoever ranks before another has fewer ahead of it.
LEMMA FewerAhead ==
    ASSUME LiveInv, NEW r \in Asking, NEW q \in Asking, RanksBefore(r, q)
    PROVE  /\ Cardinality(Ahead(r)) \in Nat /\ Cardinality(Ahead(q)) \in Nat
           /\ Cardinality(Ahead(r)) < Cardinality(Ahead(q))
  <1>1. /\ IsFiniteSet(Asking)
        /\ \A x \in Asking : x.invoice \in Nat /\ x.tick \in Nat /\ x.outstanding \in Nat
    BY AskingType, LiveAssumption DEF Asks
  <1>2. Ahead(r) \in SUBSET Ahead(q)
    BY <1>1 DEF Ahead, RanksBefore
  <1>3. r \in Ahead(q) /\ r \notin Ahead(r)
    BY <1>1 DEF Ahead, RanksBefore
  <1>4. IsFiniteSet(Ahead(q)) /\ IsFiniteSet(Ahead(r))
    <2>1. Ahead(q) \in SUBSET Asking /\ Ahead(r) \in SUBSET Asking
      BY DEF Ahead
    <2> QED BY <1>1, <2>1, FS_Subset
  <1>5. Cardinality(Ahead(r)) <= Cardinality(Ahead(q)) /\ Cardinality(Ahead(r)) # Cardinality(Ahead(q))
    BY <1>2, <1>3, <1>4, FS_Subset
  <1>6. Cardinality(Ahead(r)) \in Nat /\ Cardinality(Ahead(q)) \in Nat
    BY <1>4, FS_CardinalityType
  <1> QED BY <1>5, <1>6

\* The shortlist is no longer than the budget.
LEMMA ShortlistFits ==
    ASSUME LiveInv
    PROVE  IsFiniteSet(Shortlisted) /\ Cardinality(Shortlisted) <= Capacity
  <1> DEFINE short == Shortlist(dry)
             rank == [r \in short |-> Cardinality(Ahead(r))]
  <1>1. short = {r \in Asking : Cardinality(Ahead(r)) < Capacity}
    BY DEF Shortlist, Asking, Ahead
  <1>2. IsFiniteSet(Asking) /\ \A r \in Asking : r \in Asks
    BY AskingType
  <1>3. \A r \in short : Cardinality(Ahead(r)) \in 0 .. Capacity - 1
    <2> SUFFICES ASSUME NEW r \in short PROVE Cardinality(Ahead(r)) \in 0 .. Capacity - 1
      OBVIOUS
    <2>1. Ahead(r) \in SUBSET Asking
      BY DEF Ahead
    <2>2. Cardinality(Ahead(r)) \in Nat
      BY <1>2, <2>1, FS_Subset, FS_CardinalityType
    <2> QED BY <1>1, <2>2, LiveAssumption
  <1>4. ASSUME NEW r \in short, NEW q \in short, r # q
        PROVE  Cardinality(Ahead(r)) # Cardinality(Ahead(q))
    <2>1. r \in Asking /\ q \in Asking /\ r.invoice # q.invoice
      BY <1>1, <1>4, AskingType
    <2>2. /\ r.outstanding \in Nat /\ r.tick \in Nat /\ r.invoice \in Nat
          /\ q.outstanding \in Nat /\ q.tick \in Nat /\ q.invoice \in Nat
      BY <1>2, <2>1, LiveAssumption DEF Asks
    <2>3. RanksBefore(r, q) \/ RanksBefore(q, r)
      BY <2>1, <2>2 DEF RanksBefore
    <2> QED BY <2>1, <2>3, FewerAhead
  <1>5. rank \in Injection(short, 0 .. Capacity - 1)
    BY <1>3, <1>4 DEF Injection, IsInjective
  <1>6. IsFiniteSet(0 .. Capacity - 1) /\ Cardinality(0 .. Capacity - 1) = Capacity
    BY FS_Interval, LiveAssumption
  <1> HIDE DEF rank, short
  <1>7. IsFiniteSet(short) /\ Cardinality(short) <= Capacity
    BY <1>5, <1>6, FS_Injection
  <1>8. [r \in short |-> r.invoice] \in Surjection(short, Shortlisted)
    BY DEF Surjection, Shortlisted, short
  <1>9. IsFiniteSet(Shortlisted) /\ Cardinality(Shortlisted) <= Cardinality(short)
    BY <1>7, <1>8, FS_Surjection
  <1> QED BY <1>7, <1>9, FS_CardinalityType, LiveAssumption

\* At the end of a run a record of the shortlist has a link on the file, or
\* each of its requests was too small or its create failed: the budget was
\* enough for the whole shortlist.
LEMMA ShortlistIsServed ==
    ASSUME LiveInv, stage = "done", NEW i \in Shortlisted, ~HasLink(i)
    PROVE  NoneCouldBeMade(i)
  <1>1. /\ live = dry /\ done = Len(dry.links) /\ recorded = session /\ dry.links \in Seq(Asks)
    BY DEF LiveInv, Stages, WellFormed
  <1>2. i \notin granted
    BY <1>1 DEF LiveInv, LiveMeansALink, HasLink
  <1>3. Cardinality(granted) # Capacity
    <2>1. /\ IsFiniteSet(Shortlisted \ {i})
          /\ Cardinality(Shortlisted \ {i}) = Cardinality(Shortlisted) - 1
      BY ShortlistFits, FS_RemoveElement
    <2>2. granted \in SUBSET (Shortlisted \ {i})
      BY <1>2 DEF LiveInv, Funded
    <2>3. Cardinality(granted) <= Cardinality(Shortlisted) - 1 /\ Cardinality(granted) \in Nat
      BY <2>1, <2>2, FS_Subset, FS_CardinalityType
    <2>4. Cardinality(Shortlisted) \in Nat /\ Cardinality(Shortlisted) <= Capacity
      BY ShortlistFits, FS_CardinalityType
    <2> QED BY <2>3, <2>4, LiveAssumption
  <1>4. ASSUME NEW r \in Demand(dry), r.invoice = i
        PROVE  r.outstanding < MinLink \/ ReferenceId(r) \in failures
    <2>1. PICK k \in 1 .. done : r = live.links[k]
      BY <1>1 DEF Demand
    <2>2. Answered(r)
      BY <1>4, <2>1 DEF LiveInv, Funded
    <2>3. r.outstanding \in Nat
      <3>1. k \in 1 .. Len(dry.links) /\ r = dry.links[k]
        BY <1>1, <2>1
      <3>2. dry.links[k] \in Asks
        BY <1>1, <3>1
      <3> QED BY <3>1, <3>2 DEF Asks
    <2> QED BY <1>2, <1>3, <1>4, <2>2, <2>3, LiveAssumption DEF Answered
  <1> QED BY <1>4 DEF NoneCouldBeMade

\* Whatever fails, a record owed more than one that got its link has one too,
\* unless each of its creates failed.
THEOREM LargestAreAlwaysFunded == LiveSpec => []LargestAreFunded
  <1>1. LiveInv => LargestAreFunded
    <2>1. SUFFICES ASSUME LiveInv, stage = "done", NEW r \in Asking, NEW q \in Asking,
                          r.outstanding > q.outstanding, HasLink(q.invoice), ~HasLink(r.invoice)
                   PROVE  NoneCouldBeMade(r.invoice)
      BY DEF LargestAreFunded, Asking
    <2>2. q \in Shortlist(dry)
      <3>1. q.invoice \in granted /\ granted \subseteq Shortlisted
        BY <2>1 DEF LiveInv, Stages, LiveMeansALink, Funded, HasLink
      <3>2. PICK s \in Shortlist(dry) : s.invoice = q.invoice
        BY <3>1 DEF Shortlisted
      <3>3. s \in Asking
        BY <3>2 DEF Shortlist, Asking
      <3> QED BY <2>1, <3>2, <3>3, AskingType
    <2>3. RanksBefore(r, q)
      BY <2>1 DEF RanksBefore
    <2>4. r \in Shortlist(dry)
      <3>1. Cardinality(Ahead(q)) < Capacity
        BY <2>2 DEF Shortlist, Ahead, Asking
      <3>2. Cardinality(Ahead(r)) < Capacity
        BY <2>1, <2>3, <3>1, FewerAhead, LiveAssumption
      <3> QED BY <2>1, <3>2 DEF Shortlist, Ahead, Asking
    <2>5. r.invoice \in Shortlisted
      BY <2>4 DEF Shortlisted
    <2> QED BY <2>1, <2>5, ShortlistIsServed
  <1> QED BY <1>1, LiveInvariant, PTL

\* A run that must be payable and ends leaves a record that is open at the
\* close with a link the file names, unless what was tried for one failed.
THEOREM NothingIsSpentInVain == LiveSpec => []NothingSpentInVain
  <1>1. LiveInv => NothingSpentInVain
    <2> SUFFICES ASSUME LiveInv, RequirePayable, stage = "done"
                 PROVE  \E r \in Shortlist(dry) :
                            /\ r.invoice \in live.open
                            /\ HasLink(r.invoice) \/ NoneCouldBeMade(r.invoice)
      BY DEF NothingSpentInVain
    <2>1. PICK r \in Shortlist(dry) : r.invoice \in dry.open
      BY DEF LiveInv, Named, Payable
    <2>2. live = dry /\ r.invoice \in Shortlisted
      BY DEF LiveInv, Stages, Shortlisted
    <2> QED BY <2>1, <2>2, ShortlistIsServed
  <1> QED BY <1>1, LiveInvariant, PTL
=============================================================================
