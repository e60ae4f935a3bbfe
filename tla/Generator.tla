------------------------------ MODULE Generator ------------------------------
(***************************************************************************)
(* The seeded batch: how many records of each archetype, the cluster of     *)
(* nine that is written first, the rest of the book payer by payer, and the *)
(* templates each record's prose is drawn from.  Every draw of the record's *)
(* own RNG is a choice; two fractions that are equal are ordered by their   *)
(* rounding errors, so either may come first.                               *)
(*                                                                         *)
(* Dates are days from the epoch.  Amounts, names, slot values and the day  *)
(* a reply came are not told apart here.                                    *)
(***************************************************************************)
EXTENDS Integers, Sequences, FiniteSets, FiniteSetsExt, SequencesExt

CONSTANTS
    Counts,        \* sizes asked for (a bound)
    Templates,     \* the CLUSTER pool: ids by kind and strength
    GeneralPool,   \* the GENERAL pool: ids by kind and archetype
    SomeOverdue,   \* days overdue a record of an archetype is drawn at (a bound)
    SomeTerms,     \* credit terms it is drawn at (a bound)
    SomeLateness,  \* days late its prior bills were settled (a bound)
    SomeGaps,      \* days beyond 34 between two prior bills (a bound)
    MaxPriors      \* of a payer's prior bills, how many of the newest are kept (a bound)

Reliable == "RELIABLE_BUT_SLOW"
Disputing == "DISPUTING"
ArchetypeOrder ==
    <<Reliable, "CHRONIC_LATE", Disputing, "DISTRESSED", "SILENT", "PAID_UNRECONCILED">>
Kinds == Range(ArchetypeOrder)

\* PROFILES: count, days_overdue_range, payment_terms_days, prior_invoices_range
\* and prior_lateness_range.
Kind(n, overdue, terms, priors, late) ==
    [count |-> n, overdue |-> overdue, terms |-> terms, priors |-> priors, late |-> late]
Table ==
    <<Kind(34, 3 .. 40, {30, 45, 60}, 4 .. 6, 12 .. 45),
      Kind(30, 15 .. 75, {30, 45}, 3 .. 6, 28 .. 85),
      Kind(18, 25 .. 140, {30, 45, 60}, 2 .. 5, 20 .. 70),
      Kind(12, 20 .. 110, {30, 45}, 3 .. 5, 35 .. 95),
      Kind(22, 10 .. 95, {30, 45, 60}, 1 .. 3, 25 .. 90),
      Kind(10, 5 .. 35, {30, 45}, 4 .. 6, 5 .. 30)>>
PayersPerArchetype == <<11, 9, 6, 4, 6, 4>>
RankOf(a) == CHOOSE k \in 1 .. 6 : ArchetypeOrder[k] = a
ProfileOf(a) == Table[RankOf(a)]
BatchSize == 126

ASSUME GeneratorAssumption ==
    /\ Counts \subseteq Nat
    /\ \A a \in Kinds :
           /\ SomeOverdue[a] \subseteq ProfileOf(a).overdue
           /\ SomeTerms[a] \subseteq ProfileOf(a).terms
           /\ SomeLateness[a] \subseteq ProfileOf(a).late
    /\ SomeGaps \subseteq 0 .. 11
    /\ MaxPriors \in Nat

ClusterArchetypes ==
    <<"SILENT", Reliable, "SILENT", "CHRONIC_LATE", "SILENT",
      Reliable, "CHRONIC_LATE", "SILENT", Reliable>>
ClusterHintPlan ==
    <<"WEAK", "STRONG", "WEAK", "MEDIUM", "NONE", "STRONG", "MEDIUM", "NONE", "MEDIUM">>

\* The CLUSTER pool has a note of a band for each of the nine that takes one
\* there (test_corpus.py counts them), and no id names two templates.
Bands == {"STRONG", "MEDIUM", "WEAK"}
ASSUME TemplatesAssumption ==
    \A h \in Bands :
        /\ IsFiniteSet(Templates["NOTE"][h])
        /\ Cardinality(Templates["NOTE"][h]) >= Cardinality({k \in 1 .. 9 : ClusterHintPlan[k] = h})
        /\ \A g \in Bands :
               /\ Templates["NOTE"][h] \cap Templates["EMAIL"][g] = {}
               /\ g # h => Templates["NOTE"][h] \cap Templates["NOTE"][g] = {}

-----------------------------------------------------------------------------
(* Sizes.                                                                   *)

Quota(a, n) == n * ProfileOf(a).count         \* in 126ths of a record
Whole(a, n) == Quota(a, n) \div BatchSize
Fraction(a, n) == Quota(a, n) % BatchSize

\* Mutant: every share is rounded by itself.
ApportionRounded(n) ==
    {[a \in Kinds |-> (2 * Quota(a, n) + BatchSize) \div (2 * BatchSize)]}

\* apportion: the records left over go to the largest fractions.
Apportion(n) ==
    LET left == n - SumFunction([a \in Kinds |-> Whole(a, n)])
        OneMore == {s \in SUBSET Kinds :
                       /\ Cardinality(s) = left
                       /\ \A a \in s, o \in Kinds \ s : Fraction(a, n) >= Fraction(o, n)}
    IN  {[a \in Kinds |-> Whole(a, n) + IF a \in s THEN 1 ELSE 0] : s \in OneMore}

ClusterSize(n) == Min({9, n})
InCluster(a, n) == Cardinality({k \in 1 .. ClusterSize(n) : ClusterArchetypes[k] = a})

\* round(disputing_total * visible_dispute_rate); .667 of a whole number is never a half.
VisibleCount(total) == (total * 667 + 500) \div 1000

\* _split_evenly: how many of "total" the first p payers of a pool of n take,
\* and who takes the j-th.
SplitEvenly(total, n, p) == p * (total \div n) + Min({p, total % n})
PayerSlot(j, total, n) ==
    CHOOSE p \in 0 .. n - 1 : SplitEvenly(total, n, p) <= j /\ j < SplitEvenly(total, n, p + 1)

-----------------------------------------------------------------------------
(* One record.                                                              *)

Without(candidates, spent) ==
    IF candidates \subseteq spent THEN candidates ELSE candidates \ spent

\* The replies, a second one only after a first and of another template if there is one.
Letters(candidates) ==
    {<<e>> : e \in candidates}
        \cup UNION {{<<e, f>> : f \in Without(candidates, {e})} : e \in candidates}

Text(notes, letters) == [note : notes, letters : letters]
NoText == [note |-> {}, letters |-> << >>]

ClusterText(k, spent) ==
    LET hint == ClusterHintPlan[k]
        Left(kind) == Without(Templates[kind][hint], spent)
    IN  IF hint = "NONE" THEN {NoText}
        ELSE Text({{n} : n \in Left("NOTE")}, Letters(Left("EMAIL")))

GeneralText(a, spotlight) ==
    IF spotlight THEN Text({{"PN-02"}}, {<<"ER-01">>})
    ELSE Text({{}} \cup {{n} : n \in GeneralPool["NOTE"][a]},
              {<< >>} \cup Letters(GeneralPool["EMAIL"][a]))

\* The spotlight's own figures, or draws of the profile: an invoice's issue day.
IssueDays(a, spotlight) ==
    IF spotlight THEN {0 - 22 - 45}
    ELSE {0 - late - terms : late \in SomeOverdue[a], terms \in SomeTerms[a]}

\* _prior_history: the days the payer's prior bills were settled on, newest first.
SettleDays(a, issued, k) ==
    {issued - (34 * k + gap) + terms + late :
        gap \in SomeGaps, terms \in SomeTerms[a], late \in SomeLateness[a]}
Histories(a, issued) ==
    LET Kept == {Min({n, MaxPriors}) : n \in ProfileOf(a).priors}
        AnyDay == UNION {SettleDays(a, issued, k) : k \in 1 .. MaxPriors}
    IN  UNION {{h \in [1 .. n -> AnyDay] : \A k \in 1 .. n : h[k] \in SettleDays(a, issued, k)} :
               n \in Kept}

-----------------------------------------------------------------------------
VARIABLES
    count,       \* the size asked for
    shares,      \* what apportion gave each archetype, the cluster included
    stage,       \* "building", "refused" or "written"
    slot,        \* cluster records written
    built,       \* general records written of each archetype
    spent,       \* templates the cluster is to avoid
    carried,     \* those its records carry; both of no use once it is written
    latest,      \* the record written last
    spotlights,  \* records marked as the spotlight
    proseOnly    \* disputing records with no dispute_description

generatorVars == <<count, shares, stage, slot, built, spent, carried, latest, spotlights, proseOnly>>

NoRecord == [text |-> NoText, settled |-> << >>]
Target(a) == shares[a] - InCluster(a, count)

GeneratorInit ==
    /\ count \in Counts /\ shares \in Apportion(count)
    /\ stage = "building" /\ slot = 0 /\ built = [a \in Kinds |-> 0]
    /\ spent = {} /\ carried = {} /\ latest = NoRecord /\ spotlights = 0 /\ proseOnly = 0

\* The ValueError, before any record.
Refuse ==
    /\ stage = "building" /\ slot = 0
    /\ \E a \in Kinds : Target(a) < 0
    /\ stage' = "refused"
    /\ UNCHANGED <<count, shares, slot, built, spent, carried, latest, spotlights, proseOnly>>

Write(a, texts, spotlight) ==
    \E text \in texts, issued \in IssueDays(a, spotlight) :
        \E settled \in Histories(a, issued) :
            latest' = [text |-> text, settled |-> settled]

Used(record) == record.text.note \cup Range(record.text.letters)

\* Mutant: a record avoids only what the record before it used.
WriteClusterForgetful ==
    /\ stage = "building" /\ slot < ClusterSize(count)
    /\ \A a \in Kinds : Target(a) >= 0
    /\ Write(ClusterArchetypes[slot + 1], ClusterText(slot + 1, spent), FALSE)
    /\ slot' = slot + 1
    /\ spent' = Used(latest') /\ carried' = carried \cup Used(latest')
    /\ UNCHANGED <<count, shares, stage, built, spotlights, proseOnly>>

WriteCluster ==
    /\ stage = "building" /\ slot < ClusterSize(count)
    /\ \A a \in Kinds : Target(a) >= 0
    /\ Write(ClusterArchetypes[slot + 1], ClusterText(slot + 1, spent), FALSE)
    /\ slot' = slot + 1
    /\ spent' = spent \cup Used(latest') /\ carried' = carried \cup Used(latest')
    /\ UNCHANGED <<count, shares, stage, built, spotlights, proseOnly>>

NextKind == {k \in 1 .. 6 : built[ArchetypeOrder[k]] < Target(ArchetypeOrder[k])}

\* Mutant: every bill of the spotlight payer is the spotlight.
IsSpotlightPayer(a) ==
    a = Reliable /\ PayerSlot(built[a], Target(a), PayersPerArchetype[RankOf(a)]) = 0

\* The first bill of the payer pinned to the front of the reliable pool.
IsSpotlight(a) ==
    LET p == PayerSlot(built[a], Target(a), PayersPerArchetype[RankOf(a)])
    IN  a = Reliable /\ p = 0 /\ built[a] = SplitEvenly(Target(a), PayersPerArchetype[RankOf(a)], p)

\* Its objection is also filed as a dispute.
VisibleDispute(a) == a = Disputing /\ built[a] < VisibleCount(Target(a) + InCluster(a, count))

WriteGeneral ==
    /\ stage = "building" /\ slot = ClusterSize(count) /\ NextKind # {}
    /\ \A a \in Kinds : Target(a) >= 0
    /\ LET a == ArchetypeOrder[Min(NextKind)]
       IN  /\ Write(a, GeneralText(a, IsSpotlight(a)), IsSpotlight(a))
           /\ built' = [built EXCEPT ![a] = @ + 1]
           /\ spotlights' = spotlights + IF IsSpotlight(a) THEN 1 ELSE 0
           /\ proseOnly' = proseOnly + IF a = Disputing /\ ~VisibleDispute(a) THEN 1 ELSE 0
    /\ spent' = {} /\ carried' = {}
    /\ UNCHANGED <<count, shares, stage, slot>>

\* write_batch, with the batch's meta.
WriteBatch ==
    /\ stage = "building" /\ slot = ClusterSize(count) /\ NextKind = {}
    /\ \A a \in Kinds : Target(a) >= 0
    /\ stage' = "written"
    /\ UNCHANGED <<count, shares, slot, built, spent, carried, latest, spotlights, proseOnly>>

GeneratorNext == Refuse \/ WriteCluster \/ WriteGeneral \/ WriteBatch
GeneratorSpec == GeneratorInit /\ [][GeneratorNext]_generatorVars

-----------------------------------------------------------------------------
(* What a batch promises.                                                   *)

\* The book written is of the size asked for, and each archetype, its cluster
\* records counted, has its share of the profile table to within one record:
\* the cluster's records are taken out of the shares once and not a second time.
SharesAreFair ==
    stage = "written" =>
        /\ slot + SumFunction(built) = count
        /\ \A a \in Kinds :
               LET off == (built[a] + InCluster(a, count)) * BatchSize - Quota(a, count)
               IN  -BatchSize < off /\ off < BatchSize

\* A size the command line takes is never refused, and its batch holds one
\* spotlight and the five objections in prose alone that test_generator.py asks
\* of the published one, wherever the apportionment rounds.
PublishedSizesHold ==
    count >= 120 =>
        /\ stage # "refused"
        /\ stage = "written" => spotlights = 1 /\ proseOnly >= 5

\* No two records of the cluster carry the same note, and a letter is sent again,
\* by another member or by the same one, only when the band has fewer letters left
\* that no record carries than the record sends.
ClusterRepeatsOnlyWhenSpent ==
    [][slot' # slot =>
        LET letters == latest'.text.letters
            band == IF letters = << >> THEN {} ELSE Templates["EMAIL"][ClusterHintPlan[slot']]
        IN  /\ latest'.text.note \cap carried = {}
            /\ Cardinality(Range(letters) \ carried) < Len(letters)
                   => Cardinality(band \ carried) < Len(letters)]_generatorVars

\* Every bill of the payer's track record was settled before the batch is read:
\* the snapshot sends it to the reasoner as history.
HistoryIsPast == \A k \in DOMAIN latest.settled : latest.settled[k] < 0
=============================================================================
