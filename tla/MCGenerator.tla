----------------------------- MODULE MCGenerator -----------------------------
(* The CLUSTER pool with the bands of corpus/cluster_*.yaml, and a general    *)
(* pool of two letters and a note of every archetype.                         *)
EXTENDS Generator

MCTemplates ==
    [NOTE |-> [STRONG |-> {"CN-01", "CN-02"}, MEDIUM |-> {"CN-03", "CN-04", "CN-06"},
               WEAK |-> {"CN-05", "CN-07", "CN-08"}],
     EMAIL |-> [STRONG |-> {"CE-01", "CE-02"}, MEDIUM |-> {"CE-03", "CE-04", "CE-06"},
                WEAK |-> {"CE-05", "CE-07", "CE-08"}]]
MCGeneralPool == [NOTE |-> [a \in Kinds |-> {"PN"}], EMAIL |-> [a \in Kinds |-> {"ER", "ES"}]]

Lowest(ranges) == [a \in Kinds |-> {Min(ranges[a])}]
OverdueOf == [a \in Kinds |-> ProfileOf(a).overdue]
TermsOf == [a \in Kinds |-> ProfileOf(a).terms]
LatenessOf == [a \in Kinds |-> ProfileOf(a).late]

LowOverdue == Lowest(OverdueOf)
LowTerms == Lowest(TermsOf)
LowLateness == Lowest(LatenessOf)
HighLateness == [a \in Kinds |-> {Max(LatenessOf[a])}]

\* Below the command line's floor, at it, the published size, sizes whose
\* fractions tie at the cut, and larger books.
ManySizes == {0, 7, 19, 21} \cup 120 .. 140 \cup {200}
=============================================================================
