------------------------------ MODULE MCOffline ------------------------------
(* The source's own constants and phrases, over one invoice beside a parent  *)
(* group of three: the payer of the invoice also owes one of the group's,    *)
(* which is not due yet, and another of them has a dispute in its text.      *)
EXTENDS OfflineArms, Promises

MCPayer == <<"a", "a", "b", "c">>
MCGroup == <<NoGroup, "g", "g", "g">>
MCAmount == <<1, 1, 1, 1>>
MCDueDay == <<3, 5, -20, -20>>
MCGroupOrder == <<"g">>

\* The phrases of Adjudicator._promise_phrase.
FirmPhrases == {"the 25th", "by Friday", "within 7 working days", "before month end", "next week"}
VaguePhrases == {"in due course"}
ReadingsOf(p) ==
    CASE p = "the 25th" -> {Names("ordinal", 25)}
      [] p = "by Friday" -> {Names("weekday", Friday)}
      [] p = "within 7 working days" -> {Names("in days", 7)}
      [] p = "before month end" -> {Names("month end", 0)}
      [] p = "next week" -> {Names("next week", 0)}
      [] p = "in due course" -> {}
MCPhrases == FirmPhrases \cup VaguePhrases
MCResolve == [p \in MCPhrases |-> [t \in 0 .. Horizon - 1 |-> Deadline(ReadingsOf(p), t)]]
MCPhrasesOf == <<FirmPhrases, VaguePhrases, {}, {}>>
=============================================================================
