---------------------------- MODULE MCSharedWorld ----------------------------
(* Two invoices of one payer, who is late by habit on one of them and        *)
(* distressed on the other.                                                 *)
EXTENDS MCRunner, SharedWorld

MCArchetypeOf == <<"CHRONIC_LATE", "DISTRESSED">>
MCFellDue == <<-10, -40>>
MCBilled == <<1, 100>>
=============================================================================
