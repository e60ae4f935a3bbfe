---------------------------- MODULE AuditedRunner ----------------------------
(***************************************************************************)
(* The runner with its audit log read as it is written: a second ledger fed *)
(* from the rows and from nothing else, as `recoup replay` does at the end. *)
(***************************************************************************)
EXTENDS Runner, Replay

VARIABLE replayed   \* the ledger rebuilt from the rows written so far

auditVars == <<vars, replayed>>

AuditInit == Init /\ replayed = OpeningBook(Invoices)

AuditNext == Next /\ replayed' = ReplayRow(Amount, replayed, row')

AuditSpec == AuditInit /\ [][AuditNext]_auditVars

(* At every step the rows written so far rebuild the ledger exactly: state, *)
(* money, next review, promise, contacts and links.  A change the runner    *)
(* makes and no row carries, or one a row carries and replay reads          *)
(* differently, breaks it (the acceptance test of audit/replay.py, for      *)
(* every run and not only at its end).                                      *)
RowsRebuildTheLedger == replayed = accounts
=============================================================================
