------------------------------- MODULE MCAudit -------------------------------
(* The books of MCRunner under the audited and scored runner.         *)
EXTENDS MCRunner, ScoredRunner
=============================================================================
