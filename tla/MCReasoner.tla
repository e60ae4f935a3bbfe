----------------------------- MODULE MCReasoner -----------------------------
(* A small instance of Reasoner for TLC.  The fallback of one input is an    *)
(* answer the model may give too.                                            *)
EXTENDS Reasoner

MCFallbackOf == [i \in {"a", "b"} |-> IF i = "a" THEN "wait" ELSE "remind"]
=============================================================================
