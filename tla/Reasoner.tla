------------------------------ MODULE Reasoner ------------------------------
(***************************************************************************)
(* recoup.reasoner.client.ClaudeReasoner over recoup.reasoner.cache: the    *)
(* guard rails around the model.  An input (a snapshot, or a whole batch)   *)
(* is answered from the disk cache, by a call, or by the deterministic      *)
(* fallback; spend is bounded by a call budget and a circuit breaker.       *)
(*                                                                         *)
(* The model is external: a call may give any answer, fail, or give one     *)
(* that cannot be used.  A cache entry is written to a temporary file and   *)
(* moved into place, so that it is whole or absent; a file that cannot be   *)
(* read is left out.                                                        *)
(***************************************************************************)
EXTENDS Naturals, FiniteSets

CONSTANTS
    Inputs,        \* canonical model inputs
    Answers,       \* structured outputs the model may give
    FallbackOf,    \* what the deterministic fallback gives for each input
    Contracts,     \* prompt, schema and model settings over the program's life
    FailureLimit,  \* failure_limit
    MaxCalls,      \* max_api_calls
    MaxRestarts    \* processes after the first (a bound)

ASSUME ReasonerAssumption ==
    /\ FallbackOf \in [Inputs -> Answers]
    /\ FailureLimit \in Nat \ {0} /\ MaxCalls \in Nat /\ MaxRestarts \in Nat

VARIABLES
    disk,       \* the cache: at most one entry [output, contract] per input
    contract,   \* the contract this process runs under
    permitted,  \* ~cache_only, and a key or a client
    calls,      \* stats.api_calls
    failures,   \* _consecutive_failures
    open,       \* _circuit_open
    last,       \* the last answer this process gave to each input, and how
    spoken,     \* every answer the model gave: [input, output, contract]
    restarts

reasonerVars == <<disk, contract, permitted, calls, failures, open, last, spoken, restarts>>
process == <<contract, permitted, restarts>>

\* How an answer came about.
Hows == {"cache", "stored", "not stored", "failed", "unavailable"}
Unasked == [how |-> "none"]

-----------------------------------------------------------------------------
(* The cache.                                                               *)

\* Mutant: any entry for the input will do.
CachedAnyContract(i) == disk[i]

\* ReasonerCache.get: an entry of another contract is a miss.
Cached(i) == {e \in disk[i] : e.contract = contract}

Entry(output) == {[output |-> output, contract |-> contract]}

\* Mutant: one call too many.
AvailableLate == permitted /\ ~open /\ calls <= MaxCalls

\* model_available
Available == permitted /\ ~open /\ calls < MaxCalls

Give(i, output, how) == last' = [last EXCEPT ![i] = [how |-> how, output |-> output]]

-----------------------------------------------------------------------------
(* propose and analyze.                                                     *)

\* Mutant: a hit is taken for a sign that the model is back.
AnswerFromCacheClosing(i) ==
    /\ \E e \in Cached(i) : Give(i, e.output, "cache")
    /\ open' = FALSE /\ failures' = 0
    /\ UNCHANGED <<disk, calls, spoken, process>>

AnswerFromCache(i) ==
    /\ \E e \in Cached(i) : Give(i, e.output, "cache")
    /\ UNCHANGED <<disk, calls, failures, open, spoken, process>>

AnswerUnavailable(i) ==
    /\ Cached(i) = {} /\ ~Available
    /\ Give(i, FallbackOf[i], "unavailable")
    /\ UNCHANGED <<disk, calls, failures, open, spoken, process>>

\* A usable answer; the cache may fail to write it, which changes nothing else.
CallSucceeds(i, output, written) ==
    /\ Cached(i) = {} /\ Available
    /\ calls' = calls + 1
    /\ failures' = 0
    /\ disk' = IF written THEN [disk EXCEPT ![i] = Entry(output)] ELSE disk
    /\ Give(i, output, IF written THEN "stored" ELSE "not stored")
    /\ spoken' = spoken \cup {[input |-> i, output |-> output, contract |-> contract]}
    /\ UNCHANGED <<open, process>>

\* An error, a timeout, a refusal, an answer that was cut short or does not
\* validate; or no client could be built, and nothing was asked.
CallFails(i, asked) ==
    /\ Cached(i) = {} /\ Available
    /\ calls' = IF asked THEN calls + 1 ELSE calls
    /\ failures' = failures + 1
    /\ open' = (open \/ failures + 1 >= FailureLimit)
    /\ Give(i, FallbackOf[i], "failed")
    /\ UNCHANGED <<disk, spoken, process>>

\* Another process, perhaps under another contract; only the cache is kept.
StartProcess ==
    /\ restarts < MaxRestarts
    /\ restarts' = restarts + 1
    /\ contract' \in Contracts /\ permitted' \in BOOLEAN
    /\ calls' = 0 /\ failures' = 0 /\ open' = FALSE
    /\ last' = [i \in Inputs |-> Unasked]
    /\ UNCHANGED <<disk, spoken>>

ReasonerInit ==
    /\ disk = [i \in Inputs |-> {}]
    /\ contract \in Contracts /\ permitted \in BOOLEAN
    /\ calls = 0 /\ failures = 0 /\ open = FALSE
    /\ last = [i \in Inputs |-> Unasked]
    /\ spoken = {} /\ restarts = 0

ReasonerNext ==
    \/ \E i \in Inputs :
        \/ AnswerFromCache(i) \/ AnswerUnavailable(i)
        \/ \E output \in Answers, written \in BOOLEAN : CallSucceeds(i, output, written)
        \/ \E asked \in BOOLEAN : CallFails(i, asked)
    \/ StartProcess

ReasonerSpec == ReasonerInit /\ [][ReasonerNext]_reasonerVars

-----------------------------------------------------------------------------
(* Properties.                                                              *)

(* What is cached, and what a hit gives, is what the model said for that    *)
(* input under that contract: a fallback is never mistaken for the model,   *)
(* nor an answer to an old prompt for one to the new (reasoner/cache.py).   *)
OnlyTheModelIsCached ==
    /\ \A i \in Inputs : \A e \in disk[i] :
        [input |-> i, output |-> e.output, contract |-> e.contract] \in spoken
    /\ \A i \in Inputs : last[i].how = "cache" =>
        [input |-> i, output |-> last[i].output, contract |-> contract] \in spoken

(* The spend guards: a process never makes more calls than its budget, none *)
(* at all without permission, and a model that fails FailureLimit times in  *)
(* a row is left alone, however the calls and the hits of the two           *)
(* namespaces interleave.                                                   *)
SpendIsCapped ==
    /\ calls <= MaxCalls
    /\ ~permitted => calls = 0
    /\ failures <= FailureLimit

(* A second pass over the same inputs in one process is given the answers   *)
(* of the first (run_live_batch counts on it), unless a call failed or its  *)
(* answer could not be stored: a model once out of reach stays so, and what *)
(* was stored is found again.                                               *)
AnswersRepeat ==
    [][\A i \in Inputs :
        (last[i].how \in {"cache", "stored", "unavailable"} /\ restarts' = restarts)
            => last'[i].output = last[i].output]_reasonerVars
=============================================================================
