----------------------------- MODULE Receivable -----------------------------
(***************************************************************************)
(* What a run promises about a book of receivables, with no ticks, no       *)
(* policy and no contacts: each bill has a standing and money that has come *)
(* in, the book is open until the run closes it, and a bill is lost only at *)
(* the close, only if the chase had been given up, and only once.           *)
(***************************************************************************)
EXTENDS Integers

CONSTANTS
    Bills,   \* the receivables
    Billed   \* what each of them is for

VARIABLES
    standing,   \* who has the bill
    collected,  \* what has come in on it
    open        \* whether the run is still going

vars == <<standing, collected, open>>

Standings == {"chased", "disputed", "with a person", "given up", "paid", "lost"}
Settled == {"paid", "lost"}

Init ==
    /\ standing = [b \in Bills |-> "chased"]
    /\ collected = [b \in Bills |-> 0]
    /\ open = TRUE

\* A payment, in part or in full, on any bill that is not settled.  Paying
\* in full settles it whoever has it, and part payments never do.
PayInFull(b) ==
    /\ open /\ standing[b] \notin Settled
    /\ standing' = [standing EXCEPT ![b] = "paid"]
    /\ collected' = [collected EXCEPT ![b] = Billed[b]]
    /\ UNCHANGED open

PayInPart(b) ==
    /\ open /\ standing[b] \notin Settled
    /\ \E total \in collected[b] .. Billed[b] :
          collected' = [collected EXCEPT ![b] = total]
    /\ UNCHANGED <<standing, open>>

\* A bill leaves the chase for a dispute, a person or abandonment; a dispute
\* can only go to a person; nothing ever goes back.
Raise(b) ==
    /\ open
    /\ \/ standing[b] = "chased" /\ \E s \in {"disputed", "with a person", "given up"} :
             standing' = [standing EXCEPT ![b] = s]
       \/ standing[b] = "disputed" /\ standing' = [standing EXCEPT ![b] = "with a person"]
    /\ UNCHANGED <<collected, open>>

Close ==
    /\ open
    /\ open' = FALSE
    /\ UNCHANGED <<standing, collected>>

Lose(b) ==
    /\ ~open /\ standing[b] = "given up"
    /\ standing' = [standing EXCEPT ![b] = "lost"]
    /\ UNCHANGED <<collected, open>>

Next == Close \/ \E b \in Bills : PayInFull(b) \/ PayInPart(b) \/ Raise(b) \/ Lose(b)

Spec == Init /\ [][Next]_vars
=============================================================================
