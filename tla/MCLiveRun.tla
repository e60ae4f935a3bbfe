------------------------------ MODULE MCLiveRun ------------------------------
(* Small instances of LiveRun for TLC.                                      *)
EXTENDS LiveRun

Link(i, t, owed) == [invoice |-> i, tick |-> t, outstanding |-> owed]

\* Three records: the smallest asks first, one asks twice and is part paid in
\* between, one asks for less than the minimum; with every way of being open
\* at the close.
MCLinks ==
    {<< >>,
     <<Link(1, 2, 2), Link(2, 2, 3), Link(3, 6, 3), Link(2, 10, 3)>>,
     <<Link(3, 2, 3), Link(1, 6, 4), Link(3, 10, 2), Link(1, 14, 1)>>,
     <<Link(2, 2, 0), Link(1, 2, 2), Link(1, 6, 2), Link(2, 10, 0)>>}
MCPasses == [links: MCLinks, open: SUBSET {1, 2, 3}]
=============================================================================
