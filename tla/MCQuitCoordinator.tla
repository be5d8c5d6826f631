-------------------------- MODULE MCQuitCoordinator --------------------------
(* Two small instances of QuitCoordinator for TLC, one of which a behaviour *)
(* begins with and keeps: the constants' values, and those of Wide.         *)
EXTENDS QuitCoordinator

VARIABLE wide   \* is it the instance Wide?

\* Windows of two tabs that survive their last one, a window opened at any
\* moment, and every input.
Wide == INSTANCE QuitCoordinator WITH
    Initial <- {"w1"}, Tabs <- {"t1", "t2", "t3"}, FirstTabs <- {"t1", "t2"},
    Mac <- FALSE, Inputs <- AllInputs, MaxEdits <- 1

MCInit == wide \in BOOLEAN /\ IF wide THEN Wide!Init ELSE Init

MCNext ==
    /\ \/ wide /\ Wide!Next
       \/ ~wide /\ Next
    /\ UNCHANGED wide

MCSpec == MCInit /\ [][MCNext]_<<vars, wide>> /\ Fairness

-----------------------------------------------------------------------------
\* In the instance without the close button: what QuitIsCarried and QuitEnds
\* say of a quit.
QuitIsCarriedThere == ~wide => QuitIsCarried
QuitEndsThere == (inProgress /\ ~wide) ~> (exited \/ ~inProgress)
=============================================================================
