------------------------------ MODULE MCHotExit ------------------------------
(* Two small instances of HotExit for TLC, one of which a behaviour begins    *)
(* with and keeps: more windows, or more processes after one another.         *)
EXTENDS HotExit

VARIABLE setting    \* the instance

\* Two windows that are captured at once.
Wide == INSTANCE HotExit WITH MaxAsked <- 4, Budget <- 3

\* One window, captured and restored again after a restore that was broken off.
Long == INSTANCE HotExit WITH MaxAsked <- 2, Budget <- 4

MCInit == HotExitInit /\ setting \in {"wide", "long"}

MCNext ==
    /\ \/ setting = "wide" /\ Wide!HotExitNext
       \/ setting = "long" /\ Long!HotExitNext
    /\ UNCHANGED setting

MCSpec == MCInit /\ [][MCNext]_<<hotExitVars, setting>> /\ HotExitFairness
==============================================================================
