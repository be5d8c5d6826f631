-------------------------- MODULE MCCrashRecovery --------------------------
(* Four small instances of CrashRecovery for TLC, one of which a behaviour *)
(* begins with and keeps.                                                   *)
EXTENDS CrashRecovery

VARIABLE setting    \* the instance

MCOnFile(p) == "a"
MCHash(text) == text

Snapshot(t, text, path) == [win |-> "main", tab |-> t, text |-> text, path |-> path, time |-> t]

\* Two snapshots of one file, the newer of which is empty, and untitled ones.
MCLeftovers ==
    { {Snapshot(1, "a", "p"), Snapshot(2, "", "p")},
      {Snapshot(1, "a", "none"), Snapshot(2, "a", "none")},
      {Snapshot(1, "a", "none"), Snapshot(2, "a", "p")} }

\* One document, all its life.
Session == INSTANCE CrashRecovery WITH
    Windows <- {"main"}, Leftovers <- {{}}, OldTabs <- 3, MaxEdits <- 3, MaxEnds <- 0, Weeks <- FALSE

\* A document that goes from one window to another.
Moved == INSTANCE CrashRecovery WITH
    Texts <- {"", "a"}, Leftovers <- {{}}, OldTabs <- 3, MaxEdits <- 2, MaxEnds <- 0, Weeks <- FALSE,
    MaxFailures <- 0

\* A recovery that the user meets with a document of his.
Meeting == INSTANCE CrashRecovery WITH
    Windows <- {"main"}, Texts <- {"", "a"}, MaxTabs <- 3, MaxEdits <- 1

\* A recovery that is broken off, and the next.
Recovery == INSTANCE CrashRecovery WITH
    Windows <- {"main"}, Texts <- {"", "a"}, MaxEdits <- 0, MaxFailures <- 0

MCInit ==
    \/ setting = "session" /\ Session!Init
    \/ setting = "moved" /\ Moved!Init
    \/ setting = "meeting" /\ Meeting!Init
    \/ setting = "recovery" /\ Recovery!Init

MCNext ==
    /\ \/ setting = "session" /\ Session!Next
       \/ setting = "moved" /\ Moved!Next
       \/ setting = "meeting" /\ Meeting!Next
       \/ setting = "recovery" /\ Recovery!Next
    /\ UNCHANGED setting

MCSpec == MCInit /\ [][MCNext]_<<vars, setting>> /\ Fairness
=============================================================================
