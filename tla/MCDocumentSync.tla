--------------------------- MODULE MCDocumentSync ---------------------------
(* Three small instances of DocumentSync for TLC, one of which a behaviour  *)
(* begins with and keeps.                                                   *)
EXTENDS DocumentSync

VARIABLE setting    \* the instance

\* Auto-save and Save overlap and fail; events and answers are late.
Saves == INSTANCE DocumentSync WITH
    Paths <- {"p1"}, Typed <- {"a", "b"}, Written <- {"a", "b"}, Tasks <- {"auto", "save"},
    Kinds <- {"modify"}, Debounce <- FALSE, Late <- TRUE, Failures <- TRUE,
    MaxEdits <- 2, MaxOthers <- 1, MaxSaves <- 2

\* Move To and tmark.workspace.save over two files, with renames.
Moves == INSTANCE DocumentSync WITH
    Paths <- {"p1", "p2"}, Typed <- {"b"}, Written <- {"a", "b"}, Tasks <- {"move", "mcp"},
    Kinds <- {"modify", "rename"}, Debounce <- TRUE, Late <- TRUE, Failures <- TRUE,
    MaxEdits <- 1, MaxOthers <- 1, MaxSaves <- 1

\* The third instance has the constants of the configuration: auto-save and
\* the change dialog, with events within the code's pauses.
MCInit ==
    \/ setting = "saves" /\ Saves!Init
    \/ setting = "moves" /\ Moves!Init
    \/ setting = "in time" /\ InTime /\ "mcp" \notin Tasks /\ Init

MCNext ==
    /\ \/ setting = "saves" /\ Saves!Next
       \/ setting = "moves" /\ Moves!Next
       \/ setting = "in time" /\ Next
    /\ UNCHANGED setting

MCSpec == MCInit /\ [][MCNext]_<<vars, setting>>

-----------------------------------------------------------------------------
\* Events within the code's pauses: what InSyncOrDropped says of the document
\* and its file (workspace-management.md:176) ...
InSyncInTime == setting = "in time" => InSyncOrDropped

\* ... and OwnSavesFiltered of auto-save's own events
\* (workspace-management.md:184).
OwnSavesInTime == [][setting = "in time" => OwnSaveFiltered]_vars
=============================================================================
