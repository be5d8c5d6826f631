---------------------------- MODULE MCMcpBridge ----------------------------
(* Three small instances of McpBridge for TLC, one of which a behaviour     *)
(* begins with and keeps.                                                   *)
EXTENDS McpBridge

VARIABLE setting    \* the instance

MCIds  == Clients \X (1..MaxReq)
MCIdOf == [r \in Clients \X (1..MaxReq) |-> r]

\* A pending table of one entry.
Small == INSTANCE McpBridge WITH MaxPending <- 1

MCInit == Init /\ setting \in {"stops", "clients", "full"}

\* The requests that clients make next
Asks(ops) == \A c \in Clients : op'[c] \in {op[c]} \union ops

\* Two writes of one client, and stop_bridge and a restart at any moment.
Stops == Next /\ conn'["b"] = "none" /\ Asks({"tmark.document.write"})

\* Two clients that stay, with one request each.
Stay ==
    /\ stops' = 0
    /\ \A c \in Clients : n'[c] <= 1 /\ (conn[c] # "none" => conn'[c] # "none")

\* Two reads of connected clients that meet the full table.
Full ==
    /\ Small!Next /\ Stay /\ Asks({"document.getContent"}) /\ windows' = windows
    /\ n' # n => \A c \in Clients : conn[c] = "main"

MCNext ==
    /\ \/ setting = "stops" /\ Stops
       \/ setting = "clients" /\ Next /\ Stay
       \/ setting = "full" /\ Full
    /\ UNCHANGED setting

MCSpec == MCInit /\ [][MCNext]_<<vars, setting>> /\ Fairness
=============================================================================
