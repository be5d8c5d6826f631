--------------------------- MODULE BridgeLifecycle ---------------------------
(***************************************************************************)
(* Starting and stopping the MCP bridge and a local sidecar.               *)
(*                                                                         *)
(*   src/src-tauri/src/mcp_server.rs                 the commands          *)
(*   src/src-tauri/src/mcp_bridge/{server,state}.rs  listener, port file   *)
(*                                                                         *)
(* Commands are asynchronous and run beside each other on the threads of   *)
(* the runtime; their shared state is one atomic flag or one locked cell   *)
(* each, so a step reads or writes one of them.  A listener, its port and  *)
(* its token, and a sidecar, are named by the command that made them.      *)
(***************************************************************************)
EXTENDS Naturals, FiniteSets

CONSTANTS
    Commands,   \* invocations, each made at most once
    Kinds,      \* what they invoke: a subset of AllKinds
    None,       \* no command
    Concurrent  \* how many run at a time

AllKinds == {"start", "serve", "stop", "cleanup"}

ASSUME KindsAssumption == Kinds \subseteq AllKinds /\ Concurrent \in Nat
ASSUME NoneAssumption == None \notin Commands

VARIABLES
    running,  \* BRIDGE_RUNNING
    port,     \* BRIDGE_PORT
    file,     \* the port file
    holder,   \* SHUTDOWN_TX: the listener whose sender it holds
    loop,     \* the listener each command bound
    stored,   \* MCP_SERVER: the sidecar it holds
    spawning, \* SIDECAR_SPAWNING
    child,    \* the sidecar each command spawned
    kind, pc, \* each command: what it is and where it is
    exiting,  \* has the app begun its clean-up?
    calm      \* a history whose commands come one at a time, each after the
              \* listeners and sidecars of the ones before are done with?

bridgeVars  == <<running, port, file, holder, loop>>
sidecarVars == <<stored, spawning, child>>
vars == <<running, port, file, holder, loop, stored, spawning, child, kind, pc, exiting,
          calm>>

Phases == {"new", "sidecar", "guard", "recheck", "check", "bind", "hold", "mark", "setport",
           "spawn", "store", "unlink", "signal", "unmark", "unport", "kill", "done"}
LoopPhases == {"none", "bound", "up", "told", "unmarked", "unported", "gone"}
ChildPhases == {"none", "alive", "dead", "noted", "reaped"}

\* The shape of the variables: only a mcp_server_start has a sidecar.
TypeOK ==
    /\ running \in BOOLEAN /\ spawning \in BOOLEAN /\ exiting \in BOOLEAN /\ calm \in BOOLEAN
    /\ port \in Commands \cup {None} /\ file \in Commands \cup {None}
    /\ holder \in Commands \cup {None} /\ stored \in Commands \cup {None}
    /\ loop \in [Commands -> LoopPhases] /\ child \in [Commands -> ChildPhases]
    /\ kind \in [Commands -> AllKinds \cup {"none"}] /\ pc \in [Commands -> Phases]
    /\ \A c \in Commands : child[c] # "none" => kind[c] = "serve"

Init ==
    /\ running = FALSE /\ port = None /\ file = None /\ holder = None
    /\ loop = [c \in Commands |-> "none"]
    /\ stored = None /\ spawning = FALSE /\ child = [c \in Commands |-> "none"]
    /\ kind = [c \in Commands |-> "none"] /\ pc = [c \in Commands |-> "new"]
    /\ exiting = FALSE /\ calm \in BOOLEAN

Running == {c \in Commands : pc[c] \notin {"new", "done"}}
Settled == \A c \in Commands : /\ loop[c] \notin {"told", "unmarked", "unported"}
                               /\ pc[c] = "done" => child[c] \notin {"dead", "noted"}

At(c, p) == pc[c] = p
Go(c, p) == pc' = [pc EXCEPT ![c] = p] /\ UNCHANGED <<kind, exiting>>

-----------------------------------------------------------------------------
\* A command is invoked: by the main window's auto-start, the settings, any
\* webview (mcp_server_start), or the exit.
Invoke(c, k) ==
    /\ ~exiting /\ pc[c] = "new" /\ k \in Kinds
    /\ Cardinality(Running) < (IF calm THEN 1 ELSE Concurrent)
    /\ kind' = [kind EXCEPT ![c] = k] /\ exiting' = (k = "cleanup")
    /\ pc' = [pc EXCEPT ![c] = CASE k = "start" -> "check"
                                 [] k = "serve" -> "sidecar"
                                 [] OTHER       -> "unlink"]
    /\ UNCHANGED <<bridgeVars, sidecarVars>>

(* mcp_server_start, before and after the bridge.                          *)

CheckSidecar(c) ==
    /\ At(c, "sidecar") /\ Go(c, IF stored # None THEN "done" ELSE "guard")
    /\ UNCHANGED <<bridgeVars, sidecarVars>>

\* Mutant of TakeGuard: the guard is not looked at.
TakeGuardBlindly(c) ==
    /\ At(c, "guard")
    /\ Go(c, "recheck") /\ spawning' = TRUE
    /\ UNCHANGED <<bridgeVars, stored, child>>

TakeGuard(c) ==
    /\ At(c, "guard")
    /\ IF spawning THEN Go(c, "done") /\ UNCHANGED spawning
                   ELSE Go(c, "recheck") /\ spawning' = TRUE
    /\ UNCHANGED <<bridgeVars, stored, child>>

Recheck(c) ==
    /\ At(c, "recheck")
    /\ IF stored # None THEN Go(c, "done") /\ spawning' = FALSE
                        ELSE Go(c, "check") /\ UNCHANGED spawning
    /\ UNCHANGED <<bridgeVars, stored, child>>

\* The sidecar starts, or cannot and the command fails: the bridge stays.
Spawn(c) ==
    /\ At(c, "spawn")
    /\ \/ Go(c, "store") /\ child' = [child EXCEPT ![c] = "alive"] /\ UNCHANGED spawning
       \/ Go(c, "done") /\ spawning' = FALSE /\ UNCHANGED child
    /\ UNCHANGED <<bridgeVars, stored>>

Store(c) ==
    /\ At(c, "store") /\ Go(c, "done")
    /\ stored' = c /\ spawning' = FALSE
    /\ UNCHANGED <<bridgeVars, child>>

(* start_bridge and the marks its callers set.                             *)

\* Mutant of CheckBridge: a bridge that runs is started again.
CheckBridgeNever(c) ==
    /\ At(c, "check") /\ Go(c, "bind")
    /\ UNCHANGED <<bridgeVars, sidecarVars>>

CheckBridge(c) ==
    /\ At(c, "check")
    /\ Go(c, CASE ~running -> "bind"
               [] running /\ kind[c] = "serve" -> "spawn"
               [] running /\ kind[c] # "serve" -> "done")
    /\ UNCHANGED <<bridgeVars, sidecarVars>>

\* The listener is bound and the port file written, or one of them fails.
Bind(c) ==
    /\ At(c, "bind")
    /\ \/ /\ Go(c, "hold")
          /\ file' = c /\ loop' = [loop EXCEPT ![c] = "bound"]
          /\ UNCHANGED spawning
       \/ /\ Go(c, "done")
          /\ spawning' = (spawning /\ kind[c] # "serve")
          /\ UNCHANGED <<file, loop>>
    /\ UNCHANGED <<running, port, holder, stored, child>>

\* A sender that is used or dropped ends the loop that listens for it.
Told(l, except) == [d \in Commands |-> IF d = holder /\ l[d] = "up" /\ d # except
                                       THEN "told" ELSE l[d]]

\* The new sender replaces the one before, and the loop starts.
Hold(c) ==
    /\ At(c, "hold") /\ Go(c, "mark")
    /\ holder' = c /\ loop' = [Told(loop, c) EXCEPT ![c] = "up"]
    /\ UNCHANGED <<running, port, file, sidecarVars>>

Mark(c) ==
    /\ At(c, "mark") /\ Go(c, "setport") /\ running' = TRUE
    /\ UNCHANGED <<port, file, holder, loop, sidecarVars>>

SetPort(c) ==
    /\ At(c, "setport") /\ Go(c, IF kind[c] = "serve" THEN "spawn" ELSE "done")
    /\ port' = c
    /\ UNCHANGED <<running, file, holder, loop, sidecarVars>>

(* stop_bridge, and what mcp_bridge_stop and cleanup do after it.          *)

Unlink(c) ==
    /\ At(c, "unlink") /\ Go(c, "signal") /\ file' = None
    /\ UNCHANGED <<running, port, holder, loop, sidecarVars>>

Signal(c) ==
    /\ At(c, "signal") /\ Go(c, "unmark")
    /\ holder' = None /\ loop' = Told(loop, None)
    /\ UNCHANGED <<running, port, file, sidecarVars>>

\* cleanup leaves the port as it is.
Unmark(c) ==
    /\ At(c, "unmark") /\ Go(c, IF kind[c] = "cleanup" THEN "kill" ELSE "unport")
    /\ running' = FALSE
    /\ UNCHANGED <<port, file, holder, loop, sidecarVars>>

Unport(c) ==
    /\ At(c, "unport") /\ Go(c, "kill") /\ port' = None
    /\ UNCHANGED <<running, file, holder, loop, sidecarVars>>

\* Mutant of Kill: the handle is dropped, which does not end the process.
KillDrops(c) ==
    /\ At(c, "kill") /\ Go(c, "done") /\ stored' = None
    /\ UNCHANGED <<bridgeVars, spawning, child>>

Kill(c) ==
    /\ At(c, "kill") /\ Go(c, "done")
    /\ stored' = None
    /\ child' = [d \in Commands |-> IF d = stored /\ child[d] = "alive" THEN "dead"
                                    ELSE child[d]]
    /\ UNCHANGED <<bridgeVars, spawning>>

(* Listeners and sidecars by themselves.                                   *)

\* Mutant of LoopExits: the file stays.
LoopExitsKeepsFile(l) ==
    /\ \/ /\ loop[l] = "told" /\ loop' = [loop EXCEPT ![l] = "unmarked"]
          /\ running' = FALSE /\ UNCHANGED port
       \/ /\ loop[l] = "unmarked" /\ loop' = [loop EXCEPT ![l] = "gone"]
          /\ port' = None /\ UNCHANGED running
    /\ UNCHANGED <<file, holder, sidecarVars, kind, pc, exiting>>

\* on_exit of a loop that was told to end: three cells, one after the other.
LoopExits(l) ==
    /\ \/ /\ loop[l] = "told" /\ loop' = [loop EXCEPT ![l] = "unmarked"]
          /\ running' = FALSE /\ UNCHANGED <<port, file>>
       \/ /\ loop[l] = "unmarked" /\ loop' = [loop EXCEPT ![l] = "unported"]
          /\ port' = None /\ UNCHANGED <<running, file>>
       \/ /\ loop[l] = "unported" /\ loop' = [loop EXCEPT ![l] = "gone"]
          /\ file' = None /\ UNCHANGED <<running, port>>
    /\ UNCHANGED <<holder, sidecarVars, kind, pc, exiting>>

\* A sidecar ends by itself.
SidecarEnds(c) ==
    /\ child[c] = "alive" /\ child' = [child EXCEPT ![c] = "dead"]
    /\ UNCHANGED <<bridgeVars, stored, spawning, kind, pc, exiting>>

\* The task that monitors a sidecar clears the cell when it has ended, and once
\* more when it returns.
Monitor(c) ==
    /\ pc[c] = "done" /\ child[c] \in {"dead", "noted"}
    /\ child' = [child EXCEPT ![c] = IF @ = "dead" THEN "noted" ELSE "reaped"]
    /\ stored' = None
    /\ UNCHANGED <<bridgeVars, spawning, kind, pc, exiting>>

Command(c) ==
    \/ \E k \in Kinds : Invoke(c, k)
    \/ CheckSidecar(c) \/ TakeGuard(c) \/ Recheck(c) \/ Spawn(c) \/ Store(c)
    \/ CheckBridge(c) \/ Bind(c) \/ Hold(c) \/ Mark(c) \/ SetPort(c)
    \/ Unlink(c) \/ Signal(c) \/ Unmark(c) \/ Unport(c) \/ Kill(c)

Next ==
    /\ \E c \in Commands :
          \/ (calm => Settled) /\ Command(c)
          \/ LoopExits(c) \/ SidecarEnds(c) \/ Monitor(c)
    /\ UNCHANGED calm

Spec == Init /\ [][Next]_vars

-----------------------------------------------------------------------------
(* Properties.                                                             *)

\* A listener that runs can be stopped: its sender is in the holder.  Starts
\* that overtake each other leave no listener behind (server.rs:58-63).
ListenerIsHeld == \A l \in Commands : loop[l] = "up" => holder = l

\* The port file never names a listener that is gone, so a sidecar that has read
\* it finds a socket or a bridge about to leave (state.rs:145).
FileNamesListener == file # None => loop[file] \notin {"none", "gone"}

\* One command at a time is between the spawn guard and the stored handle
\* (mcp_server.rs:37), and no handle is overwritten: it would run on for ever.
Spawning(c) == kind[c] = "serve" /\ pc[c] \notin {"new", "sidecar", "guard", "done"}
OneSpawner ==
    /\ \A c, d \in Commands : Spawning(c) /\ Spawning(d) => c = d
    /\ \A c \in Commands : pc[c] = "store" => stored = None

\* Nothing is under way.
Quiet == Running = {} /\ Settled

\* In a calm history, once it is quiet, a running bridge can be found through
\* its port file (mcp_server.rs:67).
RunningIsDiscoverable ==
    calm /\ Quiet /\ running => file = port /\ port # None /\ loop[port] = "up"

\* In a calm history, once it is quiet, a sidecar that lives is the stored one,
\* which a stop can kill (mcp_server.rs:128).
SidecarIsStored == calm /\ Quiet => \A c \in Commands : child[c] = "alive" => stored = c
=============================================================================
