------------------------ MODULE BridgeLifecycleProofs ------------------------
(***************************************************************************)
(* Proofs about BridgeLifecycle for any number of commands, in any         *)
(* interleaving: every listener can be stopped, the port file never names  *)
(* one that is gone, and one command spawns a sidecar at a time.           *)
(***************************************************************************)
EXTENDS BridgeLifecycle, FiniteSetTheorems, TLAPS

\* What the steps of mcp_server_start and of the sidecar's cells have in common.
PhaseInv ==
    /\ TypeOK
    /\ \A c \in Commands :
         /\ pc[c] = "new" => child[c] = "none"
         /\ pc[c] \in {"sidecar", "guard", "recheck", "spawn", "store"} => kind[c] = "serve"
         /\ pc[c] \in {"unlink", "signal", "unmark", "unport", "kill"} => kind[c] # "serve"

Serves == {"sidecar", "guard", "recheck", "spawn", "store"}
Stops  == {"unlink", "signal", "unmark", "unport", "kill"}

\* The cells that commands share, and what they made.
Cells ==
    /\ running \in BOOLEAN /\ spawning \in BOOLEAN
    /\ port \in Commands \cup {None} /\ file \in Commands \cup {None}
    /\ holder \in Commands \cup {None} /\ stored \in Commands \cup {None}
    /\ loop \in [Commands -> LoopPhases] /\ child \in [Commands -> ChildPhases]

\* Only a mcp_server_start that has begun gets a sidecar.
ChildKept == \A d \in Commands : child'[d] # child[d] => pc[d] # "new" /\ kind[d] = "serve"

\* A command that moves on within its own kind.
LEMMA Moves ==
    ASSUME PhaseInv, NEW c \in Commands, NEW p \in Phases \ {"new"}, Go(c, p),
           p \in Serves => kind[c] = "serve", p \in Stops => kind[c] # "serve",
           Cells', ChildKept, UNCHANGED calm
    PROVE  PhaseInv'
  <1>1. /\ pc' \in [Commands -> Phases] /\ kind' = kind /\ exiting' = exiting
        /\ \A d \in Commands : pc'[d] = IF d = c THEN p ELSE pc[d]
    BY DEF Go, PhaseInv, TypeOK
  <1>2. \A d \in Commands : child'[d] # "none" => kind[d] = "serve"
    BY DEF PhaseInv, TypeOK, ChildKept
  <1>3. \A d \in Commands : pc'[d] = "new" => pc[d] = "new" /\ child'[d] = "none"
    BY <1>1 DEF PhaseInv, ChildKept
  <1>4. TypeOK'
    BY <1>1, <1>2 DEF PhaseInv, TypeOK, Cells
  <1>. QED  BY <1>1, <1>3, <1>4 DEF PhaseInv, Serves, Stops

LEMMA PhaseInvariance == Spec => []PhaseInv
  <1>1. Init => PhaseInv
    BY DEF Init, PhaseInv, TypeOK, LoopPhases, ChildPhases, Phases, AllKinds
  <1>2. ASSUME PhaseInv, Next PROVE PhaseInv'
    <2>0. UNCHANGED calm
      BY <1>2 DEF Next
    <2>1. ASSUME NEW c \in Commands, NEW k \in Kinds, Invoke(c, k) PROVE PhaseInv'
      <3>1. k \in AllKinds
        BY KindsAssumption
      <3>. QED  BY <1>2, <2>0, <2>1, <3>1 DEF Invoke, PhaseInv, TypeOK, bridgeVars, sidecarVars, Phases
    <2>2. ASSUME NEW c \in Commands, CheckSidecar(c) PROVE PhaseInv'
      <3>1. PICK p \in Phases \ {"new"} :
              /\ Go(c, p)
              /\ p \in Serves => kind[c] = "serve"
              /\ p \in Stops => kind[c] # "serve"
        BY <1>2, <2>2 DEF CheckSidecar, At, Phases, PhaseInv, Serves, Stops
      <3>2. Cells' /\ ChildKept
        BY <1>2, <2>2 DEF CheckSidecar, At, bridgeVars, sidecarVars, PhaseInv, TypeOK, Cells,
                        ChildKept, LoopPhases, ChildPhases
      <3>. QED  BY <1>2, <2>0, <3>1, <3>2, Moves
    <2>3. ASSUME NEW c \in Commands, TakeGuard(c) PROVE PhaseInv'
      <3>1. PICK p \in Phases \ {"new"} :
              /\ Go(c, p)
              /\ p \in Serves => kind[c] = "serve"
              /\ p \in Stops => kind[c] # "serve"
        BY <1>2, <2>3 DEF TakeGuard, At, Phases, PhaseInv, Serves, Stops
      <3>2. Cells' /\ ChildKept
        BY <1>2, <2>3 DEF TakeGuard, At, bridgeVars, sidecarVars, PhaseInv, TypeOK, Cells,
                        ChildKept, LoopPhases, ChildPhases
      <3>. QED  BY <1>2, <2>0, <3>1, <3>2, Moves
    <2>4. ASSUME NEW c \in Commands, Recheck(c) PROVE PhaseInv'
      <3>1. PICK p \in Phases \ {"new"} :
              /\ Go(c, p)
              /\ p \in Serves => kind[c] = "serve"
              /\ p \in Stops => kind[c] # "serve"
        BY <1>2, <2>4 DEF Recheck, At, Phases, PhaseInv, Serves, Stops
      <3>2. Cells' /\ ChildKept
        BY <1>2, <2>4 DEF Recheck, At, bridgeVars, sidecarVars, PhaseInv, TypeOK, Cells,
                        ChildKept, LoopPhases, ChildPhases
      <3>. QED  BY <1>2, <2>0, <3>1, <3>2, Moves
    <2>5. ASSUME NEW c \in Commands, Spawn(c) PROVE PhaseInv'
      <3>1. PICK p \in Phases \ {"new"} :
              /\ Go(c, p)
              /\ p \in Serves => kind[c] = "serve"
              /\ p \in Stops => kind[c] # "serve"
        BY <1>2, <2>5 DEF Spawn, At, Phases, PhaseInv, Serves, Stops
      <3>2. Cells' /\ ChildKept
        BY <1>2, <2>5 DEF Spawn, At, bridgeVars, sidecarVars, PhaseInv, TypeOK, Cells,
                        ChildKept, LoopPhases, ChildPhases
      <3>. QED  BY <1>2, <2>0, <3>1, <3>2, Moves
    <2>6. ASSUME NEW c \in Commands, Store(c) PROVE PhaseInv'
      <3>1. PICK p \in Phases \ {"new"} :
              /\ Go(c, p)
              /\ p \in Serves => kind[c] = "serve"
              /\ p \in Stops => kind[c] # "serve"
        BY <1>2, <2>6 DEF Store, At, Phases, PhaseInv, Serves, Stops
      <3>2. Cells' /\ ChildKept
        BY <1>2, <2>6 DEF Store, At, bridgeVars, sidecarVars, PhaseInv, TypeOK, Cells,
                        ChildKept, LoopPhases, ChildPhases
      <3>. QED  BY <1>2, <2>0, <3>1, <3>2, Moves
    <2>7. ASSUME NEW c \in Commands, CheckBridge(c) PROVE PhaseInv'
      <3>1. PICK p \in Phases \ {"new"} :
              /\ Go(c, p)
              /\ p \in Serves => kind[c] = "serve"
              /\ p \in Stops => kind[c] # "serve"
        BY <1>2, <2>7 DEF CheckBridge, At, Phases, PhaseInv, Serves, Stops
      <3>2. Cells' /\ ChildKept
        BY <1>2, <2>7 DEF CheckBridge, At, bridgeVars, sidecarVars, PhaseInv, TypeOK, Cells,
                        ChildKept, LoopPhases, ChildPhases
      <3>. QED  BY <1>2, <2>0, <3>1, <3>2, Moves
    <2>8. ASSUME NEW c \in Commands, Bind(c) PROVE PhaseInv'
      <3>1. PICK p \in Phases \ {"new"} :
              /\ Go(c, p)
              /\ p \in Serves => kind[c] = "serve"
              /\ p \in Stops => kind[c] # "serve"
        BY <1>2, <2>8 DEF Bind, At, Phases, PhaseInv, Serves, Stops
      <3>2. Cells' /\ ChildKept
        BY <1>2, <2>8 DEF Bind, At, bridgeVars, sidecarVars, PhaseInv, TypeOK, Cells,
                        ChildKept, LoopPhases, ChildPhases
      <3>. QED  BY <1>2, <2>0, <3>1, <3>2, Moves
    <2>9. ASSUME NEW c \in Commands, Hold(c) PROVE PhaseInv'
      <3>1. PICK p \in Phases \ {"new"} :
              /\ Go(c, p)
              /\ p \in Serves => kind[c] = "serve"
              /\ p \in Stops => kind[c] # "serve"
        BY <1>2, <2>9 DEF Hold, At, Phases, PhaseInv, Serves, Stops
      <3>2. Cells' /\ ChildKept
        BY <1>2, <2>9 DEF Hold, At, Told, bridgeVars, sidecarVars, PhaseInv, TypeOK, Cells,
                        ChildKept, LoopPhases, ChildPhases
      <3>. QED  BY <1>2, <2>0, <3>1, <3>2, Moves
    <2>10. ASSUME NEW c \in Commands, Mark(c) PROVE PhaseInv'
      <3>1. PICK p \in Phases \ {"new"} :
              /\ Go(c, p)
              /\ p \in Serves => kind[c] = "serve"
              /\ p \in Stops => kind[c] # "serve"
        BY <1>2, <2>10 DEF Mark, At, Phases, PhaseInv, Serves, Stops
      <3>2. Cells' /\ ChildKept
        BY <1>2, <2>10 DEF Mark, At, bridgeVars, sidecarVars, PhaseInv, TypeOK, Cells,
                        ChildKept, LoopPhases, ChildPhases
      <3>. QED  BY <1>2, <2>0, <3>1, <3>2, Moves
    <2>11. ASSUME NEW c \in Commands, SetPort(c) PROVE PhaseInv'
      <3>1. PICK p \in Phases \ {"new"} :
              /\ Go(c, p)
              /\ p \in Serves => kind[c] = "serve"
              /\ p \in Stops => kind[c] # "serve"
        BY <1>2, <2>11 DEF SetPort, At, Phases, PhaseInv, Serves, Stops
      <3>2. Cells' /\ ChildKept
        BY <1>2, <2>11 DEF SetPort, At, bridgeVars, sidecarVars, PhaseInv, TypeOK, Cells,
                        ChildKept, LoopPhases, ChildPhases
      <3>. QED  BY <1>2, <2>0, <3>1, <3>2, Moves
    <2>12. ASSUME NEW c \in Commands, Unlink(c) PROVE PhaseInv'
      <3>1. PICK p \in Phases \ {"new"} :
              /\ Go(c, p)
              /\ p \in Serves => kind[c] = "serve"
              /\ p \in Stops => kind[c] # "serve"
        BY <1>2, <2>12 DEF Unlink, At, Phases, PhaseInv, Serves, Stops
      <3>2. Cells' /\ ChildKept
        BY <1>2, <2>12 DEF Unlink, At, bridgeVars, sidecarVars, PhaseInv, TypeOK, Cells,
                        ChildKept, LoopPhases, ChildPhases
      <3>. QED  BY <1>2, <2>0, <3>1, <3>2, Moves
    <2>13. ASSUME NEW c \in Commands, Signal(c) PROVE PhaseInv'
      <3>1. PICK p \in Phases \ {"new"} :
              /\ Go(c, p)
              /\ p \in Serves => kind[c] = "serve"
              /\ p \in Stops => kind[c] # "serve"
        BY <1>2, <2>13 DEF Signal, At, Phases, PhaseInv, Serves, Stops
      <3>2. Cells' /\ ChildKept
        BY <1>2, <2>13 DEF Signal, At, Told, bridgeVars, sidecarVars, PhaseInv, TypeOK, Cells,
                        ChildKept, LoopPhases, ChildPhases
      <3>. QED  BY <1>2, <2>0, <3>1, <3>2, Moves
    <2>14. ASSUME NEW c \in Commands, Unmark(c) PROVE PhaseInv'
      <3>1. PICK p \in Phases \ {"new"} :
              /\ Go(c, p)
              /\ p \in Serves => kind[c] = "serve"
              /\ p \in Stops => kind[c] # "serve"
        BY <1>2, <2>14 DEF Unmark, At, Phases, PhaseInv, Serves, Stops
      <3>2. Cells' /\ ChildKept
        BY <1>2, <2>14 DEF Unmark, At, bridgeVars, sidecarVars, PhaseInv, TypeOK, Cells,
                        ChildKept, LoopPhases, ChildPhases
      <3>. QED  BY <1>2, <2>0, <3>1, <3>2, Moves
    <2>15. ASSUME NEW c \in Commands, Unport(c) PROVE PhaseInv'
      <3>1. PICK p \in Phases \ {"new"} :
              /\ Go(c, p)
              /\ p \in Serves => kind[c] = "serve"
              /\ p \in Stops => kind[c] # "serve"
        BY <1>2, <2>15 DEF Unport, At, Phases, PhaseInv, Serves, Stops
      <3>2. Cells' /\ ChildKept
        BY <1>2, <2>15 DEF Unport, At, bridgeVars, sidecarVars, PhaseInv, TypeOK, Cells,
                        ChildKept, LoopPhases, ChildPhases
      <3>. QED  BY <1>2, <2>0, <3>1, <3>2, Moves
    <2>16. ASSUME NEW c \in Commands, Kill(c) PROVE PhaseInv'
      <3>1. PICK p \in Phases \ {"new"} :
              /\ Go(c, p)
              /\ p \in Serves => kind[c] = "serve"
              /\ p \in Stops => kind[c] # "serve"
        BY <1>2, <2>16 DEF Kill, At, Phases, PhaseInv, Serves, Stops
      <3>2. Cells' /\ ChildKept
        BY <1>2, <2>16 DEF Kill, At, bridgeVars, sidecarVars, PhaseInv, TypeOK, Cells,
                        ChildKept, LoopPhases, ChildPhases
      <3>. QED  BY <1>2, <2>0, <3>1, <3>2, Moves
    <2>17. ASSUME NEW c \in Commands, LoopExits(c) PROVE PhaseInv'
      BY <1>2, <2>0, <2>17 DEF LoopExits, PhaseInv, TypeOK, sidecarVars, LoopPhases
    <2>18. ASSUME NEW c \in Commands, SidecarEnds(c) \/ Monitor(c) PROVE PhaseInv'
      BY <1>2, <2>0, <2>18 DEF SidecarEnds, Monitor, PhaseInv, TypeOK, bridgeVars, ChildPhases
    <2>. QED
      BY <1>2, <2>1, <2>2, <2>3, <2>4, <2>5, <2>6, <2>7, <2>8, <2>9, <2>10, <2>11, <2>12,
         <2>13, <2>14, <2>15, <2>16, <2>17, <2>18 DEF Next, Command
  <1>3. PhaseInv /\ UNCHANGED vars => PhaseInv'
    BY DEF PhaseInv, TypeOK, vars
  <1>. QED  BY <1>1, <1>2, <1>3, PTL DEF Spec

\* The variables keep their types, and only mcp_server_start has sidecars.
THEOREM TypeCorrect == Spec => []TypeOK
  <1>1. PhaseInv => TypeOK
    BY DEF PhaseInv
  <1>. QED  BY <1>1, PhaseInvariance, PTL

-----------------------------------------------------------------------------
\* Listeners: which steps change them.
ListenerInv == ListenerIsHeld /\ FileNamesListener

LEMMA ListenerStep ==
    ASSUME PhaseInv, ListenerInv, Next PROVE ListenerInv'
  <1>. USE DEF ListenerInv, ListenerIsHeld, FileNamesListener
  <1>. loop \in [Commands -> LoopPhases] /\ file \in Commands \cup {None}
    BY DEF PhaseInv, TypeOK
  <1>1. CASE UNCHANGED <<holder, loop, file>>
    BY <1>1
  <1>2. ASSUME NEW c \in Commands, Bind(c) PROVE ListenerInv'
    BY <1>2, NoneAssumption DEF Bind
  <1>3. ASSUME NEW c \in Commands, Hold(c) PROVE ListenerInv'
    <2>1. \A d \in Commands : loop'[d] = IF d = c THEN "up"
                                         ELSE IF d = holder /\ loop[d] = "up" THEN "told"
                                         ELSE loop[d]
      BY <1>3 DEF Hold, Told
    <2>2. holder' = c /\ file' = file
      BY <1>3 DEF Hold
    <2>. QED  BY <2>1, <2>2, NoneAssumption
  <1>4. ASSUME NEW c \in Commands, Signal(c) PROVE ListenerInv'
    <2>1. \A d \in Commands : loop'[d] = IF d = holder /\ loop[d] = "up" THEN "told"
                                         ELSE loop[d]
      BY <1>4, NoneAssumption DEF Signal, Told
    <2>2. holder' = None /\ file' = file
      BY <1>4 DEF Signal
    <2>. QED  BY <2>1, <2>2, NoneAssumption
  <1>5. ASSUME NEW c \in Commands, Unlink(c) PROVE ListenerInv'
    BY <1>5 DEF Unlink
  <1>6. ASSUME NEW c \in Commands, LoopExits(c) PROVE ListenerInv'
    BY <1>6 DEF LoopExits
  <1>7. ASSUME NEW c \in Commands, NEW k \in Kinds, Invoke(c, k) PROVE ListenerInv'
    BY <1>1, <1>7 DEF Invoke, bridgeVars
  <1>8. ASSUME NEW c \in Commands,
               \/ CheckSidecar(c) \/ TakeGuard(c) \/ Recheck(c) \/ Spawn(c) \/ Store(c)
               \/ CheckBridge(c) \/ Mark(c) \/ SetPort(c) \/ Unmark(c) \/ Unport(c)
               \/ Kill(c) \/ SidecarEnds(c) \/ Monitor(c)
        PROVE ListenerInv'
    BY <1>1, <1>8 DEF CheckSidecar, TakeGuard, Recheck, Spawn, Store, CheckBridge, Mark,
                      SetPort, Unmark, Unport, Kill, SidecarEnds, Monitor, bridgeVars
  <1>. QED
    BY <1>2, <1>3, <1>4, <1>5, <1>6, <1>7, <1>8 DEF Next, Command

LEMMA ListenerInvariance == Spec => []ListenerInv
  <1>1. Init => ListenerInv
    BY DEF Init, ListenerInv, ListenerIsHeld, FileNamesListener
  <1>2. ListenerInv /\ UNCHANGED vars => ListenerInv'
    BY DEF ListenerInv, ListenerIsHeld, FileNamesListener, vars
  <1>. QED  BY <1>1, <1>2, ListenerStep, PhaseInvariance, PTL DEF Spec

\* Whatever starts and stops overtake each other, no listener runs whose sender
\* is lost: start_bridge's replacement of the sender ends the one before.
THEOREM ListenersAreHeld == Spec => []ListenerIsHeld
  <1>1. ListenerInv => ListenerIsHeld
    BY DEF ListenerInv
  <1>. QED  BY <1>1, ListenerInvariance, PTL

\* The port file never leads a sidecar to a listener that is gone.
THEOREM FilesNameListeners == Spec => []FileNamesListener
  <1>1. ListenerInv => FileNamesListener
    BY DEF ListenerInv
  <1>. QED  BY <1>1, ListenerInvariance, PTL

-----------------------------------------------------------------------------
\* SIDECAR_SPAWNING is set while a command is past it, and MCP_SERVER is empty
\* from the second look at it until the handle is stored.
SpawnInv ==
    /\ \A c \in Commands : Spawning(c) => spawning
    /\ \A c, d \in Commands : Spawning(c) /\ Spawning(d) => c = d
    /\ \A c \in Commands : Spawning(c) /\ pc[c] # "recheck" => stored = None

LEMMA SpawnStep ==
    ASSUME PhaseInv, SpawnInv, Next PROVE SpawnInv'
  <1>. USE DEF SpawnInv, Spawning
  <1>. pc \in [Commands -> Phases] /\ kind \in [Commands -> AllKinds \cup {"none"}]
    BY DEF PhaseInv, TypeOK
  <1>1. ASSUME NEW c \in Commands, NEW k \in Kinds, Invoke(c, k) PROVE SpawnInv'
    <2>1. ~Spawning(c)'
      BY <1>1 DEF Invoke
    <2>. QED  BY <1>1, <2>1 DEF Invoke, sidecarVars
  <1>2. ASSUME NEW c \in Commands, CheckSidecar(c) PROVE SpawnInv'
    BY <1>2 DEF CheckSidecar, At, Go, sidecarVars
  <1>3. ASSUME NEW c \in Commands, TakeGuard(c) PROVE SpawnInv'
    BY <1>3 DEF TakeGuard, At, Go
  <1>4. ASSUME NEW c \in Commands, Recheck(c) PROVE SpawnInv'
    <2>1. Spawning(c)
      BY <1>4 DEF Recheck, At, PhaseInv
    <2>. QED  BY <1>4, <2>1 DEF Recheck, At, Go
  <1>5. ASSUME NEW c \in Commands, Spawn(c) \/ Store(c) PROVE SpawnInv'
    <2>1. Spawning(c)
      BY <1>5 DEF Spawn, Store, At, PhaseInv
    <2>. QED  BY <1>5, <2>1 DEF Spawn, Store, At, Go
  <1>6. ASSUME NEW c \in Commands, Bind(c) PROVE SpawnInv'
    <2>1. /\ kind' = kind /\ stored' = stored /\ pc[c] = "bind"
          /\ \A d \in Commands : pc'[d] = pc[d] \/ d = c
      BY <1>6 DEF Bind, At, Go
    <2>2. CASE spawning' = spawning
      BY <2>1, <2>2
    <2>3. CASE spawning' # spawning
      <3>1. Spawning(c) /\ pc'[c] = "done"
        BY <1>6, <2>1, <2>3 DEF Bind, Go, PhaseInv, TypeOK
      <3>. QED  BY <2>1, <3>1
    <2>. QED  BY <2>2, <2>3
  <1>7. ASSUME NEW c \in Commands,
               CheckBridge(c) \/ Hold(c) \/ Mark(c) \/ SetPort(c)
        PROVE SpawnInv'
    <2>1. /\ UNCHANGED <<stored, spawning, kind>>
          /\ pc[c] \in {"check", "hold", "mark", "setport"}
      BY <1>7 DEF CheckBridge, Hold, Mark, SetPort, At, Go, sidecarVars
    <2>2. \A d \in Commands : pc'[d] = pc[d] \/ d = c
      BY <1>7 DEF CheckBridge, Hold, Mark, SetPort, Go
    <2>. QED  BY <2>1, <2>2
  <1>8. ASSUME NEW c \in Commands,
               Unlink(c) \/ Signal(c) \/ Unmark(c) \/ Unport(c) \/ Kill(c)
        PROVE SpawnInv'
    <2>1. /\ kind[c] # "serve" /\ UNCHANGED <<kind, spawning>>
          /\ stored' \in {stored, None}
      BY <1>8 DEF Unlink, Signal, Unmark, Unport, Kill, At, Go, sidecarVars, PhaseInv
    <2>2. \A d \in Commands : pc'[d] = pc[d] \/ d = c
      BY <1>8 DEF Unlink, Signal, Unmark, Unport, Kill, Go
    <2>. QED  BY <2>1, <2>2
  <1>9. ASSUME NEW c \in Commands, LoopExits(c) \/ SidecarEnds(c) \/ Monitor(c) PROVE SpawnInv'
    BY <1>9 DEF LoopExits, SidecarEnds, Monitor, sidecarVars
  <1>. QED
    BY <1>1, <1>2, <1>3, <1>4, <1>5, <1>6, <1>7, <1>8, <1>9 DEF Next, Command

LEMMA SpawnInvariance == Spec => []SpawnInv
  <1>1. Init => SpawnInv
    BY DEF Init, SpawnInv, Spawning
  <1>2. SpawnInv /\ UNCHANGED vars => SpawnInv'
    BY DEF SpawnInv, Spawning, vars
  <1>. QED  BY <1>1, <1>2, SpawnStep, PhaseInvariance, PTL DEF Spec

\* The spawn guard does its work for any number of concurrent commands: one of
\* them spawns at a time, and it never overwrites a stored handle.
THEOREM SpawnsAreSerial == Spec => []OneSpawner
  <1>1. PhaseInv /\ SpawnInv => OneSpawner
    BY DEF SpawnInv, OneSpawner, Spawning, PhaseInv
  <1>. QED  BY <1>1, SpawnInvariance, PhaseInvariance, PTL

-----------------------------------------------------------------------------
(* Calm histories: a command takes a step only when every listener that was *)
(* told to end has ended, so each finds the bridge either up or down.       *)
Leaving(l) == loop[l] \in {"told", "unmarked", "unported"}
NoneUp == \A l \in Commands : loop[l] # "up"
IsUp == port # None /\ file = port /\ loop[port] = "up"

\* Commands come one at a time.
Alone == \A c, d \in Running : c = d

\* What a command knows of the bridge, what a listener that leaves says of the
\* commands, and who, if a bridge that runs is not up, is at work on it.
BridgeCalm ==
    /\ \A c \in Commands :
         /\ pc[c] \in {"bind", "hold", "unmark"} => NoneUp
         /\ pc[c] \in {"bind", "hold", "mark", "unport"} => ~running
         /\ pc[c] = "hold" => file = c
         /\ pc[c] \in {"mark", "setport"} => file = c /\ loop[c] = "up"
    /\ \A l \in Commands :
         /\ loop[l] = "up" => running \/ pc[l] = "mark"
         /\ Leaving(l) => /\ NoneUp
                          /\ \A c \in Commands : pc[c] \in {"new", "done", "unmark"}
         /\ loop[l] \in {"unmarked", "unported"} => ~running
    /\ running => IsUp \/ \E c \in Commands : pc[c] \in {"setport", "signal", "unmark"}

\* At most one sidecar is not yet done with, and it is stored or about to be.
Alive(c) == child[c] \in {"alive", "dead", "noted"}
SidecarCalm ==
    /\ \A c \in Commands : child[c] = "alive" => stored = c \/ pc[c] = "store"
    /\ \A c, d \in Commands : Alive(c) /\ Alive(d) => c = d

\* A sidecar belongs to a command that stores it or has done so.
ChildInv ==
    \A c \in Commands :
        /\ child[c] # "none" => pc[c] \in {"store", "done"}
        /\ pc[c] = "store" => child[c] \in {"alive", "dead"}

CalmInv == calm => Alone /\ BridgeCalm /\ SidecarCalm

LEMMA ChildStep ==
    ASSUME PhaseInv, ChildInv, Next PROVE ChildInv'
  <1>. USE DEF ChildInv
  <1>. pc \in [Commands -> Phases] /\ child \in [Commands -> ChildPhases]
    BY DEF PhaseInv, TypeOK
  <1>1. ASSUME NEW c \in Commands, NEW k \in Kinds, Invoke(c, k) PROVE ChildInv'
    <2>1. pc'[c] \notin {"store"} /\ child[c] = "none" /\ child' = child
      BY <1>1 DEF Invoke, sidecarVars
    <2>2. \A d \in Commands : d # c => pc'[d] = pc[d]
      BY <1>1 DEF Invoke
    <2>. QED  BY <2>1, <2>2
  <1>2. ASSUME NEW c \in Commands, Spawn(c) \/ Store(c) PROVE ChildInv'
    BY <1>2 DEF Spawn, Store, At, Go
  <1>3. ASSUME NEW c \in Commands,
               \/ CheckSidecar(c) \/ TakeGuard(c) \/ Recheck(c)
               \/ CheckBridge(c) \/ Bind(c) \/ Hold(c) \/ Mark(c) \/ SetPort(c)
               \/ Unlink(c) \/ Signal(c) \/ Unmark(c) \/ Unport(c)
        PROVE ChildInv'
    <2>1. /\ pc[c] \notin {"store", "done"} /\ child' = child
          /\ \E p \in Phases \ {"store"} : Go(c, p)
      BY <1>3 DEF CheckSidecar, TakeGuard, Recheck, CheckBridge, Bind, Hold, Mark, SetPort,
                  Unlink, Signal, Unmark, Unport, At, sidecarVars, Phases
    <2>. QED  BY <2>1 DEF Go
  <1>4. ASSUME NEW c \in Commands, Kill(c) PROVE ChildInv'
    BY <1>4 DEF Kill, At, Go
  <1>5. ASSUME NEW c \in Commands, LoopExits(c) PROVE ChildInv'
    BY <1>5 DEF LoopExits, sidecarVars
  <1>6. ASSUME NEW c \in Commands, SidecarEnds(c) \/ Monitor(c) PROVE ChildInv'
    BY <1>6 DEF SidecarEnds, Monitor
  <1>. QED
    BY <1>1, <1>2, <1>3, <1>4, <1>5, <1>6 DEF Next, Command

\* A command is invoked in a calm history only when none is running.
LEMMA NoneRuns ==
    ASSUME Alone, Cardinality(Running) < 1 PROVE Running = {}
  <1>1. ASSUME NEW c \in Running PROVE FALSE
    <2>1. Running = {c}
      BY <1>1 DEF Alone
    <2>. QED  BY <2>1, FS_Singleton
  <1>. QED  BY <1>1

LEMMA AloneStep ==
    ASSUME PhaseInv, Alone, calm, Next PROVE Alone'
  <1>. pc \in [Commands -> Phases]
    BY DEF PhaseInv, TypeOK
  <1>1. ASSUME NEW c \in Commands, NEW k \in Kinds, Invoke(c, k) PROVE Alone'
    <2>1. Running = {}
      BY <1>1, NoneRuns DEF Invoke
    <2>2. \A d \in Commands : d # c => pc'[d] = pc[d]
      BY <1>1 DEF Invoke
    <2>. QED  BY <2>1, <2>2 DEF Alone, Running
  <1>2. ASSUME NEW c \in Commands, NEW p, Go(c, p), pc[c] \notin {"new", "done"} PROVE Alone'
    BY <1>2 DEF Alone, Running, Go
  <1>3. ASSUME NEW c \in Commands, LoopExits(c) \/ SidecarEnds(c) \/ Monitor(c) PROVE Alone'
    BY <1>3 DEF LoopExits, SidecarEnds, Monitor, Alone, Running
  <1>4. ASSUME NEW c \in Commands,
               \/ CheckSidecar(c) \/ TakeGuard(c) \/ Recheck(c) \/ Spawn(c) \/ Store(c)
               \/ CheckBridge(c) \/ Bind(c) \/ Hold(c) \/ Mark(c) \/ SetPort(c)
               \/ Unlink(c) \/ Signal(c) \/ Unmark(c) \/ Unport(c) \/ Kill(c)
        PROVE Alone'
    <2>1. pc[c] \notin {"new", "done"} /\ \E p : Go(c, p)
      BY <1>4 DEF CheckSidecar, TakeGuard, Recheck, Spawn, Store, CheckBridge, Bind, Hold,
                  Mark, SetPort, Unlink, Signal, Unmark, Unport, Kill, At
    <2>. QED  BY <1>2, <2>1
  <1>. QED
    BY <1>1, <1>3, <1>4 DEF Next, Command

LEMMA SidecarStep ==
    ASSUME PhaseInv, SpawnInv, ChildInv, Alone, calm, SidecarCalm, Next PROVE SidecarCalm'
  <1>. USE DEF SidecarCalm, Alive
  <1>. pc \in [Commands -> Phases] /\ child \in [Commands -> ChildPhases]
    BY DEF PhaseInv, TypeOK
  <1>1. ASSUME NEW c \in Commands, NEW k \in Kinds, Invoke(c, k) PROVE SidecarCalm'
    <2>1. pc[c] = "new" /\ UNCHANGED <<child, stored>>
          /\ \A d \in Commands : d # c => pc'[d] = pc[d]
      BY <1>1 DEF Invoke, sidecarVars
    <2>. QED  BY <2>1
  <1>2. ASSUME NEW c \in Commands, Spawn(c), Settled PROVE SidecarCalm'
    <2>1. stored = None /\ child[c] = "none" /\ pc[c] = "spawn"
      BY <1>2 DEF Spawn, At, SpawnInv, Spawning, PhaseInv, ChildInv
    <2>2. \A d \in Commands : ~Alive(d)
      <3>1. \A d \in Commands : d # c => pc[d] \in {"new", "done"}
        BY <2>1 DEF Alone, Running
      <3>. QED  BY <1>2, <2>1, <3>1, NoneAssumption DEF Settled, ChildInv
    <2>. QED  BY <1>2, <2>1, <2>2 DEF Spawn, Go
  <1>3. ASSUME NEW c \in Commands, Store(c) PROVE SidecarCalm'
    BY <1>3 DEF Store, At, Go, ChildInv
  <1>4. ASSUME NEW c \in Commands, Kill(c) PROVE SidecarCalm'
    <2>1. \A d \in Commands : pc[d] # "store"
      BY <1>4 DEF Kill, At, Alone, Running
    <2>. QED  BY <1>4, <2>1 DEF Kill, Go
  <1>5. ASSUME NEW c \in Commands,
               \/ CheckSidecar(c) \/ TakeGuard(c) \/ Recheck(c)
               \/ CheckBridge(c) \/ Bind(c) \/ Hold(c) \/ Mark(c) \/ SetPort(c)
               \/ Unlink(c) \/ Signal(c) \/ Unmark(c) \/ Unport(c)
        PROVE SidecarCalm'
    <2>1. pc[c] # "store" /\ UNCHANGED <<child, stored>> /\ \E p : Go(c, p)
      BY <1>5 DEF CheckSidecar, TakeGuard, Recheck, CheckBridge, Bind, Hold, Mark, SetPort,
                  Unlink, Signal, Unmark, Unport, At, sidecarVars
    <2>. QED  BY <2>1 DEF Go
  <1>6. ASSUME NEW c \in Commands, LoopExits(c) PROVE SidecarCalm'
    BY <1>6 DEF LoopExits, sidecarVars
  <1>7. ASSUME NEW c \in Commands, SidecarEnds(c) \/ Monitor(c) PROVE SidecarCalm'
    BY <1>7 DEF SidecarEnds, Monitor
  <1>. QED
    BY <1>1, <1>2, <1>3, <1>4, <1>5, <1>6, <1>7 DEF Next, Command

LEMMA BridgeStep ==
    ASSUME PhaseInv, ListenerInv, Alone, calm, BridgeCalm, Next PROVE BridgeCalm'
  <1>. USE DEF BridgeCalm, NoneUp, Leaving
  <1>. /\ pc \in [Commands -> Phases] /\ loop \in [Commands -> LoopPhases]
       /\ port \in Commands \cup {None} /\ running \in BOOLEAN
    BY DEF PhaseInv, TypeOK
  <1>1. ASSUME NEW c \in Commands, NEW k \in Kinds, Invoke(c, k), Settled PROVE BridgeCalm'
    <2>1. /\ pc[c] = "new" /\ pc'[c] \in {"check", "sidecar", "unlink"}
          /\ UNCHANGED <<running, port, file, loop>>
          /\ \A d \in Commands : d # c => pc'[d] = pc[d]
      BY <1>1 DEF Invoke, bridgeVars
    <2>. QED  BY <1>1, <2>1 DEF IsUp, Settled
  <1>2. ASSUME NEW c \in Commands, pc[c] \notin {"new", "done"}
        PROVE \A d \in Commands : d # c => pc[d] \in {"new", "done"}
    BY <1>2 DEF Alone, Running
  <1>3. ASSUME NEW c \in Commands, Settled,
               \/ CheckSidecar(c) \/ TakeGuard(c) \/ Recheck(c) \/ Spawn(c) \/ Store(c)
               \/ Unport(c) \/ Kill(c)
        PROVE BridgeCalm'
    <2>1. /\ pc[c] \in {"sidecar", "guard", "recheck", "spawn", "store", "unport", "kill"}
          /\ pc'[c] \in {"guard", "recheck", "check", "store", "kill", "done"}
          /\ \A d \in Commands : d # c => pc'[d] = pc[d]
          /\ UNCHANGED <<running, file, loop>> /\ (port' = port \/ pc[c] = "unport")
      BY <1>3 DEF CheckSidecar, TakeGuard, Recheck, Spawn, Store, Unport, Kill, At, Go,
                  bridgeVars
    <2>. QED  BY <1>2, <1>3, <2>1 DEF IsUp, Settled
  <1>4. ASSUME NEW c \in Commands, CheckBridge(c), Settled PROVE BridgeCalm'
    BY <1>2, <1>4 DEF CheckBridge, At, Go, bridgeVars, IsUp, Settled
  <1>5. ASSUME NEW c \in Commands, Bind(c), Settled PROVE BridgeCalm'
    BY <1>2, <1>5 DEF Bind, At, Go, IsUp, Settled
  <1>6. ASSUME NEW c \in Commands, Hold(c), Settled PROVE BridgeCalm'
    <2>1. pc[c] = "hold" /\ NoneUp
      BY <1>6 DEF Hold, At
    <2>2. loop' = [loop EXCEPT ![c] = "up"]
      BY <1>6, <2>1 DEF Hold, Told
    <2>. QED  BY <1>2, <1>6, <2>1, <2>2 DEF Hold, Go, IsUp, Settled
  <1>7. ASSUME NEW c \in Commands, Mark(c) \/ SetPort(c), Settled PROVE BridgeCalm'
    BY <1>2, <1>7, NoneAssumption DEF Mark, SetPort, At, Go, IsUp, Settled
  <1>8. ASSUME NEW c \in Commands, Unlink(c), Settled PROVE BridgeCalm'
    BY <1>2, <1>8 DEF Unlink, At, Go, IsUp, Settled
  <1>9. ASSUME NEW c \in Commands, Signal(c), Settled PROVE BridgeCalm'
    <2>1. \A l \in Commands : loop'[l] = IF loop[l] = "up" THEN "told" ELSE loop[l]
      BY <1>9, NoneAssumption DEF Signal, Told, ListenerInv, ListenerIsHeld
    <2>2. /\ pc[c] = "signal" /\ pc'[c] = "unmark" /\ UNCHANGED <<running, port, file>>
          /\ \A d \in Commands : d # c => pc'[d] = pc[d]
      BY <1>9 DEF Signal, At, Go
    <2>. QED  BY <1>2, <1>9, <2>1, <2>2 DEF Settled
  <1>10. ASSUME NEW c \in Commands, Unmark(c), Settled PROVE BridgeCalm'
    BY <1>2, <1>10 DEF Unmark, At, Go, Settled
  <1>11. ASSUME NEW l \in Commands, LoopExits(l) PROVE BridgeCalm'
    <2>1. /\ Leaving(l) /\ UNCHANGED pc
          /\ \A m \in Commands : m # l => loop'[m] = loop[m]
          /\ loop'[l] \in {"unmarked", "unported", "gone"}
      BY <1>11 DEF LoopExits
    <2>2. ~running'
      BY <1>11 DEF LoopExits
    <2>. QED  BY <2>1, <2>2
  <1>12. ASSUME NEW c \in Commands, SidecarEnds(c) \/ Monitor(c) PROVE BridgeCalm'
    BY <1>12 DEF SidecarEnds, Monitor, bridgeVars, IsUp
  <1>. QED
    BY <1>1, <1>3, <1>4, <1>5, <1>6, <1>7, <1>8, <1>9, <1>10, <1>11, <1>12 DEF Next, Command

LEMMA CalmInvariance == Spec => [](ChildInv /\ CalmInv)
  <1>1. Init => ChildInv /\ CalmInv
    BY DEF Init, ChildInv, CalmInv, Alone, Running, BridgeCalm, SidecarCalm, NoneUp, Leaving,
           Alive
  <1>2. ASSUME PhaseInv, ListenerInv, SpawnInv, ChildInv, CalmInv, Next
        PROVE  ChildInv' /\ CalmInv'
    <2>1. calm' = calm
      BY <1>2 DEF Next
    <2>. QED
      BY <1>2, <2>1, ChildStep, AloneStep, SidecarStep, BridgeStep DEF CalmInv
  <1>3. ChildInv /\ CalmInv /\ UNCHANGED vars => (ChildInv /\ CalmInv)'
    BY DEF ChildInv, CalmInv, Alone, Running, BridgeCalm, SidecarCalm, NoneUp, Leaving, IsUp,
           Alive, vars
  <1>. QED
    BY <1>1, <1>2, <1>3, PhaseInvariance, ListenerInvariance, SpawnInvariance, PTL DEF Spec

\* When starts and stops come one after the other, a bridge that says it runs
\* listens on the port that its file and the settings show.
THEOREM RunningBridgesAreFound == Spec => []RunningIsDiscoverable
  <1>1. CalmInv => RunningIsDiscoverable
    BY DEF CalmInv, BridgeCalm, IsUp, RunningIsDiscoverable, Quiet, Running
  <1>. QED  BY <1>1, CalmInvariance, PTL

\* When commands come one after the other, every sidecar that lives can be
\* killed through the stored handle.
THEOREM SidecarsAreStored == Spec => []SidecarIsStored
  <1>1. CalmInv => SidecarIsStored
    BY DEF CalmInv, SidecarCalm, SidecarIsStored, Quiet, Running
  <1>. QED  BY <1>1, CalmInvariance, PTL
=============================================================================
