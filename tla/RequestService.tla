--------------------------- MODULE RequestService ---------------------------
(***************************************************************************)
(* What the MCP bridge promises its clients, without connections, locks,   *)
(* channels, timers or retries                                             *)
(* (src/src-tauri/src/mcp_bridge/server.rs:416-715).                       *)
(*                                                                         *)
(* A request is served once, then it is over.  Requests that are not       *)
(* read-only are served one at a time.  A request runs in a window only    *)
(* once it has been served, twice at most, and "ok" means that it ran.     *)
(* What is not promised: a request may end with an error or unanswered,    *)
(* and one that is over may still run, because the bridge stops waiting    *)
(* without the window knowing.                                             *)
(***************************************************************************)
CONSTANT Requests

VARIABLES
    phase,  \* "new", "waiting", "shared" or "exclusive" (served), "done"
    reply,  \* what the client was sent
    ran     \* <<request, k>>: its k-th event was executed
vars == <<phase, reply, ran>>

Served == {"shared", "exclusive"}

Init ==
    /\ phase = [r \in Requests |-> "new"]
    /\ reply = [r \in Requests |-> "none"]
    /\ ran = {}

\* The request arrives: it waits, is served at once beside others, or is over.
Begin(r) ==
    /\ phase[r] = "new"
    /\ \/ \E p \in {"waiting", "shared", "done"} : phase' = [phase EXCEPT ![r] = p]
          /\ reply' = reply
       \/ /\ phase' = [phase EXCEPT ![r] = "done"]
          /\ reply' = [reply EXCEPT ![r] = "ok"]
    /\ ran' = ran

\* It is served alone.
Grant(r) ==
    /\ phase[r] = "waiting"
    /\ \A s \in Requests : phase[s] # "exclusive"
    /\ phase' = [phase EXCEPT ![r] = "exclusive"]
    /\ UNCHANGED <<reply, ran>>

Run(r) ==
    /\ phase[r] \in Served \cup {"done"}
    /\ \E k \in {1, 2} : ran' = ran \cup {<<r, k>>}
    /\ UNCHANGED <<phase, reply>>

End(r) ==
    /\ phase[r] \in Served
    /\ phase' = [phase EXCEPT ![r] = "done"]
    /\ \/ reply' = reply
       \/ \E k \in {"refused", "error"} : reply' = [reply EXCEPT ![r] = k]
       \/ /\ \E k \in {1, 2} : <<r, k>> \in ran
          /\ reply' = [reply EXCEPT ![r] = "ok"]
    /\ ran' = ran

Next == \E r \in Requests : Begin(r) \/ Grant(r) \/ Run(r) \/ End(r)

Spec == Init /\ [][Next]_vars
=============================================================================
