----------------------------- MODULE McpBridge -----------------------------
(***************************************************************************)
(* The MCP bridge of TMark: the WebSocket server in the Rust process that  *)
(* takes requests from AI clients, hands each to a document window as an   *)
(* event and waits for the window's answer.                                *)
(*                                                                         *)
(*   src/src-tauri/src/mcp_bridge/server.rs    connections, handle_message *)
(*   src/src-tauri/src/mcp_bridge/state.rs     clients, pending, WRITE_LOCK*)
(*   src/src-tauri/src/mcp_bridge/commands.rs  mcp_bridge_respond          *)
(*   src/src/hooks/mcpBridge/handleRequest.ts  the window's side           *)
(*                                                                         *)
(* A connection is a slot c \in Clients; each slot serves one message at a *)
(* time (the loop of handle_connection awaits handle_message).  Its n-th   *)
(* request is <<c, n>>.  An await of the Rust code ends a step.  Time is   *)
(* counted in ticks; a ready task runs before the next tick.               *)
(***************************************************************************)
EXTENDS Naturals, Sequences, FiniteSets

CONSTANTS
    Clients,     \* connection slots
    Windows,     \* labels of the document windows
    Ops,         \* request types the clients use
    Ids,         \* request ids on the wire
    IdOf,        \* the id a client gives its n-th request
    MaxReq,      \* bound: requests per slot
    MaxStops,    \* bound: calls of stop_bridge
    MaxPending,  \* MAX_PENDING_REQUESTS
    Timeout,     \* the 10 s of both waits, in ticks
    TTL,         \* PENDING_TTL_SECS, in ticks
    Suspends     \* may the webview sleep through a tick (App Nap)?

Requests == Clients \X (1..MaxReq)

ASSUME BoundsAssumption ==
    /\ MaxReq \in Nat /\ MaxStops \in Nat /\ MaxPending \in Nat
    /\ Timeout \in Nat \ {0} /\ TTL \in Nat
    /\ Suspends \in BOOLEAN
ASSUME IdAssumption == IdOf \in [Requests -> Ids]

\* No two requests share an id: the sidecar makes "req_<n>_<milliseconds>".
UniqueIds == \A r, s \in Requests : IdOf[r] = IdOf[s] => r = s

-----------------------------------------------------------------------------
(* Request types.  is_read_only_operation still lists the names of the     *)
(* first protocol; the windows dispatch only the "tmark." names.           *)

ReadOnlyOps   == {"document.getContent", "tabs.list", "protocol.getRevision"}
RustSideOps   == {"windows.list", "windows.getFocused"}
DispatchedOps == {"tmark.document.read", "tmark.document.write",
                  "tmark.workspace.save"}

ASSUME OpsAssumption ==
    /\ Ops # {} /\ Ops \subseteq ReadOnlyOps \cup RustSideOps \cup DispatchedOps
ASSUME WindowsAssumption == Windows # {}

IsReadOnly(o) == o \in ReadOnlyOps

-----------------------------------------------------------------------------
VARIABLES
    bridge,     \* "up", "stopping" (shutdown sent, not drained) or "down"
    listening,  \* the accept loop runs
    stops,      \* calls of stop_bridge so far
    conn,       \* phase of each slot's handle_connection task
    clients,    \* BridgeState.clients
    shut,       \* slots whose shutdown channel has fired
    n, op, win, \* the request each slot handles: number, type, target window
    pc,         \* where its handle_message is
    clock,      \* ticks since it began to wait
    chan,       \* its oneshot response channel
    pending,    \* BridgeState.pending: its entries, one under each id
    lockq,      \* WRITE_LOCK: the holder, then the waiters in order
    windows,    \* open document windows
    queue,      \* per window, emitted events its webview has not handled
    answers,    \* mcp_bridge_respond calls under way
    sent,       \* history: emissions of each request
    ran,        \* history: <<request, k>> once its k-th event was executed
    reply       \* history: what the client was sent for each request

connVars  == <<bridge, listening, stops, conn, clients, shut>>
reqVars   == <<n, op, win>>
winVars   == <<windows, queue, answers, ran>>
vars == <<bridge, listening, stops, conn, clients, shut, n, op, win, pc, clock,
          chan, pending, lockq, windows, queue, answers, sent, ran, reply>>

Waiting   == {"wait1", "wait2"}
InService == {"insert", "emit", "wait1", "retry", "reemit", "wait2", "giveup"}
Receiving == {"emit", "wait1", "reemit", "wait2"}   \* the receiver is alive

Entry   == [req : Requests, attempt : {1, 2}, age : 0..TTL]
Kinds   == {"ok", "refused", "stopped"}     \* of the values a channel carries

Attempt(c) == IF pc[c] \in {"insert", "emit", "wait1"} THEN 1 ELSE 2
CurReq(c)  == <<c, n[c]>>
CurId(c)   == IdOf[CurReq(c)]

ConnType ==
    /\ bridge \in {"up", "stopping", "down"} /\ listening \in BOOLEAN
    /\ stops \in Nat
    /\ conn \in [Clients -> {"none", "handshake", "auth", "main"}]
    /\ clients \subseteq Clients /\ shut \subseteq Clients
HandlerType ==
    /\ n \in [Clients -> 0..MaxReq] /\ op \in [Clients -> Ops]
    /\ win \in [Clients -> Windows]
    /\ pc \in [Clients -> {"idle", "lock"} \cup InService]
    /\ clock \in [Clients -> 0..Timeout]
    /\ chan \in [Clients -> {"empty", "closed"} \cup Kinds]
TableType ==
    /\ pending \in SUBSET Entry /\ lockq \in Seq(Clients)
WindowType ==
    /\ windows \subseteq Windows
    /\ queue \in [Windows -> Seq([req : Requests, op : Ops, try : 1..2])]
    /\ answers \subseteq [req : Requests, kind : {"ok", "refused"}, try : 1..2]
HistoryType ==
    /\ sent \in [Requests -> 0..2] /\ ran \subseteq Requests \X {1, 2}
    /\ reply \in [Requests -> {"none", "ok", "refused", "error"}]

\* The shape of the connection, handler, table, window and history variables;
\* with it, that no request is emitted more than twice (server.rs:644).
TypeOK == ConnType /\ HandlerType /\ TableType /\ WindowType /\ HistoryType

Init ==
    /\ bridge = "up" /\ listening = TRUE /\ stops = 0
    /\ conn = [c \in Clients |-> "none"] /\ clients = {} /\ shut = {}
    /\ n = [c \in Clients |-> 0]
    /\ op = [c \in Clients |-> CHOOSE o \in Ops : TRUE]
    /\ win = [c \in Clients |-> CHOOSE w \in Windows : TRUE]
    /\ pc = [c \in Clients |-> "idle"] /\ clock = [c \in Clients |-> 0]
    /\ chan = [c \in Clients |-> "empty"]
    /\ pending = {}
    /\ lockq = <<>>
    /\ windows = Windows /\ queue = [w \in Windows |-> <<>>] /\ answers = {}
    /\ sent = [r \in Requests |-> 0] /\ ran = {}
    /\ reply = [r \in Requests |-> "none"]

-----------------------------------------------------------------------------
(* Connections.                                                            *)

\* The accept loop spawns handle_connection; it has not registered yet.
Accept(c) ==
    /\ listening /\ conn[c] = "none"
    /\ conn' = [conn EXCEPT ![c] = "handshake"]
    /\ shut' = shut \ {c}
    /\ UNCHANGED <<bridge, listening, stops, clients, reqVars, pc, clock, chan,
                   pending, lockq, winVars, sent, reply>>

\* After the WebSocket handshake the client is registered, bridge up or not.
Register(c) ==
    /\ conn[c] = "handshake"
    /\ conn' = [conn EXCEPT ![c] = "auth"]
    /\ clients' = clients \cup {c}
    /\ UNCHANGED <<bridge, listening, stops, shut, reqVars, pc, clock, chan,
                   pending, lockq, winVars, sent, reply>>

\* The auth phase does not look at the shutdown channel.
Authenticate(c) ==
    /\ conn[c] = "auth"
    /\ conn' = [conn EXCEPT ![c] = "main"]
    /\ UNCHANGED <<bridge, listening, stops, clients, shut, reqVars, pc, clock,
                   chan, pending, lockq, winVars, sent, reply>>

\* What is left of a connection is its BridgeState entry.
Unregister(c) ==
    /\ conn' = [conn EXCEPT ![c] = "none"]
    /\ clients' = clients \ {c}
    /\ UNCHANGED <<bridge, listening, stops, shut, reqVars, pc, clock, chan,
                   pending, lockq, winVars, sent, reply>>

\* The handshake or the authentication fails (10 s at most), or the main loop,
\* between two messages, sees the socket close.
Leave(c) ==
    /\ conn[c] # "none" /\ pc[c] = "idle"
    /\ Unregister(c)

\* Mutant of Shutdown: only a client that is still in the table is shut down.
ShutdownIfRegistered(c) ==
    /\ conn[c] = "main" /\ pc[c] = "idle" /\ c \in shut \cap clients
    /\ Unregister(c)

\* The main loop, between two messages, sees the shutdown channel fire.
Shutdown(c) ==
    /\ conn[c] = "main" /\ pc[c] = "idle" /\ c \in shut
    /\ Unregister(c)

-----------------------------------------------------------------------------
(* handle_message: helpers.                                                *)

\* Is e the sender of the channel that c still receives on?
Feeds(e, c) ==
    /\ e.req = CurReq(c) /\ e.attempt = Attempt(c)
    /\ pc[c] \in Receiving /\ chan[c] = "empty"

\* The channels once the senders in S have sent x; dropping a sender leaves a
\* receiver that has no value yet with a closed channel.
After(S, x) ==
    [c \in Clients |-> IF \E e \in S : Feeds(e, c) THEN x ELSE chan[c]]

\* Mutant of Under: an answer goes to whatever is pending.
UnderAny(i) == pending

Under(i) == {e \in pending : IdOf[e.req] = i}

\* cleanup_stale_pending keeps the entries younger than the TTL.
Stale == {e \in pending : e.age >= TTL}

\* Mutant of Finish: the write guard is never dropped.
FinishKeepsLock(c, channels) ==
    /\ pc' = [pc EXCEPT ![c] = "idle"]
    /\ clock' = [clock EXCEPT ![c] = 0]
    /\ chan' = [channels EXCEPT ![c] = "empty"]
    /\ UNCHANGED lockq

TableFull == Cardinality(pending \ Stale) >= MaxPending

\* handle_message returns: its channel goes with it, and the write guard, if it
\* holds one, is dropped.
Finish(c, channels) ==
    /\ pc' = [pc EXCEPT ![c] = "idle"]
    /\ clock' = [clock EXCEPT ![c] = 0]
    /\ chan' = [channels EXCEPT ![c] = "empty"]
    /\ lockq' = IF IsReadOnly(op[c]) THEN lockq ELSE Tail(lockq)

\* pending.remove(id) on the way out: whatever entry is there is dropped.
RemoveAndFinish(c) ==
    /\ pending' = pending \ Under(CurId(c))
    /\ Finish(c, After(Under(CurId(c)), "closed"))

Send(c, kind) == reply' = [reply EXCEPT ![CurReq(c)] = kind]

-----------------------------------------------------------------------------
(* handle_message: steps.                                                  *)

\* A request arrives.  Requests about windows are answered at once; another
\* one of a client that stop_bridge has drained ends with "Client not found".
Request(c, o, w) ==
    /\ conn[c] = "main" /\ pc[c] = "idle" /\ n[c] < MaxReq
    /\ n' = [n EXCEPT ![c] = @ + 1]
    /\ op' = [op EXCEPT ![c] = o]
    /\ win' = [win EXCEPT ![c] = w]
    /\ \/ /\ c \in clients /\ o \in RustSideOps
          /\ reply' = [reply EXCEPT ![<<c, n[c] + 1>>] = "ok"]
          /\ UNCHANGED <<pc, lockq>>
       \/ /\ c \notin clients
          /\ UNCHANGED <<pc, lockq, reply>>
       \/ /\ c \in clients /\ o \notin RustSideOps /\ IsReadOnly(o)
          /\ pc' = [pc EXCEPT ![c] = "insert"]
          /\ UNCHANGED <<lockq, reply>>
       \/ /\ c \in clients /\ o \notin RustSideOps /\ ~IsReadOnly(o)
          /\ pc' = [pc EXCEPT ![c] = "lock"]
          /\ lockq' = Append(lockq, c)
          /\ UNCHANGED reply
    /\ UNCHANGED <<connVars, clock, chan, pending, winVars, sent>>

\* Mutant of Acquire: the lock is tried, not awaited.
AcquireAtOnce(c) ==
    /\ pc[c] = "lock"
    /\ pc' = [pc EXCEPT ![c] = "insert"]
    /\ UNCHANGED <<connVars, reqVars, clock, chan, pending, lockq, winVars,
                   sent, reply>>

\* tokio's mutex is fair: the lock goes to the longest waiter.
Acquire(c) ==
    /\ pc[c] = "lock" /\ Head(lockq) = c
    /\ pc' = [pc EXCEPT ![c] = "insert"]
    /\ UNCHANGED <<connVars, reqVars, clock, chan, pending, lockq, winVars,
                   sent, reply>>

\* Under the state lock: expired entries go, then the entry is put in place,
\* whatever was there under the same id; a full table ends the request with
\* an error that is only logged.
Insert(c) ==
    /\ pc[c] = "insert"
    /\ \/ /\ TableFull
          /\ pending' = pending \ Stale
          /\ Finish(c, After(Stale, "closed"))
       \/ /\ ~TableFull
          /\ pending' = (pending \ (Stale \cup Under(CurId(c))))
                            \cup {[req |-> CurReq(c), attempt |-> 1, age |-> 0]}
          /\ chan' = [After(Stale \cup Under(CurId(c)), "closed") EXCEPT ![c] = "empty"]
          /\ pc' = [pc EXCEPT ![c] = "emit"]
          /\ UNCHANGED <<lockq, clock>>
    /\ UNCHANGED <<connVars, reqVars, winVars, sent, reply>>

\* The event goes to the target window only, and the wait begins.
EmitTo(c, next) ==
    /\ win[c] \in windows
    /\ queue' = [queue EXCEPT ![win[c]] = Append(@, [req |-> CurReq(c), op |-> op[c],
                                                 try |-> sent[CurReq(c)] + 1])]
    /\ sent' = [sent EXCEPT ![CurReq(c)] = @ + 1]
    /\ clock' = [clock EXCEPT ![c] = 0]
    /\ pc' = [pc EXCEPT ![c] = next]
    /\ UNCHANGED <<connVars, reqVars, chan, pending, lockq, windows, answers,
                   ran, reply>>

Emit(c) == pc[c] = "emit" /\ EmitTo(c, "wait1")

\* The window is gone, or emitting to it fails: the error is only logged.
EmitFails(c) ==
    /\ pc[c] = "emit" /\ win[c] \notin windows
    /\ RemoveAndFinish(c)
    /\ UNCHANGED <<connVars, reqVars, winVars, sent, reply>>

\* The channel has a value: the answer of a window or of stop_bridge.
Receive(c) ==
    /\ pc[c] \in Waiting /\ chan[c] \in Kinds
    /\ Send(c, IF chan[c] = "stopped" THEN "error" ELSE chan[c])
    /\ Finish(c, chan)
    /\ UNCHANGED <<connVars, reqVars, pending, winVars, sent>>

\* The sender is gone: "Response channel closed".  Whatever entry is now under
\* the id goes with it.
ChannelClosed(c) ==
    /\ pc[c] \in Waiting /\ chan[c] = "closed"
    /\ RemoveAndFinish(c)
    /\ Send(c, "error")
    /\ UNCHANGED <<connVars, reqVars, winVars, sent>>

TimedOut(c) == chan[c] = "empty" /\ clock[c] = Timeout

\* First timeout: the receiver is dropped; its sender is still in the table.
FirstTimeout(c) ==
    /\ pc[c] = "wait1" /\ TimedOut(c)
    /\ pc' = [pc EXCEPT ![c] = "retry"]
    /\ UNCHANGED <<connVars, reqVars, clock, chan, pending, lockq, winVars,
                   sent, reply>>

\* A new channel takes the old one's place under the id.
RetryInsert(c) ==
    /\ pc[c] = "retry"
    /\ pending' = (pending \ Under(CurId(c)))
                      \cup {[req |-> CurReq(c), attempt |-> 2, age |-> 0]}
    /\ chan' = [After(Under(CurId(c)), "closed") EXCEPT ![c] = "empty"]
    /\ pc' = [pc EXCEPT ![c] = "reemit"]
    /\ UNCHANGED <<connVars, reqVars, clock, lockq, winVars, sent, reply>>

\* The same event again.
Reemit(c) == pc[c] = "reemit" /\ EmitTo(c, "wait2")

ReemitFails(c) ==
    /\ pc[c] = "reemit" /\ win[c] \notin windows
    /\ RemoveAndFinish(c)
    /\ Send(c, "error")
    /\ UNCHANGED <<connVars, reqVars, winVars, sent>>

\* Final timeout: the receiver is dropped before the entry is.
FinalTimeout(c) ==
    /\ pc[c] = "wait2" /\ TimedOut(c)
    /\ pc' = [pc EXCEPT ![c] = "giveup"]
    /\ UNCHANGED <<connVars, reqVars, clock, chan, pending, lockq, winVars,
                   sent, reply>>

\* Mutants of GiveUp: the entry stays in the table; the client is not told.
GiveUpKeepsEntry(c) ==
    /\ pc[c] = "giveup"
    /\ pending' = pending
    /\ Send(c, "error")
    /\ Finish(c, chan)
    /\ UNCHANGED <<connVars, reqVars, winVars, sent>>

GiveUpSilently(c) ==
    /\ pc[c] = "giveup"
    /\ RemoveAndFinish(c)
    /\ UNCHANGED <<connVars, reqVars, winVars, sent, reply>>

\* The entry is removed and the client told.
GiveUp(c) ==
    /\ pc[c] = "giveup"
    /\ RemoveAndFinish(c)
    /\ Send(c, "error")
    /\ UNCHANGED <<connVars, reqVars, winVars, sent>>

-----------------------------------------------------------------------------
(* The windows.                                                            *)

\* The listener runs the next event and calls mcp_bridge_respond: a request
\* of a dispatched type takes effect, or is refused (an argument, a stale
\* revision, a read-only document); any other type is unknown.
Execute(w) ==
    /\ w \in windows /\ queue[w] # <<>>
    /\ LET e == Head(queue[w]) IN
       \/ /\ e.op \in DispatchedOps
          /\ ran' = ran \cup {<<e.req, e.try>>}
          /\ answers' = answers \cup {[req |-> e.req, kind |-> "ok", try |-> e.try]}
       \/ /\ ran' = ran
          /\ answers' = answers \cup {[req |-> e.req, kind |-> "refused", try |-> e.try]}
    /\ queue' = [queue EXCEPT ![w] = Tail(@)]
    /\ UNCHANGED <<connVars, reqVars, pc, clock, chan, pending, lockq, windows,
                   sent, reply>>

\* mcp_bridge_respond: the entry under the id is removed and its channel fed.
Respond(a) ==
    /\ a \in answers
    /\ answers' = answers \ {a}
    /\ pending' = pending \ Under(IdOf[a.req])
    /\ chan' = After(Under(IdOf[a.req]), a.kind)
    /\ UNCHANGED <<connVars, reqVars, pc, clock, lockq, windows, queue, sent,
                   ran, reply>>

CloseWindow(w) ==
    /\ w \in windows
    /\ windows' = windows \ {w}
    /\ queue' = [queue EXCEPT ![w] = <<>>]
    /\ UNCHANGED <<connVars, reqVars, pc, clock, chan, pending, lockq, answers,
                   sent, ran, reply>>

-----------------------------------------------------------------------------
(* stop_bridge and time.                                                   *)

\* The shutdown signal is sent to the accept loop.
StopSignal ==
    /\ bridge = "up" /\ stops < MaxStops
    /\ bridge' = "stopping" /\ stops' = stops + 1
    /\ UNCHANGED <<listening, conn, clients, shut, reqVars, pc, clock, chan,
                   pending, lockq, winVars, sent, reply>>

\* The accept loop may take another connection before it sees the signal.
ListenerExits ==
    /\ bridge # "up" /\ listening
    /\ listening' = FALSE
    /\ UNCHANGED <<bridge, stops, conn, clients, shut, reqVars, pc, clock, chan,
                   pending, lockq, winVars, sent, reply>>

\* Under the state lock: every registered client is told to close, every
\* pending request is answered "Bridge stopped".
StopDrain ==
    /\ bridge = "stopping"
    /\ bridge' = "down"
    /\ shut' = shut \cup clients /\ clients' = {}
    /\ pending' = {} /\ chan' = After(pending, "stopped")
    /\ UNCHANGED <<listening, stops, conn, reqVars, pc, clock, lockq, winVars,
                   sent, reply>>

\* start_bridge: a new accept loop, the statics as they are.
Start ==
    /\ bridge = "down"
    /\ bridge' = "up" /\ listening' = TRUE
    /\ UNCHANGED <<stops, conn, clients, shut, reqVars, pc, clock, chan,
                   pending, lockq, winVars, sent, reply>>

\* Every task that can go on has gone on; an awake webview has handled and
\* answered its events.
Idle(c) ==
    \/ pc[c] = "idle"
    \/ pc[c] = "lock" /\ Head(lockq) # c
    \/ pc[c] \in Waiting /\ chan[c] = "empty" /\ clock[c] < Timeout

Tick ==
    /\ \A c \in Clients : Idle(c)
    /\ \E c \in Clients : pc[c] \in Waiting
    /\ Suspends \/ (answers = {} /\ \A w \in windows : queue[w] = <<>>)
    /\ clock' = [c \in Clients |-> IF pc[c] \in Waiting THEN clock[c] + 1 ELSE clock[c]]
    /\ pending' = {[e EXCEPT !.age = IF @ < TTL THEN @ + 1 ELSE TTL] : e \in pending}
    /\ UNCHANGED <<connVars, reqVars, pc, chan, lockq, winVars, sent, reply>>

-----------------------------------------------------------------------------
Handler(c) ==
    \/ Acquire(c) \/ Insert(c) \/ Emit(c) \/ EmitFails(c) \/ Receive(c)
    \/ ChannelClosed(c) \/ FirstTimeout(c) \/ RetryInsert(c) \/ Reemit(c)
    \/ ReemitFails(c) \/ FinalTimeout(c) \/ GiveUp(c)

Connection(c) ==
    Accept(c) \/ Register(c) \/ Authenticate(c) \/ Leave(c) \/ Shutdown(c)

Next ==
    \/ \E c \in Clients : Connection(c) \/ Handler(c)
    \/ \E c \in Clients, o \in Ops, w \in Windows : Request(c, o, w)
    \/ \E w \in Windows : Execute(w) \/ CloseWindow(w)
    \/ \E a \in answers : Respond(a)
    \/ StopSignal \/ ListenerExits \/ StopDrain \/ Start \/ Tick

Spec == Init /\ [][Next]_vars

\* A ready Rust task is scheduled and its timers fire; nothing is assumed of
\* the clients or of the windows.
Fairness ==
    /\ WF_vars(Tick)
    /\ \A c \in Clients :
          /\ WF_vars(Handler(c)) /\ WF_vars(Shutdown(c))
          /\ WF_vars(conn[c] = "auth" /\ (Authenticate(c) \/ Leave(c)))
FairSpec == Spec /\ Fairness
-----------------------------------------------------------------------------
(* Properties.                                                             *)

Serving(c) == pc[c] \in InService
Writing(c) == Serving(c) /\ ~IsReadOnly(op[c])
Ran(r) == \E k \in {1, 2} : <<r, k>> \in ran
Finished(r) == n[r[1]] > r[2] \/ (n[r[1]] = r[2] /\ pc[r[1]] = "idle")

\* The write lock: of all requests that are not read-only, at most one is
\* between lock().await and the drop of the guard (server.rs:498-507).
WriteExclusion == \A c, d \in Clients : Writing(c) /\ Writing(d) => c = d

\* No entry is left behind: each pending entry belongs to the request its
\* client is serving and to the attempt it is at (every return path of
\* handle_message removes its entry).
PendingHasServer ==
    \A e \in pending :
        LET c == e.req[1] IN
        /\ e.req = CurReq(c)
        /\ \/ e.attempt = 1 /\ pc[c] \in {"emit", "wait1", "retry"}
           \/ e.attempt = 2 /\ pc[c] \in {"reemit", "wait2", "giveup"}

\* No lost wake-up: a handler that can still receive either has its answer or
\* has its sender in the table, where mcp_bridge_respond finds it; neither
\* another request nor cleanup_stale_pending ever takes it away.
ReceiverHasSender ==
    \A c \in Clients : pc[c] \in Receiving =>
        chan[c] \in Kinds \/ \E e \in pending : Feeds(e, c)

\* A client told "ok" by a window had that very request executed, not another
\* one's (the answer is routed by request id only, commands.rs:24).
OkMeansExecuted ==
    \A r \in Requests : reply[r] = "ok" => Ran(r) \/ sent[r] = 0

\* Once its event was emitted a request is always answered: by the window, or
\* with an error on every timeout, retry and stop path.
EmittedIsAnswered ==
    \A r \in Requests : Finished(r) /\ sent[r] > 0 => reply[r] # "none"

\* A write runs in a window while its client holds the write lock ("writes are
\* serialized", state.rs:73), or late: its client was told it had failed, or it
\* is the second copy of an event whose first copy was answered.
UnlockedIsLate ==
    [][\A r \in Requests, k \in {1, 2} : <<r, k>> \in ran' \ ran =>
          \/ lockq # <<>> /\ Head(lockq) = r[1] /\ n[r[1]] = r[2]
          \/ reply[r] = "error" \/ (k = 2 /\ reply[r] # "none")]_vars

\* A request is executed at most once ("Idempotency cache prevents duplicate
\* execution of identical requests", mcpBridge/index.ts:19).
AtMostOnce == \A r \in Requests : ~(<<r, 1>> \in ran /\ <<r, 2>> \in ran)

\* The bridge as a service: what a request has come to.
Phase(r) ==
    LET c == r[1] IN
    IF n[c] < r[2] THEN "new"
    ELSE IF Finished(r) THEN "done"
    ELSE IF pc[c] = "lock" THEN "waiting"
    ELSE IF IsReadOnly(op[c]) THEN "shared" ELSE "exclusive"

Service == INSTANCE RequestService WITH
    phase <- [r \in Requests |-> Phase(r)]

\* The bridge with its lock, channels, timers and retry keeps the promises of
\* RequestService.
ImplementsService == Service!Spec

\* No request is stuck: one that is waiting for the write lock or for a window
\* comes to an end, whether or not any window ever answers.
RequestsEnd == \A c \in Clients : pc[c] # "idle" ~> pc[c] = "idle"

\* A connection that stop_bridge drained ends, even one still authenticating
\* or in the middle of a request.
DrainedEnds == \A c \in Clients : c \in shut ~> (conn[c] = "none" \/ c \notin shut)
=============================================================================
