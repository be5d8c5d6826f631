----------------------------- MODULE SidecarClient -----------------------------
(***************************************************************************)
(* The sidecar's side of the bridge: WebSocketBridge, which keeps one      *)
(* connection to the application, authenticates it, reconnects, and        *)
(* carries calls with time-outs over it                                    *)
(* (tmark-mcp-server/src/bridge/websocket.ts, used as cli.ts uses it).     *)
(*                                                                         *)
(* JavaScript runs one callback at a time and the continuations of the     *)
(* promises it settles right after it: each event of a socket or a timer   *)
(* is one action, continuations included.  A socket is the number of the   *)
(* connection attempt that made it.                                        *)
(***************************************************************************)
EXTENDS Integers, FiniteSets, Sequences, SequencesExt

CONSTANTS
    Calls,          \* calls of send()
    MaxSockets,     \* bound on the connection attempts that get a socket
    MaxReconnect,   \* maxReconnectAttempts
    MaxQueue,       \* maxQueueSize
    Queueing        \* queueWhileDisconnected

ASSUME SocketsAreBounded == MaxSockets \in Nat \ {0}
ASSUME ReconnectIsNumber == MaxReconnect \in Nat
ASSUME QueueHasRoom == MaxQueue \in Nat \ {0}
ASSUME QueueingIsFlag == Queueing \in BOOLEAN

Sockets == 1..MaxSockets
NoSocket == 0

VARIABLES
    ws, sock, heard,        \* the current socket, all sockets, those with listeners
    connected, connecting, intentional, started,
    attempts, timer,        \* reconnectAttempts, and whether reconnectTimer runs
    waiter,                 \* who waits for the promise of an attempt
    openTimers,             \* connectionTimeout of the attempts
    auth, authTimers,       \* whose _authResolve and _authReject are kept; their timers
    asked,                  \* sockets whose token the server has still to judge
    queue, batch,           \* requestQueue, and what flushRequestQueue took from it
    pending, wire,          \* pendingRequests; the socket a call was written to
    queueTimers, told       \* the queue's timers, and what callers were told

socketVars == <<ws, sock, heard>>
attemptVars == <<waiter, openTimers, auth, authTimers, asked>>
flags == <<connected, connecting, intentional, started, attempts, timer>>
calls == <<queue, batch, pending, wire, queueTimers, told>>
vars == <<socketVars, attemptVars, flags, calls>>

-----------------------------------------------------------------------------
Init ==
    /\ ws = NoSocket /\ sock = [n \in Sockets |-> "new"] /\ heard = {}
    /\ connected = FALSE /\ connecting = FALSE /\ intentional = FALSE /\ started = FALSE
    /\ attempts = 0 /\ timer = FALSE
    /\ waiter = [n \in Sockets |-> "none"] /\ openTimers = {}
    /\ auth = NoSocket /\ authTimers = {} /\ asked = {}
    /\ queue = <<>> /\ batch = <<>> /\ pending = {} /\ wire = [q \in Calls |-> NoSocket]
    /\ queueTimers = {} /\ told = [q \in Calls |-> "new"]

IsConnected == connected /\ ws # NoSocket /\ sock[ws] = "open"

-----------------------------------------------------------------------------
(* What callers are told. *)

\* A promise settles once.
Tell(qs, outcome) == [q \in Calls |-> IF q \in qs /\ told[q] = "waiting" THEN outcome ELSE told[q]]

\* Pending and flushed calls fail; the flush meets a socket that is gone.
FailSent == pending \union Range(batch)

\* The calls of a flush go out one after the other, each when the one before is
\* settled: b is what is left, its head is sent now.  A socket that is closing
\* swallows what is written to it.
SendHead(b, kept, n, open) ==
    /\ batch' = b
    /\ pending' = IF b = <<>> THEN kept ELSE kept \union {Head(b)}
    /\ wire' = IF b # <<>> /\ open THEN [wire EXCEPT ![Head(b)] = n] ELSE wire

\* Call q has its outcome; when it is the head of the flush, the next is sent.
Settle(q, outcome) ==
    /\ told' = Tell({q}, outcome)
    /\ queueTimers' = queueTimers \ {q}
    /\ IF batch # <<>> /\ Head(batch) = q
       THEN SendHead(Tail(batch), pending \ {q}, ws, sock[ws] = "open")
       ELSE SendHead(batch, pending \ {q}, ws, FALSE)

-----------------------------------------------------------------------------
(* scheduleReconnect, and the catch of a timed attempt that calls it. *)

MayReconnect == ~intentional /\ attempts < MaxReconnect

Schedule ==
    /\ timer' = TRUE
    /\ attempts' = IF timer THEN attempts ELSE attempts + 1

\* The promise of attempt n is rejected.
CatchRejected(n) ==
    IF waiter[n] = "timer" /\ MayReconnect THEN Schedule ELSE UNCHANGED <<timer, attempts>>

-----------------------------------------------------------------------------
(* connect(): websocket.ts:254-438 *)

\* Mutant of Attempt: the old socket keeps its listeners.
AttemptKeepsOld(by) ==
    /\ ~connected /\ ~connecting
    /\ intentional' = FALSE
    /\ auth' = NoSocket /\ authTimers' = {}
    /\ \E n \in Sockets :
          /\ sock[n] = "new" /\ \A m \in 1..(n - 1) : sock[m] # "new"
          /\ ws' = n /\ heard' = heard \union {n}
          /\ sock' = [sock EXCEPT ![n] = "connecting"]
          /\ openTimers' = openTimers \union {n}
          /\ waiter' = [waiter EXCEPT ![n] = by]
    /\ connecting' = TRUE
    /\ UNCHANGED <<connected, asked, calls>>

\* A new attempt takes the place of the socket there was.
Attempt(by) ==
    /\ ~connected /\ ~connecting
    /\ intentional' = FALSE
    /\ auth' = NoSocket /\ authTimers' = {}
    /\ \E n \in Sockets :
          /\ sock[n] = "new" /\ \A m \in 1..(n - 1) : sock[m] # "new"
          /\ ws' = n /\ heard' = (heard \ {ws}) \union {n}
          /\ sock' = [m \in Sockets |-> CASE m = n -> "connecting"
                                        [] m = ws /\ sock[m] \in {"open", "connecting"} -> "closing"
                                        [] OTHER -> sock[m]]
          /\ openTimers' = openTimers \union {n}
          /\ waiter' = [waiter EXCEPT ![n] = by]
    /\ connecting' = TRUE
    /\ UNCHANGED <<connected, asked, calls>>

\* Mutant of NoPort: the next look at the port file is not scheduled.
NoPortStops ==
    /\ ~connected /\ ~connecting
    /\ intentional' = FALSE
    /\ auth' = NoSocket /\ authTimers' = {}
    /\ timer' = FALSE
    /\ UNCHANGED <<socketVars, connected, connecting, attempts, waiter, openTimers, asked, calls>>

\* There is no port file: the look for it is repeated and does not count, but
\* with no attempt left the queue is given up.
NoPort ==
    /\ ~connected /\ ~connecting
    /\ intentional' = FALSE
    /\ auth' = NoSocket /\ authTimers' = {}
    /\ IF attempts < MaxReconnect
       THEN timer' = TRUE /\ UNCHANGED <<queue, queueTimers, told>>
       ELSE /\ timer' = FALSE /\ queue' = <<>>
            /\ queueTimers' = queueTimers \ Range(queue)
            /\ told' = Tell(Range(queue), "error")
    /\ UNCHANGED <<socketVars, connected, connecting, attempts, waiter, openTimers, asked,
                   batch, pending, wire>>

\* cli.ts:510
CallerConnects ==
    /\ ~started /\ started' = TRUE
    /\ \/ Attempt("caller") /\ UNCHANGED <<attempts, timer>>
       \/ NoPort

ReconnectFires ==
    /\ timer
    /\ \/ Attempt("timer") /\ timer' = FALSE /\ UNCHANGED attempts
       \/ NoPort
    /\ UNCHANGED started

\* The attempt has succeeded, who waited for it goes on, and flushRequestQueue
\* sends what was queued.
Connected(n, open) ==
    /\ connected' = TRUE /\ connecting' = FALSE /\ attempts' = 0
    /\ waiter' = [waiter EXCEPT ![n] = "none"]
    /\ queue' = <<>>
    /\ SendHead(queue, pending, n, open)
    /\ UNCHANGED <<queueTimers, told>>

-----------------------------------------------------------------------------
(* Events of a socket that still has its listeners. *)

\* Mutant of Lost: the pending calls are forgotten.
LostSilently(rejected, still) ==
    /\ connected' = FALSE /\ connecting' = still
    /\ waiter' = [n \in Sockets |-> IF n \in rejected THEN "none" ELSE waiter[n]]
    /\ auth' = NoSocket /\ authTimers' = authTimers \ {auth}
    /\ heard' = heard \ {ws} /\ ws' = NoSocket
    /\ pending' = {} /\ batch' = <<>>
    /\ IF MayReconnect THEN Schedule ELSE UNCHANGED <<timer, attempts>>
    /\ UNCHANGED <<intentional, started, wire, queue, told, queueTimers>>

\* Mutant of Lost: the pending calls are queued again.
LostRequeues(rejected, still) ==
    /\ connected' = FALSE /\ connecting' = still
    /\ waiter' = [n \in Sockets |-> IF n \in rejected THEN "none" ELSE waiter[n]]
    /\ auth' = NoSocket /\ authTimers' = authTimers \ {auth}
    /\ heard' = heard \ {ws} /\ ws' = NoSocket
    /\ pending' = {} /\ batch' = <<>>
    /\ queue' = queue \o SetToSeq(pending) /\ queueTimers' = queueTimers \union pending
    /\ IF MayReconnect THEN Schedule ELSE UNCHANGED <<timer, attempts>>
    /\ UNCHANGED <<intentional, started, wire, told>>

\* handleDisconnect, with the attempts whose promise it rejects
Lost(rejected, still) ==
    /\ connected' = FALSE /\ connecting' = still
    /\ waiter' = [n \in Sockets |-> IF n \in rejected THEN "none" ELSE waiter[n]]
    /\ auth' = NoSocket /\ authTimers' = authTimers \ {auth}
    /\ heard' = heard \ {ws} /\ ws' = NoSocket
    /\ pending' = {} /\ batch' = <<>>
    /\ LET failed == FailSent \union (IF MayReconnect THEN {} ELSE Range(queue))
       IN told' = Tell(failed, "error") /\ queueTimers' = queueTimers \ failed
    /\ IF MayReconnect THEN Schedule /\ UNCHANGED queue
                       ELSE queue' = <<>> /\ UNCHANGED <<timer, attempts>>
    /\ UNCHANGED <<intentional, started, wire>>

\* The connection is refused, or takes too long: an error and a close in one go.
ConnectFails(n) ==
    /\ sock[n] = "connecting" /\ n \in heard /\ ws = n
    /\ sock' = [sock EXCEPT ![n] = "closed"]
    /\ openTimers' = openTimers \ {n}
    /\ Lost({n}, FALSE)
    /\ UNCHANGED asked

\* After disconnect() only the one who waits is told; what opens late sends its
\* token to no socket.
OrphanFails(n) ==
    /\ n \in openTimers /\ ws # n
    /\ openTimers' = openTimers \ {n}
    /\ sock' \in {sock, [sock EXCEPT ![n] = "open"], [sock EXCEPT ![n] = "closed"]}
    /\ connecting' = FALSE
    /\ waiter' = [waiter EXCEPT ![n] = "none"]
    /\ CatchRejected(n)
    /\ UNCHANGED <<ws, heard, auth, authTimers, asked, connected, intentional, started, calls>>

\* With a token the socket waits for the server's judgement, without one it is
\* connected at once.
Opens(n) ==
    /\ sock[n] = "connecting" /\ n \in heard /\ ws = n
    /\ sock' = [sock EXCEPT ![n] = "open"]
    /\ openTimers' = openTimers \ {n}
    /\ asked' = asked \union {n} /\ auth' = n /\ authTimers' = authTimers \union {n}
    /\ UNCHANGED <<ws, heard, waiter, flags, calls>>

OpensWithoutToken(n) ==
    /\ sock[n] = "connecting" /\ n \in heard
    /\ sock' = [sock EXCEPT ![n] = "open"]
    /\ openTimers' = openTimers \ {n}
    /\ Connected(n, ws = n)
    /\ UNCHANGED <<ws, heard, auth, authTimers, asked, intentional, started, timer>>

\* auth_result
Accepted(n) ==
    /\ n \in asked \intersect heard /\ sock[n] \in {"open", "closing"}
    /\ asked' = asked \ {n}
    /\ IF auth = NoSocket
       THEN UNCHANGED <<auth, authTimers, waiter, connected, connecting, attempts, calls>>
       ELSE /\ auth' = NoSocket /\ authTimers' = authTimers \ {auth}
            /\ Connected(auth, ws = auth /\ sock[auth] = "open")
    /\ UNCHANGED <<socketVars, openTimers, intentional, started, timer>>

\* The kept _authReject is called: the attempt is over, its waiter told.
AuthFails ==
    /\ auth' = NoSocket /\ authTimers' = authTimers \ {auth}
    /\ connecting' = FALSE
    /\ waiter' = [waiter EXCEPT ![auth] = "none"]
    /\ CatchRejected(auth)

Rejected(n) ==
    /\ n \in asked \intersect heard /\ sock[n] \in {"open", "closing"}
    /\ asked' = asked \ {n}
    /\ IF auth = NoSocket THEN UNCHANGED <<auth, authTimers, connecting, waiter, timer, attempts>>
                          ELSE AuthFails
    /\ UNCHANGED <<socketVars, openTimers, connected, intentional, started, calls>>

\* Mutant of AuthTimeout: the timer ends nothing.
AuthTimeoutIdle(n) ==
    /\ n \in authTimers
    /\ authTimers' = authTimers \ {n}
    /\ UNCHANGED <<socketVars, waiter, openTimers, auth, asked, flags, calls>>

AuthTimeout(n) ==
    /\ n \in authTimers
    /\ IF auth = NoSocket
       THEN authTimers' = authTimers \ {n} /\ UNCHANGED <<sock, auth, connecting, waiter, timer, attempts>>
       ELSE /\ sock' = IF ws # NoSocket /\ sock[ws] = "open" THEN [sock EXCEPT ![ws] = "closing"] ELSE sock
            /\ AuthFails
    /\ UNCHANGED <<ws, heard, openTimers, asked, connected, intentional, started, calls>>

\* The server ends the connection, at once when it has judged a token invalid.
ServerCloses(n) ==
    /\ sock[n] = "open"
    /\ sock' = [sock EXCEPT ![n] = "closing"]
    /\ UNCHANGED <<ws, heard, attemptVars, flags, calls>>

CloseEvent(n) ==
    /\ sock[n] = "closing"
    /\ sock' = [sock EXCEPT ![n] = "closed"]
    /\ IF n \in heard THEN Lost({auth} \ {NoSocket}, connecting /\ auth = NoSocket)
       ELSE UNCHANGED <<ws, heard, flags, calls, waiter, auth, authTimers>>
    /\ UNCHANGED <<openTimers, asked>>

-----------------------------------------------------------------------------
(* Calls: websocket.ts:486-606, 644-652 *)

\* A call is sent, queued, or refused; a full queue drops its oldest call.
Send(q) ==
    /\ told[q] = "new"
    /\ LET dropped == IF Len(queue) >= MaxQueue THEN {Head(queue)} ELSE {}
           asking == [told EXCEPT ![q] = "waiting"]
       IN CASE IsConnected ->
                 /\ pending' = pending \union {q} /\ wire' = [wire EXCEPT ![q] = ws]
                 /\ told' = asking /\ UNCHANGED <<queue, queueTimers>>
            [] ~IsConnected /\ Queueing /\ MayReconnect ->
                 /\ queue' = Append(IF dropped = {} THEN queue ELSE Tail(queue), q)
                 /\ queueTimers' = (queueTimers \ dropped) \union {q}
                 /\ told' = [p \in Calls |-> IF p \in dropped THEN "error" ELSE asking[p]]
                 /\ UNCHANGED <<pending, wire>>
            [] OTHER ->
                 /\ told' = [told EXCEPT ![q] = "error"]
                 /\ UNCHANGED <<queue, queueTimers, pending, wire>>
    /\ UNCHANGED <<socketVars, attemptVars, flags, batch>>

Response(q) ==
    /\ q \in pending /\ wire[q] \in heard /\ sock[wire[q]] \in {"open", "closing"}
    /\ Settle(q, "ok")
    /\ UNCHANGED <<socketVars, attemptVars, flags, queue>>

RequestTimeout(q) ==
    /\ q \in pending
    /\ Settle(q, "error")
    /\ UNCHANGED <<socketVars, attemptVars, flags, queue>>

\* The queue's timer knows the queue only: what the flush has taken stays there.
QueueTimeout(q) ==
    /\ q \in queueTimers
    /\ queueTimers' = queueTimers \ {q}
    /\ IF q \in Range(queue)
       THEN \E i \in DOMAIN queue : queue[i] = q /\ queue' = RemoveAt(queue, i)
       ELSE UNCHANGED queue
    /\ told' = Tell({q}, "error")
    /\ UNCHANGED <<socketVars, attemptVars, flags, batch, pending, wire>>

\* disconnect(), at the process's end (cli.ts:525)
Disconnect ==
    /\ started /\ ~intentional
    /\ intentional' = TRUE /\ timer' = FALSE
    /\ pending' = {} /\ batch' = <<>> /\ queue' = <<>> /\ queueTimers' = {}
    /\ told' = Tell(FailSent \union Range(queue), "error")
    /\ sock' = IF ws # NoSocket /\ sock[ws] = "open" THEN [sock EXCEPT ![ws] = "closing"] ELSE sock
    /\ ws' = NoSocket
    /\ connected' = FALSE /\ connecting' = FALSE
    /\ UNCHANGED <<heard, attemptVars, started, attempts, wire>>

-----------------------------------------------------------------------------
Next ==
    \/ CallerConnects \/ ReconnectFires \/ Disconnect
    \/ \E n \in Sockets :
          \/ Opens(n) \/ OpensWithoutToken(n) \/ ConnectFails(n) \/ OrphanFails(n)
          \/ Accepted(n) \/ Rejected(n) \/ AuthTimeout(n) \/ ServerCloses(n) \/ CloseEvent(n)
    \/ \E q \in Calls : Send(q) \/ Response(q) \/ RequestTimeout(q) \/ QueueTimeout(q)

Spec == Init /\ [][Next]_vars

\* The timers of a process that is not suspended fire; nothing is assumed of the
\* server.
FairSpec == Spec /\ WF_vars(\E n \in Sockets : AuthTimeout(n))
                 /\ WF_vars(\E n \in Sockets : n \in openTimers /\ (ConnectFails(n) \/ OrphanFails(n)))
                 /\ \A q \in Calls : WF_vars(RequestTimeout(q)) /\ WF_vars(QueueTimeout(q))

-----------------------------------------------------------------------------
\* Every variable keeps its type.
TypeOK ==
    /\ ws \in Sockets \union {NoSocket} /\ heard \subseteq Sockets
    /\ sock \in [Sockets -> {"new", "connecting", "open", "closing", "closed"}]
    /\ connected \in BOOLEAN /\ connecting \in BOOLEAN /\ intentional \in BOOLEAN
    /\ started \in BOOLEAN /\ attempts \in 0..MaxReconnect /\ timer \in BOOLEAN
    /\ waiter \in [Sockets -> {"none", "caller", "timer"}]
    /\ openTimers \subseteq Sockets /\ auth \in Sockets \union {NoSocket}
    /\ authTimers \subseteq Sockets /\ asked \subseteq Sockets
    /\ queue \in Seq(Calls) /\ Len(queue) <= MaxQueue /\ batch \in Seq(Calls)
    /\ pending \subseteq Calls /\ wire \in [Calls -> Sockets \union {NoSocket}]
    /\ queueTimers \subseteq Calls /\ told \in [Calls -> {"new", "waiting", "ok", "error"}]

\* While attempts are left the client never stops trying: it is connected or
\* connecting, a reconnection is scheduled, or a socket it listens to has yet to
\* end (websocket.ts:298-311, issue 524).
NeverStranded ==
    started /\ ~intentional /\ attempts < MaxReconnect /\ ~connected
        => connecting \/ timer \/ (ws \in heard /\ sock[ws] \in {"open", "closing"})

\* There is one attempt at a time, and one socket whose events count: no timer
\* runs beside an attempt or a connection, and what came before is not heard.
OneAttempt ==
    ~intentional =>
        /\ timer => ~connecting /\ ~connected
        /\ heard \subseteq {ws}
        /\ connected => ws # NoSocket /\ waiter[ws] = "none"

\* A call that waits for an outcome has a timer left that will give it one.
NoneForgotten ==
    \A q \in Calls : told[q] = "waiting" => q \in pending \union queueTimers

\* A call is written to one socket at most, whatever connections come and go: a
\* write that the application has perhaps executed is never repeated.  What is
\* written after its caller was told of a failure is what flushRequestQueue held.
SentOnce ==
    [][\A q \in Calls :
          /\ wire[q] # NoSocket => wire'[q] = wire[q] /\ (q \in pending' => q \in pending)
          /\ q \in pending' \ pending /\ told[q] = "error" => q \in Range(batch)]_vars

\* An attempt to connect comes to an end, whatever the server does: the start of
\* the sidecar waits for the first one (cli.ts:510), each later one for that before.
ConnectEnds == connecting ~> ~connecting
=============================================================================
