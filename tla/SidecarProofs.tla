---------------------------- MODULE SidecarProofs ----------------------------
(* Proofs about SidecarClient, for any calls, bounds and number of sockets. *)
EXTENDS SidecarClient, SequenceTheorems, TLAPS

USE SocketsAreBounded, ReconnectIsNumber, QueueHasRoom, QueueingIsFlag
USE DEF Sockets, NoSocket

-----------------------------------------------------------------------------
(* Types: the connection's variables and the calls' apart. *)

ConnTypes ==
    /\ ws \in Sockets \union {NoSocket} /\ heard \subseteq Sockets
    /\ sock \in [Sockets -> {"new", "connecting", "open", "closing", "closed"}]
    /\ connected \in BOOLEAN /\ connecting \in BOOLEAN /\ intentional \in BOOLEAN
    /\ started \in BOOLEAN /\ attempts \in 0..MaxReconnect /\ timer \in BOOLEAN
    /\ waiter \in [Sockets -> {"none", "caller", "timer"}]
    /\ openTimers \subseteq Sockets /\ auth \in Sockets \union {NoSocket}
    /\ authTimers \subseteq Sockets /\ asked \subseteq Sockets

CallTypes ==
    /\ queue \in Seq(Calls) /\ Len(queue) <= MaxQueue /\ batch \in Seq(Calls)
    /\ pending \subseteq Calls /\ wire \in [Calls -> Sockets \union {NoSocket}]
    /\ queueTimers \subseteq Calls /\ told \in [Calls -> {"new", "waiting", "ok", "error"}]

LEMMA TypesApart == TypeOK <=> ConnTypes /\ CallTypes
  BY DEF TypeOK, ConnTypes, CallTypes

\* What scheduleReconnect does to the counter and the timer.
LEMMA Scheduled ==
    ASSUME ConnTypes, MayReconnect, Schedule
    PROVE  timer' = TRUE /\ attempts' \in 0..MaxReconnect /\ attempts' >= attempts
  BY DEF ConnTypes, MayReconnect, Schedule

LEMMA Caught ==
    ASSUME ConnTypes, NEW n, CatchRejected(n)
    PROVE  /\ timer' \in BOOLEAN /\ attempts' \in 0..MaxReconnect /\ attempts' >= attempts
           /\ timer' # timer => ~intentional /\ timer'
  <1>1. CASE waiter[n] = "timer" /\ MayReconnect
    BY <1>1, Scheduled DEF CatchRejected, MayReconnect
  <1>2. CASE ~(waiter[n] = "timer" /\ MayReconnect)
    BY <1>2 DEF CatchRejected, ConnTypes
  <1>. QED  BY <1>1, <1>2

\* What handleDisconnect does to the connection.
LEMMA LostConn ==
    ASSUME ConnTypes, NEW gone, NEW still \in BOOLEAN, Lost(gone, still)
    PROVE  /\ connected' = FALSE /\ connecting' = still /\ auth' = NoSocket /\ ws' = NoSocket
           /\ heard' = heard \ {ws}
           /\ waiter' \in [Sockets -> {"none", "caller", "timer"}]
           /\ authTimers' \subseteq Sockets
           /\ timer' \in BOOLEAN /\ attempts' \in 0..MaxReconnect /\ attempts' >= attempts
           /\ timer' # timer => ~intentional
           /\ ~intentional /\ attempts < MaxReconnect => timer'
  <1>1. CASE MayReconnect
    BY <1>1, Scheduled DEF Lost, ConnTypes, MayReconnect
  <1>2. CASE ~MayReconnect
    BY <1>2 DEF Lost, ConnTypes, MayReconnect
  <1>. QED  BY <1>1, <1>2

LEMMA ConnStep ==
    ASSUME ConnTypes, Next PROVE ConnTypes'
  <1>. USE DEF ConnTypes
  <1>1. ASSUME NEW by \in {"caller", "timer"}, Attempt(by),
               started' \in BOOLEAN, attempts' = attempts, timer' \in BOOLEAN
        PROVE  ConnTypes'
    BY <1>1 DEF Attempt
  <1>2. ASSUME NoPort, started' \in BOOLEAN PROVE ConnTypes'
    BY <1>2 DEF NoPort, socketVars
  <1>3. CASE CallerConnects
    BY <1>1, <1>2, <1>3 DEF CallerConnects
  <1>4. CASE ReconnectFires
    BY <1>1, <1>2, <1>4 DEF ReconnectFires
  <1>5. CASE Disconnect
    BY <1>5 DEF Disconnect, attemptVars
  <1>6. ASSUME NEW gone, NEW still \in BOOLEAN, Lost(gone, still),
               sock' \in [Sockets -> {"new", "connecting", "open", "closing", "closed"}],
               openTimers' \subseteq Sockets, asked' = asked
        PROVE  ConnTypes'
    <2>1. intentional' \in BOOLEAN /\ started' \in BOOLEAN
      BY <1>6 DEF Lost
    <2>2. /\ connected' \in BOOLEAN /\ connecting' \in BOOLEAN /\ auth' = NoSocket
          /\ ws' = NoSocket /\ heard' \subseteq heard /\ authTimers' \subseteq Sockets
          /\ waiter' \in [Sockets -> {"none", "caller", "timer"}]
          /\ timer' \in BOOLEAN /\ attempts' \in 0..MaxReconnect
      BY <1>6, LostConn
    <2>. QED  BY <1>6, <2>1, <2>2
  <1>7. ASSUME NEW n \in Sockets, ConnectFails(n) PROVE ConnTypes'
    BY <1>6, <1>7 DEF ConnectFails
  <1>8. ASSUME NEW n \in Sockets, CloseEvent(n) PROVE ConnTypes'
    <2>1. CASE n \in heard
      BY <1>6, <1>8, <2>1 DEF CloseEvent
    <2>2. CASE n \notin heard
      BY <1>8, <2>2 DEF CloseEvent, flags
    <2>. QED  BY <2>1, <2>2
  <1>9. ASSUME NEW n \in Sockets, OrphanFails(n) PROVE ConnTypes'
    <2>1. CatchRejected(n)
      BY <1>9 DEF OrphanFails
    <2>. QED  BY <1>9, <2>1, Caught DEF OrphanFails
  <1>10. ASSUME NEW n \in Sockets, Opens(n) \/ OpensWithoutToken(n) PROVE ConnTypes'
    <2>1. CASE Opens(n)
      BY <2>1 DEF Opens, flags
    <2>2. CASE OpensWithoutToken(n)
      <3>1. /\ connected' = TRUE /\ connecting' = FALSE
            /\ attempts' \in 0..MaxReconnect
            /\ waiter' = [waiter EXCEPT ![n] = "none"] /\ sock' = [sock EXCEPT ![n] = "open"]
            /\ openTimers' = openTimers \ {n}
        BY <2>2 DEF OpensWithoutToken, Connected
      <3>2. /\ ws' = ws /\ heard' = heard /\ auth' = auth /\ authTimers' = authTimers
            /\ asked' = asked /\ intentional' = intentional /\ started' = started
            /\ timer' = timer
        BY <2>2 DEF OpensWithoutToken
      <3>. QED  BY <3>1, <3>2
    <2>. QED  BY <1>10, <2>1, <2>2
  <1>11. ASSUME NEW n \in Sockets, Accepted(n) PROVE ConnTypes'
    <2>1. CASE auth = NoSocket
      BY <1>11, <2>1 DEF Accepted, socketVars
    <2>2. CASE auth # NoSocket
      <3>1. /\ connected' = TRUE /\ connecting' = FALSE
            /\ attempts' \in 0..MaxReconnect
            /\ waiter' = [waiter EXCEPT ![auth] = "none"]
            /\ auth' = NoSocket /\ authTimers' = authTimers \ {auth}
        BY <1>11, <2>2 DEF Accepted, Connected
      <3>2. /\ ws' = ws /\ sock' = sock /\ heard' = heard /\ openTimers' = openTimers
            /\ intentional' = intentional /\ started' = started /\ timer' = timer
        BY <1>11 DEF Accepted, socketVars
      <3>3. asked' = asked \ {n}
        BY <1>11 DEF Accepted
      <3>. QED  BY <3>1, <3>2, <3>3
    <2>. QED  BY <2>1, <2>2
  <1>12. ASSUME AuthFails, auth # NoSocket
         PROVE  /\ auth' = NoSocket /\ authTimers' \subseteq Sockets /\ connecting' = FALSE
                /\ waiter' \in [Sockets -> {"none", "caller", "timer"}]
                /\ timer' \in BOOLEAN /\ attempts' \in 0..MaxReconnect
    BY <1>12, Caught DEF AuthFails
  <1>13. ASSUME NEW n \in Sockets, Rejected(n) \/ AuthTimeout(n) PROVE ConnTypes'
    <2>1. CASE Rejected(n)
      BY <1>12, <2>1 DEF Rejected, socketVars
    <2>2. CASE AuthTimeout(n)
      BY <1>12, <2>2 DEF AuthTimeout
    <2>. QED  BY <1>13, <2>1, <2>2
  <1>14. ASSUME NEW n \in Sockets, ServerCloses(n) PROVE ConnTypes'
    BY <1>14 DEF ServerCloses, attemptVars, flags
  <1>15. ASSUME NEW q \in Calls, Send(q) \/ Response(q) \/ RequestTimeout(q) \/ QueueTimeout(q)
         PROVE  ConnTypes'
    BY <1>15 DEF Send, Response, RequestTimeout, QueueTimeout, socketVars, attemptVars, flags
  <1>. QED
    BY <1>3, <1>4, <1>5, <1>7, <1>8, <1>9, <1>10, <1>11, <1>13, <1>14, <1>15 DEF Next

-----------------------------------------------------------------------------
(* The connection. *)

\* Before the start there is nothing, and after disconnect() nothing restarts.
\* In between one socket is listened to, the current one, and the attempt that
\* is under way waits for it to open or to be authenticated.
AttemptInv ==
    /\ ~started => ~timer /\ ~connected /\ ~connecting /\ ~intentional /\ ws = NoSocket
    /\ intentional => ~timer /\ ws = NoSocket
    /\ ~intentional =>
        /\ heard \subseteq {ws}
        /\ timer => ~connecting /\ ~connected
        /\ connected => ws # NoSocket /\ waiter[ws] = "none" /\ ~connecting
        /\ \A n \in openTimers : n = ws /\ sock[n] = "connecting" /\ connecting /\ n \in heard
        /\ \A n \in heard : sock[n] = "connecting" => n \in openTimers
        /\ auth # NoSocket => /\ auth = ws /\ connecting /\ ws \in heard
                              /\ sock[ws] \in {"open", "closing"}
        /\ connecting => ws # NoSocket /\ (ws \in openTimers \/ auth = ws)

ConnInv == AttemptInv /\ NeverStranded

LEMMA ConnInvStep ==
    ASSUME ConnTypes, ConnInv, Next PROVE ConnInv'
  <1>. USE DEF ConnTypes, ConnInv, AttemptInv, NeverStranded
  <1>1. ASSUME NEW by \in {"caller", "timer"}, Attempt(by), ~intentional,
               started', attempts' = attempts, ~timer'
        PROVE  ConnInv'
    BY <1>1 DEF Attempt
  <1>2. ASSUME NoPort, ~intentional, started' PROVE ConnInv'
    BY <1>2 DEF NoPort, socketVars
  <1>3. CASE CallerConnects
    BY <1>1, <1>2, <1>3 DEF CallerConnects
  <1>4. CASE ReconnectFires
    BY <1>1, <1>2, <1>4 DEF ReconnectFires
  <1>5. CASE Disconnect
    BY <1>5 DEF Disconnect, attemptVars
  <1>6. ASSUME NEW n \in Sockets, ConnectFails(n) PROVE ConnInv'
    <2>1. Lost({n}, FALSE)
      BY <1>6 DEF ConnectFails
    <2>2. intentional' = intentional /\ started' = started
      BY <2>1 DEF Lost
    <2>3. /\ n \in heard /\ ws = n /\ openTimers' = openTimers \ {n}
          /\ sock' = [sock EXCEPT ![n] = "closed"]
      BY <1>6 DEF ConnectFails
    <2>4. /\ connected' = FALSE /\ connecting' = FALSE /\ auth' = NoSocket /\ ws' = NoSocket
          /\ heard' = heard \ {ws} /\ timer' \in BOOLEAN /\ attempts' >= attempts
          /\ attempts' \in 0..MaxReconnect
          /\ timer' # timer => ~intentional
          /\ ~intentional /\ attempts < MaxReconnect => timer'
      BY <2>1, LostConn
    <2>. QED  BY <2>2, <2>3, <2>4
  <1>7. ASSUME NEW n \in Sockets, CloseEvent(n) PROVE ConnInv'
    <2>1. CASE n \in heard
      <3>1. /\ Lost({auth} \ {NoSocket}, connecting /\ auth = NoSocket)
            /\ sock[n] = "closing" /\ sock' = [sock EXCEPT ![n] = "closed"]
            /\ UNCHANGED openTimers
        BY <1>7, <2>1 DEF CloseEvent
      <3>2. ~intentional => n = ws /\ ~(connecting /\ auth = NoSocket)
        BY <2>1, <3>1
      <3>3. intentional' = intentional /\ started' = started
        BY <3>1 DEF Lost
      <3>4. /\ connected' = FALSE /\ connecting' = (connecting /\ auth = NoSocket)
            /\ auth' = NoSocket /\ ws' = NoSocket
            /\ heard' = heard \ {ws} /\ timer' \in BOOLEAN /\ attempts' >= attempts
            /\ attempts' \in 0..MaxReconnect
            /\ timer' # timer => ~intentional
            /\ ~intentional /\ attempts < MaxReconnect => timer'
        <4>1. (connecting /\ auth = NoSocket) \in BOOLEAN
          OBVIOUS
        <4>. QED  BY <3>1, <4>1, LostConn
      <3>. QED  BY <2>1, <3>1, <3>2, <3>3, <3>4
    <2>2. CASE n \notin heard
      <3>1. /\ ws' = ws /\ heard' = heard /\ auth' = auth /\ openTimers' = openTimers
            /\ waiter' = waiter /\ sock' = [sock EXCEPT ![n] = "closed"] /\ sock[n] = "closing"
        BY <1>7, <2>2 DEF CloseEvent
      <3>2. /\ connected' = connected /\ connecting' = connecting /\ timer' = timer
            /\ intentional' = intentional /\ started' = started /\ attempts' = attempts
        BY <1>7, <2>2 DEF CloseEvent, flags
      <3>. QED  BY <2>2, <3>1, <3>2
    <2>. QED  BY <2>1, <2>2
  <1>8. ASSUME NEW n \in Sockets, OrphanFails(n) PROVE ConnInv'
    BY <1>8 DEF OrphanFails, CatchRejected, MayReconnect
  <1>9. ASSUME NEW n \in Sockets, Opens(n) PROVE ConnInv'
    BY <1>9 DEF Opens, flags
  <1>10. ASSUME NEW n \in Sockets, OpensWithoutToken(n) PROVE ConnInv'
    BY <1>10 DEF OpensWithoutToken, Connected
  <1>11. ASSUME NEW n \in Sockets, Accepted(n) PROVE ConnInv'
    BY <1>11 DEF Accepted, Connected, socketVars
  <1>12. ASSUME NEW n \in Sockets, Rejected(n) PROVE ConnInv'
    BY <1>12 DEF Rejected, AuthFails, CatchRejected, MayReconnect, Schedule, socketVars
  <1>13. ASSUME NEW n \in Sockets, AuthTimeout(n) PROVE ConnInv'
    BY <1>13 DEF AuthTimeout, AuthFails, CatchRejected, MayReconnect, Schedule
  <1>14. ASSUME NEW n \in Sockets, ServerCloses(n) PROVE ConnInv'
    BY <1>14 DEF ServerCloses, attemptVars, flags
  <1>15. ASSUME NEW q \in Calls, Send(q) \/ Response(q) \/ RequestTimeout(q) \/ QueueTimeout(q)
         PROVE  ConnInv'
    BY <1>15 DEF Send, Response, RequestTimeout, QueueTimeout, socketVars, attemptVars, flags
  <1>. QED
    BY <1>3, <1>4, <1>5, <1>6, <1>7, <1>8, <1>9, <1>10, <1>11, <1>12, <1>13, <1>14, <1>15
    DEF Next

-----------------------------------------------------------------------------
(* Sequences without repetition. *)

NoRepeats(s) == \A i, j \in 1..Len(s) : s[i] = s[j] => i = j

LEMMA EmptyFacts ==
    ASSUME NEW S
    PROVE  <<>> \in Seq(S) /\ Range(<<>>) = {} /\ Len(<<>>) = 0 /\ NoRepeats(<<>>)
  BY DEF NoRepeats, Range

LEMMA TailFacts ==
    ASSUME NEW S, NEW s \in Seq(S), s # <<>>
    PROVE  /\ Head(s) \in S /\ Tail(s) \in Seq(S) /\ Len(Tail(s)) = Len(s) - 1
           /\ Range(s) = {Head(s)} \union Range(Tail(s))
           /\ NoRepeats(s) => NoRepeats(Tail(s)) /\ Head(s) \notin Range(Tail(s))
  <1>1. /\ Head(s) \in S /\ Tail(s) \in Seq(S) /\ Len(Tail(s)) = Len(s) - 1
        /\ \A i \in 1..Len(Tail(s)) : Tail(s)[i] = s[i + 1]
        /\ Head(s) = s[1] /\ Len(s) \in Nat \ {0}
    BY HeadTailProperties
  <1>2. /\ DOMAIN s = 1..Len(s) /\ DOMAIN Tail(s) = 1..Len(Tail(s))
    BY <1>1
  <1>3. ASSUME NEW x \in Range(s) PROVE x = Head(s) \/ x \in Range(Tail(s))
    <2>1. PICK i \in 1..Len(s) : s[i] = x
      BY <1>2 DEF Range
    <2>2. CASE i = 1
      BY <1>1, <2>1, <2>2
    <2>3. CASE i # 1
      <3>1. i - 1 \in 1..Len(Tail(s)) /\ Tail(s)[i - 1] = x
        BY <1>1, <2>1, <2>3
      <3>. QED  BY <1>2, <3>1 DEF Range
    <2>. QED  BY <2>2, <2>3
  <1>4. ASSUME NEW x, x = Head(s) \/ x \in Range(Tail(s)) PROVE x \in Range(s)
    BY <1>1, <1>2, <1>4 DEF Range
  <1>5. ASSUME NoRepeats(s) PROVE NoRepeats(Tail(s)) /\ Head(s) \notin Range(Tail(s))
    BY <1>1, <1>2, <1>5 DEF Range, NoRepeats
  <1>. QED  BY <1>1, <1>3, <1>4, <1>5

LEMMA AppendFacts ==
    ASSUME NEW S, NEW s \in Seq(S), NEW e \in S
    PROVE  /\ Append(s, e) \in Seq(S) /\ Len(Append(s, e)) = Len(s) + 1
           /\ Range(Append(s, e)) = Range(s) \union {e}
           /\ NoRepeats(s) /\ e \notin Range(s) => NoRepeats(Append(s, e))
  <1>1. /\ Append(s, e) \in Seq(S) /\ Len(Append(s, e)) = Len(s) + 1 /\ Len(s) \in Nat
        /\ \A i \in 1..Len(s) : Append(s, e)[i] = s[i]
        /\ Append(s, e)[Len(s) + 1] = e
    BY AppendProperties
  <1>2. DOMAIN s = 1..Len(s) /\ DOMAIN Append(s, e) = 1..(Len(s) + 1)
    BY <1>1
  <1>3. Range(Append(s, e)) = Range(s) \union {e}
    <2>1. ASSUME NEW x \in Range(Append(s, e)) PROVE x \in Range(s) \union {e}
      BY <1>1, <1>2 DEF Range
    <2>2. ASSUME NEW x \in Range(s) \union {e} PROVE x \in Range(Append(s, e))
      BY <1>1, <1>2 DEF Range
    <2>. QED  BY <2>1, <2>2
  <1>4. NoRepeats(s) /\ e \notin Range(s) => NoRepeats(Append(s, e))
    BY <1>1, <1>2 DEF NoRepeats, Range
  <1>. QED  BY <1>1, <1>3, <1>4

LEMMA RemoveFacts ==
    ASSUME NEW S, NEW s \in Seq(S), NoRepeats(s), NEW i \in DOMAIN s
    PROVE  /\ RemoveAt(s, i) \in Seq(S) /\ Len(RemoveAt(s, i)) = Len(s) - 1
           /\ Range(RemoveAt(s, i)) = Range(s) \ {s[i]}
           /\ NoRepeats(RemoveAt(s, i))
  <1>. DEFINE r == RemoveAt(s, i)
  <1>1. i \in 1..Len(s) /\ Len(s) \in Nat /\ DOMAIN s = 1..Len(s)
    OBVIOUS
  <1>2. /\ SubSeq(s, 1, i - 1) \in Seq(S) /\ Len(SubSeq(s, 1, i - 1)) = i - 1
        /\ \A k \in 1..(i - 1) : SubSeq(s, 1, i - 1)[k] = s[k]
    <2>1. \A k \in 1..(i - 1) : s[k] \in S
      BY <1>1
    <2>. QED  BY <1>1, <2>1, SubSeqProperties
  <1>3. /\ SubSeq(s, i + 1, Len(s)) \in Seq(S) /\ Len(SubSeq(s, i + 1, Len(s))) = Len(s) - i
        /\ \A k \in 1..(Len(s) - i) : SubSeq(s, i + 1, Len(s))[k] = s[i + k]
    <2>1. \A k \in (i + 1)..Len(s) : s[k] \in S
      BY <1>1
    <2>. QED  BY <1>1, <2>1, SubSeqProperties
  <1>4. /\ r \in Seq(S) /\ Len(r) = Len(s) - 1
        /\ \A k \in 1..(Len(s) - 1) : r[k] = IF k < i THEN s[k] ELSE s[k + 1]
    <2>1. PICK a \in Seq(S), b \in Seq(S) :
            /\ r = a \o b /\ Len(a) = i - 1 /\ Len(b) = Len(s) - i
            /\ \A k \in 1..(i - 1) : a[k] = s[k]
            /\ \A k \in 1..(Len(s) - i) : b[k] = s[i + k]
      BY <1>2, <1>3 DEF RemoveAt
    <2>. HIDE DEF r
    <2>2. /\ r \in Seq(S) /\ Len(r) = Len(a) + Len(b)
          /\ \A k \in 1..(Len(a) + Len(b)) : r[k] = IF k <= Len(a) THEN a[k] ELSE b[k - Len(a)]
      BY <2>1, ConcatProperties
    <2>3. Len(r) = Len(s) - 1
      BY <1>1, <2>1, <2>2
    <2>4. ASSUME NEW k \in 1..(Len(s) - 1) PROVE r[k] = IF k < i THEN s[k] ELSE s[k + 1]
      <3>1. CASE k < i
        BY <1>1, <2>1, <2>2, <3>1
      <3>2. CASE k >= i
        <4>1. k - Len(a) \in 1..(Len(s) - i) /\ i + (k - Len(a)) = k + 1 /\ ~(k <= Len(a))
          BY <1>1, <2>1, <3>2
        <4>2. r[k] = b[k - Len(a)]
          <5>1. k \in 1..(Len(a) + Len(b))
            BY <1>1, <2>1
          <5>. QED  BY <2>2, <4>1, <5>1
        <4>3. b[k - Len(a)] = s[i + (k - Len(a))]
          BY <2>1, <4>1
        <4>. QED  BY <3>2, <4>1, <4>2, <4>3
      <3>. QED  BY <1>1, <3>1, <3>2
    <2>. QED  BY <2>2, <2>3, <2>4
  <1>5. DOMAIN r = 1..(Len(s) - 1)
    BY <1>1, <1>4
  <1>. HIDE DEF r
  <1>6. ASSUME NEW x \in Range(r) PROVE x \in Range(s) \ {s[i]}
    <2>1. PICK k \in 1..(Len(s) - 1) : r[k] = x
      BY <1>5 DEF Range
    <2>2. PICK m \in 1..Len(s) : m # i /\ s[m] = x
      BY <1>1, <1>4, <2>1
    <2>. QED  BY <1>1, <2>2 DEF Range, NoRepeats
  <1>7. ASSUME NEW x \in Range(s), x # s[i] PROVE x \in Range(r)
    <2>1. PICK m \in 1..Len(s) : s[m] = x
      BY <1>1 DEF Range
    <2>2. PICK k \in 1..(Len(s) - 1) : r[k] = x
      <3>1. CASE m < i
        BY <1>1, <1>4, <2>1, <3>1
      <3>2. CASE m > i
        <4>1. m - 1 \in 1..(Len(s) - 1) /\ r[m - 1] = x
          BY <1>1, <1>4, <2>1, <3>2
        <4>. QED  BY <4>1
      <3>. QED  BY <1>1, <1>7, <2>1, <3>1, <3>2
    <2>. QED  BY <1>5, <2>2 DEF Range
  <1>8. NoRepeats(r)
    BY <1>1, <1>4 DEF NoRepeats
  <1>. QED  BY <1>4, <1>6, <1>7, <1>8 DEF r
-----------------------------------------------------------------------------
(* The calls. *)

\* A call that was not made is nowhere.
NewInv ==
    \A q \in Calls : told[q] = "new" =>
        /\ q \notin pending /\ q \notin queueTimers
        /\ q \notin Range(queue) /\ q \notin Range(batch) /\ wire[q] = NoSocket

\* A queued call waits with its timer and was never written.
QueueInv ==
    /\ NoRepeats(queue)
    /\ \A q \in Range(queue) :
          /\ told[q] = "waiting" /\ q \in queueTimers
          /\ q \notin pending /\ q \notin Range(batch) /\ wire[q] = NoSocket

\* Of a flush the first call is sent, the others were never written.
BatchInv ==
    /\ NoRepeats(batch)
    /\ batch # <<>> =>
          /\ Head(batch) \in pending
          /\ \A q \in Range(Tail(batch)) : q \notin pending /\ wire[q] = NoSocket

\* The queue's timers are of calls that are queued, in a flush or sent.
TimerInv ==
    \A q \in queueTimers : told[q] = "waiting" =>
        q \in Range(queue) \/ q \in Range(batch) \/ q \in pending

CallInv == NewInv /\ QueueInv /\ BatchInv /\ TimerInv /\ NoneForgotten

\* What SentOnce says of a step.
Sent ==
    \A q \in Calls :
        /\ wire[q] # NoSocket => wire'[q] = wire[q] /\ (q \in pending' => q \in pending)
        /\ q \in pending' \ pending /\ told[q] = "error" => q \in Range(batch)

\* Calls are flushed over a connection, and after disconnect() none are queued.
BusyInv ==
    /\ batch # <<>> => connected /\ ~intentional
    /\ intentional => queue = <<>>

LEMMA Told ==
    ASSUME CallTypes, NEW qs, NEW o \in {"ok", "error"}
    PROVE  /\ Tell(qs, o) \in [Calls -> {"new", "waiting", "ok", "error"}]
           /\ \A q \in Calls : Tell(qs, o)[q] = "new" <=> told[q] = "new"
           /\ \A q \in Calls : Tell(qs, o)[q] = "waiting" <=> told[q] = "waiting" /\ q \notin qs
  BY DEF CallTypes, Tell

LEMMA RangesTyped ==
    ASSUME CallTypes PROVE Range(queue) \subseteq Calls /\ Range(batch) \subseteq Calls
  BY RangeOfSeq DEF CallTypes

\* The effects that the actions have on the calls, one by one.
LEMMA KeepCalls ==
    ASSUME CallTypes, CallInv, UNCHANGED calls
    PROVE  CallTypes' /\ CallInv' /\ Sent
  BY DEF CallTypes, CallInv, NewInv, QueueInv, BatchInv, TimerInv, NoneForgotten, Sent, calls

LEMMA QueueGivenUp ==
    ASSUME CallTypes, CallInv, queue' = <<>>, queueTimers' = queueTimers \ Range(queue),
           told' = Tell(Range(queue), "error"), UNCHANGED <<batch, pending, wire>>
    PROVE  CallTypes' /\ CallInv' /\ Sent
  <1>1. /\ told' \in [Calls -> {"new", "waiting", "ok", "error"}]
        /\ \A q \in Calls : told'[q] = "new" <=> told[q] = "new"
        /\ \A q \in Calls : told'[q] = "waiting" <=> told[q] = "waiting" /\ q \notin Range(queue)
    BY Told
  <1>2. Range(queue') = {} /\ NoRepeats(queue') /\ Len(queue') = 0 /\ queue' \in Seq(Calls)
    BY EmptyFacts
  <1>3. CallTypes'
    BY <1>1, <1>2, QueueHasRoom DEF CallTypes
  <1>4. NewInv' /\ QueueInv' /\ BatchInv' /\ TimerInv' /\ NoneForgotten'
    BY <1>1, <1>2, RangesTyped
    DEF CallTypes, CallInv, NewInv, QueueInv, BatchInv, TimerInv, NoneForgotten
  <1>. QED  BY <1>3, <1>4 DEF CallInv, Sent

LEMMA Flush ==
    ASSUME CallTypes, CallInv, batch = <<>>, NEW n \in Sockets, NEW open, Connected(n, open)
    PROVE  CallTypes' /\ CallInv' /\ Sent
  <1>. USE DEF CallTypes, CallInv, NewInv, QueueInv, BatchInv, TimerInv, NoneForgotten, Sent
  <1>1. /\ queue' = <<>> /\ batch' = queue /\ queueTimers' = queueTimers /\ told' = told
        /\ SendHead(queue, pending, n, open)
    BY DEF Connected, SendHead
  <1>2. Range(queue') = {} /\ NoRepeats(queue') /\ Len(queue') = 0 /\ queue' \in Seq(Calls)
    BY <1>1, EmptyFacts
  <1>3. CASE queue = <<>>
    <2>1. pending' = pending /\ wire' = wire /\ Range(queue) = {} /\ Range(batch) = {}
      BY <1>1, <1>3, EmptyFacts DEF SendHead
    <2>. QED  BY <1>1, <1>2, <1>3, <2>1, QueueHasRoom
  <1>4. CASE queue # <<>>
    <2>1. PICK h \in Calls : h = Head(queue)
      BY <1>4, TailFacts
    <2>2. pending' = pending \union {h}
      BY <1>1, <1>4, <2>1 DEF SendHead
    <2>3. /\ wire' \in [Calls -> Sockets \union {NoSocket}]
          /\ \A q \in Calls : q # h => wire'[q] = wire[q]
      BY <1>1, <1>4, <2>1 DEF SendHead
    <2>4. /\ Range(queue) = {h} \union Range(Tail(queue)) /\ h \notin Range(Tail(queue))
          /\ Range(batch) = {} /\ Range(queue) \subseteq Calls
      BY <1>4, <2>1, TailFacts, EmptyFacts, RangesTyped
    <2>5. /\ h \in Calls /\ told[h] = "waiting" /\ h \notin pending /\ wire[h] = NoSocket
      BY <2>1, <2>4
    <2>6. CallTypes'
      BY <1>1, <1>2, <2>2, <2>3, QueueHasRoom
    <2>7. NewInv' /\ QueueInv'
      BY <1>1, <1>2, <2>2, <2>3, <2>4, <2>5
    <2>8. BatchInv'
      BY <1>1, <1>4, <2>1, <2>2, <2>3, <2>4
    <2>9. TimerInv' /\ NoneForgotten'
      BY <1>1, <1>2, <2>2, <2>4
    <2>10. Sent
      BY <2>2, <2>3, <2>5
    <2>. QED  BY <2>6, <2>7, <2>8, <2>9, <2>10
  <1>. QED  BY <1>3, <1>4

LEMMA CallsLost ==
    ASSUME CallTypes, CallInv, NEW gone, NEW still, Lost(gone, still)
    PROVE  CallTypes' /\ CallInv' /\ Sent
  <1>. USE DEF CallTypes, CallInv, NewInv, QueueInv, BatchInv, TimerInv, NoneForgotten, Sent
  <1>1. PICK failed :
          /\ told' = Tell(failed, "error") /\ queueTimers' = queueTimers \ failed
          /\ pending \subseteq failed /\ Range(batch) \subseteq failed
          /\ \/ queue' = queue /\ failed = pending \union Range(batch)
             \/ queue' = <<>> /\ Range(queue) \subseteq failed
    BY DEF Lost, FailSent
  <1>2. pending' = {} /\ batch' = <<>> /\ wire' = wire
    BY DEF Lost
  <1>3. /\ told' \in [Calls -> {"new", "waiting", "ok", "error"}]
        /\ \A q \in Calls : told'[q] = "new" <=> told[q] = "new"
        /\ \A q \in Calls : told'[q] = "waiting" <=> told[q] = "waiting" /\ q \notin failed
    BY <1>1, Told
  <1>4. Range(batch') = {} /\ NoRepeats(batch') /\ batch' \in Seq(Calls)
    BY <1>2, EmptyFacts
  <1>5. CASE queue' = queue /\ failed = pending \union Range(batch)
    <2>1. CallTypes'
      BY <1>1, <1>2, <1>3, <1>4, <1>5
    <2>2. NewInv' /\ QueueInv' /\ BatchInv' /\ TimerInv' /\ NoneForgotten'
      BY <1>1, <1>2, <1>3, <1>4, <1>5, RangesTyped
    <2>. QED  BY <1>2, <2>1, <2>2
  <1>6. CASE queue' = <<>> /\ Range(queue) \subseteq failed
    <2>0. Range(queue') = {} /\ NoRepeats(queue') /\ Len(queue') = 0 /\ queue' \in Seq(Calls)
      BY <1>6, EmptyFacts
    <2>1. CallTypes'
      BY <1>1, <1>2, <1>3, <1>4, <2>0, QueueHasRoom
    <2>2. NewInv' /\ QueueInv' /\ BatchInv' /\ TimerInv' /\ NoneForgotten'
      BY <1>1, <1>2, <1>3, <1>4, <1>6, <2>0, RangesTyped
    <2>. QED  BY <1>2, <2>1, <2>2
  <1>. QED  BY <1>1, <1>5, <1>6

LEMMA CallsEnd ==
    ASSUME CallTypes, CallInv, Disconnect
    PROVE  CallTypes' /\ CallInv' /\ Sent
  <1>1. /\ pending' = {} /\ batch' = <<>> /\ queue' = <<>> /\ queueTimers' = {} /\ wire' = wire
        /\ told' = Tell(FailSent \union Range(queue), "error")
    BY DEF Disconnect
  <1>2. PICK failed : /\ told' = Tell(failed, "error")
                      /\ pending \subseteq failed /\ Range(queue) \subseteq failed
                      /\ Range(batch) \subseteq failed
    BY <1>1 DEF FailSent
  <1>3. /\ told' \in [Calls -> {"new", "waiting", "ok", "error"}]
        /\ \A q \in Calls : told'[q] = "new" <=> told[q] = "new"
        /\ \A q \in Calls : told'[q] = "waiting" <=> told[q] = "waiting" /\ q \notin failed
    BY <1>2, Told
  <1>4. /\ Range(queue') = {} /\ Range(batch') = {} /\ NoRepeats(queue') /\ NoRepeats(batch')
        /\ Len(queue') = 0 /\ queue' \in Seq(Calls) /\ batch' \in Seq(Calls)
    BY <1>1, EmptyFacts
  <1>5. CallTypes'
    <2>1. queue' \in Seq(Calls) /\ Len(queue') <= MaxQueue /\ batch' \in Seq(Calls)
      BY <1>4, QueueHasRoom
    <2>2. pending' \subseteq Calls /\ wire' = wire /\ queueTimers' \subseteq Calls
      BY <1>1
    <2>. QED  BY <1>3, <2>1, <2>2 DEF CallTypes
  <1>6. NewInv' /\ QueueInv' /\ BatchInv' /\ TimerInv'
    BY <1>1, <1>3, <1>4 DEF CallInv, NewInv, QueueInv, BatchInv, TimerInv
  <1>7. NoneForgotten'
    BY <1>2, <1>3 DEF CallInv, NoneForgotten, TimerInv
  <1>8. Sent
    BY <1>1 DEF Sent
  <1>. QED  BY <1>5, <1>6, <1>7, <1>8 DEF CallInv

LEMMA CallMade ==
    ASSUME ConnTypes, CallTypes, CallInv, NEW q \in Calls, Send(q)
    PROVE  CallTypes' /\ CallInv' /\ Sent
  <1>. DEFINE asking == [told EXCEPT ![q] = "waiting"]
              full == Len(queue) >= MaxQueue
  <1>0. /\ told[q] = "new" /\ batch' = batch
        /\ q \notin pending /\ q \notin queueTimers
        /\ q \notin Range(queue) /\ q \notin Range(batch) /\ wire[q] = NoSocket
    BY DEF Send, CallInv, NewInv
  <1>1. CASE /\ pending' = pending \union {q} /\ wire' = [wire EXCEPT ![q] = ws]
             /\ ws \in Sockets
             /\ told' = asking /\ UNCHANGED <<queue, queueTimers>>
    <2>1. CallTypes'
      BY <1>0, <1>1 DEF CallTypes
    <2>2. NewInv' /\ QueueInv' /\ TimerInv' /\ NoneForgotten'
      BY <1>0, <1>1 DEF CallTypes, CallInv, NewInv, QueueInv, TimerInv, NoneForgotten
    <2>3. BatchInv'
      <3>1. CASE batch = <<>>
        BY <1>0, <3>1 DEF CallInv, BatchInv
      <3>2. CASE batch # <<>>
        <4>1. q \notin Range(Tail(batch)) /\ Range(Tail(batch)) \subseteq Range(batch)
          BY <1>0, <3>2, TailFacts DEF CallTypes
        <4>2. Range(batch) \subseteq Calls
          BY RangesTyped
        <4>. QED  BY <1>0, <1>1, <3>2, <4>1, <4>2 DEF CallTypes, CallInv, BatchInv
      <3>. QED  BY <3>1, <3>2
    <2>4. Sent
      BY <1>0, <1>1 DEF Sent, CallTypes
    <2>. QED  BY <2>1, <2>2, <2>3, <2>4 DEF CallInv
  <1>2. CASE /\ told' = asking /\ ~full /\ queue' = Append(queue, q)
             /\ queueTimers' = queueTimers \union {q} /\ UNCHANGED <<pending, wire>>
    <2>1. /\ queue' \in Seq(Calls) /\ Len(queue') = Len(queue) + 1
          /\ Range(queue') = Range(queue) \union {q} /\ NoRepeats(queue')
      BY <1>0, <1>2, AppendFacts DEF CallTypes, CallInv, QueueInv
    <2>2. CallTypes'
      BY <1>0, <1>2, <2>1 DEF CallTypes
    <2>3. NewInv' /\ QueueInv' /\ TimerInv' /\ NoneForgotten' /\ BatchInv'
      BY <1>0, <1>2, <2>1, RangesTyped
      DEF CallTypes, CallInv, NewInv, QueueInv, TimerInv, NoneForgotten, BatchInv
    <2>4. Sent
      BY <1>2 DEF Sent
    <2>. QED  BY <2>2, <2>3, <2>4 DEF CallInv
  <1>3. CASE /\ full /\ queue' = Append(Tail(queue), q)
             /\ queueTimers' = (queueTimers \ {Head(queue)}) \union {q}
             /\ told' = [p \in Calls |-> IF p \in {Head(queue)} THEN "error" ELSE asking[p]]
             /\ UNCHANGED <<pending, wire>>
    <2>1. queue # <<>>
      BY <1>3, EmptyFacts, QueueHasRoom
    <2>2. PICK h \in Calls, t \in Seq(Calls) :
            /\ h = Head(queue) /\ t = Tail(queue) /\ Len(t) = Len(queue) - 1
            /\ Range(queue) = {h} \union Range(t) /\ NoRepeats(t) /\ h \notin Range(t)
      BY <2>1, TailFacts DEF CallTypes, CallInv, QueueInv
    <2>3. /\ queue' \in Seq(Calls) /\ Len(queue') = Len(queue)
          /\ Range(queue') = Range(t) \union {q} /\ NoRepeats(queue')
      <3>1. queue' = Append(t, q)
        BY <1>3, <2>2
      <3>2. Len(queue) \in Nat
        BY DEF CallTypes
      <3>3. q \notin Range(t)
        BY <1>0, <2>2
      <3>4. /\ Append(t, q) \in Seq(Calls) /\ Len(Append(t, q)) = Len(t) + 1
            /\ Range(Append(t, q)) = Range(t) \union {q} /\ NoRepeats(Append(t, q))
        <4>1. t \in Seq(Calls) /\ q \in Calls /\ NoRepeats(t)
          BY <2>2
        <4>. QED  BY <3>3, <4>1, AppendFacts, Zenon
      <3>. QED  BY <2>2, <3>1, <3>2, <3>4
    <2>4. /\ queueTimers' = (queueTimers \ {h}) \union {q}
          /\ told' = [p \in Calls |-> IF p = h THEN "error" ELSE asking[p]]
          /\ h # q
      BY <1>0, <1>3, <2>2
    <2>5. /\ told' \in [Calls -> {"new", "waiting", "ok", "error"}]
          /\ told'[h] = "error" /\ told'[q] = "waiting"
          /\ \A p \in Calls : p # h /\ p # q => told'[p] = told[p]
      BY <2>4 DEF CallTypes
    <2>6. CallTypes'
      BY <1>0, <1>3, <2>3, <2>4, <2>5 DEF CallTypes
    <2>7. NewInv' /\ QueueInv' /\ TimerInv' /\ NoneForgotten' /\ BatchInv'
      BY <1>0, <1>3, <2>2, <2>3, <2>4, <2>5, RangesTyped
      DEF CallTypes, CallInv, NewInv, QueueInv, TimerInv, NoneForgotten, BatchInv
    <2>8. Sent
      BY <1>3 DEF Sent
    <2>. QED  BY <2>6, <2>7, <2>8 DEF CallInv
  <1>4. CASE told' = [told EXCEPT ![q] = "error"] /\ UNCHANGED <<queue, queueTimers, pending, wire>>
    <2>1. CallTypes'
      BY <1>0, <1>4 DEF CallTypes
    <2>2. NewInv' /\ QueueInv' /\ TimerInv' /\ NoneForgotten' /\ BatchInv'
      BY <1>0, <1>4, RangesTyped
      DEF CallTypes, CallInv, NewInv, QueueInv, TimerInv, NoneForgotten, BatchInv
    <2>3. Sent
      BY <1>4 DEF Sent
    <2>. QED  BY <2>1, <2>2, <2>3 DEF CallInv
  <1>. QED
    <2>1. CASE IsConnected /\ ws \in Sockets
      BY <1>1, <2>1 DEF Send
    <2>2. CASE ~IsConnected /\ Queueing /\ MayReconnect
      <3>1. CASE full
        BY <1>3, <2>2, <3>1 DEF Send
      <3>2. CASE ~full
        <4>1. told' = asking
          BY <2>2, <3>2 DEF Send, CallTypes
        <4>. QED  BY <1>2, <2>2, <3>2, <4>1 DEF Send
      <3>. QED  BY <3>1, <3>2
    <2>3. CASE ~IsConnected /\ ~(Queueing /\ MayReconnect)
      BY <1>4, <2>3 DEF Send
    <2>4. IsConnected => ws \in Sockets
      BY DEF IsConnected, ConnTypes
    <2>. QED  BY <2>1, <2>2, <2>3, <2>4

LEMMA CallSettled ==
    ASSUME ConnTypes, CallTypes, CallInv, NEW q \in pending, NEW o \in {"ok", "error"},
           Settle(q, o), queue' = queue
    PROVE  CallTypes' /\ CallInv' /\ Sent
  <1>1. /\ told' = Tell({q}, o) /\ queueTimers' = queueTimers \ {q} /\ q \in Calls
    BY DEF Settle, CallTypes
  <1>2. /\ told' \in [Calls -> {"new", "waiting", "ok", "error"}]
        /\ \A p \in Calls : told'[p] = "new" <=> told[p] = "new"
        /\ \A p \in Calls : told'[p] = "waiting" <=> told[p] = "waiting" /\ p # q
    BY <1>1, Told
  <1>3. q \notin Range(queue)
    BY RangesTyped DEF CallInv, QueueInv
  <1>4. CASE batch # <<>> /\ Head(batch) = q
    <2>1. PICK t \in Seq(Calls) :
            /\ t = Tail(batch) /\ Range(batch) = {q} \union Range(t)
            /\ NoRepeats(t) /\ q \notin Range(t)
      BY <1>4, TailFacts DEF CallTypes, CallInv, BatchInv
    <2>2. /\ batch' = t
          /\ pending' = IF t = <<>> THEN pending \ {q} ELSE (pending \ {q}) \union {Head(t)}
          /\ wire' = wire \/ (t # <<>> /\ wire' = [wire EXCEPT ![Head(t)] = ws])
      BY <1>4, <2>1 DEF Settle, SendHead
    <2>3. \A p \in Range(t) : p \notin pending /\ wire[p] = NoSocket /\ p \in Calls
      BY <1>4, <2>1, RangesTyped DEF CallInv, BatchInv
    <2>4. CASE t = <<>>
      <3>1. /\ batch' = <<>> /\ pending' = pending \ {q} /\ wire' = wire /\ Range(t) = {}
            /\ Range(batch') = {} /\ NoRepeats(batch') /\ batch' \in Seq(Calls)
        BY <2>2, <2>4, EmptyFacts
      <3>2. CallTypes'
        BY <1>1, <1>2, <3>1 DEF CallTypes
      <3>3. NewInv' /\ QueueInv'
        BY <1>1, <1>2, <1>3, <3>1, RangesTyped DEF CallInv, NewInv, QueueInv
      <3>4. BatchInv'
        BY <3>1 DEF BatchInv
      <3>5. TimerInv' /\ NoneForgotten'
        BY <1>1, <1>2, <2>1, <3>1 DEF CallTypes, CallInv, TimerInv, NoneForgotten
      <3>6. Sent
        BY <3>1 DEF Sent
      <3>. QED  BY <3>2, <3>3, <3>4, <3>5, <3>6 DEF CallInv
    <2>5. CASE t # <<>>
      <3>1. PICK h \in Calls, r \in Seq(Calls) :
              /\ h = Head(t) /\ r = Tail(t) /\ Range(t) = {h} \union Range(r) /\ h \notin Range(r)
        BY <2>1, <2>5, TailFacts
      <3>2. /\ batch' = t /\ pending' = (pending \ {q}) \union {h}
            /\ wire' = wire \/ wire' = [wire EXCEPT ![h] = ws]
        BY <2>2, <2>5, <3>1
      <3>3. /\ wire' \in [Calls -> Sockets \union {NoSocket}]
            /\ \A p \in Calls : p # h => wire'[p] = wire[p]
        BY <3>2 DEF CallTypes, ConnTypes
      <3>4. h \notin pending /\ wire[h] = NoSocket /\ h # q /\ h \in Range(batch)
        BY <2>1, <2>3, <3>1
      <3>5. h \notin Range(queue) /\ told[h] # "new"
        BY <3>4, RangesTyped DEF CallInv, QueueInv, NewInv
      <3>6. CallTypes'
        BY <1>1, <1>2, <3>2, <3>3 DEF CallTypes
      <3>7. NewInv' /\ QueueInv'
        BY <1>1, <1>2, <1>3, <2>1, <3>2, <3>3, <3>4, <3>5, RangesTyped
        DEF CallInv, NewInv, QueueInv
      <3>8. BatchInv'
        BY <2>1, <2>3, <2>5, <3>1, <3>2, <3>3 DEF BatchInv
      <3>9. TimerInv' /\ NoneForgotten'
        BY <1>1, <1>2, <2>1, <3>2 DEF CallTypes, CallInv, TimerInv, NoneForgotten
      <3>10. Sent
        BY <3>2, <3>3, <3>4 DEF Sent
      <3>. QED  BY <3>6, <3>7, <3>8, <3>9, <3>10 DEF CallInv
    <2>. QED  BY <2>4, <2>5
  <1>5. CASE ~(batch # <<>> /\ Head(batch) = q)
    <2>1. batch' = batch /\ wire' = wire /\ pending' = pending \ {q}
      BY <1>5 DEF Settle, SendHead, CallInv, BatchInv
    <2>2. CallTypes'
      BY <1>1, <1>2, <2>1 DEF CallTypes
    <2>3. NewInv' /\ QueueInv'
      BY <1>1, <1>2, <1>3, <2>1, RangesTyped DEF CallInv, NewInv, QueueInv
    <2>4. TimerInv' /\ NoneForgotten'
      BY <1>1, <1>2, <2>1 DEF CallTypes, CallInv, TimerInv, NoneForgotten
    <2>5. BatchInv'
      BY <1>5, <2>1 DEF CallInv, BatchInv
    <2>6. Sent
      BY <2>1 DEF Sent
    <2>. QED  BY <2>2, <2>3, <2>4, <2>5, <2>6 DEF CallInv
  <1>. QED  BY <1>4, <1>5

LEMMA QueuedCallEnds ==
    ASSUME CallTypes, CallInv, NEW q \in Calls, QueueTimeout(q)
    PROVE  /\ CallTypes' /\ CallInv' /\ Sent
           /\ queue = <<>> => queue' = <<>>
  <1>1. /\ told' = Tell({q}, "error") /\ queueTimers' = queueTimers \ {q}
        /\ UNCHANGED <<batch, pending, wire>>
    BY DEF QueueTimeout
  <1>2. /\ told' \in [Calls -> {"new", "waiting", "ok", "error"}]
        /\ \A p \in Calls : told'[p] = "new" <=> told[p] = "new"
        /\ \A p \in Calls : told'[p] = "waiting" <=> told[p] = "waiting" /\ p # q
    BY <1>1, Told
  <1>3. /\ queue' \in Seq(Calls) /\ Len(queue') <= MaxQueue /\ NoRepeats(queue')
        /\ Range(queue') = Range(queue) \ {q}
        /\ queue = <<>> => queue' = <<>>
    <2>1. CASE q \notin Range(queue)
      BY <2>1 DEF QueueTimeout, CallTypes, CallInv, QueueInv
    <2>2. CASE q \in Range(queue)
      <3>1. PICK i \in DOMAIN queue : queue[i] = q /\ queue' = RemoveAt(queue, i)
        BY <2>2 DEF QueueTimeout
      <3>2. queue # <<>>
        BY <2>2, EmptyFacts
      <3>3. queue \in Seq(Calls) /\ NoRepeats(queue)
        BY DEF CallTypes, CallInv, QueueInv
      <3>4. /\ RemoveAt(queue, i) \in Seq(Calls) /\ Len(RemoveAt(queue, i)) = Len(queue) - 1
            /\ Range(RemoveAt(queue, i)) = Range(queue) \ {queue[i]}
            /\ NoRepeats(RemoveAt(queue, i))
        BY <3>1, <3>3, RemoveFacts
      <3>5. Len(queue) \in Nat /\ Len(queue) <= MaxQueue
        BY DEF CallTypes
      <3>. QED  BY <3>1, <3>2, <3>4, <3>5
    <2>. QED  BY <2>1, <2>2
  <1>4. CallTypes'
    BY <1>1, <1>2, <1>3 DEF CallTypes
  <1>5. NewInv' /\ BatchInv'
    BY <1>1, <1>2, <1>3 DEF CallInv, NewInv, BatchInv
  <1>6. QueueInv'
    BY <1>1, <1>2, <1>3, RangesTyped DEF CallInv, QueueInv
  <1>7. TimerInv' /\ NoneForgotten'
    BY <1>1, <1>2, <1>3 DEF CallTypes, CallInv, TimerInv, NoneForgotten
  <1>8. Sent
    BY <1>1 DEF Sent
  <1>. QED  BY <1>3, <1>4, <1>5, <1>6, <1>7, <1>8 DEF CallInv

-----------------------------------------------------------------------------
(* A step of the whole client. *)

Inv == ConnTypes /\ ConnInv /\ CallTypes /\ CallInv /\ BusyInv

\* A connection is reached when no flush is going on.
LEMMA NoFlushGoesOn ==
    ASSUME Inv, NEW n \in Sockets,
           OpensWithoutToken(n) \/ (Accepted(n) /\ auth # NoSocket)
    PROVE  batch = <<>>
  <1>1. CASE intentional
    BY <1>1 DEF Inv, BusyInv
  <1>2. CASE ~intentional
    <2>1. connecting
      BY <1>2 DEF Inv, ConnInv, AttemptInv, OpensWithoutToken, Accepted
    <2>2. ~connected
      BY <1>2, <2>1 DEF Inv, ConnInv, AttemptInv
    <2>. QED  BY <2>2 DEF Inv, BusyInv
  <1>. QED  BY <1>1, <1>2

LEMMA StepCalls ==
    ASSUME Inv, Next
    PROVE  CallTypes' /\ CallInv' /\ BusyInv' /\ Sent
  <1>. USE DEF Inv
  <1>1. ASSUME UNCHANGED calls, connected => connected', intentional' = intentional
        PROVE  CallTypes' /\ CallInv' /\ BusyInv' /\ Sent
    <2>1. batch' = batch /\ queue' = queue
      BY <1>1 DEF calls
    <2>. QED  BY <1>1, <2>1, KeepCalls DEF BusyInv
  <1>2. ASSUME NEW by, Attempt(by) PROVE CallTypes' /\ CallInv' /\ BusyInv' /\ Sent
    <2>1. UNCHANGED calls /\ batch' = batch /\ ~connected /\ intentional' = FALSE
      BY <1>2 DEF Attempt, calls
    <2>. QED  BY <2>1, KeepCalls DEF BusyInv
  <1>3. ASSUME NoPort PROVE CallTypes' /\ CallInv' /\ BusyInv' /\ Sent
    <2>1. batch' = batch /\ ~connected /\ intentional' = FALSE /\ UNCHANGED <<pending, wire>>
      BY <1>3 DEF NoPort
    <2>2. CASE attempts < MaxReconnect
      <3>1. UNCHANGED calls
        BY <1>3, <2>1, <2>2 DEF NoPort, calls
      <3>. QED  BY <2>1, <3>1, KeepCalls DEF BusyInv
    <2>3. CASE ~(attempts < MaxReconnect)
      <3>1. /\ queue' = <<>> /\ queueTimers' = queueTimers \ Range(queue)
            /\ told' = Tell(Range(queue), "error")
        BY <1>3, <2>3 DEF NoPort
      <3>. QED  BY <2>1, <3>1, QueueGivenUp DEF BusyInv
    <2>. QED  BY <2>2, <2>3
  <1>4. ASSUME CallerConnects \/ ReconnectFires
        PROVE  CallTypes' /\ CallInv' /\ BusyInv' /\ Sent
    BY <1>2, <1>3, <1>4 DEF CallerConnects, ReconnectFires
  <1>5. CASE Disconnect
    <2>1. batch' = <<>> /\ queue' = <<>>
      BY <1>5 DEF Disconnect
    <2>. QED  BY <1>5, <2>1, CallsEnd DEF BusyInv
  <1>6. ASSUME NEW gone, NEW still, Lost(gone, still)
        PROVE  CallTypes' /\ CallInv' /\ BusyInv' /\ Sent
    <2>1. batch' = <<>> /\ intentional' = intentional /\ (queue' = queue \/ queue' = <<>>)
      BY <1>6 DEF Lost
    <2>. QED  BY <1>6, <2>1, CallsLost DEF BusyInv
  <1>7. ASSUME NEW n \in Sockets, NEW open, Connected(n, open), intentional' = intentional,
               batch = <<>>
        PROVE  CallTypes' /\ CallInv' /\ BusyInv' /\ Sent
    <2>1. batch' = queue /\ queue' = <<>> /\ connected' = TRUE
      BY <1>7 DEF Connected, SendHead
    <2>. QED  BY <1>7, <2>1, Flush DEF BusyInv
  <1>8. ASSUME NEW n \in Sockets, ConnectFails(n)
        PROVE  CallTypes' /\ CallInv' /\ BusyInv' /\ Sent
    BY <1>6, <1>8 DEF ConnectFails
  <1>9. ASSUME NEW n \in Sockets, OrphanFails(n) \/ Opens(n) \/ Rejected(n) \/ AuthTimeout(n)
                                  \/ ServerCloses(n)
        PROVE  CallTypes' /\ CallInv' /\ BusyInv' /\ Sent
    BY <1>1, <1>9 DEF OrphanFails, Opens, Rejected, AuthTimeout, ServerCloses, flags
  <1>10. ASSUME NEW n \in Sockets, CloseEvent(n)
         PROVE  CallTypes' /\ CallInv' /\ BusyInv' /\ Sent
    <2>1. CASE n \in heard
      BY <1>6, <1>10, <2>1 DEF CloseEvent
    <2>2. CASE n \notin heard
      BY <1>1, <1>10, <2>2 DEF CloseEvent, flags
    <2>. QED  BY <2>1, <2>2
  <1>11. ASSUME NEW n \in Sockets, OpensWithoutToken(n)
         PROVE  CallTypes' /\ CallInv' /\ BusyInv' /\ Sent
    BY <1>7, <1>11, NoFlushGoesOn DEF OpensWithoutToken
  <1>12. ASSUME NEW n \in Sockets, Accepted(n)
         PROVE  CallTypes' /\ CallInv' /\ BusyInv' /\ Sent
    <2>1. CASE auth = NoSocket
      BY <1>1, <1>12, <2>1 DEF Accepted
    <2>2. CASE auth # NoSocket
      <3>1. auth \in Sockets /\ batch = <<>>
        BY <1>12, <2>2, NoFlushGoesOn DEF ConnTypes
      <3>. QED  BY <1>7, <1>12, <2>2, <3>1 DEF Accepted
    <2>. QED  BY <2>1, <2>2
  <1>13. ASSUME NEW q \in Calls, Send(q)
         PROVE  CallTypes' /\ CallInv' /\ BusyInv' /\ Sent
    <2>1. /\ batch' = batch /\ connected' = connected /\ intentional' = intentional
          /\ queue' = queue \/ ~intentional
      BY <1>13 DEF Send, flags, MayReconnect
    <2>. QED  BY <1>13, <2>1, CallMade DEF BusyInv
  <1>14. ASSUME NEW q, Response(q) \/ RequestTimeout(q)
         PROVE  CallTypes' /\ CallInv' /\ BusyInv' /\ Sent
    <2>1. PICK o \in {"ok", "error"} : q \in pending /\ Settle(q, o)
      BY <1>14 DEF Response, RequestTimeout
    <2>2. /\ queue' = queue /\ connected' = connected /\ intentional' = intentional
      BY <1>14 DEF Response, RequestTimeout, flags
    <2>3. batch = <<>> => batch' = <<>>
      BY <2>1 DEF Settle, SendHead
    <2>. QED  BY <2>1, <2>2, <2>3, CallSettled DEF BusyInv
  <1>15. ASSUME NEW q \in Calls, QueueTimeout(q)
         PROVE  CallTypes' /\ CallInv' /\ BusyInv' /\ Sent
    <2>1. batch' = batch /\ connected' = connected /\ intentional' = intentional
      BY <1>15 DEF QueueTimeout, flags
    <2>. QED  BY <1>15, <2>1, QueuedCallEnds DEF BusyInv
  <1>. QED
    BY <1>4, <1>5, <1>8, <1>9, <1>10, <1>11, <1>12, <1>13, <1>14, <1>15 DEF Next

LEMMA InitInv == ASSUME Init PROVE Inv
  <1>1. Range(<<>>) = {} /\ Len(<<>>) = 0 /\ NoRepeats(<<>>) /\ <<>> \in Seq(Calls)
    BY EmptyFacts
  <1>2. ConnTypes
    <2>1. /\ ws = NoSocket /\ heard = {} /\ openTimers = {} /\ auth = NoSocket
          /\ authTimers = {} /\ asked = {} /\ attempts = 0
          /\ connected = FALSE /\ connecting = FALSE /\ intentional = FALSE
          /\ started = FALSE /\ timer = FALSE
      BY DEF Init
    <2>2. sock \in [Sockets -> {"new"}] /\ waiter \in [Sockets -> {"none"}]
      BY DEF Init
    <2>3. attempts \in 0..MaxReconnect
      BY <2>1, ReconnectIsNumber
    <2>. QED  BY <2>1, <2>2, <2>3 DEF ConnTypes
  <1>3. ConnInv
    <2>1. /\ ws = NoSocket /\ heard = {} /\ openTimers = {} /\ auth = NoSocket
          /\ ~connected /\ ~connecting /\ ~intentional /\ ~started /\ ~timer
      BY DEF Init
    <2>. QED  BY <2>1 DEF ConnInv, AttemptInv, NeverStranded
  <1>4. queue \in Seq(Calls) /\ Len(queue) <= MaxQueue /\ batch \in Seq(Calls)
    BY <1>1, QueueHasRoom DEF Init
  <1>5. CallTypes
    BY <1>4 DEF Init, CallTypes
  <1>6. CallInv /\ BusyInv
    BY <1>1 DEF Init, CallInv, NewInv, QueueInv, BatchInv, TimerInv, NoneForgotten, BusyInv
  <1>. QED  BY <1>2, <1>3, <1>5, <1>6 DEF Inv

LEMMA Invariance == Spec => []Inv
  <1>1. Init => Inv
    BY InitInv
  <1>2. Inv /\ [Next]_vars => Inv'
    <2>1. ASSUME Inv, Next PROVE Inv'
      BY <2>1, ConnStep, ConnInvStep, StepCalls DEF Inv
    <2>2. ASSUME Inv, UNCHANGED vars PROVE Inv'
      <3>1. CallTypes' /\ CallInv'
        BY <2>2, KeepCalls DEF Inv, vars
      <3>. QED  BY <2>2, <3>1 DEF Inv, vars, socketVars, attemptVars, flags, calls,
                   ConnTypes, ConnInv, AttemptInv, NeverStranded, BusyInv
    <2>. QED  BY <2>1, <2>2
  <1>. QED  BY <1>1, <1>2, PTL DEF Spec

-----------------------------------------------------------------------------
\* Every variable of the client keeps its type.
THEOREM TypeCorrect == Spec => []TypeOK
  <1>1. Inv => TypeOK
    BY TypesApart DEF Inv
  <1>. QED  BY <1>1, Invariance, PTL

\* While attempts are left the client never stops trying to connect, whatever
\* order the events of its sockets and timers come in.
THEOREM NeverStrands == Spec => []NeverStranded
  <1>1. Inv => NeverStranded
    BY DEF Inv, ConnInv
  <1>. QED  BY <1>1, Invariance, PTL

\* There is one attempt at a time, and one socket whose events count.
THEOREM OneAttemptAtATime == Spec => []OneAttempt
  <1>1. Inv => OneAttempt
    BY DEF Inv, ConnInv, AttemptInv, OneAttempt
  <1>. QED  BY <1>1, Invariance, PTL

\* A call whose caller waits has a timer left that gives it an outcome.
THEOREM NoCallIsForgotten == Spec => []NoneForgotten
  <1>1. Inv => NoneForgotten
    BY DEF Inv, CallInv
  <1>. QED  BY <1>1, Invariance, PTL

\* A call is written to one socket at most, whatever connections come and go.
THEOREM CallsAreSentOnce == Spec => SentOnce
  <1>1. Inv /\ [Next]_vars => [Sent]_vars
    BY StepCalls
  <1>. QED  BY <1>1, Invariance, PTL DEF Spec, SentOnce, Sent
==============================================================================
