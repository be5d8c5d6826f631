-------------------------- MODULE McpBridgeProofs --------------------------
(* Proofs about McpBridge, for any clients, windows, ids and bounds. *)
EXTENDS McpBridge, TLAPS

(* The part of the invariant that needs nothing of the request ids.        *)

\* A request in service holds the write lock unless it is read-only, and one
\* that waits for the lock is in its queue.
LockInv ==
    \A c \in Clients :
        /\ Writing(c) => lockq # <<>> /\ Head(lockq) = c
        /\ pc[c] = "lock" => /\ ~IsReadOnly(op[c])
                             /\ \E k \in 1..Len(lockq) : lockq[k] = c

\* How many events a request has emitted follows from where its handler is.
SentInv ==
    /\ \A c \in Clients :
          /\ pc[c] # "idle" => n[c] > 0
          /\ pc[c] \in {"lock", "insert", "emit"} => sent[CurReq(c)] = 0
          /\ pc[c] \in {"wait1", "retry", "reemit"} => sent[CurReq(c)] = 1
    /\ \A r \in Requests : n[r[1]] < r[2] => sent[r] = 0

BaseInv == TypeOK /\ LockInv /\ SentInv

USE DEF InService, Waiting, Receiving, Kinds, Entry, Requests, CurReq

LEMMA QueueFacts ==
    ASSUME NEW S, NEW q \in Seq(S), q # <<>>
    PROVE  /\ Head(q) \in S /\ Tail(q) \in Seq(S) /\ Len(Tail(q)) = Len(q) - 1
           /\ Head(q) = q[1] /\ Len(q) \in Nat \ {0}
           /\ \A k \in 1..Len(Tail(q)) : Tail(q)[k] = q[k + 1]
  OBVIOUS

THEOREM BaseInit == Init => BaseInv
  <1>. SUFFICES ASSUME Init PROVE BaseInv
    OBVIOUS
  <1>1. (CHOOSE o \in Ops : TRUE) \in Ops
    BY OpsAssumption
  <1>2. (CHOOSE w \in Windows : TRUE) \in Windows
    BY WindowsAssumption
  <1>3. TypeOK
    BY <1>1, <1>2, BoundsAssumption
    DEF Init, TypeOK, ConnType, HandlerType, TableType, WindowType, HistoryType
  <1>4. LockInv
    BY DEF Init, LockInv, Writing, Serving
  <1>5. SentInv
    BY DEF Init, SentInv
  <1>. QED
    BY <1>3, <1>4, <1>5 DEF BaseInv

(* Each part of the type is disturbed by a few of the actions only.        *)

\* What no step of a handler touches.
LEMMA HandlerFrame ==
    ASSUME NEW c \in Clients, Handler(c)
    PROVE  /\ UNCHANGED connVars /\ UNCHANGED reqVars
           /\ UNCHANGED <<windows, answers, ran>>
  <1>1. CASE Acquire(c)
    BY <1>1 DEF Acquire, winVars
  <1>2. CASE Insert(c)
    BY <1>2 DEF Insert, winVars
  <1>3. CASE Emit(c)
    BY <1>3 DEF Emit, EmitTo, winVars
  <1>4. CASE EmitFails(c)
    BY <1>4 DEF EmitFails, winVars
  <1>5. CASE Receive(c)
    BY <1>5 DEF Receive, winVars
  <1>6. CASE ChannelClosed(c)
    BY <1>6 DEF ChannelClosed, winVars
  <1>7. CASE FirstTimeout(c)
    BY <1>7 DEF FirstTimeout, winVars
  <1>8. CASE RetryInsert(c)
    BY <1>8 DEF RetryInsert, winVars
  <1>9. CASE Reemit(c)
    BY <1>9 DEF Reemit, EmitTo, winVars
  <1>10. CASE ReemitFails(c)
    BY <1>10 DEF ReemitFails, winVars
  <1>11. CASE FinalTimeout(c)
    BY <1>11 DEF FinalTimeout, winVars
  <1>12. CASE GiveUp(c)
    BY <1>12 DEF GiveUp, winVars
  <1>. QED
    BY <1>1, <1>2, <1>3, <1>4, <1>5, <1>6, <1>7, <1>8, <1>9, <1>10, <1>11, <1>12 DEF Handler

LEMMA ConnStep ==
    ASSUME BaseInv, Next PROVE ConnType'
  <1>. USE DEF BaseInv, TypeOK, ConnType
  <1>1. CASE \E c \in Clients : Connection(c)
    BY <1>1 DEF Connection, Accept, Register, Authenticate, Leave, Shutdown, Unregister
  <1>2. CASE StopSignal \/ ListenerExits \/ StopDrain \/ Start
    <2>1. CASE StopSignal
      BY <2>1 DEF StopSignal
    <2>2. CASE ListenerExits
      BY <2>2 DEF ListenerExits
    <2>3. CASE StopDrain
      BY <2>3 DEF StopDrain
    <2>4. CASE Start
      BY <2>4 DEF Start
    <2>. QED
      BY <1>2, <2>1, <2>2, <2>3, <2>4
  <1>3. CASE UNCHANGED connVars
    BY <1>3 DEF connVars
  <1>4. ASSUME NEW c \in Clients, NEW o \in Ops, NEW w \in Windows, Request(c, o, w)
        PROVE  UNCHANGED connVars
    BY <1>4 DEF Request
  <1>5. ASSUME NEW w \in Windows, Execute(w) \/ CloseWindow(w) PROVE UNCHANGED connVars
    BY <1>5 DEF Execute, CloseWindow
  <1>6. ASSUME NEW a \in answers, Respond(a) PROVE UNCHANGED connVars
    BY <1>6 DEF Respond
  <1>7. CASE Tick
    BY <1>7, <1>3 DEF Tick
  <1>. QED
    BY <1>1, <1>2, <1>3, <1>4, <1>5, <1>6, <1>7, HandlerFrame DEF Next

\* What connections and the life of the bridge leave alone.
LEMMA ConnFrame ==
    ASSUME (\E c \in Clients : Connection(c)) \/ StopSignal \/ ListenerExits \/ Start
    PROVE  /\ UNCHANGED reqVars /\ UNCHANGED winVars
           /\ UNCHANGED <<pc, clock, chan, pending, lockq, sent, reply>>
  <1>1. ASSUME NEW c \in Clients, Connection(c)
        PROVE  /\ UNCHANGED reqVars /\ UNCHANGED winVars
               /\ UNCHANGED <<pc, clock, chan, pending, lockq, sent, reply>>
    BY <1>1 DEF Connection, Accept, Register, Authenticate, Leave, Shutdown, Unregister
  <1>2. ASSUME StopSignal \/ ListenerExits \/ Start
        PROVE  /\ UNCHANGED reqVars /\ UNCHANGED winVars
               /\ UNCHANGED <<pc, clock, chan, pending, lockq, sent, reply>>
    BY <1>2 DEF StopSignal, ListenerExits, Start
  <1>. QED
    BY <1>1, <1>2

LEMMA AfterType ==
    ASSUME HandlerType, NEW S, NEW x \in {"closed"} \cup Kinds
    PROVE  After(S, x) \in [Clients -> {"empty", "closed"} \cup Kinds]
  BY DEF HandlerType, After

LEMMA HandlerStep ==
    ASSUME BaseInv, Next PROVE HandlerType'
  <1>. USE DEF BaseInv, TypeOK, HandlerType, reqVars
  <1>1. CASE (\E c \in Clients : Connection(c)) \/ StopSignal \/ ListenerExits \/ Start
    BY <1>1, ConnFrame
  <1>2. ASSUME NEW c \in Clients, Handler(c) PROVE HandlerType'
    <2>. USE HandlerFrame, AfterType, BoundsAssumption
    <2>1. CASE Acquire(c)
      BY <1>2, <2>1 DEF Acquire
    <2>2. CASE Insert(c)
      <3>1. CASE TableFull
        <4>1. pc' = [pc EXCEPT ![c] = "idle"] /\ clock' = [clock EXCEPT ![c] = 0]
          BY <2>2, <3>1 DEF Insert, Finish
        <4>2. chan' = [After(Stale, "closed") EXCEPT ![c] = "empty"]
          BY <2>2, <3>1 DEF Insert, Finish
        <4>. QED
          BY <1>2, <4>1, <4>2
      <3>2. CASE ~TableFull
        <4>1. pc' = [pc EXCEPT ![c] = "emit"] /\ clock' = clock
          BY <2>2, <3>2 DEF Insert
        <4>2. chan' = [After(Stale \cup Under(CurId(c)), "closed") EXCEPT ![c] = "empty"]
          BY <2>2, <3>2 DEF Insert
        <4>. QED
          BY <1>2, <4>1, <4>2
      <3>. QED
        BY <3>1, <3>2
    <2>3. CASE Emit(c)
      BY <1>2, <2>3 DEF Emit, EmitTo
    <2>4. CASE EmitFails(c)
      BY <1>2, <2>4 DEF EmitFails, RemoveAndFinish, Finish
    <2>5. CASE Receive(c)
      BY <1>2, <2>5 DEF Receive, Finish
    <2>6. CASE ChannelClosed(c)
      BY <1>2, <2>6 DEF ChannelClosed, RemoveAndFinish, Finish
    <2>7. CASE FirstTimeout(c)
      BY <1>2, <2>7 DEF FirstTimeout
    <2>8. CASE RetryInsert(c)
      BY <1>2, <2>8 DEF RetryInsert
    <2>9. CASE Reemit(c)
      BY <1>2, <2>9 DEF Reemit, EmitTo
    <2>10. CASE ReemitFails(c)
      BY <1>2, <2>10 DEF ReemitFails, RemoveAndFinish, Finish
    <2>11. CASE FinalTimeout(c)
      BY <1>2, <2>11 DEF FinalTimeout
    <2>12. CASE GiveUp(c)
      BY <1>2, <2>12 DEF GiveUp, RemoveAndFinish, Finish
    <2>. QED
      BY <1>2, <2>1, <2>2, <2>3, <2>4, <2>5, <2>6, <2>7, <2>8, <2>9, <2>10, <2>11, <2>12 DEF Handler
  <1>3. ASSUME NEW c \in Clients, NEW o \in Ops, NEW w \in Windows, Request(c, o, w)
        PROVE  HandlerType'
    <2>1. n[c] + 1 \in 0..MaxReq
      BY <1>3, BoundsAssumption DEF Request
    <2>2. n' \in [Clients -> 0..MaxReq] /\ op' \in [Clients -> Ops] /\ win' \in [Clients -> Windows]
      BY <1>3, <2>1 DEF Request
    <2>3. pc' \in [Clients -> {"idle", "lock"} \cup InService]
      BY <1>3 DEF Request
    <2>. QED
      BY <1>3, <2>2, <2>3 DEF Request
  <1>4. ASSUME NEW w \in Windows, Execute(w) \/ CloseWindow(w) PROVE HandlerType'
    BY <1>4 DEF Execute, CloseWindow
  <1>5. ASSUME NEW a \in answers, Respond(a) PROVE HandlerType'
    BY <1>5, AfterType DEF Respond, WindowType
  <1>6. CASE StopDrain
    BY <1>6, AfterType DEF StopDrain
  <1>7. CASE Tick
    <2>1. ASSUME NEW c \in Clients, pc[c] \in Waiting PROVE clock[c] + 1 \in 0..Timeout
      <3>1. clock[c] < Timeout
        BY <1>7, <2>1 DEF Tick, Idle
      <3>. QED
        BY <3>1, BoundsAssumption
    <2>2. clock' \in [Clients -> 0..Timeout]
      BY <1>7, <2>1 DEF Tick
    <2>. QED
      BY <1>7, <2>2 DEF Tick
  <1>. QED
    BY <1>1, <1>2, <1>3, <1>4, <1>5, <1>6, <1>7 DEF Next

-----------------------------------------------------------------------------
(* The lock queue.                                                         *)

\* A step by which a request leaves the service, and one by which it goes on.
Ends(c) ==
    /\ Serving(c)
    /\ pc' = [pc EXCEPT ![c] = "idle"]
    /\ lockq' = IF IsReadOnly(op[c]) THEN lockq ELSE Tail(lockq)
GoesOn(c) ==
    /\ Serving(c)
    /\ \E p \in InService : pc' = [pc EXCEPT ![c] = p]
    /\ lockq' = lockq

LEMMA HandlerShape ==
    ASSUME NEW c \in Clients, Handler(c)
    PROVE  Acquire(c) \/ Ends(c) \/ GoesOn(c)
  <1>. USE DEF Serving, Ends, GoesOn
  <1>1. CASE Insert(c)
    BY <1>1 DEF Insert, Finish
  <1>2. CASE Emit(c)
    BY <1>2 DEF Emit, EmitTo
  <1>3. CASE EmitFails(c)
    BY <1>3 DEF EmitFails, RemoveAndFinish, Finish
  <1>4. CASE Receive(c)
    BY <1>4 DEF Receive, Finish
  <1>5. CASE ChannelClosed(c)
    BY <1>5 DEF ChannelClosed, RemoveAndFinish, Finish
  <1>6. CASE FirstTimeout(c)
    BY <1>6 DEF FirstTimeout
  <1>7. CASE RetryInsert(c)
    BY <1>7 DEF RetryInsert
  <1>8. CASE Reemit(c)
    BY <1>8 DEF Reemit, EmitTo
  <1>9. CASE ReemitFails(c)
    BY <1>9 DEF ReemitFails, RemoveAndFinish, Finish
  <1>10. CASE FinalTimeout(c)
    BY <1>10 DEF FinalTimeout
  <1>11. CASE GiveUp(c)
    BY <1>11 DEF GiveUp, RemoveAndFinish, Finish
  <1>. QED
    BY <1>1, <1>2, <1>3, <1>4, <1>5, <1>6, <1>7, <1>8, <1>9, <1>10, <1>11 DEF Handler

\* The lock queue, and with it the lock, through one step of any process.
LEMMA LockStep ==
    ASSUME BaseInv, Next PROVE LockInv' /\ lockq' \in Seq(Clients)
  <1>. USE DEF BaseInv, TypeOK, HandlerType, TableType, LockInv, Writing, Serving
  <1>1. CASE UNCHANGED <<reqVars, pc, lockq>>
    BY <1>1 DEF reqVars
  <1>2. CASE (\E c \in Clients : Connection(c)) \/ StopSignal \/ ListenerExits \/ Start
    BY <1>1, <1>2, ConnFrame
  <1>3. ASSUME NEW c \in Clients, Handler(c) PROVE LockInv' /\ lockq' \in Seq(Clients)
    <2>1. UNCHANGED reqVars
      BY <1>3, HandlerFrame
    <2>2. CASE Acquire(c)
      <3>1. lockq # <<>> /\ Head(lockq) = c
        BY <2>2 DEF Acquire
      <3>. QED
        BY <2>1, <2>2, <3>1 DEF Acquire, reqVars
    <2>3. CASE GoesOn(c)
      BY <2>1, <2>3 DEF GoesOn, reqVars
    <2>4. CASE Ends(c) /\ IsReadOnly(op[c])
      BY <2>1, <2>4 DEF Ends, reqVars
    <2>5. CASE Ends(c) /\ ~IsReadOnly(op[c])
      <3>1. /\ pc' = [pc EXCEPT ![c] = "idle"] /\ lockq' = Tail(lockq)
            /\ lockq # <<>> /\ Head(lockq) = c /\ op' = op
        BY <2>1, <2>5 DEF Ends, reqVars
      <3>2. ASSUME NEW d \in Clients PROVE Writing(d)' => FALSE
        BY <3>1
      <3>3. ASSUME NEW d \in Clients, pc'[d] = "lock"
            PROVE  \E k \in 1..Len(lockq') : lockq'[k] = d
        <4>1. d # c /\ pc[d] = "lock"
          BY <3>1, <3>3
        <4>2. PICK k \in 1..Len(lockq) : lockq[k] = d
          BY <4>1
        <4>3. k # 1
          BY <3>1, <4>1, <4>2, QueueFacts
        <4>4. k - 1 \in 1..Len(lockq') /\ lockq'[k - 1] = d
          BY <3>1, <4>2, <4>3, QueueFacts
        <4>. QED
          BY <4>4
      <3>4. lockq' \in Seq(Clients)
        BY <3>1, QueueFacts
      <3>5. ASSUME NEW d \in Clients, pc'[d] = "lock" PROVE ~IsReadOnly(op'[d])
        BY <3>1, <3>5
      <3>. QED
        BY <3>2, <3>3, <3>4, <3>5
    <2>. QED
      BY <1>3, <2>2, <2>3, <2>4, <2>5, HandlerShape
  <1>4. ASSUME NEW c \in Clients, NEW o \in Ops, NEW w \in Windows, Request(c, o, w)
        PROVE  LockInv' /\ lockq' \in Seq(Clients)
    <2>1. op' = [op EXCEPT ![c] = o] /\ pc[c] = "idle"
      BY <1>4 DEF Request
    <2>2. CASE UNCHANGED <<pc, lockq>>
      BY <2>1, <2>2
    <2>3. CASE pc' = [pc EXCEPT ![c] = "insert"] /\ IsReadOnly(o) /\ lockq' = lockq
      BY <2>1, <2>3
    <2>4. CASE pc' = [pc EXCEPT ![c] = "lock"] /\ ~IsReadOnly(o) /\ lockq' = Append(lockq, c)
      <3>1. /\ lockq' \in Seq(Clients) /\ lockq' # <<>> /\ Len(lockq') = Len(lockq) + 1
            /\ lockq'[Len(lockq) + 1] = c
            /\ \A k \in 1..Len(lockq) : lockq'[k] = lockq[k]
            /\ lockq # <<>> => Head(lockq') = Head(lockq)
        BY <2>4
      <3>2. ASSUME NEW d \in Clients, Writing(d)' PROVE lockq' # <<>> /\ Head(lockq') = d
        BY <2>1, <2>4, <3>1, <3>2
      <3>3. ASSUME NEW d \in Clients, pc'[d] = "lock"
            PROVE  \E k \in 1..Len(lockq') : lockq'[k] = d
        <4>1. CASE d = c
          BY <3>1, <4>1
        <4>2. CASE d # c
          BY <2>4, <3>1, <3>3, <4>2
        <4>. QED
          BY <4>1, <4>2
      <3>4. ASSUME NEW d \in Clients, pc'[d] = "lock" PROVE ~IsReadOnly(op'[d])
        BY <2>1, <2>4, <3>4
      <3>. QED
        BY <3>1, <3>2, <3>3, <3>4
    <2>. QED
      BY <1>4, <2>2, <2>3, <2>4 DEF Request
  <1>5. ASSUME NEW w \in Windows, Execute(w) \/ CloseWindow(w)
        PROVE  UNCHANGED <<reqVars, pc, lockq>>
    BY <1>5 DEF Execute, CloseWindow
  <1>6. ASSUME NEW a \in answers, Respond(a) PROVE UNCHANGED <<reqVars, pc, lockq>>
    BY <1>6 DEF Respond
  <1>7. CASE StopDrain \/ Tick
    BY <1>1, <1>7 DEF StopDrain, Tick
  <1>. QED
    BY <1>1, <1>2, <1>3, <1>4, <1>5, <1>6, <1>7 DEF Next

-----------------------------------------------------------------------------
(* The other parts of the base invariant.                                  *)

LEMMA CurReqType ==
    ASSUME BaseInv, NEW c \in Clients, pc[c] # "idle"
    PROVE  CurReq(c) \in Requests
  BY BoundsAssumption DEF BaseInv, TypeOK, HandlerType, SentInv

LEMMA PendingStep ==
    ASSUME BaseInv, Next PROVE pending' \in SUBSET Entry
  <1>. USE DEF BaseInv, TypeOK, TableType
  <1>1. CASE (\E c \in Clients : Connection(c)) \/ StopSignal \/ ListenerExits \/ Start
    BY <1>1, ConnFrame
  <1>2. ASSUME NEW c \in Clients, Handler(c) PROVE pending' \in SUBSET Entry
    <2>1. CASE pending' \subseteq pending
      BY <2>1
    <2>2. ASSUME NEW k \in {1, 2}, pc[c] # "idle",
                 pending' \subseteq pending \cup {[req |-> CurReq(c), attempt |-> k, age |-> 0]}
          PROVE  pending' \in SUBSET Entry
      <3>1. [req |-> CurReq(c), attempt |-> k, age |-> 0] \in Entry
        BY <2>2, CurReqType, BoundsAssumption
      <3>. QED
        BY <2>2, <3>1
    <2>3. CASE Acquire(c) \/ Emit(c) \/ Receive(c) \/ FirstTimeout(c) \/ Reemit(c) \/ FinalTimeout(c)
      BY <2>1, <2>3 DEF Acquire, Emit, Receive, FirstTimeout, Reemit, FinalTimeout, EmitTo
    <2>4. CASE EmitFails(c) \/ ChannelClosed(c) \/ ReemitFails(c) \/ GiveUp(c)
      BY <2>1, <2>4 DEF EmitFails, ChannelClosed, ReemitFails, GiveUp, RemoveAndFinish
    <2>5. CASE Insert(c)
      BY <2>1, <2>2, <2>5 DEF Insert
    <2>6. CASE RetryInsert(c)
      BY <2>2, <2>6 DEF RetryInsert
    <2>. QED
      BY <1>2, <2>3, <2>4, <2>5, <2>6 DEF Handler
  <1>3. CASE \E c \in Clients, o \in Ops, w \in Windows : Request(c, o, w)
    BY <1>3 DEF Request
  <1>4. CASE \E w \in Windows : Execute(w) \/ CloseWindow(w)
    BY <1>4 DEF Execute, CloseWindow
  <1>5. CASE \E a \in answers : Respond(a)
    BY <1>5 DEF Respond
  <1>6. CASE StopDrain
    BY <1>6 DEF StopDrain
  <1>7. CASE Tick
    BY <1>7, BoundsAssumption DEF Tick
  <1>. QED
    BY <1>1, <1>2, <1>3, <1>4, <1>5, <1>6, <1>7 DEF Next

\* What of the windows and the histories each handler step changes.
LEMMA QuietFrame ==
    ASSUME NEW c \in Clients, Handler(c), ~Emit(c), ~Reemit(c)
    PROVE  UNCHANGED <<queue, sent>>
  <1>1. CASE Acquire(c)
    BY <1>1 DEF Acquire, winVars
  <1>2. CASE Insert(c)
    BY <1>2 DEF Insert, winVars
  <1>3. CASE EmitFails(c)
    BY <1>3 DEF EmitFails, winVars
  <1>4. CASE Receive(c)
    BY <1>4 DEF Receive, winVars
  <1>5. CASE ChannelClosed(c)
    BY <1>5 DEF ChannelClosed, winVars
  <1>6. CASE FirstTimeout(c)
    BY <1>6 DEF FirstTimeout, winVars
  <1>7. CASE RetryInsert(c)
    BY <1>7 DEF RetryInsert, winVars
  <1>8. CASE ReemitFails(c)
    BY <1>8 DEF ReemitFails, winVars
  <1>9. CASE FinalTimeout(c)
    BY <1>9 DEF FinalTimeout, winVars
  <1>10. CASE GiveUp(c)
    BY <1>10 DEF GiveUp, winVars
  <1>. QED
    BY <1>1, <1>2, <1>3, <1>4, <1>5, <1>6, <1>7, <1>8, <1>9, <1>10 DEF Handler

LEMMA WindowStep ==
    ASSUME BaseInv, Next PROVE WindowType'
  <1>. USE DEF BaseInv, TypeOK, WindowType, winVars
  <1>1. CASE (\E c \in Clients : Connection(c)) \/ StopSignal \/ ListenerExits \/ Start
    BY <1>1, ConnFrame
  <1>2. ASSUME NEW c \in Clients, Handler(c) PROVE WindowType'
    <2>1. windows' = windows /\ answers' = answers
      BY <1>2, HandlerFrame
    <2>2. ASSUME EmitTo(c, "wait1") \/ EmitTo(c, "wait2"), pc[c] \in {"emit", "reemit"}
          PROVE  queue' \in [Windows -> Seq([req : Requests, op : Ops, try : 1..2])]
      <3>1. CurReq(c) \in Requests /\ sent[CurReq(c)] + 1 \in 1..2
        <4>1. CurReq(c) \in Requests
          BY <2>2, CurReqType
        <4>2. sent[CurReq(c)] = 0 \/ sent[CurReq(c)] = 1
          BY <2>2 DEF SentInv
        <4>. QED
          BY <4>1, <4>2
      <3>2. [req |-> CurReq(c), op |-> op[c], try |-> sent[CurReq(c)] + 1]
              \in [req : Requests, op : Ops, try : 1..2]
        BY <3>1 DEF HandlerType
      <3>3. win[c] \in Windows
        BY DEF HandlerType
      <3>. DEFINE E == [req : Requests, op : Ops, try : 1..2]
                  e == [req |-> CurReq(c), op |-> op[c], try |-> sent[CurReq(c)] + 1]
      <3>4. queue' = [queue EXCEPT ![win[c]] = Append(queue[win[c]], e)]
        BY <2>2 DEF EmitTo
      <3>5. e \in E /\ queue[win[c]] \in Seq(E)
        BY <3>2, <3>3
      <3>6. Append(queue[win[c]], e) \in Seq(E)
        <4>. HIDE DEF E, e
        <4>. QED
          BY <3>5
      <3>. QED
        BY <3>3, <3>4, <3>6
    <2>. QED
      BY <1>2, <2>1, <2>2, QuietFrame DEF Emit, Reemit
  <1>3. CASE \E c \in Clients, o \in Ops, w \in Windows : Request(c, o, w)
    BY <1>3 DEF Request
  <1>4. ASSUME NEW w \in Windows, Execute(w) PROVE WindowType'
    <2>. DEFINE E == [req : Requests, op : Ops, try : 1..2]
    <2>1. Head(queue[w]) \in E /\ Tail(queue[w]) \in Seq(E)
      BY <1>4, QueueFacts DEF Execute
    <2>2. queue' = [queue EXCEPT ![w] = Tail(queue[w])] /\ windows' = windows
      BY <1>4 DEF Execute
    <2>3. \E k \in {"ok", "refused"} : answers' = answers \cup
            {[req |-> Head(queue[w]).req, kind |-> k, try |-> Head(queue[w]).try]}
      BY <1>4 DEF Execute
    <2>4. queue' \in [Windows -> Seq(E)]
      <3>1. queue \in [Windows -> Seq(E)]
        OBVIOUS
      <3>. HIDE DEF E, WindowType
      <3>. QED
        BY <2>1, <2>2, <3>1
    <2>5. answers' \subseteq [req : Requests, kind : {"ok", "refused"}, try : 1..2]
      BY <2>1, <2>3
    <2>. QED
      BY <2>2, <2>4, <2>5
  <1>5. ASSUME NEW w \in Windows, CloseWindow(w) PROVE WindowType'
    <2>1. windows' \subseteq windows /\ answers' = answers
      BY <1>5 DEF CloseWindow
    <2>2. queue' = [queue EXCEPT ![w] = <<>>]
      BY <1>5 DEF CloseWindow
    <2>. DEFINE E == [req : Requests, op : Ops, try : 1..2]
    <2>3. queue' \in [Windows -> Seq(E)]
      <3>1. queue \in [Windows -> Seq(E)]
        OBVIOUS
      <3>. HIDE DEF E, WindowType
      <3>2. <<>> \in Seq(E)
        OBVIOUS
      <3>. QED
        BY <2>2, <3>1, <3>2
    <2>. QED
      BY <2>1, <2>3
  <1>6. CASE \E a \in answers : Respond(a)
    BY <1>6 DEF Respond
  <1>7. CASE StopDrain \/ Tick
    BY <1>7 DEF StopDrain, Tick
  <1>. QED
    BY <1>1, <1>2, <1>3, <1>4, <1>5, <1>6, <1>7 DEF Next

LEMMA SentStep ==
    ASSUME BaseInv, Next PROVE SentInv' /\ sent' \in [Requests -> 0..2]
  <1>. USE DEF BaseInv, TypeOK, HandlerType, HistoryType, SentInv, reqVars
  <1>1. CASE UNCHANGED <<reqVars, pc, sent>>
    BY <1>1
  <1>2. CASE (\E c \in Clients : Connection(c)) \/ StopSignal \/ ListenerExits \/ Start
    BY <1>1, <1>2, ConnFrame
  <1>3. ASSUME NEW c \in Clients, Handler(c) PROVE SentInv' /\ sent' \in [Requests -> 0..2]
    <2>1. n' = n
      BY <1>3, HandlerFrame
    <2>2. CASE Emit(c)
      <3>1. sent' = [sent EXCEPT ![CurReq(c)] = 1] /\ pc' = [pc EXCEPT ![c] = "wait1"]
        <4>1. sent[CurReq(c)] = 0
          BY <2>2 DEF Emit
        <4>. QED
          BY <2>2, <4>1 DEF Emit, EmitTo
      <3>2. CurReq(c) \in Requests
        BY <2>2, CurReqType DEF Emit
      <3>. QED
        BY <2>1, <3>1, <3>2
    <2>3. CASE Reemit(c)
      <3>1. sent' = [sent EXCEPT ![CurReq(c)] = 2] /\ pc' = [pc EXCEPT ![c] = "wait2"]
        <4>1. sent[CurReq(c)] = 1
          BY <2>3 DEF Reemit
        <4>. QED
          BY <2>3, <4>1 DEF Reemit, EmitTo
      <3>2. CurReq(c) \in Requests
        BY <2>3, CurReqType DEF Reemit
      <3>. QED
        BY <2>1, <3>1, <3>2
    <2>4. CASE Ends(c) /\ sent' = sent
      BY <2>1, <2>4 DEF Ends
    <2>5. CASE Acquire(c) \/ FirstTimeout(c) \/ RetryInsert(c) \/ FinalTimeout(c)
      BY <2>1, <2>5 DEF Acquire, FirstTimeout, RetryInsert, FinalTimeout
    <2>6. CASE Insert(c) /\ ~Ends(c)
      <3>1. pc[c] = "insert" /\ pc' = [pc EXCEPT ![c] = "emit"] /\ sent' = sent
        BY <2>6 DEF Insert, Finish, Ends, Serving
      <3>. QED
        BY <2>1, <3>1
    <2>7. CASE EmitFails(c) \/ Receive(c) \/ ChannelClosed(c) \/ ReemitFails(c) \/ GiveUp(c)
      <3>1. pc' = [pc EXCEPT ![c] = "idle"] /\ sent' = sent
        BY <2>7 DEF EmitFails, Receive, ChannelClosed, ReemitFails, GiveUp, RemoveAndFinish, Finish
      <3>. QED
        BY <2>1, <3>1
    <2>. QED
      BY <1>3, <2>2, <2>3, <2>4, <2>5, <2>6, <2>7, QuietFrame DEF Handler, Insert
  <1>4. ASSUME NEW c \in Clients, NEW o \in Ops, NEW w \in Windows, Request(c, o, w)
        PROVE  SentInv' /\ sent' \in [Requests -> 0..2]
    <2>1. /\ n' = [n EXCEPT ![c] = n[c] + 1] /\ sent' = sent /\ n[c] < MaxReq
          /\ pc[c] = "idle"
      BY <1>4 DEF Request
    <2>2. pc' \in {pc, [pc EXCEPT ![c] = "insert"], [pc EXCEPT ![c] = "lock"]}
      BY <1>4 DEF Request
    <2>3. <<c, n[c] + 1>> \in Requests /\ sent[<<c, n[c] + 1>>] = 0
      BY <2>1, BoundsAssumption
    <2>. QED
      BY <2>1, <2>2, <2>3
  <1>5. CASE \E w \in Windows : Execute(w) \/ CloseWindow(w)
    BY <1>1, <1>5 DEF Execute, CloseWindow
  <1>6. CASE \E a \in answers : Respond(a)
    BY <1>1, <1>6 DEF Respond
  <1>7. CASE StopDrain \/ Tick
    BY <1>1, <1>7 DEF StopDrain, Tick
  <1>. QED
    BY <1>1, <1>2, <1>3, <1>4, <1>5, <1>6, <1>7 DEF Next

LEMMA HistoryStep ==
    ASSUME BaseInv, Next PROVE HistoryType'
  <1>. USE DEF BaseInv, TypeOK, HistoryType
  <1>1. sent' \in [Requests -> 0..2]
    BY SentStep
  <1>2. CASE UNCHANGED <<ran, reply>>
    BY <1>1, <1>2
  <1>3. CASE (\E c \in Clients : Connection(c)) \/ StopSignal \/ ListenerExits \/ Start
    BY <1>2, <1>3, ConnFrame DEF winVars
  <1>4. ASSUME NEW c \in Clients, Handler(c) PROVE HistoryType'
    <2>1. ran' = ran
      BY <1>4, HandlerFrame
    <2>2. CASE reply' = reply
      BY <1>2, <2>1, <2>2
    <2>3. ASSUME NEW k \in {"ok", "refused", "error"}, Send(c, k) PROVE HistoryType'
      BY <1>1, <2>1, <2>3 DEF Send
    <2>4. CASE Receive(c)
      <3>1. chan[c] \in Kinds
        BY <2>4 DEF Receive
      <3>. QED
        BY <2>3, <2>4, <3>1 DEF Receive
    <2>5. CASE ChannelClosed(c) \/ ReemitFails(c) \/ GiveUp(c)
      BY <2>3, <2>5 DEF ChannelClosed, ReemitFails, GiveUp
    <2>6. CASE Acquire(c) \/ Insert(c) \/ EmitFails(c) \/ FirstTimeout(c) \/ RetryInsert(c) \/ FinalTimeout(c)
      BY <2>2, <2>6 DEF Acquire, Insert, EmitFails, FirstTimeout, RetryInsert, FinalTimeout
    <2>7. CASE Emit(c) \/ Reemit(c)
      BY <2>2, <2>7 DEF Emit, Reemit, EmitTo
    <2>. QED
      BY <1>4, <2>4, <2>5, <2>6, <2>7 DEF Handler
  <1>5. ASSUME NEW c \in Clients, NEW o \in Ops, NEW w \in Windows, Request(c, o, w)
        PROVE  HistoryType'
    <2>1. ran' = ran
      BY <1>5 DEF Request, winVars
    <2>2. reply' = reply \/ reply' = [reply EXCEPT ![<<c, n[c] + 1>>] = "ok"]
      BY <1>5 DEF Request
    <2>. QED
      BY <1>1, <2>1, <2>2
  <1>6. ASSUME NEW w \in Windows, Execute(w) PROVE HistoryType'
    <2>1. /\ Head(queue[w]).req \in Requests
          /\ Head(queue[w]).try \in {1, 2}
      <3>. DEFINE E == [req : Requests, op : Ops, try : 1..2]
      <3>1. queue[w] \in Seq(E) /\ queue[w] # <<>>
        BY <1>6 DEF Execute, WindowType
      <3>2. Head(queue[w]) \in E
        <4>. HIDE DEF E
        <4>. QED
          BY <3>1, QueueFacts
      <3>. QED
        BY <3>2
    <2>2. /\ ran' \in {ran, ran \cup {<<Head(queue[w]).req, Head(queue[w]).try>>}}
          /\ reply' = reply
      BY <1>6 DEF Execute
    <2>. QED
      BY <1>1, <2>1, <2>2
  <1>7. CASE \E w \in Windows : CloseWindow(w)
    BY <1>2, <1>7 DEF CloseWindow
  <1>8. CASE \E a \in answers : Respond(a)
    BY <1>2, <1>8 DEF Respond
  <1>9. CASE StopDrain \/ Tick
    BY <1>2, <1>9 DEF StopDrain, Tick, winVars
  <1>. QED
    BY <1>1, <1>3, <1>4, <1>5, <1>6, <1>7, <1>8, <1>9 DEF Next

LEMMA BaseStep == BaseInv /\ [Next]_vars => BaseInv'
  <1>. SUFFICES ASSUME BaseInv, [Next]_vars PROVE BaseInv'
    OBVIOUS
  <1>1. CASE Next
    BY <1>1, ConnStep, HandlerStep, LockStep, PendingStep, WindowStep, SentStep, HistoryStep
    DEF BaseInv, TypeOK, TableType
  <1>2. CASE UNCHANGED vars
    <2>. USE <1>2 DEF BaseInv, TypeOK, vars
    <2>1. ConnType' /\ HandlerType' /\ TableType' /\ WindowType' /\ HistoryType'
      BY DEF ConnType, HandlerType, TableType, WindowType, HistoryType
    <2>2. LockInv'
      BY DEF LockInv, Writing, Serving
    <2>3. SentInv'
      BY DEF SentInv
    <2>. QED
      BY <2>1, <2>2, <2>3
  <1>. QED
    BY <1>1, <1>2

THEOREM BaseInvariance == Spec => []BaseInv
  BY BaseInit, BaseStep, PTL DEF Spec

\* Every variable keeps its type, in any behaviour and for any constants.
THEOREM TypeCorrect == Spec => []TypeOK
  BY BaseInvariance, PTL DEF BaseInv

\* The write lock does its work: at most one request that is not read-only is
\* between taking the lock and giving it back.
THEOREM WritesAreExclusive == Spec => []WriteExclusion
  <1>1. BaseInv => WriteExclusion
    BY DEF BaseInv, LockInv, WriteExclusion
  <1>. QED
    BY <1>1, BaseInvariance, PTL

-----------------------------------------------------------------------------
(* The pending table and the answers.                                      *)

\* An entry's owner is at the attempt the entry is for and has no value yet;
\* the entry is no older than its owner's wait.
EntryInv(e) ==
    LET c == e.req[1] IN
    /\ e.req = CurReq(c) /\ chan[c] = "empty"
    /\ \/ e.attempt = 1 /\ pc[c] \in {"emit", "wait1", "retry"}
       \/ e.attempt = 2 /\ pc[c] \in {"reemit", "wait2", "giveup"}
    /\ IF pc[c] \in {"emit", "reemit"} THEN e.age = 0 ELSE e.age <= clock[c]

\* A receiver without a value has its entry.
ReceiverInv(c) ==
    pc[c] \in Receiving =>
        \/ chan[c] \in Kinds
        \/ /\ chan[c] = "empty"
           /\ \E e \in pending : e.req = CurReq(c) /\ e.attempt = Attempt(c)

\* What the table and the channels say of one client; before its request is
\* inserted, and after it is over, there is no channel.
OwnInv(c) ==
    /\ \A e \in pending : e.req[1] = c => EntryInv(e)
    /\ ReceiverInv(c)
    /\ pc[c] \in {"idle", "lock", "insert"} => chan[c] = "empty"

TableInv == \A c \in Clients : OwnInv(c)

\* What the table needs: distinct ids, and entries that outlive a wait.
Distinct == UniqueIds /\ Timeout < TTL

-----------------------------------------------------------------------------

LEMMA TableInit == Init => TableInv
  BY DEF Init, TableInv, OwnInv, EntryInv, ReceiverInv

LEMMA EntryFacts ==
    ASSUME BaseInv, TableInv, NEW e \in pending
    PROVE  /\ e \in Entry /\ e.req \in Requests /\ e.req[1] \in Clients
           /\ e.age \in Nat /\ EntryInv(e)
  <1>1. e \in Entry
    BY DEF BaseInv, TypeOK, TableType
  <1>2. e.req \in Requests /\ e.req[1] \in Clients /\ e.age \in Nat
    BY <1>1, BoundsAssumption
  <1>. QED
    BY <1>1, <1>2 DEF TableInv, OwnInv

\* With distinct ids the entries under a client's id are its own.
LEMMA OwnEntries ==
    ASSUME BaseInv, TableInv, Distinct, NEW c \in Clients, pc[c] # "idle"
    PROVE  \A e \in pending : /\ e \in Under(CurId(c)) <=> e.req = CurReq(c)
                              /\ e.req[1] = c <=> e.req = CurReq(c)
  <1>1. CurReq(c) \in Requests
    BY CurReqType
  <1>2. ASSUME NEW e \in pending
        PROVE  /\ e \in Under(CurId(c)) <=> e.req = CurReq(c)
               /\ e.req[1] = c <=> e.req = CurReq(c)
    <2>1. e.req \in Requests /\ EntryInv(e)
      BY EntryFacts
    <2>2. e \in Under(CurId(c)) <=> IdOf[e.req] = IdOf[CurReq(c)]
      BY DEF Under, CurId
    <2>3. IdOf[e.req] = IdOf[CurReq(c)] <=> e.req = CurReq(c)
      BY <1>1, <2>1 DEF Distinct, UniqueIds
    <2>4. e.req[1] = c <=> e.req = CurReq(c)
      BY <2>1 DEF EntryInv
    <2>. QED
      BY <2>2, <2>3, <2>4
  <1>. QED
    BY <1>2

LEMMA NoneStale ==
    ASSUME BaseInv, TableInv, Distinct PROVE Stale = {}
  <1>1. ASSUME NEW e \in pending PROVE ~(e.age >= TTL)
    <2>1. e.req[1] \in Clients /\ e.age \in Nat /\ EntryInv(e)
      BY EntryFacts
    <2>2. clock[e.req[1]] \in 0..Timeout
      BY <2>1 DEF BaseInv, TypeOK, HandlerType
    <2>3. e.age = 0 \/ e.age <= clock[e.req[1]]
      BY <2>1 DEF EntryInv
    <2>. QED
      BY <2>1, <2>2, <2>3, BoundsAssumption DEF Distinct
  <1>. QED
    BY <1>1 DEF Stale

\* Removing a client's own entries closes or feeds no channel but its own.
LEMMA AfterOwn ==
    ASSUME NEW c \in Clients, NEW S, NEW x,
           \A e \in S : e.req = CurReq(c)
    PROVE  /\ After(S, x) \in [Clients -> {After(S, x)[d] : d \in Clients}]
           /\ \A d \in Clients : d # c => After(S, x)[d] = chan[d]
  BY DEF After, Feeds

-----------------------------------------------------------------------------
(* A step of client c that touches no other's channel, clock and entries.  *)

Only(c) ==
    /\ \A d \in Clients : d # c => /\ n'[d] = n[d] /\ pc'[d] = pc[d]
                                   /\ clock'[d] = clock[d] /\ chan'[d] = chan[d]
    /\ \A e \in pending \cup pending' :
          e.req[1] # c => (e \in pending <=> e \in pending')

LEMMA OthersKeep ==
    ASSUME BaseInv, TableInv, NEW c \in Clients, Only(c), OwnInv(c)'
    PROVE  TableInv'
  <1>. SUFFICES ASSUME NEW d \in Clients, d # c PROVE OwnInv(d)'
    BY DEF TableInv
  <1>1. n'[d] = n[d] /\ pc'[d] = pc[d] /\ clock'[d] = clock[d] /\ chan'[d] = chan[d]
    BY DEF Only
  <1>2. OwnInv(d)
    BY DEF TableInv
  <1>3. ASSUME NEW e \in pending', e.req[1] = d PROVE EntryInv(e)'
    <2>1. e \in pending
      BY <1>3 DEF Only
    <2>2. EntryInv(e)
      BY <1>2, <1>3, <2>1 DEF OwnInv
    <2>. QED
      BY <1>1, <1>3, <2>2 DEF EntryInv
  <1>4. ReceiverInv(d)'
    <2>1. SUFFICES ASSUME pc[d] \in Receiving, chan[d] \notin Kinds
                   PROVE  /\ chan[d] = "empty"
                          /\ \E e \in pending' : e.req = CurReq(d)' /\ e.attempt = Attempt(d)'
      BY <1>1 DEF ReceiverInv
    <2>2. PICK e \in pending : e.req = CurReq(d) /\ e.attempt = Attempt(d)
      BY <1>2, <2>1 DEF OwnInv, ReceiverInv
    <2>3. e \in pending'
      BY <2>2 DEF Only
    <2>. QED
      BY <1>1, <1>2, <2>1, <2>2, <2>3 DEF OwnInv, ReceiverInv, Attempt
  <1>. QED
    BY <1>1, <1>2, <1>3, <1>4 DEF OwnInv

\* The steps of a handler that end its request and remove its entry.
LEMMA EndsTable ==
    ASSUME BaseInv, TableInv, Distinct, NEW c \in Clients, pc[c] # "idle", n' = n,
           NEW S, NEW x, \A e \in S : e.req = CurReq(c), Finish(c, After(S, x)),
           pending' = {e \in pending : e.req # CurReq(c)}
    PROVE  TableInv'
  <1>. USE DEF BaseInv, TypeOK, HandlerType
  <1>1. /\ pc' = [pc EXCEPT ![c] = "idle"] /\ clock' = [clock EXCEPT ![c] = 0]
        /\ chan' = [After(S, x) EXCEPT ![c] = "empty"]
    BY DEF Finish
  <1>2. \A e \in pending : e.req[1] = c <=> e.req = CurReq(c)
    BY OwnEntries
  <1>3. Only(c)
    <2>1. \A d \in Clients : d # c => chan'[d] = chan[d]
      BY <1>1, AfterOwn
    <2>. QED
      BY <1>1, <1>2, <2>1 DEF Only
  <1>4. pc'[c] = "idle" /\ chan'[c] = "empty"
    BY <1>1, AfterOwn
  <1>5. OwnInv(c)'
    BY <1>2, <1>4 DEF OwnInv, ReceiverInv
  <1>. QED
    BY <1>3, <1>5, OthersKeep

\* The two steps that put an entry in the table.
LEMMA InsertsTable ==
    ASSUME BaseInv, TableInv, Distinct, NEW c \in Clients, pc[c] # "idle", n' = n,
           NEW k \in {1, 2}, NEW q, q = (IF k = 1 THEN "emit" ELSE "reemit"),
           pc' = [pc EXCEPT ![c] = q], clock' = clock,
           NEW S, \A e \in S : e.req = CurReq(c),
           chan' = [After(S, "closed") EXCEPT ![c] = "empty"],
           pending' = {e \in pending : e.req # CurReq(c)}
                        \cup {[req |-> CurReq(c), attempt |-> k, age |-> 0]}
    PROVE  TableInv'
  <1>. USE DEF BaseInv, TypeOK, HandlerType
  <1>1. \A e \in pending : e.req[1] = c <=> e.req = CurReq(c)
    BY OwnEntries
  <1>. DEFINE new == [req |-> CurReq(c), attempt |-> k, age |-> 0]
  <1>2. new.req = CurReq(c) /\ new.attempt = k /\ new.age = 0 /\ new.req[1] = c
    OBVIOUS
  <1>3. Only(c)
    <2>1. \A d \in Clients : d # c => chan'[d] = chan[d]
      BY AfterOwn
    <2>2. \A e \in pending \cup pending' : e.req[1] # c => (e \in pending <=> e \in pending')
      <3>. HIDE DEF new
      <3>. QED
        BY <1>1, <1>2
    <2>. QED
      BY <2>1, <2>2 DEF Only
  <1>4. pc'[c] = q /\ chan'[c] = "empty" /\ CurReq(c)' = CurReq(c)
    BY AfterOwn
  <1>5. \A e \in pending' : e.req[1] = c => e = new
    BY <1>1
  <1>6. new \in pending'
    OBVIOUS
  <1>7. OwnInv(c)'
    <2>. HIDE DEF new
    <2>1. ASSUME NEW e \in pending', e.req[1] = c PROVE EntryInv(e)'
      BY <1>2, <1>4, <1>5, <2>1 DEF EntryInv
    <2>2. ReceiverInv(c)'
      BY <1>2, <1>4, <1>6 DEF ReceiverInv, Attempt
    <2>. QED
      BY <1>4, <2>1, <2>2 DEF OwnInv
  <1>. QED
    BY <1>3, <1>7, OthersKeep

LEMMA TableHandlerStep ==
    ASSUME BaseInv, TableInv, Distinct, NEW c \in Clients, Handler(c)
    PROVE  TableInv'
  <1>. USE DEF BaseInv, TypeOK, HandlerType
  <1>1. n' = n
    BY HandlerFrame DEF reqVars
  <1>2. OwnInv(c)
    BY DEF TableInv
  <1>3. pc[c] # "idle" => pending \ Under(CurId(c)) = {e \in pending : e.req # CurReq(c)}
    BY OwnEntries
  <1>4. pc[c] # "idle" => \A e \in Under(CurId(c)) : e.req = CurReq(c)
    BY OwnEntries DEF Under
  <1>5. CASE Acquire(c)
    <2>1. Only(c)
      BY <1>1, <1>5 DEF Acquire, Only
    <2>2. OwnInv(c)'
      BY <1>1, <1>2, <1>5 DEF Acquire, OwnInv, EntryInv, ReceiverInv
    <2>. QED
      BY <2>1, <2>2, OthersKeep
  <1>6. CASE Insert(c)
    <2>1. Stale = {} /\ pending \ Stale = pending /\ pc[c] = "insert"
      BY <1>6, NoneStale DEF Insert
    <2>2. CASE TableFull
      <3>1. Finish(c, After({}, "closed")) /\ pending' = pending
        BY <1>6, <2>1, <2>2 DEF Insert
      <3>2. \A e \in pending : e.req # CurReq(c)
        BY <1>2, <2>1 DEF OwnInv, EntryInv
      <3>. QED
        BY <1>1, <2>1, <3>1, <3>2, EndsTable
    <2>3. CASE ~TableFull
      <3>1. /\ pending' = {e \in pending : e.req # CurReq(c)}
                            \cup {[req |-> CurReq(c), attempt |-> 1, age |-> 0]}
            /\ chan' = [After(Under(CurId(c)), "closed") EXCEPT ![c] = "empty"]
            /\ pc' = [pc EXCEPT ![c] = "emit"] /\ clock' = clock
        BY <1>3, <1>6, <2>1, <2>3 DEF Insert
      <3>. QED
        BY <1>1, <1>4, <2>1, <3>1, InsertsTable
    <2>. QED
      BY <2>2, <2>3
  <1>7. CASE RetryInsert(c)
    <2>1. /\ pc[c] = "retry" /\ pc' = [pc EXCEPT ![c] = "reemit"] /\ clock' = clock
          /\ chan' = [After(Under(CurId(c)), "closed") EXCEPT ![c] = "empty"]
          /\ pending' = {e \in pending : e.req # CurReq(c)}
                          \cup {[req |-> CurReq(c), attempt |-> 2, age |-> 0]}
      BY <1>3, <1>7 DEF RetryInsert
    <2>2. "reemit" = (IF 2 = 1 THEN "emit" ELSE "reemit") /\ 2 \in {1, 2}
      OBVIOUS
    <2>. QED
      BY <1>1, <1>4, <2>1, <2>2, InsertsTable
  <1>8. CASE EmitFails(c) \/ ChannelClosed(c) \/ ReemitFails(c) \/ GiveUp(c)
    <2>1. pc[c] # "idle" /\ RemoveAndFinish(c)
      BY <1>8 DEF EmitFails, ChannelClosed, ReemitFails, GiveUp
    <2>. QED
      BY <1>1, <1>3, <1>4, <2>1, EndsTable DEF RemoveAndFinish
  <1>9. CASE Receive(c)
    <2>1. /\ pc[c] \in Waiting /\ chan[c] \in Kinds /\ pending' = pending
          /\ Finish(c, chan)
      BY <1>9 DEF Receive
    <2>2. chan = After({}, "closed")
      BY DEF After
    <2>3. pending' = {e \in pending : e.req # CurReq(c)}
      BY <1>2, <2>1 DEF OwnInv, EntryInv
    <2>4. Finish(c, After({}, "closed"))
      BY <2>1, <2>2
    <2>5. pc[c] # "idle" /\ \A e \in {} : e.req = CurReq(c)
      BY <2>1
    <2>. QED
      <3>. HIDE DEF BaseInv, TypeOK, HandlerType
      <3>. QED
        BY <1>1, <2>3, <2>4, <2>5, EndsTable
  <1>10. ASSUME \/ EmitTo(c, "wait1") /\ pc[c] = "emit"
                \/ EmitTo(c, "wait2") /\ pc[c] = "reemit"
         PROVE  TableInv'
    <2>1. /\ pc'[c] = (IF pc[c] = "emit" THEN "wait1" ELSE "wait2")
          /\ clock'[c] = 0 /\ chan' = chan /\ pending' = pending
          /\ \A d \in Clients : d # c => pc'[d] = pc[d] /\ clock'[d] = clock[d]
      BY <1>10 DEF EmitTo
    <2>2. Only(c)
      BY <1>1, <2>1 DEF Only
    <2>3. ASSUME NEW e \in pending', e.req[1] = c PROVE EntryInv(e)'
      <3>1. EntryInv(e)
        BY <1>2, <2>1, <2>3 DEF OwnInv
      <3>. QED
        BY <1>1, <1>10, <2>1, <2>3, <3>1 DEF EntryInv
    <2>4. ReceiverInv(c)'
      BY <1>1, <1>2, <1>10, <2>1 DEF OwnInv, ReceiverInv, Attempt
    <2>5. OwnInv(c)'
      BY <1>10, <2>1, <2>3, <2>4 DEF OwnInv
    <2>. QED
      BY <2>2, <2>5, OthersKeep
  <1>11. CASE FirstTimeout(c) \/ FinalTimeout(c)
    <2>1. /\ \/ pc[c] = "wait1" /\ pc' = [pc EXCEPT ![c] = "retry"]
             \/ pc[c] = "wait2" /\ pc' = [pc EXCEPT ![c] = "giveup"]
          /\ clock' = clock /\ chan' = chan /\ pending' = pending
      BY <1>11 DEF FirstTimeout, FinalTimeout
    <2>2. Only(c)
      BY <1>1, <2>1 DEF Only
    <2>3. ASSUME NEW e \in pending', e.req[1] = c PROVE EntryInv(e)'
      <3>1. EntryInv(e)
        BY <1>2, <2>1, <2>3 DEF OwnInv
      <3>. QED
        BY <1>1, <2>1, <2>3, <3>1 DEF EntryInv
    <2>4. OwnInv(c)'
      BY <2>1, <2>3 DEF OwnInv, ReceiverInv
    <2>. QED
      BY <2>2, <2>4, OthersKeep
  <1>. QED
    <2>1. CASE Emit(c) \/ Reemit(c)
      BY <1>10, <2>1 DEF Emit, Reemit
    <2>. QED
      BY <1>5, <1>6, <1>7, <1>8, <1>9, <1>11, <2>1 DEF Handler

\* The senders in S, all that a set of ids covers, send x and leave the table.
LEMMA SendersGo ==
    ASSUME BaseInv, TableInv, NEW S \in SUBSET pending, NEW x \in Kinds,
           \A e \in pending, f \in S : e.req = f.req => e \in S,
           pending' = pending \ S, chan' = After(S, x),
           n' = n, pc' = pc, clock' = clock
    PROVE  TableInv'
  <1>. SUFFICES ASSUME NEW c \in Clients PROVE OwnInv(c)'
    BY DEF TableInv
  <1>1. OwnInv(c)
    BY DEF TableInv
  <1>2. chan'[c] = (IF \E e \in S : Feeds(e, c) THEN x ELSE chan[c])
    BY DEF After
  <1>3. ASSUME NEW e \in pending', e.req[1] = c PROVE EntryInv(e)'
    <2>1. e \in pending /\ e \notin S /\ EntryInv(e)
      BY <1>1, <1>3 DEF OwnInv
    <2>2. ~ \E f \in S : Feeds(f, c)
      BY <1>3, <2>1 DEF Feeds, EntryInv
    <2>. QED
      BY <1>2, <1>3, <2>1, <2>2 DEF EntryInv
  <1>4. ReceiverInv(c)'
    <2>1. SUFFICES ASSUME pc[c] \in Receiving, chan'[c] \notin Kinds
                   PROVE  /\ chan'[c] = "empty"
                          /\ \E e \in pending' : e.req = CurReq(c) /\ e.attempt = Attempt(c)
      BY DEF ReceiverInv, Attempt
    <2>2. ~(\E f \in S : Feeds(f, c)) /\ chan'[c] = chan[c]
      BY <1>2, <2>1
    <2>3. chan[c] = "empty" /\ \E e \in pending : e.req = CurReq(c) /\ e.attempt = Attempt(c)
      BY <1>1, <2>1, <2>2 DEF OwnInv, ReceiverInv
    <2>. QED
      BY <2>1, <2>2, <2>3 DEF Feeds
  <1>5. pc[c] \in {"idle", "lock", "insert"} => chan'[c] = "empty"
    BY <1>1, <1>2 DEF OwnInv, Feeds
  <1>. QED
    BY <1>3, <1>4, <1>5 DEF OwnInv

LEMMA TableTick ==
    ASSUME BaseInv, TableInv, Tick PROVE TableInv'
  <1>. SUFFICES ASSUME NEW c \in Clients PROVE OwnInv(c)'
    BY DEF TableInv
  <1>. DEFINE Older(e) == [e EXCEPT !.age = IF @ < TTL THEN @ + 1 ELSE TTL]
  <1>1. OwnInv(c) /\ Idle(c)
    BY DEF TableInv, Tick
  <1>2. /\ n' = n /\ pc' = pc /\ chan' = chan
        /\ clock'[c] = (IF pc[c] \in Waiting THEN clock[c] + 1 ELSE clock[c])
        /\ pending' = {Older(e) : e \in pending}
    BY DEF Tick, reqVars
  <1>3. ASSUME NEW e \in pending
        PROVE  /\ Older(e).req = e.req /\ Older(e).attempt = e.attempt
               /\ Older(e).age <= e.age + 1
    <2>1. e \in Entry
      BY EntryFacts
    <2>. QED
      BY <2>1, BoundsAssumption
  <1>4. ASSUME NEW f \in pending', f.req[1] = c PROVE EntryInv(f)'
    <2>1. PICK e \in pending : f = Older(e)
      BY <1>2
    <2>2. e.req = f.req /\ e.attempt = f.attempt /\ f.age <= e.age + 1
      BY <1>3, <2>1
    <2>3. EntryInv(e) /\ e.age \in Nat /\ e.req[1] = c
      BY <1>4, <2>2, EntryFacts
    <2>4. pc[c] \in Waiting /\ clock[c] \in Nat
      BY <1>1, <2>3, BoundsAssumption DEF EntryInv, Idle, BaseInv, TypeOK, HandlerType
    <2>5. f.age \in Nat
      BY <2>1, EntryFacts, BoundsAssumption
    <2>. HIDE DEF Older
    <2>. QED
      BY <1>2, <2>2, <2>3, <2>4, <2>5 DEF EntryInv
  <1>. HIDE DEF Older
  <1>5. ReceiverInv(c)'
    BY <1>1, <1>2, <1>3 DEF OwnInv, ReceiverInv, Attempt
  <1>. QED
    BY <1>1, <1>2, <1>4, <1>5 DEF OwnInv

LEMMA TableStep ==
    ASSUME BaseInv, TableInv, Distinct, [Next]_vars PROVE TableInv'
  <1>1. CASE UNCHANGED <<n, pc, clock, chan, pending>>
    BY <1>1 DEF TableInv, OwnInv, EntryInv, ReceiverInv, Attempt
  <1>2. CASE (\E c \in Clients : Connection(c)) \/ StopSignal \/ ListenerExits \/ Start
    BY <1>1, <1>2, ConnFrame DEF reqVars
  <1>3. CASE \E c \in Clients : Handler(c)
    BY <1>3, TableHandlerStep
  <1>4. ASSUME NEW c \in Clients, NEW o \in Ops, NEW w \in Windows, Request(c, o, w)
        PROVE  TableInv'
    <2>1. /\ pc[c] = "idle" /\ pc'[c] \in {"idle", "lock", "insert"}
          /\ UNCHANGED <<clock, chan, pending>>
          /\ \A d \in Clients : d # c => n'[d] = n[d] /\ pc'[d] = pc[d]
      BY <1>4 DEF Request, BaseInv, TypeOK, HandlerType
    <2>2. Only(c)
      BY <2>1 DEF Only
    <2>3. OwnInv(c)
      BY DEF TableInv
    <2>4. \A e \in pending' : e.req[1] # c
      BY <2>1, <2>3 DEF OwnInv, EntryInv
    <2>5. OwnInv(c)'
      BY <2>1, <2>3, <2>4 DEF OwnInv, ReceiverInv
    <2>. QED
      BY <2>2, <2>5, OthersKeep
  <1>5. CASE \E w \in Windows : Execute(w) \/ CloseWindow(w)
    BY <1>1, <1>5 DEF Execute, CloseWindow, reqVars
  <1>6. ASSUME NEW a \in answers, Respond(a) PROVE TableInv'
    <2>1. a.kind \in Kinds
      BY DEF BaseInv, TypeOK, WindowType
    <2>2. \A e \in pending, f \in Under(IdOf[a.req]) : e.req = f.req => e \in Under(IdOf[a.req])
      BY DEF Under
    <2>3. Under(IdOf[a.req]) \in SUBSET pending
      BY DEF Under
    <2>. QED
      BY <1>6, <2>1, <2>2, <2>3, SendersGo DEF Respond, reqVars
  <1>7. CASE StopDrain
    <2>1. pending' = pending \ pending /\ chan' = After(pending, "stopped")
          /\ n' = n /\ pc' = pc /\ clock' = clock
      BY <1>7 DEF StopDrain, reqVars
    <2>2. \A e \in pending, f \in pending : e.req = f.req => e \in pending
      OBVIOUS
    <2>. QED
      BY <2>1, <2>2, SendersGo
  <1>8. CASE Tick
    BY <1>8, TableTick
  <1>9. CASE UNCHANGED vars
    BY <1>1, <1>9 DEF vars
  <1>. QED
    BY <1>2, <1>3, <1>4, <1>5, <1>6, <1>7, <1>8, <1>9 DEF Next

THEOREM TableInvariance ==
    ASSUME Distinct PROVE Spec => [](BaseInv /\ TableInv)
  <1>1. Init => BaseInv /\ TableInv
    BY BaseInit, TableInit
  <1>2. BaseInv /\ TableInv /\ [Next]_vars => (BaseInv /\ TableInv)'
    BY BaseStep, TableStep
  <1>. QED
    BY <1>1, <1>2, PTL DEF Spec

\* No return path of handle_message leaves its entry in the table: whatever
\* arrives late, times out or is stopped, each entry belongs to the request its
\* client is serving and to its attempt (server.rs:509-686).
THEOREM EntriesHaveServers ==
    ASSUME Distinct PROVE Spec => []PendingHasServer
  <1>1. BaseInv /\ TableInv => PendingHasServer
    BY EntryFacts DEF PendingHasServer, EntryInv
  <1>. QED
    BY <1>1, TableInvariance, PTL

\* No wake-up is lost: a handler that still receives has its answer or has its
\* sender in the table, where mcp_bridge_respond finds it.
THEOREM ReceiversHaveSenders ==
    ASSUME Distinct PROVE Spec => []ReceiverHasSender
  <1>1. BaseInv /\ TableInv => ReceiverHasSender
    BY DEF TableInv, OwnInv, ReceiverInv, ReceiverHasSender, Feeds
  <1>. QED
    BY <1>1, TableInvariance, PTL

-----------------------------------------------------------------------------
(* What clients are told, and that the bridge is a RequestService. *)

\* A request has no reply before it is over, and one if it was emitted.
ReplyInv ==
    /\ \A c \in Clients : pc[c] # "idle" => reply[CurReq(c)] = "none"
    /\ \A r \in Requests : n[r[1]] < r[2] => reply[r] = "none"
    /\ EmittedIsAnswered

\* The handler steps by what they do to the replies.
KeepsReply(c) ==
    /\ pc[c] # "idle" /\ \E p \in {"lock"} \cup InService : pc' = [pc EXCEPT ![c] = p]
    /\ reply' = reply
    /\ \A r \in Requests : r # CurReq(c) => sent'[r] = sent[r]
EndsUnsent(c) ==
    /\ pc[c] \in {"insert", "emit"} /\ pc' = [pc EXCEPT ![c] = "idle"]
    /\ UNCHANGED <<reply, sent>>
EndsTold(c) ==
    /\ pc[c] # "idle" /\ pc' = [pc EXCEPT ![c] = "idle"]
    /\ \E k \in {"refused", "error"} \cup (IF chan[c] = "ok" THEN {"ok"} ELSE {}) : Send(c, k)
    /\ UNCHANGED sent

LEMMA ReplyShape ==
    ASSUME BaseInv, NEW c \in Clients, Handler(c)
    PROVE  KeepsReply(c) \/ EndsUnsent(c) \/ EndsTold(c)
  <1>1. CASE Acquire(c) \/ FirstTimeout(c) \/ RetryInsert(c) \/ FinalTimeout(c)
    BY <1>1 DEF Acquire, FirstTimeout, RetryInsert, FinalTimeout, KeepsReply
  <1>2. CASE Emit(c) \/ Reemit(c)
    <2>1. /\ pc[c] # "idle" /\ reply' = reply
          /\ sent' = [sent EXCEPT ![CurReq(c)] = @ + 1]
          /\ \E p \in InService : pc' = [pc EXCEPT ![c] = p]
      BY <1>2 DEF Emit, Reemit, EmitTo
    <2>2. sent \in [Requests -> 0..2]
      BY DEF BaseInv, TypeOK, HistoryType
    <2>. QED
      BY <2>1, <2>2 DEF KeepsReply
  <1>3. CASE Insert(c)
    BY <1>3 DEF Insert, Finish, KeepsReply, EndsUnsent
  <1>4. CASE EmitFails(c)
    BY <1>4 DEF EmitFails, RemoveAndFinish, Finish, EndsUnsent
  <1>5. CASE Receive(c)
    BY <1>5 DEF Receive, Finish, EndsTold
  <1>6. CASE ChannelClosed(c) \/ ReemitFails(c) \/ GiveUp(c)
    BY <1>6 DEF ChannelClosed, ReemitFails, GiveUp, RemoveAndFinish, Finish, EndsTold
  <1>. QED
    BY <1>1, <1>2, <1>3, <1>4, <1>5, <1>6 DEF Handler

\* The request a client is about to make.
LEMMA NewRequest ==
    ASSUME BaseInv, ReplyInv, NEW c \in Clients, n[c] < MaxReq
    PROVE  /\ <<c, n[c] + 1>> \in Requests
           /\ sent[<<c, n[c] + 1>>] = 0 /\ reply[<<c, n[c] + 1>>] = "none"
  <1>1. n[c] + 1 \in 1..MaxReq /\ n[c] < n[c] + 1
    BY BoundsAssumption DEF BaseInv, TypeOK, HandlerType
  <1>2. PICK r \in Requests : r = <<c, n[c] + 1>>
    BY <1>1
  <1>3. n[r[1]] < r[2]
    BY <1>1, <1>2
  <1>4. sent[r] = 0 /\ reply[r] = "none"
    BY <1>3 DEF BaseInv, SentInv, ReplyInv
  <1>. QED
    BY <1>1, <1>2, <1>4

LEMMA ReplyStep ==
    ASSUME BaseInv, ReplyInv, [Next]_vars PROVE ReplyInv'
  <1>. USE DEF BaseInv, TypeOK, HandlerType, HistoryType, ReplyInv, EmittedIsAnswered, Finished
  <1>1. CASE UNCHANGED <<n, pc, sent, reply>>
    BY <1>1
  <1>2. CASE (\E c \in Clients : Connection(c)) \/ StopSignal \/ ListenerExits \/ Start
    BY <1>1, <1>2, ConnFrame DEF reqVars
  <1>3. ASSUME NEW c \in Clients, Handler(c) PROVE ReplyInv'
    <2>1. n' = n
      BY <1>3, HandlerFrame DEF reqVars
    <2>2. CASE KeepsReply(c)
      BY <2>1, <2>2 DEF KeepsReply
    <2>3. CASE EndsUnsent(c)
      <3>1. sent[CurReq(c)] = 0
        BY <2>3 DEF EndsUnsent, SentInv
      <3>. QED
        BY <2>1, <2>3, <3>1 DEF EndsUnsent
    <2>4. CASE EndsTold(c)
      <3>1. CurReq(c) \in Requests
        BY <2>4, CurReqType DEF EndsTold
      <3>2. PICK k \in {"refused", "error", "ok"} : reply' = [reply EXCEPT ![CurReq(c)] = k]
        BY <2>4 DEF EndsTold, Send
      <3>. QED
        BY <2>1, <2>4, <3>1, <3>2 DEF EndsTold
    <2>. QED
      BY <1>3, <2>2, <2>3, <2>4, ReplyShape
  <1>4. ASSUME NEW c \in Clients, NEW o \in Ops, NEW w \in Windows, Request(c, o, w)
        PROVE  ReplyInv'
    <2>. DEFINE new == <<c, n[c] + 1>>
    <2>1. /\ n' = [n EXCEPT ![c] = n[c] + 1] /\ sent' = sent /\ n[c] < MaxReq
          /\ pc[c] = "idle"
          /\ pc' \in {pc, [pc EXCEPT ![c] = "insert"], [pc EXCEPT ![c] = "lock"]}
          /\ reply' = reply \/ (pc' = pc /\ reply' = [reply EXCEPT ![new] = "ok"])
      BY <1>4 DEF Request
    <2>2. new \in Requests /\ sent[new] = 0 /\ reply[new] = "none"
      BY <2>1, NewRequest
    <2>3. ASSUME NEW d \in Clients, pc'[d] # "idle" PROVE reply'[CurReq(d)'] = "none"
      <3>1. CASE d = c
        <4>1. CurReq(d)' = new /\ reply' = reply
          BY <2>1, <2>3, <3>1
        <4>. QED
          BY <2>2, <4>1
      <3>2. CASE d # c
        <4>1. CurReq(d)' = CurReq(d) /\ CurReq(d) # new
          BY <2>1, <3>2
        <4>2. pc'[d] = pc[d]
          BY <2>1, <3>2
        <4>3. reply[CurReq(d)] = "none" /\ CurReq(d) \in Requests
          BY <2>3, <4>2, CurReqType
        <4>. QED
          BY <2>1, <4>1, <4>3
      <3>. QED
        BY <3>1, <3>2
    <2>4. ASSUME NEW r \in Requests, n'[r[1]] < r[2] PROVE reply'[r] = "none"
      BY <2>1, <2>2, <2>4
    <2>5. ASSUME NEW r \in Requests, Finished(r)', sent'[r] > 0 PROVE reply'[r] # "none"
      <3>1. r # new
        BY <2>1, <2>2, <2>5
      <3>2. Finished(r)
        BY <2>1, <2>5, <3>1, BoundsAssumption
      <3>. QED
        BY <2>1, <2>5, <3>1, <3>2
    <2>. QED
      BY <2>3, <2>4, <2>5
  <1>5. CASE \E w \in Windows : Execute(w) \/ CloseWindow(w)
    BY <1>1, <1>5 DEF Execute, CloseWindow, reqVars
  <1>6. CASE \E a \in answers : Respond(a)
    BY <1>1, <1>6 DEF Respond, reqVars
  <1>7. CASE StopDrain \/ Tick
    BY <1>1, <1>7 DEF StopDrain, Tick, reqVars
  <1>8. CASE UNCHANGED vars
    BY <1>1, <1>8 DEF vars
  <1>. QED
    BY <1>2, <1>3, <1>4, <1>5, <1>6, <1>7, <1>8 DEF Next

\* Whatever the ids are, a request whose event was emitted is answered.
THEOREM EmittedAreAnswered == Spec => []EmittedIsAnswered
  <1>1. Init => ReplyInv
    BY DEF Init, ReplyInv, EmittedIsAnswered, Finished
  <1>2. BaseInv /\ ReplyInv /\ [Next]_vars => ReplyInv'
    BY ReplyStep
  <1>3. ReplyInv => EmittedIsAnswered
    BY DEF ReplyInv
  <1>. QED
    BY <1>1, <1>2, <1>3, BaseInvariance, PTL DEF Spec

-----------------------------------------------------------------------------
(* "ok" means executed.                                                    *)

OkInv ==
    /\ \A a \in answers : a.kind = "ok" => Ran(a.req)
    /\ \A c \in Clients : chan[c] = "ok" => Ran(CurReq(c))
    /\ OkMeansExecuted

LEMMA OkHandlerStep ==
    ASSUME BaseInv, TableInv, ReplyInv, OkInv, NEW c \in Clients, Handler(c)
    PROVE  OkInv'
  <1>. USE DEF BaseInv, TypeOK, HandlerType, HistoryType
  <1>1. n' = n /\ ran' = ran /\ answers' = answers
    BY HandlerFrame DEF reqVars
  <1>2. \A d \in Clients : chan'[d] = "ok" => chan[d] = "ok"
    <2>1. ASSUME NEW S, chan' = [After(S, "closed") EXCEPT ![c] = "empty"]
          PROVE  \A d \in Clients : chan'[d] = "ok" => chan[d] = "ok"
      BY <2>1 DEF After
    <2>2. CASE UNCHANGED chan
      BY <2>2
    <2>3. CASE Acquire(c) \/ Emit(c) \/ FirstTimeout(c) \/ Reemit(c) \/ FinalTimeout(c)
      BY <2>2, <2>3 DEF Acquire, Emit, FirstTimeout, Reemit, FinalTimeout, EmitTo
    <2>4. CASE Insert(c)
      BY <2>1, <2>4 DEF Insert, Finish
    <2>5. CASE EmitFails(c) \/ ChannelClosed(c) \/ ReemitFails(c) \/ GiveUp(c)
      BY <2>1, <2>5 DEF EmitFails, ChannelClosed, ReemitFails, GiveUp, RemoveAndFinish, Finish
    <2>6. CASE Receive(c)
      BY <2>6 DEF Receive, Finish
    <2>7. CASE RetryInsert(c)
      BY <2>1, <2>7 DEF RetryInsert
    <2>. QED
      BY <2>3, <2>4, <2>5, <2>6, <2>7 DEF Handler
  <1>3. OkMeansExecuted'
    <2>1. CASE KeepsReply(c)
      <3>1. reply' = reply /\ reply[CurReq(c)] = "none"
            /\ \A r \in Requests : r # CurReq(c) => sent'[r] = sent[r]
        BY <2>1 DEF KeepsReply, ReplyInv
      <3>. QED
        BY <1>1, <3>1 DEF OkInv, OkMeansExecuted, Ran
    <2>2. CASE EndsUnsent(c)
      BY <1>1, <2>2 DEF EndsUnsent, OkInv, OkMeansExecuted, Ran
    <2>3. CASE EndsTold(c)
      <3>1. CurReq(c) \in Requests
        BY <2>3, CurReqType DEF EndsTold
      <3>2. PICK k \in {"refused", "error"} \cup (IF chan[c] = "ok" THEN {"ok"} ELSE {}) :
                reply' = [reply EXCEPT ![CurReq(c)] = k]
        BY <2>3 DEF EndsTold, Send
      <3>3. k = "ok" => Ran(CurReq(c))
        BY <3>2 DEF OkInv
      <3>. QED
        BY <1>1, <2>3, <3>1, <3>2, <3>3 DEF EndsTold, OkInv, OkMeansExecuted, Ran
    <2>. QED
      BY <2>1, <2>2, <2>3, ReplyShape
  <1>. QED
    BY <1>1, <1>2, <1>3 DEF OkInv, Ran

LEMMA OkStep ==
    ASSUME BaseInv, TableInv, Distinct, ReplyInv, OkInv, [Next]_vars
    PROVE  OkInv'
  <1>. USE DEF OkInv, OkMeansExecuted, Ran
  <1>1. CASE UNCHANGED <<n, chan, answers, ran, sent, reply>>
    BY <1>1
  <1>2. CASE (\E c \in Clients : Connection(c)) \/ StopSignal \/ ListenerExits \/ Start
    BY <1>1, <1>2, ConnFrame DEF reqVars, winVars
  <1>3. CASE \E c \in Clients : Handler(c)
    BY <1>3, OkHandlerStep
  <1>4. ASSUME NEW c \in Clients, NEW o \in Ops, NEW w \in Windows, Request(c, o, w)
        PROVE  OkInv'
    <2>. DEFINE new == <<c, n[c] + 1>>
    <2>1. /\ n' = [n EXCEPT ![c] = n[c] + 1] /\ UNCHANGED <<chan, answers, ran, sent>>
          /\ n[c] < MaxReq /\ pc[c] = "idle"
          /\ reply' = reply \/ reply' = [reply EXCEPT ![new] = "ok"]
      BY <1>4 DEF Request, winVars
    <2>2. new \in Requests /\ sent[new] = 0
      BY <2>1, NewRequest
    <2>3. chan[c] = "empty"
      BY <2>1 DEF TableInv, OwnInv
    <2>4. \A d \in Clients : chan'[d] = "ok" => Ran(CurReq(d))'
      BY <2>1, <2>3 DEF BaseInv, TypeOK, HandlerType
    <2>5. OkMeansExecuted'
      BY <2>1, <2>2 DEF BaseInv, TypeOK, HistoryType
    <2>. QED
      BY <2>1, <2>4, <2>5
  <1>5. ASSUME NEW w \in Windows, Execute(w) PROVE OkInv'
    <2>. DEFINE e == Head(queue[w])
    <2>1. UNCHANGED <<n, chan, sent, reply>> /\ ran \subseteq ran'
      BY <1>5 DEF Execute, reqVars
    <2>2. \A a \in answers' : a \in answers \/ a.kind = "refused"
                              \/ (a.req = e.req /\ <<e.req, e.try>> \in ran')
      BY <1>5 DEF Execute
    <2>3. e.try \in {1, 2}
      <3>. DEFINE E == [req : Requests, op : Ops, try : 1..2]
      <3>1. queue[w] \in Seq(E) /\ queue[w] # <<>>
        BY <1>5 DEF Execute, BaseInv, TypeOK, WindowType
      <3>2. e \in E
        <4>. HIDE DEF E
        <4>. QED
          BY <3>1, QueueFacts
      <3>. QED
        BY <3>2
    <2>. HIDE DEF e
    <2>4. \A a \in answers' : a.kind = "ok" => Ran(a.req)'
      BY <2>1, <2>2, <2>3
    <2>5. \A c \in Clients : chan'[c] = "ok" => Ran(CurReq(c))'
      BY <2>1
    <2>6. OkMeansExecuted'
      BY <2>1
    <2>. QED
      BY <2>4, <2>5, <2>6
  <1>6. CASE \E w \in Windows : CloseWindow(w)
    BY <1>1, <1>6 DEF CloseWindow, reqVars
  <1>7. ASSUME NEW a \in answers, Respond(a) PROVE OkInv'
    <2>1. UNCHANGED <<n, ran, sent, reply>> /\ answers' \subseteq answers
          /\ chan' = After(Under(IdOf[a.req]), a.kind)
      BY <1>7 DEF Respond, reqVars
    <2>2. ASSUME NEW c \in Clients, chan'[c] = "ok" PROVE Ran(CurReq(c))
      <3>1. CASE chan[c] = "ok"
        BY <3>1
      <3>2. CASE chan[c] # "ok"
        <4>1. PICK e \in Under(IdOf[a.req]) : Feeds(e, c) /\ a.kind = "ok"
          BY <2>1, <2>2, <3>2 DEF After
        <4>2. e \in pending /\ IdOf[e.req] = IdOf[a.req] /\ e.req = CurReq(c)
          BY <4>1 DEF Under, Feeds
        <4>3. e.req \in Requests /\ a.req \in Requests
          BY <4>2, EntryFacts DEF BaseInv, TypeOK, WindowType
        <4>4. e.req = a.req
          BY <4>2, <4>3 DEF Distinct, UniqueIds
        <4>. QED
          BY <4>1, <4>2, <4>4
      <3>. QED
        BY <3>1, <3>2
    <2>. QED
      BY <2>1, <2>2
  <1>8. CASE StopDrain
    BY <1>8 DEF StopDrain, After, reqVars, winVars
  <1>9. CASE Tick
    BY <1>1, <1>9 DEF Tick, reqVars, winVars
  <1>10. CASE UNCHANGED vars
    BY <1>1, <1>10 DEF vars
  <1>. QED
    BY <1>2, <1>3, <1>4, <1>5, <1>6, <1>7, <1>8, <1>9, <1>10 DEF Next

FullInv == BaseInv /\ TableInv /\ ReplyInv /\ OkInv

THEOREM FullInvariance ==
    ASSUME Distinct PROVE Spec => []FullInv
  <1>1. Init => FullInv
    <2>. SUFFICES ASSUME Init PROVE FullInv
      OBVIOUS
    <2>1. ReplyInv
      BY DEF Init, ReplyInv, EmittedIsAnswered, Finished
    <2>2. OkInv
      BY DEF Init, OkInv, OkMeansExecuted
    <2>. QED
      BY <2>1, <2>2, BaseInit, TableInit DEF FullInv
  <1>2. FullInv /\ [Next]_vars => FullInv'
    BY BaseStep, TableStep, ReplyStep, OkStep DEF FullInv
  <1>. QED
    BY <1>1, <1>2, PTL DEF Spec

\* With distinct ids an "ok" from a window is for that very request.
THEOREM OkAnswersAreTrue ==
    ASSUME Distinct PROVE Spec => []OkMeansExecuted
  <1>1. FullInv => OkMeansExecuted
    BY DEF FullInv, OkInv
  <1>. QED
    BY <1>1, FullInvariance, PTL

-----------------------------------------------------------------------------
(* The bridge implements RequestService.                                   *)

\* An event in a window's queue is of a request that has been emitted.
QueueInv ==
    \A w \in Windows : \A k \in 1..Len(queue[w]) : sent[queue[w][k].req] > 0

Event == [req : Requests, op : Ops, try : 1..2]

LEMMA QueueType ==
    ASSUME BaseInv, NEW w \in Windows
    PROVE  /\ queue[w] \in Seq(Event)
           /\ \A k \in 1..Len(queue[w]) : queue[w][k].req \in Requests
           /\ queue[w] # <<>> =>
                /\ Head(queue[w]) = queue[w][1] /\ 1 \in 1..Len(queue[w])
                /\ Head(queue[w]).req \in Requests /\ Head(queue[w]).try \in {1, 2}
                /\ Tail(queue[w]) \in Seq(Event)
                /\ \A k \in 1..Len(Tail(queue[w])) :
                      k + 1 \in 1..Len(queue[w]) /\ Tail(queue[w])[k] = queue[w][k + 1]
  <1>1. queue[w] \in Seq(Event)
    BY DEF BaseInv, TypeOK, WindowType, Event
  <1>2. \A e \in Event : e.req \in Requests /\ e.try \in {1, 2}
    BY DEF Event
  <1>3. queue[w] # <<>> => Head(queue[w]) \in Event
    BY <1>1, QueueFacts
  <1>4. \A k \in 1..Len(queue[w]) : queue[w][k] \in Event
    BY <1>1
  <1>. QED
    BY <1>1, <1>2, <1>3, <1>4, QueueFacts

LEMMA QueueStep ==
    ASSUME BaseInv, QueueInv, [Next]_vars PROVE QueueInv'
  <1>1. CASE UNCHANGED <<queue, sent>>
    BY <1>1 DEF QueueInv
  <1>2. CASE (\E c \in Clients : Connection(c)) \/ StopSignal \/ ListenerExits \/ Start
    BY <1>1, <1>2, ConnFrame DEF winVars
  <1>3. ASSUME NEW c \in Clients, Handler(c) PROVE QueueInv'
    <2>1. CASE Emit(c) \/ Reemit(c)
      <3>. DEFINE e == [req |-> CurReq(c), op |-> op[c], try |-> sent[CurReq(c)] + 1]
      <3>1. /\ queue' = [queue EXCEPT ![win[c]] = Append(queue[win[c]], e)]
            /\ sent' = [sent EXCEPT ![CurReq(c)] = sent[CurReq(c)] + 1]
            /\ pc[c] # "idle"
        BY <2>1 DEF Emit, Reemit, EmitTo
      <3>2. CurReq(c) \in Requests /\ sent \in [Requests -> 0..2] /\ e.req = CurReq(c)
        BY <3>1, CurReqType DEF BaseInv, TypeOK, HistoryType
      <3>3. \A r \in Requests : sent'[r] >= sent[r] /\ sent[r] \in Nat /\ sent'[r] \in Nat
        BY <3>1, <3>2
      <3>4. sent'[e.req] > 0
        BY <3>1, <3>2
      <3>5. ASSUME NEW w \in Windows, NEW k \in 1..Len(queue'[w])
            PROVE  sent'[queue'[w][k].req] > 0
        <4>. HIDE DEF e
        <4>1. queue \in [Windows -> Seq(Event)]
          BY DEF BaseInv, TypeOK, WindowType, Event
        <4>2. CASE w # win[c] \/ k \in 1..Len(queue[w])
          <5>1. k \in 1..Len(queue[w]) /\ queue'[w][k] = queue[w][k]
            BY <3>1, <3>5, <4>1, <4>2
          <5>2. queue[w][k].req \in Requests /\ sent[queue[w][k].req] > 0
            BY <5>1, QueueType DEF QueueInv
          <5>. QED
            BY <3>3, <5>1, <5>2
        <4>3. CASE w = win[c] /\ k \notin 1..Len(queue[w])
          <5>1. queue'[w] = Append(queue[w], e)
            BY <3>1, <4>1, <4>3
          <5>2. queue'[w][k] = e
            BY <3>5, <4>1, <4>3, <5>1
          <5>. QED
            BY <3>4, <5>2
        <4>. QED
          BY <4>2, <4>3
      <3>. QED
        BY <3>5 DEF QueueInv
    <2>. QED
      BY <1>1, <1>3, <2>1, QuietFrame
  <1>4. CASE \E c \in Clients, o \in Ops, w \in Windows : Request(c, o, w)
    BY <1>1, <1>4 DEF Request, winVars
  <1>5. ASSUME NEW w \in Windows, Execute(w) PROVE QueueInv'
    <2>1. queue[w] # <<>> /\ queue' = [queue EXCEPT ![w] = Tail(queue[w])] /\ sent' = sent
      BY <1>5 DEF Execute
    <2>2. \A k \in 1..Len(Tail(queue[w])) : sent[Tail(queue[w])[k].req] > 0
      BY <2>1, QueueType DEF QueueInv
    <2>3. queue \in [Windows -> Seq(Event)]
      BY DEF BaseInv, TypeOK, WindowType, Event
    <2>. QED
      BY <2>1, <2>2, <2>3 DEF QueueInv
  <1>6. ASSUME NEW w \in Windows, CloseWindow(w) PROVE QueueInv'
    <2>1. queue' = [queue EXCEPT ![w] = <<>>] /\ sent' = sent
      BY <1>6 DEF CloseWindow
    <2>2. queue \in [Windows -> Seq(Event)] /\ Len(<<>>) = 0
      BY DEF BaseInv, TypeOK, WindowType, Event
    <2>. QED
      BY <2>1, <2>2 DEF QueueInv
  <1>7. CASE \E a \in answers : Respond(a)
    BY <1>1, <1>7 DEF Respond
  <1>8. CASE StopDrain \/ Tick
    BY <1>1, <1>8 DEF StopDrain, Tick, winVars
  <1>9. CASE UNCHANGED vars
    BY <1>1, <1>9 DEF vars
  <1>. QED
    BY <1>2, <1>3, <1>4, <1>5, <1>6, <1>7, <1>8, <1>9 DEF Next

phasebar == [r \in Requests |-> Phase(r)]

LEMMA EndRefines ==
    ASSUME BaseInv, OkInv, NEW c \in Clients, n' = n, op' = op, ran' = ran,
           Ends(c), EndsUnsent(c) \/ EndsTold(c)
    PROVE  Service!End(CurReq(c)) /\ CurReq(c) \in Requests
  <1>1. pc[c] \in InService /\ pc' = [pc EXCEPT ![c] = "idle"]
    BY DEF Ends, Serving
  <1>2. PICK r \in Requests : r = CurReq(c) /\ r[1] = c /\ r[2] = n[c]
    BY <1>1, CurReqType
  <1>3. pc \in [Clients -> {"idle", "lock"} \cup InService] /\ n \in [Clients -> 0..MaxReq]
    BY DEF BaseInv, TypeOK, HandlerType
  <1>4. Phase(r) \in {"shared", "exclusive"}
    BY <1>1, <1>2 DEF Phase, Finished
  <1>5. Phase(r)' = "done"
    BY <1>1, <1>2, <1>3 DEF Phase, Finished
  <1>6. ASSUME NEW s \in Requests, s # r PROVE Phase(s)' = Phase(s)
    <2>1. CASE s[1] # c
      BY <1>1, <1>3, <2>1 DEF Phase, Finished
    <2>2. CASE s[1] = c
      <3>1. s[2] # n[c] /\ s[2] \in Nat /\ n[c] \in Nat
        BY <1>2, <1>3, <1>6, <2>2, BoundsAssumption
      <3>. QED
        BY <2>2, <3>1 DEF Phase, Finished
    <2>. QED
      BY <2>1, <2>2
  <1>7. phasebar' = [phasebar EXCEPT ![r] = "done"]
    <2>1. \A s \in Requests : phasebar[s] = Phase(s) /\ phasebar'[s] = Phase(s)'
      BY DEF phasebar
    <2>2. /\ phasebar = [s \in Requests |-> phasebar[s]]
          /\ phasebar' = [s \in Requests |-> phasebar'[s]]
      BY DEF phasebar
    <2>3. \A s \in Requests : phasebar'[s] = IF s = r THEN "done" ELSE phasebar[s]
      BY <1>5, <1>6, <2>1
    <2>. QED
      BY <1>2, <2>2, <2>3
  <1>8. \/ reply' = reply
        \/ \E k \in {"refused", "error"} : reply' = [reply EXCEPT ![r] = k]
        \/ /\ \E k \in {1, 2} : <<r, k>> \in ran
           /\ reply' = [reply EXCEPT ![r] = "ok"]
    <2>1. CASE EndsUnsent(c)
      BY <2>1 DEF EndsUnsent
    <2>2. CASE EndsTold(c)
      <3>1. PICK k \in {"refused", "error"} \cup (IF chan[c] = "ok" THEN {"ok"} ELSE {}) :
                reply' = [reply EXCEPT ![r] = k]
        BY <1>2, <2>2 DEF EndsTold, Send
      <3>2. k = "ok" => \E j \in {1, 2} : <<r, j>> \in ran
        BY <1>2, <3>1 DEF OkInv, Ran
      <3>. QED
        BY <3>1, <3>2
    <2>. QED
      BY <2>1, <2>2
  <1>. QED
    BY <1>2, <1>4, <1>7, <1>8 DEF Service!End, Service!Served, phasebar

\* An equality of phases, request by request.
LEMMA PhaseUpdate ==
    ASSUME NEW r \in Requests, NEW x, Phase(r)' = x,
           \A s \in Requests : s # r => Phase(s)' = Phase(s)
    PROVE  phasebar' = [phasebar EXCEPT ![r] = x]
  <1>1. \A s \in Requests : phasebar[s] = Phase(s) /\ phasebar'[s] = Phase(s)'
    BY DEF phasebar
  <1>2. /\ phasebar = [s \in Requests |-> phasebar[s]]
        /\ phasebar' = [s \in Requests |-> phasebar'[s]]
    BY DEF phasebar
  <1>3. \A s \in Requests : phasebar'[s] = IF s = r THEN x ELSE phasebar[s]
    BY <1>1
  <1>. QED
    BY <1>2, <1>3

LEMMA PhaseKept ==
    ASSUME \A s \in Requests : Phase(s)' = Phase(s)
    PROVE  phasebar' = phasebar
  BY DEF phasebar

LEMMA GrantRefines ==
    ASSUME BaseInv, NEW c \in Clients, Acquire(c)
    PROVE  Service!Grant(CurReq(c)) /\ CurReq(c) \in Requests
  <1>. USE DEF BaseInv, TypeOK, HandlerType
  <1>1. /\ pc[c] = "lock" /\ pc' = [pc EXCEPT ![c] = "insert"] /\ Head(lockq) = c
        /\ UNCHANGED <<n, op, ran, reply>> /\ ~IsReadOnly(op[c])
    BY DEF Acquire, reqVars, winVars, LockInv
  <1>2. PICK r \in Requests : r = CurReq(c) /\ r[1] = c /\ r[2] = n[c]
    BY <1>1, CurReqType
  <1>3. Phase(r) = "waiting" /\ Phase(r)' = "exclusive"
    BY <1>1, <1>2, BoundsAssumption DEF Phase, Finished
  <1>4. ASSUME NEW s \in Requests, s # r PROVE Phase(s)' = Phase(s)
    <2>1. CASE s[1] # c
      BY <1>1, <2>1 DEF Phase, Finished
    <2>2. CASE s[1] = c
      <3>1. s[2] # n[c] /\ s[2] \in Nat /\ n[c] \in Nat
        BY <1>2, <1>4, <2>2, BoundsAssumption
      <3>. QED
        BY <1>1, <2>2, <3>1 DEF Phase, Finished
    <2>. QED
      BY <2>1, <2>2
  <1>5. ASSUME NEW s \in Requests, Phase(s) = "exclusive" PROVE FALSE
    <2>1. s[1] \in Clients /\ Writing(s[1])
      BY <1>5 DEF Phase, Finished, Writing, Serving
    <2>2. s[1] = c
      BY <1>1, <2>1 DEF LockInv
    <2>. QED
      BY <1>1, <2>1, <2>2 DEF Writing, Serving
  <1>. QED
    BY <1>1, <1>2, <1>3, <1>4, <1>5, PhaseUpdate DEF Service!Grant, phasebar

LEMMA BeginRefines ==
    ASSUME BaseInv, ReplyInv, NEW c \in Clients, NEW o \in Ops, NEW w \in Windows,
           Request(c, o, w)
    PROVE  \E r \in Requests : Service!Begin(r)
  <1>. USE DEF BaseInv, TypeOK, HandlerType
  <1>1. /\ n' = [n EXCEPT ![c] = n[c] + 1] /\ n[c] < MaxReq /\ pc[c] = "idle"
        /\ op' = [op EXCEPT ![c] = o] /\ ran' = ran
    BY DEF Request, winVars
  <1>2. \/ UNCHANGED pc /\ reply' = [reply EXCEPT ![<<c, n[c] + 1>>] = "ok"]
        \/ UNCHANGED <<pc, reply>>
        \/ pc' = [pc EXCEPT ![c] = "insert"] /\ IsReadOnly(o) /\ reply' = reply
        \/ pc' = [pc EXCEPT ![c] = "lock"] /\ reply' = reply
    BY DEF Request
  <1>3. PICK r \in Requests : r = <<c, n[c] + 1>> /\ r[1] = c /\ r[2] = n[c] + 1
    BY <1>1, NewRequest
  <1>4. Phase(r) = "new"
    BY <1>3 DEF Phase
  <1>5. /\ pc' = pc => Phase(r)' = "done"
        /\ pc'[c] = "insert" /\ IsReadOnly(o) => Phase(r)' = "shared"
        /\ pc'[c] = "lock" => Phase(r)' = "waiting"
    BY <1>1, <1>3, BoundsAssumption DEF Phase, Finished
  <1>6. ASSUME NEW s \in Requests, s # r PROVE Phase(s)' = Phase(s)
    <2>1. CASE s[1] # c
      BY <1>1, <1>2, <2>1 DEF Phase, Finished
    <2>2. CASE s[1] = c
      <3>1. s[2] # n[c] + 1 /\ s[2] \in Nat /\ n[c] \in Nat
        BY <1>3, <1>6, <2>2, BoundsAssumption
      <3>2. n'[c] = n[c] + 1
        BY <1>1
      <3>. QED
        BY <1>1, <2>2, <3>1, <3>2 DEF Phase, Finished
    <2>. QED
      BY <2>1, <2>2
  <1>7. Phase(r)' \in {"waiting", "shared", "done"}
        /\ (reply' = reply \/ (Phase(r)' = "done" /\ reply' = [reply EXCEPT ![r] = "ok"]))
    BY <1>2, <1>3, <1>5
  <1>8. phasebar' = [phasebar EXCEPT ![r] = Phase(r)']
    BY <1>6, PhaseUpdate
  <1>. QED
    BY <1>1, <1>4, <1>7, <1>8 DEF Service!Begin, phasebar

LEMMA RunRefines ==
    ASSUME BaseInv, QueueInv, NEW w \in Windows, Execute(w)
    PROVE  \/ \E r \in Requests : Service!Run(r)
           \/ UNCHANGED <<phasebar, reply, ran>>
  <1>. USE DEF BaseInv, TypeOK, HandlerType
  <1>1. UNCHANGED <<n, op, pc, reply>> /\ queue[w] # <<>>
    BY DEF Execute, reqVars
  <1>2. phasebar' = phasebar
    BY <1>1 DEF phasebar, Phase, Finished
  <1>3. PICK r \in Requests, k \in {1, 2} :
            /\ r = Head(queue[w]).req /\ k = Head(queue[w]).try /\ sent[r] > 0
    BY <1>1, QueueType DEF QueueInv
  <1>4. Phase(r) \in {"shared", "exclusive", "done"}
    <2>1. r[1] \in Clients /\ r[2] \in Nat /\ n[r[1]] \in Nat /\ r = <<r[1], r[2]>>
      BY BoundsAssumption
    <2>2. ~(n[r[1]] < r[2])
      BY <1>3 DEF SentInv
    <2>3. ASSUME n[r[1]] = r[2] PROVE pc[r[1]] # "lock"
      <3>1. r = CurReq(r[1])
        BY <2>1, <2>3
      <3>. QED
        BY <1>3, <2>1, <3>1 DEF SentInv
    <2>. QED
      BY <2>1, <2>2, <2>3 DEF Phase, Finished
  <1>5. ran' = ran \/ ran' = ran \cup {<<r, k>>}
    BY <1>3 DEF Execute
  <1>. QED
    BY <1>1, <1>2, <1>3, <1>4, <1>5 DEF Service!Run, Service!Served, phasebar

LEMMA ServiceStep ==
    ASSUME FullInv, QueueInv, [Next]_vars
    PROVE  [Service!Next]_(Service!vars)
  <1>. USE DEF FullInv
  <1>. SUFFICES (\E r \in Requests : \/ Service!Begin(r) \/ Service!Grant(r)
                                     \/ Service!Run(r) \/ Service!End(r))
                \/ UNCHANGED <<phasebar, reply, ran>>
    BY DEF Service!Next, Service!vars, phasebar
  <1>1. CASE UNCHANGED <<n, op, pc, reply, ran>>
    BY <1>1 DEF phasebar, Phase, Finished
  <1>2. CASE (\E c \in Clients : Connection(c)) \/ StopSignal \/ ListenerExits \/ Start
    BY <1>1, <1>2, ConnFrame DEF reqVars, winVars
  <1>3. ASSUME NEW c \in Clients, Handler(c)
        PROVE  (\E r \in Requests : Service!Grant(r) \/ Service!End(r))
               \/ UNCHANGED <<phasebar, reply, ran>>
    <2>1. n' = n /\ op' = op /\ ran' = ran
      BY <1>3, HandlerFrame DEF reqVars
    <2>2. CASE Acquire(c)
      BY <2>2, GrantRefines
    <2>3. CASE GoesOn(c)
      <3>1. pc[c] \in InService /\ pc \in [Clients -> {"idle", "lock"} \cup InService]
            /\ \E p \in InService : pc' = [pc EXCEPT ![c] = p]
        BY <2>3 DEF GoesOn, Serving, BaseInv, TypeOK, HandlerType
      <3>2. pc'[c] \in InService
        BY <3>1
      <3>3. \A s \in Requests : Phase(s)' = Phase(s)
        BY <2>1, <3>1, <3>2 DEF Phase, Finished
      <3>4. reply' = reply
        BY <1>3, <3>1, <3>2, ReplyShape DEF KeepsReply, EndsUnsent, EndsTold
      <3>. QED
        BY <2>1, <3>3, <3>4, PhaseKept
    <2>4. CASE Ends(c)
      <3>1. EndsUnsent(c) \/ EndsTold(c)
        <4>1. pc'[c] = "idle"
          BY <2>4 DEF Ends, BaseInv, TypeOK, HandlerType
        <4>2. ~KeepsReply(c)
          BY <4>1 DEF KeepsReply, BaseInv, TypeOK, HandlerType
        <4>. QED
          BY <1>3, <4>2, ReplyShape
      <3>. QED
        BY <2>1, <2>4, <3>1, EndRefines
    <2>. QED
      BY <1>3, <2>2, <2>3, <2>4, HandlerShape
  <1>4. ASSUME NEW c \in Clients, NEW o \in Ops, NEW w \in Windows, Request(c, o, w)
        PROVE  \E r \in Requests : Service!Begin(r)
    BY <1>4, BeginRefines
  <1>5. ASSUME NEW w \in Windows, Execute(w)
        PROVE  (\E r \in Requests : Service!Run(r)) \/ UNCHANGED <<phasebar, reply, ran>>
    BY <1>5, RunRefines
  <1>6. CASE \E w \in Windows : CloseWindow(w)
    BY <1>1, <1>6 DEF CloseWindow, reqVars
  <1>7. CASE \E a \in answers : Respond(a)
    BY <1>1, <1>7 DEF Respond, reqVars
  <1>8. CASE StopDrain \/ Tick
    BY <1>1, <1>8 DEF StopDrain, Tick, reqVars, winVars
  <1>9. CASE UNCHANGED vars
    BY <1>1, <1>9 DEF vars
  <1>. QED
    BY <1>2, <1>3, <1>4, <1>5, <1>6, <1>7, <1>8, <1>9 DEF Next

\* The bridge, with its lock, channels, timers and retry, keeps the promises
\* of RequestService for any clients, windows and bounds, when ids are distinct
\* and an entry outlives a wait.
THEOREM BridgeImplementsService ==
    ASSUME Distinct PROVE Spec => ImplementsService
  <1>1. Init => Service!Init /\ QueueInv
    <2>1. ASSUME Init PROVE phasebar = [r \in Requests |-> "new"]
      BY <2>1 DEF Init, phasebar, Phase
    <2>2. ASSUME Init PROVE QueueInv
      <3>1. Len(<<>>) = 0
        OBVIOUS
      <3>. QED
        BY <2>2, <3>1 DEF Init, QueueInv
    <2>. QED
      BY <2>1, <2>2 DEF Init, Service!Init, phasebar
  <1>2. FullInv /\ QueueInv /\ [Next]_vars => QueueInv'
    BY QueueStep DEF FullInv
  <1>3. FullInv /\ QueueInv /\ [Next]_vars => [Service!Next]_(Service!vars)
    BY ServiceStep
  <1>. QED
    BY <1>1, <1>2, <1>3, FullInvariance, PTL DEF Spec, ImplementsService, Service!Spec
-----------------------------------------------------------------------------
(* Events, and what has been answered.                                     *)

\* An event in a window's queue is of the last emission or an earlier one, is in
\* the window of its request while that is served, and the events of a request
\* are in one window, in the order they were emitted in.
EventInv ==
    /\ \A w \in Windows : \A k \in 1..Len(queue[w]) :
          LET e == queue[w][k] IN
          /\ e.try <= sent[e.req]
          /\ \A c \in Clients : e.req = CurReq(c) /\ pc[c] # "idle"
                                => w = win[c] /\ e.op = op[c]
    /\ \A v, w \in Windows : \A k \in 1..Len(queue[v]), l \in 1..Len(queue[w]) :
          queue[v][k].req = queue[w][l].req
          => v = w /\ (k < l => queue[v][k].try < queue[w][l].try)

\* The first event of r waits in a window.
FirstQueued(r) ==
    \E w \in Windows : \E k \in 1..Len(queue[w]) : queue[w][k].req = r /\ queue[w][k].try = 1

\* No window's answer to r is on its way.
Unanswered(r) ==
    /\ \A a \in answers : a.req # r
    /\ \A c \in Clients : CurReq(c) = r => chan[c] \notin {"ok", "refused"}

\* No window answers a request before its first event was taken.
AnswerInv ==
    \A r \in Requests :
        /\ sent[r] = 0 \/ FirstQueued(r) => Unanswered(r)
        /\ FirstQueued(r) => reply[r] \in {"none", "error"}

\* A request tells its client.
LEMMA RequestOfOne ==
    ASSUME NEW c, NEW d, CurReq(c) = CurReq(d) PROVE c = d
  OBVIOUS

LEMMA EventFacts ==
    ASSUME BaseInv, NEW w \in Windows, NEW k \in 1..Len(queue[w])
    PROVE  /\ queue[w][k] \in Event /\ queue[w][k].req \in Requests
           /\ queue[w][k].try \in {1, 2} /\ queue[w][k].op \in Ops
           /\ sent[queue[w][k].req] \in 0..2
  <1>1. queue[w] \in Seq(Event)
    BY QueueType
  <1>2. queue[w][k] \in Event
    <2>. HIDE DEF Requests
    <2>. QED
      BY <1>1
  <1>3. queue[w][k].req \in Requests /\ queue[w][k].try \in {1, 2} /\ queue[w][k].op \in Ops
    BY <1>2 DEF Event
  <1>. QED
    BY <1>2, <1>3 DEF BaseInv, TypeOK, HistoryType

\* An emission puts the event of the request's next try at the end of the queue
\* of its window.
LEMMA Emitted ==
    ASSUME BaseInv, NEW c \in Clients, NEW p, pc[c] \in {"emit", "reemit"}, EmitTo(c, p)
    PROVE  /\ CurReq(c) \in Requests /\ win[c] \in Windows
           /\ sent' = [sent EXCEPT ![CurReq(c)] = sent[CurReq(c)] + 1]
           /\ pc[c] = "emit" => sent[CurReq(c)] = 0
           /\ pc[c] = "reemit" => sent[CurReq(c)] = 1
           /\ \A w \in Windows : \A k \in 1..Len(queue'[w]) :
                 \/ k \in 1..Len(queue[w]) /\ queue'[w][k] = queue[w][k]
                 \/ /\ w = win[c] /\ k = Len(queue[w]) + 1 /\ Len(queue[w]) \in Nat
                    /\ queue'[w][k] = [req |-> CurReq(c), op |-> op[c], try |-> sent[CurReq(c)] + 1]
  <1>. DEFINE e == [req |-> CurReq(c), op |-> op[c], try |-> sent[CurReq(c)] + 1]
  <1>1. CurReq(c) \in Requests /\ win[c] \in Windows
    BY CurReqType DEF BaseInv, TypeOK, HandlerType
  <1>2. /\ queue' = [queue EXCEPT ![win[c]] = Append(queue[win[c]], e)]
        /\ sent' = [sent EXCEPT ![CurReq(c)] = sent[CurReq(c)] + 1]
    BY DEF EmitTo
  <1>3. /\ pc[c] = "emit" => sent[CurReq(c)] = 0
        /\ pc[c] = "reemit" => sent[CurReq(c)] = 1
    BY DEF BaseInv, SentInv
  <1>4. ASSUME NEW w \in Windows, NEW k \in 1..Len(queue'[w])
        PROVE  \/ k \in 1..Len(queue[w]) /\ queue'[w][k] = queue[w][k]
               \/ w = win[c] /\ k = Len(queue[w]) + 1 /\ Len(queue[w]) \in Nat /\ queue'[w][k] = e
    <2>. HIDE DEF e
    <2>1. queue \in [Windows -> Seq(Event)]
      BY DEF BaseInv, TypeOK, WindowType, Event
    <2>2. CASE w # win[c]
      BY <1>2, <2>1, <2>2
    <2>3. CASE w = win[c]
      <3>1. PICK q \in Seq(Event) : q = queue[w]
        BY <2>1
      <3>2. queue'[w] = Append(q, e)
        BY <1>2, <2>1, <2>3, <3>1
      <3>3. Len(Append(q, e)) = Len(q) + 1 /\ Len(q) \in Nat
        BY <3>1
      <3>4. \A i \in 1..Len(q) + 1 : Append(q, e)[i] = IF i = Len(q) + 1 THEN e ELSE q[i]
        BY <3>1
      <3>. QED
        BY <2>3, <3>1, <3>2, <3>3, <3>4
    <2>. QED
      BY <2>2, <2>3
  <1>. QED
    BY <1>1, <1>2, <1>3, <1>4

LEMMA EmittedSent ==
    ASSUME BaseInv, NEW c \in Clients, NEW p, pc[c] \in {"emit", "reemit"}, EmitTo(c, p)
    PROVE  /\ CurReq(c) \in Requests /\ sent' = [sent EXCEPT ![CurReq(c)] = sent[CurReq(c)] + 1]
           /\ sent[CurReq(c)] \in {0, 1}
  <1>1. CurReq(c) \in Requests
    BY CurReqType
  <1>2. sent' = [sent EXCEPT ![CurReq(c)] = sent[CurReq(c)] + 1]
    BY DEF EmitTo
  <1>3. sent[CurReq(c)] \in {0, 1}
    BY DEF BaseInv, SentInv
  <1>. QED
    BY <1>1, <1>2, <1>3

LEMMA EmittedAt ==
    ASSUME BaseInv, NEW c \in Clients, NEW p, pc[c] \in {"emit", "reemit"}, EmitTo(c, p),
           NEW w \in Windows, NEW k \in 1..Len(queue'[w])
    PROVE  \/ k \in 1..Len(queue[w]) /\ queue'[w][k] = queue[w][k]
           \/ queue'[w][k].req = CurReq(c) /\ queue'[w][k].try = sent[CurReq(c)] + 1
  <1>1. \/ k \in 1..Len(queue[w]) /\ queue'[w][k] = queue[w][k]
        \/ queue'[w][k] = [req |-> CurReq(c), op |-> op[c], try |-> sent[CurReq(c)] + 1]
    BY Emitted
  <1>. QED
    BY <1>1

\* Handling an event takes it from the head of its queue.
LEMMA Executed ==
    ASSUME BaseInv, NEW w \in Windows, Execute(w)
    PROVE  /\ 1 \in 1..Len(queue[w]) /\ Head(queue[w]) = queue[w][1]
           /\ \A v \in Windows : \A k \in 1..Len(queue'[v]) :
                 /\ v # w => k \in 1..Len(queue[v]) /\ queue'[v][k] = queue[v][k]
                 /\ v = w => k + 1 \in 1..Len(queue[v]) /\ queue'[v][k] = queue[v][k + 1]
  <1>1. queue[w] # <<>> /\ queue' = [queue EXCEPT ![w] = Tail(queue[w])]
    BY DEF Execute
  <1>2. queue \in [Windows -> Seq(Event)]
    BY DEF BaseInv, TypeOK, WindowType, Event
  <1>. QED
    BY <1>1, <1>2, QueueType

LEMMA Closed ==
    ASSUME BaseInv, NEW w \in Windows, CloseWindow(w)
    PROVE  \A v \in Windows : \A k \in 1..Len(queue'[v]) :
                 k \in 1..Len(queue[v]) /\ queue'[v][k] = queue[v][k]
  <1>1. queue' = [queue EXCEPT ![w] = <<>>]
    BY DEF CloseWindow
  <1>2. queue \in [Windows -> Seq(Event)] /\ Len(<<>>) = 0
    BY DEF BaseInv, TypeOK, WindowType, Event
  <1>. QED
    BY <1>1, <1>2

\* The steps that emit nothing, begin nothing and take nothing from a queue
LEMMA EventKept ==
    ASSUME BaseInv, EventInv, UNCHANGED <<queue, sent, n, op, win>>,
           \A c \in Clients : pc'[c] # "idle" => pc[c] # "idle"
    PROVE  EventInv'
  <1>1. \A c \in Clients : CurReq(c)' = CurReq(c)
    OBVIOUS
  <1>2. ASSUME NEW w \in Windows, NEW k \in 1..Len(queue[w])
        PROVE  /\ queue[w][k].try <= sent[queue[w][k].req]
               /\ \A c \in Clients : queue[w][k].req = CurReq(c) /\ pc'[c] # "idle"
                                     => w = win[c] /\ queue[w][k].op = op[c]
    BY DEF EventInv
  <1>. HIDE DEF CurReq
  <1>. QED
    BY <1>1, <1>2 DEF EventInv

LEMMA EventStep ==
    ASSUME BaseInv, QueueInv, EventInv, [Next]_vars PROVE EventInv'
  <1>1. CASE UNCHANGED <<queue, sent, n, op, win, pc>>
    BY <1>1, EventKept
  <1>2. CASE (\E c \in Clients : Connection(c)) \/ StopSignal \/ ListenerExits \/ Start
    BY <1>1, <1>2, ConnFrame DEF winVars, reqVars
  <1>3. ASSUME NEW c \in Clients, Handler(c) PROVE EventInv'
    <2>1. UNCHANGED <<n, op, win>>
      BY <1>3, HandlerFrame DEF reqVars
    <2>2. \A d \in Clients : pc'[d] # "idle" => pc[d] # "idle"
      <3>1. pc[c] # "idle" /\ \E p : pc' = [pc EXCEPT ![c] = p]
        BY <1>3, HandlerShape DEF Ends, GoesOn, Acquire, Serving
      <3>. QED
        BY <3>1
    <2>3. ASSUME NEW p, pc[c] \in {"emit", "reemit"}, EmitTo(c, p) PROVE EventInv'
      <3>. DEFINE r == CurReq(c)
                  e == [req |-> r, op |-> op[c], try |-> sent[r] + 1]
                  Old(w, k) == k \in 1..Len(queue[w]) /\ queue'[w][k] = queue[w][k]
                  New(w, k) == w = win[c] /\ k = Len(queue[w]) + 1 /\ Len(queue[w]) \in Nat /\ queue'[w][k] = e
      <3>1. /\ r \in Requests /\ sent' = [sent EXCEPT ![r] = sent[r] + 1]
            /\ sent[r] \in {0, 1}
            /\ \A w \in Windows : \A k \in 1..Len(queue'[w]) : Old(w, k) \/ New(w, k)
        BY <2>3, Emitted
      <3>2. \A s \in Requests : sent[s] <= sent'[s] /\ sent[s] \in 0..2 /\ sent'[s] \in Nat
        <4>1. sent \in [Requests -> 0..2]
          BY DEF BaseInv, TypeOK, HistoryType
        <4>. HIDE DEF r, Requests
        <4>. QED
          BY <3>1, <4>1
      <3>3. sent'[r] = sent[r] + 1
        BY <3>1 DEF BaseInv, TypeOK, HistoryType
      <3>4. ASSUME NEW w \in Windows, NEW k \in 1..Len(queue[w]), queue[w][k].req = r
            PROVE  w = win[c] /\ queue[w][k].try <= sent[r] /\ queue[w][k].try \in {1, 2}
        BY <2>3, <3>4, EventFacts DEF EventInv
      <3>5. ASSUME NEW w \in Windows, NEW k \in 1..Len(queue'[w])
            PROVE  /\ queue'[w][k].try <= sent'[queue'[w][k].req]
                   /\ \A d \in Clients : queue'[w][k].req = CurReq(d) /\ pc[d] # "idle"
                                         => w = win[d] /\ queue'[w][k].op = op[d]
        <4>1. CASE Old(w, k)
          <5>1. queue[w][k].req \in Requests /\ queue[w][k].try \in {1, 2}
            BY <4>1, EventFacts
          <5>2. /\ queue[w][k].try <= sent[queue[w][k].req]
                /\ \A d \in Clients : queue[w][k].req = CurReq(d) /\ pc[d] # "idle"
                                         => w = win[d] /\ queue[w][k].op = op[d]
            BY <4>1 DEF EventInv
          <5>3. sent[queue[w][k].req] <= sent'[queue[w][k].req]
                /\ sent[queue[w][k].req] \in 0..2 /\ sent'[queue[w][k].req] \in Nat
            BY <3>2, <5>1
          <5>. QED
            BY <4>1, <5>1, <5>2, <5>3
        <4>2. CASE New(w, k)
          <5>1. queue'[w][k].req = r /\ queue'[w][k].try = sent[r] + 1 /\ queue'[w][k].op = op[c]
            BY <4>2
          <5>2. \A d \in Clients : CurReq(d) = r => d = c
            BY RequestOfOne
          <5>. QED
            BY <3>3, <4>2, <5>1, <5>2, <3>1
        <4>. QED
          BY <3>1, <4>1, <4>2
      <3>6. ASSUME NEW v \in Windows, NEW w \in Windows, NEW k \in 1..Len(queue'[v]),
                   NEW l \in 1..Len(queue'[w]), queue'[v][k].req = queue'[w][l].req
            PROVE  v = w /\ (k < l => queue'[v][k].try < queue'[w][l].try)
        <4>0. e.req = r /\ e.try = sent[r] + 1
          OBVIOUS
        <4>. HIDE DEF e, r
        <4>1. CASE Old(v, k) /\ Old(w, l)
          BY <3>6, <4>1 DEF EventInv
        <4>2. CASE Old(v, k) /\ New(w, l)
          <5>1. queue'[w][l].req = r /\ queue'[w][l].try = sent[r] + 1 /\ w = win[c]
            BY <4>0, <4>2
          <5>2. v = win[c] /\ queue[v][k].try <= sent[r] /\ queue[v][k].try \in {1, 2}
            BY <3>4, <3>6, <4>2, <5>1
          <5>. QED
            BY <3>1, <4>2, <5>1, <5>2
        <4>3. CASE New(v, k) /\ Old(w, l)
          <5>1. queue'[v][k].req = r /\ v = win[c] /\ k = Len(queue[v]) + 1
            BY <4>0, <4>3
          <5>2. w = win[c]
            BY <3>4, <3>6, <4>3, <5>1
          <5>. QED
            BY <4>3, <5>1, <5>2
        <4>4. CASE New(v, k) /\ New(w, l)
          BY <4>4
        <4>. QED
          BY <3>1, <4>1, <4>2, <4>3, <4>4
      <3>7. ASSUME NEW w \in Windows, NEW k \in 1..Len(queue'[w]), NEW d \in Clients,
                   queue'[w][k].req = CurReq(d)', pc'[d] # "idle"
            PROVE  w = win'[d] /\ queue'[w][k].op = op'[d]
        <4>1. CurReq(d)' = CurReq(d) /\ win'[d] = win[d] /\ op'[d] = op[d] /\ pc[d] # "idle"
          BY <2>1, <2>2, <3>7
        <4>. HIDE DEF CurReq
        <4>. QED
          BY <3>5, <3>7, <4>1
      <3>. QED
        BY <3>5, <3>6, <3>7 DEF EventInv
    <2>4. CASE ~Emit(c) /\ ~Reemit(c)
      BY <1>3, <2>1, <2>2, <2>4, EventKept, QuietFrame
    <2>. QED
      BY <2>3, <2>4 DEF Emit, Reemit
  <1>4. ASSUME NEW c \in Clients, NEW o \in Ops, NEW w \in Windows, Request(c, o, w)
        PROVE  EventInv'
    <2>1. /\ n' = [n EXCEPT ![c] = n[c] + 1] /\ n[c] < MaxReq
          /\ op' = [op EXCEPT ![c] = o] /\ win' = [win EXCEPT ![c] = w]
          /\ UNCHANGED <<queue, sent>>
          /\ \A d \in Clients : d # c => pc'[d] = pc[d]
      BY <1>4 DEF Request, winVars, BaseInv, TypeOK, HandlerType
    <2>2. <<c, n[c] + 1>> \in Requests /\ sent[<<c, n[c] + 1>>] = 0
      <3>1. n[c] + 1 \in 1..MaxReq /\ n[c] < n[c] + 1
        BY <2>1, BoundsAssumption DEF BaseInv, TypeOK, HandlerType
      <3>2. PICK r \in Requests : r = <<c, n[c] + 1>>
        BY <3>1
      <3>3. n[r[1]] < r[2]
        BY <3>1, <3>2
      <3>4. sent[r] = 0
        BY <3>3 DEF BaseInv, SentInv
      <3>. QED
        BY <3>2, <3>4
    <2>3. ASSUME NEW v \in Windows, NEW k \in 1..Len(queue[v]), NEW d \in Clients,
                 queue[v][k].req = CurReq(d)', pc'[d] # "idle"
          PROVE  v = win'[d] /\ queue[v][k].op = op'[d]
      <3>1. sent[queue[v][k].req] > 0
        BY DEF QueueInv
      <3>2. d # c
        <4>1. CurReq(c)' = <<c, n[c] + 1>>
          BY <2>1 DEF BaseInv, TypeOK, HandlerType
        <4>. QED
          BY <2>2, <2>3, <3>1, <4>1
      <3>3. n'[d] = n[d] /\ op'[d] = op[d] /\ win'[d] = win[d] /\ pc'[d] = pc[d]
        BY <2>1, <3>2 DEF BaseInv, TypeOK, HandlerType
      <3>4. queue[v][k].req = CurReq(d) /\ pc[d] # "idle"
        BY <2>3, <3>3
      <3>5. v = win[d] /\ queue[v][k].op = op[d]
        BY <3>4 DEF EventInv
      <3>. QED
        BY <3>3, <3>5
    <2>. QED
      BY <2>1, <2>3 DEF EventInv
  <1>5. ASSUME NEW w \in Windows, Execute(w) PROVE EventInv'
    <2>1. UNCHANGED <<sent, n, op, win, pc>>
      BY <1>5 DEF Execute, reqVars
    <2>2. \A v \in Windows : \A k \in 1..Len(queue'[v]) :
             \E i \in {0, 1} :
                /\ k + i \in 1..Len(queue[v]) /\ queue'[v][k] = queue[v][k + i]
                /\ v = w => i = 1
                /\ v # w => i = 0
      BY <1>5, Executed
    <2>3. \A c \in Clients : CurReq(c)' = CurReq(c)
      BY <2>1
    <2>. HIDE DEF CurReq
    <2>4. ASSUME NEW v \in Windows, NEW k \in 1..Len(queue'[v])
          PROVE  /\ queue'[v][k].try <= sent[queue'[v][k].req]
                 /\ \A c \in Clients : queue'[v][k].req = CurReq(c) /\ pc[c] # "idle"
                                       => v = win[c] /\ queue'[v][k].op = op[c]
      BY <2>2 DEF EventInv
    <2>5. ASSUME NEW u \in Windows, NEW v \in Windows, NEW k \in 1..Len(queue'[u]),
                 NEW l \in 1..Len(queue'[v]), queue'[u][k].req = queue'[v][l].req
          PROVE  u = v /\ (k < l => queue'[u][k].try < queue'[v][l].try)
      <3>1. PICK i \in {0, 1} : /\ k + i \in 1..Len(queue[u]) /\ queue'[u][k] = queue[u][k + i]
                                /\ u = w => i = 1
                                /\ u # w => i = 0
        BY <2>2
      <3>2. PICK j \in {0, 1} : /\ l + j \in 1..Len(queue[v]) /\ queue'[v][l] = queue[v][l + j]
                                /\ v = w => j = 1
                                /\ v # w => j = 0
        BY <2>2
      <3>3. u = v /\ (k + i < l + j => queue[u][k + i].try < queue[v][l + j].try)
        BY <2>5, <3>1, <3>2 DEF EventInv
      <3>4. i = j
        BY <3>1, <3>2, <3>3
      <3>. QED
        BY <3>1, <3>2, <3>3, <3>4
    <2>. QED
      BY <2>1, <2>3, <2>4, <2>5 DEF EventInv
  <1>6. ASSUME NEW w \in Windows, CloseWindow(w) PROVE EventInv'
    <2>1. UNCHANGED <<sent, n, op, win, pc>>
      BY <1>6 DEF CloseWindow, reqVars
    <2>2. \A v \in Windows : \A k \in 1..Len(queue'[v]) :
                 k \in 1..Len(queue[v]) /\ queue'[v][k] = queue[v][k]
      BY <1>6, Closed
    <2>3. \A c \in Clients : CurReq(c)' = CurReq(c)
      BY <2>1
    <2>. HIDE DEF CurReq
    <2>4. ASSUME NEW v \in Windows, NEW k \in 1..Len(queue'[v])
          PROVE  /\ queue'[v][k].try <= sent[queue'[v][k].req]
                 /\ \A c \in Clients : queue'[v][k].req = CurReq(c) /\ pc[c] # "idle"
                                       => v = win[c] /\ queue'[v][k].op = op[c]
      BY <2>2 DEF EventInv
    <2>5. ASSUME NEW u \in Windows, NEW v \in Windows, NEW k \in 1..Len(queue'[u]),
                 NEW l \in 1..Len(queue'[v]), queue'[u][k].req = queue'[v][l].req
          PROVE  u = v /\ (k < l => queue'[u][k].try < queue'[v][l].try)
      <3>1. /\ k \in 1..Len(queue[u]) /\ queue'[u][k] = queue[u][k]
            /\ l \in 1..Len(queue[v]) /\ queue'[v][l] = queue[v][l]
        BY <2>2
      <3>2. u = v /\ (k < l => queue[u][k].try < queue[v][l].try)
        BY <2>5, <3>1 DEF EventInv
      <3>. QED
        BY <3>1, <3>2
    <2>. QED
      BY <2>1, <2>3, <2>4, <2>5 DEF EventInv
  <1>7. CASE \E a \in answers : Respond(a)
    BY <1>1, <1>7 DEF Respond, reqVars
  <1>8. CASE StopDrain \/ Tick
    BY <1>1, <1>8 DEF StopDrain, Tick, winVars, reqVars
  <1>9. CASE UNCHANGED vars
    BY <1>1, <1>9 DEF vars
  <1>. QED
    BY <1>2, <1>3, <1>4, <1>5, <1>6, <1>7, <1>8, <1>9 DEF Next

\* A handler's steps pass no answer on: its receiver's channel is renewed, and a
\* sender that goes closes another's.
LEMMA NoNewAnswer ==
    ASSUME BaseInv, NEW c \in Clients, Handler(c)
    PROVE  \A d \in Clients : chan'[d] \in {"ok", "refused"} => chan'[d] = chan[d]
  <1>. USE DEF BaseInv, TypeOK, HandlerType
  <1>1. ASSUME NEW S, chan' = [After(S, "closed") EXCEPT ![c] = "empty"]
        PROVE  \A d \in Clients : chan'[d] \in {"ok", "refused"} => chan'[d] = chan[d]
    BY <1>1 DEF After
  <1>2. CASE UNCHANGED chan
    BY <1>2
  <1>3. CASE Acquire(c) \/ Emit(c) \/ FirstTimeout(c) \/ Reemit(c) \/ FinalTimeout(c)
    BY <1>2, <1>3 DEF Acquire, Emit, FirstTimeout, Reemit, FinalTimeout, EmitTo
  <1>4. CASE Insert(c)
    BY <1>1, <1>4 DEF Insert, Finish
  <1>5. CASE EmitFails(c) \/ ChannelClosed(c) \/ ReemitFails(c) \/ GiveUp(c)
    BY <1>1, <1>5 DEF EmitFails, ChannelClosed, ReemitFails, GiveUp, RemoveAndFinish, Finish
  <1>6. CASE Receive(c)
    BY <1>6 DEF Receive, Finish
  <1>7. CASE RetryInsert(c)
    BY <1>1, <1>7 DEF RetryInsert
  <1>. QED
    BY <1>3, <1>4, <1>5, <1>6, <1>7 DEF Handler

\* A client is told what its channel has, or of an error.
LEMMA ToldHonestly ==
    ASSUME BaseInv, NEW c \in Clients, Handler(c)
    PROVE  \/ reply' = reply
           \/ Send(c, "error")
           \/ chan[c] \in {"ok", "refused"} /\ Send(c, chan[c])
  <1>1. CASE Acquire(c) \/ Insert(c) \/ EmitFails(c) \/ FirstTimeout(c) \/ RetryInsert(c) \/ FinalTimeout(c)
    BY <1>1 DEF Acquire, Insert, EmitFails, FirstTimeout, RetryInsert, FinalTimeout
  <1>2. CASE Emit(c) \/ Reemit(c)
    BY <1>2 DEF Emit, Reemit, EmitTo
  <1>3. CASE ChannelClosed(c) \/ ReemitFails(c) \/ GiveUp(c)
    BY <1>3 DEF ChannelClosed, ReemitFails, GiveUp
  <1>4. CASE Receive(c)
    BY <1>4 DEF Receive
  <1>. QED
    BY <1>1, <1>2, <1>3, <1>4 DEF Handler

\* Requests that have emitted nothing or have their first event in a queue: a step
\* that adds none of them and passes no answer on keeps AnswerInv.
Fresh(r) == sent[r] = 0 \/ FirstQueued(r)

LEMMA AnswerKept ==
    ASSUME AnswerInv, n' = n, answers' \subseteq answers,
           \A d \in Clients : chan'[d] \in {"ok", "refused"} => chan'[d] = chan[d],
           NEW r \in Requests, Fresh(r)
    PROVE  Unanswered(r)'
  <1>1. \A c \in Clients : CurReq(c)' = CurReq(c)
    OBVIOUS
  <1>2. Unanswered(r)
    BY DEF AnswerInv, Fresh
  <1>. HIDE DEF CurReq
  <1>. QED
    BY <1>1, <1>2 DEF Unanswered

LEMMA AnswerStep ==
    ASSUME Distinct, FullInv, QueueInv, EventInv, AnswerInv, [Next]_vars PROVE AnswerInv'
  <1>. USE DEF FullInv
  <1>0. \A r \in Requests : FirstQueued(r) => sent[r] > 0
    BY DEF FirstQueued, QueueInv
  <1>1. ASSUME UNCHANGED <<n, queue, sent, reply>>, answers' \subseteq answers,
               \A d \in Clients : chan'[d] \in {"ok", "refused"} => chan'[d] = chan[d]
        PROVE  AnswerInv'
    <2>1. \A r \in Requests : (FirstQueued(r)' <=> FirstQueued(r)) /\ (Fresh(r)' <=> Fresh(r))
      BY <1>1 DEF FirstQueued, Fresh
    <2>2. \A r \in Requests : Fresh(r) => Unanswered(r)'
      BY <1>1, AnswerKept
    <2>. QED
      BY <1>1, <2>1, <2>2 DEF AnswerInv, Fresh
  <1>2. CASE (\E c \in Clients : Connection(c)) \/ StopSignal \/ ListenerExits \/ Start
    BY <1>1, <1>2, ConnFrame DEF winVars, reqVars
  <1>3. ASSUME NEW c \in Clients, Handler(c) PROVE AnswerInv'
    <2>. DEFINE cur == CurReq(c)
    <2>1. n' = n /\ answers' = answers
      BY <1>3, HandlerFrame DEF reqVars
    <2>2. \A d \in Clients : chan'[d] \in {"ok", "refused"} => chan'[d] = chan[d]
      BY <1>3, NoNewAnswer
    <2>3. \A r \in Requests : Fresh(r) => Unanswered(r)'
      BY <2>1, <2>2, AnswerKept
    <2>4. ASSUME NEW r \in Requests, Fresh(r)' PROVE Fresh(r)
      <3>1. CASE Emit(c) \/ Reemit(c)
        <4>1. PICK p : pc[c] \in {"emit", "reemit"} /\ EmitTo(c, p)
          BY <3>1 DEF Emit, Reemit
        <4>2. /\ cur \in Requests /\ sent' = [sent EXCEPT ![cur] = sent[cur] + 1]
              /\ sent[cur] \in {0, 1}
          BY <4>1, EmittedSent
        <4>6. ASSUME NEW w \in Windows, NEW k \in 1..Len(queue'[w])
              PROVE  \/ k \in 1..Len(queue[w]) /\ queue'[w][k] = queue[w][k]
                     \/ queue'[w][k].req = cur /\ queue'[w][k].try = sent[cur] + 1
          BY <4>1, EmittedAt
        <4>3. sent \in [Requests -> 0..2]
          BY DEF BaseInv, TypeOK, HistoryType
        <4>. HIDE DEF cur, Requests
        <4>4. sent'[r] = 0 => sent[r] = 0
          BY <4>2, <4>3
        <4>5. FirstQueued(r)' => FirstQueued(r) \/ sent[r] = 0
          BY <4>2, <4>6 DEF FirstQueued
        <4>. QED
          BY <2>4, <4>4, <4>5 DEF Fresh
      <3>2. CASE ~Emit(c) /\ ~Reemit(c)
        BY <1>3, <2>4, <3>2, QuietFrame DEF Fresh, FirstQueued
      <3>. QED
        BY <3>1, <3>2
    <2>5. ASSUME NEW r \in Requests, FirstQueued(r)' PROVE reply'[r] \in {"none", "error"}
      <3>1. Fresh(r)
        BY <2>4, <2>5 DEF Fresh
      <3>2. Unanswered(r)
        BY <3>1 DEF AnswerInv, Fresh
      <3>3. reply[r] \in {"none", "error"}
        <4>1. CASE FirstQueued(r)
          BY <4>1 DEF AnswerInv
        <4>2. CASE ~FirstQueued(r)
          <5>1. sent[r] = 0 /\ (Emit(c) \/ Reemit(c))
            BY <1>3, <2>5, <3>1, <4>2, QuietFrame DEF Fresh, FirstQueued
          <5>2. PICK p : pc[c] \in {"emit", "reemit"} /\ EmitTo(c, p)
            BY <5>1 DEF Emit, Reemit
          <5>3. ASSUME NEW w \in Windows, NEW k \in 1..Len(queue'[w])
                PROVE  \/ k \in 1..Len(queue[w]) /\ queue'[w][k] = queue[w][k]
                       \/ queue'[w][k].req = cur
            <6>1. \/ k \in 1..Len(queue[w]) /\ queue'[w][k] = queue[w][k]
                  \/ queue'[w][k].req = cur /\ queue'[w][k].try = sent[cur] + 1
              BY <5>2, EmittedAt
            <6>. QED
              BY <6>1
          <5>4. r = cur
            <6>. HIDE DEF cur, Requests
            <6>. QED
              BY <2>5, <4>2, <5>3 DEF FirstQueued
          <5>. QED
            BY <5>2, <5>4 DEF ReplyInv
        <4>. QED
          BY <4>1, <4>2
      <3>4. CASE reply' = reply
        BY <3>3, <3>4
      <3>5. CASE Send(c, "error")
        BY <3>3, <3>5 DEF Send, BaseInv, TypeOK, HistoryType
      <3>6. CASE chan[c] \in {"ok", "refused"} /\ Send(c, chan[c])
        <4>1. r # cur
          BY <3>2, <3>6 DEF Unanswered
        <4>2. reply'[r] = reply[r]
          BY <3>6, <4>1 DEF Send, BaseInv, TypeOK, HistoryType
        <4>. QED
          BY <3>3, <4>2
      <3>. QED
        BY <1>3, <3>4, <3>5, <3>6, ToldHonestly
    <2>. QED
      BY <2>3, <2>4, <2>5 DEF AnswerInv, Fresh
  <1>4. ASSUME NEW c \in Clients, NEW o \in Ops, NEW w \in Windows, Request(c, o, w)
        PROVE  AnswerInv'
    <2>. DEFINE new == <<c, n[c] + 1>>
    <2>1. /\ n' = [n EXCEPT ![c] = n[c] + 1] /\ UNCHANGED <<chan, answers, queue, sent>>
          /\ n[c] < MaxReq /\ pc[c] = "idle"
          /\ reply' = reply \/ reply' = [reply EXCEPT ![new] = "ok"]
      BY <1>4 DEF Request, winVars
    <2>2. new \in Requests /\ sent[new] = 0
      BY <2>1, NewRequest
    <2>3. chan[c] = "empty"
      BY <2>1 DEF TableInv, OwnInv
    <2>4. \A r \in Requests : (FirstQueued(r)' <=> FirstQueued(r)) /\ (Fresh(r)' <=> Fresh(r))
      BY <2>1 DEF FirstQueued, Fresh
    <2>5. ASSUME NEW r \in Requests, Fresh(r) PROVE Unanswered(r)'
      <3>1. Unanswered(r)
        BY <2>5 DEF AnswerInv, Fresh
      <3>2. ASSUME NEW d \in Clients, CurReq(d)' = r PROVE chan[d] \notin {"ok", "refused"}
        <4>1. CASE d = c
          BY <2>3, <4>1
        <4>2. CASE d # c
          <5>1. CurReq(d) = r
            BY <2>1, <3>2, <4>2 DEF BaseInv, TypeOK, HandlerType
          <5>. QED
            BY <3>1, <5>1 DEF Unanswered
        <4>. QED
          BY <4>1, <4>2
      <3>. QED
        BY <2>1, <3>1, <3>2 DEF Unanswered
    <2>6. ASSUME NEW r \in Requests, FirstQueued(r) PROVE reply'[r] \in {"none", "error"}
      <3>1. r # new
        BY <1>0, <2>2, <2>6
      <3>2. reply[r] \in {"none", "error"}
        BY <2>6 DEF AnswerInv
      <3>. QED
        BY <2>1, <3>1, <3>2 DEF BaseInv, TypeOK, HistoryType
    <2>. QED
      BY <2>4, <2>5, <2>6 DEF AnswerInv, Fresh
  <1>5. ASSUME NEW w \in Windows, Execute(w) PROVE AnswerInv'
    <2>. DEFINE e == queue[w][1]
    <2>1. UNCHANGED <<n, chan, sent, reply>>
          /\ \A a \in answers' : a \in answers \/ a.req = e.req
      <3>1. Head(queue[w]) = e
        BY <1>5, Executed
      <3>. QED
        BY <1>5, <3>1 DEF Execute, reqVars
    <2>2. 1 \in 1..Len(queue[w]) /\ e.req \in Requests /\ e.try \in {1, 2} /\ sent[e.req] > 0
      <3>1. 1 \in 1..Len(queue[w])
        BY <1>5, Executed
      <3>. QED
        BY <3>1, EventFacts DEF QueueInv
    <2>3. ASSUME NEW r \in Requests, FirstQueued(r)' PROVE FirstQueued(r) /\ r # e.req
      <3>0. PICK v \in Windows : \E k \in 1..Len(queue'[v]) : queue'[v][k].req = r /\ queue'[v][k].try = 1
        BY <2>3 DEF FirstQueued
      <3>1. PICK k \in 1..Len(queue'[v]) : queue'[v][k].req = r /\ queue'[v][k].try = 1
        BY <3>0
      <3>2. CASE v # w
        <4>1. k \in 1..Len(queue[v]) /\ queue'[v][k] = queue[v][k]
          BY <1>5, <3>2, Executed
        <4>2. queue[v][k].req # e.req
          BY <2>2, <3>2, <4>1 DEF EventInv
        <4>. QED
          BY <3>1, <4>1, <4>2 DEF FirstQueued
      <3>3. CASE v = w
        <4>1. k + 1 \in 1..Len(queue[v]) /\ queue'[v][k] = queue[v][k + 1]
          BY <1>5, <3>3, Executed
        <4>2. queue[v][k + 1].req = e.req => e.try < queue[v][k + 1].try
          BY <2>2, <3>3, <4>1 DEF EventInv
        <4>3. queue[v][k + 1].req # e.req
          BY <2>2, <3>1, <4>1, <4>2
        <4>. QED
          BY <3>1, <4>1, <4>3 DEF FirstQueued
      <3>. QED
        BY <3>2, <3>3
    <2>4. ASSUME NEW r \in Requests, Fresh(r)' PROVE Fresh(r) /\ r # e.req
      BY <2>1, <2>2, <2>3, <2>4 DEF Fresh
    <2>5. ASSUME NEW r \in Requests, Fresh(r)' PROVE Unanswered(r)'
      <3>1. Unanswered(r) /\ r # e.req
        BY <2>4, <2>5 DEF AnswerInv, Fresh
      <3>2. \A a \in answers' : a.req # r
        BY <2>1, <3>1 DEF Unanswered
      <3>. QED
        BY <2>1, <3>1, <3>2 DEF Unanswered
    <2>6. \A r \in Requests : FirstQueued(r)' => reply'[r] \in {"none", "error"}
      BY <2>1, <2>3 DEF AnswerInv
    <2>. QED
      BY <2>5, <2>6 DEF AnswerInv, Fresh
  <1>6. ASSUME NEW w \in Windows, CloseWindow(w) PROVE AnswerInv'
    <2>1. UNCHANGED <<n, chan, answers, sent, reply>>
      BY <1>6 DEF CloseWindow, reqVars
    <2>2. \A r \in Requests : FirstQueued(r)' => FirstQueued(r)
      BY <1>6, Closed DEF FirstQueued
    <2>3. \A r \in Requests : Fresh(r) => Unanswered(r)'
      BY <2>1, AnswerKept
    <2>. QED
      BY <2>1, <2>2, <2>3 DEF AnswerInv, Fresh
  <1>7. ASSUME NEW a \in answers, Respond(a) PROVE AnswerInv'
    <2>1. /\ UNCHANGED <<n, queue, sent, reply>> /\ answers' \subseteq answers
          /\ chan' = After(Under(IdOf[a.req]), a.kind)
      BY <1>7 DEF Respond, reqVars
    <2>2. \A r \in Requests : (FirstQueued(r)' <=> FirstQueued(r)) /\ (Fresh(r)' <=> Fresh(r))
      BY <2>1 DEF FirstQueued, Fresh
    <2>3. ASSUME NEW r \in Requests, Fresh(r) PROVE Unanswered(r)'
      <3>1. Unanswered(r)
        BY <2>3 DEF AnswerInv, Fresh
      <3>2. ASSUME NEW c \in Clients, CurReq(c) = r PROVE chan'[c] \notin {"ok", "refused"}
        <4>1. chan[c] \notin {"ok", "refused"}
          BY <3>1, <3>2 DEF Unanswered
        <4>2. ASSUME NEW e \in Under(IdOf[a.req]), Feeds(e, c) PROVE FALSE
          <5>1. e \in pending /\ IdOf[e.req] = IdOf[a.req] /\ e.req = CurReq(c)
            BY <4>2 DEF Under, Feeds
          <5>2. e.req \in Requests /\ a.req \in Requests
            BY <5>1, EntryFacts DEF BaseInv, TypeOK, WindowType
          <5>3. a.req = r
            BY <3>2, <5>1, <5>2 DEF Distinct, UniqueIds
          <5>. QED
            BY <3>1, <5>3 DEF Unanswered
        <4>3. chan'[c] = chan[c]
          BY <2>1, <4>2 DEF After
        <4>. QED
          BY <4>1, <4>3
      <3>. QED
        BY <2>1, <3>1, <3>2 DEF Unanswered
    <2>. QED
      BY <2>1, <2>2, <2>3 DEF AnswerInv, Fresh
  <1>8. CASE StopDrain
    <2>1. \A d \in Clients : chan'[d] \in {"ok", "refused"} => chan'[d] = chan[d]
      BY <1>8 DEF StopDrain, After
    <2>. QED
      BY <1>1, <1>8, <2>1 DEF StopDrain, reqVars, winVars
  <1>9. CASE Tick
    BY <1>1, <1>9 DEF Tick, reqVars, winVars
  <1>10. CASE UNCHANGED vars
    BY <1>1, <1>10 DEF vars
  <1>. QED
    BY <1>2, <1>3, <1>4, <1>5, <1>6, <1>7, <1>8, <1>9, <1>10 DEF Next

\* What UnlockedIsLate says of a step
RunsLocked ==
    \A r \in Requests, k \in {1, 2} : <<r, k>> \in ran' \ ran =>
        \/ lockq # <<>> /\ Head(lockq) = r[1] /\ n[r[1]] = r[2]
        \/ reply[r] = "error" \/ (k = 2 /\ reply[r] # "none")

LEMMA RunIsLocked ==
    ASSUME FullInv, QueueInv, EventInv, AnswerInv, NEW w \in Windows, Execute(w)
    PROVE  RunsLocked
  <1>. USE DEF FullInv
  <1>. SUFFICES ASSUME NEW r \in Requests, NEW k \in {1, 2}, <<r, k>> \in ran' \ ran
                PROVE  \/ lockq # <<>> /\ Head(lockq) = r[1] /\ n[r[1]] = r[2]
                       \/ reply[r] = "error" \/ (k = 2 /\ reply[r] # "none")
    BY DEF RunsLocked
  <1>1. PICK e \in Event : e = queue[w][1] /\ e = Head(queue[w]) /\ 1 \in 1..Len(queue[w])
    <2>1. 1 \in 1..Len(queue[w]) /\ Head(queue[w]) = queue[w][1]
      BY Executed
    <2>. QED
      BY <2>1, EventFacts
  <1>2. e.req = r /\ e.try = k /\ e.op \in DispatchedOps
    BY <1>1 DEF Execute
  <1>3. sent[r] > 0
    BY <1>1, <1>2 DEF QueueInv
  <1>4. PICK c \in Clients : r[1] = c /\ r = <<c, r[2]>> /\ r[2] \in Nat /\ n[c] \in Nat
    BY DEF BaseInv, TypeOK, HandlerType
  <1>5. n[c] >= r[2]
    BY <1>3, <1>4 DEF BaseInv, SentInv
  <1>6. CASE Finished(r)
    <2>1. reply[r] # "none"
      BY <1>3, <1>6 DEF ReplyInv, EmittedIsAnswered
    <2>2. k = 1 => reply[r] \in {"none", "error"}
      BY <1>1, <1>2 DEF AnswerInv, FirstQueued
    <2>. QED
      BY <2>1, <2>2
  <1>7. CASE ~Finished(r)
    <2>1. n[c] = r[2] /\ pc[c] # "idle"
      BY <1>4, <1>5, <1>7 DEF Finished
    <2>2. CurReq(c) = r
      BY <1>4, <2>1
    <2>3. e.op = op[c]
      BY <1>1, <1>2, <2>1, <2>2 DEF EventInv
    <2>4. pc[c] \in InService
      <3>1. pc[c] # "lock"
        BY <1>3, <2>2 DEF BaseInv, SentInv
      <3>. QED
        BY <2>1, <3>1 DEF BaseInv, TypeOK, HandlerType
    <2>5. ~IsReadOnly(op[c])
      BY <1>2, <2>3 DEF IsReadOnly, DispatchedOps, ReadOnlyOps
    <2>6. lockq # <<>> /\ Head(lockq) = c
      BY <2>4, <2>5 DEF BaseInv, LockInv, Writing, Serving
    <2>. QED
      BY <1>4, <2>1, <2>6
  <1>. QED
    BY <1>6, <1>7

LEMMA RanKept ==
    ASSUME Next, \A w \in Windows : ~Execute(w)
    PROVE  ran' = ran
  <1>1. CASE (\E c \in Clients : Connection(c)) \/ StopSignal \/ ListenerExits \/ Start
    BY <1>1, ConnFrame DEF winVars
  <1>2. ASSUME NEW c \in Clients, Handler(c) PROVE ran' = ran
    BY <1>2, HandlerFrame
  <1>3. CASE \E c \in Clients, o \in Ops, w \in Windows : Request(c, o, w)
    BY <1>3 DEF Request, winVars
  <1>4. CASE (\E w \in Windows : CloseWindow(w)) \/ (\E a \in answers : Respond(a))
    BY <1>4 DEF CloseWindow, Respond
  <1>5. CASE StopDrain \/ Tick
    BY <1>5 DEF StopDrain, Tick, winVars
  <1>. QED
    BY <1>1, <1>2, <1>3, <1>4, <1>5 DEF Next

\* A write runs in a window while its client holds the write lock, or after its
\* client was told it had failed, or as the second copy of an event whose request
\* was answered (state.rs:73, server.rs:610): for any clients, windows, types and
\* bounds, when ids are distinct and an entry outlives a wait.
THEOREM RunsOutsideTheLockAreLate ==
    ASSUME Distinct PROVE Spec => UnlockedIsLate
  <1>. DEFINE I == FullInv /\ QueueInv /\ EventInv /\ AnswerInv
  <1>1. Init => QueueInv /\ EventInv /\ AnswerInv
    <2>. SUFFICES ASSUME Init PROVE QueueInv /\ EventInv /\ AnswerInv
      OBVIOUS
    <2>1. \A w \in Windows : \A k \in 1..Len(queue[w]) : FALSE
      <3>1. Len(<<>>) = 0
        OBVIOUS
      <3>. QED
        BY <3>1 DEF Init
    <2>2. answers = {} /\ chan = [c \in Clients |-> "empty"]
      BY DEF Init
    <2>. QED
      BY <2>1, <2>2 DEF QueueInv, EventInv, AnswerInv, FirstQueued, Unanswered
  <1>2. I /\ [Next]_vars => QueueInv' /\ EventInv' /\ AnswerInv'
    BY QueueStep, EventStep, AnswerStep DEF FullInv
  <1>3. I /\ [Next]_vars => [RunsLocked]_vars
    <2>. SUFFICES ASSUME I, Next PROVE RunsLocked
      OBVIOUS
    <2>1. ASSUME NEW w \in Windows, Execute(w) PROVE RunsLocked
      BY <2>1, RunIsLocked
    <2>2. CASE \A w \in Windows : ~Execute(w)
      BY <2>2, RanKept DEF RunsLocked
    <2>. QED
      BY <2>1, <2>2
  <1>4. Spec => [][RunsLocked]_vars
    BY <1>1, <1>2, <1>3, FullInvariance, PTL DEF Spec
  <1>. QED
    BY <1>4 DEF UnlockedIsLate, RunsLocked
=============================================================================
