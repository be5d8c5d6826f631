--------------------------- MODULE WorkflowProofs ---------------------------
(* Proofs about WorkflowRunner, for any windows, workflows and bounds. Of    *)
(* the order of the steps only OrderAssumption is used.                      *)
EXTENDS WorkflowRunner, TLAPS

USE BoundsAssumption
USE DEF backend, window, counts, history

-----------------------------------------------------------------------------
(* The runner and the calls have the fields that their steps use.            *)

IsRunner(r) ==
    r = [phase |-> r.phase, exec |-> r.exec, workflow |-> r.workflow, order |-> r.order,
         at |-> r.at, failed |-> r.failed, completed |-> r.completed]

Shapes ==
    /\ runs \in Nat
    /\ ~At("idle") => IsRunner(runner) /\ runner.exec \in 1 .. runs
    /\ \A c \in calls :
          /\ c.kind \in {"start", "claimed"} =>
                /\ c.workflow \in Workflows
                /\ c = [kind |-> c.kind, by |-> c.by, exec |-> c.exec, workflow |-> c.workflow]
                /\ c.exec \in 1 .. runs
          /\ c.kind = "cancel" => c = [kind |-> c.kind, no |-> c.no]
          /\ c.kind \in {"respond", "sending"} => c.verdict \in BOOLEAN
          /\ c.kind = "sending" => c.to = c.key

(* There is one execution at a time: running is set from the claim of a      *)
(* start to the end of its runner.                                           *)
OneExecution ==
    /\ ~At("idle") => running
    /\ \A c \in calls : c.kind = "claimed" => running /\ At("idle")
    /\ \A c, d \in calls : c.kind = "claimed" /\ d.kind = "claimed" => c = d

(* The execution of a call that has not started is not the runner's, nor     *)
(* one whose questions were answered, nor that of another call.              *)
FreshCalls ==
    /\ \A a \in accepted : a.key.exec \in 1 .. runs
    /\ \A key \in ran : key.exec \in 1 .. runs
    /\ \A c \in calls : c.kind \in {"start", "claimed"} =>
          /\ ~At("idle") => c.exec # runner.exec
          /\ \A a \in accepted : a.key.exec # c.exec
          /\ \A key \in ran : key.exec # c.exec
          /\ \A d \in calls : d.kind \in {"start", "claimed"} /\ d.exec = c.exec => d = c

(* The runner goes through a list without repetitions: a step that asked and *)
(* was run is one that it has passed, or the one that runs.                  *)
Busy ==
    \/ At("waiting") \/ At("approved") \/ At("denied") \/ At("running")
    \/ At("expired") \/ At("closed")

Passed ==
    ~At("idle") =>
        /\ runner.at \in Nat \ {0}
        /\ Len(runner.order) \in Nat /\ DOMAIN runner.order = 1 .. Len(runner.order)
        /\ IsInjective(runner.order)
        /\ Busy => runner.at <= Len(runner.order)
        /\ \A key \in ran : key.exec = runner.exec =>
               \E i \in DOMAIN runner.order :
                   /\ runner.order[i] = key.step
                   /\ i < runner.at \/ (i = runner.at /\ At("running"))

(* The step will not run, nor any after it. *)
Lost == runner.failed \/ At("expired") \/ At("closed")

(* A step that asks is past its question with the answer that was taken;     *)
(* a denied step, and one whose answer was missed, leave their execution     *)
(* failed, in which nothing runs.                                            *)
Obeyed ==
    /\ Busy => ~runner.failed
    /\ At("approved") => [key |-> Key, verdict |-> TRUE] \in accepted
    /\ \A a \in accepted :
          ~a.verdict /\ ~At("idle") /\ runner.exec = a.key.exec => Lost \/ At("denied")
    /\ \A key \in missed :
          /\ \E a \in accepted : a.key = key
          /\ ~At("idle") /\ runner.exec = key.exec => Lost

(* An answer that is being sent is to a question that was asked and is out   *)
(* of the registry: it is not asked again.                                   *)
TakenOnce ==
    \A c \in calls : c.kind = "sending" =>
        /\ c.key \notin senders /\ c.key.exec \in 1 .. runs
        /\ \A d \in calls : d.kind \in {"start", "claimed"} => d.exec # c.key.exec
        /\ ~At("idle") /\ c.key.exec = runner.exec =>
               \E i \in DOMAIN runner.order :
                   runner.order[i] = c.key.step /\ (i < runner.at \/ (i = runner.at /\ Busy))

Inv ==
    /\ Shapes /\ OneExecution /\ FreshCalls /\ Passed /\ Obeyed /\ TakenOnce
    /\ NoStaleQuestion /\ ApprovedOnly /\ AnswerIsObeyed

LEMMA InvInit == Init => Inv
  BY DEF Init, Inv, Shapes, OneExecution, FreshCalls, Passed, Obeyed, Lost, TakenOnce,
         NoStaleQuestion, ApprovedOnly, AnswerIsObeyed, At, Busy, NoRunner

(* A step that leaves the runner, the questions and the answers as they are  *)
(* leaves what is said of them true.                                         *)
LEMMA Unmoved ==
    ASSUME Inv, runner' = runner, senders' = senders, accepted' = accepted, ran' = ran,
           missed' = missed, tokens \subseteq tokens'
    PROVE  Passed' /\ Obeyed' /\ NoStaleQuestion' /\ ApprovedOnly' /\ AnswerIsObeyed'
  BY DEF Inv, Passed, Obeyed, Lost, NoStaleQuestion, ApprovedOnly, AnswerIsObeyed, At, Busy, Key, Step

(* A step that leaves the calls and the answers as they are, of a runner     *)
(* that stays with its execution.                                            *)
LEMMA SameCalls ==
    ASSUME Inv, calls' = calls, runs' = runs, accepted' = accepted, running' = running,
           ~At("idle"), IsRunner(runner)', runner'.exec = runner.exec,
           \A key \in ran' : key \in ran \/ key.exec = runner.exec
    PROVE  Shapes' /\ OneExecution' /\ FreshCalls'
  <1>. USE DEF Inv
  <1>1. Shapes'
    BY DEF Shapes
  <1>2. OneExecution'
    BY DEF OneExecution
  <1>3. FreshCalls'
    <2>1. runner.exec \in 1 .. runs
      BY DEF Shapes
    <2>. QED
      BY <2>1 DEF FreshCalls
  <1>. QED
    BY <1>1, <1>2, <1>3

(* A step that sends no other answers and starts nothing that is not new.    *)
LEMMA SameTaken ==
    ASSUME Inv, runner' = runner, senders' = senders, runs' \in Nat, runs <= runs',
           \A c \in calls' : c.kind = "sending" => c \in calls,
           \A d \in calls' : d.kind \in {"start", "claimed"} =>
               \/ d.exec = runs + 1
               \/ \E e \in calls : e.kind \in {"start", "claimed"} /\ e.exec = d.exec
    PROVE  TakenOnce'
  <1>1. runs \in Nat
    BY DEF Inv, Shapes
  <1>. SUFFICES ASSUME NEW c \in calls, c \in calls', c.kind = "sending"
                PROVE  /\ c.key \notin senders' /\ c.key.exec \in 1 .. runs'
                       /\ \A d \in calls' : d.kind \in {"start", "claimed"} => d.exec # c.key.exec
                       /\ ~At("idle")' /\ c.key.exec = runner'.exec =>
                              \E i \in DOMAIN runner'.order :
                                  /\ runner'.order[i] = c.key.step
                                  /\ i < runner'.at \/ (i = runner'.at /\ Busy')
    BY DEF TakenOnce
  <1>2. /\ c.key \notin senders /\ c.key.exec \in 1 .. runs
        /\ \A d \in calls : d.kind \in {"start", "claimed"} => d.exec # c.key.exec
        /\ ~At("idle") /\ c.key.exec = runner.exec =>
               \E i \in DOMAIN runner.order :
                   runner.order[i] = c.key.step /\ (i < runner.at \/ (i = runner.at /\ Busy))
    BY DEF Inv, TakenOnce
  <1>3. c.key.exec \in 1 .. runs' /\ c.key.exec # runs + 1
    BY <1>1, <1>2
  <1>. QED
    BY <1>2, <1>3 DEF At, Busy

(* A step of the runner, which asks only at a step it has not passed.        *)
LEMMA RunnerTaken ==
    ASSUME Inv, calls' = calls, runs' = runs, ~At("idle"),
           runner'.exec = runner.exec, runner'.order = runner.order,
           (runner'.at = runner.at /\ (Busy => Busy')) \/ runner'.at = runner.at + 1,
           senders' \subseteq senders \/
               (At("next") /\ runner.at <= Len(runner.order) /\ senders' = senders \cup {Key})
    PROVE  TakenOnce'
  <1>1. /\ runner.at \in Nat \ {0} /\ DOMAIN runner.order = 1 .. Len(runner.order)
        /\ Len(runner.order) \in Nat /\ IsInjective(runner.order)
    BY DEF Inv, Passed
  <1>. SUFFICES ASSUME NEW c \in calls, c.kind = "sending"
                PROVE  /\ c.key \notin senders' /\ c.key.exec \in 1 .. runs
                       /\ \A d \in calls : d.kind \in {"start", "claimed"} => d.exec # c.key.exec
                       /\ ~At("idle")' /\ c.key.exec = runner'.exec =>
                              \E i \in DOMAIN runner'.order :
                                  /\ runner'.order[i] = c.key.step
                                  /\ i < runner'.at \/ (i = runner'.at /\ Busy')
    BY DEF TakenOnce
  <1>2. /\ c.key \notin senders /\ c.key.exec \in 1 .. runs
        /\ \A d \in calls : d.kind \in {"start", "claimed"} => d.exec # c.key.exec
        /\ c.key.exec = runner.exec =>
               \E i \in DOMAIN runner.order :
                   runner.order[i] = c.key.step /\ (i < runner.at \/ (i = runner.at /\ Busy))
    BY DEF Inv, TakenOnce
  <1>3. ASSUME At("next"), runner.at <= Len(runner.order), c.key = Key PROVE FALSE
    <2>1. c.key.exec = runner.exec /\ c.key.step = runner.order[runner.at]
      BY <1>3 DEF Key, Step
    <2>2. PICK i \in DOMAIN runner.order : runner.order[i] = c.key.step /\ i < runner.at
      BY <1>2, <1>3, <2>1 DEF Busy, At
    <2>3. runner.at \in DOMAIN runner.order /\ i # runner.at
      BY <1>1, <1>3, <2>2
    <2>. QED
      BY <1>1, <2>1, <2>2, <2>3 DEF IsInjective
  <1>4. c.key \notin senders'
    BY <1>2, <1>3
  <1>5. ASSUME c.key.exec = runner'.exec
        PROVE  \E i \in DOMAIN runner'.order :
                   /\ runner'.order[i] = c.key.step
                   /\ i < runner'.at \/ (i = runner'.at /\ Busy')
    <2>1. PICK i \in DOMAIN runner.order :
                runner.order[i] = c.key.step /\ (i < runner.at \/ (i = runner.at /\ Busy))
      BY <1>2, <1>5
    <2>2. i < runner'.at \/ (i = runner'.at /\ Busy')
      BY <1>1, <2>1
    <2>. QED
      BY <2>1, <2>2
  <1>. QED
    BY <1>2, <1>4, <1>5

-----------------------------------------------------------------------------
(* What the user, the windows, the bridges and most of the commands do       *)
(* leaves the runner alone.                                                  *)

LEMMA StartKeeps == ASSUME Inv, NEW w \in Windows, NEW workflow \in Workflows, Start(w, workflow) PROVE Inv'
  <1>. USE DEF Inv, Start
  <1>1. Shapes'
    BY DEF Shapes, At, IsRunner
  <1>2. OneExecution'
    BY DEF Shapes, OneExecution, At
  <1>3. FreshCalls'
    BY DEF Shapes, FreshCalls, OneExecution, At
  <1>4. Passed' /\ Obeyed' /\ NoStaleQuestion' /\ ApprovedOnly' /\ AnswerIsObeyed'
    BY Unmoved
  <1>5. TakenOnce'
    BY SameTaken DEF Shapes
  <1>. QED
    BY <1>1, <1>2, <1>3, <1>4, <1>5

LEMMA CancelKeeps == ASSUME Inv, NEW w \in Windows, Cancel(w) PROVE Inv'
  <1>. USE DEF Inv, Cancel
  <1>1. Shapes'
    BY DEF Shapes, At, IsRunner
  <1>2. OneExecution'
    BY DEF Shapes, OneExecution, At
  <1>3. FreshCalls'
    BY DEF Shapes, FreshCalls, OneExecution, At
  <1>4. Passed' /\ Obeyed' /\ NoStaleQuestion' /\ ApprovedOnly' /\ AnswerIsObeyed'
    BY Unmoved
  <1>5. TakenOnce'
    BY SameTaken DEF Shapes
  <1>. QED
    BY <1>1, <1>2, <1>3, <1>4, <1>5

LEMMA AnswerKeeps == ASSUME Inv, NEW w \in Windows, NEW verdict \in BOOLEAN, Answer(w, verdict) PROVE Inv'
  <1>. USE DEF Inv, Answer
  <1>1. Shapes'
    BY DEF Shapes, At, IsRunner
  <1>2. OneExecution'
    BY DEF Shapes, OneExecution, At
  <1>3. FreshCalls'
    BY DEF Shapes, FreshCalls, OneExecution, At
  <1>4. Passed' /\ Obeyed' /\ NoStaleQuestion' /\ ApprovedOnly' /\ AnswerIsObeyed'
    BY Unmoved
  <1>5. TakenOnce'
    BY SameTaken DEF Shapes
  <1>. QED
    BY <1>1, <1>2, <1>3, <1>4, <1>5

LEMMA ReceiveKeeps == ASSUME Inv, NEW w \in Windows, Receive(w) PROVE Inv'
  <1>. USE DEF Inv, Receive
  <1>1. Shapes'
    BY DEF Shapes, At, IsRunner
  <1>2. OneExecution'
    BY DEF Shapes, OneExecution, At
  <1>3. FreshCalls'
    BY DEF Shapes, FreshCalls, OneExecution, At
  <1>4. Passed' /\ Obeyed' /\ NoStaleQuestion' /\ ApprovedOnly' /\ AnswerIsObeyed'
    BY Unmoved
  <1>5. TakenOnce'
    BY SameTaken DEF Shapes
  <1>. QED
    BY <1>1, <1>2, <1>3, <1>4, <1>5

LEMMA BridgeKeeps == ASSUME Inv, NEW e \in bridges, Bridge(e) PROVE Inv'
  <1>. USE DEF Inv, Bridge
  <1>1. Shapes'
    BY DEF Shapes, At, IsRunner
  <1>2. OneExecution'
    BY DEF Shapes, OneExecution, At
  <1>3. FreshCalls'
    BY DEF Shapes, FreshCalls, OneExecution, At
  <1>4. Passed' /\ Obeyed' /\ NoStaleQuestion' /\ ApprovedOnly' /\ AnswerIsObeyed'
    BY Unmoved
  <1>5. TakenOnce'
    BY SameTaken DEF Shapes
  <1>. QED
    BY <1>1, <1>2, <1>3, <1>4, <1>5

LEMMA ClaimKeeps == ASSUME Inv, NEW c \in calls, Claim(c) PROVE Inv'
  <1>. USE DEF Inv, Claim
  <1>1. Shapes'
    BY DEF Shapes, At, IsRunner
  <1>2. OneExecution'
    BY DEF Shapes, OneExecution, At
  <1>3. FreshCalls'
    BY DEF Shapes, FreshCalls, OneExecution, At
  <1>4. Passed' /\ Obeyed' /\ NoStaleQuestion' /\ ApprovedOnly' /\ AnswerIsObeyed'
    BY Unmoved
  <1>5. TakenOnce'
    BY SameTaken DEF Shapes
  <1>. QED
    BY <1>1, <1>2, <1>3, <1>4, <1>5

LEMMA RejectKeeps == ASSUME Inv, NEW c \in calls, Reject(c) PROVE Inv'
  <1>. USE DEF Inv, Reject
  <1>1. Shapes'
    BY DEF Shapes, At, IsRunner
  <1>2. OneExecution'
    BY DEF Shapes, OneExecution, At
  <1>3. FreshCalls'
    BY DEF Shapes, FreshCalls, OneExecution, At
  <1>4. Passed' /\ Obeyed' /\ NoStaleQuestion' /\ ApprovedOnly' /\ AnswerIsObeyed'
    BY Unmoved
  <1>5. TakenOnce'
    BY SameTaken DEF Shapes
  <1>. QED
    BY <1>1, <1>2, <1>3, <1>4, <1>5

LEMMA RefusedKeeps == ASSUME Inv, NEW c \in calls, Refused(c) PROVE Inv'
  <1>. USE DEF Inv, Refused
  <1>1. Shapes'
    BY DEF Shapes, At, IsRunner
  <1>2. OneExecution'
    BY DEF Shapes, OneExecution, At
  <1>3. FreshCalls'
    BY DEF Shapes, FreshCalls, OneExecution, At
  <1>4. Passed' /\ Obeyed' /\ NoStaleQuestion' /\ ApprovedOnly' /\ AnswerIsObeyed'
    BY Unmoved
  <1>5. TakenOnce'
    BY SameTaken DEF Shapes
  <1>. QED
    BY <1>1, <1>2, <1>3, <1>4, <1>5

LEMMA CancelLoadsKeeps == ASSUME Inv, NEW c \in calls, CancelLoads(c) PROVE Inv'
  <1>. USE DEF Inv, CancelLoads
  <1>1. Shapes'
    BY DEF Shapes, At, IsRunner
  <1>2. OneExecution'
    BY DEF Shapes, OneExecution, At
  <1>3. FreshCalls'
    BY DEF Shapes, FreshCalls, OneExecution, At
  <1>4. Passed' /\ Obeyed' /\ NoStaleQuestion' /\ ApprovedOnly' /\ AnswerIsObeyed'
    BY Unmoved
  <1>5. TakenOnce'
    BY SameTaken DEF Shapes
  <1>. QED
    BY <1>1, <1>2, <1>3, <1>4, <1>5

LEMMA CancelStoresKeeps == ASSUME Inv, NEW c \in calls, CancelStores(c) PROVE Inv'
  <1>. USE DEF Inv, CancelStores
  <1>1. Shapes'
    BY DEF Shapes, At, IsRunner
  <1>2. OneExecution'
    BY DEF Shapes, OneExecution, At
  <1>3. FreshCalls'
    BY DEF Shapes, FreshCalls, OneExecution, At
  <1>4. Passed' /\ Obeyed' /\ NoStaleQuestion' /\ ApprovedOnly' /\ AnswerIsObeyed'
    BY Unmoved
  <1>5. TakenOnce'
    BY SameTaken DEF Shapes
  <1>. QED
    BY <1>1, <1>2, <1>3, <1>4, <1>5

LEMMA AnsweredKeeps == ASSUME Inv, NEW c \in calls, Answered(c) PROVE Inv'
  <1>. USE DEF Inv, Answered
  <1>1. Shapes'
    BY DEF Shapes, At, IsRunner
  <1>2. OneExecution'
    BY DEF Shapes, OneExecution, At
  <1>3. FreshCalls'
    BY DEF Shapes, FreshCalls, OneExecution, At
  <1>4. Passed' /\ Obeyed' /\ NoStaleQuestion' /\ ApprovedOnly' /\ AnswerIsObeyed'
    BY Unmoved
  <1>5. TakenOnce'
    BY SameTaken DEF Shapes
  <1>. QED
    BY <1>1, <1>2, <1>3, <1>4, <1>5

-----------------------------------------------------------------------------
(* The start of a runner, and an answer.                                     *)

LEMMA SpawnKeeps == ASSUME Inv, NEW c \in calls, Spawn(c) PROVE Inv'
  <1>. USE DEF Inv
  <1>1. c.kind = "claimed" /\ At("idle") /\ running /\ c.exec \in 1 .. runs
    BY DEF Spawn, OneExecution, Shapes
  <1>a. /\ runner'.order = Order(c.workflow) /\ runner'.at = 1 /\ c.workflow \in Workflows
    BY <1>1 DEF Spawn, Shapes
  <1>2. /\ IsRunner(runner') /\ runner'.exec = c.exec /\ runner'.phase \in {"next", "done"}
        /\ calls' = calls \ {c} /\ runs' = runs /\ running' = running
        /\ senders' = senders /\ tokens' = tokens /\ accepted' = accepted
        /\ ran' = ran /\ missed' = missed
    BY DEF Spawn, IsRunner
  <1>3. Shapes'
    BY <1>1, <1>2 DEF Shapes, At, IsRunner
  <1>4. OneExecution'
    BY <1>1, <1>2 DEF OneExecution, At
  <1>5. FreshCalls'
    BY <1>1, <1>2 DEF FreshCalls, At
  <1>6. \A a \in accepted : a.key.exec # c.exec
    BY <1>1 DEF FreshCalls
  <1>b. \A key \in ran : key.exec # c.exec
    BY <1>1 DEF FreshCalls
  <1>c. Passed'
    <2>1. Order(c.workflow) \in Seq(StepsOf(c.workflow)) /\ IsInjective(Order(c.workflow))
      BY <1>a, OrderAssumption
    <2>2. Len(runner'.order) \in Nat /\ DOMAIN runner'.order = 1 .. Len(runner'.order)
      BY <1>a, <2>1
    <2>3. IsInjective(runner'.order) /\ runner'.at \in Nat \ {0}
      BY <1>a, <2>1
    <2>. QED
      BY <1>2, <1>b, <2>2, <2>3 DEF Passed, Busy, At
  <1>7. Obeyed' /\ ApprovedOnly'
    <2>1. \A key \in missed : (\E a \in accepted : a.key = key) /\ key.exec # c.exec
      BY <1>6 DEF Obeyed
    <2>. QED
      BY <1>2, <1>6, <2>1 DEF Obeyed, Lost, ApprovedOnly, Busy, At
  <1>8. NoStaleQuestion'
    BY <1>1, <1>2 DEF NoStaleQuestion, At
  <1>9. AnswerIsObeyed'
    BY <1>1, <1>2 DEF AnswerIsObeyed, At
  <1>d. TakenOnce'
    BY <1>1, <1>2 DEF TakenOnce, At
  <1>. QED
    BY <1>3, <1>4, <1>5, <1>c, <1>d, <1>7, <1>8, <1>9

(* The step that is asked about has not been run. *)
LEMMA AskedIsNotRun == ASSUME Inv, Busy, ~At("running") PROVE Key \notin ran
  <1>. SUFFICES ASSUME Key \in ran PROVE FALSE
    OBVIOUS
  <1>1. Passed /\ ~At("idle")
    BY DEF Inv, Busy, At
  <1>2. Key.exec = runner.exec /\ Key.step = runner.order[runner.at]
    BY DEF Key, Step
  <1>3. PICK i \in DOMAIN runner.order : runner.order[i] = Key.step /\ i < runner.at
    BY <1>1, <1>2 DEF Passed
  <1>4. runner.at \in DOMAIN runner.order
    BY <1>1 DEF Passed
  <1>. QED
    BY <1>1, <1>2, <1>3, <1>4 DEF Passed, IsInjective

LEMMA RespondKeeps == ASSUME Inv, NEW c \in calls, Respond(c) PROVE Inv'
  <1>. USE DEF Inv
  <1>1. /\ c.kind = "respond" /\ c.verdict \in BOOLEAN
        /\ runner' = runner /\ runs' = runs /\ running' = running /\ tokens' = tokens
        /\ ran' = ran /\ accepted' = accepted /\ missed' = missed
        /\ senders' \subseteq senders
    BY DEF Respond, Shapes
  <1>2. PICK d : /\ calls' = (calls \ {c}) \cup {d}
                 /\ \/ d.kind = "answered"
                    \/ /\ d.kind = "sending" /\ d.verdict = c.verdict /\ d.to = d.key
                       /\ d.key \in senders /\ d.key \notin senders'
    <2>1. CASE Asked(c.key) = {}
      <3>1. calls' = (calls \ {c}) \cup {Reply(c)} /\ Reply(c).kind = "answered"
        BY <2>1 DEF Respond, Reply
      <3>. QED
        BY <3>1
    <2>2. CASE Asked(c.key) # {}
      <3>1. PICK key \in Asked(c.key) :
              calls' = (calls \ {c}) \cup
                  {[kind |-> "sending", by |-> c.by, key |-> c.key, to |-> key,
                    verdict |-> c.verdict, no |-> c.no]}
        BY <2>2 DEF Respond
      <3>2. key = c.key
        BY DEF Asked
      <3>. DEFINE d == [kind |-> "sending", by |-> c.by, key |-> c.key, to |-> key,
                        verdict |-> c.verdict, no |-> c.no]
      <3>3. d.kind = "sending" /\ d.verdict = c.verdict /\ d.to = d.key /\ d.key = c.key
        BY <3>2
      <3>4. calls' = (calls \ {c}) \cup {d}
        BY <3>1
      <3>5. c.key \in senders /\ c.key \notin senders'
        BY <3>2 DEF Respond, Asked
      <3>. HIDE DEF d
      <3>. QED
        BY <3>3, <3>4, <3>5
    <2>. QED
      BY <2>1, <2>2
  <1>3. Shapes'
    BY <1>1, <1>2 DEF Shapes, At, IsRunner
  <1>4. OneExecution'
    BY <1>1, <1>2 DEF OneExecution, At
  <1>5. FreshCalls'
    BY <1>1, <1>2 DEF FreshCalls, At
  <1>6. Passed' /\ Obeyed' /\ ApprovedOnly' /\ AnswerIsObeyed'
    BY <1>1 DEF Passed, Obeyed, Lost, ApprovedOnly, AnswerIsObeyed, At, Busy, Key, Step
  <1>7. NoStaleQuestion'
    BY <1>1 DEF NoStaleQuestion, At, Key, Step
  <1>8. TakenOnce'
    <2>. DEFINE Gone(e) ==
            /\ e.key \notin senders' /\ e.key.exec \in 1 .. runs'
            /\ \A f \in calls' : f.kind \in {"start", "claimed"} => f.exec # e.key.exec
            /\ ~At("idle") /\ e.key.exec = runner.exec =>
                   \E i \in DOMAIN runner.order :
                       runner.order[i] = e.key.step /\ (i < runner.at \/ (i = runner.at /\ Busy))
    <2>1. \A e \in calls' : e.kind \in {"start", "claimed"} => e \in calls
      BY <1>2
    <2>2. ASSUME NEW e \in calls, e.kind = "sending" PROVE Gone(e)
      BY <1>1, <2>1, <2>2 DEF TakenOnce
    <2>3. ASSUME d.kind = "sending" PROVE Gone(d)
      <3>1. d.key \in senders /\ d.key \notin senders'
        BY <1>2, <2>3
      <3>2. Busy /\ Key = d.key /\ ~At("idle")
        BY <3>1 DEF NoStaleQuestion, Busy, At
      <3>3. d.key.exec = runner.exec /\ d.key.step = runner.order[runner.at]
        BY <3>2 DEF Key, Step
      <3>4. runner.exec \in 1 .. runs /\ runner.at \in DOMAIN runner.order
        BY <3>2 DEF Shapes, Passed
      <3>5. \A f \in calls : f.kind \in {"start", "claimed"} => f.exec # runner.exec
        BY <3>2 DEF FreshCalls
      <3>. QED
        BY <1>1, <2>1, <3>1, <3>2, <3>3, <3>4, <3>5
    <2>4. (At("idle")' <=> At("idle")) /\ (Busy' <=> Busy) /\ runner' = runner
      BY <1>1 DEF At, Busy
    <2>5. \A e \in calls' : e.kind = "sending" => Gone(e)
      <3>. HIDE DEF Gone
      <3>. QED
        BY <1>2, <2>2, <2>3
    <2>. QED
      BY <2>4, <2>5 DEF TakenOnce
  <1>. QED
    BY <1>3, <1>4, <1>5, <1>6, <1>7, <1>8

(* An answer that is delivered, in time or after the runner's last look.     *)
LEMMA SendKeeps == ASSUME Inv, NEW c \in calls, Send(c) PROVE Inv'
  <1>. USE DEF Inv
  <1>1. /\ c.kind = "sending" /\ c.verdict \in BOOLEAN /\ c.to = c.key
        /\ calls' = (calls \ {c}) \cup {[kind |-> "answered", by |-> c.by, no |-> c.no]}
        /\ runs' = runs /\ running' = running /\ tokens' = tokens /\ ran' = ran
        /\ senders' = senders
    BY DEF Send, Shapes, Reply
  <1>2. CASE ~Open(c.to)
    <2>1. runner' = runner /\ accepted' = accepted /\ missed' = missed
      BY <1>2 DEF Send
    <2>2. Shapes'
      BY <1>1, <2>1 DEF Shapes, At, IsRunner
    <2>3. OneExecution'
      BY <1>1, <2>1 DEF OneExecution, At
    <2>4. FreshCalls'
      BY <1>1, <2>1 DEF FreshCalls, At
    <2>5. Passed' /\ Obeyed' /\ NoStaleQuestion' /\ ApprovedOnly' /\ AnswerIsObeyed'
      BY <1>1, <2>1, Unmoved
    <2>6. TakenOnce'
      BY <1>1, <2>1, SameTaken DEF Shapes
    <2>. QED
      BY <2>2, <2>3, <2>4, <2>5, <2>6
  <1>3. CASE Open(c.to)
    <2>1. (At("waiting") \/ At("expired")) /\ Key = c.key /\ IsRunner(runner) /\ ~At("idle")
      BY <1>1, <1>3 DEF Open, Shapes, At
    <2>2. accepted' = accepted \cup {[key |-> c.key, verdict |-> c.verdict]}
      BY <1>3 DEF Send
    <2>3. c.key.exec = runner.exec /\ runner.exec \in 1 .. runs
      BY <2>1 DEF Key, Shapes
    <2>4. c.key \notin ran
      BY <2>1, AskedIsNotRun DEF Busy, At
    <2>5. ~runner.failed
      BY <2>1 DEF Obeyed, Busy
    <2>6. /\ IsRunner(runner') /\ runner'.exec = runner.exec /\ runner'.failed = runner.failed
          /\ runner'.at = runner.at /\ runner'.order = runner.order /\ Key' = c.key
          /\ missed' = missed \/ missed' = missed \cup {c.key}
          /\ At("waiting") => /\ missed' = missed
                              /\ runner'.phase = (IF c.verdict THEN "approved" ELSE "denied")
          /\ At("expired") => runner' = runner /\ missed' = missed \cup {c.key}
      BY <1>3, <2>1 DEF Send, IsRunner, Key, Step, At
    <2>7. Shapes'
      BY <1>1, <2>3, <2>6 DEF Shapes, At, IsRunner
    <2>8. OneExecution'
      BY <1>1, <2>1, <2>6 DEF OneExecution, At
    <2>9. FreshCalls'
      BY <1>1, <2>1, <2>2, <2>3, <2>6 DEF FreshCalls, At
    <2>10. Passed'
      <3>1. CASE At("waiting")
        BY <1>1, <2>1, <2>6, <3>1 DEF Passed, Busy, At
      <3>2. CASE At("expired")
        <4>1. runner' = runner
          BY <2>6, <3>2
        <4>. QED
          BY <1>1, <4>1 DEF Passed, Busy, At
      <3>. QED
        BY <2>1, <3>1, <3>2
    <2>11. NoStaleQuestion'
      <3>1. senders' = {}
        BY <1>1, <2>1 DEF NoStaleQuestion, TakenOnce
      <3>. QED
        BY <3>1 DEF NoStaleQuestion
    <2>12. ApprovedOnly'
      BY <2>1, <2>6 DEF ApprovedOnly, At
    <2>13. Obeyed'
      <3>1. CASE At("waiting")
        <4>1. /\ \A a \in accepted : ~a.verdict => a.key.exec # runner.exec
              /\ \A key \in missed : key.exec # runner.exec
          BY <2>1, <2>5, <3>1 DEF Obeyed, Lost, At
        <4>2. missed' = missed /\ runner'.phase = (IF c.verdict THEN "approved" ELSE "denied")
          BY <2>6, <3>1
        <4>3. \A a \in accepted' : ~a.verdict /\ runner'.exec = a.key.exec => At("denied")'
          BY <2>2, <2>6, <4>1, <4>2 DEF At
        <4>4. At("approved")' => [key |-> Key', verdict |-> TRUE] \in accepted'
          BY <1>1, <2>2, <2>6, <4>2 DEF At
        <4>5. \A key \in missed' : (\E a \in accepted' : a.key = key) /\ runner'.exec # key.exec
          BY <2>2, <2>6, <4>1, <4>2 DEF Obeyed
        <4>. QED
          BY <2>5, <2>6, <4>3, <4>4, <4>5 DEF Obeyed
      <3>2. CASE At("expired")
        <4>1. runner' = runner /\ missed' = missed \cup {c.key}
          BY <2>6, <3>2
        <4>2. \A key \in missed' : \E a \in accepted' : a.key = key
          <5>1. \A key \in missed : \E a \in accepted : a.key = key
            BY DEF Obeyed
          <5>2. [key |-> c.key, verdict |-> c.verdict].key = c.key
            OBVIOUS
          <5>. QED
            BY <2>2, <4>1, <5>1, <5>2
        <4>. QED
          BY <2>5, <3>2, <4>1, <4>2 DEF Obeyed, Lost, At
      <3>. QED
        BY <2>1, <3>1, <3>2
    <2>14. AnswerIsObeyed'
      <3>. SUFFICES ASSUME NEW a \in accepted'
                    PROVE  IF a.verdict /\ a.key \notin missed'
                           THEN \/ a.key \in ran'
                                \/ a.key.exec \in tokens'
                                \/ At("approved")' /\ Key' = a.key
                           ELSE a.key \notin ran'
        BY DEF AnswerIsObeyed
      <3>1. missed \subseteq missed' /\ missed' \subseteq missed \cup {c.key}
        BY <2>6
      <3>2. CASE a \in accepted
        <4>1. ~At("approved")
          BY <2>1 DEF At
        <4>2. IF a.verdict /\ a.key \notin missed
              THEN a.key \in ran \/ a.key.exec \in tokens ELSE a.key \notin ran
          BY <3>2, <4>1 DEF AnswerIsObeyed
        <4>. QED
          BY <1>1, <2>4, <3>1, <4>2
      <3>3. CASE a = [key |-> c.key, verdict |-> c.verdict]
        <4>1. CASE c.verdict /\ c.key \notin missed'
          <5>1. At("waiting")
            BY <2>1, <2>6, <4>1
          <5>2. At("approved")' /\ Key' = c.key
            BY <2>6, <4>1, <5>1 DEF At
          <5>. QED
            BY <3>3, <4>1, <5>2
        <4>2. CASE ~(c.verdict /\ c.key \notin missed')
          BY <1>1, <2>4, <3>3, <4>2
        <4>. QED
          BY <4>1, <4>2
      <3>. QED
        BY <2>2, <3>2, <3>3
    <2>15. TakenOnce'
      <3>1. Busy /\ Busy'
        BY <2>1, <2>6 DEF Busy, At
      <3>2. \A e \in calls' : e.kind # "answered" => e \in calls
        BY <1>1
      <3>. QED
        BY <1>1, <2>1, <2>6, <3>1, <3>2 DEF TakenOnce
    <2>. QED
      BY <2>7, <2>8, <2>9, <2>10, <2>11, <2>12, <2>13, <2>14, <2>15
  <1>. QED
    BY <1>2, <1>3

-----------------------------------------------------------------------------
(* The runner goes on.                                                       *)

LEMMA NextStepKeeps == ASSUME Inv, NextStep PROVE Inv'
  <1>. USE DEF Inv
  <1>1. /\ At("next") /\ IsRunner(runner) /\ ~At("idle")
        /\ calls' = calls /\ runs' = runs /\ accepted' = accepted /\ running' = running
        /\ ran' = ran /\ tokens' = tokens /\ missed' = missed /\ runner.at <= Len(runner.order)
    BY DEF NextStep, Shapes, At
  <1>2. senders = {}
    BY <1>1 DEF NoStaleQuestion, At
  <1>3. CASE Skipped
    <2>1. /\ IsRunner(runner)' /\ runner'.exec = runner.exec /\ runner'.phase = "next"
          /\ runner'.order = runner.order /\ runner'.at = runner.at + 1
          /\ runner.failed => runner'.failed
          /\ senders' = senders
      BY <1>1, <1>3 DEF NextStep, IsRunner, Past, Failed
    <2>2. Shapes' /\ OneExecution' /\ FreshCalls'
      BY <1>1, <2>1, SameCalls
    <2>3. Passed'
      BY <1>1, <2>1 DEF Passed, Busy, At
    <2>4. TakenOnce'
      BY <1>1, <2>1, RunnerTaken
    <2>. QED
      BY <1>1, <1>2, <2>1, <2>2, <2>3, <2>4
         DEF Obeyed, Lost, NoStaleQuestion, ApprovedOnly, AnswerIsObeyed, Busy, At
  <1>4. CASE ~Skipped
    <2>1. /\ IsRunner(runner)' /\ runner'.exec = runner.exec /\ Key' = Key
          /\ runner'.order = runner.order /\ runner'.at = runner.at
          /\ runner'.workflow = runner.workflow
          /\ runner'.failed = runner.failed /\ ~runner.failed
          /\ \/ runner'.phase = "waiting" /\ senders' = senders \cup {Key}
             \/ /\ runner'.phase = "running" /\ senders' = senders
                /\ Step \notin runner.workflow.asks
      BY <1>1, <1>4 DEF NextStep, Skipped, IsRunner, Key, Step
    <2>2. Shapes' /\ OneExecution' /\ FreshCalls'
      BY <1>1, <2>1, SameCalls
    <2>3. Passed'
      BY <1>1, <2>1 DEF Passed, Busy, At
    <2>4. Obeyed' /\ AnswerIsObeyed'
      BY <1>1, <2>1 DEF Obeyed, Lost, AnswerIsObeyed, Busy, At
    <2>5. NoStaleQuestion'
      BY <1>2, <2>1 DEF NoStaleQuestion, At
    <2>6. ApprovedOnly'
      BY <2>1 DEF ApprovedOnly, Step, At
    <2>7. TakenOnce'
      BY <1>1, <2>1, RunnerTaken DEF Busy, At
    <2>. QED
      BY <2>2, <2>3, <2>4, <2>5, <2>6, <2>7
  <1>. QED
    BY <1>3, <1>4

(* The wait for an answer is over; the question may still be answered.       *)
Shuts ==
    /\ At("waiting") \/ At("approved") \/ At("denied") \/ At("expired")
    /\ \E p \in {"expired", "closed"} : runner' = [runner EXCEPT !.phase = p]
    /\ At("approved") => runner.exec \in tokens
    /\ calls' = calls /\ runs' = runs /\ running' = running /\ senders' = senders
    /\ accepted' = accepted /\ ran' = ran /\ missed' = missed /\ tokens' = tokens

LEMMA ShutsKeeps == ASSUME Inv, Shuts PROVE Inv'
  <1>. USE DEF Inv
  <1>1. IsRunner(runner) /\ ~At("idle") /\ Busy
    BY DEF Shuts, Shapes, Busy, At
  <1>2. /\ IsRunner(runner)' /\ runner'.exec = runner.exec /\ runner'.phase \in {"expired", "closed"}
        /\ runner'.order = runner.order /\ runner'.at = runner.at /\ Key' = Key
        /\ runner'.failed = runner.failed
    BY <1>1 DEF Shuts, IsRunner, Key, Step
  <1>3. Shapes' /\ OneExecution' /\ FreshCalls'
    BY <1>1, <1>2, SameCalls DEF Shuts
  <1>4. Passed'
    BY <1>1, <1>2 DEF Shuts, Passed, Busy, At
  <1>5. Obeyed' /\ ApprovedOnly'
    BY <1>1, <1>2 DEF Shuts, Obeyed, Lost, ApprovedOnly, Busy, At
  <1>6. NoStaleQuestion'
    BY <1>2 DEF Shuts, NoStaleQuestion, At
  <1>7. AnswerIsObeyed'
    BY DEF Shuts, AnswerIsObeyed, Key, At
  <1>8. TakenOnce'
    <2>1. Busy'
      BY <1>2 DEF Busy, At
    <2>. QED
      BY <1>1, <1>2, <2>1, RunnerTaken DEF Shuts
  <1>. QED
    BY <1>3, <1>4, <1>5, <1>6, <1>7, <1>8

(* The runner is done with the step it is at, having failed or not.          *)
Over ==
    /\ At("next") \/ At("closed") \/ At("denied") \/ At("running")
    /\ \/ runner' = Failed(runner)
       \/ At("running") /\ \E s : runner' = [Past(runner) EXCEPT !.completed = s]
    /\ senders' = senders \ {Key} \/ (~At("closed") /\ senders' = senders)
    /\ calls' = calls /\ runs' = runs /\ running' = running
    /\ accepted' = accepted /\ ran' = ran /\ missed' = missed
    /\ tokens \subseteq tokens'

LEMMA OverKeeps == ASSUME Inv, Over PROVE Inv'
  <1>. USE DEF Inv
  <1>1. IsRunner(runner) /\ ~At("idle")
    BY DEF Over, Shapes, Busy, At
  <1>2. /\ IsRunner(runner)' /\ runner'.exec = runner.exec /\ runner'.phase = "next"
        /\ runner'.order = runner.order /\ runner'.at = runner.at + 1
        /\ runner'.failed \/ (At("running") /\ runner'.failed = runner.failed)
    <2>1. CASE runner' = Failed(runner)
      BY <1>1, <2>1 DEF IsRunner, Past, Failed
    <2>2. CASE At("running") /\ \E s : runner' = [Past(runner) EXCEPT !.completed = s]
      BY <1>1, <2>2 DEF IsRunner, Past
    <2>. QED
      BY <2>1, <2>2 DEF Over
  <1>3. Shapes' /\ OneExecution' /\ FreshCalls'
    BY <1>1, <1>2, SameCalls DEF Over
  <1>4. Passed'
    <2>1. runner.at \in Nat \ {0} /\ DOMAIN runner.order \subseteq Nat
      BY <1>1 DEF Passed
    <2>2. ~Busy' /\ runner'.at \in Nat \ {0}
      BY <1>2, <2>1 DEF Busy, At
    <2>3. ASSUME NEW key \in ran', key.exec = runner'.exec
          PROVE  \E i \in DOMAIN runner'.order : runner'.order[i] = key.step /\ i < runner'.at
      <3>1. PICK i \in DOMAIN runner.order :
                 runner.order[i] = key.step /\ (i < runner.at \/ i = runner.at)
        BY <1>1, <1>2, <2>3 DEF Over, Passed
      <3>. QED
        BY <1>2, <2>1, <3>1
    <2>4. /\ Len(runner'.order) \in Nat /\ DOMAIN runner'.order = 1 .. Len(runner'.order)
          /\ IsInjective(runner'.order)
      BY <1>1, <1>2 DEF Passed
    <2>. QED
      BY <2>2, <2>3, <2>4 DEF Passed
  <1>5. Obeyed' /\ ApprovedOnly'
    BY <1>2 DEF Over, Obeyed, Lost, ApprovedOnly, Busy, At
  <1>6. NoStaleQuestion'
    <2>1. senders' = {}
      BY DEF Over, NoStaleQuestion, At
    <2>. QED
      BY <2>1 DEF NoStaleQuestion
  <1>7. AnswerIsObeyed'
    BY DEF Over, AnswerIsObeyed, Key, At
  <1>8. TakenOnce'
    BY <1>1, <1>2, RunnerTaken DEF Over
  <1>. QED
    BY <1>3, <1>4, <1>5, <1>6, <1>7, <1>8

LEMMA StepIsOver ==
    ASSUME Inv, BadParameters \/ DropPending \/ StepEnds \/ (Proceed /\ At("denied"))
    PROVE  Inv'
  <1>1. CASE BadParameters
    BY <1>1, OverKeeps DEF BadParameters, Over, At
  <1>2. CASE DropPending
    BY <1>2, OverKeeps DEF DropPending, Over, At
  <1>3. CASE StepEnds
    BY <1>3, OverKeeps DEF StepEnds, Over, At
  <1>4. CASE Proceed /\ At("denied")
    BY <1>4, OverKeeps DEF Proceed, Over, At
  <1>. QED
    BY <1>1, <1>2, <1>3, <1>4

LEMMA WaitIsOver == ASSUME Inv, Abandon \/ TimeOut \/ DropReceiver PROVE Inv'
  BY ShutsKeeps DEF Abandon, TimeOut, DropReceiver, LooksNoMore, Shuts, At

(* An approved step runs. *)
LEMMA ProceedKeeps == ASSUME Inv, Proceed, At("approved") PROVE Inv'
  <1>. USE DEF Inv
  <1>1. /\ IsRunner(runner) /\ ~At("idle") /\ runner' = [runner EXCEPT !.phase = "running"]
        /\ ran' = ran \cup {Key} /\ senders' = senders /\ tokens' = tokens /\ missed' = missed
        /\ calls' = calls /\ runs' = runs /\ accepted' = accepted /\ running' = running
    BY DEF Proceed, Shapes, At
  <1>2. /\ IsRunner(runner)' /\ runner'.exec = runner.exec /\ runner'.phase = "running"
        /\ runner'.order = runner.order /\ runner'.at = runner.at /\ Key' = Key /\ Step' = Step
        /\ runner'.failed = runner.failed /\ runner'.workflow = runner.workflow
    BY <1>1 DEF IsRunner, Key, Step
  <1>3. Key.exec = runner.exec /\ Key.step = runner.order[runner.at]
    BY DEF Key, Step
  <1>4. Shapes' /\ OneExecution' /\ FreshCalls'
    BY <1>1, <1>2, <1>3, SameCalls
  <1>5. Passed'
    BY <1>1, <1>2, <1>3 DEF Passed, Busy, At
  <1>6. Obeyed' /\ ApprovedOnly' /\ NoStaleQuestion'
    BY <1>1, <1>2 DEF Obeyed, Lost, ApprovedOnly, NoStaleQuestion, Busy, At
  <1>7. AnswerIsObeyed'
    <2>1. (\A a \in accepted : ~a.verdict => a.key # Key) /\ Key \notin missed
      BY <1>1, <1>3 DEF Obeyed, Lost, Busy, At
    <2>. QED
      BY <1>1, <2>1 DEF AnswerIsObeyed
  <1>8. TakenOnce'
    <2>1. Busy'
      BY <1>2 DEF Busy, At
    <2>. QED
      BY <1>1, <1>2, <2>1, RunnerTaken
  <1>. QED
    BY <1>4, <1>5, <1>6, <1>7, <1>8

(* The windows are told, and then the runner ends. *)
LEMMA CompleteKeeps == ASSUME Inv, Complete PROVE Inv'
  <1>. USE DEF Inv
  <1>1. /\ At("next") /\ IsRunner(runner) /\ ~At("idle") /\ runner' = [runner EXCEPT !.phase = "done"]
        /\ ran' = ran /\ senders' = senders /\ tokens' = tokens /\ missed' = missed
        /\ calls' = calls /\ runs' = runs /\ accepted' = accepted /\ running' = running
    BY DEF Complete, Shapes, At
  <1>2. /\ IsRunner(runner)' /\ runner'.exec = runner.exec /\ runner'.phase = "done"
        /\ runner'.order = runner.order /\ runner'.at = runner.at /\ runner'.failed = runner.failed
    BY <1>1 DEF IsRunner
  <1>3. Shapes' /\ OneExecution' /\ FreshCalls'
    BY <1>1, <1>2, SameCalls
  <1>4. Passed'
    BY <1>1, <1>2 DEF Passed, Busy, At
  <1>5. TakenOnce'
    <2>1. ~Busy
      BY <1>1 DEF Busy, At
    <2>. QED
      BY <1>1, <1>2, <2>1, RunnerTaken
  <1>. QED
    BY <1>1, <1>2, <1>3, <1>4, <1>5
       DEF Obeyed, Lost, NoStaleQuestion, ApprovedOnly, AnswerIsObeyed, Busy, At

LEMMA ReleaseKeeps == ASSUME Inv, Release PROVE Inv'
  <1>. USE DEF Inv
  <1>1. /\ At("done") /\ ~At("idle") /\ At("idle")' /\ runner'.phase = "idle"
        /\ ran' = ran /\ senders' = senders /\ tokens' = tokens /\ missed' = missed
        /\ calls' = calls /\ runs' = runs /\ accepted' = accepted
    BY DEF Release, NoRunner, At
  <1>2. Shapes'
    BY <1>1 DEF Shapes
  <1>3. OneExecution'
    BY <1>1 DEF OneExecution
  <1>4. FreshCalls' /\ Passed'
    BY <1>1 DEF FreshCalls, Passed
  <1>5. TakenOnce'
    BY <1>1 DEF TakenOnce
  <1>. QED
    BY <1>1, <1>2, <1>3, <1>4, <1>5
       DEF Obeyed, Lost, NoStaleQuestion, ApprovedOnly, AnswerIsObeyed, Busy, At

-----------------------------------------------------------------------------
LEMMA InvStep == Inv /\ [Next]_vars => Inv'
  <1>. SUFFICES ASSUME Inv, [Next]_vars PROVE Inv'
    OBVIOUS
  <1>1. CASE \E w \in Windows : User(w) \/ Receive(w)
    BY <1>1, StartKeeps, CancelKeeps, AnswerKeeps, ReceiveKeeps DEF User
  <1>2. CASE \E c \in calls : Command(c)
    BY <1>2, ClaimKeeps, SpawnKeeps, RejectKeeps, RefusedKeeps, CancelLoadsKeeps,
       CancelStoresKeeps, RespondKeeps, SendKeeps, AnsweredKeeps DEF Command
  <1>3. CASE Runner
    <2>1. Proceed => At("approved") \/ At("denied")
      BY DEF Proceed
    <2>. QED
      BY <1>3, <2>1, NextStepKeeps, StepIsOver, WaitIsOver, ProceedKeeps, CompleteKeeps, ReleaseKeeps DEF Runner
  <1>4. CASE \E e \in bridges : Bridge(e)
    BY <1>4, BridgeKeeps
  <1>5. CASE UNCHANGED vars
    <2>1. /\ runner' = runner /\ senders' = senders /\ runs' = runs /\ calls' = calls
          /\ tokens' = tokens /\ running' = running /\ ran' = ran
          /\ accepted' = accepted /\ missed' = missed
      BY <1>5 DEF vars, history
    <2>2. TakenOnce'
      BY <2>1, SameTaken DEF Inv, Shapes
    <2>3. Shapes' /\ OneExecution' /\ FreshCalls'
      BY <2>1 DEF Inv, Shapes, OneExecution, FreshCalls, At
    <2>4. /\ Passed' /\ Obeyed' /\ NoStaleQuestion'
          /\ ApprovedOnly' /\ AnswerIsObeyed'
      BY <2>1 DEF Inv, Passed, Obeyed, Lost, NoStaleQuestion, ApprovedOnly, AnswerIsObeyed,
                  At, Busy, Key, Step
    <2>. QED
      BY <2>2, <2>3, <2>4 DEF Inv
  <1>. QED
    BY <1>1, <1>2, <1>3, <1>4, <1>5 DEF Next

LEMMA InvHolds == Spec => []Inv
  BY InvInit, InvStep, PTL DEF Spec

-----------------------------------------------------------------------------
(* The types. A dialog shows the key of an event, and the runner's steps are *)
(* those of a workflow.                                                      *)

Messages == [kind : {"ask"}, key : Keys] \cup [kind : {"complete"}, exec : 1 .. MaxRuns]

RunnerTypes ==
    ~At("idle") =>
        /\ runner.phase \in {"next", "waiting", "approved", "denied", "expired", "closed",
                             "running", "done"}
        /\ runner.at \in 1 .. Len(runner.order) + 1
        /\ runner.completed \subseteq StepsOf(runner.workflow)
        /\ runner.workflow \in Workflows
        /\ runner.order \in Seq(StepsOf(runner.workflow))

BackendTypes ==
    /\ running \in BOOLEAN /\ flag \in BOOLEAN /\ runs <= MaxRuns
    /\ tokens \subseteq 1 .. MaxRuns /\ bridges \subseteq 1 .. MaxRuns /\ senders \subseteq Keys
    /\ ran \subseteq Keys /\ accepted \subseteq [key : Keys, verdict : BOOLEAN]
    /\ missed \subseteq Keys

WindowTypes ==
    /\ current \in [Windows -> {None} \cup 1 .. MaxRuns]
    /\ dialog \in [Windows -> {None} \cup Keys]
    /\ events \in [Windows -> Seq(Messages)]

Types == RunnerTypes /\ BackendTypes /\ WindowTypes

LEMMA TypesInit == Init => Types
  <1>. SUFFICES ASSUME Init PROVE Types
    OBVIOUS
  <1>1. RunnerTypes
    BY DEF Init, RunnerTypes, NoRunner, At
  <1>2. BackendTypes
    <2>1. runs <= MaxRuns
      BY DEF Init
    <2>. QED
      BY <2>1 DEF Init, BackendTypes
  <1>3. WindowTypes
    <2>1. <<>> \in Seq(Messages)
      OBVIOUS
    <2>2. events \in [Windows -> Seq(Messages)]
      BY <2>1 DEF Init
    <2>3. /\ current \in [Windows -> {None} \cup 1 .. MaxRuns]
          /\ dialog \in [Windows -> {None} \cup Keys]
      BY DEF Init
    <2>. QED
      BY <2>2, <2>3 DEF WindowTypes
  <1>. QED
    BY <1>1, <1>2, <1>3 DEF Types

(* The step that the runner is at is one of its workflow.                    *)
LEMMA StepIsOfWorkflow ==
    ASSUME Inv, Types, ~At("idle"), runner.at <= Len(runner.order)
    PROVE  /\ Step \in StepsOf(runner.workflow) /\ Key \in Keys
           /\ runner.at + 1 \in 1 .. Len(runner.order) + 1
  <1>1. /\ runner.order \in Seq(StepsOf(runner.workflow)) /\ runner.workflow \in Workflows
        /\ runner.at \in 1 .. Len(runner.order) /\ runner.at + 1 \in 1 .. Len(runner.order) + 1
    BY DEF Types, RunnerTypes
  <1>2. Step \in StepsOf(runner.workflow)
    BY <1>1 DEF Step
  <1>3. runner.exec \in 1 .. MaxRuns
    BY DEF Inv, Shapes, Types, BackendTypes
  <1>. QED
    BY <1>1, <1>2, <1>3 DEF Key, Keys

LEMMA UserTypes == ASSUME Inv, Types, NEW w \in Windows, User(w) PROVE Types'
  <1>1. /\ backend' = backend /\ events' = events /\ dialog' = dialog /\ history' = history
        /\ \/ runs < MaxRuns /\ runs' = runs + 1 /\ current' = [current EXCEPT ![w] = runs + 1]
           \/ runs' = runs /\ current' = current
    BY DEF User, Start, Cancel, Answer
  <1>2. runs \in Nat /\ MaxRuns \in Nat
    BY DEF Inv, Shapes
  <1>3. RunnerTypes'
    BY <1>1 DEF Types, RunnerTypes, At
  <1>4. BackendTypes'
    BY <1>1, <1>2 DEF Types, BackendTypes
  <1>5. WindowTypes'
    <2>1. current' \in [Windows -> {None} \cup 1 .. MaxRuns]
      BY <1>1, <1>2 DEF Types, WindowTypes
    <2>. QED
      BY <1>1, <2>1 DEF Types, WindowTypes
  <1>. QED
    BY <1>3, <1>4, <1>5 DEF Types

LEMMA ReceiveTypes == ASSUME Inv, Types, NEW w \in Windows, Receive(w) PROVE Types'
  <1>1. /\ backend' = backend /\ runs' = runs /\ history' = history
        /\ events[w] # <<>> /\ events' = [events EXCEPT ![w] = Tail(@)]
    BY DEF Receive
  <1>2. events[w] \in Seq(Messages)
    BY DEF Types, WindowTypes
  <1>3. Head(events[w]) \in Messages /\ Tail(events[w]) \in Seq(Messages)
    BY <1>1, <1>2
  <1>4. events' \in [Windows -> Seq(Messages)]
    BY <1>1, <1>3 DEF Types, WindowTypes
  <1>5. Head(events[w]).kind = "ask" => Head(events[w]).key \in Keys
    BY <1>3 DEF Messages
  <1>6. /\ current' \in [Windows -> {None} \cup 1 .. MaxRuns]
        /\ dialog' \in [Windows -> {None} \cup Keys]
    BY <1>5 DEF Receive, EndsIn, Types, WindowTypes
  <1>. QED
    BY <1>1, <1>4, <1>6 DEF Types, RunnerTypes, BackendTypes, WindowTypes, At

LEMMA CommandTypes == ASSUME Inv, Types, NEW c \in calls, Command(c) PROVE Types'
  <1>1. CASE Claim(c) \/ Reject(c) \/ CancelLoads(c) \/ CancelStores(c)
    BY <1>1 DEF Claim, Reject, CancelLoads, CancelStores,
                Types, RunnerTypes, BackendTypes, WindowTypes, At
  <1>2. CASE Refused(c) \/ Answered(c)
    BY <1>2 DEF Refused, Answered, Types, RunnerTypes, BackendTypes, WindowTypes, At
  <1>3. CASE Spawn(c)
    <2>1. c.workflow \in Workflows /\ c.exec \in 1 .. MaxRuns
      BY <1>3 DEF Spawn, Inv, Shapes, Types, BackendTypes
    <2>2. Order(c.workflow) \in Seq(StepsOf(c.workflow))
      BY <2>1, OrderAssumption
    <2>3. /\ runner'.phase \in {"next", "done"} /\ runner'.at = 1 /\ runner'.completed = {}
          /\ runner'.workflow = c.workflow /\ runner'.order = Order(c.workflow)
      BY <1>3 DEF Spawn
    <2>4. RunnerTypes'
      BY <2>1, <2>2, <2>3 DEF RunnerTypes, At
    <2>5. BackendTypes' /\ WindowTypes'
      BY <1>3, <2>1 DEF Spawn, Types, BackendTypes, WindowTypes
    <2>. QED
      BY <2>4, <2>5 DEF Types
  <1>4. CASE Respond(c)
    BY <1>4 DEF Respond, Types, RunnerTypes, BackendTypes, WindowTypes, At
  <1>5. CASE Send(c)
    <2>1. CASE ~Open(c.to)
      BY <1>5, <2>1 DEF Send, Types, RunnerTypes, BackendTypes, WindowTypes, At
    <2>2. CASE Open(c.to)
      <3>1. c.verdict \in BOOLEAN /\ c.key = Key /\ (At("waiting") \/ At("expired"))
        BY <1>5, <2>2 DEF Send, Open, Inv, Shapes
      <3>2. ~At("idle") /\ IsRunner(runner) /\ runner.at <= Len(runner.order)
        BY <3>1 DEF Inv, Shapes, Passed, Busy, At
      <3>3. c.key \in Keys
        BY <3>1, <3>2, StepIsOfWorkflow
      <3>4. BackendTypes' /\ WindowTypes'
        BY <1>5, <2>2, <3>1, <3>3 DEF Send, Types, BackendTypes, WindowTypes
      <3>5. /\ runner'.phase \in {"approved", "denied", "expired"} /\ runner'.at = runner.at
            /\ runner'.order = runner.order /\ runner'.completed = runner.completed
            /\ runner'.workflow = runner.workflow
        BY <1>5, <2>2, <3>1, <3>2 DEF Send, IsRunner, At
      <3>6. RunnerTypes'
        BY <3>2, <3>5 DEF Types, RunnerTypes
      <3>. QED
        BY <3>4, <3>6 DEF Types
    <2>. QED
      BY <2>1, <2>2
  <1>. QED
    BY <1>1, <1>2, <1>3, <1>4, <1>5 DEF Command

LEMMA RunnerStepTypes == ASSUME Inv, Types, Runner PROVE Types'
  <1>1. CASE Release
    BY <1>1 DEF Release, NoRunner, Types, RunnerTypes, BackendTypes, WindowTypes, At
  <1>2. CASE Runner /\ ~Release
    <2>1. ~At("idle") /\ IsRunner(runner)
      BY <1>2 DEF Runner, NextStep, BadParameters, Proceed, Abandon, TimeOut,
                  DropReceiver, DropPending, LooksNoMore, StepEnds, Complete,
                  Inv, Shapes, At
    <2>2. Complete \/ runner.at <= Len(runner.order)
      BY <1>2 DEF Runner, NextStep, BadParameters, Proceed, Abandon, TimeOut,
                  DropReceiver, DropPending, LooksNoMore, StepEnds,
                  Inv, Passed, Busy, At
    <2>3. /\ running' = running /\ flag' = flag /\ bridges' = bridges /\ runs' = runs
          /\ current' = current /\ dialog' = dialog /\ accepted' = accepted /\ missed' = missed
          /\ tokens' \subseteq tokens \cup {runner.exec}
          /\ senders' \subseteq senders \cup {Key} /\ ran' \subseteq ran \cup {Key}
          /\ Complete => senders' = senders /\ ran' = ran
      BY <1>2 DEF Runner, NextStep, BadParameters, Proceed, Abandon, TimeOut,
                  DropReceiver, DropPending, LooksNoMore, StepEnds, Complete
    <2>4. runner.exec \in 1 .. MaxRuns
      BY <2>1 DEF Inv, Shapes, Types, BackendTypes
    <2>5. BackendTypes'
      BY <2>1, <2>2, <2>3, <2>4, StepIsOfWorkflow DEF Types, BackendTypes
    <2>6. WindowTypes'
      <3>1. \/ events' = events
            \/ events' = [v \in Windows |-> Append(events[v], [kind |-> "ask", key |-> Key])]
                 /\ runner.at <= Len(runner.order)
            \/ events' = [v \in Windows |->
                             Append(events[v], [kind |-> "complete", exec |-> runner.exec])]
        BY <1>2 DEF Runner, NextStep, BadParameters, Proceed, Abandon, TimeOut,
                  DropReceiver, DropPending, LooksNoMore, StepEnds,
                    Complete, Emit
      <3>2. runner.at <= Len(runner.order) => [kind |-> "ask", key |-> Key] \in Messages
        BY <2>1, StepIsOfWorkflow DEF Messages
      <3>3. [kind |-> "complete", exec |-> runner.exec] \in Messages
        BY <2>4 DEF Messages
      <3>4. \A m \in Messages, v \in Windows : Append(events[v], m) \in Seq(Messages)
        BY DEF Types, WindowTypes
      <3>5. events' \in [Windows -> Seq(Messages)]
        BY <3>1, <3>2, <3>3, <3>4 DEF Types, WindowTypes
      <3>. QED
        BY <2>3, <3>5 DEF Types, WindowTypes
    <2>7. /\ runner'.workflow = runner.workflow /\ runner'.order = runner.order
          /\ runner'.phase \in {"next", "waiting", "expired", "closed", "running", "done"}
          /\ runner'.at = runner.at \/ (~Complete /\ runner'.at = runner.at + 1)
          /\ \/ runner'.completed = runner.completed
             \/ ~Complete /\ runner'.completed = runner.completed \cup {Step}
      <3>1. CASE NextStep \/ BadParameters \/ Proceed \/ Abandon \/ TimeOut
               \/ DropReceiver \/ DropPending \/ Complete
        BY <2>1, <2>2, <3>1 DEF NextStep, BadParameters, Proceed, Abandon, TimeOut, Complete,
                          DropReceiver, DropPending, LooksNoMore,
                          Past, Failed, IsRunner, At
      <3>2. CASE StepEnds
        BY <2>1, <3>2 DEF StepEnds, Complete, Past, Failed, IsRunner, At
      <3>. QED
        BY <1>2, <3>1, <3>2 DEF Runner
    <2>8. RunnerTypes'
      BY <2>1, <2>2, <2>7, StepIsOfWorkflow DEF Types, RunnerTypes
    <2>. QED
      BY <2>5, <2>6, <2>8 DEF Types
  <1>. QED
    BY <1>1, <1>2

LEMMA TypesStep == Inv /\ Types /\ [Next]_vars => Types'
  <1>. SUFFICES ASSUME Inv, Types, [Next]_vars PROVE Types'
    OBVIOUS
  <1>1. CASE \E w \in Windows : User(w) \/ Receive(w)
    BY <1>1, UserTypes, ReceiveTypes
  <1>2. CASE \E c \in calls : Command(c)
    BY <1>2, CommandTypes
  <1>3. CASE Runner
    BY <1>3, RunnerStepTypes
  <1>4. CASE \E e \in bridges : Bridge(e)
    BY <1>4 DEF Bridge, Types, RunnerTypes, BackendTypes, WindowTypes, At
  <1>5. CASE UNCHANGED vars
    BY <1>5 DEF vars, Types, RunnerTypes, BackendTypes, WindowTypes, At
  <1>. QED
    BY <1>1, <1>2, <1>3, <1>4, <1>5 DEF Next

(* Every variable has its type: no dialog shows what is no question, and the *)
(* runner is never beyond the end of its steps.                              *)
THEOREM TypeCorrect == Spec => []TypeOK
  <1>1. Types => TypeOK
    BY DEF Types, RunnerTypes, BackendTypes, WindowTypes, TypeOK
  <1>. QED
    BY <1>1, InvInit, InvStep, TypesInit, TypesStep, PTL DEF Spec

-----------------------------------------------------------------------------
(* A step that asks runs only after the user approved this step of this      *)
(* execution, whatever dialogs and answers of other executions are about.    *)
THEOREM NothingRunsUnapproved == Spec => []ApprovedOnly
  <1>1. Inv => ApprovedOnly
    BY DEF Inv
  <1>. QED
    BY <1>1, InvHolds, PTL

(* An answer that was delivered is obeyed: the clock does not overrule one   *)
(* that was there when the runner looked for the last time, and a step whose *)
(* answer came after that look never runs.                                   *)
THEOREM AnswersAreObeyed == Spec => []AnswerIsObeyed
  <1>1. Inv => AnswerIsObeyed
    BY DEF Inv
  <1>. QED
    BY <1>1, InvHolds, PTL

(* A question can be answered only until the runner goes on.                 *)
THEOREM QuestionsAreCurrent == Spec => []NoStaleQuestion
  <1>1. Inv => NoStaleQuestion
    BY DEF Inv
  <1>. QED
    BY <1>1, InvHolds, PTL

=============================================================================
