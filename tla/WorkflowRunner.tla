--------------------------- MODULE WorkflowRunner ---------------------------
(***************************************************************************)
(* Workflows: the commands that start, cancel and answer                   *)
(* (src-tauri/src/workflow/commands.rs), the one runner task, its bridge   *)
(* from the cancel flag to the token of the execution (runner.rs), the     *)
(* registry of questions to the user (approval.rs), and the windows, whose *)
(* panel starts and cancels and whose dialog asks                          *)
(* (hooks/useWorkflowExecution.ts, components/WorkflowApproval).           *)
(*                                                                         *)
(* Commands and their replies overtake one another, and run beside the     *)
(* runner on other threads; the events of the runner reach a window in     *)
(* order. What a step does is abstracted to how it ends.                   *)
(***************************************************************************)
EXTENDS Naturals, Sequences, Functions

CONSTANTS
    Windows,        \* the windows
    Workflows,      \* what can be run: steps as declared, what a step needs,
                    \* the steps that ask first, and those whose if: is false
    None,           \* no execution, no question
    MaxRuns,        \* bound: executions asked for
    MaxCancels,     \* bound: cancels asked for
    MaxAnswers      \* bound: clicks in the dialog

ASSUME BoundsAssumption == MaxRuns \in Nat /\ MaxCancels \in Nat /\ MaxAnswers \in Nat

VARIABLES
    running,        \* WorkflowRunnerState.running
    flag,           \* WorkflowRunnerState.cancel_requested
    runner,         \* the runner task; its phase is "idle" if there is none
    tokens,         \* the executions whose token is cancelled
    bridges,        \* the executions whose bridge still polls the flag
    senders,        \* ApprovalRegistry: the questions that can be answered
    calls,          \* commands and replies on their way
    events,         \* events on their way to a window
    current,        \* executionId of a window, workflowPreviewStore
    dialog,         \* pending of a window, workflowApprovalStore
    runs, cancels, clicks,      \* how many so far
    accepted,       \* history: the answers that were delivered
    missed,         \* history: of these, the keys of those sent after the runner's
                    \* last look at its channel
    ran,            \* history: the steps that asked and were run
    unordered       \* history: the executions whose steps could not be ordered

backend == <<running, flag, runner, tokens, bridges, senders>>
window == <<current, dialog>>
counts == <<runs, cancels, clicks>>
history == <<accepted, missed, ran, unordered>>
vars == <<backend, calls, events, window, counts, history>>

StepsOf(w) == Range(w.steps)

(* The steps in the order of Kahn's algorithm; not all of them, if they     *)
(* need one another in a circle. Its queue, never shortened, is the result. *)
Sorted(w) ==
    LET queue[n \in 0 .. Len(w.steps)] ==
          IF n = 0 THEN SelectSeq(w.steps, LAMBDA s : w.needs[s] = {})
          ELSE LET before == queue[n - 1]
                   freed(s) == /\ before[n] \in w.needs[s]
                               /\ w.needs[s] \subseteq Range(SubSeq(before, 1, n))
               IN  IF n > Len(before) THEN before ELSE before \o SelectSeq(w.steps, freed)
    IN  queue[Len(w.steps)]

Order(w) == Sorted(w)

NoRunner == [phase |-> "idle"]

Step == runner.order[runner.at]
Key == [exec |-> runner.exec, step |-> Step]
At(phase) == runner.phase = phase

Emit(event) == events' = [w \in Windows |-> Append(events[w], event)]

(* The runner goes on to the next step. *)
Past(r) == [r EXCEPT !.phase = "next", !.at = @ + 1]
Failed(r) == [Past(r) EXCEPT !.failed = TRUE]

(* What topological_sort returns is a list that holds no step twice. *)
ASSUME OrderAssumption ==
    \A w \in Workflows : Order(w) \in Seq(StepsOf(w)) /\ IsInjective(Order(w))

-----------------------------------------------------------------------------
Init ==
    /\ running = FALSE
    /\ flag = FALSE
    /\ runner = NoRunner
    /\ tokens = {}
    /\ bridges = {}
    /\ senders = {}
    /\ calls = {}
    /\ events = [w \in Windows |-> <<>>]
    /\ current = [w \in Windows |-> None]
    /\ dialog = [w \in Windows |-> None]
    /\ runs = 0
    /\ cancels = 0
    /\ clicks = 0
    /\ accepted = {}
    /\ missed = {}
    /\ ran = {}
    /\ unordered = {}

-----------------------------------------------------------------------------
(* The user runs a workflow from a window that runs none; the window makes  *)
(* up the id and stores it before it calls run_workflow.                    *)
Start(w, workflow) ==
    /\ current[w] = None
    /\ runs < MaxRuns
    /\ runs' = runs + 1
    /\ current' = [current EXCEPT ![w] = runs + 1]
    /\ calls' = calls \cup {[kind |-> "start", by |-> w, exec |-> runs + 1, workflow |-> workflow]}
    /\ UNCHANGED <<backend, events, dialog, cancels, clicks, history>>

(* The user cancels the window's execution. *)
Cancel(w) ==
    /\ current[w] # None
    /\ cancels < MaxCancels
    /\ cancels' = cancels + 1
    /\ calls' = calls \cup {[kind |-> "cancel", no |-> cancels]}
    /\ UNCHANGED <<backend, events, window, runs, clicks, history>>

(* The user answers the window's dialog, which stays open until the reply. *)
Answer(w, verdict) ==
    /\ dialog[w] # None
    /\ clicks < MaxAnswers
    /\ clicks' = clicks + 1
    /\ calls' = calls \cup {[kind |-> "respond", by |-> w, key |-> dialog[w],
                             verdict |-> verdict, no |-> clicks]}
    /\ UNCHANGED <<backend, events, window, runs, cancels, history>>

-----------------------------------------------------------------------------
(* run_workflow: one at a time. *)
Claim(c) ==
    /\ c.kind = "start"
    /\ IF running
       THEN /\ calls' = (calls \ {c}) \cup {[kind |-> "refused", by |-> c.by]}
            /\ UNCHANGED running
       ELSE /\ calls' = (calls \ {c}) \cup {[c EXCEPT !.kind = "claimed"]}
            /\ running' = TRUE
    /\ UNCHANGED <<flag, runner, tokens, bridges, senders, events, window, counts, history>>

(* It resets the flag and spawns the runner, whose bridge starts to poll.   *)
(* If the steps cannot be ordered the runner ends at once.                  *)
Spawn(c) ==
    /\ c.kind = "claimed"
    /\ flag' = FALSE
    /\ calls' = calls \ {c}
    /\ bridges' = bridges \cup {c.exec}
    /\ LET order == Order(c.workflow)
           ordered == Len(order) = Len(c.workflow.steps)
       IN  runner' = [phase |-> IF ordered THEN "next" ELSE "done", exec |-> c.exec,
                      workflow |-> c.workflow, order |-> order, at |-> 1,
                      failed |-> ~ordered, completed |-> {}]
           /\ unordered' = IF ordered THEN unordered ELSE unordered \cup {c.exec}
    /\ UNCHANGED <<running, tokens, senders, events, window, counts, accepted, missed, ran>>

(* Or its arguments are invalid. *)
Reject(c) ==
    /\ c.kind = "claimed"
    /\ flag' = FALSE
    /\ running' = FALSE
    /\ calls' = (calls \ {c}) \cup {[kind |-> "refused", by |-> c.by]}
    /\ UNCHANGED <<runner, tokens, bridges, senders, events, window, counts, history>>

(* The window learns that its start was refused. *)
Refused(c) ==
    /\ c.kind = "refused"
    /\ calls' = calls \ {c}
    /\ current' = [current EXCEPT ![c.by] = None]
    /\ UNCHANGED <<backend, events, dialog, counts, history>>

(* cancel_workflow looks whether one is running, and then sets the flag, for *)
(* whichever execution runs by then.                                         *)
CancelLoads(c) ==
    /\ c.kind = "cancel"
    /\ calls' = (calls \ {c}) \cup (IF running THEN {[c EXCEPT !.kind = "cancelling"]} ELSE {})
    /\ UNCHANGED <<backend, events, window, counts, history>>

CancelStores(c) ==
    /\ c.kind = "cancelling"
    /\ calls' = calls \ {c}
    /\ flag' = TRUE
    /\ UNCHANGED <<running, runner, tokens, bridges, senders, events, window, counts, history>>

(* Mutant of Asked: the registry is searched for the step alone. *)
AnyRun(key) == {k \in senders : k.step = key.step}

(* The question that an answer is for. *)
Asked(key) == senders \cap {key}

Reply(c) == [kind |-> "answered", by |-> c.by, no |-> c.no]

(* respond_workflow_approval takes the sender of the question out of the    *)
(* registry, if it is there ...                                             *)
Respond(c) ==
    /\ c.kind = "respond"
    /\ \/ /\ Asked(c.key) = {}
          /\ calls' = (calls \ {c}) \cup {Reply(c)}
       \/ \E key \in Asked(c.key) :
             calls' = (calls \ {c}) \cup
                 {[kind |-> "sending", by |-> c.by, key |-> c.key, to |-> key,
                   verdict |-> c.verdict, no |-> c.no]}
    /\ senders' = senders \ Asked(c.key)
    /\ UNCHANGED <<running, flag, runner, tokens, bridges, events, window, counts, history>>

(* The receiver of the question is not dropped yet. *)
Open(key) == (At("waiting") \/ At("expired")) /\ Key = key

(* ... and then sends the answer: it is delivered while the receiver is     *)
(* there, even if the runner has looked for the last time. The reply goes   *)
(* back to the window.                                                      *)
Send(c) ==
    /\ c.kind = "sending"
    /\ calls' = (calls \ {c}) \cup {Reply(c)}
    /\ IF Open(c.to)
       THEN /\ accepted' = accepted \cup {[key |-> c.key, verdict |-> c.verdict]}
            /\ IF At("waiting")
               THEN /\ runner' = [runner EXCEPT !.phase = IF c.verdict THEN "approved" ELSE "denied"]
                    /\ UNCHANGED missed
               ELSE /\ missed' = missed \cup {c.key}
                    /\ UNCHANGED runner
       ELSE UNCHANGED <<runner, accepted, missed>>
    /\ UNCHANGED <<running, flag, tokens, bridges, senders, events, window, counts, ran, unordered>>

(* The reply closes the dialog, whatever it shows by then. *)
Answered(c) ==
    /\ c.kind = "answered"
    /\ calls' = calls \ {c}
    /\ dialog' = [dialog EXCEPT ![c.by] = None]
    /\ UNCHANGED <<backend, events, current, counts, history>>

-----------------------------------------------------------------------------
(* A step is skipped: the run is cancelled, a step before it failed, one it *)
(* needs was skipped, or its condition is false.                            *)
Skipped ==
    \/ flag
    \/ runner.failed
    \/ ~(runner.workflow.needs[Step] \subseteq runner.completed)
    \/ Step \in runner.workflow.off

NextStep ==
    /\ At("next")
    /\ runner.at <= Len(runner.order)
    /\ IF Skipped
       THEN /\ runner' = IF flag THEN Failed(runner) ELSE Past(runner)
            /\ UNCHANGED <<senders, events>>
       ELSE IF Step \in runner.workflow.asks
       THEN /\ runner' = [runner EXCEPT !.phase = "waiting"]
            /\ senders' = senders \cup {Key}
            /\ Emit([kind |-> "ask", key |-> Key])
       ELSE /\ runner' = [runner EXCEPT !.phase = "running"]
            /\ UNCHANGED <<senders, events>>
    /\ UNCHANGED <<running, flag, tokens, bridges, calls, window, counts, history>>

(* The parameters of the step cannot be resolved. *)
BadParameters ==
    /\ At("next")
    /\ runner.at <= Len(runner.order)
    /\ ~Skipped
    /\ runner' = Failed(runner)
    /\ UNCHANGED <<running, flag, tokens, bridges, senders, calls, events, window, counts, history>>

(* The runner sees the answer. *)
Proceed ==
    /\ \/ /\ At("approved")
          /\ runner' = [runner EXCEPT !.phase = "running"]
          /\ ran' = ran \cup {Key}
       \/ /\ At("denied")
          /\ runner' = Failed(runner)
          /\ UNCHANGED ran
    /\ UNCHANGED <<running, flag, tokens, bridges, senders, calls, events, window, counts,
                   accepted, missed, unordered>>

(* The end of a wait: the runner does not look at its channel again.        *)
LooksNoMore ==
    /\ runner' = [runner EXCEPT !.phase = "expired"]
    /\ UNCHANGED <<running, flag, tokens, bridges, senders, calls, events, window, counts, history>>

(* The token is cancelled while the runner waits; an answer that came at    *)
(* the same time may be passed over.                                        *)
Abandon ==
    /\ At("waiting") \/ At("approved") \/ At("denied")
    /\ runner.exec \in tokens
    /\ LooksNoMore

(* Mutant of TimeOut: the clock is looked at before the channel. *)
ClockFirst ==
    /\ At("waiting") \/ At("approved")
    /\ LooksNoMore

(* Nobody answers in time: the channel is looked at first, and was empty.   *)
TimeOut ==
    /\ At("waiting")
    /\ LooksNoMore

(* The receiver goes with the select! that held it. *)
DropReceiver ==
    /\ At("expired")
    /\ runner' = [runner EXCEPT !.phase = "closed"]
    /\ UNCHANGED <<running, flag, tokens, bridges, senders, calls, events, window, counts, history>>

(* The question leaves the registry, and the step has failed. *)
DropPending ==
    /\ At("closed")
    /\ runner' = Failed(runner)
    /\ senders' = senders \ {Key}
    /\ UNCHANGED <<running, flag, tokens, bridges, calls, events, window, counts, history>>

(* The step succeeds, fails, or takes too long, which cancels the token. *)
StepEnds ==
    /\ At("running")
    /\ \/ /\ runner' = [Past(runner) EXCEPT !.completed = @ \cup {Step}]
          /\ UNCHANGED tokens
       \/ /\ runner' = Failed(runner)
          /\ \/ UNCHANGED tokens
             \/ tokens' = tokens \cup {runner.exec}
    /\ UNCHANGED <<running, flag, bridges, senders, calls, events, window, counts, history>>

(* After the last step the windows are told. *)
Complete ==
    /\ At("next")
    /\ runner.at > Len(runner.order)
    /\ Emit([kind |-> "complete", exec |-> runner.exec])
    /\ runner' = [runner EXCEPT !.phase = "done"]
    /\ UNCHANGED <<running, flag, tokens, bridges, senders, calls, window, counts, history>>

(* The runner task ends: another workflow may run. *)
Release ==
    /\ At("done")
    /\ runner' = NoRunner
    /\ running' = FALSE
    /\ UNCHANGED <<flag, tokens, bridges, senders, calls, events, window, counts, history>>

(* The bridge of an execution polls the flag. *)
Bridge(e) ==
    /\ e \in bridges
    /\ flag \/ e \in tokens
    /\ bridges' = bridges \ {e}
    /\ tokens' = tokens \cup {e}
    /\ UNCHANGED <<running, flag, runner, senders, calls, events, window, counts, history>>

-----------------------------------------------------------------------------
(* Mutant of EndsIn: the end of an execution is not noticed. *)
IgnoresEnd(w, e) == UNCHANGED window

(* The end of an execution: nothing runs, and no dialog is about it. *)
EndsIn(w, e) ==
    /\ current' = [current EXCEPT ![w] = None]
    /\ dialog' = IF dialog[w] # None /\ dialog[w].exec = e
                 THEN [dialog EXCEPT ![w] = None] ELSE dialog

(* A window takes an event; one about another execution than its own it     *)
(* leaves aside.                                                            *)
Receive(w) ==
    /\ events[w] # <<>>
    /\ events' = [events EXCEPT ![w] = Tail(@)]
    /\ LET event == Head(events[w])
           exec  == IF event.kind = "ask" THEN event.key.exec ELSE event.exec
       IN  IF current[w] \notin {None, exec} THEN UNCHANGED window
           ELSE IF event.kind = "ask"
           THEN dialog' = [dialog EXCEPT ![w] = event.key] /\ UNCHANGED current
           ELSE EndsIn(w, exec)
    /\ UNCHANGED <<backend, calls, counts, history>>

-----------------------------------------------------------------------------
User(w) ==
    \/ \E workflow \in Workflows : Start(w, workflow)
    \/ Cancel(w)
    \/ \E verdict \in BOOLEAN : Answer(w, verdict)

Command(c) ==
    \/ Claim(c) \/ Spawn(c) \/ Reject(c) \/ Refused(c)
    \/ CancelLoads(c) \/ CancelStores(c) \/ Respond(c) \/ Send(c) \/ Answered(c)

Runner ==
    \/ NextStep \/ BadParameters \/ Proceed \/ StepEnds \/ Complete \/ Release
    \/ Abandon \/ TimeOut \/ DropReceiver \/ DropPending

Next ==
    \/ \E w \in Windows : User(w) \/ Receive(w)
    \/ \E c \in calls : Command(c)
    \/ Runner
    \/ \E e \in bridges : Bridge(e)

Spec == Init /\ [][Next]_vars

(* Commands, events, the runner and its bridges go on; a question times out. *)
Fairness ==
    /\ WF_vars(\E c \in calls : Command(c))
    /\ WF_vars(Runner)
    /\ \A w \in Windows : WF_vars(Receive(w))

FairSpec == Spec /\ Fairness

-----------------------------------------------------------------------------
Keys == [exec : 1 .. MaxRuns, step : UNION {StepsOf(w) : w \in Workflows}]

(* Every variable has its type. *)
TypeOK ==
    /\ running \in BOOLEAN /\ flag \in BOOLEAN
    /\ ~At("idle") => /\ runner.phase \in {"next", "waiting", "approved", "denied", "expired", "closed",
                                       "running", "done"}
                      /\ runner.at \in 1 .. Len(runner.order) + 1
                      /\ runner.completed \subseteq StepsOf(runner.workflow)
    /\ tokens \subseteq 1 .. MaxRuns /\ bridges \subseteq 1 .. MaxRuns /\ senders \subseteq Keys
    /\ current \in [Windows -> {None} \cup 1 .. MaxRuns]
    /\ dialog \in [Windows -> {None} \cup Keys]
    /\ ran \subseteq Keys /\ accepted \subseteq [key : Keys, verdict : BOOLEAN]
    /\ missed \subseteq Keys

(* A step that asks runs only after the user approved this step of this     *)
(* execution; no dialog left over from another one does it (approval.rs:15). *)
ApprovedOnly ==
    At("running") /\ Step \in runner.workflow.asks => [key |-> Key, verdict |-> TRUE] \in accepted

(* An answer that was delivered is obeyed: a denied step never runs, and an *)
(* approved one runs unless the execution is cancelled. The clock does not  *)
(* overrule an answer that is in the channel when the runner looks          *)
(* (runner.rs:387); one that is sent after its last look, while the         *)
(* receiver is still there, is lost, and then the step never runs.          *)
AnswerIsObeyed ==
    \A a \in accepted :
        IF a.verdict /\ a.key \notin missed
        THEN \/ a.key \in ran
             \/ a.key.exec \in tokens
             \/ At("approved") /\ Key = a.key
        ELSE a.key \notin ran

(* An answer that was delivered counts (approval.rs:44): none is missed.    *)
NoneIsMissed == \A key \in missed : key.exec \in tokens

(* Only the question that the runner is at can be answered: it is out of    *)
(* the registry before the runner goes on (approval.rs:59).                 *)
NoStaleQuestion ==
    \A key \in senders : (At("waiting") \/ At("expired") \/ At("closed")) /\ Key = key

(* A window that started a workflow whose steps can be ordered is told of   *)
(* its end, or of its refusal, and may start another.                       *)
WindowIsFreed ==
    \A w \in Windows : current[w] # None ~> current[w] \in {None} \cup unordered

(* The store holds the pending requests (workflowApprovalStore.ts:4): a     *)
(* question that can be answered is shown, or on its way to a window.       *)
QuestionIsShown ==
    \A key \in senders : \E w \in Windows :
        \/ dialog[w] = key
        \/ [kind |-> "ask", key |-> key] \in Range(events[w])
        \/ current[w] \notin {None, key.exec}
=============================================================================
