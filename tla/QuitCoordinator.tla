--------------------------- MODULE QuitCoordinator ---------------------------
(***************************************************************************)
(* Closing tabs and windows of TMark and quitting it.                      *)
(*                                                                         *)
(*   src/src-tauri/src/quit.rs, lib.rs, menu_events.rs   the coordinator   *)
(*   src/src/hooks/useWindowClose.ts, useTabOperations.ts, closeSave.ts,   *)
(*   useFileSave.ts (Save All and Quit)                  each window       *)
(*                                                                         *)
(* Commands, menu events and window events run one after the other on the  *)
(* main thread.  A window is a webview of its own: it handles the events   *)
(* emitted to it in order, and every await of a handler ends a step.  A    *)
(* document is the number of its newest text and of the text last saved.   *)
(***************************************************************************)
EXTENDS Naturals, Sequences, FiniteSets

CONSTANTS
    Windows,    \* document windows, those opened later included
    Initial,    \* the windows open at first
    Tabs,       \* tab ids of a window
    FirstTabs,  \* the tabs a window opens with
    Mac,        \* does a window close with its last tab?
    Inputs,     \* what users and the system do: a subset of AllInputs
    MaxInputs,  \* bound: such inputs
    MaxEdits    \* bound: changes of documents

AllInputs == {"quit", "confirm", "exit", "close", "tab", "all", "new"}

ASSUME WindowsAssumption == Initial \subseteq Windows
ASSUME TabsAssumption == FirstTabs \subseteq Tabs /\ Tabs \cap {"window", "all"} = {}
ASSUME InputAssumption == Inputs \subseteq AllInputs /\ Mac \in BOOLEAN
                          /\ MaxInputs \in Nat /\ MaxEdits \in Nat

VARIABLES
    inProgress, \* QUIT_IN_PROGRESS
    exitAllowed,\* EXIT_ALLOWED
    targets,    \* QUIT_TARGETS
    firstPress, \* is there a FIRST_QUIT_PRESS within CONFIRM_QUIT_WINDOW?
    confirm,    \* CONFIRM_QUIT_ENABLED
    pending,    \* exits the event loop has not handled yet
    exited,     \* has the process ended?
    status,     \* each window: not created, loading, open, dying, gone
    inbox,      \* the events emitted to each window
    cancels,    \* calls of cancel_quit on their way from each window
    task,       \* the close handlers of each window
    tabs, docs, \* the tabs of each window, and those whose document exists
    ver, saved, \* each document: its newest text, the text last saved
    opened,     \* history: tab ids used so far
    begun,      \* history: the windows there were when the quit began
    written,    \* history: the texts of each document that were ever saved
    discarded,  \* history: the text the user last chose not to save
    inputs, edits \* counters

rustVars == <<inProgress, exitAllowed, targets, firstPress, confirm, pending, exited, begun>>
docVars  == <<tabs, docs, ver, saved, opened, written, discarded>>
vars == <<inProgress, exitAllowed, targets, firstPress, confirm, pending, exited, begun,
          status, inbox, cancels, task, tabs, docs, ver, saved, opened, written, discarded,
          inputs, edits>>

Handlers == {"window", "all"} \cup Tabs
Versions == [Tabs -> Nat]
Tasks == [pc : {"idle", "ask", "save", "clean", "closing"}, quit : BOOLEAN,
          snap : Versions, todo : SUBSET Tabs]
NoTask == [pc |-> "idle", quit |-> FALSE, snap |-> [t \in Tabs |-> 0], todo |-> {}]

\* The shape of the variables: a document is that of a tab.
TypeOK ==
    /\ {inProgress, exitAllowed, firstPress, confirm, exited} \subseteq BOOLEAN
    /\ targets \subseteq Windows /\ begun \subseteq Windows
    /\ pending \subseteq {"final", "force"}
    /\ status \in [Windows -> {"none", "loading", "open", "dying", "gone"}]
    /\ inbox \in [Windows -> Seq({"quit", "close", "tab", "all"})]
    /\ cancels \in [Windows -> Nat]
    /\ task \in [Windows -> [Handlers -> Tasks]]
    /\ tabs \in [Windows -> SUBSET Tabs] /\ opened \in [Windows -> SUBSET Tabs]
    /\ docs \in [Windows -> SUBSET Tabs] /\ \A w \in Windows : docs[w] \subseteq tabs[w]
    /\ {ver, saved, discarded} \subseteq [Windows -> Versions]
    /\ written \in [Windows -> [Tabs -> SUBSET Nat]]
    /\ inputs \in Nat /\ edits \in Nat

Zero == [w \in Windows |-> [t \in Tabs |-> 0]]

Init ==
    /\ inProgress = FALSE /\ exitAllowed = FALSE /\ targets = {} /\ begun = {}
    /\ firstPress = FALSE /\ confirm = TRUE /\ pending = {} /\ exited = FALSE
    /\ status = [w \in Windows |-> IF w \in Initial THEN "open" ELSE "none"]
    /\ inbox = [w \in Windows |-> <<>>] /\ cancels = [w \in Windows |-> 0]
    /\ task = [w \in Windows |-> [h \in Handlers |-> NoTask]]
    /\ tabs = [w \in Windows |-> FirstTabs] /\ docs = tabs /\ opened = tabs
    /\ ver = Zero /\ saved = Zero /\ discarded = Zero
    /\ written = [w \in Windows |-> [t \in Tabs |-> {0}]]
    /\ inputs = 0 /\ edits = 0

\* The document windows Tauri knows; a window that is being destroyed is one
\* of them until its Destroyed event.
Alive == {w \in Windows : status[w] \in {"loading", "open", "dying"}}
Dirty(w) == {t \in docs[w] : ver[w][t] # saved[w][t]}

-----------------------------------------------------------------------------
(* The coordinator.                                                        *)

\* An event emitted to a window that has not installed its listeners is lost.
Hear(w, e) == IF status[w] = "open" THEN Append(inbox[w], e) ELSE inbox[w]

\* Mutant of StartQuit: windows without unsaved documents are not waited for.
StartQuitDirtyOnly(rest) ==
    IF inProgress
    THEN pending' = rest /\ UNCHANGED <<inProgress, exitAllowed, targets, begun, inbox>>
    ELSE /\ inProgress' = TRUE /\ begun' = Alive
         /\ inbox' = [w \in Windows |-> Hear(w, "quit")]
         /\ exitAllowed' = (Alive = {})
         /\ targets' = {w \in Alive : Dirty(w) # {}}
         /\ pending' = IF Alive = {} THEN rest \cup {"final"} ELSE rest

\* Ask every document window to close, and wait for all of them; without any,
\* exit.  Nothing happens when a quit is in progress already.  rest: the exits
\* that are pending besides.
StartQuit(rest) ==
    IF inProgress
    THEN pending' = rest /\ UNCHANGED <<inProgress, exitAllowed, targets, begun, inbox>>
    ELSE /\ inProgress' = TRUE /\ begun' = Alive
         /\ inbox' = [w \in Windows |-> Hear(w, "quit")]
         /\ exitAllowed' = (Alive = {})
         /\ targets' = IF Alive = {} THEN targets ELSE Alive
         /\ pending' = IF Alive = {} THEN rest \cup {"final"} ELSE rest

Input(i) == i \in Inputs /\ inputs < MaxInputs /\ inputs' = inputs + 1

\* Menu Quit: the confirm gate wants two presses within two seconds.
RequestQuit ==
    /\ Input("quit")
    /\ \/ /\ confirm /\ ~firstPress
          /\ firstPress' = TRUE
          /\ UNCHANGED <<inProgress, exitAllowed, targets, begun, pending, inbox>>
       \/ /\ ~confirm \/ firstPress
          /\ firstPress' = (~confirm /\ firstPress)
          /\ StartQuit(pending)
    /\ UNCHANGED <<confirm, exited, status, cancels, task, docVars, edits>>

PressExpires ==
    /\ firstPress /\ firstPress' = FALSE
    /\ UNCHANGED <<inProgress, exitAllowed, targets, confirm, pending, exited, begun,
                   status, inbox, cancels, task, docVars, inputs, edits>>

SetConfirmQuit ==
    /\ Input("confirm")
    /\ confirm' = ~confirm /\ firstPress' = FALSE
    /\ UNCHANGED <<inProgress, exitAllowed, targets, pending, exited, begun,
                   status, inbox, cancels, task, docVars, edits>>

\* RunEvent::ExitRequested: let through when the quit has allowed it; otherwise
\* a quit begins, if there are document windows.
ExitRequested(rest) ==
    \/ /\ exitAllowed
       /\ exited' = TRUE /\ pending' = rest
       /\ UNCHANGED <<inProgress, exitAllowed, targets, begun, inbox>>
    \/ /\ ~exitAllowed /\ Alive = {}
       /\ pending' = rest
       /\ UNCHANGED <<exited, inProgress, exitAllowed, targets, begun, inbox>>
    \/ /\ ~exitAllowed /\ Alive # {}
       /\ StartQuit(rest)
       /\ UNCHANGED exited

\* The system asks the application to end, or its last window is gone.
SystemExit ==
    /\ Input("exit")
    /\ ExitRequested(pending)
    /\ UNCHANGED <<firstPress, confirm, status, cancels, task, docVars, edits>>

\* app.exit(0) of finalize_quit or of force_quit has come round.
ExitEvent(k) ==
    /\ k \in pending
    /\ ExitRequested(pending \ {k})
    /\ UNCHANGED <<firstPress, confirm, status, cancels, task, docVars, inputs, edits>>

CancelQuit(w) ==
    /\ cancels[w] > 0 /\ cancels' = [cancels EXCEPT ![w] = @ - 1]
    /\ inProgress' = FALSE /\ exitAllowed' = FALSE /\ targets' = {} /\ firstPress' = FALSE
    /\ UNCHANGED <<confirm, pending, exited, begun, status, inbox, task, docVars,
                   inputs, edits>>

\* handle_window_destroyed: the last target's end finishes the quit.
HandleDestroyed(w) ==
    IF inProgress
    THEN /\ targets' = targets \ {w}
         /\ exitAllowed' = (exitAllowed \/ targets \ {w} = {})
         /\ pending' = IF targets \ {w} = {} THEN pending \cup {"final"} ELSE pending
    ELSE UNCHANGED <<targets, exitAllowed, pending>>

Destroyed(w) ==
    /\ status[w] = "dying" /\ status' = [status EXCEPT ![w] = "gone"]
    /\ HandleDestroyed(w)
    /\ UNCHANGED <<inProgress, firstPress, confirm, exited, begun, inbox, cancels, task,
                   docVars, inputs, edits>>

-----------------------------------------------------------------------------
(* What reaches a window.                                                  *)

CreateWindow(w) ==
    /\ Input("new") /\ status[w] = "none"
    /\ status' = [status EXCEPT ![w] = "loading"]
    /\ UNCHANGED <<rustVars, inbox, cancels, task, docVars, edits>>

Ready(w) ==
    /\ status[w] = "loading" /\ status' = [status EXCEPT ![w] = "open"]
    /\ UNCHANGED <<rustVars, inbox, cancels, task, docVars, inputs, edits>>

\* The window's close button.
CloseRequested(w) ==
    /\ Input("close") /\ status[w] \in {"loading", "open"}
    /\ inbox' = [inbox EXCEPT ![w] = Hear(w, "close")]
    /\ UNCHANGED <<rustVars, status, cancels, task, docVars, edits>>

\* A menu event waits for a window that is loading.
MenuClose(w) ==
    /\ Input("tab") /\ status[w] \in {"loading", "open"}
    /\ inbox' = [inbox EXCEPT ![w] = Append(@, "tab")]
    /\ UNCHANGED <<rustVars, status, cancels, task, docVars, edits>>

\* Save All and Quit goes to one window; without any it is force_quit.
MenuSaveAllQuit ==
    /\ Input("all")
    /\ \/ /\ Alive = {}
          /\ pending' = pending \cup {"force"} /\ UNCHANGED inbox
       \/ /\ UNCHANGED pending
          /\ \E w \in Alive : inbox' = [inbox EXCEPT ![w] = Append(@, "all")]
    /\ UNCHANGED <<inProgress, exitAllowed, targets, firstPress, confirm, exited, begun,
                   status, cancels, task, docVars, edits>>

-----------------------------------------------------------------------------
(* The close handlers of a window.                                         *)

SetTask(w, h, k) == task' = [task EXCEPT ![w][h] = k]

\* The handler of the whole window: an unsaved document is asked about, with
\* the text it has now.  A window without any closes at once.
StartClose(w, quit) ==
    LET D == Dirty(w) IN
    /\ SetTask(w, "window", [pc |-> IF D = {} THEN "closing" ELSE "ask", quit |-> quit,
                             snap |-> ver[w], todo |-> D])
    /\ docs' = IF D = {} THEN [docs EXCEPT ![w] = {}] ELSE docs
    /\ UNCHANGED <<tabs, ver, saved, opened, written, discarded>>

\* The handler of one tab: a clean one still waits for its clean-up.
StartTab(w, t) ==
    /\ SetTask(w, t, [pc |-> IF t \in Dirty(w) THEN "ask" ELSE "clean", quit |-> FALSE,
                      snap |-> ver[w], todo |-> {t}])
    /\ UNCHANGED <<tabs, docs, ver, saved, opened, written, discarded>>

\* Save All and Quit saves without asking.
StartAll(w) ==
    LET D == Dirty(w) IN
    /\ SetTask(w, "all", IF D = {} THEN NoTask
                         ELSE [pc |-> "save", quit |-> FALSE, snap |-> ver[w], todo |-> D])
    /\ pending' = IF D = {} THEN pending \cup {"force"} ELSE pending
    /\ UNCHANGED <<tabs, docs, ver, saved, opened, written, discarded>>

\* The window takes its next event; a handler that is running already, or a
\* tab that is gone, makes it nothing.
Handle(w) ==
    /\ status[w] = "open" /\ inbox[w] # <<>>
    /\ inbox' = [inbox EXCEPT ![w] = Tail(@)]
    /\ LET e == Head(inbox[w])
           Nothing == UNCHANGED <<task, docVars, pending>>
       IN \/ /\ e \in {"close", "quit"} /\ task[w]["window"].pc = "idle"
             /\ StartClose(w, e = "quit") /\ UNCHANGED pending
          \/ /\ e \in {"close", "quit"} /\ task[w]["window"].pc # "idle" /\ Nothing
          \/ /\ e = "tab"
             /\ \E t \in docs[w] : task[w][t].pc = "idle" /\ StartTab(w, t)
             /\ UNCHANGED pending
          \/ /\ e = "tab" /\ (docs[w] = {} \/ \E t \in tabs[w] : task[w][t].pc # "idle")
             /\ Nothing
          \/ /\ e = "all" /\ task[w]["all"].pc = "idle" /\ StartAll(w)
          \/ /\ e = "all" /\ task[w]["all"].pc # "idle" /\ Nothing
    /\ UNCHANGED <<inProgress, exitAllowed, targets, firstPress, confirm, exited, begun,
                   status, cancels, inputs, edits>>

\* Mutant of GivesUp: the quit is not told.
GivesUpSilently(w, h) == SetTask(w, h, NoTask) /\ UNCHANGED <<cancels, tabs, docs, pending>>

\* A handler gives up: it was cancelled or a save failed.  A quit that had
\* started it is cancelled.
GivesUp(w, h) ==
    /\ SetTask(w, h, NoTask)
    /\ cancels' = IF task[w][h].quit THEN [cancels EXCEPT ![w] = @ + 1] ELSE cancels
    /\ UNCHANGED <<tabs, docs, pending>>

\* The documents of the window are decided: it goes on to close.
WindowDone(w) ==
    /\ docs' = [docs EXCEPT ![w] = {}]
    /\ SetTask(w, "window", [task[w]["window"] EXCEPT !.pc = "closing", !.todo = {}])
    /\ UNCHANGED <<tabs, opened, pending>>

\* All are saved: force_quit.
AllDone(w) ==
    /\ pending' = pending \cup {"force"}
    /\ SetTask(w, "all", NoTask)
    /\ UNCHANGED <<tabs, docs, opened>>

\* The tab closes.  With its last tab a window closes, or gets a new one.
TabDone(w, t) ==
    /\ UNCHANGED pending
    /\ \/ /\ tabs[w] # {t}
          /\ tabs' = [tabs EXCEPT ![w] = @ \ {t}] /\ docs' = [docs EXCEPT ![w] = @ \ {t}]
          /\ SetTask(w, t, NoTask)
          /\ UNCHANGED opened
       \/ /\ tabs[w] = {t} /\ Mac
          /\ tabs' = [tabs EXCEPT ![w] = {}] /\ docs' = [docs EXCEPT ![w] = {}]
          /\ SetTask(w, t, [task[w][t] EXCEPT !.pc = "closing", !.todo = {}])
          /\ UNCHANGED opened
       \/ /\ tabs[w] = {t} /\ ~Mac
          /\ \E n \in Tabs \ opened[w] :
                /\ tabs' = [tabs EXCEPT ![w] = {n}] /\ docs' = [docs EXCEPT ![w] = {n}]
                /\ opened' = [opened EXCEPT ![w] = @ \cup {n}]
          /\ SetTask(w, t, NoTask)

\* A handler is done with its documents.
Done(w, h) ==
    /\ UNCHANGED cancels
    /\ \/ h = "window" /\ WindowDone(w)
       \/ h = "all" /\ AllDone(w)
       \/ h \in Tabs /\ TabDone(w, h)

Running(w, h, phase) == status[w] = "open" /\ task[w][h].pc = phase
frame == <<inProgress, exitAllowed, targets, firstPress, confirm, exited, begun, status,
           inbox, ver, inputs, edits>>

AnswerCancel(w, h) ==
    /\ Running(w, h, "ask") /\ GivesUp(w, h)
    /\ UNCHANGED <<frame, saved, opened, written, discarded>>

AnswerDiscard(w, h) ==
    /\ Running(w, h, "ask") /\ Done(w, h)
    /\ discarded' = [discarded EXCEPT ![w] =
                       [t \in Tabs |-> IF t \in task[w][h].todo THEN ver[w][t] ELSE @[t]]]
    /\ UNCHANGED <<frame, saved, written>>

AnswerSave(w, h) ==
    /\ Running(w, h, "ask")
    /\ SetTask(w, h, [task[w][h] EXCEPT !.pc = "save"])
    /\ UNCHANGED <<frame, cancels, tabs, docs, pending, saved, opened, written, discarded>>

\* saveToPath has written the text the handler was started with; the tab's
\* clean-up follows the save.
SaveNext(w, h, t) ==
    LET k == task[w][h] IN
    /\ Running(w, h, "save") /\ t \in k.todo
    /\ saved' = [saved EXCEPT ![w][t] = k.snap[t]]
    /\ written' = [written EXCEPT ![w][t] = @ \cup {k.snap[t]}]
    /\ \/ k.todo = {t} /\ h \notin Tabs /\ Done(w, h)
       \/ /\ k.todo # {t} \/ h \in Tabs
          /\ SetTask(w, h, IF k.todo = {t} THEN [k EXCEPT !.pc = "clean"]
                           ELSE [k EXCEPT !.todo = @ \ {t}])
          /\ UNCHANGED <<cancels, tabs, docs, opened, pending>>
    /\ UNCHANGED <<frame, discarded>>

\* Mutant of SaveFails: the handler goes on as if the text were saved.
SaveFailsAnyway(w, h) ==
    /\ Running(w, h, "save") /\ Done(w, h)
    /\ UNCHANGED <<frame, saved, written, discarded>>

\* A write fails, or the user leaves the dialog for a new file's name.
SaveFails(w, h) ==
    /\ Running(w, h, "save") /\ GivesUp(w, h)
    /\ UNCHANGED <<frame, saved, opened, written, discarded>>

\* The clean-up before a clean or saved tab closes is over.
TabCleaned(w, t) ==
    /\ Running(w, t, "clean") /\ Done(w, t)
    /\ UNCHANGED <<frame, saved, written, discarded>>

\* The session is persisted and close_window destroys the window.
CloseWindow(w, h) ==
    /\ Running(w, h, "closing") /\ cancels[w] = 0
    /\ status' = [status EXCEPT ![w] = "dying"]
    /\ tabs' = [tabs EXCEPT ![w] = {}] /\ docs' = [docs EXCEPT ![w] = {}]
    /\ SetTask(w, h, NoTask)
    /\ UNCHANGED <<rustVars, inbox, cancels, ver, saved, opened, written, discarded,
                   inputs, edits>>

-----------------------------------------------------------------------------
\* A document changes: typing, a tool's edit, a reload.
Edit(w, t) ==
    /\ edits < MaxEdits /\ edits' = edits + 1
    /\ status[w] = "open" /\ t \in docs[w]
    /\ ver' = [ver EXCEPT ![w][t] = @ + 1]
    /\ UNCHANGED <<rustVars, status, inbox, cancels, task, tabs, docs, saved, opened,
                   written, discarded, inputs>>

\* A plain Save or an auto-save.
SaveDoc(w, t) ==
    /\ status[w] = "open" /\ t \in Dirty(w)
    /\ saved' = [saved EXCEPT ![w][t] = ver[w][t]]
    /\ written' = [written EXCEPT ![w][t] = @ \cup {ver[w][t]}]
    /\ UNCHANGED <<rustVars, status, inbox, cancels, task, tabs, docs, ver, opened,
                   discarded, inputs, edits>>

HandlerStep(w, h) ==
    \/ AnswerCancel(w, h) \/ AnswerDiscard(w, h) \/ AnswerSave(w, h)
    \/ \E t \in Tabs : SaveNext(w, h, t)
    \/ SaveFails(w, h)
    \/ h \in Tabs /\ TabCleaned(w, h)
    \/ CloseWindow(w, h)
RustStep ==
    \/ RequestQuit \/ PressExpires \/ SetConfirmQuit \/ SystemExit \/ MenuSaveAllQuit
    \/ \E k \in pending : ExitEvent(k)
    \/ \E w \in Windows : \/ CancelQuit(w) \/ Destroyed(w) \/ CreateWindow(w) \/ Ready(w)
                          \/ CloseRequested(w) \/ MenuClose(w)
WindowStep ==
    \E w \in Windows : \/ Handle(w) \/ \E h \in Handlers : HandlerStep(w, h)
                       \/ \E t \in Tabs : Edit(w, t) \/ SaveDoc(w, t)

Next == ~exited /\ (RustStep \/ WindowStep)

Spec == Init /\ [][Next]_vars

\* The main thread and the webviews run, and users answer their dialogs.
Fairness ==
    /\ \A w \in Windows :
         /\ WF_vars(~exited /\ Handle(w)) /\ WF_vars(~exited /\ CancelQuit(w))
         /\ WF_vars(~exited /\ Destroyed(w)) /\ WF_vars(~exited /\ Ready(w))
         /\ \A h \in Handlers : WF_vars(~exited /\ HandlerStep(w, h))
    /\ WF_vars(~exited /\ \E k \in pending : ExitEvent(k))
FairSpec == Spec /\ Fairness

-----------------------------------------------------------------------------
(* Properties.                                                             *)

\* The process ends only when every window there was when the quit began has
\* been asked and is gone, whichever quits were cancelled before.  Windows opened
\* since then are not waited for (quit.rs:151).
ExitOnlyAfterAll == exited => Alive \cap begun = {}

\* While a quit is in progress some window it waits for is on its way to close
\* or to cancel it: the menu's Quit cannot go dead (useWindowClose.ts:205).
QuitIsCarried ==
    inProgress /\ ~exitAllowed =>
      \E w \in targets :
        \/ status[w] = "dying" \/ cancels[w] > 0
        \/ \E i \in DOMAIN inbox[w] : inbox[w][i] = "quit"
        \/ task[w]["window"].pc # "idle"

\* A text that goes with its tab or window is on record in a file, or the user
\* chose not to save it, or it is newer than the one the handler had looked at.
LossIsLate ==
    [][\A w \in Windows : \A t \in docs[w] \ docs'[w] :
         \/ ver[w][t] \in written'[w][t] \cup {discarded'[w][t]}
         \/ \E h \in {"window", t} : /\ task[w][h].pc # "idle" /\ task'[w][h] # task[w][h]
                                     /\ ver[w][t] > task[w][h].snap[t]]_vars

\* A quit comes to its end: the process exits or somebody cancels.
QuitEnds == inProgress ~> (exited \/ ~inProgress)
=============================================================================
