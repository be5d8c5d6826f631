-------------------------------- MODULE HotExit --------------------------------
(***************************************************************************)
(* Hot exit: the session of every window is captured to a file before the  *)
(* application restarts itself, and pulled back by the windows of the next *)
(* process (src-tauri/src/hot_exit, src/utils/hotExit).  A process is a    *)
(* run; a crash or a relaunch ends it between any two steps and leaves     *)
(* only the two files.                                                     *)
(*                                                                         *)
(* A window's state is one text, a document and the number of edits made   *)
(* to it; Blank is the empty untitled tab, which a restore passes over.    *)
(* Label 0 is "main", label n is "doc-(n-1)".  A file is the set of its    *)
(* window states, {} when there is none: a session always has a window.    *)
(***************************************************************************)
EXTENDS Integers, FiniteSets

CONSTANTS
    MaxLabel,       \* bound on the labels a run may allocate
    MaxDoc,         \* bound on the documents
    MaxVer,       \* bound on the edits of a document, with the windows open
    MaxAsked,       \* bound on the windows a capture asks, with the captures and the
                    \* processes before it
    Budget          \* bound on the processes that follow one another, the captures
                    \* and the uses of "Test Restore" together

ASSUME HotExitBounds ==
    /\ MaxLabel \in Nat \ {0} /\ MaxDoc \in Nat /\ MaxVer \in Nat
    /\ MaxAsked \in Nat /\ Budget \in Nat \ {0}

MainWindow == 0
Labels == 0..MaxLabel
WindowTexts == [doc : 0..MaxDoc, ver : 0..MaxVer]
Blank == [doc |-> 0, ver |-> 0]
WindowStates == [label : Labels, text : WindowTexts]
Captures == {"restart", "button"}   \* restartWithHotExit, and "Test Capture"
Gens == 0..Budget

VARIABLES
    run, open, texts,           \* the process, its document windows, their texts
    nextLabel,                  \* WINDOW_COUNTER
    session, backup, written,   \* the two files, and the payload last written
    hourOld,                        \* the session is more than an hour old
    cap, asked,                 \* the captures, and how many have begun
    requests, answers,          \* capture requests and responses under way
    pend,                       \* PendingRestoreState
    timer, fired,               \* the 60 s time-out, those already past their sleep
    startup, from, event,       \* checkAndRestoreSession of the main window
    rs, held,                   \* each window's restore, and the text it pulled
    guard, signal, buttons,     \* mainWindowRestoreStarted, RESTORE_START under way
    owed, faults                \* history: texts a restart still has to bring back

sessionFiles == <<session, backup, written, hourOld>>
capturing == <<cap, asked, requests, answers>>
pulling == <<rs, held, guard, signal>>
restoring == <<pend, timer, fired, startup, from, event, pulling, buttons>>
windows == <<run, open, texts, nextLabel>>
hotExitVars == <<windows, sessionFiles, capturing, restoring, owed, faults>>

-----------------------------------------------------------------------------
Covers(t, u) == t.doc = u.doc /\ t.ver >= u.ver
LabelsOf(ws) == {w.label : w \in ws}
TextsOf(ws) == {w.text : w \in ws} \ {Blank}
Idle == [phase |-> "idle", id |-> 0, since |-> 0, expected |-> {}, got |-> {}]
Cleared(p) == [states |-> {}, expected |-> {}, completed |-> {}, gen |-> p.gen]
Holder == {c \in Captures : cap[c].phase \in {"backup", "persist"}}   \* of CAPTURE_LOCK

\* read_session: the backup stands in for a session that is missing.
ReadSession == IF session # {} THEN session ELSE backup

Spare == run + asked + buttons < Budget

HotExitInit ==
    /\ run = 1 /\ open \in {{MainWindow}, {MainWindow, 1}} /\ nextLabel = Cardinality(open)
    /\ texts = [l \in Labels |-> IF l \in open /\ l < MaxDoc
                                 THEN [doc |-> l + 1, ver |-> 0] ELSE Blank]
    /\ session = {} /\ backup = {} /\ written = {} /\ hourOld = FALSE
    /\ cap = [c \in Captures |-> Idle] /\ asked = 0 /\ requests = {} /\ answers = {}
    /\ pend = [states |-> {}, expected |-> {}, completed |-> {}, gen |-> 0]
    /\ timer = 0 /\ fired = {}
    /\ startup = "done" /\ from = {} /\ event = "none"
    /\ rs = [l \in Labels |-> "idle"] /\ held = [l \in Labels |-> Blank]
    /\ guard = FALSE /\ signal = FALSE /\ buttons = 0
    /\ owed = {} /\ faults = {}

\* A process starts: everything but the files and the history is new.
NewRun ==
    /\ Spare /\ run' = run + 1
    /\ open' = {MainWindow} /\ nextLabel' = 1 /\ texts' = [l \in Labels |-> Blank]
    /\ written' = {}
    /\ cap' = [c \in Captures |-> Idle] /\ requests' = {} /\ answers' = {}
    /\ pend' = [states |-> {}, expected |-> {}, completed |-> {}, gen |-> 0]
    /\ timer' = 0 /\ fired' = {}
    /\ startup' = "start" /\ from' = {} /\ event' = "none"
    /\ rs' = [l \in Labels |-> "idle"] /\ held' = [l \in Labels |-> Blank]
    /\ guard' = FALSE /\ signal' = FALSE
    /\ UNCHANGED <<session, backup, hourOld, asked, buttons>>

-----------------------------------------------------------------------------
(* The user. *)

EditText(l) ==
    /\ l \in open /\ texts[l] # Blank /\ texts[l].ver + Cardinality(open) <= MaxVer
    /\ texts' = [texts EXCEPT ![l].ver = @ + 1]
    /\ UNCHANGED <<run, open, nextLabel, sessionFiles, capturing, restoring, owed, faults>>

CloseWindow(l) ==
    /\ l \in open /\ open # {l}
    /\ open' = open \ {l}
    /\ texts' = [texts EXCEPT ![l] = Blank]
    /\ requests' = {r \in requests : r.label # l}
    /\ rs' = [rs EXCEPT ![l] = "idle"] /\ held' = [held EXCEPT ![l] = Blank]
    /\ IF l = MainWindow THEN startup' = "done" /\ guard' = FALSE /\ signal' = FALSE
                   ELSE UNCHANGED <<startup, guard, signal>>
    /\ UNCHANGED <<run, nextLabel, sessionFiles, cap, asked, answers,
                   pend, timer, fired, from, event, buttons, owed, faults>>

Crash ==
    /\ NewRun
    /\ UNCHANGED <<owed, faults>>

\* A capture takes seconds.
HourPasses ==
    /\ ~hourOld /\ session # {} /\ \A c \in Captures : cap[c].phase = "idle"
    /\ hourOld' = TRUE
    /\ UNCHANGED <<windows, session, backup, written, capturing, restoring, owed, faults>>

-----------------------------------------------------------------------------
(* Capture: coordinator.rs:133-308, commands.rs:34-103. *)

\* The id is the time in milliseconds: a capture that begins while another
\* waits may get the other's.
Begin(c, id) ==
    /\ cap[c].phase = "idle" /\ Spare /\ run + asked + Cardinality(open) <= MaxAsked
    /\ id \in {asked + 1} \union {cap[d].id : d \in Captures \ {c}} /\ id # 0
    /\ asked' = asked + 1
    /\ cap' = [cap EXCEPT ![c] = [phase |-> "waiting", id |-> id, since |-> asked + 1,
                                  expected |-> open, got |-> {}]]
    /\ requests' = requests \union [id : {id}, by : {c}, label : open]
    /\ faults' = faults \union (IF startup # "done" \/ owed # {} THEN {"overlap"} ELSE {})
                         \union (IF id # asked + 1 THEN {"sameId"} ELSE {})
                         \union (IF \E d \in Captures : cap[d].phase # "idle" THEN {"together"} ELSE {})
    /\ UNCHANGED <<windows, sessionFiles, answers, restoring, owed>>

Answer(r) ==
    /\ r \in requests
    /\ requests' = requests \ {r}
    /\ answers' = answers \union {[id |-> r.id, label |-> r.label, text |-> texts[r.label], at |-> asked]}
    /\ UNCHANGED <<windows, sessionFiles, cap, asked, restoring, owed, faults>>

\* Mutant of Accepts: the capture id is not compared.
AcceptsAny(c, a) ==
    cap[c].phase = "waiting" /\ a.label \in cap[c].expected \ LabelsOf(cap[c].got)

\* Every capture that still listens is offered the response.
Accepts(c, a) ==
    /\ cap[c].phase = "waiting" /\ a.id = cap[c].id
    /\ a.label \in cap[c].expected \ LabelsOf(cap[c].got)

Deliver(a) ==
    /\ a \in answers
    /\ answers' = answers \ {a}
    /\ cap' = [c \in Captures |->
                IF Accepts(c, a)
                THEN [cap[c] EXCEPT !.got = @ \union {[label |-> a.label, text |-> a.text]}]
                ELSE cap[c]]
    /\ UNCHANGED <<windows, sessionFiles, asked, requests, restoring, owed, faults>>

\* All have answered, or five seconds have passed; a capture nobody answered fails.
EndWait(c) ==
    /\ cap[c].phase = "waiting"
    /\ cap' = [cap EXCEPT ![c].phase = IF cap[c].got = {} THEN "failed" ELSE "captured"]
    /\ UNCHANGED <<windows, sessionFiles, asked, requests, answers, restoring, owed, faults>>

\* Under CAPTURE_LOCK: a window that was asked and did not answer keeps the
\* state of the previous session when that is at most an hour old.
Merge(c) ==
    /\ cap[c].phase = "captured" /\ Holder = {}
    /\ LET missing == cap[c].expected \ LabelsOf(cap[c].got)
           kept == {w \in ReadSession : ~hourOld /\ w.label \in missing}
       IN cap' = [cap EXCEPT ![c].got = @ \union kept, ![c].phase = "backup"]
    /\ UNCHANGED <<windows, sessionFiles, asked, requests, answers, restoring, owed, faults>>

\* write_session_atomic: nothing to do when the payload, its time in seconds
\* included, is the one written last and the file is still there.
SkipWrite(c) ==
    /\ cap[c].phase = "backup" /\ written = cap[c].got /\ session # {}
    /\ cap' = [cap EXCEPT ![c].phase = "done"]
    /\ UNCHANGED <<windows, sessionFiles, asked, requests, answers, restoring, owed, faults>>

WriteBackup(c) ==
    /\ cap[c].phase = "backup"
    /\ backup' = ReadSession
    /\ cap' = [cap EXCEPT ![c].phase = "persist"]
    /\ UNCHANGED <<windows, session, written, hourOld, asked, requests, answers, restoring, owed, faults>>

WriteSession(c) ==
    /\ cap[c].phase = "persist"
    /\ session' = cap[c].got /\ written' = cap[c].got /\ hourOld' = FALSE
    /\ cap' = [cap EXCEPT ![c].phase = "done"]
    /\ UNCHANGED <<windows, backup, asked, requests, answers, restoring, owed, faults>>

CaptureWriteFails(c) ==
    /\ cap[c].phase \in {"backup", "persist"}
    /\ cap' = [cap EXCEPT ![c].phase = "failed"]
    /\ UNCHANGED <<windows, sessionFiles, asked, requests, answers, restoring, owed, faults>>

\* The settings' capture ends, or the relaunch is refused.
EndCapture(c) ==
    /\ cap[c].phase \in {"done", "failed"}
    /\ cap' = [cap EXCEPT ![c] = Idle]
    /\ UNCHANGED <<windows, sessionFiles, asked, requests, answers, restoring, owed, faults>>

\* restartWithHotExit relaunches whether or not the capture has succeeded.
Relaunch ==
    /\ cap["restart"].phase \in {"done", "failed"}
    /\ NewRun
    /\ owed' = IF cap["restart"].phase = "done" THEN TextsOf({w \in cap["restart"].got : w.label \in open}) ELSE owed
    /\ UNCHANGED faults

-----------------------------------------------------------------------------
(* The restart's other side: restartWithHotExit.ts:98-277, coordinator.rs:363-590. *)

Listening == startup \in {"listen", "invoked", "direct", "await"}

Emit(e) == event' = IF Listening /\ event = "none" THEN e ELSE event

Inspect ==
    /\ startup = "start"
    /\ from' = ReadSession
    /\ startup' = IF ReadSession = {} THEN "done" ELSE "listen"
    /\ UNCHANGED <<windows, sessionFiles, capturing, pend, timer, fired, event, pulling,
                   buttons, owed, faults>>

\* The session is older than a week, or the command fails: the file is kept.
Refuse ==
    /\ startup = "listen"
    /\ startup' = "done"
    /\ UNCHANGED <<windows, sessionFiles, capturing, pend, timer, fired, from, event, pulling,
                   buttons, owed, faults>>

Secondary(ws) == {w \in ws : w.label # MainWindow}

\* The main window's state, or the first window's when there is none.
MainState(ws) == CHOOSE w \in ws : \A v \in ws : w.label <= v.label

\* allocate_window_label, in the order of the session.
Renamed(ws, w) == nextLabel + Cardinality({v \in Secondary(ws) : v.label < w.label})

\* init_pending_restore_state_sync and spawn_restore_timeout: the sleeping
\* time-out is aborted, one that is past its sleep is not.
Store(states) ==
    /\ pend' = [states |-> states, expected |-> LabelsOf(states), completed |-> {},
                gen |-> pend.gen + 1]
    /\ timer' = pend.gen + 1
    /\ signal' = TRUE
    /\ UNCHANGED fired

\* restore_session for a session of the main window alone, otherwise
\* restore_session_multi_window; a window that cannot be created leaves no trace.
Invoke(made) ==
    /\ startup = "listen"
    /\ LET own == [label |-> MainWindow, text |-> MainState(from).text]
           others == {[label |-> Renamed(from, w), text |-> w.text] : w \in Secondary(from)}
       IN /\ made \subseteq LabelsOf(others) /\ LabelsOf(others) \subseteq Labels
          /\ Store({own} \union {w \in others : w.label \in made})
          /\ nextLabel' = nextLabel + Cardinality(others)
          /\ open' = open \union made
          /\ rs' = [l \in Labels |-> IF l \in made THEN "pull" ELSE rs[l]]
          /\ faults' = IF made # LabelsOf(others) THEN faults \union {"uncreated"} ELSE faults
    /\ startup' = "invoked"
    /\ UNCHANGED <<run, texts, sessionFiles, capturing, from, event, held, guard, buttons, owed>>

\* restoreMainWindowState, unless the event has started the main window's restore.
Direct ==
    /\ startup = "invoked"
    /\ IF guard THEN startup' = "await" /\ UNCHANGED <<guard, rs>>
       ELSE startup' = "direct" /\ guard' = TRUE /\ rs' = [rs EXCEPT ![MainWindow] = "pull"]
    /\ UNCHANGED <<windows, sessionFiles, capturing, pend, timer, fired, from, event, held,
                   signal, buttons, owed, faults>>

\* RESTORE_START reaches the main window, or nobody listens yet.
HearStart ==
    /\ signal /\ signal' = FALSE
    /\ \/ MainWindow \in open /\ ~guard /\ guard' = TRUE /\ rs' = [rs EXCEPT ![MainWindow] = "pull"]
       \/ UNCHANGED <<guard, rs>>
    /\ UNCHANGED <<windows, sessionFiles, capturing, pend, timer, fired, startup, from, event, held,
                   buttons, owed, faults>>

\* "Test Restore": the session's first state goes to one open window.
ButtonRestore(target) ==
    /\ Spare /\ ReadSession # {} 
    /\ target \in open /\ (MainWindow \in open => target = MainWindow)
    /\ buttons' = buttons + 1
    /\ Store({[label |-> target, text |-> MainState(ReadSession).text]})
    /\ faults' = IF startup # "done" THEN faults \union {"overlap"} ELSE faults
    /\ UNCHANGED <<windows, sessionFiles, capturing, startup, from, event, rs, held, guard, owed>>

\* Mutant of Returns: a restore that fails does not return.
ReturnsNever(l) == UNCHANGED startup

\* What follows the main window's restore in checkAndRestoreSession.
Returns(l) == startup' = IF l = MainWindow /\ startup = "direct" THEN "await" ELSE startup

Pull(l) ==
    /\ rs[l] = "pull"
    /\ \E w \in pend.states : /\ w.label = l
                              /\ held' = [held EXCEPT ![l] = w.text]
    /\ rs' = [rs EXCEPT ![l] = "apply"]
    /\ UNCHANGED <<windows, sessionFiles, capturing, pend, timer, fired, startup, from, event,
                   guard, signal, buttons, owed, faults>>

\* The fifth attempt has found nothing.
GiveUp(l) ==
    /\ rs[l] = "pull" /\ l \notin LabelsOf(pend.states)
    /\ rs' = [rs EXCEPT ![l] = "idle"]
    /\ guard' = (guard /\ l # MainWindow)
    /\ IF l = MainWindow THEN Emit("failed") ELSE UNCHANGED event
    /\ Returns(l)
    /\ UNCHANGED <<windows, sessionFiles, capturing, pend, timer, fired, from, held,
                   signal, buttons, owed, faults>>

Apply(l) ==
    /\ rs[l] = "apply"
    /\ texts' = IF held[l] = Blank THEN texts ELSE [texts EXCEPT ![l] = held[l]]
    /\ rs' = [rs EXCEPT ![l] = "mark"]
    /\ owed' = {t \in owed : ~Covers(held[l], t)}
    /\ UNCHANGED <<run, open, nextLabel, sessionFiles, capturing, pend, timer, fired, startup, from,
                   event, held, guard, signal, buttons, faults>>

ApplyFails(l) ==
    /\ rs[l] = "apply"
    /\ rs' = [rs EXCEPT ![l] = "idle"] /\ held' = [held EXCEPT ![l] = Blank]
    /\ guard' = (guard /\ l # MainWindow)
    /\ Emit("failed") /\ Returns(l)
    /\ UNCHANGED <<windows, sessionFiles, capturing, pend, timer, fired, from,
                   signal, buttons, owed, faults>>

\* mark_window_restore_complete; the last window emits RESTORE_COMPLETE and
\* resets the guard of its own web view.
Mark(l) ==
    /\ rs[l] = "mark"
    /\ LET done == IF l \in pend.expected THEN pend.completed \union {l} ELSE pend.completed
           all == pend.expected # {} /\ pend.expected \subseteq done
       IN /\ pend' = IF all THEN Cleared(pend)
                     ELSE [pend EXCEPT !.completed = done]
          /\ IF all THEN Emit("complete") ELSE UNCHANGED event
          /\ guard' = (guard /\ ~(all /\ l = MainWindow))
    /\ rs' = [rs EXCEPT ![l] = "idle"] /\ held' = [held EXCEPT ![l] = Blank]
    /\ Returns(l)
    /\ UNCHANGED <<windows, sessionFiles, capturing, timer, fired, from, signal, buttons, owed, faults>>

\* Fifteen seconds without an event.
RestoreTimeout ==
    /\ Listening /\ event = "none"
    /\ event' = "failed"
    /\ UNCHANGED <<windows, sessionFiles, capturing, pend, timer, fired, startup, from, pulling,
                   buttons, owed, faults>>

\* Mutant of Resolved: the session is cleared whatever the outcome.
ResolvedAnyway ==
    /\ startup = "await" /\ event # "none"
    /\ startup' = "clear"
    /\ UNCHANGED <<windows, sessionFiles, capturing, pend, timer, fired, from, event, pulling,
                   buttons, owed, faults>>

Resolved ==
    /\ startup = "await" /\ event # "none"
    /\ startup' = IF event = "complete" THEN "clear" ELSE "done"
    /\ UNCHANGED <<windows, sessionFiles, capturing, pend, timer, fired, from, event, pulling,
                   buttons, owed, faults>>

\* hot_exit_clear_session; a file that cannot be deleted is left.
ClearSession ==
    /\ startup = "clear"
    /\ pend' = Cleared(pend)
    /\ \/ session' = {} /\ startup' = "clearBackup"
       \/ startup' = "done" /\ UNCHANGED session
    /\ UNCHANGED <<windows, backup, written, hourOld, capturing, timer, fired, from, event, pulling,
                   buttons, owed, faults>>

ClearBackup ==
    /\ startup = "clearBackup"
    /\ startup' = "done"
    /\ backup' \in {{}, backup} /\ written' = {}
    /\ UNCHANGED <<windows, session, hourOld, capturing, pend, timer, fired, from, event, pulling,
                   buttons, owed, faults>>

\* The sixty seconds are over; the task has yet to get the lock.  One that finds
\* nothing left to clear changes nothing, so its end is not followed.
Expire ==
    /\ timer # 0 /\ pend.states # {}
    /\ timer' = 0 /\ fired' = fired \union {timer}
    /\ UNCHANGED <<windows, sessionFiles, capturing, pend, startup, from, event, pulling,
                   buttons, owed, faults>>

RunExpired(g) ==
    /\ g \in fired
    /\ fired' = fired \ {g}
    /\ pend' = IF pend.gen = g THEN Cleared(pend) ELSE pend
    /\ UNCHANGED <<windows, sessionFiles, capturing, timer, startup, from, event, pulling,
                   buttons, owed, faults>>

-----------------------------------------------------------------------------
User ==
    \/ \E l \in Labels : EditText(l) \/ CloseWindow(l) \/ ButtonRestore(l)
    \/ \E c \in Captures, id \in 1..MaxAsked : Begin(c, id)

Capturing ==
    \/ \E r \in requests : Answer(r)
    \/ \E a \in answers : Deliver(a)
    \/ \E c \in Captures :
          \/ EndWait(c) \/ Merge(c) \/ SkipWrite(c)
          \/ WriteBackup(c) \/ WriteSession(c) \/ CaptureWriteFails(c) \/ EndCapture(c)
    \/ Relaunch

Main15s == Inspect \/ Direct \/ RestoreTimeout \/ Resolved \/ ClearSession \/ ClearBackup

Pulling == \E l \in Labels : Pull(l) \/ GiveUp(l) \/ Apply(l) \/ ApplyFails(l) \/ Mark(l)

HotExitNext ==
    \/ User \/ Crash \/ HourPasses \/ Capturing
    \/ Main15s \/ Refuse \/ (\E made \in SUBSET Labels : Invoke(made)) \/ HearStart
    \/ Pulling
    \/ Expire \/ \E g \in Gens : RunExpired(g)

HotExitSpec == HotExitInit /\ [][HotExitNext]_hotExitVars

\* The webviews and the runtime run, timers fire, commands return.
HotExitFairness ==
    /\ WF_hotExitVars(Main15s)
    /\ WF_hotExitVars(Refuse \/ \E made \in SUBSET Labels : Invoke(made))
    /\ WF_hotExitVars(Pulling)

HotExitFairSpec == HotExitSpec /\ HotExitFairness

-----------------------------------------------------------------------------
CaptureStates ==
    [phase : {"idle", "waiting", "captured", "backup", "persist", "done", "failed"},
     id : 0..MaxAsked, since : 0..MaxAsked, expected : SUBSET Labels, got : SUBSET WindowStates]

\* Every variable keeps its type.
HotExitTypeOK ==
    /\ run \in 1..Budget /\ open \subseteq Labels /\ texts \in [Labels -> WindowTexts]
    /\ nextLabel \in 1..(MaxLabel + 1)
    /\ session \subseteq WindowStates /\ backup \subseteq WindowStates
    /\ written \subseteq WindowStates
    /\ cap \in [Captures -> CaptureStates] /\ asked \in 0..MaxAsked
    /\ requests \subseteq [id : 0..MaxAsked, by : Captures, label : Labels]
    /\ answers \subseteq [id : 0..MaxAsked, label : Labels, text : WindowTexts, at : 0..MaxAsked]
    /\ pend \in [states : SUBSET WindowStates, expected : SUBSET Labels,
                  completed : SUBSET Labels, gen : Gens]
    /\ timer \in Gens /\ fired \subseteq Gens
    /\ startup \in {"start", "listen", "invoked", "direct", "await", "clear", "clearBackup", "done"}
    /\ from \subseteq WindowStates /\ event \in {"none", "complete", "failed"}
    /\ rs \in [Labels -> {"idle", "pull", "apply", "mark"}] /\ held \in [Labels -> WindowTexts]
    /\ guard \in BOOLEAN /\ signal \in BOOLEAN /\ buttons \in 0..Budget
    /\ hourOld \in BOOLEAN /\ owed \subseteq WindowTexts /\ faults \subseteq {"overlap", "uncreated", "sameId", "together"}

\* Text that a restart captured is on disk until a window shows it again, over
\* crashes at any step, windows that are closed, fail or are late, time-outs and
\* later restarts; the exceptions are a capture that overlaps the restore or another
\* capture, and a window the restore could not create (README, Divergences).
OwedIsKept ==
    faults \subseteq {"sameId"} =>
        \A t \in owed : \E w \in ReadSession : Covers(w.text, t)

\* A capture takes only what a window showed after it had begun, unless two share
\* an id: the late answer to an earlier capture is not part of this session.
SessionIsFresh ==
    [][\A c \in Captures, w \in WindowStates :
          cap[c].phase = "waiting" /\ w \in cap'[c].got \ cap[c].got /\ "sameId" \notin faults
          => \E a \in answers : a.label = w.label /\ a.text = w.text /\ a.at >= cap[c].since]_hotExitVars

\* The start of the main window ends: the hooks that wait for it go on.
StartupEnds == []<>(startup = "done")

\* restartWithHotExit.ts:181: waiting for the restore "prevents data loss if restore
\* fails partway through"; violated when a window cannot be created.
PartialRestoreIsKept ==
    faults \subseteq {"uncreated"} => \A t \in owed : \E w \in ReadSession : Covers(w.text, t)
=============================================================================
