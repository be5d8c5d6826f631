----------------------------- MODULE WindowProofs -----------------------------
(***************************************************************************)
(* Proofs about the windows: closing and quitting (QuitCoordinator) and    *)
(* moving tabs between them (TabTransfer).                                 *)
(*                                                                         *)
(* Of the first, for any windows, tabs, inputs and edits: the shape of its *)
(* state, that the process does not end while a window it had to wait for  *)
(* is alive, that a quit in progress is carried by a window, and that a    *)
(* text is not lost unless the user left it or wrote it too late.          *)
(* Of the second, for any windows, tabs, moves and edits: that a tab and   *)
(* its newest text are in one place at a time.                             *)
(***************************************************************************)
EXTENDS MCQuitCoordinator, TabTransfer, FiniteSetTheorems, SequenceTheorems, TLAPS

\* The parts of TypeOK.
RustType ==
    /\ inProgress \in BOOLEAN /\ exitAllowed \in BOOLEAN /\ firstPress \in BOOLEAN
    /\ confirm \in BOOLEAN /\ exited \in BOOLEAN
    /\ targets \subseteq Windows /\ begun \subseteq Windows
    /\ pending \subseteq {"final", "force"}
StatusType == status \in [Windows -> {"none", "loading", "open", "dying", "gone"}]
EventType ==
    /\ inbox \in [Windows -> Seq({"quit", "close", "tab", "all"})]
    /\ cancels \in [Windows -> Nat]
TaskType == task \in [Windows -> [Handlers -> Tasks]]
TabType ==
    /\ tabs \in [Windows -> SUBSET Tabs] /\ opened \in [Windows -> SUBSET Tabs]
    /\ docs \in [Windows -> SUBSET Tabs] /\ \A w \in Windows : docs[w] \subseteq tabs[w]
TextType ==
    /\ ver \in [Windows -> Versions] /\ saved \in [Windows -> Versions]
    /\ discarded \in [Windows -> Versions]
    /\ written \in [Windows -> [Tabs -> SUBSET Nat]]
CountType == inputs \in Nat /\ edits \in Nat

LEMMA TypeParts ==
    TypeOK <=> /\ RustType /\ StatusType /\ EventType /\ TaskType /\ TabType
               /\ TextType /\ CountType
  BY DEF TypeOK, RustType, StatusType, EventType, TaskType, TabType, TextType, CountType

LEMMA NextParts ==
    TypeOK' <=> /\ RustType' /\ StatusType' /\ EventType' /\ TaskType' /\ TabType'
                /\ TextType' /\ CountType'
  BY DEF TypeOK, RustType, StatusType, EventType, TaskType, TabType, TextType, CountType

\* What a step leaves alone keeps its type.
LEMMA Frames ==
    ASSUME TypeOK
    PROVE  /\ UNCHANGED rustVars => RustType'
           /\ UNCHANGED status => StatusType'
           /\ UNCHANGED <<inbox, cancels>> => EventType'
           /\ UNCHANGED task => TaskType'
           /\ UNCHANGED <<tabs, docs, opened>> => TabType'
           /\ UNCHANGED <<ver, saved, written, discarded>> => TextType'
           /\ UNCHANGED <<inputs, edits>> => CountType'
  BY DEF TypeOK, RustType, StatusType, EventType, TaskType, TabType, TextType, CountType,
         rustVars

LEMMA AliveIsWindows == Alive \subseteq Windows
  BY DEF Alive

Events == {"quit", "close", "tab", "all"}

\* An event put at the end of a window's queue.
LEMMA AppendType ==
    ASSUME TypeOK, NEW w \in Windows, NEW e \in Events,
           inbox' = [inbox EXCEPT ![w] = Append(@, e)], UNCHANGED cancels
    PROVE  EventType'
  <1>1. inbox \in [Windows -> Seq(Events)] /\ inbox[w] \in Seq(Events)
    BY DEF TypeOK, Events
  <1>2. Append(inbox[w], e) \in Seq(Events)
    BY <1>1
  <1>3. inbox' \in [Windows -> Seq(Events)]
    BY <1>1, <1>2
  <1>. QED  BY <1>3 DEF EventType, Events, TypeOK

LEMMA HearType ==
    ASSUME TypeOK, NEW w \in Windows, NEW e \in {"quit", "close", "tab", "all"}
    PROVE  Hear(w, e) \in Seq({"quit", "close", "tab", "all"})
  BY DEF Hear, TypeOK

\* A start of a quit, whatever exits are pending besides.
LEMMA StartQuitType ==
    ASSUME TypeOK, NEW rest \in SUBSET {"final", "force"}, StartQuit(rest)
    PROVE  /\ inProgress' \in BOOLEAN /\ exitAllowed' \in BOOLEAN
           /\ targets' \subseteq Windows /\ begun' \subseteq Windows
           /\ pending' \subseteq {"final", "force"}
           /\ inbox' \in [Windows -> Seq({"quit", "close", "tab", "all"})]
  <1>1. CASE inProgress
    BY <1>1 DEF StartQuit, TypeOK
  <1>2. CASE ~inProgress
    <2>1. inbox' \in [Windows -> Seq({"quit", "close", "tab", "all"})]
      BY <1>2, HearType DEF StartQuit
    <2>2. /\ inProgress' \in BOOLEAN /\ exitAllowed' \in BOOLEAN
          /\ targets' \subseteq Windows /\ begun' \subseteq Windows
          /\ pending' \subseteq {"final", "force"}
      BY <1>2, AliveIsWindows DEF StartQuit, TypeOK
    <2>. QED  BY <2>1, <2>2
  <1>. QED  BY <1>1, <1>2

LEMMA ExitRequestedType ==
    ASSUME TypeOK, NEW rest \in SUBSET {"final", "force"}, ExitRequested(rest)
    PROVE  /\ inProgress' \in BOOLEAN /\ exitAllowed' \in BOOLEAN /\ exited' \in BOOLEAN
           /\ targets' \subseteq Windows /\ begun' \subseteq Windows
           /\ pending' \subseteq {"final", "force"}
           /\ inbox' \in [Windows -> Seq({"quit", "close", "tab", "all"})]
  <1>1. CASE UNCHANGED <<inProgress, exitAllowed, targets, begun, inbox>>
    BY <1>1 DEF ExitRequested, StartQuit, TypeOK
  <1>2. CASE StartQuit(rest) /\ UNCHANGED exited
    BY <1>2, StartQuitType DEF TypeOK
  <1>. QED  BY <1>1, <1>2 DEF ExitRequested

LEMMA InputType ==
    ASSUME TypeOK, NEW i, Input(i), UNCHANGED edits
    PROVE  CountType'
  BY DEF Input, TypeOK, CountType

\* The steps of the coordinator and of what reaches a window.
LEMMA RustStepTypes ==
    ASSUME TypeOK, RustStep
    PROVE  TypeOK'
  <1>1. CASE RequestQuit
    <2>1. RustType' /\ EventType'
      <3>1. CASE UNCHANGED <<inProgress, exitAllowed, targets, begun, pending, inbox>>
        BY <1>1, <3>1 DEF RequestQuit, RustType, EventType, TypeOK
      <3>2. CASE StartQuit(pending)
        <4>1. pending \in SUBSET {"final", "force"}
          BY DEF TypeOK
        <4>2. firstPress' \in BOOLEAN /\ UNCHANGED <<confirm, exited, cancels>>
          BY <1>1 DEF RequestQuit, TypeOK
        <4>. QED  BY <3>2, <4>1, <4>2, StartQuitType DEF RustType, EventType, TypeOK
      <3>. QED  BY <1>1, <3>1, <3>2 DEF RequestQuit
    <2>2. StatusType' /\ TaskType' /\ TabType' /\ TextType' /\ CountType'
      BY <1>1, Frames, InputType DEF RequestQuit, docVars
    <2>. QED  BY <2>1, <2>2, NextParts
  <1>2. CASE PressExpires
    BY <1>2, Frames, NextParts DEF PressExpires, docVars, RustType, TypeOK
  <1>3. CASE SetConfirmQuit
    <2>1. RustType'
      BY <1>3 DEF SetConfirmQuit, RustType, TypeOK
    <2>. QED  BY <1>3, <2>1, Frames, NextParts, InputType DEF SetConfirmQuit, docVars
  <1>4. CASE SystemExit
    <2>1. RustType' /\ EventType'
      <3>1. pending \in SUBSET {"final", "force"}
        BY DEF TypeOK
      <3>. QED  BY <1>4, <3>1, ExitRequestedType DEF SystemExit, RustType, EventType, TypeOK
    <2>. QED  BY <1>4, <2>1, Frames, NextParts, InputType DEF SystemExit, docVars
  <1>5. CASE MenuSaveAllQuit
    <2>1. RustType'
      BY <1>5 DEF MenuSaveAllQuit, RustType, TypeOK
    <2>2. EventType'
      <3>1. CASE UNCHANGED inbox
        BY <1>5, <3>1 DEF MenuSaveAllQuit, EventType, TypeOK
      <3>2. ASSUME NEW w \in Alive, inbox' = [inbox EXCEPT ![w] = Append(@, "all")]
            PROVE EventType'
        BY <1>5, <3>2, AppendType, AliveIsWindows DEF MenuSaveAllQuit, Events
      <3>. QED  BY <1>5, <3>1, <3>2 DEF MenuSaveAllQuit
    <2>. QED  BY <1>5, <2>1, <2>2, Frames, NextParts, InputType DEF MenuSaveAllQuit, docVars
  <1>6. ASSUME NEW k \in pending, ExitEvent(k) PROVE TypeOK'
    <2>1. RustType' /\ EventType'
      <3>1. pending \ {k} \in SUBSET {"final", "force"}
        BY DEF TypeOK
      <3>. QED  BY <1>6, <3>1, ExitRequestedType DEF ExitEvent, RustType, EventType, TypeOK
    <2>. QED  BY <1>6, <2>1, Frames, NextParts DEF ExitEvent, docVars
  <1>7. ASSUME NEW w \in Windows, CancelQuit(w) PROVE TypeOK'
    <2>1. RustType'
      BY <1>7 DEF CancelQuit, RustType, TypeOK
    <2>2. cancels \in [Windows -> Nat] /\ cancels[w] \in Nat /\ cancels[w] > 0
      BY <1>7 DEF CancelQuit, TypeOK
    <2>3. cancels' = [cancels EXCEPT ![w] = cancels[w] - 1] /\ cancels[w] - 1 \in Nat
      BY <1>7, <2>2 DEF CancelQuit
    <2>4. EventType'
      BY <1>7, <2>2, <2>3 DEF CancelQuit, EventType, TypeOK
    <2>. QED  BY <1>7, <2>1, <2>4, Frames, NextParts DEF CancelQuit, docVars
  <1>8. ASSUME NEW w \in Windows, Destroyed(w) PROVE TypeOK'
    <2>1. RustType' /\ StatusType'
      BY <1>8 DEF Destroyed, HandleDestroyed, RustType, StatusType, TypeOK
    <2>. QED  BY <1>8, <2>1, Frames, NextParts DEF Destroyed, docVars
  <1>9. ASSUME NEW w \in Windows, CreateWindow(w) \/ Ready(w) PROVE TypeOK'
    <2>1. StatusType'
      BY <1>9 DEF CreateWindow, Ready, StatusType, TypeOK
    <2>. QED  BY <1>9, <2>1, Frames, NextParts, InputType DEF CreateWindow, Ready, docVars
  <1>10. ASSUME NEW w \in Windows, CloseRequested(w) \/ MenuClose(w) PROVE TypeOK'
    <2>1. EventType'
      <3>1. CASE CloseRequested(w)
        <4>1. Hear(w, "close") \in Seq(Events)
          BY HearType DEF Events
        <4>2. inbox' = [inbox EXCEPT ![w] = Hear(w, "close")] /\ UNCHANGED cancels
          BY <3>1 DEF CloseRequested
        <4>. QED  BY <4>1, <4>2 DEF EventType, TypeOK, Events
      <3>2. CASE MenuClose(w)
        BY <3>2, AppendType DEF MenuClose, Events
      <3>. QED  BY <1>10, <3>1, <3>2
    <2>. QED  BY <1>10, <2>1, Frames, NextParts, InputType DEF CloseRequested, MenuClose, docVars
  <1>. QED
    BY <1>1, <1>2, <1>3, <1>4, <1>5, <1>6, <1>7, <1>8, <1>9, <1>10 DEF RustStep

\* A handler's record.
LEMMA SetTaskType ==
    ASSUME TypeOK, NEW w \in Windows, NEW h \in Handlers, NEW k \in Tasks, SetTask(w, h, k)
    PROVE  TaskType'
  <1>1. task \in [Windows -> [Handlers -> Tasks]]
    BY DEF TypeOK
  <1>2. task' = [task EXCEPT ![w] = [task[w] EXCEPT ![h] = k]]
    BY <1>1 DEF SetTask
  <1>3. [task[w] EXCEPT ![h] = k] \in [Handlers -> Tasks]
    BY <1>1
  <1>. QED  BY <1>1, <1>2, <1>3 DEF TaskType

LEMMA NoTaskType == NoTask \in Tasks
  BY DEF NoTask, Tasks, Versions

LEMMA TaskFacts ==
    ASSUME TypeOK, NEW w \in Windows, NEW h \in Handlers
    PROVE  /\ task[w][h] \in Tasks
           /\ ver[w] \in Versions /\ Dirty(w) \subseteq Tabs /\ docs[w] \subseteq Tabs
  BY DEF TypeOK, Dirty

\* A record whose phase or documents change.
LEMMA PhaseType ==
    ASSUME NEW k \in Tasks, NEW p \in {"idle", "ask", "save", "clean", "closing"},
           NEW D \in SUBSET Tabs
    PROVE  /\ [k EXCEPT !.pc = p] \in Tasks /\ [k EXCEPT !.todo = D] \in Tasks
           /\ [k EXCEPT !.pc = p, !.todo = D] \in Tasks
  BY DEF Tasks

LEMMA WindowTakesType ==
    ASSUME TypeOK, NEW w \in Windows, Handle(w)
    PROVE  TypeOK'
  <1>1. EventType'
    <2>1. inbox \in [Windows -> Seq(Events)] /\ inbox[w] \in Seq(Events) /\ inbox[w] # <<>>
      BY DEF Handle, TypeOK, Events
    <2>2. Tail(inbox[w]) \in Seq(Events)
      BY <2>1
    <2>3. inbox' = [inbox EXCEPT ![w] = Tail(inbox[w])] /\ UNCHANGED cancels
      BY DEF Handle
    <2>. QED  BY <2>1, <2>2, <2>3 DEF EventType, TypeOK, Events
  <1>2. StatusType' /\ CountType'
    BY Frames DEF Handle
  <1>3. /\ inProgress' \in BOOLEAN /\ exitAllowed' \in BOOLEAN /\ firstPress' \in BOOLEAN
        /\ confirm' \in BOOLEAN /\ exited' \in BOOLEAN
        /\ targets' \subseteq Windows /\ begun' \subseteq Windows
    BY DEF Handle, TypeOK
  <1>4. CASE UNCHANGED <<task, docVars, pending>>
    <2>1. RustType'
      BY <1>3, <1>4 DEF RustType, TypeOK
    <2>. QED  BY <1>1, <1>2, <1>4, <2>1, Frames, NextParts DEF docVars
  <1>5. ASSUME NEW q \in BOOLEAN, StartClose(w, q), UNCHANGED pending PROVE TypeOK'
    <2>1. PICK k : k = [pc |-> IF Dirty(w) = {} THEN "closing" ELSE "ask", quit |-> q,
                        snap |-> ver[w], todo |-> Dirty(w)]
      OBVIOUS
    <2>2. "window" \in Handlers /\ k \in Tasks
      BY <2>1, TaskFacts DEF Tasks, Handlers
    <2>3. TaskType'
      BY <1>5, <2>1, <2>2, SetTaskType DEF StartClose
    <2>4. TabType' /\ TextType' /\ RustType'
      BY <1>3, <1>5, Frames DEF StartClose, TabType, RustType, TypeOK
    <2>. QED  BY <1>1, <1>2, <2>3, <2>4, NextParts
  <1>6. ASSUME NEW t \in Tabs, StartTab(w, t), UNCHANGED pending PROVE TypeOK'
    <2>1. PICK k : k = [pc |-> IF t \in Dirty(w) THEN "ask" ELSE "clean", quit |-> FALSE,
                        snap |-> ver[w], todo |-> {t}]
      OBVIOUS
    <2>2. t \in Handlers /\ k \in Tasks
      BY <2>1, TaskFacts DEF Tasks, Handlers
    <2>3. TaskType'
      BY <1>6, <2>1, <2>2, SetTaskType DEF StartTab
    <2>4. TabType' /\ TextType' /\ RustType'
      BY <1>3, <1>6, Frames DEF StartTab, RustType, TypeOK
    <2>. QED  BY <1>1, <1>2, <2>3, <2>4, NextParts
  <1>7. CASE StartAll(w)
    <2>1. PICK k : k = IF Dirty(w) = {} THEN NoTask
                       ELSE [pc |-> "save", quit |-> FALSE, snap |-> ver[w],
                             todo |-> Dirty(w)]
      OBVIOUS
    <2>2. "all" \in Handlers
      BY DEF Handlers
    <2>3. k \in Tasks
      BY <2>1, <2>2, TaskFacts, NoTaskType DEF Tasks
    <2>4. TaskType'
      BY <1>7, <2>1, <2>2, <2>3, SetTaskType DEF StartAll
    <2>5. TabType' /\ TextType' /\ RustType'
      BY <1>3, <1>7, Frames DEF StartAll, RustType, TypeOK
    <2>. QED  BY <1>1, <1>2, <2>4, <2>5, NextParts
  <1>8. docs[w] \subseteq Tabs
    BY DEF TypeOK
  <1>. QED  BY <1>4, <1>5, <1>6, <1>7, <1>8 DEF Handle

\* What a handler leaves for TypeOK besides its record, tabs and texts.
LEMMA HandlerFrame ==
    ASSUME TypeOK, UNCHANGED frame
    PROVE  /\ StatusType' /\ CountType' /\ UNCHANGED inbox
           /\ (pending' \subseteq {"final", "force"}) => RustType'
           /\ (cancels' \in [Windows -> Nat]) => EventType'
           /\ UNCHANGED <<saved, written, discarded>> => TextType'
  BY DEF frame, TypeOK, StatusType, CountType, RustType, EventType, TextType

LEMMA GivesUpType ==
    ASSUME TypeOK, NEW w \in Windows, NEW h \in Handlers, GivesUp(w, h),
           UNCHANGED frame, UNCHANGED opened
    PROVE  RustType' /\ EventType' /\ TaskType' /\ TabType'
  <1>1. TaskType'
    BY NoTaskType, SetTaskType DEF GivesUp
  <1>2. cancels \in [Windows -> Nat] /\ cancels[w] + 1 \in Nat
    BY DEF TypeOK
  <1>3. cancels' = cancels \/ cancels' = [cancels EXCEPT ![w] = cancels[w] + 1]
    BY DEF GivesUp
  <1>4. cancels' \in [Windows -> Nat]
    BY <1>2, <1>3
  <1>5. pending' \subseteq {"final", "force"} /\ TabType'
    BY DEF GivesUp, TypeOK, TabType
  <1>. QED  BY <1>1, <1>4, <1>5, HandlerFrame

LEMMA TabDoneType ==
    ASSUME TypeOK, NEW w \in Windows, NEW t \in Tabs, TabDone(w, t)
    PROVE  TaskType' /\ TabType'
  <1>1. t \in Handlers /\ task[w][t] \in Tasks
    BY TaskFacts DEF Handlers
  <1>2. PICK k : k = [task[w][t] EXCEPT !.pc = "closing", !.todo = {}]
    OBVIOUS
  <1>3. k \in Tasks
    BY <1>1, <1>2, PhaseType
  <1>4. SetTask(w, t, NoTask) \/ SetTask(w, t, k)
    BY <1>2 DEF TabDone
  <1>5. TaskType'
    BY <1>1, <1>3, <1>4, NoTaskType, SetTaskType
  <1>6. TabType'
    <2>1. CASE tabs[w] # {t}
      <3>1. /\ tabs' = [tabs EXCEPT ![w] = tabs[w] \ {t}]
            /\ docs' = [docs EXCEPT ![w] = docs[w] \ {t}] /\ UNCHANGED opened
        BY <2>1 DEF TabDone
      <3>2. /\ tabs[w] \ {t} \in SUBSET Tabs /\ docs[w] \ {t} \in SUBSET Tabs
            /\ docs[w] \ {t} \subseteq tabs[w] \ {t}
        BY DEF TypeOK
      <3>. QED  BY <3>1, <3>2 DEF TabType, TypeOK
    <2>2. CASE tabs[w] = {t} /\ Mac
      BY <2>2 DEF TabDone, TabType, TypeOK
    <2>3. CASE tabs[w] = {t} /\ ~Mac
      <3>1. PICK n \in Tabs \ opened[w] :
                   /\ tabs' = [tabs EXCEPT ![w] = {n}] /\ docs' = [docs EXCEPT ![w] = {n}]
                   /\ opened' = [opened EXCEPT ![w] = @ \cup {n}]
        BY <2>3 DEF TabDone
      <3>. QED  BY <3>1 DEF TabType, TypeOK
    <2>. QED  BY <2>1, <2>2, <2>3, InputAssumption
  <1>. QED  BY <1>5, <1>6

LEMMA DoneType ==
    ASSUME TypeOK, NEW w \in Windows, NEW h \in Handlers, Done(w, h), UNCHANGED frame
    PROVE  RustType' /\ EventType' /\ TaskType' /\ TabType'
  <1>1. EventType'
    BY HandlerFrame DEF Done, TypeOK
  <1>2. CASE h = "window" /\ WindowDone(w)
    <2>1. PICK k : k = [task[w]["window"] EXCEPT !.pc = "closing", !.todo = {}]
      OBVIOUS
    <2>2. "window" \in Handlers
      BY DEF Handlers
    <2>3. task[w]["window"] \in Tasks
      BY <2>2, TaskFacts
    <2>4. k \in Tasks
      BY <2>1, <2>3, PhaseType
    <2>5. TaskType'
      BY <1>2, <2>1, <2>2, <2>4, SetTaskType DEF WindowDone
    <2>6. TabType' /\ pending' \subseteq {"final", "force"}
      BY <1>2 DEF WindowDone, TabType, TypeOK
    <2>. QED  BY <1>1, <2>5, <2>6, HandlerFrame
  <1>3. CASE h = "all" /\ AllDone(w)
    <2>1. TaskType'
      BY <1>3, NoTaskType, SetTaskType DEF AllDone
    <2>2. TabType' /\ pending' \subseteq {"final", "force"}
      BY <1>3 DEF AllDone, TabType, TypeOK
    <2>. QED  BY <1>1, <2>1, <2>2, HandlerFrame
  <1>4. CASE h \in Tabs /\ TabDone(w, h)
    <2>1. pending' \subseteq {"final", "force"}
      BY <1>4 DEF TabDone, TypeOK
    <2>. QED  BY <1>1, <1>4, <2>1, TabDoneType, HandlerFrame
  <1>. QED  BY <1>2, <1>3, <1>4 DEF Done

\* A document's text is recorded as saved.
LEMMA SavedType ==
    ASSUME TypeOK, NEW w \in Windows, NEW t \in Tabs, NEW v \in Nat,
           saved' = [saved EXCEPT ![w][t] = v],
           written' = [written EXCEPT ![w][t] = @ \cup {v}],
           UNCHANGED <<ver, discarded>>
    PROVE  TextType'
  <1>1. saved' = [saved EXCEPT ![w] = [saved[w] EXCEPT ![t] = v]]
    BY DEF TypeOK
  <1>2. [saved[w] EXCEPT ![t] = v] \in Versions /\ saved \in [Windows -> Versions]
    BY DEF TypeOK, Versions
  <1>3. saved' \in [Windows -> Versions]
    BY <1>1, <1>2
  <1>4. PICK W : W = written[w][t] \cup {v}
    OBVIOUS
  <1>5. /\ written \in [Windows -> [Tabs -> SUBSET Nat]] /\ W \in SUBSET Nat
        /\ written' = [written EXCEPT ![w] = [written[w] EXCEPT ![t] = W]]
    BY <1>4 DEF TypeOK
  <1>6. [written[w] EXCEPT ![t] = W] \in [Tabs -> SUBSET Nat]
    BY <1>5
  <1>7. written' \in [Windows -> [Tabs -> SUBSET Nat]]
    BY <1>5, <1>6
  <1>. QED  BY <1>3, <1>7 DEF TextType, TypeOK

LEMMA HandlerStepTypes ==
    ASSUME TypeOK, NEW w \in Windows, NEW h \in Handlers, HandlerStep(w, h)
    PROVE  TypeOK'
  <1>1. CASE AnswerCancel(w, h)
    BY <1>1, GivesUpType, HandlerFrame, NextParts DEF AnswerCancel, frame
  <1>2. CASE AnswerDiscard(w, h)
    <2>1. TextType'
      <3>1. PICK d : d = [t \in Tabs |-> IF t \in task[w][h].todo THEN ver[w][t]
                                                               ELSE discarded[w][t]]
        OBVIOUS
      <3>2. d \in Versions
        BY <3>1 DEF TypeOK, Versions
      <3>3. discarded' = [discarded EXCEPT ![w] = d] /\ UNCHANGED <<ver, saved, written>>
        BY <1>2, <3>1 DEF AnswerDiscard, frame, TypeOK
      <3>. QED  BY <3>2, <3>3 DEF TextType, TypeOK
    <2>. QED  BY <1>2, <2>1, DoneType, HandlerFrame, NextParts DEF AnswerDiscard, frame
  <1>3. CASE AnswerSave(w, h)
    <2>1. PICK k : k = [task[w][h] EXCEPT !.pc = "save"]
      OBVIOUS
    <2>2. k \in Tasks
      BY <2>1, TaskFacts, PhaseType
    <2>3. TaskType'
      BY <1>3, <2>1, <2>2, SetTaskType DEF AnswerSave
    <2>4. RustType' /\ EventType' /\ StatusType' /\ CountType' /\ TextType'
      BY <1>3, HandlerFrame DEF AnswerSave, frame, TypeOK
    <2>5. TabType'
      BY <1>3 DEF AnswerSave, TabType, TypeOK
    <2>. QED  BY <2>3, <2>4, <2>5, NextParts
  <1>4. ASSUME NEW t \in Tabs, SaveNext(w, h, t) PROVE TypeOK'
    <2>1. task[w][h] \in Tasks /\ task[w][h].snap[t] \in Nat
      BY TaskFacts DEF Tasks, Versions
    <2>2. TextType'
      BY <1>4, <2>1, SavedType DEF SaveNext, frame
    <2>3. RustType' /\ EventType' /\ TaskType' /\ TabType'
      <3>1. CASE Done(w, h)
        BY <1>4, <3>1, DoneType DEF SaveNext
      <3>2. CASE ~Done(w, h)
        <4>1. PICK k : k = IF task[w][h].todo = {t} THEN [task[w][h] EXCEPT !.pc = "clean"]
                           ELSE [task[w][h] EXCEPT !.todo = @ \ {t}]
          OBVIOUS
        <4>2. task[w][h].todo \ {t} \in SUBSET Tabs
          BY <2>1 DEF Tasks
        <4>3. k \in Tasks
          BY <2>1, <4>1, <4>2, PhaseType
        <4>4. SetTask(w, h, k) /\ UNCHANGED <<cancels, tabs, docs, opened, pending>>
          BY <1>4, <3>2, <4>1 DEF SaveNext
        <4>5. TaskType'
          BY <4>3, <4>4, SetTaskType
        <4>6. TabType' /\ pending' \subseteq {"final", "force"} /\ cancels' \in [Windows -> Nat]
          BY <4>4 DEF TabType, TypeOK
        <4>. QED  BY <1>4, <4>5, <4>6, HandlerFrame DEF SaveNext
      <3>. QED  BY <3>1, <3>2
    <2>. QED  BY <1>4, <2>2, <2>3, HandlerFrame, NextParts DEF SaveNext
  <1>5. CASE SaveFails(w, h)
    BY <1>5, GivesUpType, HandlerFrame, NextParts DEF SaveFails, frame
  <1>6. CASE h \in Tabs /\ TabCleaned(w, h)
    BY <1>6, DoneType, HandlerFrame, NextParts DEF TabCleaned, frame
  <1>7. CASE CloseWindow(w, h)
    <2>1. TaskType'
      BY <1>7, NoTaskType, SetTaskType DEF CloseWindow
    <2>2. StatusType' /\ TabType'
      BY <1>7 DEF CloseWindow, StatusType, TabType, TypeOK
    <2>. QED  BY <1>7, <2>1, <2>2, Frames, NextParts DEF CloseWindow
  <1>. QED  BY <1>1, <1>2, <1>3, <1>4, <1>5, <1>6, <1>7 DEF HandlerStep

LEMMA TypeStarts ==
    ASSUME Init PROVE TypeOK
  <1>1. RustType /\ StatusType /\ CountType
    BY DEF Init, RustType, StatusType, CountType
  <1>2. EventType
    BY DEF Init, EventType
  <1>3. TaskType
    BY NoTaskType DEF Init, TaskType
  <1>4. TabType
    BY TabsAssumption DEF Init, TabType
  <1>5. TextType
    BY DEF Init, TextType, Zero, Versions
  <1>. QED  BY <1>1, <1>2, <1>3, <1>4, <1>5, TypeParts

LEMMA TypeStep ==
    ASSUME TypeOK, [Next]_vars PROVE TypeOK'
  <1>0. CASE UNCHANGED vars
    BY <1>0, Frames, NextParts DEF vars, rustVars
  <1>1. CASE RustStep
    BY <1>1, RustStepTypes
  <1>2. ASSUME NEW w \in Windows, Handle(w) PROVE TypeOK'
    BY <1>2, WindowTakesType
  <1>3. ASSUME NEW w \in Windows, NEW h \in Handlers, HandlerStep(w, h) PROVE TypeOK'
    BY <1>3, HandlerStepTypes
  <1>4. ASSUME NEW w \in Windows, NEW t \in Tabs, Edit(w, t) PROVE TypeOK'
    <2>1. ver' = [ver EXCEPT ![w] = [ver[w] EXCEPT ![t] = ver[w][t] + 1]]
      BY <1>4 DEF Edit, TypeOK
    <2>2. [ver[w] EXCEPT ![t] = ver[w][t] + 1] \in Versions
      BY DEF TypeOK, Versions
    <2>3. TextType'
      BY <1>4, <2>1, <2>2 DEF Edit, TextType, TypeOK
    <2>4. CountType'
      BY <1>4 DEF Edit, CountType, TypeOK
    <2>. QED  BY <1>4, <2>3, <2>4, Frames, NextParts DEF Edit
  <1>5. ASSUME NEW w \in Windows, NEW t \in Tabs, SaveDoc(w, t) PROVE TypeOK'
    <2>1. ver[w][t] \in Nat
      BY DEF TypeOK, Versions
    <2>2. TextType'
      BY <1>5, <2>1, SavedType DEF SaveDoc
    <2>. QED  BY <1>5, <2>2, Frames, NextParts DEF SaveDoc
  <1>. QED  BY <1>0, <1>1, <1>2, <1>3, <1>4, <1>5 DEF Next, WindowStep

LEMMA TypeInvariance == Spec => []TypeOK
  BY TypeStarts, TypeStep, PTL DEF Spec

\* In every reachable state the variables have their types: no close handler,
\* overlapping save or exit leaves a document without its tab.
THEOREM TypeCorrect == Spec => []TypeOK
  BY TypeInvariance

-----------------------------------------------------------------------------
\* The quit's bookkeeping: the windows there were when it began are targets as
\* long as they live, and an exit is allowed only when none of them does.
ExitInv ==
    /\ \A w \in begun : w \in Windows /\ status[w] # "none"
    /\ inProgress => begun \cap Alive \subseteq targets
    /\ exitAllowed \/ exited => begun \cap Alive = {}

\* A step that leaves the coordinator alone and brings no such window back.
LEMMA ExitFrame ==
    ASSUME ExitInv, UNCHANGED <<inProgress, exitAllowed, targets, exited, begun>>,
           begun \cap Alive' \subseteq Alive,
           \A w \in begun : status'[w] # "none"
    PROVE  ExitInv'
  BY DEF ExitInv

LEMMA StartQuitExit ==
    ASSUME TypeOK, ExitInv, ~exited, NEW rest, StartQuit(rest), UNCHANGED <<status, exited>>
    PROVE  ExitInv'
  <1>1. Alive' = Alive
    BY DEF Alive
  <1>2. CASE inProgress
    BY <1>1, <1>2 DEF StartQuit, ExitInv
  <1>3. CASE ~inProgress
    BY <1>1, <1>3 DEF StartQuit, ExitInv, Alive
  <1>. QED  BY <1>2, <1>3

LEMMA ExitRequestedExit ==
    ASSUME TypeOK, ExitInv, ~exited, NEW rest, ExitRequested(rest), UNCHANGED status
    PROVE  ExitInv'
  <1>1. Alive' = Alive
    BY DEF Alive
  <1>. QED  BY <1>1, StartQuitExit DEF ExitRequested, ExitInv

LEMMA ExitInvariance == Spec => []ExitInv
  <1>1. Init => ExitInv
    BY DEF Init, ExitInv
  <1>2. ASSUME TypeOK, ExitInv, Next PROVE ExitInv'
    <2>. ~exited /\ status \in [Windows -> {"none", "loading", "open", "dying", "gone"}]
      BY <1>2 DEF Next, TypeOK
    <2>1. CASE UNCHANGED <<inProgress, exitAllowed, targets, exited, begun, status>>
      BY <1>2, <2>1, ExitFrame DEF ExitInv, Alive
    <2>2. CASE RequestQuit
      BY <1>2, <2>1, <2>2, StartQuitExit DEF RequestQuit
    <2>3. CASE SystemExit \/ \E k \in pending : ExitEvent(k)
      BY <1>2, <2>3, ExitRequestedExit DEF SystemExit, ExitEvent
    <2>4. ASSUME NEW w \in Windows, CancelQuit(w) PROVE ExitInv'
      BY <1>2, <2>4 DEF CancelQuit, ExitInv, Alive
    <2>5. ASSUME NEW w \in Windows, Destroyed(w) PROVE ExitInv'
      <3>1. Alive' = Alive \ {w} /\ \A v \in begun : status'[v] # "none"
        BY <1>2, <2>5 DEF Destroyed, Alive, ExitInv
      <3>. QED  BY <1>2, <2>5, <3>1 DEF Destroyed, HandleDestroyed, ExitInv
    <2>6. ASSUME NEW w \in Windows, CreateWindow(w) \/ Ready(w) PROVE ExitInv'
      BY <1>2, <2>6, ExitFrame DEF CreateWindow, Ready, rustVars, Alive, ExitInv
    <2>7. ASSUME NEW w \in Windows, NEW h \in Handlers, CloseWindow(w, h) PROVE ExitInv'
      BY <1>2, <2>7, ExitFrame DEF CloseWindow, Running, rustVars, Alive, ExitInv
    <2>8. CASE PressExpires \/ SetConfirmQuit \/ MenuSaveAllQuit
               \/ \E w \in Windows : CloseRequested(w) \/ MenuClose(w)
      BY <2>1, <2>8 DEF PressExpires, SetConfirmQuit, MenuSaveAllQuit, CloseRequested,
                        MenuClose, rustVars
    <2>9. ASSUME NEW w \in Windows, Handle(w) PROVE ExitInv'
      BY <2>1, <2>9 DEF Handle
    <2>10. ASSUME NEW w \in Windows, NEW t \in Tabs, Edit(w, t) \/ SaveDoc(w, t)
           PROVE ExitInv'
      BY <2>1, <2>10 DEF Edit, SaveDoc, rustVars
    <2>11. ASSUME NEW w \in Windows, NEW h \in Handlers, HandlerStep(w, h),
                  ~CloseWindow(w, h)
           PROVE ExitInv'
      <3>1. UNCHANGED frame
        BY <2>11 DEF HandlerStep, AnswerCancel, AnswerDiscard, AnswerSave, SaveNext,
                     SaveFails, TabCleaned
      <3>. QED  BY <2>1, <3>1 DEF frame
    <2>. QED
      BY <1>2, <2>2, <2>3, <2>4, <2>5, <2>6, <2>7, <2>8, <2>9, <2>10, <2>11
         DEF Next, RustStep, WindowStep
  <1>3. ExitInv /\ UNCHANGED vars => ExitInv'
    BY DEF ExitInv, Alive, vars
  <1>. QED  BY <1>1, <1>2, <1>3, TypeInvariance, PTL DEF Spec

\* The process ends only when every window there was when the quit began is
\* gone: quit.rs's targets are complete whatever windows open, close or cancel.
THEOREM ExitsAfterAll == Spec => []ExitOnlyAfterAll
  <1>1. ExitInv => ExitOnlyAfterAll
    BY DEF ExitInv, ExitOnlyAfterAll
  <1>. QED  BY <1>1, ExitInvariance, PTL

-----------------------------------------------------------------------------
(* A quit in progress is carried by its targets. *)

\* The event is somewhere in the window's queue.
Has(s, x) == \E i \in DOMAIN s : s[i] = x
Waits(w, e) == Has(inbox[w], e)

\* The window is on its way to close, or to cancel the quit.
Carrying(w) ==
    \/ status[w] = "dying" \/ cancels[w] > 0
    \/ Waits(w, "quit")
    \/ task[w]["window"].pc # "idle"

\* A handler that runs was started by a quit.
Loyal(k) == k.pc # "idle" => k.quit = TRUE

\* Without the close button and new windows only quits start a window's handler,
\* every window hears of one, and every target that is left carries it.
CarriedInv ==
    /\ \A w \in Windows :
          /\ status[w] # "loading"
          /\ ~Waits(w, "close")
          /\ Loyal(task[w]["window"])
    /\ inProgress /\ ~exitAllowed => targets # {} /\ \A w \in targets : Carrying(w)

LEMMA Queued ==
    ASSUME NEW s \in Seq(Events), NEW e \in Events
    PROVE  \A x : Has(Append(s, e), x) <=> Has(s, x) \/ e = x
  <1>1. PICK a : a = Append(s, e)
    OBVIOUS
  <1>2. /\ DOMAIN a = 1..(Len(s) + 1) /\ DOMAIN s = 1..Len(s) /\ Len(s) \in Nat
        /\ a[Len(s) + 1] = e /\ \A i \in 1..Len(s) : a[i] = s[i]
    BY <1>1
  <1>3. \A x : (\E i \in DOMAIN a : a[i] = x) <=> (\E i \in DOMAIN s : s[i] = x) \/ e = x
    BY <1>2
  <1>. QED  BY <1>1, <1>3 DEF Has

LEMMA Taken ==
    ASSUME NEW s \in Seq(Events), s # <<>>
    PROVE  \A x : Has(s, x) <=> Head(s) = x \/ Has(Tail(s), x)
  <1>1. PICK r : r = Tail(s)
    OBVIOUS
  <1>2. /\ DOMAIN s = 1..Len(s) /\ Len(s) \in Nat /\ Len(s) > 0 /\ Head(s) = s[1]
        /\ DOMAIN r = 1..(Len(s) - 1) /\ \A i \in 1..(Len(s) - 1) : r[i] = s[i + 1]
    BY <1>1
  <1>3. ASSUME NEW x, NEW i \in DOMAIN s, s[i] = x, s[1] # x PROVE Has(r, x)
    <2>1. i - 1 \in DOMAIN r /\ r[i - 1] = x
      BY <1>2, <1>3
    <2>. QED  BY <2>1 DEF Has
  <1>4. ASSUME NEW x, NEW i \in DOMAIN r, r[i] = x PROVE Has(s, x)
    <2>1. i + 1 \in DOMAIN s /\ s[i + 1] = x
      BY <1>2, <1>4
    <2>. QED  BY <2>1 DEF Has
  <1>5. Has(s, Head(s))
    BY <1>2 DEF Has
  <1>6. \A x : Has(s, x) => Head(s) = x \/ Has(r, x)
    BY <1>2, <1>3 DEF Has
  <1>7. \A x : Has(r, x) => Has(s, x)
    BY <1>4 DEF Has
  <1>. QED  BY <1>1, <1>5, <1>6, <1>7

\* A step that leaves the windows and the coordinator as they were, or a handler
\* that goes on.
LEMMA CarriedFrame ==
    ASSUME CarriedInv, UNCHANGED <<inProgress, exitAllowed, targets, status>>, targets \subseteq Windows,
           \A w \in Windows :
              /\ Waits(w, "close")' => Waits(w, "close")
              /\ Waits(w, "quit") => Waits(w, "quit")' \/ Carrying(w)'
              /\ cancels[w] > 0 => cancels'[w] > 0
              /\ Loyal(task'[w]["window"])
              /\ task[w]["window"].pc # "idle" => task'[w]["window"].pc # "idle" \/ Carrying(w)'
    PROVE  CarriedInv'
  <1>1. \A w \in targets : Carrying(w) => Carrying(w)'
    BY DEF Carrying
  <1>. QED  BY <1>1 DEF CarriedInv

LEMMA StartQuitCarried ==
    ASSUME TypeOK, CarriedInv, NEW rest, StartQuit(rest), UNCHANGED <<status, cancels, task>>
    PROVE  CarriedInv'
  <1>1. CASE inProgress
    BY <1>1 DEF StartQuit, CarriedInv, Carrying, Waits
  <1>2. CASE ~inProgress
    <2>1. inbox' = [w \in Windows |-> Hear(w, "quit")]
      BY <1>2 DEF StartQuit
    <2>2. ASSUME NEW w \in Windows
          PROVE  /\ ~Waits(w, "close")'
                 /\ status[w] = "open" => Waits(w, "quit")'
      <3>1. inbox[w] \in Seq(Events) /\ "quit" \in Events
        BY DEF TypeOK, Events
      <3>2. inbox'[w] = IF status[w] = "open" THEN Append(inbox[w], "quit") ELSE inbox[w]
        BY <2>1 DEF Hear
      <3>3. ~Waits(w, "close")
        BY DEF CarriedInv
      <3>. QED  BY <3>1, <3>2, <3>3, Queued DEF Waits
    <2>3. \A w \in Alive : w \in Windows /\ Carrying(w)'
      BY <2>2 DEF Alive, Carrying, Waits, CarriedInv
    <2>4. (exitAllowed' <=> Alive = {}) /\ (Alive # {} => targets' = Alive)
      BY <1>2 DEF StartQuit
    <2>5. \A w \in Windows : /\ status'[w] # "loading" /\ ~Waits(w, "close")'
                             /\ Loyal(task'[w]["window"])
      BY <2>2 DEF CarriedInv
    <2>. QED  BY <2>3, <2>4, <2>5 DEF CarriedInv, Waits
  <1>. QED  BY <1>1, <1>2

LEMMA ExitRequestedCarried ==
    ASSUME TypeOK, CarriedInv, NEW rest, ExitRequested(rest), UNCHANGED <<status, cancels, task>>
    PROVE  CarriedInv'
  <1>1. CASE UNCHANGED <<inProgress, exitAllowed, targets, inbox>>
    BY <1>1 DEF CarriedInv, Carrying, Waits
  <1>. QED  BY <1>1, StartQuitCarried DEF ExitRequested

LEMMA SetTaskSets ==
    ASSUME TypeOK, NEW w \in Windows, NEW h \in Handlers, NEW k, SetTask(w, h, k)
    PROVE  /\ task'[w][h] = k
           /\ \A v \in Windows : \A g \in Handlers : v # w \/ g # h => task'[v][g] = task[v][g]
  BY DEF TypeOK, SetTask

\* An event more in a queue does not matter, unless it is the close button's.
LEMMA EventCarried ==
    ASSUME TypeOK, CarriedInv, NEW w \in Windows, NEW e \in Events \ {"close"},
           inbox' = [inbox EXCEPT ![w] = Append(@, e)],
           UNCHANGED <<inProgress, exitAllowed, targets, status, cancels, task>>
    PROVE  CarriedInv'
  <1>1. \A v \in Windows : inbox[v] \in Seq(Events)
    BY DEF TypeOK, Events
  <1>2. \A v \in Windows : inbox'[v] = IF v = w THEN Append(inbox[w], e) ELSE inbox[v]
    BY DEF TypeOK
  <1>3. \A v \in Windows : /\ Waits(v, "close")' => Waits(v, "close")
                           /\ Waits(v, "quit") => Waits(v, "quit")'
    BY <1>1, <1>2, Queued DEF Waits
  <1>4. targets \subseteq Windows
    BY DEF TypeOK
  <1>. QED  BY <1>3, <1>4, CarriedFrame DEF CarriedInv

LEMMA RustStepCarried ==
    ASSUME TypeOK, CarriedInv, RustStep, Inputs \cap {"close", "new"} = {}
    PROVE  CarriedInv'
  <1>0. targets \subseteq Windows
    BY DEF TypeOK
  <1>1. ASSUME UNCHANGED <<inProgress, exitAllowed, targets, status, inbox, cancels, task>>
        PROVE  CarriedInv'
    BY <1>1 DEF CarriedInv, Carrying, Waits
  <1>2. CASE RequestQuit
    <2>1. UNCHANGED <<status, cancels, task>>
      BY <1>2 DEF RequestQuit
    <2>. QED  BY <1>1, <1>2, <2>1, StartQuitCarried DEF RequestQuit
  <1>3. CASE SystemExit \/ \E k \in pending : ExitEvent(k)
    BY <1>3, ExitRequestedCarried DEF SystemExit, ExitEvent
  <1>4. CASE PressExpires \/ SetConfirmQuit
    BY <1>1, <1>4 DEF PressExpires, SetConfirmQuit
  <1>5. CASE MenuSaveAllQuit
    <2>1. UNCHANGED <<inProgress, exitAllowed, targets, status, cancels, task>>
      BY <1>5 DEF MenuSaveAllQuit
    <2>2. ASSUME NEW w \in Alive, inbox' = [inbox EXCEPT ![w] = Append(@, "all")]
          PROVE  CarriedInv'
      BY <2>1, <2>2, AliveIsWindows, EventCarried DEF Events
    <2>. QED  BY <1>1, <1>5, <2>1, <2>2 DEF MenuSaveAllQuit
  <1>6. ASSUME NEW w \in Windows, CancelQuit(w) PROVE CarriedInv'
    BY <1>6 DEF CancelQuit, CarriedInv, Waits
  <1>7. ASSUME NEW w \in Windows, Destroyed(w) PROVE CarriedInv'
    <2>1. /\ UNCHANGED <<inProgress, inbox, cancels, task>>
          /\ status[w] = "dying" /\ status' = [status EXCEPT ![w] = "gone"]
          /\ inProgress => /\ targets' = targets \ {w}
                           /\ exitAllowed' = (exitAllowed \/ targets \ {w} = {})
      BY <1>7 DEF Destroyed, HandleDestroyed
    <2>2. \A v \in Windows : status'[v] = IF v = w THEN "gone" ELSE status[v]
      BY <2>1 DEF TypeOK
    <2>3. \A v \in targets \ {w} : Carrying(v) => Carrying(v)'
      BY <1>0, <2>1, <2>2 DEF Carrying, Waits
    <2>4. \A v \in Windows : /\ status'[v] # "loading" /\ ~Waits(v, "close")'
                             /\ Loyal(task'[v]["window"])
      BY <2>1, <2>2 DEF CarriedInv, Waits
    <2>5. inProgress' /\ ~exitAllowed' => targets' # {} /\ \A v \in targets' : Carrying(v)'
      BY <2>1, <2>3 DEF CarriedInv
    <2>. QED  BY <2>4, <2>5 DEF CarriedInv
  <1>8. ASSUME NEW w \in Windows, CreateWindow(w) \/ CloseRequested(w) PROVE CarriedInv'
    BY <1>8 DEF CreateWindow, CloseRequested, Input
  <1>9. ASSUME NEW w \in Windows, Ready(w) PROVE CarriedInv'
    BY <1>9 DEF Ready, CarriedInv
  <1>10. ASSUME NEW w \in Windows, MenuClose(w) PROVE CarriedInv'
    BY <1>10, EventCarried DEF MenuClose, Events, rustVars
  <1>. QED
    BY <1>2, <1>3, <1>4, <1>5, <1>6, <1>7, <1>8, <1>9, <1>10 DEF RustStep

LEMMA HandleCarried ==
    ASSUME TypeOK, CarriedInv, NEW w \in Windows, Handle(w)
    PROVE  CarriedInv'
  <1>0. /\ targets \subseteq Windows /\ "window" \in Handlers /\ "all" \in Handlers
        /\ Tabs \subseteq Handlers /\ docs[w] \subseteq Tabs
        /\ UNCHANGED <<inProgress, exitAllowed, targets, status, cancels>>
    BY DEF TypeOK, Handlers, Handle
  <1>1. inbox[w] \in Seq(Events) /\ inbox[w] # <<>>
    BY DEF Handle, TypeOK, Events
  <1>2. PICK e, r : e = Head(inbox[w]) /\ r = Tail(inbox[w])
    OBVIOUS
  <1>3. /\ \A x : Has(inbox[w], x) <=> e = x \/ Has(r, x)
        /\ \A v \in Windows : inbox'[v] = IF v = w THEN r ELSE inbox[v]
    BY <1>1, <1>2, Taken DEF Handle, TypeOK
  <1>4. /\ e # "close" /\ \A v \in Windows : Waits(v, "close")' => Waits(v, "close")
        /\ \A v \in Windows : Waits(v, "quit") => Waits(v, "quit")' \/ (v = w /\ e = "quit")
    BY <1>3 DEF CarriedInv, Waits
  <1>5. CASE e = "quit" /\ task[w]["window"].pc = "idle" /\ StartClose(w, e = "quit")
    <2>1. PICK k : /\ SetTask(w, "window", k) /\ k.pc # "idle" /\ Loyal(k)
      <3>1. PICK k : /\ k = [pc |-> IF Dirty(w) = {} THEN "closing" ELSE "ask", quit |-> TRUE,
                             snap |-> ver[w], todo |-> Dirty(w)]
                     /\ SetTask(w, "window", k)
        BY <1>5 DEF StartClose
      <3>. QED  BY <3>1 DEF Loyal
    <2>2. /\ task'[w]["window"] = k
          /\ \A v \in Windows : v # w => task'[v]["window"] = task[v]["window"]
      BY <1>0, <2>1, SetTaskSets
    <2>. QED  BY <1>0, <1>4, <2>1, <2>2, CarriedFrame DEF CarriedInv, Carrying
  <1>6. CASE e = "quit" /\ task[w]["window"].pc # "idle" /\ UNCHANGED task
    BY <1>0, <1>4, <1>6, CarriedFrame DEF CarriedInv, Carrying
  <1>7. ASSUME e # "quit", NEW g \in Handlers \ {"window"}, NEW k, SetTask(w, g, k)
        PROVE  CarriedInv'
    <2>1. \A v \in Windows : task'[v]["window"] = task[v]["window"]
      BY <1>0, <1>7, SetTaskSets
    <2>. QED  BY <1>0, <1>4, <1>7, <2>1, CarriedFrame DEF CarriedInv
  <1>8. CASE e # "quit" /\ UNCHANGED task
    BY <1>0, <1>4, <1>8, CarriedFrame DEF CarriedInv
  <1>9. "window" \notin Tabs
    BY TabsAssumption
  <1>10. ASSUME NEW t \in docs[w], StartTab(w, t), e = "tab" PROVE CarriedInv'
    <2>1. PICK k : SetTask(w, t, k)
      BY <1>10 DEF StartTab
    <2>. QED  BY <1>0, <1>7, <1>9, <1>10, <2>1
  <1>11. ASSUME StartAll(w), e = "all" PROVE CarriedInv'
    <2>1. PICK k : SetTask(w, "all", k)
      BY <1>11 DEF StartAll
    <2>. QED  BY <1>0, <1>7, <1>11, <2>1
  <1>. QED  BY <1>2, <1>4, <1>5, <1>6, <1>8, <1>10, <1>11 DEF Handle

\* A handler of the window goes on, and tells the coordinator if it gives up.
LEMMA HandlerGoesOn ==
    ASSUME TypeOK, CarriedInv, NEW w \in Windows, NEW h \in Handlers, NEW k, SetTask(w, h, k),
           UNCHANGED <<inProgress, exitAllowed, targets, status, inbox>>,
           \A v \in Windows : cancels[v] > 0 => cancels'[v] > 0,
           h = "window" => Loyal(k) /\ (k.pc # "idle" \/ cancels'[w] > 0)
    PROVE  CarriedInv'
  <1>1. targets \subseteq Windows /\ "window" \in Handlers
    BY DEF TypeOK, Handlers
  <1>2. /\ h = "window" => task'[w]["window"] = k
        /\ \A v \in Windows : v # w \/ h # "window" => task'[v]["window"] = task[v]["window"]
    BY <1>1, SetTaskSets
  <1>3. \A v \in Windows : (Waits(v, "close")' <=> Waits(v, "close"))
                           /\ (Waits(v, "quit")' <=> Waits(v, "quit"))
    BY DEF Waits
  <1>. QED  BY <1>1, <1>2, <1>3, CarriedFrame DEF CarriedInv, Carrying

LEMMA HandlerStepCarried ==
    ASSUME TypeOK, CarriedInv, NEW w \in Windows, NEW h \in Handlers, HandlerStep(w, h)
    PROVE  CarriedInv'
  <1>0. /\ cancels \in [Windows -> Nat] /\ task[w][h] \in Tasks
        /\ h = "window" => Loyal(task[w][h])
    BY TaskFacts DEF TypeOK, CarriedInv
  <1>1. ASSUME GivesUp(w, h), UNCHANGED frame, task[w][h].pc # "idle" PROVE CarriedInv'
    <2>1. SetTask(w, h, NoTask)
      BY <1>1 DEF GivesUp
    <2>2. /\ \A v \in Windows : cancels[v] > 0 => cancels'[v] > 0
          /\ task[w][h].quit => cancels'[w] > 0
      <3>1. cancels' = IF task[w][h].quit THEN [cancels EXCEPT ![w] = cancels[w] + 1] ELSE cancels
        BY <1>1 DEF GivesUp
      <3>2. cancels[w] \in Nat
        BY <1>0
      <3>. QED  BY <1>0, <3>1, <3>2
    <2>3. h = "window" => task[w][h].quit
      BY <1>0, <1>1 DEF Loyal
    <2>. QED  BY <1>1, <2>1, <2>2, <2>3, HandlerGoesOn DEF frame, NoTask, Loyal
  <1>2. ASSUME Done(w, h), UNCHANGED frame, task[w][h].pc # "idle" PROVE CarriedInv'
    <2>1. cancels' = cancels
      BY <1>2 DEF Done
    <2>2. CASE h = "window" /\ WindowDone(w)
      <3>1. PICK k : k = [task[w]["window"] EXCEPT !.pc = "closing", !.todo = {}]
        OBVIOUS
      <3>2. k.pc = "closing" /\ Loyal(k)
        BY <1>0, <1>2, <2>2, <3>1 DEF Tasks, Loyal
      <3>3. SetTask(w, h, k) /\ UNCHANGED <<inProgress, exitAllowed, targets, status, inbox>>
        BY <1>2, <2>2, <3>1 DEF frame, WindowDone
      <3>. QED  BY <2>1, <3>2, <3>3, HandlerGoesOn
    <2>3. CASE h # "window"
      <3>1. PICK k : SetTask(w, h, k)
        BY <1>2, <2>3 DEF Done, AllDone, TabDone
      <3>. QED  BY <1>2, <2>1, <2>3, <3>1, HandlerGoesOn DEF frame
    <2>. QED  BY <1>2, <2>2, <2>3, TabsAssumption DEF Done
  <1>3. CASE AnswerCancel(w, h) \/ SaveFails(w, h)
    BY <1>1, <1>3 DEF AnswerCancel, SaveFails, Running
  <1>4. CASE AnswerDiscard(w, h) \/ (h \in Tabs /\ TabCleaned(w, h))
    BY <1>2, <1>4 DEF AnswerDiscard, TabCleaned, Running
  <1>5. CASE AnswerSave(w, h)
    <2>1. PICK k : k = [task[w][h] EXCEPT !.pc = "save"]
      OBVIOUS
    <2>2. k.pc = "save" /\ (h = "window" => Loyal(k))
      BY <1>0, <1>5, <2>1 DEF AnswerSave, Running, Tasks, Loyal
    <2>3. /\ SetTask(w, h, k) /\ cancels' = cancels
          /\ UNCHANGED <<inProgress, exitAllowed, targets, status, inbox>>
      BY <1>5, <2>1 DEF AnswerSave, frame
    <2>. QED  BY <2>2, <2>3, HandlerGoesOn
  <1>6. ASSUME NEW t \in Tabs, SaveNext(w, h, t) PROVE CarriedInv'
    <2>1. CASE Done(w, h)
      BY <1>2, <1>6, <2>1 DEF SaveNext, Running
    <2>2. CASE ~Done(w, h)
      <3>1. PICK k : k = IF task[w][h].todo = {t} THEN [task[w][h] EXCEPT !.pc = "clean"]
                         ELSE [task[w][h] EXCEPT !.todo = @ \ {t}]
        OBVIOUS
      <3>2. /\ SetTask(w, h, k) /\ cancels' = cancels
            /\ UNCHANGED <<inProgress, exitAllowed, targets, status, inbox>>
        BY <1>6, <2>2, <3>1 DEF SaveNext, frame
      <3>3. k.pc # "idle" /\ (h = "window" => Loyal(k))
        BY <1>0, <1>6, <3>1 DEF SaveNext, Running, Tasks, Loyal
      <3>. QED  BY <3>2, <3>3, HandlerGoesOn
    <2>. QED  BY <2>1, <2>2
  <1>7. CASE CloseWindow(w, h)
    <2>1. /\ SetTask(w, h, NoTask) /\ status' = [status EXCEPT ![w] = "dying"]
          /\ UNCHANGED <<inProgress, exitAllowed, targets, inbox, cancels>>
      BY <1>7 DEF CloseWindow, rustVars
    <2>2. /\ \A v \in Windows : status'[v] = IF v = w THEN "dying" ELSE status[v]
          /\ targets \subseteq Windows /\ "window" \in Handlers
      BY <2>1 DEF TypeOK, Handlers
    <2>5. /\ \A v \in Windows : v # w => task'[v]["window"] = task[v]["window"]
          /\ task'[w]["window"] = NoTask \/ task'[w]["window"] = task[w]["window"]
      BY <2>1, <2>2, SetTaskSets
    <2>3. \A v \in targets : Carrying(v) => Carrying(v)'
      BY <2>1, <2>2, <2>5 DEF Carrying, Waits
    <2>4. \A v \in Windows : /\ status'[v] # "loading" /\ ~Waits(v, "close")'
                             /\ Loyal(task'[v]["window"])
      BY <2>1, <2>2, <2>5 DEF CarriedInv, Waits, NoTask, Loyal
    <2>. QED  BY <2>1, <2>3, <2>4 DEF CarriedInv
  <1>. QED  BY <1>3, <1>4, <1>5, <1>6, <1>7 DEF HandlerStep

LEMMA CarriedStep ==
    ASSUME TypeOK, CarriedInv, Inputs \cap {"close", "new"} = {}, [Next]_vars
    PROVE  CarriedInv'
  <1>1. ASSUME UNCHANGED <<inProgress, exitAllowed, targets, status, inbox, cancels, task>>
        PROVE  CarriedInv'
    BY <1>1 DEF CarriedInv, Carrying, Waits
  <1>2. ASSUME NEW w \in Windows, NEW t \in Tabs, Edit(w, t) \/ SaveDoc(w, t) PROVE CarriedInv'
    BY <1>1, <1>2 DEF Edit, SaveDoc, rustVars
  <1>3. CASE UNCHANGED vars
    BY <1>1, <1>3 DEF vars
  <1>. QED
    BY <1>2, <1>3, RustStepCarried, HandleCarried, HandlerStepCarried DEF Next, WindowStep

LEMMA CarriedStarts ==
    ASSUME Init PROVE CarriedInv
  BY DEF Init, CarriedInv, Waits, Has, NoTask, Handlers, Loyal

\* A quit in progress does not go dead: one of its windows is on its way to
\* close or to cancel it, for any windows, tabs and edits, if no close button is
\* pressed and no window opened.
THEOREM QuitIsNeverDead ==
    Inputs \cap {"close", "new"} = {} => (Spec => []QuitIsCarried)
  <1>1. CarriedInv => QuitIsCarried
    BY DEF CarriedInv, QuitIsCarried, Carrying, Waits, Has
  <1>. SUFFICES ASSUME Inputs \cap {"close", "new"} = {} PROVE Spec => []QuitIsCarried
    OBVIOUS
  <1>2. TypeOK /\ CarriedInv /\ [Next]_vars => CarriedInv'
    BY CarriedStep
  <1>. QED  BY <1>1, <1>2, CarriedStarts, TypeInvariance, PTL DEF Spec

\* The same of the pair of instances the run takes, whatever the other one is.
THEOREM QuitIsNeverDeadThere ==
    Inputs \cap {"close", "new"} = {} => (MCSpec => []QuitIsCarriedThere)
  <1>. DEFINE I == ~wide => TypeOK /\ CarriedInv
  <1>. SUFFICES ASSUME Inputs \cap {"close", "new"} = {} PROVE MCSpec => []QuitIsCarriedThere
    OBVIOUS
  <1>1. MCInit => I
    BY TypeStarts, CarriedStarts DEF MCInit
  <1>2. I /\ [MCNext]_<<vars, wide>> => I'
    <2>1. ASSUME I, MCNext, ~wide' PROVE TypeOK' /\ CarriedInv'
      BY <2>1, TypeStep, CarriedStep DEF MCNext
    <2>2. ASSUME I, UNCHANGED <<vars, wide>>, ~wide' PROVE TypeOK' /\ CarriedInv'
      BY <2>2, TypeStep, CarriedStep
    <2>. QED  BY <2>1, <2>2
  <1>3. I => QuitIsCarriedThere
    BY DEF CarriedInv, QuitIsCarriedThere, QuitIsCarried, Carrying, Waits, Has
  <1>. QED  BY <1>1, <1>2, <1>3, PTL DEF MCSpec

-----------------------------------------------------------------------------
(* What goes with a tab or a window. *)

\* What is saved is on record, a tab's document came with the tab or later, and
\* a tab id that was never used has the text it will begin with.
TextsAgree(w) ==
    /\ \A t \in Tabs : saved[w][t] \in written[w][t] /\ 0 \in written[w][t]
    /\ docs[w] \subseteq opened[w] /\ \A t \in Tabs \ opened[w] : ver[w][t] = 0

\* A handler knows texts that were there.  What the window's handler has not to
\* decide any more is on record; so is the text of a tab that only waits for its
\* clean-up; a tab's handler closes a window only without tabs.
TaskAgrees(w, h) == LET k == task[w][h] IN k.pc # "idle" =>
    /\ h # "all" => \A t \in Tabs : k.snap[t] <= ver[w][t]
    /\ h = "all" => k.pc = "save"
    /\ h = "window" =>
          /\ k.todo \subseteq opened[w] /\ (k.pc = "closing" => k.todo = {})
          /\ \A t \in Tabs \ k.todo :
                t \in docs[w] \/ t \notin opened[w] => k.snap[t] \in written[w][t]
    /\ h \in Tabs =>
          /\ k.pc # "closing" => k.todo = {h}
          /\ k.pc = "clean" => k.snap[h] \in written[w][h]
          /\ k.pc = "closing" => docs[w] = {} /\ tabs[w] = {}

LossInv == \A w \in Windows : TextsAgree(w) /\ \A h \in Handlers : TaskAgrees(w, h)

\* LossIsLate, of one window.
Late(w) ==
    \A t \in docs[w] \ docs'[w] :
       \/ ver[w][t] \in written'[w][t] \cup {discarded'[w][t]}
       \/ \E h \in {"window", t} : /\ task[w][h].pc # "idle" /\ task'[w][h] # task[w][h]
                                   /\ ver[w][t] > task[w][h].snap[t]

\* The texts and tabs of a window as a step may change them.
Grows(w) ==
    /\ \A t \in Tabs : /\ written[w][t] \subseteq written'[w][t]
                       /\ saved'[w][t] \in written'[w][t] /\ ver[w][t] <= ver'[w][t]
    /\ opened[w] \subseteq opened'[w]
    /\ docs'[w] \subseteq docs[w] \cup (opened'[w] \ opened[w])
    /\ \A t \in Tabs \ opened'[w] : ver'[w][t] = 0
    /\ docs[w] = {} /\ tabs[w] = {} => docs'[w] = {} /\ tabs'[w] = {}

\* The window keeps everything.
Stays(w) ==
    /\ ver'[w] = ver[w] /\ saved'[w] = saved[w] /\ written'[w] = written[w]
    /\ docs'[w] = docs[w] /\ tabs'[w] = tabs[w] /\ opened'[w] = opened[w]

LEMMA VersFacts ==
    ASSUME TypeOK, NEW w \in Windows
    PROVE  /\ \A t \in Tabs : ver[w][t] \in Nat
           /\ \A h \in Handlers : task[w][h] \in Tasks /\ \A t \in Tabs : task[w][h].snap[t] \in Nat
           /\ docs[w] \subseteq tabs[w] /\ tabs[w] \subseteq Tabs /\ opened[w] \subseteq Tabs
  BY DEF TypeOK, Tasks, Versions

LEMMA SaveSets ==
    ASSUME TypeOK, NEW w \in Windows, NEW t \in Tabs, NEW n \in Nat,
           saved' = [saved EXCEPT ![w][t] = n],
           written' = [written EXCEPT ![w][t] = @ \cup {n}]
    PROVE  /\ \A v \in Windows \ {w} : saved'[v] = saved[v] /\ written'[v] = written[v]
           /\ \A s \in Tabs : /\ saved'[w][s] = IF s = t THEN n ELSE saved[w][s]
                              /\ written'[w][s] = IF s = t THEN written[w][s] \cup {n}
                                                 ELSE written[w][s]
  <1>1. saved[w] \in [Tabs -> Nat] /\ written[w] \in [Tabs -> SUBSET Nat]
    BY DEF TypeOK, Versions
  <1>2. PICK S, W : /\ S = [saved[w] EXCEPT ![t] = n]
                    /\ W = [written[w] EXCEPT ![t] = written[w][t] \cup {n}]
                    /\ saved' = [saved EXCEPT ![w] = S] /\ written' = [written EXCEPT ![w] = W]
    OBVIOUS
  <1>3. /\ saved'[w] = S /\ written'[w] = W
        /\ \A v \in Windows \ {w} : saved'[v] = saved[v] /\ written'[v] = written[v]
    BY <1>2 DEF TypeOK
  <1>4. \A s \in Tabs : S[s] = IF s = t THEN n ELSE saved[w][s]
    BY <1>1, <1>2
  <1>5. \A s \in Tabs : W[s] = IF s = t THEN written[w][s] \cup {n} ELSE written[w][s]
    BY <1>1, <1>2
  <1>. QED  BY <1>3, <1>4, <1>5

LEMMA StaysGrows ==
    ASSUME TypeOK, NEW w \in Windows, TextsAgree(w), Stays(w)
    PROVE  Grows(w)
  BY VersFacts DEF Stays, Grows, TextsAgree

LEMMA TextsGrow ==
    ASSUME TypeOK, NEW w \in Windows, TextsAgree(w), Grows(w)
    PROVE  TextsAgree(w)'
  BY DEF TextsAgree, Grows

LEMMA TaskGrows ==
    ASSUME TypeOK, TypeOK', NEW w \in Windows, NEW h \in Handlers, TextsAgree(w), Grows(w),
           TaskAgrees(w, h), task'[w][h] = task[w][h]
    PROVE  TaskAgrees(w, h)'
  <1>1. PICK k : k = task[w][h] /\ k = task'[w][h] /\ k \in Tasks /\ \A t \in Tabs : k.snap[t] \in Nat
    BY VersFacts
  <1>. SUFFICES ASSUME k.pc # "idle" PROVE TaskAgrees(w, h)'
    BY <1>1 DEF TaskAgrees
  <1>2. h # "all" => \A t \in Tabs : k.snap[t] <= ver'[w][t]
    <2>1. \A t \in Tabs : ver[w][t] \in Nat /\ ver'[w][t] \in Nat /\ ver[w][t] <= ver'[w][t]
      BY VersFacts DEF Grows, TypeOK, Versions
    <2>. QED  BY <1>1, <2>1 DEF TaskAgrees
  <1>3. h = "window" => /\ k.todo \subseteq opened'[w] /\ (k.pc = "closing" => k.todo = {})
                        /\ \A t \in Tabs \ k.todo : t \in docs'[w] \/ t \notin opened'[w]
                              => k.snap[t] \in written'[w][t]
    BY <1>1 DEF TaskAgrees, Grows
  <1>4. h \in Tabs => /\ k.pc # "closing" => k.todo = {h}
                      /\ k.pc = "clean" => k.snap[h] \in written'[w][h]
                      /\ k.pc = "closing" => docs'[w] = {} /\ tabs'[w] = {}
    BY <1>1 DEF TaskAgrees, Grows
  <1>5. h = "all" => k.pc = "save"
    BY <1>1 DEF TaskAgrees
  <1>. QED  BY <1>1, <1>2, <1>3, <1>4, <1>5 DEF TaskAgrees

\* A step that changes one window, and the record of one of its handlers.
LEMMA LossStep ==
    ASSUME TypeOK, TypeOK', LossInv, NEW w \in Windows, NEW h \in Handlers, NEW k,
           SetTask(w, h, k), TaskAgrees(w, h)', Grows(w),
           \A v \in Windows \ {w} : Stays(v)
    PROVE  LossInv'
  <1>1. \A v \in Windows : Grows(v)
    BY StaysGrows DEF LossInv
  <1>2. \A v \in Windows : TextsAgree(v)'
    BY <1>1, TextsGrow DEF LossInv
  <1>3. \A v \in Windows : \A g \in Handlers : TaskAgrees(v, g)'
    <2>1. \A v \in Windows : \A g \in Handlers : v # w \/ g # h => task'[v][g] = task[v][g]
      BY SetTaskSets
    <2>2. ASSUME NEW v \in Windows, NEW g \in Handlers, v # w \/ g # h PROVE TaskAgrees(v, g)'
      BY <1>1, <2>1, <2>2, TaskGrows DEF LossInv
    <2>. QED  BY <2>2
  <1>. QED  BY <1>2, <1>3 DEF LossInv

\* A step that leaves the handlers alone.
LEMMA LossFrame ==
    ASSUME TypeOK, TypeOK', LossInv, task' = task, \A v \in Windows : Grows(v)
    PROVE  LossInv'
  BY TextsGrow, TaskGrows DEF LossInv

LEMMA IdleAgrees ==
    ASSUME NEW w, NEW h, task'[w][h] = NoTask PROVE TaskAgrees(w, h)'
  BY DEF TaskAgrees, NoTask

\* What the text of a clean document, or of an unused tab, says.
LEMMA CleanIsRecorded ==
    ASSUME NEW w \in Windows, TextsAgree(w), NEW t \in Tabs,
           t \in docs[w] \/ t \notin opened[w], t \notin Dirty(w)
    PROVE  ver[w][t] \in written[w][t]
  BY DEF TextsAgree, Dirty

LEMMA HandleLoss ==
    ASSUME TypeOK, TypeOK', LossInv, NEW w \in Windows, Handle(w)
    PROVE  LossInv' /\ \A v \in Windows : Late(v)
  <1>0. TextsAgree(w) /\ "window" \in Handlers /\ "all" \in Handlers /\ "all" \notin Tabs
        /\ "window" \notin Tabs /\ Tabs \subseteq Handlers
    BY TabsAssumption DEF LossInv, Handlers
  <1>1. CASE UNCHANGED <<task, docVars>>
    <2>1. \A v \in Windows : Stays(v) /\ Late(v)
      BY <1>1 DEF docVars, Stays, Late
    <2>. QED  BY <1>1, <2>1, StaysGrows, LossFrame DEF LossInv
  <1>2. ASSUME NEW q, StartClose(w, q) PROVE LossInv' /\ \A v \in Windows : Late(v)
    <2>1. PICK k : /\ k = [pc |-> IF Dirty(w) = {} THEN "closing" ELSE "ask", quit |-> q,
                          snap |-> ver[w], todo |-> Dirty(w)]
                   /\ SetTask(w, "window", k)
      BY <1>2 DEF StartClose
    <2>2. /\ task'[w]["window"] = k /\ k.snap = ver[w] /\ k.todo = Dirty(w)
          /\ ver' = ver /\ saved' = saved /\ written' = written /\ tabs' = tabs /\ opened' = opened
          /\ docs' = IF Dirty(w) = {} THEN [docs EXCEPT ![w] = {}] ELSE docs
      BY <1>0, <1>2, <2>1, SetTaskSets DEF StartClose
    <2>3. /\ docs'[w] = IF Dirty(w) = {} THEN {} ELSE docs[w]
          /\ \A v \in Windows \ {w} : docs'[v] = docs[v]
      BY <2>2 DEF TypeOK
    <2>4. \A v \in Windows \ {w} : Stays(v)
      BY <2>2, <2>3 DEF Stays
    <2>5. Grows(w)
      BY <1>0, <2>2, <2>3, VersFacts DEF Grows, TextsAgree
    <2>6. TaskAgrees(w, "window")'
      <3>1. \A t \in Tabs : k.snap[t] <= ver'[w][t]
        BY <2>2, VersFacts
      <3>2. k.todo \subseteq opened'[w] /\ (k.pc = "closing" => k.todo = {})
        <4>1. k.pc = "closing" => Dirty(w) = {}
          BY <2>1
        <4>. QED  BY <1>0, <2>2, <4>1 DEF TextsAgree, Dirty
      <3>3. \A t \in Tabs \ k.todo :
               t \in docs'[w] \/ t \notin opened'[w] => k.snap[t] \in written'[w][t]
        BY <1>0, <2>2, <2>3, CleanIsRecorded
      <3>. QED  BY <1>0, <2>2, <3>1, <3>2, <3>3 DEF TaskAgrees
    <2>7. Late(w)
      <3>1. \A t \in docs[w] \ docs'[w] : t \in Tabs /\ ver[w][t] \in written'[w][t]
        BY <1>0, <2>2, <2>3, VersFacts, CleanIsRecorded
      <3>. QED  BY <3>1 DEF Late
    <2>8. \A v \in Windows \ {w} : Late(v)
      BY <2>3 DEF Late
    <2>. QED  BY <1>0, <2>1, <2>4, <2>5, <2>6, <2>7, <2>8, LossStep
  <1>3. ASSUME NEW h \in Handlers, NEW k, SetTask(w, h, k), TaskAgrees(w, h)',
               UNCHANGED <<tabs, docs, ver, saved, opened, written>>
        PROVE  LossInv' /\ \A v \in Windows : Late(v)
    <2>1. \A v \in Windows : Stays(v) /\ Late(v)
      BY <1>3 DEF Stays, Late
    <2>. QED  BY <1>0, <1>3, <2>1, StaysGrows, LossStep
  <1>4. ASSUME NEW t \in docs[w], StartTab(w, t) PROVE LossInv' /\ \A v \in Windows : Late(v)
    <2>0. t \in Tabs
      BY VersFacts
    <2>1. PICK k : /\ k = [pc |-> IF t \in Dirty(w) THEN "ask" ELSE "clean", quit |-> FALSE,
                          snap |-> ver[w], todo |-> {t}]
                   /\ SetTask(w, t, k)
      BY <1>4 DEF StartTab
    <2>2. /\ task'[w][t] = k /\ k.snap = ver[w] /\ k.todo = {t} /\ k.pc \in {"ask", "clean"}
          /\ k.pc = "clean" => t \notin Dirty(w)
          /\ UNCHANGED <<tabs, docs, ver, saved, opened, written>>
      BY <1>0, <1>4, <2>0, <2>1, SetTaskSets DEF StartTab
    <2>3. \A s \in Tabs : k.snap[s] <= ver'[w][s]
      BY <2>2, VersFacts
    <2>4. k.pc = "clean" => k.snap[t] \in written'[w][t]
      BY <1>0, <2>0, <2>2, CleanIsRecorded
    <2>5. TaskAgrees(w, t)'
      BY <1>0, <2>0, <2>2, <2>3, <2>4 DEF TaskAgrees
    <2>. QED  BY <1>0, <1>3, <2>0, <2>1, <2>2, <2>5
  <1>5. CASE StartAll(w)
    <2>1. PICK k : /\ k = IF Dirty(w) = {} THEN NoTask
                          ELSE [pc |-> "save", quit |-> FALSE, snap |-> ver[w], todo |-> Dirty(w)]
                   /\ SetTask(w, "all", k)
      BY <1>5 DEF StartAll
    <2>2. task'[w]["all"] = k /\ (k.pc = "idle" \/ k.pc = "save")
      BY <1>0, <2>1, SetTaskSets DEF NoTask
    <2>3. TaskAgrees(w, "all")'
      BY <1>0, <2>2 DEF TaskAgrees
    <2>. QED  BY <1>0, <1>3, <1>5, <2>1, <2>3 DEF StartAll
  <1>. QED  BY <1>1, <1>2, <1>4, <1>5 DEF Handle

LEMMA GivesUpLoss ==
    ASSUME TypeOK, TypeOK', LossInv, NEW w \in Windows, NEW h \in Handlers, GivesUp(w, h),
           UNCHANGED <<ver, saved, opened, written>>
    PROVE  LossInv' /\ \A v \in Windows : Late(v)
  <1>1. \A v \in Windows : Stays(v) /\ Late(v)
    BY DEF GivesUp, Stays, Late
  <1>2. SetTask(w, h, NoTask) /\ TaskAgrees(w, h)'
    BY IdleAgrees, SetTaskSets DEF GivesUp
  <1>. QED  BY <1>1, <1>2, StaysGrows, LossStep DEF LossInv

\* What TabDone does to the tabs of the windows.
LEMMA TabDoneSets ==
    ASSUME TypeOK, NEW w \in Windows, NEW t \in Tabs, TabDone(w, t)
    PROVE  /\ \A v \in Windows \ {w} : docs'[v] = docs[v] /\ tabs'[v] = tabs[v] /\ opened'[v] = opened[v]
           /\ opened[w] \subseteq opened'[w]
           /\ docs'[w] \subseteq docs[w] \cup (opened'[w] \ opened[w])
           /\ docs[w] = {} /\ tabs[w] = {} => docs'[w] = {} /\ tabs'[w] = {}
           /\ docs[w] \ docs'[w] \subseteq {t}
           /\ SetTask(w, t, NoTask) \/ (/\ SetTask(w, t, [task[w][t] EXCEPT !.pc = "closing", !.todo = {}])
                                       /\ tabs'[w] = {} /\ docs'[w] = {})
  <1>0. docs[w] \subseteq tabs[w]
    BY DEF TypeOK
  <1>1. PICK T, D, O :
          /\ tabs' = [tabs EXCEPT ![w] = T] /\ docs' = [docs EXCEPT ![w] = D]
          /\ opened' = [opened EXCEPT ![w] = O]
          /\ opened[w] \subseteq O /\ D \subseteq docs[w] \cup (O \ opened[w])
          /\ tabs[w] = {} /\ docs[w] = {} => T = {} /\ D = {}
          /\ docs[w] \ D \subseteq {t}
          /\ SetTask(w, t, NoTask) \/ (/\ SetTask(w, t, [task[w][t] EXCEPT !.pc = "closing", !.todo = {}])
                                      /\ T = {} /\ D = {})
    <2>1. opened = [opened EXCEPT ![w] = opened[w]]
      BY DEF TypeOK
    <2>2. CASE tabs[w] # {t}
      <3>1. /\ tabs' = [tabs EXCEPT ![w] = tabs[w] \ {t}] /\ docs' = [docs EXCEPT ![w] = docs[w] \ {t}]
            /\ SetTask(w, t, NoTask) /\ opened' = opened
        BY <2>2 DEF TabDone
      <3>2. /\ docs[w] \ {t} \subseteq docs[w] \cup (opened[w] \ opened[w])
            /\ tabs[w] = {} /\ docs[w] = {} => tabs[w] \ {t} = {} /\ docs[w] \ {t} = {}
            /\ docs[w] \ (docs[w] \ {t}) \subseteq {t}
        OBVIOUS
      <3>. QED  BY <2>1, <3>1, <3>2
    <2>3. CASE tabs[w] = {t} /\ opened' = opened
      <3>1. /\ tabs' = [tabs EXCEPT ![w] = {}] /\ docs' = [docs EXCEPT ![w] = {}]
            /\ SetTask(w, t, [task[w][t] EXCEPT !.pc = "closing", !.todo = {}])
        <4>1. \A n \in Tabs \ opened[w] : opened' # [opened EXCEPT ![w] = @ \cup {n}]
          BY <2>3 DEF TypeOK
        <4>. QED  BY <2>3, <4>1 DEF TabDone
      <3>2. docs[w] \ {} \subseteq {t} /\ {} \subseteq docs[w] \cup (opened[w] \ opened[w])
        BY <1>0, <2>3
      <3>. QED  BY <2>1, <2>3, <3>1, <3>2
    <2>4. CASE tabs[w] = {t} /\ opened' # opened
      <3>1. PICK n \in Tabs \ opened[w] :
              /\ tabs' = [tabs EXCEPT ![w] = {n}] /\ docs' = [docs EXCEPT ![w] = {n}]
              /\ opened' = [opened EXCEPT ![w] = opened[w] \cup {n}]
              /\ SetTask(w, t, NoTask)
        BY <2>4 DEF TabDone
      <3>2. /\ opened[w] \subseteq opened[w] \cup {n} /\ docs[w] \ {n} \subseteq {t}
            /\ {n} \subseteq docs[w] \cup ((opened[w] \cup {n}) \ opened[w])
            /\ tabs[w] # {}
        BY <1>0, <2>4
      <3>. QED  BY <3>1, <3>2
    <2>. QED  BY <2>2, <2>3, <2>4
  <1>. QED  BY <1>1 DEF TypeOK

\* Nothing is lost with a handler that is done: each of its documents is on
\* record, left by the user, or newer than what it had looked at.
LEMMA DoneLoss ==
    ASSUME TypeOK, TypeOK', LossInv, NEW w \in Windows, NEW h \in Handlers, Done(w, h),
           ver' = ver, \A v \in Windows \ {w} : saved'[v] = saved[v] /\ written'[v] = written[v],
           \A t \in Tabs : written[w][t] \subseteq written'[w][t] /\ saved'[w][t] \in written'[w][t],
           task[w][h].pc # "idle", task[w][h].pc # "closing",
           h # "all" => \A t \in task[w][h].todo :
              \/ task[w][h].snap[t] \in written'[w][t]
              \/ ver[w][t] = discarded'[w][t]
    PROVE  LossInv' /\ \A v \in Windows : Late(v)
  <1>0. /\ "window" \in Handlers /\ "all" \in Handlers /\ "all" \notin Tabs /\ "window" \notin Tabs
        /\ Tabs \subseteq Handlers /\ TextsAgree(w) /\ TaskAgrees(w, h)
    BY TabsAssumption DEF Handlers, LossInv
  <1>1. PICK c : c = task[w][h]
    OBVIOUS
  <1>2. \A v \in Windows \ {w} : docs'[v] = docs[v] /\ tabs'[v] = tabs[v] /\ opened'[v] = opened[v]
    <2>1. CASE h = "window" /\ WindowDone(w)
      BY <2>1 DEF WindowDone, TypeOK
    <2>2. CASE h = "all" /\ AllDone(w)
      BY <2>2 DEF AllDone
    <2>3. CASE h \in Tabs /\ TabDone(w, h)
      BY <2>3, TabDoneSets
    <2>. QED  BY <2>1, <2>2, <2>3 DEF Done
  <1>3. \A v \in Windows \ {w} : Stays(v) /\ Late(v)
    BY <1>2 DEF Stays, Late
  <1>4. CASE h = "window" /\ WindowDone(w)
    <2>1. PICK k : k = [task[w]["window"] EXCEPT !.pc = "closing", !.todo = {}]
      OBVIOUS
    <2>2. SetTask(w, h, k) /\ k.pc = "closing" /\ k.todo = {} /\ k.snap = c.snap
      BY <1>0, <1>1, <1>4, <2>1, VersFacts DEF WindowDone, Tasks
    <2>3. task'[w][h] = k /\ docs'[w] = {} /\ tabs' = tabs /\ opened' = opened
      BY <1>4, <2>2, SetTaskSets DEF WindowDone, TypeOK
    <2>4. Grows(w)
      BY <1>0, <2>3, VersFacts DEF Grows, TextsAgree
    <2>5. TaskAgrees(w, h)'
      <3>1. \A t \in Tabs : k.snap[t] <= ver'[w][t]
        BY <1>0, <1>1, <1>4, <2>2 DEF TaskAgrees
      <3>2. \A t \in Tabs \ opened'[w] : k.snap[t] \in written'[w][t]
        BY <1>0, <1>1, <1>4, <2>2, <2>3 DEF TaskAgrees
      <3>. QED  BY <1>0, <1>4, <2>2, <2>3, <3>1, <3>2 DEF TaskAgrees
    <2>6. Late(w)
      <3>1. SUFFICES ASSUME NEW t \in docs[w],
                            ver[w][t] \notin written'[w][t], ver[w][t] # discarded'[w][t]
                     PROVE  ver[w][t] > c.snap[t]
        BY <1>1, <1>4, <2>2, <2>3 DEF Late
      <3>2. t \in Tabs /\ ver[w][t] \in Nat /\ c.snap[t] \in Nat /\ c.snap[t] <= ver[w][t]
        BY <1>0, <1>1, <1>4, VersFacts DEF TaskAgrees
      <3>3. c.snap[t] \in written'[w][t]
        BY <1>0, <1>1, <1>4, <3>1, <3>2 DEF TaskAgrees
      <3>. QED  BY <3>1, <3>2, <3>3
    <2>. QED  BY <1>3, <2>2, <2>4, <2>5, <2>6, LossStep
  <1>5. CASE h = "all" /\ AllDone(w)
    <2>1. SetTask(w, h, NoTask) /\ UNCHANGED <<tabs, docs, opened>>
      BY <1>5 DEF AllDone
    <2>2. TaskAgrees(w, h)' /\ Late(w)
      BY <2>1, IdleAgrees, SetTaskSets DEF Late
    <2>3. Grows(w)
      BY <1>0, <2>1, VersFacts DEF Grows, TextsAgree
    <2>. QED  BY <1>3, <2>1, <2>2, <2>3, LossStep
  <1>6. CASE h \in Tabs /\ TabDone(w, h)
    <2>1. PICK k : SetTask(w, h, k) /\ (k = NoTask \/ (k = [c EXCEPT !.pc = "closing", !.todo = {}]
                                                       /\ tabs'[w] = {} /\ docs'[w] = {}))
      BY <1>1, <1>6, TabDoneSets
    <2>2. task'[w][h] = k /\ (k.pc = "idle" \/ k.pc = "closing") /\ k # c
      <3>1. c \in Tasks /\ c.pc # "idle" /\ c.pc # "closing" /\ task'[w][h] = k
        BY <1>1, <2>1, SetTaskSets, VersFacts
      <3>2. k = NoTask => k.pc = "idle"
        BY DEF NoTask
      <3>3. k # NoTask => k.pc = "closing"
        BY <2>1, <3>1 DEF Tasks
      <3>4. k.pc # c.pc
        BY <3>1, <3>2, <3>3
      <3>. QED  BY <3>1, <3>2, <3>3, <3>4
    <2>3. docs[w] \ docs'[w] \subseteq {h}
      BY <1>6, TabDoneSets
    <2>4. /\ opened[w] \subseteq opened'[w]
          /\ docs'[w] \subseteq docs[w] \cup (opened'[w] \ opened[w])
          /\ docs[w] = {} /\ tabs[w] = {} => docs'[w] = {} /\ tabs'[w] = {}
      BY <1>6, TabDoneSets
    <2>5. Grows(w)
      BY <1>0, <2>4, VersFacts DEF Grows, TextsAgree
    <2>6. TaskAgrees(w, h)'
      <3>1. CASE k = NoTask
        BY <2>2, <3>1, IdleAgrees
      <3>2. CASE k # NoTask
        <4>1. k.pc = "closing" /\ k.snap = c.snap /\ tabs'[w] = {} /\ docs'[w] = {}
          BY <1>1, <2>1, <3>2, VersFacts DEF Tasks
        <4>2. \A t \in Tabs : k.snap[t] <= ver'[w][t]
          BY <1>0, <1>1, <1>6, <4>1 DEF TaskAgrees
        <4>. QED  BY <1>0, <1>6, <2>2, <4>1, <4>2 DEF TaskAgrees
      <3>. QED  BY <3>1, <3>2
    <2>7. Late(w)
      <3>1. SUFFICES ASSUME h \in docs[w],
                            ver[w][h] \notin written'[w][h], ver[w][h] # discarded'[w][h]
                     PROVE  ver[w][h] > c.snap[h]
        BY <1>1, <2>2, <2>3 DEF Late
      <3>2. ver[w][h] \in Nat /\ c.snap[h] \in Nat /\ c.snap[h] <= ver[w][h] /\ c.todo = {h}
        BY <1>0, <1>1, <1>6, VersFacts DEF TaskAgrees
      <3>3. c.snap[h] \in written'[w][h]
        BY <1>0, <1>1, <1>6, <3>1, <3>2
      <3>. QED  BY <3>1, <3>2, <3>3
    <2>. QED  BY <1>3, <2>1, <2>5, <2>6, <2>7, LossStep
  <1>. QED  BY <1>4, <1>5, <1>6 DEF Done

LEMMA HandlerLoss ==
    ASSUME TypeOK, TypeOK', LossInv, NEW w \in Windows, NEW h \in Handlers, HandlerStep(w, h)
    PROVE  LossInv' /\ \A v \in Windows : Late(v)
  <1>0. /\ "window" \in Handlers /\ "all" \in Handlers /\ "all" \notin Tabs /\ "window" \notin Tabs
        /\ Tabs \subseteq Handlers /\ TextsAgree(w) /\ TaskAgrees(w, h)
        /\ h = "window" \/ h = "all" \/ h \in Tabs
    BY TabsAssumption DEF Handlers, LossInv
  <1>1. PICK c \in Tasks : c = task[w][h]
    BY VersFacts
  <1>2. CASE AnswerCancel(w, h) \/ SaveFails(w, h)
    BY <1>2, GivesUpLoss DEF AnswerCancel, SaveFails, frame
  <1>3. CASE AnswerDiscard(w, h)
    <2>1. /\ Done(w, h) /\ ver' = ver /\ saved' = saved /\ written' = written
          /\ c.pc = "ask"
          /\ discarded' = [discarded EXCEPT ![w] =
                [t \in Tabs |-> IF t \in task[w][h].todo THEN ver[w][t] ELSE @[t]]]
      BY <1>1, <1>3 DEF AnswerDiscard, frame, Running
    <2>2. \A t \in c.todo : ver[w][t] = discarded'[w][t]
      BY <1>1, <2>1 DEF TypeOK, Tasks
    <2>. QED  BY <1>0, <1>1, <2>1, <2>2, DoneLoss DEF TextsAgree
  <1>4. ASSUME NEW k, SetTask(w, h, k), TaskAgrees(w, h)', UNCHANGED <<ver, tabs, docs, opened>>,
               Grows(w), \A v \in Windows \ {w} : saved'[v] = saved[v] /\ written'[v] = written[v]
        PROVE  LossInv' /\ \A v \in Windows : Late(v)
    <2>1. /\ \A v \in Windows \ {w} : Stays(v)
          /\ \A v \in Windows : Late(v)
      BY <1>4 DEF Stays, Late
    <2>. QED  BY <1>4, <2>1, LossStep
  <1>5. CASE AnswerSave(w, h)
    <2>1. PICK k : k = [c EXCEPT !.pc = "save"]
      OBVIOUS
    <2>2. /\ SetTask(w, h, k) /\ c.pc = "ask" /\ k.pc = "save" /\ k.snap = c.snap /\ k.todo = c.todo
          /\ UNCHANGED <<ver, saved, written, tabs, docs, opened>>
      BY <1>1, <1>5, <2>1 DEF AnswerSave, Running, frame, Tasks
    <2>3. Grows(w)
      BY <1>0, <2>2, StaysGrows DEF Stays
    <2>4. task'[w][h] = k
      BY <2>2, SetTaskSets
    <2>5. TaskAgrees(w, h)'
      BY <1>0, <1>1, <2>2, <2>4 DEF TaskAgrees
    <2>. QED  BY <1>4, <2>2, <2>3, <2>5
  <1>6. ASSUME NEW t \in Tabs, SaveNext(w, h, t) PROVE LossInv' /\ \A v \in Windows : Late(v)
    <2>1. /\ c.pc = "save" /\ t \in c.todo /\ c.snap[t] \in Nat /\ ver' = ver
          /\ saved' = [saved EXCEPT ![w][t] = c.snap[t]]
          /\ written' = [written EXCEPT ![w][t] = @ \cup {c.snap[t]}]
      BY <1>1, <1>6 DEF SaveNext, Running, frame, Tasks, Versions
    <2>2. /\ \A v \in Windows \ {w} : saved'[v] = saved[v] /\ written'[v] = written[v]
          /\ \A s \in Tabs : /\ saved'[w][s] = IF s = t THEN c.snap[t] ELSE saved[w][s]
                             /\ written'[w][s] = IF s = t THEN written[w][s] \cup {c.snap[t]}
                                                ELSE written[w][s]
      BY <2>1, SaveSets
    <2>3. \A s \in Tabs : written[w][s] \subseteq written'[w][s] /\ saved'[w][s] \in written'[w][s]
      BY <1>0, <2>2 DEF TextsAgree
    <2>4. CASE c.todo = {t} /\ h \notin Tabs /\ Done(w, h)
      <3>1. \A s \in c.todo : c.snap[s] \in written'[w][s]
        BY <2>2, <2>4
      <3>. QED  BY <1>1, <2>1, <2>2, <2>3, <2>4, <3>1, DoneLoss
    <2>5. CASE /\ c.todo # {t} \/ h \in Tabs
               /\ SetTask(w, h, IF c.todo = {t} THEN [c EXCEPT !.pc = "clean"]
                                ELSE [c EXCEPT !.todo = @ \ {t}])
               /\ UNCHANGED <<tabs, docs, opened>>
      <3>1. Grows(w)
        BY <1>0, <2>1, <2>3, <2>5, VersFacts DEF Grows, TextsAgree
      <3>2. PICK k : k = IF c.todo = {t} THEN [c EXCEPT !.pc = "clean"]
                         ELSE [c EXCEPT !.todo = @ \ {t}]
        OBVIOUS
      <3>3. SetTask(w, h, k) /\ task'[w][h] = k
        BY <2>5, <3>2, SetTaskSets
      <3>4. /\ k.snap = c.snap
            /\ c.todo = {t} => k.pc = "clean" /\ k.todo = c.todo
            /\ c.todo # {t} => k.pc = "save" /\ k.todo = c.todo \ {t}
        BY <1>1, <2>1, <3>2 DEF Tasks
      <3>5. TaskAgrees(w, h)'
        <4>1. CASE h = "window"
          <5>1. c.todo # {t} /\ \A s \in Tabs : k.snap[s] <= ver'[w][s]
            BY <1>0, <1>1, <2>1, <2>5, <3>4, <4>1 DEF TaskAgrees
          <5>2. k.todo \subseteq opened'[w] /\ k.pc # "closing"
            BY <1>0, <1>1, <2>1, <2>5, <3>4, <4>1, <5>1 DEF TaskAgrees
          <5>3. \A s \in Tabs \ k.todo :
                   s \in docs'[w] \/ s \notin opened'[w] => k.snap[s] \in written'[w][s]
            <6>. SUFFICES ASSUME NEW s \in Tabs \ k.todo, s \in docs[w] \/ s \notin opened[w]
                          PROVE  k.snap[s] \in written'[w][s]
              BY <2>5
            <6>1. CASE s = t
              BY <2>2, <3>4, <6>1
            <6>2. CASE s # t
              <7>1. s \notin c.todo
                BY <3>4, <5>1, <6>2
              <7>2. c.snap[s] \in written[w][s]
                BY <1>0, <1>1, <2>1, <4>1, <7>1 DEF TaskAgrees
              <7>. QED  BY <2>2, <3>4, <6>2, <7>2
            <6>. QED  BY <6>1, <6>2
          <5>. QED  BY <1>0, <3>3, <4>1, <5>1, <5>2, <5>3 DEF TaskAgrees
        <4>2. CASE h = "all"
          BY <1>0, <2>5, <3>3, <3>4, <4>2 DEF TaskAgrees
        <4>3. CASE h \in Tabs
          <5>1. c.todo = {h} /\ t = h /\ k.pc = "clean" /\ k.todo = {h}
            BY <1>0, <1>1, <2>1, <3>4, <4>3 DEF TaskAgrees
          <5>2. \A s \in Tabs : k.snap[s] <= ver'[w][s]
            BY <1>0, <1>1, <2>1, <3>4, <4>3 DEF TaskAgrees
          <5>3. k.snap[h] \in written'[w][h]
            BY <2>2, <3>4, <4>3, <5>1
          <5>. QED  BY <1>0, <3>3, <4>3, <5>1, <5>2, <5>3 DEF TaskAgrees
        <4>. QED  BY <1>0, <4>1, <4>2, <4>3
      <3>. QED  BY <1>4, <2>1, <2>2, <2>5, <3>1, <3>3, <3>5
    <2>. QED  BY <1>1, <1>6, <2>4, <2>5 DEF SaveNext
  <1>7. CASE h \in Tabs /\ TabCleaned(w, h)
    <2>1. /\ Done(w, h) /\ ver' = ver /\ saved' = saved /\ written' = written /\ c.pc = "clean"
      BY <1>1, <1>7 DEF TabCleaned, frame, Running
    <2>2. \A s \in c.todo : c.snap[s] \in written'[w][s]
      BY <1>0, <1>1, <1>7, <2>1 DEF TaskAgrees
    <2>. QED  BY <1>0, <1>1, <2>1, <2>2, DoneLoss DEF TextsAgree
  <1>8. CASE CloseWindow(w, h)
    <2>1. /\ c.pc = "closing" /\ SetTask(w, h, NoTask)
          /\ ver' = ver /\ saved' = saved /\ written' = written /\ opened' = opened
          /\ tabs' = [tabs EXCEPT ![w] = {}] /\ docs' = [docs EXCEPT ![w] = {}]
      BY <1>1, <1>8 DEF CloseWindow, Running
    <2>2. tabs'[w] = {} /\ docs'[w] = {} /\ task'[w][h] = NoTask
      BY <2>1, SetTaskSets DEF TypeOK
    <2>3. \A v \in Windows \ {w} : Stays(v) /\ Late(v)
      BY <2>1 DEF Stays, Late, TypeOK
    <2>4. Grows(w)
      BY <1>0, <2>1, <2>2, VersFacts DEF Grows, TextsAgree
    <2>5. Late(w)
      <3>1. CASE h \in Tabs
        BY <1>0, <1>1, <2>1, <3>1 DEF TaskAgrees, Late
      <3>2. CASE h = "window"
        <4>1. SUFFICES ASSUME NEW t \in docs[w], ver[w][t] \notin written'[w][t]
                       PROVE  /\ ver[w][t] > c.snap[t] /\ NoTask # c
          BY <1>1, <2>1, <2>2, <3>2 DEF Late
        <4>2. t \in Tabs /\ ver[w][t] \in Nat /\ c.snap[t] \in Nat /\ c.snap[t] <= ver[w][t]
          BY <1>0, <1>1, <2>1, <3>2, VersFacts DEF TaskAgrees
        <4>3. ver[w][t] # c.snap[t]
          <5>1. c.snap[t] \in written[w][t]
            BY <1>0, <1>1, <2>1, <3>2, <4>2 DEF TaskAgrees
          <5>. QED  BY <2>1, <4>1, <4>2, <5>1
        <4>. QED  BY <2>1, <4>2, <4>3 DEF NoTask
      <3>3. h # "all"
        BY <1>0, <1>1, <2>1 DEF TaskAgrees
      <3>. QED  BY <1>0, <3>1, <3>2, <3>3
    <2>6. TaskAgrees(w, h)'
      BY <2>2, IdleAgrees
    <2>. QED  BY <2>1, <2>3, <2>4, <2>5, <2>6, LossStep
  <1>. QED  BY <1>2, <1>3, <1>5, <1>6, <1>7, <1>8 DEF HandlerStep

LEMMA RustLoss ==
    ASSUME TypeOK, TypeOK', LossInv, UNCHANGED <<task, docVars>>
    PROVE  LossInv' /\ \A v \in Windows : Late(v)
  <1>1. \A v \in Windows : Stays(v) /\ Late(v)
    BY DEF docVars, Stays, Late
  <1>. QED  BY <1>1, StaysGrows, LossFrame DEF LossInv, docVars

LEMMA EditLoss ==
    ASSUME TypeOK, TypeOK', LossInv, NEW w \in Windows, NEW t \in Tabs, Edit(w, t)
    PROVE  LossInv' /\ \A v \in Windows : Late(v)
  <1>1. /\ UNCHANGED <<task, tabs, docs, saved, opened, written>> /\ t \in docs[w]
        /\ ver' = [ver EXCEPT ![w] = [ver[w] EXCEPT ![t] = ver[w][t] + 1]]
    BY DEF Edit, rustVars
  <1>2. /\ \A v \in Windows \ {w} : ver'[v] = ver[v]
        /\ ver'[w] = [ver[w] EXCEPT ![t] = ver[w][t] + 1]
    BY <1>1 DEF TypeOK
  <1>3. \A s \in Tabs : ver'[w][s] = IF s = t THEN ver[w][s] + 1 ELSE ver[w][s]
    <2>1. ver[w] \in [Tabs -> Nat]
      BY DEF TypeOK, Versions
    <2>. QED  BY <1>2, <2>1
  <1>4. \A v \in Windows \ {w} : Stays(v)
    BY <1>1, <1>2 DEF Stays
  <1>5. Grows(w)
    <2>1. TextsAgree(w) /\ t \in opened[w]
      BY <1>1 DEF LossInv, TextsAgree
    <2>2. \A s \in Tabs : ver[w][s] <= ver'[w][s] /\ (s \notin opened[w] => ver'[w][s] = 0)
      BY <1>3, <2>1, VersFacts DEF TextsAgree
    <2>. QED  BY <1>1, <2>1, <2>2 DEF Grows, TextsAgree
  <1>6. \A v \in Windows : Grows(v)
    BY <1>4, <1>5, StaysGrows DEF LossInv
  <1>7. LossInv'
    BY <1>1, <1>6, LossFrame
  <1>. QED  BY <1>1, <1>7 DEF Late

LEMMA SaveDocLoss ==
    ASSUME TypeOK, TypeOK', LossInv, NEW w \in Windows, NEW t \in Tabs, SaveDoc(w, t)
    PROVE  LossInv' /\ \A v \in Windows : Late(v)
  <1>1. /\ saved' = [saved EXCEPT ![w][t] = ver[w][t]]
        /\ written' = [written EXCEPT ![w][t] = @ \cup {ver[w][t]}]
        /\ UNCHANGED <<task, tabs, docs, ver, opened>>
    BY DEF SaveDoc, rustVars
  <1>2. PICK n \in Nat : n = ver[w][t]
    BY VersFacts
  <1>3. /\ \A v \in Windows \ {w} : saved'[v] = saved[v] /\ written'[v] = written[v]
        /\ \A s \in Tabs : /\ saved'[w][s] = IF s = t THEN n ELSE saved[w][s]
                           /\ written'[w][s] = IF s = t THEN written[w][s] \cup {n}
                                              ELSE written[w][s]
    BY <1>1, <1>2, SaveSets
  <1>5. \A v \in Windows \ {w} : Stays(v)
    BY <1>1, <1>3 DEF Stays
  <1>6. Grows(w)
    <2>1. TextsAgree(w)
      BY DEF LossInv
    <2>2. \A s \in Tabs : written[w][s] \subseteq written'[w][s] /\ saved'[w][s] \in written'[w][s]
      BY <1>3, <2>1 DEF TextsAgree
    <2>. QED  BY <1>1, <2>1, <2>2, VersFacts DEF Grows, TextsAgree
  <1>7. LossInv'
    BY <1>1, <1>5, <1>6, StaysGrows, LossFrame DEF LossInv
  <1>. QED  BY <1>1, <1>7 DEF Late

LEMMA LossStarts ==
    ASSUME Init PROVE LossInv
  <1>1. \A w \in Windows : TextsAgree(w)
    BY DEF Init, Zero, TextsAgree
  <1>2. \A w \in Windows : \A h \in Handlers : TaskAgrees(w, h)
    BY DEF Init, TaskAgrees, NoTask
  <1>. QED  BY <1>1, <1>2 DEF LossInv

LEMMA LossInvStep ==
    ASSUME TypeOK, TypeOK', LossInv, [Next]_vars
    PROVE  LossInv' /\ \A v \in Windows : Late(v)
  <1>1. CASE RustStep \/ UNCHANGED vars
    <2>1. UNCHANGED <<task, docVars>>
      BY <1>1 DEF vars, docVars, rustVars, RustStep, RequestQuit, PressExpires, SetConfirmQuit, SystemExit,
                  MenuSaveAllQuit, ExitEvent, CancelQuit, Destroyed, CreateWindow, Ready,
                  CloseRequested, MenuClose
    <2>. QED  BY <2>1, RustLoss
  <1>2. CASE WindowStep
    BY <1>2, HandleLoss, HandlerLoss, EditLoss, SaveDocLoss DEF WindowStep
  <1>. QED  BY <1>1, <1>2 DEF Next

\* A text that goes with its tab or window is on record in a file, left by the
\* user, or newer than the one its handler had looked at (useWindowClose.ts).
THEOREM LossesAreLate == Spec => LossIsLate
  <1>1. TypeOK /\ TypeOK' /\ LossInv /\ [Next]_vars => LossInv' /\ [\A w \in Windows : Late(w)]_vars
    BY LossInvStep
  <1>2. Spec => []LossInv
    BY <1>1, LossStarts, TypeInvariance, PTL DEF Spec
  <1>3. Spec => [][\A w \in Windows : Late(w)]_vars
    BY <1>1, <1>2, TypeInvariance, PTL DEF Spec
  <1>. QED  BY <1>3 DEF LossIsLate, Late

-----------------------------------------------------------------------------
(* Events on their way to a window. *)

Going(t, x) == [kind |-> "transfer", tab |-> t, text |-> x]
Removal(t) == [kind |-> "remove", tab |-> t, text |-> 0]

Alike(e, k, t) == e.kind = k /\ e.tab = t
Never(s, k, t) == \A i \in 1..Len(s) : ~Alike(s[i], k, t)
Sole(s, e) == \E i \in 1..Len(s) :
                 s[i] = e /\ \A j \in 1..Len(s) : Alike(s[j], e.kind, e.tab) => j = i

LEMMA EmptyEvents == \A k, t : Never(<<>>, k, t)
  BY DEF Never

LEMMA MoreEvents ==
    ASSUME NEW s \in Seq(Event), NEW e \in Event
    PROVE  /\ Append(s, e) \in Seq(Event)
           /\ \A k, t : Never(s, k, t) /\ ~Alike(e, k, t) => Never(Append(s, e), k, t)
           /\ Never(s, e.kind, e.tab) => Sole(Append(s, e), e)
           /\ \A f : Sole(s, f) /\ ~Alike(e, f.kind, f.tab) => Sole(Append(s, e), f)
  <1>1. /\ Append(s, e) \in Seq(Event) /\ Len(Append(s, e)) = Len(s) + 1 /\ Len(s) \in Nat
        /\ \A i \in 1..Len(s) : Append(s, e)[i] = s[i]
        /\ Append(s, e)[Len(s) + 1] = e
    BY AppendProperties
  <1>2. PICK a : a = Append(s, e)
    OBVIOUS
  <1>3. /\ Len(a) = Len(s) + 1 /\ \A i \in 1..Len(s) : a[i] = s[i]
        /\ a[Len(s) + 1] = e
    BY <1>1, <1>2
  <1>4. ASSUME NEW k, NEW t, Never(s, k, t), ~Alike(e, k, t) PROVE Never(a, k, t)
    BY <1>1, <1>3, <1>4 DEF Never
  <1>5. ASSUME Never(s, e.kind, e.tab) PROVE Sole(a, e)
    BY <1>1, <1>3, <1>5 DEF Never, Sole
  <1>6. ASSUME NEW f, Sole(s, f), ~Alike(e, f.kind, f.tab) PROVE Sole(a, f)
    <2>1. PICK i \in 1..Len(s) :
            s[i] = f /\ \A j \in 1..Len(s) : Alike(s[j], f.kind, f.tab) => j = i
      BY <1>6 DEF Sole
    <2>2. i \in 1..Len(a) /\ a[i] = f
      BY <1>1, <1>3, <2>1
    <2>3. \A j \in 1..Len(a) : Alike(a[j], f.kind, f.tab) => j = i
      BY <1>1, <1>3, <1>6, <2>1
    <2>. QED  BY <2>2, <2>3 DEF Sole
  <1>. QED  BY <1>1, <1>2, <1>4, <1>5, <1>6

LEMMA FewerEvents ==
    ASSUME NEW s \in Seq(Event), s # <<>>
    PROVE  /\ Tail(s) \in Seq(Event) /\ Head(s) \in Event
           /\ \A k, t : Never(s, k, t) => Never(Tail(s), k, t) /\ ~Alike(Head(s), k, t)
           /\ \A f : Sole(s, f) /\ ~Alike(Head(s), f.kind, f.tab) => Sole(Tail(s), f)
           /\ \A f : Sole(s, f) /\ Alike(Head(s), f.kind, f.tab)
                  => Head(s) = f /\ Never(Tail(s), f.kind, f.tab)
  <1>1. /\ Head(s) \in Event /\ Tail(s) \in Seq(Event) /\ Len(Tail(s)) = Len(s) - 1
        /\ \A i \in 1..Len(Tail(s)) : Tail(s)[i] = s[i + 1]
        /\ Head(s) = s[1] /\ Len(s) \in Nat \ {0}
    BY HeadTailProperties
  <1>2. PICK r, h : r = Tail(s) /\ h = Head(s)
    OBVIOUS
  <1>3. /\ Len(r) = Len(s) - 1 /\ \A i \in 1..Len(r) : r[i] = s[i + 1]
        /\ h = s[1]
    BY <1>1, <1>2
  <1>4. ASSUME NEW k, NEW t, Never(s, k, t) PROVE Never(r, k, t) /\ ~Alike(h, k, t)
    BY <1>1, <1>3, <1>4 DEF Never
  <1>5. ASSUME NEW f, Sole(s, f)
        PROVE  /\ ~Alike(h, f.kind, f.tab) => Sole(r, f)
               /\ Alike(h, f.kind, f.tab) => h = f /\ Never(r, f.kind, f.tab)
    <2>1. PICK i \in 1..Len(s) :
            s[i] = f /\ \A j \in 1..Len(s) : Alike(s[j], f.kind, f.tab) => j = i
      BY <1>5 DEF Sole
    <2>2. CASE i = 1
      <3>1. h = f
        BY <1>3, <2>1, <2>2
      <3>2. Never(r, f.kind, f.tab)
        BY <1>1, <1>3, <2>1, <2>2 DEF Never
      <3>. QED  BY <3>1, <3>2 DEF Alike
    <2>3. CASE i # 1
      <3>1. ~Alike(h, f.kind, f.tab)
        BY <1>1, <1>3, <2>1, <2>3
      <3>2. i - 1 \in 1..Len(r) /\ r[i - 1] = f
        BY <1>1, <1>3, <2>1, <2>3
      <3>3. \A j \in 1..Len(r) : Alike(r[j], f.kind, f.tab) => j = i - 1
        BY <1>1, <1>3, <2>1
      <3>. QED  BY <3>1, <3>2, <3>3 DEF Sole
    <2>. QED  BY <2>2, <2>3
  <1>. QED  BY <1>1, <1>2, <1>4, <1>5

-----------------------------------------------------------------------------
(* Types. *)

LEMMA MainIsLabel == Main \in Labels
  BY DEF Labels

LEMMA MovesTyped ==
    ASSUME NEW no \in Nat, NEW w \in Labels, NEW t \in TabIds, NEW x \in Nat,
           NEW to \in Labels \union {NewWindow}, NEW b \in BOOLEAN
    PROVE  [no |-> no, from |-> w, tab |-> t, text |-> x, to |-> to, sent |-> b] \in Move
  BY DEF Move

LEMMA EndsTypes ==
    ASSUME TransferTypeOK, NEW w \in Labels, Ends(w)
    PROVE  /\ stage' \in [Labels -> {"none", "loading", "claimed", "ready", "gone"}]
           /\ text' \in [Labels -> [TabIds -> Nat \union {Nothing}]]
           /\ registry' \in [Labels -> Payloads \union {Nothing}]
           /\ events' \in [Labels -> Seq(Event)]
           /\ applying' \in [Labels -> SUBSET Payloads]
           /\ moves' \subseteq Move /\ toasts' \subseteq Move /\ undoing' \subseteq Move
           /\ closing' \subseteq Docs
  <1>1. <<>> \in Seq(Event)
    OBVIOUS
  <1>2. PICK empty : empty = <<>> /\ empty \in Seq(Event)
    BY <1>1
  <1>3. events' = [events EXCEPT ![w] = empty]
    BY <1>2 DEF Ends
  <1>4. events' \in [Labels -> Seq(Event)]
    BY <1>2, <1>3 DEF TransferTypeOK
  <1>. QED  BY <1>4 DEF Ends, TransferTypeOK

LEMMA CarriedTypes ==
    ASSUME TransferTypeOK, NEW w \in Labels
    PROVE  Carried(w) \subseteq TabIds
  <1>1. Shown(w) \subseteq TabIds
    BY DEF Shown
  <1>2. {p.tab : p \in applying[w]} \subseteq TabIds
    BY DEF TransferTypeOK, Payloads
  <1>3. {u.tab : u \in {v \in undoing : v.from = w}} \subseteq TabIds
    BY DEF TransferTypeOK, Move
  <1>4. {events[w][i].tab : i \in DOMAIN events[w]} \subseteq TabIds
    <2>1. events[w] \in Seq(Event)
      BY DEF TransferTypeOK
    <2>2. \A i \in DOMAIN events[w] : events[w][i] \in Event
      BY <2>1
    <2>. QED  BY <2>2 DEF Event
  <1>5. registry[w] # Nothing => registry[w].tab \in TabIds
    BY DEF TransferTypeOK, Payloads
  <1>. QED  BY <1>1, <1>2, <1>3, <1>4, <1>5 DEF Carried

LEMMA EmitTypes ==
    ASSUME TransferTypeOK, NEW w \in Labels, NEW e \in Event, Emit(w, e)
    PROVE  events' \in [Labels -> Seq(Event)]
  BY MoreEvents DEF Emit, TransferTypeOK

LEMMA TransferTypeStep ==
    ASSUME TransferTypeOK, TransferNext PROVE TransferTypeOK'
  <1>. USE DEF TransferTypeOK, windowVars, moveVars, historyVars
  <1>0. \A w \in Labels : events[w] \in Seq(Event)
    OBVIOUS
  <1>1. ASSUME NEW w \in Labels, EmptyCloses(w) \/ UserCloses(w) PROVE TransferTypeOK'
    BY <1>1, EndsTypes, CarriedTypes DEF EmptyCloses, UserCloses
  <1>2. ASSUME NEW w \in Labels, Claim(w) \/ Listen(w) PROVE TransferTypeOK'
    <2>1. CASE Claim(w)
      <3>1. registry[w] \in Payloads
        BY <2>1 DEF Claim
      <3>2. applying' \in [Labels -> SUBSET Payloads]
        BY <2>1, <3>1 DEF Claim
      <3>. QED  BY <2>1, <3>2 DEF Claim
    <2>2. CASE Listen(w)
      BY <2>2 DEF Listen
    <2>. QED  BY <1>2, <2>1, <2>2
  <1>3. ASSUME NEW w \in Labels, HearEvent(w) PROVE TransferTypeOK'
    <2>1. PICK h \in Event, r \in Seq(Event) :
            h = Head(events[w]) /\ r = Tail(events[w])
      BY <1>0, <1>3, FewerEvents DEF HearEvent
    <2>2. events' \in [Labels -> Seq(Event)]
      BY <1>3, <2>1 DEF HearEvent
    <2>3. /\ text' \in [Labels -> [TabIds -> Nat \union {Nothing}]]
          /\ applying' \in [Labels -> SUBSET Payloads] /\ closing' \subseteq Docs
      <3>1. CASE h.kind = "transfer"
        <4>1. Payload(h) \in Payloads
          BY DEF Payload, Payloads, Event
        <4>2. /\ applying' = [applying EXCEPT ![w] = @ \union {Payload(h)}]
              /\ UNCHANGED <<text, closing>>
          BY <1>3, <2>1, <3>1 DEF HearEvent
        <4>. QED  BY <4>1, <4>2
      <3>2. CASE h.kind = "remove"
        <4>1. Drops(w, h.tab) /\ UNCHANGED applying
          BY <1>3, <2>1, <3>2 DEF HearEvent
        <4>2. h.tab \in TabIds
          BY DEF Event
        <4>. QED  BY <4>1, <4>2 DEF Drops, Labels
      <3>. QED  BY <3>1, <3>2 DEF Event
    <2>. QED  BY <1>3, <2>2, <2>3 DEF HearEvent
  <1>4. ASSUME NEW w \in Labels, NEW p \in applying[w], Apply(w, p) PROVE TransferTypeOK'
    BY <1>4 DEF Apply, Shows, Payloads
  <1>5. ASSUME NEW w \in Labels, NEW t \in TabIds, EditTab(w, t) PROVE TransferTypeOK'
    BY <1>5 DEF EditTab
  <1>6. ASSUME NEW w \in Labels, NEW t \in TabIds, NEW to \in Targets(w), BeginMove(w, t, to)
        PROVE  TransferTypeOK'
    <2>1. /\ to \in Labels \union {NewWindow}
          /\ text[w][t] \in Nat
      BY <1>6 DEF Targets, BeginMove, Shown
    <2>2. moves' \subseteq Move /\ movesBegun' \in Nat /\ known' \subseteq TabIds
      <3>1. PICK m \in Move :
              m = [no |-> movesBegun + 1, from |-> w, tab |-> t, text |-> text[w][t],
                   to |-> to, sent |-> FALSE]
        <4>1. movesBegun + 1 \in Nat
          OBVIOUS
        <4>. QED  BY <2>1, <4>1, MovesTyped
      <3>2. moves' = moves \union {m}
        BY <1>6, <3>1 DEF BeginMove
      <3>3. movesBegun' \in Nat /\ known' \subseteq TabIds
        BY <1>6 DEF BeginMove
      <3>. QED  BY <3>1, <3>2, <3>3
    <2>. QED  BY <1>6, <2>2 DEF BeginMove
  <1>7. ASSUME NEW m \in moves, Send(m) PROVE TransferTypeOK'
    <2>1. m \in Move /\ m.to \in Labels /\ m.tab \in TabIds /\ m.text \in Nat
      BY <1>7 DEF Send, Move
    <2>2. events' \in [Labels -> Seq(Event)]
      <3>1. [kind |-> "transfer", tab |-> m.tab, text |-> m.text] \in Event
        BY <2>1 DEF Event
      <3>. QED  BY <1>7, <2>1, <3>1, EmitTypes DEF Send
    <2>3. moves' \subseteq Move /\ known' \subseteq TabIds
      <3>1. PICK n \in Move : n = [m EXCEPT !.sent = TRUE]
        BY <2>1 DEF Move
      <3>2. moves' = (moves \ {m}) \union {n} \/ moves' = moves \ {m}
        BY <1>7, <3>1 DEF Send
      <3>. QED  BY <1>7, <2>1, <3>1, <3>2 DEF Send
    <2>. QED  BY <1>7, <2>2, <2>3 DEF Send
  <1>8. ASSUME NEW m \in moves, DetachFails(m) PROVE TransferTypeOK'
    BY <1>8 DEF DetachFails
  <1>9. ASSUME NEW m \in moves, Finish(m) PROVE TransferTypeOK'
    BY <1>9 DEF Finish, Drops, Move, Labels
  <1>10. ASSUME NEW m \in moves, NEW d \in Docs, Detach(m, d) PROVE TransferTypeOK'
    <2>1. d \in Labels /\ m \in Move /\ Payload(m) \in Payloads
      BY DEF Labels, Payload, Payloads, Move
    <2>2. moves' \subseteq Move
      BY <1>10, <2>1 DEF Detach, Move
    <2>. QED  BY <1>10, <2>1, <2>2 DEF Detach
  <1>11. ASSUME NEW u \in toasts, Undo(u) PROVE TransferTypeOK'
    <2>1. u.tab \in TabIds
      BY DEF Move
    <2>2. events' \in [Labels -> Seq(Event)]
      <3>1. CASE u.to \in Labels
        <4>1. [kind |-> "remove", tab |-> u.tab, text |-> 0] \in Event
          BY <2>1 DEF Event
        <4>. QED  BY <1>11, <3>1, <4>1, EmitTypes DEF Undo
      <3>2. CASE u.to \notin Labels
        BY <1>11, <3>2 DEF Undo, Emit
      <3>. QED  BY <3>1, <3>2
    <2>3. undoing' \subseteq Move /\ toasts' \subseteq Move /\ known' \subseteq TabIds
      BY <1>11, <2>1 DEF Undo
    <2>. QED  BY <1>11, <2>2, <2>3 DEF Undo
  <1>12. ASSUME NEW u \in undoing, Restore(u) PROVE TransferTypeOK'
    BY <1>12 DEF Restore, Shows, Move
  <1>. QED
    BY <1>1, <1>2, <1>3, <1>4, <1>5, <1>6, <1>7, <1>8, <1>9, <1>10, <1>11, <1>12 DEF TransferNext

-----------------------------------------------------------------------------
(* Windows: what is theirs at each stage of their life. *)

\* Nothing is in a window that is not there or has yet to claim its tab, only a
\* window that listens has events, only one that loads a tab in the registry.
WindowStages == \A w \in Labels :
    /\ stage[w] # "ready" => events[w] = <<>>
    /\ stage[w] # "loading" => registry[w] = Nothing
    /\ stage[w] \in {"none", "gone", "loading"} =>
          applying[w] = {} /\ \A t \in TabIds : text[w][t] = Nothing

\* A move, its toast and its undo are their source's; a sent one has its target.
Owned(m) == stage[m.from] = "ready" /\ m.from # m.to
MoveStages ==
    /\ \A m \in moves : Owned(m) /\ (m.sent => m.to \in Labels)
    /\ \A m \in toasts \union undoing : Owned(m) /\ m.to \in Labels

StageInv == WindowStages /\ MoveStages

LEMMA OneWindowChanges ==
    ASSUME TransferTypeOK, WindowStages, NEW w \in Labels, stage[w] \in {"claimed", "ready"},
           stage' = stage, registry' = registry, stage[w] = "ready" \/ events'[w] = events[w],
           \A v \in Labels : v # w => /\ events'[v] = events[v] /\ applying'[v] = applying[v]
                                     /\ text'[v] = text[v]
    PROVE  WindowStages'
  <1>1. SUFFICES ASSUME NEW v \in Labels
                 PROVE  /\ stage[v] # "ready" => events'[v] = <<>>
                        /\ stage[v] # "loading" => registry[v] = Nothing
                        /\ stage[v] \in {"none", "gone", "loading"} =>
                              applying'[v] = {} /\ \A t \in TabIds : text'[v][t] = Nothing
    BY DEF WindowStages
  <1>2. CASE v = w
    BY <1>2 DEF WindowStages
  <1>3. CASE v # w
    BY <1>3 DEF WindowStages
  <1>. QED  BY <1>2, <1>3

LEMMA WindowStageStep ==
    ASSUME TransferTypeOK, StageInv, TransferNext PROVE WindowStages'
  <1>. USE DEF TransferTypeOK, StageInv, WindowStages, windowVars, moveVars, historyVars
  <1>1. ASSUME NEW w \in Labels, EmptyCloses(w) \/ UserCloses(w) PROVE WindowStages'
    <2>1. Ends(w)
      BY <1>1 DEF EmptyCloses, UserCloses
    <2>. QED  BY <2>1 DEF Ends
  <1>2. ASSUME NEW w \in Labels, Claim(w) PROVE WindowStages'
    BY <1>2 DEF Claim
  <1>3. ASSUME NEW w \in Labels, Listen(w) PROVE WindowStages'
    BY <1>3 DEF Listen
  <1>4. ASSUME NEW w \in Labels, HearEvent(w) PROVE WindowStages'
    <2>1. stage[w] = "ready"
      BY <1>4 DEF HearEvent
    <2>2. \A v \in Labels : v # w => /\ events'[v] = events[v] /\ applying'[v] = applying[v]
                                     /\ text'[v] = text[v]
      BY <1>4 DEF HearEvent, Drops
    <2>3. stage' = stage /\ registry' = registry
      BY <1>4 DEF HearEvent
    <2>. QED  BY <2>1, <2>2, <2>3, OneWindowChanges
  <1>5. ASSUME NEW w \in Labels, NEW p \in applying[w], Apply(w, p) PROVE WindowStages'
    <2>1. stage[w] \in {"claimed", "ready"}
      OBVIOUS
    <2>2. \A v \in Labels : v # w => applying'[v] = applying[v] /\ text'[v] = text[v]
      BY <1>5 DEF Apply, Shows
    <2>3. stage' = stage /\ registry' = registry /\ events' = events
      BY <1>5 DEF Apply
    <2>. QED  BY <2>1, <2>2, <2>3, OneWindowChanges
  <1>6. ASSUME NEW w \in Labels, NEW t \in TabIds, EditTab(w, t) PROVE WindowStages'
    BY <1>6 DEF EditTab
  <1>7. ASSUME NEW w \in Labels, NEW t \in TabIds, NEW to, BeginMove(w, t, to)
        PROVE  WindowStages'
    BY <1>7 DEF BeginMove
  <1>8. ASSUME NEW m \in moves, Send(m) PROVE WindowStages'
    <2>1. \A w \in Labels : stage[w] # "ready" => events'[w] = events[w]
      BY <1>8 DEF Send, Emit
    <2>2. UNCHANGED <<stage, text, registry, applying>>
      BY <1>8 DEF Send
    <2>. QED  BY <2>1, <2>2
  <1>9. ASSUME NEW m \in moves, DetachFails(m) PROVE WindowStages'
    BY <1>9 DEF DetachFails
  <1>10. ASSUME NEW m \in moves, Finish(m) PROVE WindowStages'
    <2>1. m.from \in Labels /\ stage[m.from] = "ready"
      BY DEF Move, MoveStages, Owned
    <2>2. /\ \A v \in Labels : v # m.from => text'[v] = text[v]
          /\ stage' = stage /\ registry' = registry /\ events' = events /\ applying' = applying
      BY <1>10 DEF Finish, Drops
    <2>. QED  BY <2>1, <2>2, OneWindowChanges
  <1>11. ASSUME NEW m \in moves, NEW d \in Docs, Detach(m, d) PROVE WindowStages'
    BY <1>11 DEF Detach, Labels
  <1>12. ASSUME NEW u \in toasts, Undo(u) PROVE WindowStages'
    <2>1. \A w \in Labels : stage[w] # "ready" => events'[w] = events[w]
      BY <1>12 DEF Undo, Emit
    <2>2. UNCHANGED <<stage, text, registry, applying>>
      BY <1>12 DEF Undo
    <2>. QED  BY <2>1, <2>2
  <1>13. ASSUME NEW u \in undoing, Restore(u) PROVE WindowStages'
    <2>1. u.from \in Labels /\ stage[u.from] = "ready"
      BY DEF Move, MoveStages, Owned
    <2>2. /\ \A v \in Labels : v # u.from => text'[v] = text[v]
          /\ stage' = stage /\ registry' = registry /\ events' = events /\ applying' = applying
      BY <1>13 DEF Restore, Shows
    <2>. QED  BY <2>1, <2>2, OneWindowChanges
  <1>. QED
    BY <1>1, <1>2, <1>3, <1>4, <1>5, <1>6, <1>7, <1>8, <1>9, <1>10, <1>11, <1>12, <1>13
    DEF TransferNext

LEMMA MoveStageStep ==
    ASSUME TransferTypeOK, StageInv, TransferNext PROVE MoveStages'
  <1>. USE DEF TransferTypeOK, StageInv, MoveStages, windowVars, moveVars, historyVars
  <1>0. \A m \in moves \union toasts \union undoing : m \in Move /\ m.from \in Labels
    BY DEF Move
  <1>1. ASSUME NEW w \in Labels, EmptyCloses(w) \/ UserCloses(w) PROVE MoveStages'
    <2>1. Ends(w)
      BY <1>1 DEF EmptyCloses, UserCloses
    <2>. QED  BY <1>0, <2>1 DEF Ends, Owned
  <1>2. ASSUME NEW w \in Labels, Claim(w) \/ Listen(w) PROVE MoveStages'
    <2>1. /\ UNCHANGED <<moves, toasts, undoing>>
          /\ \A v \in Labels : stage[v] = "ready" => stage'[v] = "ready"
      BY <1>2 DEF Claim, Listen
    <2>. QED  BY <1>0, <2>1 DEF Owned
  <1>3. ASSUME UNCHANGED <<stage, moves, toasts, undoing>> PROVE MoveStages'
    BY <1>3 DEF Owned
  <1>4. ASSUME NEW w \in Labels,
               \/ HearEvent(w) \/ \E p \in applying[w] : Apply(w, p)
               \/ \E t \in TabIds : EditTab(w, t)
        PROVE  MoveStages'
    BY <1>3, <1>4 DEF HearEvent, Apply, EditTab
  <1>5. ASSUME NEW w \in Labels, NEW t \in TabIds, NEW to \in Targets(w), BeginMove(w, t, to)
        PROVE  MoveStages'
    <2>1. PICK m : m = [no |-> movesBegun + 1, from |-> w, tab |-> t, text |-> text[w][t],
                        to |-> to, sent |-> FALSE]
      OBVIOUS
    <2>2. w # to
      BY <1>5, NewWindowIsNew DEF Targets, Labels
    <2>3. stage[m.from] = "ready" /\ m.from # m.to /\ ~m.sent
      BY <1>5, <2>1, <2>2 DEF BeginMove
    <2>4. moves' = moves \union {m} /\ UNCHANGED <<stage, toasts, undoing>>
      BY <1>5, <2>1 DEF BeginMove
    <2>. QED  BY <2>3, <2>4 DEF Owned
  <1>6. ASSUME NEW m \in moves, Send(m) PROVE MoveStages'
    <2>1. PICK n : n = [m EXCEPT !.sent = TRUE]
      OBVIOUS
    <2>2. n.from = m.from /\ n.to = m.to /\ m.to \in Labels
      BY <1>0, <1>6, <2>1 DEF Send, Move
    <2>3. moves' \subseteq moves \union {n} /\ UNCHANGED <<stage, toasts, undoing>>
      BY <1>6, <2>1 DEF Send
    <2>. QED  BY <2>2, <2>3 DEF Owned
  <1>7. ASSUME NEW m \in moves, DetachFails(m) PROVE MoveStages'
    BY <1>7 DEF DetachFails, Owned
  <1>8. ASSUME NEW m \in moves, Finish(m) PROVE MoveStages'
    <2>1. /\ m.sent /\ moves' \subseteq moves /\ toasts' = toasts \union {m}
          /\ UNCHANGED <<stage, undoing>>
      BY <1>8 DEF Finish
    <2>. QED  BY <2>1 DEF Owned
  <1>9. ASSUME NEW m \in moves, NEW d \in Docs, Detach(m, d) PROVE MoveStages'
    <2>1. PICK n : n = [m EXCEPT !.sent = TRUE, !.to = d]
      OBVIOUS
    <2>2. n.from = m.from /\ n.to = d /\ d \in Labels
      BY <1>0, <2>1 DEF Move, Labels
    <2>3. /\ stage[d] = "none" /\ stage' = [stage EXCEPT ![d] = "loading"]
          /\ moves' = (moves \ {m}) \union {n} /\ UNCHANGED <<toasts, undoing>>
      BY <1>9, <2>1 DEF Detach
    <2>4. \A v \in Labels : stage[v] = "ready" => stage'[v] = "ready" /\ v # d
      BY <2>2, <2>3
    <2>. QED  BY <1>0, <2>2, <2>3, <2>4 DEF Owned
  <1>10. ASSUME NEW u \in toasts, Undo(u) PROVE MoveStages'
    BY <1>10 DEF Undo, Owned
  <1>11. ASSUME NEW u \in undoing, Restore(u) PROVE MoveStages'
    BY <1>11 DEF Restore, Owned
  <1>. QED
    BY <1>1, <1>2, <1>4, <1>5, <1>6, <1>7, <1>8, <1>9, <1>10, <1>11 DEF TransferNext
-----------------------------------------------------------------------------
(* Where a tab is. *)

InReg(w, t) == registry[w] # Nothing /\ registry[w].tab = t
InApp(w, t) == \E p \in applying[w] : p.tab = t
Piece(t, x) == [tab |-> t, text |-> x]

NoRemoval(w, t) == Never(events[w], "remove", t)
OneRemoval(w, t) == Sole(events[w], Removal(t))

\* Nothing of the tab is on its way to the window.
Away(w, t) == ~InReg(w, t) /\ ~InApp(w, t) /\ Never(events[w], "transfer", t)

Absent(w, t) == text[w][t] = Nothing /\ Away(w, t)
At(w, t, x) == text[w][t] = x /\ Away(w, t)

\* One text of the tab is on its way to the window, which has none.
Coming(w, t, x) ==
    /\ text[w][t] = Nothing
    /\ \/ registry[w] = Piece(t, x) /\ ~InApp(w, t) /\ Never(events[w], "transfer", t)
       \/ /\ ~InReg(w, t) /\ Never(events[w], "transfer", t)
          /\ Piece(t, x) \in applying[w] /\ \A p \in applying[w] : p.tab = t => p = Piece(t, x)
       \/ ~InReg(w, t) /\ ~InApp(w, t) /\ Sole(events[w], Going(t, x))

NotMoved(t) == \A m \in moves : m.tab # t
NotUndone(t) == (\A u \in undoing : u.tab # t) /\ \A w \in Labels : NoRemoval(w, t)

\* The tab is in one window, or on its way to it; a move of it is only begun.
Rests(t, w) ==
    /\ At(w, t, latest[t]) \/ (Coming(w, t, latest[t]) /\ NotMoved(t))
    /\ \A v \in Labels \ {w} : Absent(v, t)
    /\ \A m, n \in moves : m.tab = t /\ n.tab = t => ~m.sent /\ m.from = w /\ m = n

\* The move's text is at its target or on its way there, the latest at its source.
Moves(t, m) ==
    /\ m.tab = t /\ m.sent /\ \A n \in moves : n.tab = t => n = m
    /\ At(m.from, t, latest[t])
    /\ At(m.to, t, m.text) \/ Coming(m.to, t, m.text)
    /\ \A v \in Labels \ {m.from, m.to} : Absent(v, t)

\* Of an undo's two steps, the removal at the target and the tab's return to
\* its source, one at least is still to come.
Undoes(t, from, to) ==
    /\ from # to
    /\ \A v \in Labels \ {to} : NoRemoval(v, t)
    /\ \A v \in Labels \ {from, to} : Absent(v, t)
    /\ (At(to, t, latest[t]) /\ OneRemoval(to, t)) \/ (Absent(to, t) /\ NoRemoval(to, t))
    /\ \/ At(from, t, latest[t]) /\ (\A u \in undoing : u.tab # t) /\ At(to, t, latest[t])
       \/ /\ Absent(from, t)
          /\ \E u \in undoing : /\ u.tab = t /\ u.from = from /\ u.text = latest[t]
                                /\ \A v \in undoing : v.tab = t => v = u

InPlace(t) ==
    \/ NotUndone(t) /\ \E w \in Labels : Rests(t, w)
    \/ NotUndone(t) /\ \E m \in moves : Moves(t, m)
    \/ NotMoved(t) /\ \E from, to \in Labels : Undoes(t, from, to)

TransferInv == TransferTypeOK /\ StageInv /\ \A t \in TabIds \ known : InPlace(t)

LEMMA NotUndoneMeans ==
    ASSUME TransferTypeOK, NEW t \in TabIds
    PROVE  NotUndone(t) <=> ~BroughtBack(t)
  <1>1. \A w \in Labels : events[w] \in Seq(Event)
    BY DEF TransferTypeOK
  <1>2. \A w \in Labels : DOMAIN events[w] = 1..Len(events[w])
    BY <1>1
  <1>. QED  BY <1>2 DEF NotUndone, BroughtBack, NoRemoval, Never, Alike

-----------------------------------------------------------------------------
(* What a step leaves as it was. *)

\* The step does nothing with the tab at the window.
Untouched(w, t) ==
    /\ text'[w][t] = text[w][t]
    /\ registry'[w] = registry[w] \/ (~InReg(w, t) /\ ~InReg(w, t)')
    /\ \A p : p.tab = t => (p \in applying'[w] <=> p \in applying[w])
    /\ \A k : Never(events[w], k, t) => Never(events'[w], k, t)
    /\ \A f : f.tab = t /\ Sole(events[w], f) => Sole(events'[w], f)

\* The tab is at the window as it was, or has come.
Kept(w, t) ==
    /\ Absent(w, t) => Absent(w, t)'
    /\ \A x \in Nat : At(w, t, x) => At(w, t, x)'
    /\ \A x \in Nat : Coming(w, t, x) => Coming(w, t, x)' \/ At(w, t, x)'
    /\ NoRemoval(w, t) => NoRemoval(w, t)'
    /\ OneRemoval(w, t) => OneRemoval(w, t)'

\* The step is about other tabs, or only brings this one on its way.
Calm(t) ==
    /\ \A w \in Labels : Kept(w, t)
    /\ \A m : m.tab = t => (m \in moves' <=> m \in moves)
    /\ \A u : u.tab = t => (u \in undoing' <=> u \in undoing)
    /\ latest'[t] = latest[t]

LEMMA UntouchedKept ==
    ASSUME NEW w \in Labels, NEW t \in TabIds, Untouched(w, t)
    PROVE  Kept(w, t)
  <1>1. /\ text'[w][t] = text[w][t] /\ (InReg(w, t)' <=> InReg(w, t))
        /\ \A x \in Nat : registry[w] = Piece(t, x) => registry'[w] = Piece(t, x)
    <2>1. ASSUME NEW x \in Nat, registry[w] = Piece(t, x) PROVE InReg(w, t)
      BY <2>1, NothingIsNew DEF InReg, Piece
    <2>. QED  BY <2>1 DEF Untouched, InReg
  <1>2. /\ InApp(w, t)' <=> InApp(w, t)
        /\ \A x : (Piece(t, x) \in applying'[w]) <=> (Piece(t, x) \in applying[w])
        /\ \A p \in applying'[w] : p.tab = t => p \in applying[w]
    BY DEF Untouched, InApp, Piece
  <1>3. /\ Never(events[w], "transfer", t) => Never(events'[w], "transfer", t)
        /\ \A x : Sole(events[w], Going(t, x)) => Sole(events'[w], Going(t, x))
        /\ NoRemoval(w, t) => NoRemoval(w, t)'
        /\ OneRemoval(w, t) => OneRemoval(w, t)'
    BY DEF Untouched, NoRemoval, OneRemoval, Going, Removal
  <1>4. Away(w, t) => Away(w, t)'
    BY <1>1, <1>2, <1>3 DEF Away
  <1>5. ASSUME NEW x \in Nat, Coming(w, t, x) PROVE Coming(w, t, x)'
    BY <1>1, <1>2, <1>3, <1>5 DEF Coming
  <1>. QED  BY <1>1, <1>3, <1>4, <1>5 DEF Kept, Absent, At

LEMMA CalmInPlace ==
    ASSUME TransferTypeOK, StageInv, NEW t \in TabIds, InPlace(t), Calm(t)
    PROVE  InPlace(t)'
  <1>1. /\ latest[t] \in Nat
        /\ \A m \in moves : m.text \in Nat /\ m.from \in Labels /\ (m.sent => m.to \in Labels)
    BY DEF TransferTypeOK, Move, StageInv, MoveStages
  <1>2. PICK x \in Nat : x = latest[t] /\ x = latest'[t]
    BY <1>1 DEF Calm
  <1>3. NotUndone(t) => NotUndone(t)'
    BY DEF NotUndone, Calm, Kept
  <1>4. NotMoved(t) => NotMoved(t)'
    BY DEF NotMoved, Calm
  <1>5. ASSUME NotUndone(t), NEW w \in Labels, Rests(t, w) PROVE Rests(t, w)'
    <2>1. At(w, t, x)' \/ (Coming(w, t, x)' /\ NotMoved(t)')
      BY <1>2, <1>4, <1>5 DEF Rests, Calm, Kept
    <2>2. \A v \in Labels \ {w} : Absent(v, t)'
      BY <1>5 DEF Rests, Calm, Kept
    <2>3. \A m, n \in moves' : m.tab = t /\ n.tab = t => ~m.sent /\ m.from = w /\ m = n
      BY <1>5 DEF Rests, Calm
    <2>. QED  BY <1>2, <2>1, <2>2, <2>3 DEF Rests
  <1>6. ASSUME NotUndone(t), NEW m \in moves, Moves(t, m) PROVE m \in moves' /\ Moves(t, m)'
    <2>1. m.tab = t /\ m.sent /\ m \in moves' /\ \A n \in moves' : n.tab = t => n = m
      BY <1>6 DEF Moves, Calm
    <2>. QED  BY <1>1, <1>2, <1>6, <2>1 DEF Moves, Calm, Kept
  <1>7. ASSUME NotMoved(t), NEW from \in Labels, NEW to \in Labels, Undoes(t, from, to)
        PROVE  Undoes(t, from, to)'
    <2>1. /\ from # to
          /\ \A v \in Labels \ {to} : NoRemoval(v, t)'
          /\ \A v \in Labels \ {from, to} : Absent(v, t)'
      BY <1>7 DEF Undoes, Calm, Kept
    <2>2. (At(to, t, x)' /\ OneRemoval(to, t)') \/ (Absent(to, t)' /\ NoRemoval(to, t)')
      BY <1>2, <1>7 DEF Undoes, Calm, Kept
    <2>3. \/ At(from, t, x)' /\ (\A u \in undoing' : u.tab # t) /\ At(to, t, x)'
          \/ /\ Absent(from, t)'
             /\ \E u \in undoing' : /\ u.tab = t /\ u.from = from /\ u.text = x
                                    /\ \A v \in undoing' : v.tab = t => v = u
      BY <1>2, <1>7 DEF Undoes, Calm, Kept
    <2>. QED  BY <1>2, <2>1, <2>2, <2>3 DEF Undoes
  <1>. QED  BY <1>3, <1>4, <1>5, <1>6, <1>7 DEF InPlace

-----------------------------------------------------------------------------
(* Steps that end windows, and the steps of a target. *)

LEMMA EndsInPlace ==
    ASSUME TransferInv, NEW w \in Labels, Ends(w), latest' = latest,
           NEW t \in TabIds \ known, t \notin Carried(w)
    PROVE  InPlace(t)'
  <1>. USE DEF TransferInv
  <1>1. /\ text[w][t] = Nothing /\ ~InReg(w, t) /\ ~InApp(w, t)
        /\ \A u \in undoing : u.tab = t => u.from # w
    BY DEF Carried, Shown, InReg, InApp
  <1>2. \A i \in 1..Len(events[w]) : events[w][i].tab # t
    <2>1. events[w] \in Seq(Event)
      BY DEF TransferTypeOK
    <2>2. DOMAIN events[w] = 1..Len(events[w])
      BY <2>1
    <2>. QED  BY <2>2 DEF Carried
  <1>3. /\ events'[w] = <<>> /\ text'[w][t] = Nothing /\ registry'[w] = Nothing
        /\ applying'[w] = {}
        /\ \A v \in Labels : v # w => /\ events'[v] = events[v] /\ text'[v] = text[v]
                                     /\ registry'[v] = registry[v] /\ applying'[v] = applying[v]
    BY DEF Ends, TransferTypeOK
  <1>4. Untouched(w, t)
    <2>1. /\ \A k : Never(events'[w], k, t)
          /\ \A f : f.tab = t => ~Sole(events[w], f)
      BY <1>2, <1>3, EmptyEvents DEF Sole
    <2>2. ~InReg(w, t)'
      BY <1>3 DEF InReg
    <2>. QED  BY <1>1, <1>3, <2>1, <2>2 DEF Untouched, InApp
  <1>5. \A v \in Labels : v # w => Untouched(v, t)
    BY <1>3 DEF Untouched
  <1>6. \A m \in moves : m.tab = t => m.from # w
    <2>1. latest[t] # Nothing
      BY NothingIsNew DEF TransferTypeOK
    <2>2. ~At(w, t, latest[t]) /\ InPlace(t)
      BY <1>1, <2>1 DEF At
    <2>. QED  BY <2>2 DEF InPlace, Rests, Moves, NotMoved
  <1>7. Calm(t)
    BY <1>1, <1>4, <1>5, <1>6, UntouchedKept DEF Calm, Ends
  <1>. QED  BY <1>7, CalmInPlace

LEMMA ClaimInPlace ==
    ASSUME TransferInv, NEW w \in Labels, Claim(w), NEW t \in TabIds \ known
    PROVE  InPlace(t)'
  <1>. USE DEF TransferInv
  <1>1. registry[w] \in Payloads /\ applying[w] = {} /\ stage[w] = "loading"
    BY DEF Claim, TransferTypeOK, StageInv, WindowStages
  <1>2. /\ registry'[w] = Nothing /\ applying'[w] = {registry[w]}
        /\ events' = events /\ text' = text
        /\ \A v \in Labels : v # w => registry'[v] = registry[v] /\ applying'[v] = applying[v]
    BY DEF Claim, TransferTypeOK
  <1>3. \A v \in Labels : v # w => Untouched(v, t)
    BY <1>2 DEF Untouched
  <1>4. Kept(w, t)
    <2>1. CASE registry[w].tab # t
      BY <1>1, <1>2, <2>1, UntouchedKept DEF Untouched, InReg
    <2>2. CASE registry[w].tab = t
      <3>1. InReg(w, t) /\ ~InReg(w, t)' /\ ~InApp(w, t)
        BY <1>1, <1>2, <2>2, NothingIsNew DEF InReg, InApp, Payloads
      <3>2. ASSUME NEW x \in Nat, Coming(w, t, x) PROVE Coming(w, t, x)'
        BY <1>1, <1>2, <3>1, <3>2 DEF Coming
      <3>. QED
        BY <1>2, <3>1, <3>2 DEF Kept, Absent, At, Away, NoRemoval, OneRemoval
    <2>. QED  BY <2>1, <2>2
  <1>5. Calm(t)
    BY <1>3, <1>4, UntouchedKept DEF Calm, Claim, moveVars, historyVars
  <1>. QED  BY <1>5, CalmInPlace

LEMMA ApplyInPlace ==
    ASSUME TransferInv, NEW w \in Labels, NEW p \in applying[w], Apply(w, p),
           NEW t \in TabIds \ known
    PROVE  InPlace(t)'
  <1>. USE DEF TransferInv
  <1>1. /\ applying'[w] = applying[w] \ {p}
        /\ text'[w] = [text[w] EXCEPT ![p.tab] = p.text]
        /\ events' = events /\ registry' = registry
        /\ \A v \in Labels : v # w => text'[v] = text[v] /\ applying'[v] = applying[v]
    BY DEF Apply, Shows, TransferTypeOK
  <1>2. \A v \in Labels : v # w => Untouched(v, t)
    BY <1>1 DEF Untouched
  <1>3. Kept(w, t)
    <2>0. text[w] \in [TabIds -> Nat \union {Nothing}]
      BY DEF TransferTypeOK
    <2>1. CASE p.tab # t
      <3>1. text'[w][t] = text[w][t]
        BY <1>1, <2>0, <2>1
      <3>. QED  BY <1>1, <2>1, <3>1, UntouchedKept DEF Untouched
    <2>2. CASE p.tab = t
      <3>1. InApp(w, t) /\ (InReg(w, t)' <=> InReg(w, t)) /\ text'[w][t] = p.text
        BY <1>1, <2>0, <2>2 DEF InApp, InReg
      <3>2. ASSUME NEW x \in Nat, Coming(w, t, x) PROVE At(w, t, x)'
        <4>1. /\ ~InReg(w, t) /\ Never(events[w], "transfer", t)
              /\ \A q \in applying[w] : q.tab = t => q = Piece(t, x)
          BY <3>1, <3>2 DEF Coming
        <4>2. p = Piece(t, x) /\ p.text = x
          BY <2>2, <4>1 DEF Piece
        <4>3. ~InApp(w, t)'
          BY <1>1, <4>1, <4>2 DEF InApp
        <4>. QED  BY <1>1, <3>1, <4>1, <4>2, <4>3 DEF At, Away
      <3>. QED
        BY <1>1, <3>1, <3>2 DEF Kept, Absent, At, Away, NoRemoval, OneRemoval
    <2>. QED  BY <2>1, <2>2
  <1>4. Calm(t)
    BY <1>2, <1>3, UntouchedKept DEF Calm, Apply, moveVars
  <1>. QED  BY <1>4, CalmInPlace

LEMMA SoleIsThere ==
    ASSUME NEW s, NEW e, Sole(s, e) PROVE ~Never(s, e.kind, e.tab)
  BY DEF Sole, Never, Alike

LEMMA UndoneIsUndone ==
    ASSUME TransferTypeOK, NEW t \in TabIds, NEW from \in Labels, NEW to \in Labels,
           Undoes(t, from, to)
    PROVE  ~NotUndone(t)
  <1>1. latest[t] # Nothing
    BY NothingIsNew DEF TransferTypeOK
  <1>2. At(to, t, latest[t]) => OneRemoval(to, t)
    BY <1>1 DEF Undoes, At, Absent
  <1>3. OneRemoval(to, t) => ~NoRemoval(to, t)
    BY SoleIsThere DEF OneRemoval, NoRemoval, Removal
  <1>. QED  BY <1>2, <1>3 DEF Undoes, NotUndone

LEMMA HearInPlace ==
    ASSUME TransferInv, NEW w \in Labels, HearEvent(w), NEW t \in TabIds \ known
    PROVE  InPlace(t)'
  <1>. USE DEF TransferInv
  <1>1. events[w] \in Seq(Event) /\ events[w] # <<>>
    BY DEF HearEvent, TransferTypeOK
  <1>2. PICK h \in Event, r \in Seq(Event) :
          /\ h = Head(events[w]) /\ r = Tail(events[w])
          /\ \A k, s : Never(events[w], k, s) => Never(r, k, s) /\ ~Alike(h, k, s)
          /\ \A f : Sole(events[w], f) /\ ~Alike(h, f.kind, f.tab) => Sole(r, f)
          /\ \A f : Sole(events[w], f) /\ Alike(h, f.kind, f.tab)
                => h = f /\ Never(r, f.kind, f.tab)
    BY <1>1, FewerEvents
  <1>3. /\ events'[w] = r /\ registry' = registry
        /\ \A v \in Labels : v # w => /\ events'[v] = events[v] /\ text'[v] = text[v]
                                     /\ applying'[v] = applying[v]
    BY <1>2 DEF HearEvent, Drops, TransferTypeOK
  <1>4. \A v \in Labels : v # w => Kept(v, t)
    BY <1>3, UntouchedKept DEF Untouched
  <1>5. /\ moves' = moves /\ undoing' = undoing /\ latest' = latest
        /\ h.tab \in TabIds /\ h.kind \in {"transfer", "remove"}
    BY DEF HearEvent, moveVars, historyVars, Event
  <1>6. CASE h.tab # t
    <2>1. text'[w][t] = text[w][t]
      <3>1. text'[w] = text[w] \/ text'[w] = [text[w] EXCEPT ![h.tab] = Nothing]
        BY <1>2 DEF HearEvent, Drops, TransferTypeOK
      <3>. QED  BY <1>6, <3>1 DEF TransferTypeOK
    <2>2. \A p : p.tab = t => (p \in applying'[w] <=> p \in applying[w])
      <3>1. applying'[w] = applying[w] \/ applying'[w] = applying[w] \union {Payload(h)}
        BY <1>2 DEF HearEvent, TransferTypeOK
      <3>2. Payload(h).tab = h.tab
        BY DEF Payload
      <3>. QED  BY <1>6, <3>1, <3>2
    <2>3. /\ \A k : Never(events[w], k, t) => Never(r, k, t)
          /\ \A f : f.tab = t /\ Sole(events[w], f) => Sole(r, f)
      BY <1>2, <1>6 DEF Alike
    <2>4. Kept(w, t)
      BY <1>3, <2>1, <2>2, <2>3, UntouchedKept DEF Untouched
    <2>. QED  BY <1>4, <1>5, <2>4, CalmInPlace DEF Calm
  <1>7. CASE h.tab = t /\ h.kind = "transfer"
    <2>1. ~Never(events[w], "transfer", t)
      BY <1>2, <1>7 DEF Alike
    <2>2. text' = text /\ applying'[w] = applying[w] \union {Payload(h)}
      BY <1>2, <1>7 DEF HearEvent, TransferTypeOK
    <2>3. ASSUME NEW x \in Nat, Coming(w, t, x) PROVE Coming(w, t, x)'
      <3>1. ~InReg(w, t) /\ ~InApp(w, t) /\ Sole(events[w], Going(t, x))
        BY <2>1, <2>3 DEF Coming
      <3>2. h = Going(t, x) /\ Never(r, "transfer", t)
        BY <1>2, <1>7, <3>1 DEF Alike, Going
      <3>3. Payload(h) = Piece(t, x)
        BY <3>2 DEF Payload, Piece, Going
      <3>4. ~InReg(w, t)'
        BY <1>3, <3>1 DEF InReg
      <3>5. Piece(t, x) \in applying'[w] /\ \A p \in applying'[w] : p.tab = t => p = Piece(t, x)
        BY <2>2, <3>1, <3>3 DEF InApp
      <3>. QED  BY <1>3, <2>2, <2>3, <3>2, <3>4, <3>5 DEF Coming
    <2>4. /\ NoRemoval(w, t) => NoRemoval(w, t)'
          /\ OneRemoval(w, t) => OneRemoval(w, t)'
      BY <1>2, <1>3, <1>7 DEF NoRemoval, OneRemoval, Removal, Alike
    <2>5. Kept(w, t)
      BY <2>1, <2>3, <2>4 DEF Kept, Absent, At, Away
    <2>. QED  BY <1>4, <1>5, <2>5, CalmInPlace DEF Calm
  <1>8. CASE h.tab = t /\ h.kind = "remove"
    <2>1. ~NoRemoval(w, t)
      BY <1>2, <1>8 DEF NoRemoval, Alike
    <2>2. PICK from \in Labels, to \in Labels : NotMoved(t) /\ Undoes(t, from, to)
      BY <2>1 DEF InPlace, NotUndone
    <2>3. w = to /\ At(w, t, latest[t]) /\ OneRemoval(w, t) /\ from # w
      BY <2>1, <2>2 DEF Undoes
    <2>4. text'[w][t] = Nothing /\ applying' = applying
      BY <1>2, <1>8 DEF HearEvent, Drops, TransferTypeOK
    <2>5. Absent(w, t)'
      BY <1>2, <1>3, <2>3, <2>4 DEF At, Absent, Away, InReg, InApp
    <2>6. NoRemoval(w, t)'
      BY <1>2, <1>3, <1>8, <2>3 DEF OneRemoval, NoRemoval, Removal, Alike
    <2>7. NotMoved(t)' /\ latest[t] \in Nat
      BY <1>5, <2>2 DEF NotMoved, TransferTypeOK
    <2>8. /\ \A v \in Labels \ {to} : NoRemoval(v, t)'
          /\ \A v \in Labels \ {from, to} : Absent(v, t)'
      BY <1>4, <2>2, <2>3 DEF Undoes, Kept
    <2>9. CASE At(from, t, latest[t]) /\ \A u \in undoing : u.tab # t
      <3>1. At(from, t, latest[t])'
        BY <1>4, <1>5, <2>3, <2>7, <2>9 DEF Kept
      <3>2. NotUndone(t)'
        BY <1>5, <2>3, <2>6, <2>8, <2>9 DEF NotUndone
      <3>3. Rests(t, from)'
        BY <2>3, <2>5, <2>7, <2>8, <3>1 DEF Rests, NotMoved
      <3>. QED  BY <3>2, <3>3 DEF InPlace
    <2>10. CASE /\ Absent(from, t)
                /\ \E u \in undoing : /\ u.tab = t /\ u.from = from /\ u.text = latest[t]
                                      /\ \A v \in undoing : v.tab = t => v = u
      <3>1. Absent(from, t)'
        BY <1>4, <2>3, <2>10 DEF Kept
      <3>2. Undoes(t, from, to)'
        BY <1>5, <2>3, <2>5, <2>6, <2>8, <2>10, <3>1 DEF Undoes
      <3>. QED  BY <2>7, <3>2 DEF InPlace
    <2>. QED  BY <2>2, <2>9, <2>10 DEF Undoes
  <1>. QED  BY <1>5, <1>6, <1>7, <1>8

-----------------------------------------------------------------------------
(* The steps of a source. *)

LEMMA WindowsKept ==
    ASSUME UNCHANGED windowVars, NEW t \in TabIds
    PROVE  \A w \in Labels : Kept(w, t)
  <1>1. /\ text' = text /\ registry' = registry /\ applying' = applying /\ events' = events
    BY DEF windowVars
  <1>. QED  BY <1>1, UntouchedKept DEF Untouched

\* What rests and shows in a window, rests there.
LEMMA ShownRestsHere ==
    ASSUME TransferTypeOK, NEW t \in TabIds, NEW w \in Labels, NEW v \in Labels,
           text[w][t] # Nothing, Rests(t, v)
    PROVE  v = w /\ At(w, t, latest[t])
  BY DEF Rests, Absent, Coming

LEMMA EditInPlace ==
    ASSUME TransferInv, NEW w \in Labels, NEW s \in TabIds, EditTab(w, s),
           NEW t \in TabIds \ known'
    PROVE  InPlace(t)'
  <1>. USE DEF TransferInv
  <1>1. /\ registry' = registry /\ applying' = applying /\ events' = events
        /\ moves' = moves /\ undoing' = undoing
        /\ \A v \in Labels : v # w => text'[v] = text[v]
        /\ text'[w] = [text[w] EXCEPT ![s] = tabEdits + 1]
        /\ latest' = [latest EXCEPT ![s] = tabEdits + 1]
    BY DEF EditTab, moveVars, TransferTypeOK
  <1>2. \A v \in Labels : v # w => Kept(v, t)
    BY <1>1, UntouchedKept DEF Untouched
  <1>3. t \notin known /\ InPlace(t)
    BY DEF EditTab
  <1>4. CASE s # t
    <2>1. text'[w][t] = text[w][t] /\ latest'[t] = latest[t]
      BY <1>1, <1>4 DEF TransferTypeOK
    <2>2. Kept(w, t)
      BY <1>1, <2>1, UntouchedKept DEF Untouched
    <2>. QED  BY <1>1, <1>2, <1>3, <2>1, <2>2, CalmInPlace DEF Calm
  <1>5. CASE s = t
    <2>1. /\ \A v \in Labels : v # w => text[v][t] = Nothing
          /\ ~BroughtBack(t) /\ text[w][t] # Nothing
      BY <1>5 DEF EditTab, Shown
    <2>2. NotUndone(t)
      BY <2>1, NotUndoneMeans
    <2>3. PICK n \in Nat : n = text'[w][t] /\ n = latest'[t]
      <3>1. text'[w][t] = tabEdits + 1 /\ latest'[t] = tabEdits + 1 /\ tabEdits + 1 \in Nat
        BY <1>1, <1>5 DEF TransferTypeOK
      <3>. QED  BY <3>1
    <2>4. /\ \A x : At(w, t, x) => At(w, t, n)'
          /\ NoRemoval(w, t) => NoRemoval(w, t)'
      BY <1>1, <2>3 DEF At, Away, InReg, InApp, NoRemoval
    <2>5. NotUndone(t)'
      BY <1>1, <1>2, <2>2, <2>4 DEF NotUndone, Kept
    <2>6. ASSUME NEW v \in Labels, Rests(t, v) PROVE Rests(t, w)'
      <3>1. v = w /\ At(w, t, latest[t])
        BY <2>1, <2>6, ShownRestsHere
      <3>. QED  BY <1>1, <1>2, <2>3, <2>4, <2>6, <3>1 DEF Rests, Kept
    <2>7. ASSUME NEW m \in moves, Moves(t, m) PROVE Moves(t, m)'
      <3>1. /\ m.from \in Labels /\ m.to \in Labels /\ m.from # m.to /\ m.text \in Nat
            /\ latest[t] \in Nat
        BY <2>7 DEF TransferTypeOK, Move, StageInv, MoveStages, Owned, Moves
      <3>2. m.from = w
        BY <2>1, <2>7, <3>1, NothingIsNew DEF Moves, At
      <3>3. At(m.from, t, n)'
        BY <2>4, <2>7, <3>2 DEF Moves
      <3>4. At(m.to, t, m.text)' \/ Coming(m.to, t, m.text)'
        BY <1>2, <2>7, <3>1, <3>2 DEF Moves, Kept
      <3>. QED  BY <1>1, <1>2, <2>3, <2>7, <3>2, <3>3, <3>4 DEF Moves, Kept
    <2>. QED  BY <1>1, <1>3, <2>2, <2>5, <2>6, <2>7, UndoneIsUndone DEF InPlace
  <1>. QED  BY <1>4, <1>5

LEMMA BeginInPlace ==
    ASSUME TransferInv, NEW w \in Labels, NEW s \in TabIds, NEW to \in Targets(w),
           BeginMove(w, s, to), NEW t \in TabIds \ known'
    PROVE  InPlace(t)'
  <1>. USE DEF TransferInv
  <1>1. PICK m : m = [no |-> movesBegun + 1, from |-> w, tab |-> s, text |-> text[w][s],
                      to |-> to, sent |-> FALSE]
    OBVIOUS
  <1>2. /\ moves' = moves \union {m} /\ undoing' = undoing /\ latest' = latest
        /\ m.tab = s /\ m.from = w /\ ~m.sent
        /\ text' = text /\ text[w][s] # Nothing
    BY <1>1 DEF BeginMove, windowVars, Shown
  <1>3. (\A v \in Labels : Kept(v, t)) /\ t \notin known /\ InPlace(t)
    BY WindowsKept DEF BeginMove
  <1>4. CASE s # t
    BY <1>2, <1>3, <1>4, CalmInPlace DEF Calm
  <1>5. CASE s = t
    <2>1. NotMoved(t) /\ ~BroughtBack(t)
      BY <1>5 DEF BeginMove, NotMoved
    <2>2. NotUndone(t) /\ NotUndone(t)'
      BY <1>2, <1>3, <2>1, NotUndoneMeans DEF NotUndone, Kept
    <2>3. PICK v \in Labels : Rests(t, v)
      BY <1>3, <2>1, <2>2, UndoneIsUndone DEF InPlace, Moves, NotMoved
    <2>4. v = w /\ At(w, t, latest[t]) /\ latest[t] \in Nat
      BY <1>2, <1>5, <2>3, ShownRestsHere DEF TransferTypeOK
    <2>5. Rests(t, w)'
      BY <1>2, <1>3, <2>1, <2>3, <2>4 DEF Rests, Kept, NotMoved
    <2>. QED  BY <2>2, <2>5 DEF InPlace
  <1>. QED  BY <1>4, <1>5

LEMMA DroppedInPlace ==
    ASSUME TransferInv, NEW m \in moves, ~m.sent, moves' = moves \ {m},
           UNCHANGED <<windowVars, undoing, latest>>, NEW t \in TabIds \ known
    PROVE  InPlace(t)'
  <1>. USE DEF TransferInv
  <1>1. (\A w \in Labels : Kept(w, t)) /\ InPlace(t) /\ undoing' = undoing /\ latest' = latest
    BY WindowsKept
  <1>2. CASE m.tab # t
    BY <1>1, <1>2, CalmInPlace DEF Calm
  <1>3. CASE m.tab = t
    <2>1. PICK w \in Labels : NotUndone(t) /\ Rests(t, w)
      BY <1>1, <1>3 DEF InPlace, Moves, NotMoved
    <2>2. NotUndone(t)' /\ latest[t] \in Nat
      BY <1>1, <2>1 DEF NotUndone, Kept, TransferTypeOK
    <2>3. At(w, t, latest[t])
      BY <1>3, <2>1 DEF Rests, NotMoved
    <2>4. Rests(t, w)'
      BY <1>1, <2>1, <2>2, <2>3 DEF Rests, Kept
    <2>. QED  BY <2>2, <2>4 DEF InPlace
  <1>. QED  BY <1>2, <1>3

\* A move that is sent: its text is on its way to a window without the tab.
LEMMA SentInPlace ==
    ASSUME TransferInv, NEW m \in moves, ~m.sent, NEW t \in TabIds \ known, m.tab = t,
           NEW n, n.tab = t, n.sent, n.from = m.from, n.to \in Labels, n.to # m.from,
           moves' = (moves \ {m}) \union {n}, undoing' = undoing, latest' = latest,
           \A v \in Labels \ {n.to} : Kept(v, t),
           Absent(n.to, t) => Coming(n.to, t, n.text)',
           NoRemoval(n.to, t) => NoRemoval(n.to, t)'
    PROVE  InPlace(t)'
  <1>. USE DEF TransferInv
  <1>1. PICK w \in Labels : NotUndone(t) /\ Rests(t, w)
    BY DEF InPlace, Moves, NotMoved
  <1>2. m.from = w /\ At(w, t, latest[t]) /\ latest[t] \in Nat
    BY <1>1 DEF Rests, NotMoved, TransferTypeOK
  <1>3. NotUndone(t)'
    BY <1>1 DEF NotUndone, Kept
  <1>4. \A k \in moves' : k.tab = t => k = n
    BY <1>1 DEF Rests
  <1>5. At(n.from, t, latest[t])' /\ latest'[t] = latest[t]
    BY <1>2 DEF Kept
  <1>6. Coming(n.to, t, n.text)'
    BY <1>1, <1>2 DEF Rests
  <1>7. \A v \in Labels \ {n.from, n.to} : Absent(v, t)'
    BY <1>1, <1>2 DEF Rests, Kept
  <1>8. n \in moves' /\ Moves(t, n)'
    BY <1>4, <1>5, <1>6, <1>7 DEF Moves
  <1>. QED  BY <1>3, <1>8 DEF InPlace

LEMMA SendInPlace ==
    ASSUME TransferInv, NEW m \in moves, Send(m), NEW t \in TabIds \ known'
    PROVE  InPlace(t)'
  <1>. USE DEF TransferInv
  <1>1. /\ m \in Move /\ m.to \in Labels /\ m.from \in Labels /\ m.from # m.to /\ ~m.sent
        /\ m.text \in Nat /\ m.tab \in TabIds /\ t \notin known /\ InPlace(t)
    BY DEF Send, TransferTypeOK, Move, StageInv, MoveStages, Owned
  <1>2. /\ text' = text /\ registry' = registry /\ applying' = applying
        /\ undoing' = undoing /\ latest' = latest
    BY DEF Send
  <1>3. CASE ~Lives(m.to)
    <2>1. UNCHANGED <<windowVars, undoing, latest>> /\ moves' = moves \ {m}
      BY <1>2, <1>3 DEF Send, windowVars
    <2>. QED  BY <1>1, <2>1, DroppedInPlace
  <1>4. CASE Lives(m.to)
    <2>1. PICK n : n = [m EXCEPT !.sent = TRUE]
      OBVIOUS
    <2>2. /\ n.tab = m.tab /\ n.text = m.text /\ n.from = m.from /\ n.to = m.to /\ n.sent
          /\ moves' = (moves \ {m}) \union {n}
      BY <1>1, <1>4, <2>1 DEF Send, Move
    <2>3. PICK e \in Event : e = Going(m.tab, m.text)
      BY <1>1 DEF Going, Event
    <2>4. /\ events' = events \/ events' = [events EXCEPT ![m.to] = Append(events[m.to], e)]
          /\ events[m.to] \in Seq(Event)
      BY <1>1, <1>4, <2>3 DEF Send, Emit, Going, TransferTypeOK
    <2>5. \A v \in Labels \ {m.to} : Kept(v, t)
      <3>1. \A v \in Labels \ {m.to} : events'[v] = events[v]
        BY <2>4 DEF TransferTypeOK
      <3>. QED  BY <1>2, <3>1, UntouchedKept DEF Untouched
    <2>6. PICK s : s = Append(events[m.to], e)
      OBVIOUS
    <2>7. /\ \A k : Never(events[m.to], k, t) /\ ~Alike(e, k, t) => Never(s, k, t)
          /\ Never(events[m.to], e.kind, e.tab) => Sole(s, e)
          /\ \A f : Sole(events[m.to], f) /\ ~Alike(e, f.kind, f.tab) => Sole(s, f)
      BY <2>4, <2>6, MoreEvents
    <2>8. CASE m.tab # t
      <3>1. e.tab # t
        BY <2>3, <2>8 DEF Going
      <3>2. /\ \A k : Never(events[m.to], k, t) => Never(s, k, t)
            /\ \A f : f.tab = t /\ Sole(events[m.to], f) => Sole(s, f)
        BY <2>7, <3>1 DEF Alike
      <3>3. events'[m.to] = events[m.to] \/ events'[m.to] = s
        BY <1>1, <2>4, <2>6 DEF TransferTypeOK
      <3>4. Kept(m.to, t)
        BY <1>1, <1>2, <3>2, <3>3, UntouchedKept DEF Untouched
      <3>. QED  BY <1>1, <1>2, <2>2, <2>5, <2>8, <3>4, CalmInPlace DEF Calm
    <2>9. CASE m.tab = t
      <3>1. stage[m.to] = "ready"
        BY <1>1, <1>4, <2>9 DEF Send
      <3>2. events'[m.to] = s
        BY <1>1, <1>4, <2>3, <2>6, <3>1 DEF Send, Emit, Going, TransferTypeOK
      <3>3. e.kind = "transfer" /\ e.tab = t /\ e = Going(t, m.text)
        BY <2>3, <2>9 DEF Going
      <3>4. ASSUME Absent(m.to, t) PROVE Coming(m.to, t, m.text)'
        <4>1. Sole(s, Going(t, m.text))
          BY <2>7, <3>3, <3>4 DEF Absent, Away
        <4>2. text'[m.to][t] = Nothing /\ ~InReg(m.to, t)' /\ ~InApp(m.to, t)'
          BY <1>2, <3>4 DEF Absent, Away, InReg, InApp
        <4>. QED  BY <3>2, <4>1, <4>2 DEF Coming
      <3>5. NoRemoval(m.to, t) => NoRemoval(m.to, t)'
        BY <2>7, <3>2, <3>3 DEF NoRemoval, Alike
      <3>. QED
        BY <1>1, <1>2, <2>2, <2>5, <2>9, <3>4, <3>5, SentInPlace
    <2>. QED  BY <2>8, <2>9
  <1>. QED  BY <1>3, <1>4

LEMMA DetachInPlace ==
    ASSUME TransferInv, NEW m \in moves, NEW d \in Docs, Detach(m, d),
           NEW t \in TabIds \ known
    PROVE  InPlace(t)'
  <1>. USE DEF TransferInv
  <1>1. /\ d \in Labels /\ m \in Move /\ ~m.sent /\ stage[d] = "none" /\ m.from # d
        /\ InPlace(t) /\ registry[d] = Nothing
    BY DEF Detach, Labels, TransferTypeOK, StageInv, WindowStages, MoveStages, Owned
  <1>2. /\ text' = text /\ applying' = applying /\ events' = events
        /\ undoing' = undoing /\ latest' = latest
        /\ registry'[d] = Payload(m) /\ \A v \in Labels : v # d => registry'[v] = registry[v]
    BY <1>1 DEF Detach, historyVars, TransferTypeOK
  <1>3. PICK n : n = [m EXCEPT !.sent = TRUE, !.to = d]
    OBVIOUS
  <1>4. /\ n.tab = m.tab /\ n.text = m.text /\ n.from = m.from /\ n.to = d /\ n.sent
        /\ moves' = (moves \ {m}) \union {n}
    BY <1>1, <1>3 DEF Detach, Move
  <1>5. \A v \in Labels \ {d} : Kept(v, t)
    BY <1>2, UntouchedKept DEF Untouched
  <1>6. CASE m.tab # t
    <2>1. Kept(d, t)
      BY <1>1, <1>2, <1>6, UntouchedKept DEF Untouched, InReg, Payload
    <2>. QED  BY <1>1, <1>2, <1>4, <1>5, <1>6, <2>1, CalmInPlace DEF Calm
  <1>7. CASE m.tab = t
    <2>1. ASSUME Absent(d, t) PROVE Coming(d, t, m.text)'
      BY <1>2, <1>7, <2>1 DEF Absent, Away, Coming, Payload, Piece, InApp
    <2>2. NoRemoval(d, t) => NoRemoval(d, t)'
      BY <1>2 DEF NoRemoval
    <2>. QED  BY <1>1, <1>2, <1>4, <1>5, <1>7, <2>1, <2>2, SentInPlace
  <1>. QED  BY <1>6, <1>7

LEMMA FinishInPlace ==
    ASSUME TransferInv, NEW m \in moves, Finish(m), NEW t \in TabIds \ known'
    PROVE  InPlace(t)'
  <1>. USE DEF TransferInv
  <1>1. /\ m \in Move /\ m.from \in Labels /\ m.tab \in TabIds /\ m.sent
        /\ m.to \in Labels /\ m.to # m.from
        /\ t \notin known /\ InPlace(t) /\ latest[t] \in Nat
    BY DEF Finish, TransferTypeOK, Move, StageInv, MoveStages, Owned
  <1>2. /\ registry' = registry /\ applying' = applying /\ events' = events
        /\ undoing' = undoing /\ latest' = latest /\ moves' = moves \ {m}
        /\ text'[m.from] = [text[m.from] EXCEPT ![m.tab] = Nothing]
        /\ \A v \in Labels : v # m.from => text'[v] = text[v]
    BY <1>1 DEF Finish, Drops, TransferTypeOK
  <1>3. \A v \in Labels : v # m.from => Kept(v, t)
    BY <1>2, UntouchedKept DEF Untouched
  <1>4. CASE m.tab # t
    <2>1. text'[m.from][t] = text[m.from][t]
      BY <1>1, <1>2, <1>4 DEF TransferTypeOK
    <2>2. Kept(m.from, t)
      BY <1>1, <1>2, <2>1, UntouchedKept DEF Untouched
    <2>. QED  BY <1>1, <1>2, <1>3, <1>4, <2>2, CalmInPlace DEF Calm
  <1>5. CASE m.tab = t
    <2>1. NotUndone(t) /\ Moves(t, m)
      BY <1>1, <1>5 DEF InPlace, Rests, Moves, NotMoved
    <2>2. latest[t] = m.text
      BY <1>1, <1>5, <2>1, NothingIsNew DEF Finish, Moves, At
    <2>3. text'[m.from][t] = Nothing
      BY <1>1, <1>2, <1>5 DEF TransferTypeOK
    <2>4. Absent(m.from, t)'
      BY <1>2, <2>1, <2>3 DEF Moves, Absent, At, Away, InReg, InApp
    <2>5. NotMoved(t)'
      BY <1>2, <2>1 DEF Moves, NotMoved
    <2>6. At(m.to, t, latest[t])' \/ Coming(m.to, t, latest[t])'
      BY <1>1, <1>2, <1>3, <2>1, <2>2 DEF Moves, Kept
    <2>7. \A v \in Labels \ {m.to} : Absent(v, t)'
      BY <1>3, <2>1, <2>4 DEF Moves, Kept
    <2>8. Rests(t, m.to)'
      BY <1>2, <2>5, <2>6, <2>7 DEF Rests, NotMoved
    <2>9. NotUndone(t)'
      BY <1>2, <2>1 DEF NotUndone, NoRemoval
    <2>. QED  BY <1>1, <2>8, <2>9 DEF InPlace
  <1>. QED  BY <1>4, <1>5

LEMMA UndoInPlace ==
    ASSUME TransferInv, NEW u \in toasts, Undo(u), NEW t \in TabIds \ known'
    PROVE  InPlace(t)'
  <1>. USE DEF TransferInv
  <1>1. /\ u \in Move /\ u.from \in Labels /\ u.to \in Labels /\ u.from # u.to
        /\ u.tab \in TabIds /\ t \notin known /\ InPlace(t)
        /\ latest[t] \in Nat /\ u.text \in Nat
    BY DEF Undo, TransferTypeOK, Move, StageInv, MoveStages, Owned
  <1>2. /\ text' = text /\ registry' = registry /\ applying' = applying
        /\ moves' = moves /\ latest' = latest
    BY DEF Undo
  <1>3. CASE ~Lives(u.to)
    <2>1. UNCHANGED windowVars /\ undoing' = undoing
      BY <1>2, <1>3 DEF Undo, windowVars
    <2>. QED  BY <1>1, <1>2, <2>1, WindowsKept, CalmInPlace DEF Calm
  <1>4. CASE Lives(u.to)
    <2>1. PICK e \in Event : e = Removal(u.tab)
      BY <1>1 DEF Removal, Event
    <2>2. /\ events' = events \/ events' = [events EXCEPT ![u.to] = Append(events[u.to], e)]
          /\ events[u.to] \in Seq(Event) /\ undoing' = undoing \union {u}
      BY <1>1, <1>4, <2>1 DEF Undo, Emit, Removal, TransferTypeOK
    <2>3. \A v \in Labels \ {u.to} : Kept(v, t)
      <3>1. \A v \in Labels \ {u.to} : events'[v] = events[v]
        BY <2>2 DEF TransferTypeOK
      <3>. QED  BY <1>2, <3>1, UntouchedKept DEF Untouched
    <2>4. PICK s : s = Append(events[u.to], e)
      OBVIOUS
    <2>5. /\ \A k : Never(events[u.to], k, t) /\ ~Alike(e, k, t) => Never(s, k, t)
          /\ Never(events[u.to], e.kind, e.tab) => Sole(s, e)
          /\ \A f : Sole(events[u.to], f) /\ ~Alike(e, f.kind, f.tab) => Sole(s, f)
      BY <2>2, <2>4, MoreEvents
    <2>6. CASE u.tab # t
      <3>1. e.tab # t
        BY <2>1, <2>6 DEF Removal
      <3>2. /\ \A k : Never(events[u.to], k, t) => Never(s, k, t)
            /\ \A f : f.tab = t /\ Sole(events[u.to], f) => Sole(s, f)
        BY <2>5, <3>1 DEF Alike
      <3>3. events'[u.to] = events[u.to] \/ events'[u.to] = s
        BY <1>1, <2>2, <2>4 DEF TransferTypeOK
      <3>4. Kept(u.to, t)
        BY <1>1, <1>2, <3>2, <3>3, UntouchedKept DEF Untouched
      <3>. QED  BY <1>1, <1>2, <2>2, <2>3, <2>6, <3>4, CalmInPlace DEF Calm
    <2>7. CASE u.tab = t
      <3>1. Settled(u)
        BY <1>1, <1>4, <2>7 DEF Undo
      <3>2. /\ stage[u.to] = "ready" /\ text[u.to][t] = u.text
            /\ ~BroughtBack(t) /\ NotMoved(t)
        BY <2>7, <3>1 DEF Settled, NotMoved
      <3>3. NotUndone(t)
        BY <3>2, NotUndoneMeans
      <3>4. PICK v \in Labels : Rests(t, v)
        BY <1>1, <3>2, <3>3, UndoneIsUndone DEF InPlace, Moves, NotMoved
      <3>5. v = u.to /\ At(u.to, t, latest[t]) /\ u.text = latest[t]
        BY <1>1, <3>2, <3>4, ShownRestsHere, NothingIsNew DEF At
      <3>6. events'[u.to] = s
        BY <1>1, <1>4, <2>1, <2>4, <3>2 DEF Undo, Emit, Removal, TransferTypeOK
      <3>7. e.kind = "remove" /\ e.tab = t /\ e = Removal(t)
        BY <2>1, <2>7 DEF Removal
      <3>8. At(u.to, t, latest[t])'
        <4>1. Never(s, "transfer", t)
          BY <2>5, <3>5, <3>7 DEF At, Away, Alike
        <4>. QED  BY <1>2, <3>5, <3>6, <4>1 DEF At, Away, InReg, InApp
      <3>9. OneRemoval(u.to, t)'
        BY <1>1, <2>5, <3>3, <3>6, <3>7 DEF OneRemoval, NotUndone, NoRemoval
      <3>10. Absent(u.from, t)' /\ \A x \in Labels \ {u.from, u.to} : Absent(x, t)'
        BY <1>1, <2>3, <3>4, <3>5 DEF Rests, Kept
      <3>11. \A x \in Labels \ {u.to} : NoRemoval(x, t)'
        BY <2>3, <3>3 DEF NotUndone, Kept
      <3>12. /\ u \in undoing' /\ u.tab = t /\ u.text = latest'[t]
             /\ \A k \in undoing' : k.tab = t => k = u
        BY <1>2, <2>2, <2>7, <3>3, <3>5 DEF NotUndone
      <3>13. Undoes(t, u.from, u.to)'
        BY <1>1, <1>2, <3>8, <3>9, <3>10, <3>11, <3>12 DEF Undoes
      <3>. QED  BY <1>1, <1>2, <3>2, <3>13 DEF InPlace, NotMoved
    <2>. QED  BY <2>6, <2>7
  <1>. QED  BY <1>3, <1>4

LEMMA RestoreInPlace ==
    ASSUME TransferInv, NEW u \in undoing, Restore(u), NEW t \in TabIds \ known
    PROVE  InPlace(t)'
  <1>. USE DEF TransferInv
  <1>1. /\ u \in Move /\ u.from \in Labels /\ u.tab \in TabIds /\ u.text \in Nat
        /\ InPlace(t) /\ latest[t] \in Nat
    BY DEF TransferTypeOK, Move
  <1>2. /\ registry' = registry /\ applying' = applying /\ events' = events
        /\ undoing' = undoing \ {u} /\ latest' = latest /\ moves' = moves
        /\ text'[u.from] = [text[u.from] EXCEPT ![u.tab] = u.text]
        /\ \A v \in Labels : v # u.from => text'[v] = text[v]
    BY <1>1 DEF Restore, Shows, historyVars, TransferTypeOK
  <1>3. \A v \in Labels : v # u.from => Kept(v, t)
    BY <1>2, UntouchedKept DEF Untouched
  <1>4. CASE u.tab # t
    <2>1. text'[u.from][t] = text[u.from][t]
      BY <1>1, <1>2, <1>4 DEF TransferTypeOK
    <2>2. Kept(u.from, t)
      BY <1>1, <1>2, <2>1, UntouchedKept DEF Untouched
    <2>. QED  BY <1>1, <1>2, <1>3, <1>4, <2>2, CalmInPlace DEF Calm
  <1>5. CASE u.tab = t
    <2>1. PICK from \in Labels, to \in Labels : NotMoved(t) /\ Undoes(t, from, to)
      BY <1>1, <1>5 DEF InPlace, NotUndone
    <2>2. /\ from = u.from /\ u.text = latest[t] /\ from # to /\ Absent(from, t)
          /\ \A v \in undoing : v.tab = t => v = u
      BY <1>5, <2>1 DEF Undoes
    <2>3. text'[from][t] = latest[t]
      BY <1>1, <1>2, <1>5, <2>2 DEF TransferTypeOK
    <2>4. At(from, t, latest[t])'
      BY <1>2, <2>2, <2>3 DEF At, Absent, Away, InReg, InApp
    <2>5. /\ \A v \in Labels : NoRemoval(v, t) => NoRemoval(v, t)'
          /\ \A v \in Labels : OneRemoval(v, t) => OneRemoval(v, t)'
          /\ NotMoved(t)'
      BY <1>2, <2>1 DEF NoRemoval, OneRemoval, NotMoved
    <2>6. \A k \in undoing' : k.tab # t
      BY <1>2, <2>2
    <2>7. \A v \in Labels \ {from, to} : Absent(v, t)'
      BY <1>3, <2>1, <2>2 DEF Undoes, Kept
    <2>8. CASE At(to, t, latest[t]) /\ OneRemoval(to, t)
      <3>1. At(to, t, latest[t])'
        BY <1>1, <1>2, <1>3, <2>2, <2>8 DEF Kept
      <3>2. Undoes(t, from, to)'
        BY <2>1, <2>2, <2>4, <2>5, <2>6, <2>7, <2>8, <3>1 DEF Undoes
      <3>. QED  BY <2>5, <3>2 DEF InPlace
    <2>9. CASE Absent(to, t) /\ NoRemoval(to, t)
      <3>1. Absent(to, t)'
        BY <1>3, <2>2, <2>9 DEF Kept
      <3>2. NotUndone(t)'
        BY <2>1, <2>5, <2>6, <2>9 DEF Undoes, NotUndone
      <3>3. Rests(t, from)'
        BY <2>4, <2>5, <2>7, <3>1 DEF Rests, NotMoved
      <3>. QED  BY <3>2, <3>3 DEF InPlace
    <2>. QED  BY <2>1, <2>8, <2>9 DEF Undoes
  <1>. QED  BY <1>4, <1>5

-----------------------------------------------------------------------------
(* The invariant. *)

LEMMA TransferStarts ==
    ASSUME TransferInit PROVE TransferInv
  <1>1. PICK there \in SUBSET TabIds, d \in Docs :
          /\ stage = [w \in Labels |-> IF w = Main \/ (w = d /\ there # {}) THEN "ready" ELSE "none"]
          /\ text = [w \in Labels |-> [t \in TabIds |->
                       IF (w = d /\ t \in there) \/ (w = Main /\ t \notin there)
                       THEN 0 ELSE Nothing]]
    BY DEF TransferInit
  <1>2. PICK empty : empty = <<>> /\ empty \in Seq(Event)
    <2>1. <<>> \in Seq(Event)
      OBVIOUS
    <2>. QED  BY <2>1
  <1>3. /\ registry = [w \in Labels |-> Nothing] /\ events = [w \in Labels |-> empty]
        /\ applying = [w \in Labels |-> {}]
        /\ moves = {} /\ toasts = {} /\ undoing = {} /\ closing = {} /\ movesBegun = 0
        /\ tabEdits = 0 /\ latest = [t \in TabIds |-> 0] /\ known = {}
    BY <1>2 DEF TransferInit
  <1>4. TransferTypeOK
    BY <1>1, <1>2, <1>3 DEF TransferTypeOK
  <1>5. Main \in Labels /\ d \in Labels /\ Main # d
    BY MainIsNoDoc DEF Labels
  <1>6. StageInv
    <2>1. WindowStages
      BY <1>1, <1>2, <1>3, <1>5 DEF WindowStages
    <2>. QED  BY <1>3, <2>1 DEF StageInv, MoveStages
  <1>7. ASSUME NEW t \in TabIds PROVE InPlace(t)
    <2>1. PICK h \in {Main, d} : h = IF t \in there THEN d ELSE Main
      OBVIOUS
    <2>2. h \in Labels /\ text[h][t] = 0 /\ \A v \in Labels \ {h} : text[v][t] = Nothing
      BY <1>1, <1>5, <2>1
    <2>3. \A v \in Labels : Away(v, t) /\ NoRemoval(v, t)
      BY <1>2, <1>3, EmptyEvents DEF Away, NoRemoval, InReg, InApp
    <2>4. NotUndone(t) /\ Rests(t, h)
      BY <1>3, <2>2, <2>3 DEF NotUndone, Rests, At, Absent
    <2>. QED  BY <2>2, <2>4 DEF InPlace
  <1>. QED  BY <1>4, <1>6, <1>7 DEF TransferInv

LEMMA TransferStep ==
    ASSUME TransferInv, TransferNext PROVE TransferInv'
  <1>1. TransferTypeOK' /\ StageInv'
    BY TransferTypeStep, WindowStageStep, MoveStageStep DEF TransferInv, StageInv
  <1>2. ASSUME NEW t \in TabIds \ known' PROVE InPlace(t)'
    <2>1. ASSUME NEW w \in Labels, EmptyCloses(w) \/ UserCloses(w) PROVE InPlace(t)'
      BY <1>2, <2>1, EndsInPlace DEF EmptyCloses, UserCloses
    <2>2. ASSUME NEW w \in Labels, Claim(w) PROVE InPlace(t)'
      BY <1>2, <2>2, ClaimInPlace DEF Claim, historyVars
    <2>3. ASSUME NEW w \in Labels, Listen(w) PROVE InPlace(t)'
      <3>1. Calm(t) /\ t \notin known
        <4>1. UNCHANGED <<text, registry, events, applying, moves, undoing, latest, known>>
          BY <2>3 DEF Listen, moveVars, historyVars
        <4>. QED  BY <1>2, <4>1, UntouchedKept DEF Calm, Untouched
      <3>. QED  BY <1>2, <3>1, CalmInPlace DEF TransferInv
    <2>4. ASSUME NEW w \in Labels, HearEvent(w) PROVE InPlace(t)'
      BY <1>2, <2>4, HearInPlace DEF HearEvent, historyVars
    <2>5. ASSUME NEW w \in Labels, NEW p \in applying[w], Apply(w, p) PROVE InPlace(t)'
      BY <1>2, <2>5, ApplyInPlace DEF Apply
    <2>6. ASSUME NEW w \in Labels, NEW s \in TabIds, EditTab(w, s) PROVE InPlace(t)'
      BY <2>6, EditInPlace
    <2>7. ASSUME NEW w \in Labels, NEW s \in TabIds, NEW to \in Targets(w), BeginMove(w, s, to)
          PROVE  InPlace(t)'
      BY <2>7, BeginInPlace
    <2>8. ASSUME NEW m \in moves, Send(m) \/ Finish(m) PROVE InPlace(t)'
      BY <2>8, SendInPlace, FinishInPlace
    <2>9. ASSUME NEW m \in moves, DetachFails(m) PROVE InPlace(t)'
      BY <1>2, <2>9, DroppedInPlace DEF DetachFails, historyVars
    <2>10. ASSUME NEW m \in moves, NEW d \in Docs, Detach(m, d) PROVE InPlace(t)'
      BY <1>2, <2>10, DetachInPlace DEF Detach, historyVars
    <2>11. ASSUME NEW u \in toasts, Undo(u) PROVE InPlace(t)'
      BY <2>11, UndoInPlace
    <2>12. ASSUME NEW u \in undoing, Restore(u) PROVE InPlace(t)'
      BY <1>2, <2>12, RestoreInPlace DEF Restore, historyVars
    <2>. QED
      BY <2>1, <2>2, <2>3, <2>4, <2>5, <2>6, <2>7, <2>8, <2>9, <2>10, <2>11, <2>12
      DEF TransferNext
  <1>. QED  BY <1>1, <1>2 DEF TransferInv

LEMMA TransferStutters ==
    ASSUME TransferInv, UNCHANGED transferVars PROVE TransferInv'
  <1>1. /\ UNCHANGED <<stage, text, registry, events, applying>>
        /\ UNCHANGED <<moves, toasts, undoing, movesBegun>>
        /\ UNCHANGED <<tabEdits, latest, known, closing>>
    BY DEF transferVars, windowVars, moveVars, historyVars
  <1>2. TransferTypeOK'
    BY <1>1 DEF TransferInv, TransferTypeOK
  <1>3. StageInv'
    BY <1>1 DEF TransferInv, StageInv, WindowStages, MoveStages, Owned
  <1>4. ASSUME NEW t \in TabIds \ known PROVE InPlace(t)'
    BY <1>1, WindowsKept, CalmInPlace DEF TransferInv, Calm, windowVars
  <1>. QED  BY <1>1, <1>2, <1>3, <1>4 DEF TransferInv

THEOREM TransferInvariant == TransferSpec => []TransferInv
  <1>1. TransferInit => TransferInv
    BY TransferStarts
  <1>2. TransferInv /\ [TransferNext]_transferVars => TransferInv'
    BY TransferStep, TransferStutters
  <1>. QED  BY <1>1, <1>2, PTL DEF TransferSpec

\* Every variable of the tabs' windows keeps its type.
THEOREM TransferTypeCorrect == TransferSpec => []TransferTypeOK
  <1>1. TransferInv => TransferTypeOK
    BY DEF TransferInv
  <1>. QED  BY <1>1, TransferInvariant, PTL

-----------------------------------------------------------------------------
(* What it means for the tabs. *)

LEMMA InPlaceIsHeld ==
    ASSUME TransferInv, NEW t \in TabIds \ known PROVE latest[t] \in Holds(t)
  <1>. USE DEF TransferInv
  <1>1. ASSUME NEW w \in Labels, text[w][t] = latest[t] PROVE latest[t] \in Holds(t)
    BY <1>1 DEF Holds
  <1>2. ASSUME NEW u \in undoing, u.tab = t, u.text = latest[t] PROVE latest[t] \in Holds(t)
    <2>1. u \in {v \in undoing : v.tab = t}
      BY <1>2
    <2>2. latest[t] \in {v.text : v \in {x \in undoing : x.tab = t}}
      BY <1>2, <2>1
    <2>. QED  BY <2>2 DEF Holds
  <1>3. ASSUME NEW w \in Labels, Coming(w, t, latest[t]) PROVE latest[t] \in Holds(t)
    <2>1. CASE registry[w] = Piece(t, latest[t])
      <3>1. registry[w] # Nothing /\ registry[w].tab = t /\ registry[w].text = latest[t]
        BY <2>1, NothingIsNew DEF Piece, TransferTypeOK
      <3>. QED  BY <3>1 DEF Holds
    <2>2. CASE Piece(t, latest[t]) \in applying[w]
      <3>1. PICK p \in applying[w] : p.tab = t /\ p.text = latest[t]
        BY <2>2 DEF Piece
      <3>2. p \in {q \in UNION {applying[v] : v \in Labels} : q.tab = t}
        BY <3>1
      <3>. QED  BY <3>1, <3>2 DEF Holds
    <2>3. CASE Sole(events[w], Going(t, latest[t]))
      <3>1. PICK i \in 1..Len(events[w]) : events[w][i] = Going(t, latest[t])
        BY <2>3 DEF Sole
      <3>2. DOMAIN events[w] = 1..Len(events[w])
        <4>1. events[w] \in Seq(Event)
          BY DEF TransferTypeOK
        <4>. QED  BY <4>1
      <3>3. i \in {j \in DOMAIN events[w] : events[w][j].kind = "transfer" /\ events[w][j].tab = t}
            /\ events[w][i].text = latest[t]
        BY <3>1, <3>2 DEF Going
      <3>4. latest[t] \in {events[w][k].text : k \in {j \in DOMAIN events[w] :
                            events[w][j].kind = "transfer" /\ events[w][j].tab = t}}
        BY <3>3
      <3>5. latest[t] \in UNION {{events[v][k].text : k \in {j \in DOMAIN events[v] :
                            events[v][j].kind = "transfer" /\ events[v][j].tab = t}} : v \in Labels}
        BY <3>4
      <3>. QED  BY <3>5 DEF Holds
    <2>. QED  BY <1>3, <2>1, <2>2, <2>3 DEF Coming
  <1>4. \A m \in moves : m.from \in Labels
    BY DEF TransferTypeOK, Move
  <1>. QED  BY <1>1, <1>2, <1>3, <1>4 DEF InPlace, Rests, Moves, Undoes, At

\* Moving a tab loses no text, for any windows, tabs and moves: the user's last
\* text of a tab is in a window, on its way to one or with the Undo that holds it.
THEOREM MovedTextKept == TransferSpec => []MovedTextIsKept
  <1>1. TransferInv => MovedTextIsKept
    BY InPlaceIsHeld DEF MovedTextIsKept
  <1>. QED  BY <1>1, TransferInvariant, PTL

LEMMA InPlaceIsOne ==
    ASSUME TransferInv, NEW t \in TabIds \ known
    PROVE  \/ Cardinality({w \in Labels : t \in Shown(w)}) <= 1
           \/ \E m \in moves : m.tab = t
           \/ BroughtBack(t)
  <1>. USE DEF TransferInv
  <1>1. ASSUME NEW w \in Labels, Rests(t, w)
        PROVE  Cardinality({v \in Labels : t \in Shown(v)}) <= 1
    <2>1. {v \in Labels : t \in Shown(v)} \subseteq {w}
      BY <1>1 DEF Rests, Absent, Shown
    <2>2. IsFiniteSet({w}) /\ Cardinality({w}) = 1
      BY FS_Singleton
    <2>. QED  BY <2>1, <2>2, FS_Subset
  <1>2. \A m \in moves : Moves(t, m) => m.tab = t
    BY DEF Moves
  <1>3. ASSUME NEW from \in Labels, NEW to \in Labels, Undoes(t, from, to) PROVE BroughtBack(t)
    BY <1>3, UndoneIsUndone, NotUndoneMeans
  <1>. QED  BY <1>1, <1>2, <1>3 DEF InPlace

\* A tab is in one window, for any windows, tabs and moves, except while it
\* moves or is brought back.
THEOREM OneCopyOfATab == TransferSpec => []OneCopy
  <1>1. TransferInv => OneCopy
    BY InPlaceIsOne DEF OneCopy
  <1>. QED  BY <1>1, TransferInvariant, PTL
===============================================================================
