---------------------------- MODULE SessionProofs ----------------------------
(***************************************************************************)
(* Proofs about what survives the end of a process: the session of a hot   *)
(* exit (HotExit) and the snapshots of unsaved documents (CrashRecovery),  *)
(* for any windows, files, texts, leftovers and bounds.                    *)
(*                                                                         *)
(* Of the first: the shape of its state, that a capture takes only answers *)
(* of its own, and that captured text is on disk until a window shows it.  *)
(* Of the second: the shape of its state, and that what an earlier process *)
(* left stays on disk until it is shown or gives way to a newer snapshot,  *)
(* and that what this one wrote goes when its document is clean or closed. *)
(***************************************************************************)
EXTENDS HotExit, CrashRecovery, FiniteSetTheorems, WellFoundedInduction, TLAPS

-----------------------------------------------------------------------------
(* Hot exit: the invariants. *)

\* A set of window states has one of each window.
OfEach(ws) == \A v, w \in ws : v.label = w.label => v = w

\* The bounds leave room for what is counted.
CountInv ==
    /\ run + asked + buttons <= Budget
    /\ pend.gen <= buttons + 1
    /\ startup \in {"start", "listen"} => pend.gen <= buttons

\* The files and what is captured have one state of each window, a captured
\* session is not empty, and the payload last written is the session.
SessionInv ==
    /\ OfEach(session) /\ OfEach(backup) /\ OfEach(from)
    /\ \A c \in Captures : /\ OfEach(cap[c].got)
                           /\ cap[c].phase \in {"captured", "backup", "persist", "done"} => cap[c].got # {}
    /\ session = {} \/ written = {} \/ session = written
    /\ startup = "listen" => from # {}

Kept(t) == \E w \in ReadSession : Covers(w.text, t)

\* A capture has the application for itself, and leaves its session.
Alone ==
    \A c \in Captures : cap[c].phase # "idle" =>
        /\ startup = "done" /\ owed = {}
        /\ \A d \in Captures \ {c} : cap[d].phase = "idle"
        /\ cap[c].phase = "done" => session = cap[c].got

\* Before the restore nothing is pulled.
Before ==
    startup \in {"start", "listen"} =>
        /\ \A l \in Labels : rs[l] = "idle"
        /\ ~signal /\ event # "complete"
        /\ startup = "listen" => from = ReadSession

\* What is owed is with a window that has not restored it.
Awaited ==
    /\ OfEach(pend.states) /\ pend.expected = LabelsOf(pend.states)
    /\ \A l \in Labels : rs[l] \in {"apply", "mark"} => [label |-> l, text |-> held[l]] \in pend.states
    /\ \A l \in Labels : rs[l] = "mark" => \A t \in owed : ~Covers(held[l], t)
    /\ \A t \in owed : \E w \in pend.states : w.label \notin pend.completed /\ Covers(w.text, t)

During ==
    startup \in {"invoked", "direct", "await"} =>
        IF event = "complete" THEN owed = {} ELSE pend.expected = {} \/ Awaited

After == startup \in {"clear", "clearBackup"} => owed = {}

KeepInv ==
    faults \subseteq {"sameId"} =>
        /\ \A t \in owed : Kept(t)
        /\ Alone /\ Before /\ During /\ After

FreshInv ==
    /\ \A r \in requests : r.id <= asked
    /\ \A a \in answers : a.at >= a.id
    /\ \A c \in Captures : cap[c].id <= asked
    /\ "sameId" \notin faults => \A c \in Captures : cap[c].id = cap[c].since



\* The parts of HotExitTypeOK.
WindowType ==
    /\ run \in 1..Budget /\ open \subseteq Labels /\ texts \in [Labels -> WindowTexts]
    /\ nextLabel \in 1..(MaxLabel + 1)
FileType ==
    /\ session \subseteq WindowStates /\ backup \subseteq WindowStates
    /\ written \subseteq WindowStates /\ hourOld \in BOOLEAN
CaptureType ==
    /\ cap \in [Captures -> CaptureStates] /\ asked \in 0..MaxAsked
    /\ requests \subseteq [id : 0..MaxAsked, by : Captures, label : Labels]
    /\ answers \subseteq [id : 0..MaxAsked, label : Labels, text : WindowTexts, at : 0..MaxAsked]
PendType ==
    /\ pend \in [states : SUBSET WindowStates, expected : SUBSET Labels,
                  completed : SUBSET Labels, gen : Gens]
    /\ timer \in Gens /\ fired \subseteq Gens
StartType ==
    /\ startup \in {"start", "listen", "invoked", "direct", "await", "clear", "clearBackup", "done"}
    /\ from \subseteq WindowStates /\ event \in {"none", "complete", "failed"}
PullType ==
    /\ rs \in [Labels -> {"idle", "pull", "apply", "mark"}] /\ held \in [Labels -> WindowTexts]
    /\ guard \in BOOLEAN /\ signal \in BOOLEAN
HistoryType ==
    /\ buttons \in 0..Budget /\ owed \subseteq WindowTexts
    /\ faults \subseteq {"overlap", "uncreated", "sameId", "together"}

LEMMA HotExitParts ==
    HotExitTypeOK <=> /\ WindowType /\ FileType /\ CaptureType /\ PendType /\ StartType
                      /\ PullType /\ HistoryType
  BY DEF HotExitTypeOK, WindowType, FileType, CaptureType, PendType, StartType, PullType, HistoryType

LEMMA HotExitNextParts ==
    HotExitTypeOK' <=> /\ WindowType' /\ FileType' /\ CaptureType' /\ PendType' /\ StartType'
                       /\ PullType' /\ HistoryType'
  BY DEF HotExitTypeOK, WindowType, FileType, CaptureType, PendType, StartType, PullType, HistoryType

\* What a step leaves alone keeps its type.
LEMMA HotExitFrames ==
    ASSUME HotExitTypeOK
    PROVE  /\ UNCHANGED windows => WindowType' /\ UNCHANGED <<run, open, texts, nextLabel>>
           /\ UNCHANGED sessionFiles => FileType' /\ UNCHANGED <<session, backup, written, hourOld>>
           /\ UNCHANGED capturing => CaptureType' /\ UNCHANGED <<cap, asked, requests, answers>>
           /\ UNCHANGED pulling => PullType' /\ UNCHANGED <<rs, held, guard, signal>>
           /\ UNCHANGED <<pend, timer, fired>> => PendType'
           /\ UNCHANGED <<startup, from, event>> => StartType'
           /\ UNCHANGED <<buttons, owed, faults>> => HistoryType'
  <1>1. UNCHANGED windows => WindowType' /\ UNCHANGED <<run, open, texts, nextLabel>>
    BY HotExitParts DEF WindowType, windows
  <1>2. UNCHANGED sessionFiles => FileType' /\ UNCHANGED <<session, backup, written, hourOld>>
    BY HotExitParts DEF FileType, sessionFiles
  <1>3. UNCHANGED capturing => CaptureType' /\ UNCHANGED <<cap, asked, requests, answers>>
    BY HotExitParts DEF CaptureType, capturing
  <1>4. UNCHANGED pulling => PullType' /\ UNCHANGED <<rs, held, guard, signal>>
    BY HotExitParts DEF PullType, pulling
  <1>5. UNCHANGED <<pend, timer, fired>> => PendType'
    BY HotExitParts DEF PendType
  <1>6. UNCHANGED <<startup, from, event>> => StartType'
    BY HotExitParts DEF StartType
  <1>7. UNCHANGED <<buttons, owed, faults>> => HistoryType'
    BY HotExitParts DEF HistoryType
  <1>. QED  BY <1>1, <1>2, <1>3, <1>4, <1>5, <1>6, <1>7

LEMMA RestoringIs ==
    UNCHANGED restoring => /\ UNCHANGED <<pend, timer, fired, startup, from, event, buttons>>
                           /\ UNCHANGED pulling
  BY DEF restoring

LEMMA BlankText == Blank \in WindowTexts
  BY HotExitBounds DEF Blank, WindowTexts

LEMMA IdleCapture == Idle \in CaptureStates
  BY HotExitBounds DEF Idle, CaptureStates

LEMMA LabelsAreFinite ==
    /\ IsFiniteSet(Labels) /\ MainWindow \in Labels
    /\ \A S : S \subseteq Labels => IsFiniteSet(S) /\ Cardinality(S) \in Nat
                                    /\ (S # {} => Cardinality(S) >= 1)
  <1>1. IsFiniteSet(Labels) /\ MainWindow \in Labels
    BY HotExitBounds, FS_Interval DEF Labels, MainWindow
  <1>2. ASSUME NEW S, S \subseteq Labels
        PROVE  IsFiniteSet(S) /\ Cardinality(S) \in Nat /\ (S # {} => Cardinality(S) >= 1)
    BY <1>1, <1>2, FS_Subset, FS_CardinalityType, FS_EmptySet
  <1>. QED  BY <1>1, <1>2

-----------------------------------------------------------------------------
(* What the steps of a capture do to its record. *)

\* A capture enters another phase.
LEMMA PhaseStep ==
    ASSUME HotExitTypeOK, NEW c \in Captures,
           NEW p \in {"waiting", "captured", "backup", "persist", "done", "failed"},
           cap' = [cap EXCEPT ![c].phase = p]
    PROVE  /\ cap' \in [Captures -> CaptureStates]
           /\ cap'[c].phase = p /\ \A d \in Captures \ {c} : cap'[d].phase = cap[d].phase
           /\ \A d \in Captures : /\ cap'[d].got = cap[d].got
                                  /\ cap'[d].id = cap[d].id /\ cap'[d].since = cap[d].since
  <1>1. cap \in [Captures -> CaptureStates]
    BY DEF HotExitTypeOK
  <1>2. PICK k : k = [cap[c] EXCEPT !.phase = p]
    OBVIOUS
  <1>3. /\ k \in CaptureStates /\ k.phase = p
        /\ k.got = cap[c].got /\ k.id = cap[c].id /\ k.since = cap[c].since
    BY <1>1, <1>2 DEF CaptureStates
  <1>4. cap' = [cap EXCEPT ![c] = k]
    BY <1>2
  <1>. QED  BY <1>1, <1>3, <1>4

LEMMA RecordStep ==
    ASSUME HotExitTypeOK, NEW c \in Captures, NEW k \in CaptureStates, cap' = [cap EXCEPT ![c] = k]
    PROVE  /\ cap' \in [Captures -> CaptureStates] /\ cap'[c] = k
           /\ \A d \in Captures \ {c} : cap'[d] = cap[d]
  BY DEF HotExitTypeOK

LEMMA ReadFile ==
    ASSUME HotExitTypeOK PROVE ReadSession \subseteq WindowStates
  BY DEF HotExitTypeOK, ReadSession

LEMMA BeginIs ==
    ASSUME HotExitTypeOK, NEW c \in Captures, NEW id \in 1..MaxAsked, Begin(c, id)
    PROVE  \E k \in CaptureStates :
              /\ k = [phase |-> "waiting", id |-> id, since |-> asked + 1, expected |-> open, got |-> {}]
              /\ cap' = [cap EXCEPT ![c] = k] /\ asked' \in 0..MaxAsked
  <1>1. PICK k : k = [phase |-> "waiting", id |-> id, since |-> asked + 1, expected |-> open, got |-> {}]
    OBVIOUS
  <1>2. asked + 1 \in 0..MaxAsked
    <2>1. Cardinality(open) \in Nat
      BY LabelsAreFinite DEF HotExitTypeOK
    <2>2. run \in Nat \ {0} /\ asked \in Nat /\ run + asked + Cardinality(open) <= MaxAsked
      BY HotExitBounds DEF Begin, HotExitTypeOK
    <2>. QED  BY <2>1, <2>2, HotExitBounds
  <1>3. k \in CaptureStates
    BY <1>1, <1>2, HotExitBounds DEF CaptureStates, HotExitTypeOK
  <1>. QED  BY <1>1, <1>2, <1>3 DEF Begin

LEMMA BeginType ==
    ASSUME HotExitTypeOK, NEW c \in Captures, NEW id \in 1..MaxAsked, Begin(c, id)
    PROVE  HotExitTypeOK'
  <1>1. WindowType' /\ FileType' /\ PendType' /\ StartType' /\ PullType'
    BY HotExitFrames, RestoringIs DEF Begin
  <1>2. CaptureType'
    <2>1. PICK k \in CaptureStates : cap' = [cap EXCEPT ![c] = k] /\ asked' \in 0..MaxAsked
      BY BeginIs
    <2>2. [id : {id}, by : {c}, label : open] \subseteq [id : 0..MaxAsked, by : Captures, label : Labels]
      BY HotExitBounds DEF HotExitTypeOK
    <2>. QED  BY <2>1, <2>2, RecordStep DEF CaptureType, Begin, HotExitTypeOK
  <1>3. HistoryType'
    BY RestoringIs DEF HistoryType, Begin, HotExitTypeOK
  <1>. QED  BY <1>1, <1>2, <1>3, HotExitNextParts

LEMMA AnswerType ==
    ASSUME HotExitTypeOK, NEW r \in requests, Answer(r)
    PROVE  HotExitTypeOK'
  <1>1. WindowType' /\ FileType' /\ PendType' /\ StartType' /\ PullType' /\ HistoryType'
    BY HotExitFrames, RestoringIs DEF Answer
  <1>2. PICK a : a = [id |-> r.id, label |-> r.label, text |-> texts[r.label], at |-> asked]
    OBVIOUS
  <1>3. a \in [id : 0..MaxAsked, label : Labels, text : WindowTexts, at : 0..MaxAsked]
    BY <1>2 DEF HotExitTypeOK
  <1>4. answers' = answers \union {a}
    BY <1>2 DEF Answer
  <1>5. CaptureType'
    BY <1>3, <1>4, HotExitParts DEF Answer, CaptureType
  <1>. QED  BY <1>1, <1>5, HotExitNextParts

\* What a response adds to the captures that accept it.
LEMMA DeliverIs ==
    ASSUME HotExitTypeOK, NEW a \in answers, Deliver(a)
    PROVE  /\ cap' \in [Captures -> CaptureStates]
           /\ \A c \in Captures :
                 /\ cap'[c].phase = cap[c].phase /\ cap'[c].id = cap[c].id
                 /\ cap'[c].since = cap[c].since
                 /\ cap'[c].got = IF Accepts(c, a)
                                  THEN cap[c].got \union {[label |-> a.label, text |-> a.text]}
                                  ELSE cap[c].got
  <1>1. PICK w \in WindowStates : w = [label |-> a.label, text |-> a.text]
    BY DEF HotExitTypeOK, WindowStates
  <1>2. ASSUME NEW c \in Captures
        PROVE  /\ cap'[c] \in CaptureStates
               /\ cap'[c].phase = cap[c].phase /\ cap'[c].id = cap[c].id
               /\ cap'[c].since = cap[c].since
               /\ cap'[c].got = IF Accepts(c, a) THEN cap[c].got \union {w} ELSE cap[c].got
    <2>1. PICK k : k = [cap[c] EXCEPT !.got = cap[c].got \union {w}]
      OBVIOUS
    <2>2. cap[c] \in CaptureStates
      BY DEF HotExitTypeOK
    <2>3. /\ k \in CaptureStates /\ k.phase = cap[c].phase /\ k.id = cap[c].id
          /\ k.since = cap[c].since /\ k.got = cap[c].got \union {w}
      BY <2>1, <2>2 DEF CaptureStates
    <2>4. cap'[c] = IF Accepts(c, a) THEN k ELSE cap[c]
      BY <1>1, <2>1 DEF Deliver
    <2>. QED  BY <2>2, <2>3, <2>4
  <1>3. cap' \in [Captures -> CaptureStates]
    <2>1. cap' = [c \in Captures |-> cap'[c]]
      BY DEF Deliver
    <2>. QED  BY <1>2, <2>1
  <1>. QED  BY <1>1, <1>2, <1>3

LEMMA MergeIs ==
    ASSUME HotExitTypeOK, NEW c \in Captures, Merge(c)
    PROVE  /\ cap' \in [Captures -> CaptureStates]
           /\ \A d \in Captures \ {c} : cap'[d] = cap[d]
           /\ cap'[c].phase = "backup" /\ cap'[c].id = cap[c].id /\ cap'[c].since = cap[c].since
           /\ \E taken \in SUBSET {w \in ReadSession : w.label \notin LabelsOf(cap[c].got)} :
                 cap'[c].got = cap[c].got \union taken
  <1>1. PICK taken : /\ taken = {w \in ReadSession : ~hourOld /\ w.label \in cap[c].expected \ LabelsOf(cap[c].got)}
                    /\ cap' = [cap EXCEPT ![c].got = @ \union taken, ![c].phase = "backup"]
    BY DEF Merge
  <1>2. PICK k : k = [cap[c] EXCEPT !.got = cap[c].got \union taken, !.phase = "backup"]
    OBVIOUS
  <1>3. cap' = [cap EXCEPT ![c] = k]
    BY <1>1, <1>2 DEF HotExitTypeOK
  <1>4. cap[c] \in CaptureStates /\ taken \subseteq WindowStates
    BY <1>1, ReadFile DEF HotExitTypeOK
  <1>5. /\ k \in CaptureStates /\ k.phase = "backup" /\ k.id = cap[c].id
        /\ k.since = cap[c].since /\ k.got = cap[c].got \union taken
    BY <1>2, <1>4 DEF CaptureStates
  <1>. QED  BY <1>1, <1>3, <1>5, RecordStep

LEMMA CaptureSteps ==
    ASSUME HotExitTypeOK, NEW c \in Captures,
           \/ EndWait(c) \/ Merge(c) \/ SkipWrite(c) \/ WriteBackup(c) \/ WriteSession(c)
           \/ CaptureWriteFails(c) \/ EndCapture(c) \/ \E a \in answers : Deliver(a)
    PROVE  HotExitTypeOK'
  <1>0. \A p \in {"captured", "backup", "persist", "done", "failed"} :
           cap' = [cap EXCEPT ![c].phase = p] => cap' \in [Captures -> CaptureStates]
    BY PhaseStep
  <1>1. WindowType' /\ PendType' /\ StartType' /\ PullType' /\ HistoryType'
    BY HotExitFrames, RestoringIs
    DEF EndWait, Merge, SkipWrite, WriteBackup, WriteSession, CaptureWriteFails, EndCapture, Deliver
  <1>2. cap' \in [Captures -> CaptureStates]
    BY <1>0, MergeIs, DeliverIs, RecordStep, IdleCapture
    DEF EndWait, SkipWrite, WriteBackup, WriteSession, CaptureWriteFails, EndCapture
  <1>3. UNCHANGED <<asked, requests>> /\ (answers' = answers \/ \E a \in answers : answers' = answers \ {a})
    BY DEF EndWait, Merge, SkipWrite, WriteBackup, WriteSession, CaptureWriteFails, EndCapture, Deliver
  <1>4. CaptureType'
    BY <1>2, <1>3, HotExitParts DEF CaptureType
  <1>5. FileType'
    <2>1. CASE UNCHANGED sessionFiles
      BY <2>1, HotExitFrames
    <2>2. CASE WriteBackup(c)
      BY <2>2, HotExitParts, ReadFile DEF WriteBackup, FileType
    <2>3. CASE WriteSession(c)
      <3>1. cap[c].got \subseteq WindowStates
        BY DEF HotExitTypeOK, CaptureStates
      <3>. QED  BY <2>3, <3>1, HotExitParts DEF WriteSession, FileType
    <2>. QED
      BY <2>1, <2>2, <2>3 DEF EndWait, Merge, SkipWrite, CaptureWriteFails, EndCapture, Deliver
  <1>. QED  BY <1>1, <1>4, <1>5, HotExitNextParts

-----------------------------------------------------------------------------
(* What the user and the system do. *)

LEMMA EditTextType ==
    ASSUME HotExitTypeOK, NEW l \in Labels, EditText(l) PROVE HotExitTypeOK'
  <1>1. FileType' /\ CaptureType' /\ PendType' /\ StartType' /\ PullType' /\ HistoryType'
    BY HotExitFrames, RestoringIs DEF EditText
  <1>2. PICK u : u = [texts[l] EXCEPT !.ver = @ + 1]
    OBVIOUS
  <1>3. u \in WindowTexts
    <2>1. Cardinality(open) \in Nat /\ Cardinality(open) >= 1
      BY LabelsAreFinite DEF EditText, HotExitTypeOK
    <2>2. texts[l] \in WindowTexts /\ texts[l].ver + Cardinality(open) <= MaxVer
      BY DEF EditText, HotExitTypeOK
    <2>3. texts[l].ver + 1 \in 0..MaxVer
      BY <2>1, <2>2, HotExitBounds DEF WindowTexts
    <2>. QED  BY <1>2, <2>2, <2>3 DEF WindowTexts
  <1>4. texts' = [texts EXCEPT ![l] = u]
    BY <1>2 DEF EditText
  <1>5. WindowType'
    BY <1>3, <1>4, HotExitParts DEF EditText, WindowType
  <1>. QED  BY <1>1, <1>5, HotExitNextParts

LEMMA CloseWindowType ==
    ASSUME HotExitTypeOK, NEW l \in Labels, CloseWindow(l) PROVE HotExitTypeOK'
  <1>1. FileType' /\ PendType' /\ HistoryType'
    BY HotExitFrames DEF CloseWindow
  <1>2. CaptureType'
    BY HotExitParts DEF CloseWindow, CaptureType
  <1>3. WindowType'
    BY HotExitParts, BlankText DEF CloseWindow, WindowType
  <1>4. PullType'
    BY HotExitParts, BlankText DEF CloseWindow, PullType
  <1>5. StartType'
    BY HotExitParts DEF CloseWindow, StartType
  <1>. QED  BY <1>1, <1>2, <1>3, <1>4, <1>5, HotExitNextParts

LEMMA NewRunType ==
    ASSUME HotExitTypeOK, CountInv, NewRun, faults' = faults, owed' \subseteq WindowTexts
    PROVE  HotExitTypeOK'
  <1>1. WindowType'
    <2>1. run' \in 1..Budget
      BY HotExitBounds DEF NewRun, Spare, CountInv, HotExitTypeOK
    <2>2. open' \subseteq Labels /\ nextLabel' \in 1..(MaxLabel + 1)
      BY LabelsAreFinite, HotExitBounds DEF NewRun
    <2>. QED  BY <2>1, <2>2, BlankText DEF NewRun, WindowType
  <1>2. FileType'
    BY HotExitParts DEF NewRun, FileType
  <1>3. CaptureType'
    BY HotExitParts, IdleCapture DEF NewRun, CaptureType
  <1>4. PendType'
    BY HotExitBounds DEF NewRun, PendType, Gens
  <1>5. StartType' /\ PullType'
    BY BlankText DEF NewRun, StartType, PullType
  <1>6. HistoryType'
    BY HotExitParts DEF NewRun, HistoryType
  <1>. QED  BY <1>1, <1>2, <1>3, <1>4, <1>5, <1>6, HotExitNextParts

LEMMA NewRunSteps ==
    ASSUME HotExitTypeOK, CountInv, Crash \/ Relaunch
    PROVE  HotExitTypeOK'
  <1>1. TextsOf({w \in cap["restart"].got : w.label \in open}) \subseteq WindowTexts
    <2>1. cap["restart"].got \subseteq WindowStates
      BY DEF HotExitTypeOK, CaptureStates, Captures
    <2>. QED  BY <2>1 DEF TextsOf, WindowStates
  <1>2. NewRun /\ faults' = faults /\ owed' \subseteq WindowTexts
    BY <1>1 DEF Crash, Relaunch, HotExitTypeOK
  <1>. QED  BY <1>2, NewRunType

-----------------------------------------------------------------------------
(* What the restore does. *)

LEMMA ClearedType ==
    ASSUME HotExitTypeOK
    PROVE  Cleared(pend) \in [states : SUBSET WindowStates, expected : SUBSET Labels,
                              completed : SUBSET Labels, gen : Gens]
  BY DEF Cleared, HotExitTypeOK

\* What marking a window does to the pending state.
LEMMA MarkIs ==
    ASSUME HotExitTypeOK, NEW l \in Labels, Mark(l)
    PROVE  \E done \in SUBSET Labels :
              /\ done = IF l \in pend.expected THEN pend.completed \union {l} ELSE pend.completed
              /\ IF pend.expected # {} /\ pend.expected \subseteq done
                 THEN /\ pend' = Cleared(pend) /\ Emit("complete")
                      /\ guard' = (guard /\ l # MainWindow)
                 ELSE /\ pend' = [states |-> pend.states, expected |-> pend.expected,
                                  completed |-> done, gen |-> pend.gen]
                      /\ event' = event /\ guard' = guard
  <1>1. PICK done : done = IF l \in pend.expected THEN pend.completed \union {l} ELSE pend.completed
    OBVIOUS
  <1>2. done \subseteq Labels
    BY <1>1 DEF HotExitTypeOK
  <1>3. [pend EXCEPT !.completed = done] =
           [states |-> pend.states, expected |-> pend.expected, completed |-> done, gen |-> pend.gen]
    BY DEF HotExitTypeOK
  <1>4. CASE pend.expected # {} /\ pend.expected \subseteq done
    BY <1>1, <1>2, <1>4 DEF Mark
  <1>5. CASE ~(pend.expected # {} /\ pend.expected \subseteq done)
    BY <1>1, <1>2, <1>3, <1>5 DEF Mark, HotExitTypeOK
  <1>. QED  BY <1>4, <1>5

LEMMA MarkType ==
    ASSUME HotExitTypeOK, NEW l \in Labels, Mark(l) PROVE HotExitTypeOK'
  <1>1. WindowType' /\ FileType' /\ CaptureType' /\ HistoryType'
    BY HotExitFrames DEF Mark
  <1>2. PICK done \in SUBSET Labels :
              IF pend.expected # {} /\ pend.expected \subseteq done
              THEN /\ pend' = Cleared(pend) /\ Emit("complete")
                   /\ guard' = (guard /\ l # MainWindow)
              ELSE /\ pend' = [states |-> pend.states, expected |-> pend.expected,
                               completed |-> done, gen |-> pend.gen]
                   /\ event' = event /\ guard' = guard
    BY MarkIs
  <1>3. PendType'
    BY <1>2, ClearedType DEF Mark, PendType, HotExitTypeOK
  <1>4. StartType'
    BY <1>2, HotExitParts DEF Mark, Emit, Returns, StartType
  <1>5. PullType'
    BY <1>2, HotExitParts, BlankText DEF Mark, PullType
  <1>. QED  BY <1>1, <1>3, <1>4, <1>5, HotExitNextParts

LEMMA PullSteps ==
    ASSUME HotExitTypeOK, NEW l \in Labels, Pull(l) \/ GiveUp(l) \/ Apply(l) \/ ApplyFails(l)
    PROVE  HotExitTypeOK'
  <1>1. FileType' /\ CaptureType' /\ PendType'
    BY HotExitFrames DEF Pull, GiveUp, Apply, ApplyFails
  <1>2. HistoryType'
    BY HotExitParts DEF HistoryType, Pull, GiveUp, Apply, ApplyFails
  <1>3. WindowType'
    <2>1. CASE Apply(l)
      BY <2>1, HotExitParts DEF Apply, WindowType, PullType
    <2>. QED  BY <2>1, HotExitFrames DEF Pull, GiveUp, ApplyFails
  <1>4. StartType'
    BY HotExitParts DEF StartType, Pull, GiveUp, Apply, ApplyFails, Emit, Returns
  <1>5. PullType'
    <2>1. CASE Pull(l)
      <3>1. PICK w \in pend.states : held' = [held EXCEPT ![l] = w.text]
        BY <2>1 DEF Pull
      <3>2. w.text \in WindowTexts
        BY DEF HotExitTypeOK, WindowStates
      <3>. QED  BY <2>1, <3>1, <3>2, HotExitParts DEF Pull, PullType
    <2>2. CASE GiveUp(l)
      BY <2>2, HotExitParts DEF GiveUp, PullType
    <2>3. CASE Apply(l)
      BY <2>3, HotExitParts DEF Apply, PullType
    <2>4. CASE ApplyFails(l)
      BY <2>4, HotExitParts, BlankText DEF ApplyFails, PullType
    <2>. QED  BY <2>1, <2>2, <2>3, <2>4
  <1>. QED  BY <1>1, <1>2, <1>3, <1>4, <1>5, HotExitNextParts

LEMMA StartSteps ==
    ASSUME HotExitTypeOK,
           \/ HourPasses \/ Inspect \/ Refuse \/ Direct \/ HearStart \/ RestoreTimeout \/ Resolved
           \/ ClearSession \/ ClearBackup \/ Expire \/ \E g \in Gens : RunExpired(g)
    PROVE  HotExitTypeOK'
  <1>0. USE HotExitParts
  <1>1. WindowType' /\ CaptureType' /\ HistoryType'
    BY HotExitFrames, RestoringIs
    DEF HourPasses, Inspect, Refuse, Direct, HearStart, RestoreTimeout, Resolved, ClearSession,
        ClearBackup, Expire, RunExpired
  <1>2. FileType'
    BY DEF FileType, sessionFiles, HourPasses, Inspect, Refuse, Direct, HearStart, RestoreTimeout, Resolved,
           ClearSession, ClearBackup, Expire, RunExpired
  <1>3. PendType'
    <2>1. CASE ClearSession
      BY <2>1, ClearedType DEF ClearSession, PendType
    <2>2. CASE Expire
      BY <2>2, HotExitParts, HotExitBounds DEF Expire, PendType, Gens
    <2>3. ASSUME NEW g \in Gens, RunExpired(g) PROVE PendType'
      <3>1. pend' = Cleared(pend) \/ pend' = pend
        BY <2>3 DEF RunExpired
      <3>2. fired' \subseteq fired /\ timer' = timer
        BY <2>3 DEF RunExpired
      <3>. QED  BY <3>1, <3>2, ClearedType DEF PendType
    <2>. QED
      BY <2>1, <2>2, <2>3, HotExitFrames, RestoringIs
      DEF HourPasses, Inspect, Refuse, Direct, HearStart, RestoreTimeout, Resolved, ClearBackup
  <1>4. StartType'
    BY ReadFile, RestoringIs DEF StartType, HourPasses, Inspect, Refuse, Direct, HearStart, RestoreTimeout, Resolved,
           ClearSession, ClearBackup, Expire, RunExpired
  <1>5. PullType'
    BY HotExitFrames, RestoringIs, LabelsAreFinite
    DEF PullType, HourPasses, Inspect, Refuse, Direct, HearStart, RestoreTimeout, Resolved,
        ClearSession, ClearBackup, Expire, RunExpired
  <1>. QED  BY <1>1, <1>2, <1>3, <1>4, <1>5, HotExitNextParts

-----------------------------------------------------------------------------
(* The labels of a restored session. *)

LEMMA LeastNumber ==
    ASSUME NEW S, S \subseteq Nat, S # {}
    PROVE  \E m \in S : \A n \in S : m <= n
  <1>1. PICK R : R = OpToRel(<, Nat)
    OBVIOUS
  <1>2. IsWellFoundedOn(R, Nat)
    BY <1>1, NatLessThanWellFounded
  <1>3. PICK m \in S : \A n \in S : <<n, m>> \notin R
    BY <1>2, WFMin
  <1>4. \A n \in S : ~(n < m)
    BY <1>1, <1>3 DEF OpToRel
  <1>. QED  BY <1>3, <1>4

LEMMA StateLabels ==
    ASSUME NEW w \in WindowStates
    PROVE  w.label \in Nat /\ w.label <= MaxLabel /\ w.label \in Labels /\ w.text \in WindowTexts
  BY HotExitBounds DEF WindowStates, Labels

LEMMA MainStateIs ==
    ASSUME NEW ws, ws \subseteq WindowStates, ws # {}
    PROVE  MainState(ws) \in ws /\ \A v \in ws : MainState(ws).label <= v.label
  <1>1. PICK S : S = {w.label : w \in ws}
    OBVIOUS
  <1>2. S \subseteq Nat /\ S # {}
    BY <1>1, StateLabels
  <1>3. PICK m \in S : \A n \in S : m <= n
    BY <1>2, LeastNumber
  <1>4. \E w \in ws : \A v \in ws : w.label <= v.label
    BY <1>1, <1>3
  <1>. QED  BY <1>4 DEF MainState

\* States of different windows are as many as their labels at most.
LEMMA OfEachIsSmall ==
    ASSUME NEW ws, ws \subseteq WindowStates, OfEach(ws), NEW a \in Nat, NEW b \in Nat,
           \A w \in ws : a <= w.label /\ w.label <= b
    PROVE  /\ IsFiniteSet(ws) /\ Cardinality(ws) \in Nat
           /\ Cardinality(ws) <= IF a > b THEN 0 ELSE b - a + 1
  <1>1. PICK f : f = [w \in ws |-> w.label]
    OBVIOUS
  <1>2. f \in Injection(ws, a..b)
    BY <1>1, StateLabels DEF OfEach, Injection, IsInjective
  <1>3. /\ IsFiniteSet(a..b) /\ Cardinality(a..b) = IF a > b THEN 0 ELSE b - a + 1
    BY FS_Interval
  <1>4. IsFiniteSet(ws) /\ Cardinality(ws) <= Cardinality(a..b)
    BY <1>2, <1>3, FS_Injection
  <1>. QED  BY <1>3, <1>4, FS_CardinalityType

LEMMA RenamedApart ==
    ASSUME HotExitTypeOK, NEW ws, ws \subseteq WindowStates, OfEach(ws)
    PROVE  \A v, w \in Secondary(ws) :
              /\ Renamed(ws, w) \in Nat /\ Renamed(ws, w) >= nextLabel
              /\ Renamed(ws, v) = Renamed(ws, w) => v = w
  <1>1. IsFiniteSet(ws)
    BY StateLabels, OfEachIsSmall, HotExitBounds
  <1>2. nextLabel \in Nat
    BY DEF HotExitTypeOK
  <1>3. ASSUME NEW w \in Secondary(ws), NEW F, F = {u \in Secondary(ws) : u.label < w.label}
        PROVE  /\ IsFiniteSet(F) /\ Cardinality(F) \in Nat /\ Renamed(ws, w) = nextLabel + Cardinality(F)
    <2>1. F \in SUBSET ws
      BY <1>3 DEF Secondary
    <2>. QED  BY <1>1, <1>3, <2>1, FS_Subset, FS_CardinalityType DEF Renamed
  <1>4. \A w \in Secondary(ws) : Renamed(ws, w) \in Nat /\ Renamed(ws, w) >= nextLabel
    <2>. SUFFICES ASSUME NEW w \in Secondary(ws)
                  PROVE  Renamed(ws, w) \in Nat /\ Renamed(ws, w) >= nextLabel
      OBVIOUS
    <2>1. PICK F : F = {u \in Secondary(ws) : u.label < w.label}
      OBVIOUS
    <2>2. Cardinality(F) \in Nat /\ Renamed(ws, w) = nextLabel + Cardinality(F)
      BY <1>3, <2>1
    <2>. QED  BY <1>2, <2>2
  <1>5. ASSUME NEW v \in Secondary(ws), NEW w \in Secondary(ws), v.label < w.label
        PROVE  Renamed(ws, v) < Renamed(ws, w)
    <2>1. PICK F : F = {u \in Secondary(ws) : u.label < v.label}
      OBVIOUS
    <2>2. PICK G : G = {u \in Secondary(ws) : u.label < w.label}
      OBVIOUS
    <2>3. F \in SUBSET G /\ v \in G /\ v \notin F
      <3>1. \A u \in Secondary(ws) : u.label \in Nat
        BY StateLabels DEF Secondary
      <3>. QED  BY <1>5, <2>1, <2>2, <3>1
    <2>4. /\ IsFiniteSet(F) /\ Cardinality(F) \in Nat /\ Renamed(ws, v) = nextLabel + Cardinality(F)
          /\ IsFiniteSet(G) /\ Cardinality(G) \in Nat /\ Renamed(ws, w) = nextLabel + Cardinality(G)
      BY <1>3, <2>1, <2>2
    <2>5. Cardinality(F) <= Cardinality(G) /\ Cardinality(F) # Cardinality(G)
      BY <2>3, <2>4, FS_Subset
    <2>. QED  BY <1>2, <2>4, <2>5
  <1>6. ASSUME NEW v \in Secondary(ws), NEW w \in Secondary(ws), Renamed(ws, v) = Renamed(ws, w)
        PROVE  v = w
    <2>1. v.label \in Nat /\ w.label \in Nat
      BY StateLabels DEF Secondary
    <2>2. ~(v.label < w.label) /\ ~(w.label < v.label)
      BY <1>4, <1>5, <1>6
    <2>. QED  BY <2>1, <2>2 DEF OfEach, Secondary
  <1>. QED  BY <1>4, <1>6

Others(ws) == {[label |-> Renamed(ws, w), text |-> w.text] : w \in Secondary(ws)}
Own(ws) == [label |-> MainWindow, text |-> MainState(ws).text]

LEMMA OthersAre ==
    ASSUME HotExitTypeOK, NEW ws, ws \subseteq WindowStates, OfEach(ws)
    PROVE  /\ \A o \in Others(ws) : o.label \in Nat /\ o.label >= nextLabel
           /\ OfEach(Others(ws))
           /\ LabelsOf(Others(ws)) \subseteq Labels => Others(ws) \subseteq WindowStates
  <1>1. \A o \in Others(ws) : \E w \in Secondary(ws) :
            o = [label |-> Renamed(ws, w), text |-> w.text]
    BY DEF Others
  <1>2. \A o \in Others(ws) : o.label \in Nat /\ o.label >= nextLabel
    BY <1>1, RenamedApart
  <1>3. OfEach(Others(ws))
    BY <1>1, RenamedApart DEF OfEach
  <1>4. ASSUME LabelsOf(Others(ws)) \subseteq Labels PROVE Others(ws) \subseteq WindowStates
    <2>1. \A w \in Secondary(ws) : w.text \in WindowTexts
      BY StateLabels DEF Secondary
    <2>. QED  BY <1>1, <1>4, <2>1 DEF LabelsOf, WindowStates
  <1>. QED  BY <1>2, <1>3, <1>4

\* The main window's state and the others have all texts of the session.
LEMMA AllTextsGo ==
    ASSUME NEW ws, ws \subseteq WindowStates, ws # {}, OfEach(ws)
    PROVE  \A w \in ws : \E o \in {Own(ws)} \union Others(ws) : o.text = w.text
  <1>1. ASSUME NEW w \in ws, w.label # MainWindow
        PROVE  \E o \in Others(ws) : o.text = w.text
    <2>1. PICK o : o = [label |-> Renamed(ws, w), text |-> w.text]
      OBVIOUS
    <2>2. o \in Others(ws) /\ o.text = w.text
      BY <1>1, <2>1 DEF Others, Secondary
    <2>. QED  BY <2>2
  <1>2. ASSUME NEW w \in ws, w.label = MainWindow PROVE Own(ws).text = w.text
    <2>1. MainState(ws) \in ws /\ MainState(ws).label <= w.label /\ MainState(ws).label \in Nat
      BY MainStateIs, StateLabels
    <2>2. MainState(ws).label = w.label
      BY <1>2, <2>1 DEF MainWindow
    <2>. QED  BY <2>1, <2>2 DEF OfEach, Own
  <1>. QED  BY <1>1, <1>2

LEMMA InvokeIs ==
    ASSUME HotExitTypeOK, SessionInv, NEW made \in SUBSET Labels, Invoke(made)
    PROVE  /\ made \subseteq LabelsOf(Others(from)) /\ Others(from) \subseteq WindowStates
           /\ OfEach({Own(from)} \union Others(from)) /\ Own(from) \in WindowStates
           /\ Store({Own(from)} \union {w \in Others(from) : w.label \in made})
           /\ nextLabel' = nextLabel + Cardinality(Others(from))
           /\ nextLabel' \in 1..(MaxLabel + 1)
           /\ faults' = IF made # LabelsOf(Others(from)) THEN faults \union {"uncreated"} ELSE faults
  <1>1. from \subseteq WindowStates /\ from # {} /\ OfEach(from) /\ nextLabel \in 1..(MaxLabel + 1)
    BY DEF HotExitTypeOK, SessionInv, Invoke
  <1>2. /\ made \subseteq LabelsOf(Others(from)) /\ LabelsOf(Others(from)) \subseteq Labels
        /\ Store({Own(from)} \union {w \in Others(from) : w.label \in made})
        /\ nextLabel' = nextLabel + Cardinality(Others(from))
        /\ faults' = IF made # LabelsOf(Others(from)) THEN faults \union {"uncreated"} ELSE faults
    BY DEF Invoke, Own, Others
  <1>3. /\ Others(from) \subseteq WindowStates /\ OfEach(Others(from))
        /\ \A o \in Others(from) : o.label \in Nat /\ o.label >= nextLabel
    BY <1>1, <1>2, OthersAre
  <1>4. Own(from) \in WindowStates /\ Own(from).label = 0
    BY <1>1, MainStateIs, StateLabels, LabelsAreFinite DEF Own, MainWindow, WindowStates
  <1>5. OfEach({Own(from)} \union Others(from))
    BY <1>1, <1>3, <1>4 DEF OfEach
  <1>6. nextLabel' \in 1..(MaxLabel + 1)
    <2>1. /\ Cardinality(Others(from)) \in Nat
          /\ Cardinality(Others(from)) <= IF nextLabel > MaxLabel THEN 0 ELSE MaxLabel - nextLabel + 1
      BY <1>1, <1>3, StateLabels, OfEachIsSmall, HotExitBounds
    <2>. QED  BY <1>1, <1>2, <2>1, HotExitBounds
  <1>. QED  BY <1>2, <1>3, <1>4, <1>5, <1>6

LEMMA StoreType ==
    ASSUME HotExitTypeOK, NEW S, S \subseteq WindowStates, Store(S), pend.gen + 1 \in Gens
    PROVE  PendType' /\ signal' = TRUE
  <1>1. LabelsOf(S) \subseteq Labels
    BY StateLabels DEF LabelsOf
  <1>. QED  BY <1>1, HotExitParts DEF Store, PendType

LEMMA InvokeType ==
    ASSUME HotExitTypeOK, CountInv, SessionInv, NEW made \in SUBSET Labels, Invoke(made)
    PROVE  HotExitTypeOK'
  <1>1. FileType' /\ CaptureType'
    BY HotExitFrames DEF Invoke
  <1>2. PendType' /\ signal' = TRUE
    <2>1. pend.gen + 1 \in Gens
      BY HotExitBounds DEF HotExitTypeOK, CountInv, Invoke, Gens
    <2>2. {Own(from)} \union {w \in Others(from) : w.label \in made} \subseteq WindowStates
      BY InvokeIs
    <2>. QED  BY <2>1, <2>2, InvokeIs, StoreType
  <1>3. WindowType'
    BY InvokeIs, HotExitParts DEF Invoke, WindowType
  <1>4. StartType'
    BY HotExitParts DEF Invoke, StartType
  <1>5. PullType'
    BY <1>2, HotExitParts DEF Invoke, PullType
  <1>6. HistoryType'
    BY InvokeIs, HotExitParts DEF Invoke, HistoryType
  <1>. QED  BY <1>1, <1>2, <1>3, <1>4, <1>5, <1>6, HotExitNextParts

LEMMA ButtonType ==
    ASSUME HotExitTypeOK, CountInv, NEW l \in Labels, ButtonRestore(l)
    PROVE  HotExitTypeOK'
  <1>1. WindowType' /\ FileType' /\ CaptureType' /\ StartType'
    BY HotExitFrames DEF ButtonRestore
  <1>2. PendType' /\ signal' = TRUE
    <2>1. pend.gen + 1 \in Gens
      BY HotExitBounds DEF HotExitTypeOK, CountInv, ButtonRestore, Gens, Spare
    <2>2. MainState(ReadSession) \in WindowStates
      BY MainStateIs, ReadFile DEF ButtonRestore
    <2>3. {[label |-> l, text |-> MainState(ReadSession).text]} \subseteq WindowStates
      BY <2>2, StateLabels DEF WindowStates
    <2>. QED  BY <2>1, <2>3, StoreType DEF ButtonRestore
  <1>3. PullType'
    BY <1>2, HotExitParts DEF ButtonRestore, PullType
  <1>4. HistoryType'
    BY HotExitBounds, HotExitParts DEF ButtonRestore, HistoryType, Spare, CountInv, WindowType, CaptureType
  <1>. QED  BY <1>1, <1>2, <1>3, <1>4, HotExitNextParts

-----------------------------------------------------------------------------
(* The bounds, and the states of a session. *)

LEMMA HotExitStarts ==
    ASSUME HotExitInit
    PROVE  HotExitTypeOK /\ CountInv /\ SessionInv /\ KeepInv /\ FreshInv
  <1>1. Blank \in WindowTexts /\ Idle \in CaptureStates /\ MainWindow \in Labels /\ 1 \in Labels
    BY BlankText, IdleCapture, LabelsAreFinite, HotExitBounds DEF Labels
  <1>2. nextLabel \in 1..(MaxLabel + 1)
    <2>1. Cardinality({MainWindow}) = 1 /\ IsFiniteSet({MainWindow})
      BY FS_Singleton
    <2>2. Cardinality({MainWindow, 1}) = 2
      <3>1. {MainWindow, 1} = {MainWindow} \cup {1} /\ 1 \notin {MainWindow}
        BY DEF MainWindow
      <3>2. Cardinality({MainWindow} \cup {1}) = 2
        BY <2>1, <3>1, FS_AddElement
      <3>. QED  BY <3>1, <3>2
    <2>3. nextLabel = 1 \/ nextLabel = 2
      BY <2>1, <2>2 DEF HotExitInit
    <2>. QED  BY <2>3, HotExitBounds
  <1>3. texts \in [Labels -> WindowTexts]
    <2>1. \A l \in Labels : l < MaxDoc => [doc |-> l + 1, ver |-> 0] \in WindowTexts
      BY HotExitBounds DEF Labels, WindowTexts
    <2>. QED  BY <1>1, <2>1 DEF HotExitInit
  <1>4. WindowType /\ FileType /\ StartType /\ PullType /\ HistoryType
    <2>1. WindowType
      <3>1. run \in 1..Budget /\ open \subseteq Labels
        BY <1>1, HotExitBounds DEF HotExitInit
      <3>. QED  BY <1>2, <1>3, <3>1 DEF WindowType
    <2>2. FileType /\ StartType
      BY DEF HotExitInit, FileType, StartType
    <2>3. PullType
      BY <1>1 DEF HotExitInit, PullType
    <2>4. HistoryType
      BY HotExitBounds DEF HotExitInit, HistoryType
    <2>. QED  BY <2>1, <2>2, <2>3, <2>4
  <1>9. CaptureType
    BY <1>1, HotExitBounds DEF HotExitInit, CaptureType
  <1>10. PendType
    BY HotExitBounds DEF HotExitInit, PendType, Gens
  <1>5. CountInv
    BY HotExitBounds DEF HotExitInit, CountInv
  <1>6. SessionInv
    BY DEF HotExitInit, SessionInv, OfEach, Idle
  <1>7. KeepInv
    BY DEF HotExitInit, KeepInv, Alone, Before, During, After, Idle
  <1>8. FreshInv
    BY DEF HotExitInit, FreshInv, Idle
  <1>. QED  BY <1>4, <1>5, <1>6, <1>7, <1>8, <1>9, <1>10, HotExitParts

LEMMA HotExitTypeStep ==
    ASSUME HotExitTypeOK, CountInv, SessionInv, [HotExitNext]_hotExitVars
    PROVE  HotExitTypeOK'
  <1>1. CASE UNCHANGED hotExitVars
    BY <1>1, HotExitFrames, HotExitNextParts, RestoringIs DEF hotExitVars
  <1>2. CASE User
    BY <1>2, EditTextType, CloseWindowType, ButtonType, BeginType DEF User
  <1>3. CASE Crash \/ Relaunch
    BY <1>3, NewRunSteps
  <1>4. CASE Capturing
    <2>1. CASE \E a \in answers : Deliver(a)
      BY <2>1, CaptureSteps DEF Captures
    <2>. QED  BY <1>3, <1>4, <2>1, AnswerType, CaptureSteps DEF Capturing
  <1>5. CASE HourPasses \/ Main15s \/ Refuse \/ HearStart \/ Expire \/ \E g \in Gens : RunExpired(g)
    BY <1>5, StartSteps DEF Main15s
  <1>6. CASE Pulling
    BY <1>6, PullSteps, MarkType DEF Pulling
  <1>7. CASE \E made \in SUBSET Labels : Invoke(made)
    BY <1>7, InvokeType
  <1>. QED  BY <1>1, <1>2, <1>3, <1>4, <1>5, <1>6, <1>7 DEF HotExitNext

\* A step counts one capture, process or button at most, and only an Invoke and a
\* button store a restore.
LEMMA CountStep ==
    ASSUME HotExitTypeOK, HotExitTypeOK', CountInv, SessionInv, [HotExitNext]_hotExitVars
    PROVE  CountInv'
  <1>0. run \in Nat /\ asked \in Nat /\ buttons \in Nat /\ pend.gen \in Nat /\ Budget \in Nat
    BY HotExitBounds DEF HotExitTypeOK, Gens
  <1>1. ASSUME UNCHANGED <<run, asked, buttons>>, pend'.gen = pend.gen,
               startup' \in {"start", "listen"} => startup \in {"start", "listen"}
        PROVE  CountInv'
    BY <1>1 DEF CountInv
  <1>2. CASE UNCHANGED hotExitVars
    BY <1>1, <1>2, HotExitFrames, RestoringIs DEF hotExitVars
  <1>3. CASE User
    <2>1. ASSUME NEW c \in Captures, NEW id \in 1..MaxAsked, Begin(c, id) PROVE CountInv'
      BY <1>0, <2>1, HotExitFrames, RestoringIs DEF CountInv, Begin, Spare
    <2>2. ASSUME NEW l \in Labels, ButtonRestore(l) PROVE CountInv'
      <3>1. pend'.gen = pend.gen + 1
        BY <2>2 DEF ButtonRestore, Store
      <3>. QED  BY <1>0, <2>2, <3>1, HotExitFrames DEF CountInv, ButtonRestore, Spare
    <2>3. ASSUME NEW l \in Labels, EditText(l) \/ CloseWindow(l) PROVE CountInv'
      BY <1>1, <2>3, HotExitFrames, RestoringIs DEF EditText, CloseWindow
    <2>. QED  BY <1>3, <2>1, <2>2, <2>3 DEF User
  <1>4. CASE Crash \/ Relaunch
    <2>1. NewRun
      BY <1>4 DEF Crash, Relaunch
    <2>2. pend'.gen = 0 /\ run' = run + 1 /\ UNCHANGED <<asked, buttons>>
      BY <2>1 DEF NewRun
    <2>. QED  BY <1>0, <2>1, <2>2 DEF NewRun, Spare, CountInv
  <1>5. CASE Capturing /\ ~Relaunch
    BY <1>1, <1>5, HotExitFrames, RestoringIs
    DEF Capturing, Answer, Deliver, EndWait, Merge, SkipWrite, WriteBackup, WriteSession,
        CaptureWriteFails, EndCapture
  <1>6. CASE HourPasses \/ Main15s \/ Refuse \/ HearStart \/ Expire \/ \E g \in Gens : RunExpired(g)
    <2>1. UNCHANGED <<run, asked, buttons>>
      BY <1>6, HotExitFrames, RestoringIs
      DEF HourPasses, Main15s, Inspect, Refuse, Direct, HearStart, RestoreTimeout, Resolved,
          ClearSession, ClearBackup, Expire, RunExpired
    <2>2. pend'.gen = pend.gen
      <3>1. pend' = pend \/ pend' = Cleared(pend)
        BY <1>6, HotExitFrames, RestoringIs
        DEF HourPasses, Main15s, Inspect, Refuse, Direct, HearStart, RestoreTimeout, Resolved,
            ClearSession, ClearBackup, Expire, RunExpired
      <3>. QED  BY <3>1 DEF Cleared
    <2>3. startup' \in {"start", "listen"} => startup \in {"start", "listen"}
      BY <1>6, HotExitFrames, RestoringIs
      DEF HourPasses, Main15s, Inspect, Refuse, Direct, HearStart, RestoreTimeout, Resolved,
          ClearSession, ClearBackup, Expire, RunExpired
    <2>. QED  BY <1>1, <2>1, <2>2, <2>3
  <1>7. CASE Pulling
    <2>1. PICK l \in Labels : Pull(l) \/ GiveUp(l) \/ Apply(l) \/ ApplyFails(l) \/ Mark(l)
      BY <1>7 DEF Pulling
    <2>2. UNCHANGED <<run, asked, buttons>>
      BY <2>1, HotExitFrames DEF Pull, GiveUp, Apply, ApplyFails, Mark
    <2>3. pend'.gen = pend.gen
      <3>1. CASE Mark(l)
        BY <3>1, MarkIs DEF Cleared
      <3>. QED  BY <2>1, <3>1 DEF Pull, GiveUp, Apply, ApplyFails
    <2>4. startup' \in {"start", "listen"} => startup \in {"start", "listen"}
      BY <2>1 DEF Pull, GiveUp, Apply, ApplyFails, Mark, Returns
    <2>. QED  BY <1>1, <2>2, <2>3, <2>4
  <1>8. ASSUME NEW made \in SUBSET Labels, Invoke(made) PROVE CountInv'
    <2>1. pend'.gen = pend.gen + 1
      BY <1>8 DEF Invoke, Store
    <2>2. startup = "listen" /\ startup' = "invoked" /\ UNCHANGED <<run, asked, buttons>>
      BY <1>8, HotExitFrames DEF Invoke
    <2>. QED  BY <1>0, <2>1, <2>2 DEF CountInv
  <1>. QED  BY <1>2, <1>3, <1>4, <1>5, <1>6, <1>7, <1>8 DEF HotExitNext, Capturing

\* A capture that is over its wait has something.
Full(k) == k.phase \in {"captured", "backup", "persist", "done"} => k.got # {}

LEMMA SessionParts ==
    SessionInv <=>
        /\ OfEach(session) /\ OfEach(backup) /\ OfEach(from)
        /\ \A c \in Captures : OfEach(cap[c].got) /\ Full(cap[c])
        /\ session = {} \/ written = {} \/ session = written
        /\ startup = "listen" => from # {}
  BY DEF SessionInv, Full

LEMMA SessionNextParts ==
    SessionInv' <=>
        /\ OfEach(session') /\ OfEach(backup') /\ OfEach(from')
        /\ \A c \in Captures : OfEach(cap'[c].got) /\ Full(cap'[c])
        /\ session' = {} \/ written' = {} \/ session' = written'
        /\ startup' = "listen" => from' # {}
  BY DEF SessionInv, Full, OfEach

LEMMA FilesStay ==
    ASSUME SessionInv, UNCHANGED <<session, backup, written, from>>,
           startup' = "listen" => startup = "listen",
           \A c \in Captures : OfEach(cap'[c].got) /\ Full(cap'[c])
    PROVE  SessionInv'
  BY SessionParts, SessionNextParts

LEMMA CapturesStay ==
    ASSUME SessionInv, UNCHANGED cap, UNCHANGED <<session, backup, written, from>>,
           startup' = "listen" => startup = "listen"
    PROVE  SessionInv'
  BY SessionParts, FilesStay

LEMMA CaptureSession ==
    ASSUME HotExitTypeOK, SessionInv, Capturing, ~Relaunch
    PROVE  SessionInv'
  <1>0. /\ \A c \in Captures : OfEach(cap[c].got) /\ Full(cap[c])
        /\ OfEach(session) /\ OfEach(backup)
        /\ UNCHANGED <<startup, from>>
    BY SessionParts, RestoringIs
    DEF Capturing, Answer, Deliver, EndWait, Merge, SkipWrite, WriteBackup, WriteSession,
        CaptureWriteFails, EndCapture
  <1>1. ASSUME NEW c \in Captures,
               NEW p \in {"captured", "backup", "persist", "done", "failed"},
               cap' = [cap EXCEPT ![c].phase = p], p # "failed" => cap[c].got # {}
        PROVE  \A d \in Captures : OfEach(cap'[d].got) /\ Full(cap'[d])
    BY <1>0, <1>1, PhaseStep DEF Full
  <1>2. ASSUME NEW r \in requests, Answer(r) PROVE SessionInv'
    BY <1>0, <1>2, HotExitFrames, CapturesStay DEF Answer
  <1>3. ASSUME NEW a \in answers, Deliver(a) PROVE SessionInv'
    <2>1. \A c \in Captures : OfEach(cap'[c].got) /\ Full(cap'[c])
      <3>. SUFFICES ASSUME NEW c \in Captures PROVE OfEach(cap'[c].got) /\ Full(cap'[c])
        OBVIOUS
      <3>1. PICK w : w = [label |-> a.label, text |-> a.text]
        OBVIOUS
      <3>2. cap'[c].phase = cap[c].phase
            /\ cap'[c].got = IF Accepts(c, a) THEN cap[c].got \union {w} ELSE cap[c].got
        BY <1>3, <3>1, DeliverIs
      <3>3. CASE ~Accepts(c, a)
        BY <1>0, <3>2, <3>3 DEF Full
      <3>4. CASE Accepts(c, a)
        <4>1. \A v \in cap[c].got : v.label # w.label
          BY <3>1, <3>4 DEF Accepts, LabelsOf
        <4>. QED  BY <1>0, <3>2, <3>4, <4>1 DEF Full, OfEach
      <3>. QED  BY <3>3, <3>4
    <2>. QED  BY <1>0, <1>3, <2>1, HotExitFrames, FilesStay DEF Deliver
  <1>4. ASSUME NEW c \in Captures, EndWait(c) \/ SkipWrite(c) \/ CaptureWriteFails(c) PROVE SessionInv'
    <2>1. \A d \in Captures : OfEach(cap'[d].got) /\ Full(cap'[d])
      BY <1>0, <1>1, <1>4 DEF EndWait, SkipWrite, CaptureWriteFails, Full
    <2>. QED  BY <1>0, <1>4, <2>1, HotExitFrames, FilesStay DEF EndWait, SkipWrite, CaptureWriteFails
  <1>5. ASSUME NEW c \in Captures, Merge(c) PROVE SessionInv'
    <2>1. /\ \A d \in Captures \ {c} : cap'[d] = cap[d]
          /\ cap'[c].phase = "backup"
      BY <1>5, MergeIs
    <2>2. PICK taken \in SUBSET {w \in ReadSession : w.label \notin LabelsOf(cap[c].got)} :
                 cap'[c].got = cap[c].got \union taken
      BY <1>5, MergeIs
    <2>3. OfEach(ReadSession) /\ OfEach(cap[c].got) /\ cap[c].got # {}
      BY <1>0, <1>5 DEF ReadSession, Full, Merge
    <2>4. OfEach(cap'[c].got)
      BY <2>2, <2>3 DEF OfEach, LabelsOf
    <2>5. Full(cap'[c])
      BY <2>2, <2>3 DEF Full
    <2>. QED  BY <1>0, <1>5, <2>1, <2>4, <2>5, HotExitFrames, FilesStay DEF Merge
  <1>6. ASSUME NEW c \in Captures, WriteBackup(c) PROVE SessionInv'
    <2>1. \A d \in Captures : OfEach(cap'[d].got) /\ Full(cap'[d])
      BY <1>0, <1>1, <1>6 DEF WriteBackup, Full
    <2>2. OfEach(backup')
      BY <1>0, <1>6 DEF WriteBackup, ReadSession
    <2>. QED  BY <1>0, <1>6, <2>1, <2>2, SessionParts, SessionNextParts DEF WriteBackup
  <1>7. ASSUME NEW c \in Captures, WriteSession(c) PROVE SessionInv'
    <2>1. \A d \in Captures : OfEach(cap'[d].got) /\ Full(cap'[d])
      BY <1>0, <1>1, <1>7 DEF WriteSession, Full
    <2>. QED  BY <1>0, <1>7, <2>1, SessionParts, SessionNextParts DEF WriteSession
  <1>8. ASSUME NEW c \in Captures, EndCapture(c) PROVE SessionInv'
    <2>1. cap'[c] = Idle /\ \A d \in Captures \ {c} : cap'[d] = cap[d]
      BY <1>8, RecordStep, IdleCapture DEF EndCapture
    <2>2. OfEach(Idle.got) /\ Full(Idle)
      BY DEF Idle, OfEach, Full
    <2>. QED  BY <1>0, <1>8, <2>1, <2>2, HotExitFrames, FilesStay DEF EndCapture
  <1>. QED  BY <1>2, <1>3, <1>4, <1>5, <1>6, <1>7, <1>8 DEF Capturing

LEMMA SessionStep ==
    ASSUME HotExitTypeOK, SessionInv, [HotExitNext]_hotExitVars
    PROVE  SessionInv'
  <1>1. CASE UNCHANGED hotExitVars
    BY <1>1, HotExitFrames, RestoringIs, CapturesStay DEF hotExitVars
  <1>2. CASE User
    <2>1. ASSUME NEW c \in Captures, NEW id \in 1..MaxAsked, Begin(c, id) PROVE SessionInv'
      <3>1. PICK k \in CaptureStates : /\ k.phase = "waiting" /\ k.got = {}
                                       /\ cap' = [cap EXCEPT ![c] = k]
        BY <2>1, BeginIs
      <3>2. cap'[c] = k /\ \A d \in Captures \ {c} : cap'[d] = cap[d]
        BY <3>1, RecordStep
      <3>3. \A d \in Captures : OfEach(cap'[d].got) /\ Full(cap'[d])
        BY <3>1, <3>2, SessionParts DEF OfEach, Full
      <3>. QED  BY <2>1, <3>3, HotExitFrames, RestoringIs, FilesStay DEF Begin
    <2>2. ASSUME NEW l \in Labels, ButtonRestore(l) \/ EditText(l) \/ CloseWindow(l) PROVE SessionInv'
      BY <2>2, HotExitFrames, RestoringIs, CapturesStay DEF EditText, CloseWindow, ButtonRestore
    <2>. QED  BY <1>2, <2>1, <2>2 DEF User
  <1>3. CASE Crash \/ Relaunch
    <2>1. /\ cap' = [c \in Captures |-> Idle] /\ UNCHANGED <<session, backup>> /\ written' = {}
          /\ startup' = "start" /\ from' = {}
      BY <1>3 DEF Crash, Relaunch, NewRun
    <2>2. OfEach(Idle.got) /\ Full(Idle) /\ OfEach({})
      BY DEF Idle, OfEach, Full
    <2>. QED  BY <2>1, <2>2, SessionParts, SessionNextParts
  <1>4. CASE Capturing /\ ~Relaunch
    BY <1>4, CaptureSession
  <1>5. CASE HourPasses \/ Refuse \/ Direct \/ HearStart \/ RestoreTimeout \/ Resolved \/ Expire
             \/ \E g \in Gens : RunExpired(g)
    BY <1>5, HotExitFrames, RestoringIs, CapturesStay
    DEF HourPasses, Refuse, Direct, HearStart, RestoreTimeout, Resolved, Expire, RunExpired
  <1>6. CASE Inspect
    <2>1. from' = ReadSession /\ startup' = IF ReadSession = {} THEN "done" ELSE "listen"
      BY <1>6 DEF Inspect
    <2>2. OfEach(from')
      BY <2>1, SessionParts DEF ReadSession
    <2>. QED  BY <1>6, <2>1, <2>2, HotExitFrames, SessionParts, SessionNextParts DEF Inspect
  <1>7. CASE ClearSession \/ ClearBackup
    <2>1. OfEach({})
      BY DEF OfEach
    <2>2. cap' = cap
      BY <1>7, HotExitFrames DEF ClearSession, ClearBackup
    <2>. QED  BY <1>7, <2>1, <2>2, SessionParts, SessionNextParts DEF ClearSession, ClearBackup
  <1>8. CASE Pulling
    <2>1. PICK l \in Labels : Pull(l) \/ GiveUp(l) \/ Apply(l) \/ ApplyFails(l) \/ Mark(l)
      BY <1>8 DEF Pulling
    <2>. QED  BY <2>1, HotExitFrames, CapturesStay DEF Pull, GiveUp, Apply, ApplyFails, Mark, Returns
  <1>9. ASSUME NEW made \in SUBSET Labels, Invoke(made) PROVE SessionInv'
    BY <1>9, HotExitFrames, CapturesStay DEF Invoke
  <1>. QED
    BY <1>1, <1>2, <1>3, <1>4, <1>5, <1>6, <1>7, <1>8, <1>9 DEF HotExitNext, Main15s, Capturing

\* The shape of the state of a hot exit, for any windows, documents and bounds.
THEOREM HotExitTypeCorrect == HotExitSpec => []HotExitTypeOK
  <1>1. HotExitTypeOK /\ CountInv /\ SessionInv /\ [HotExitNext]_hotExitVars
           => (HotExitTypeOK /\ CountInv /\ SessionInv)'
    BY HotExitTypeStep, CountStep, SessionStep
  <1>. QED  BY <1>1, HotExitStarts, PTL DEF HotExitSpec

LEMMA HotExitShape == HotExitSpec => [](HotExitTypeOK /\ CountInv /\ SessionInv)
  <1>1. HotExitTypeOK /\ CountInv /\ SessionInv /\ [HotExitNext]_hotExitVars
           => (HotExitTypeOK /\ CountInv /\ SessionInv)'
    BY HotExitTypeStep, CountStep, SessionStep
  <1>. QED  BY <1>1, HotExitStarts, PTL DEF HotExitSpec

-----------------------------------------------------------------------------
(* What a capture takes. *)

LEMMA FreshStays ==
    ASSUME FreshInv, requests' \subseteq requests, answers' \subseteq answers, UNCHANGED <<asked, faults>>,
           \A c \in Captures : cap'[c].id = cap[c].id /\ cap'[c].since = cap[c].since
    PROVE  FreshInv'
  BY DEF FreshInv

LEMMA FreshStep ==
    ASSUME HotExitTypeOK, FreshInv, [HotExitNext]_hotExitVars
    PROVE  FreshInv'
  <1>0. asked \in Nat /\ \A c \in Captures : cap[c] \in CaptureStates
    BY HotExitBounds DEF HotExitTypeOK
  <1>1. ASSUME UNCHANGED capturing, "sameId" \notin faults' => "sameId" \notin faults PROVE FreshInv'
    BY <1>1, HotExitFrames DEF FreshInv
  <1>2. CASE UNCHANGED hotExitVars
    BY <1>1, <1>2 DEF hotExitVars
  <1>3. ASSUME NEW c \in Captures, NEW id \in 1..MaxAsked, Begin(c, id) PROVE FreshInv'
    <2>1. /\ asked' = asked + 1 /\ answers' = answers
          /\ requests' = requests \union [id : {id}, by : {c}, label : open]
          /\ id \in {asked + 1} \union {cap[d].id : d \in Captures \ {c}}
          /\ "sameId" \notin faults' => "sameId" \notin faults /\ id = asked + 1
      BY <1>3 DEF Begin
    <2>2. PICK k \in CaptureStates : /\ k.id = id /\ k.since = asked + 1
                                     /\ cap' = [cap EXCEPT ![c] = k]
      BY <1>3, BeginIs
    <2>3. cap'[c] = k /\ \A d \in Captures \ {c} : cap'[d] = cap[d]
      BY <2>2, RecordStep
    <2>4. "sameId" \notin faults' => \A d \in Captures : cap'[d].id = cap'[d].since
      BY <2>1, <2>2, <2>3 DEF FreshInv
    <2>5. \A r \in requests' : r.id <= asked'
      <3>1. \A r \in requests : r.id \in Nat /\ r.id <= asked
        BY HotExitBounds DEF HotExitTypeOK, FreshInv
      <3>2. id <= asked + 1
        BY <1>0, <2>1 DEF FreshInv, CaptureStates
      <3>. QED  BY <1>0, <2>1, <3>1, <3>2
    <2>6. \A d \in Captures : cap'[d].id <= asked'
      <3>1. \A d \in Captures : cap[d].id \in Nat /\ cap[d].id <= asked
        BY <1>0, HotExitBounds DEF CaptureStates, FreshInv
      <3>. QED  BY <1>0, <2>1, <2>2, <2>3, <3>1
    <2>. QED  BY <2>1, <2>4, <2>5, <2>6 DEF FreshInv
  <1>4. ASSUME NEW r \in requests, Answer(r) PROVE FreshInv'
    <2>1. /\ requests' = requests \ {r} /\ UNCHANGED <<cap, asked, faults>>
          /\ answers' = answers \union {[id |-> r.id, label |-> r.label, text |-> texts[r.label], at |-> asked]}
      BY <1>4 DEF Answer
    <2>. QED  BY <2>1 DEF FreshInv
  <1>5. ASSUME NEW a \in answers, Deliver(a) PROVE FreshInv'
    BY <1>5, DeliverIs, FreshStays DEF Deliver
  <1>6. ASSUME NEW c \in Captures,
               EndWait(c) \/ Merge(c) \/ SkipWrite(c) \/ WriteBackup(c) \/ WriteSession(c)
               \/ CaptureWriteFails(c) \/ EndCapture(c)
        PROVE  FreshInv'
    <2>1. UNCHANGED <<requests, answers, asked, faults>>
      BY <1>6 DEF EndWait, Merge, SkipWrite, WriteBackup, WriteSession, CaptureWriteFails, EndCapture
    <2>2. CASE \E p \in {"captured", "backup", "persist", "done", "failed"} : cap' = [cap EXCEPT ![c].phase = p]
      BY <2>1, <2>2, PhaseStep, FreshStays
    <2>3. CASE Merge(c)
      BY <2>1, <2>3, MergeIs, FreshStays
    <2>4. CASE EndCapture(c)
      <3>1. cap'[c] = Idle /\ \A d \in Captures \ {c} : cap'[d] = cap[d]
        BY <2>4, RecordStep, IdleCapture DEF EndCapture
      <3>2. Idle.id = 0 /\ Idle.since = 0
        BY DEF Idle
      <3>. QED  BY <1>0, <2>1, <3>1, <3>2 DEF FreshInv
    <2>. QED  BY <1>6, <2>2, <2>3, <2>4 DEF EndWait, SkipWrite, WriteBackup, WriteSession, CaptureWriteFails
  <1>7. CASE Crash \/ Relaunch
    <2>1. /\ cap' = [c \in Captures |-> Idle] /\ requests' = {} /\ answers' = {}
          /\ asked' = asked /\ faults' = faults
      BY <1>7 DEF Crash, Relaunch, NewRun
    <2>. QED  BY <1>0, <2>1 DEF FreshInv, Idle
  <1>8. ASSUME NEW l \in Labels, EditText(l) \/ ButtonRestore(l) PROVE FreshInv'
    BY <1>1, <1>8 DEF EditText, ButtonRestore
  <1>9. ASSUME NEW l \in Labels, CloseWindow(l) PROVE FreshInv'
    BY <1>9, FreshStays DEF CloseWindow
  <1>10. CASE HourPasses \/ Main15s \/ Refuse \/ HearStart \/ Pulling \/ Expire
              \/ (\E g \in Gens : RunExpired(g)) \/ \E made \in SUBSET Labels : Invoke(made)
    <2>1. UNCHANGED capturing
      BY <1>10
      DEF HourPasses, Main15s, Inspect, Refuse, Direct, HearStart, RestoreTimeout, Resolved,
          ClearSession, ClearBackup, Expire, RunExpired, Pulling, Pull, GiveUp, Apply, ApplyFails,
          Mark, Invoke
    <2>2. faults' = faults \/ faults' = faults \union {"uncreated"}
      BY <1>10
      DEF HourPasses, Main15s, Inspect, Refuse, Direct, HearStart, RestoreTimeout, Resolved,
          ClearSession, ClearBackup, Expire, RunExpired, Pulling, Pull, GiveUp, Apply, ApplyFails,
          Mark, Invoke
    <2>. QED  BY <1>1, <2>1, <2>2
  <1>. QED
    BY <1>2, <1>3, <1>4, <1>5, <1>6, <1>7, <1>8, <1>9, <1>10 DEF HotExitNext, User, Capturing

\* What the step of SessionIsFresh says.
Fresh ==
    \A c \in Captures, w \in WindowStates :
       cap[c].phase = "waiting" /\ w \in cap'[c].got \ cap[c].got /\ "sameId" \notin faults
       => \E a \in answers : a.label = w.label /\ a.text = w.text /\ a.at >= cap[c].since

LEMMA FreshTaken ==
    ASSUME HotExitTypeOK, FreshInv, [HotExitNext]_hotExitVars
    PROVE  Fresh
  <1>1. ASSUME \A c \in Captures : cap[c].phase = "waiting" => cap'[c].got \subseteq cap[c].got
        PROVE  Fresh
    BY <1>1 DEF Fresh
  <1>2. ASSUME NEW a \in answers, Deliver(a) PROVE Fresh
    <2>. SUFFICES ASSUME NEW c \in Captures, NEW w \in WindowStates, cap[c].phase = "waiting",
                         w \in cap'[c].got \ cap[c].got, "sameId" \notin faults
                  PROVE  a.label = w.label /\ a.text = w.text /\ a.at >= cap[c].since
      BY DEF Fresh
    <2>1. Accepts(c, a) /\ w = [label |-> a.label, text |-> a.text]
      BY <1>2, DeliverIs
    <2>2. a.id = cap[c].id /\ cap[c].id = cap[c].since /\ a.at >= a.id
      BY <2>1 DEF Accepts, FreshInv
    <2>. QED  BY <2>1, <2>2
  <1>3. ASSUME NEW c \in Captures, NEW id \in 1..MaxAsked, Begin(c, id) PROVE Fresh
    <2>1. PICK k \in CaptureStates : cap' = [cap EXCEPT ![c] = k] /\ k.got = {}
      BY <1>3, BeginIs
    <2>2. cap'[c] = k /\ \A d \in Captures \ {c} : cap'[d] = cap[d]
      BY <2>1, RecordStep
    <2>. QED  BY <1>1, <2>1, <2>2
  <1>4. ASSUME NEW c \in Captures,
               EndWait(c) \/ Merge(c) \/ SkipWrite(c) \/ WriteBackup(c) \/ WriteSession(c)
               \/ CaptureWriteFails(c) \/ EndCapture(c)
        PROVE  Fresh
    <2>2. CASE \E p \in {"captured", "backup", "persist", "done", "failed"} : cap' = [cap EXCEPT ![c].phase = p]
      BY <1>1, <2>2, PhaseStep
    <2>3. CASE Merge(c)
      <3>1. cap[c].phase = "captured" /\ \A d \in Captures \ {c} : cap'[d] = cap[d]
        BY <2>3, MergeIs DEF Merge
      <3>. QED  BY <1>1, <3>1
    <2>4. CASE EndCapture(c)
      <3>1. cap'[c] = Idle /\ \A d \in Captures \ {c} : cap'[d] = cap[d]
        BY <2>4, RecordStep, IdleCapture DEF EndCapture
      <3>2. Idle.got = {}
        BY DEF Idle
      <3>. QED  BY <1>1, <3>1, <3>2
    <2>. QED  BY <1>4, <2>2, <2>3, <2>4 DEF EndWait, SkipWrite, WriteBackup, WriteSession, CaptureWriteFails
  <1>5. CASE Crash \/ Relaunch
    <2>1. \A c \in Captures : cap'[c] = Idle
      BY <1>5 DEF Crash, Relaunch, NewRun
    <2>2. Idle.got = {}
      BY DEF Idle
    <2>. QED  BY <1>1, <2>1, <2>2
  <1>6. ASSUME cap' = cap PROVE Fresh
    BY <1>1, <1>6
  <1>7. CASE HourPasses \/ Main15s \/ Refuse \/ HearStart \/ Pulling \/ Expire \/ UNCHANGED hotExitVars
              \/ (\E g \in Gens : RunExpired(g)) \/ (\E made \in SUBSET Labels : Invoke(made))
              \/ (\E l \in Labels : EditText(l) \/ CloseWindow(l) \/ ButtonRestore(l))
              \/ (\E r \in requests : Answer(r))
    BY <1>6, <1>7, HotExitFrames
      DEF HourPasses, Main15s, Inspect, Refuse, Direct, HearStart, RestoreTimeout, Resolved,
          ClearSession, ClearBackup, Expire, RunExpired, Pulling, Pull, GiveUp, Apply, ApplyFails,
          Mark, Invoke, EditText, CloseWindow, ButtonRestore, Answer, hotExitVars
  <1>. QED  BY <1>2, <1>3, <1>4, <1>5, <1>7 DEF HotExitNext, User, Capturing

\* A capture takes only answers that were given after it had begun, unless two
\* share an id, for any number of windows and captures (coordinator.rs:169).
THEOREM CapturesAreFresh == HotExitSpec => SessionIsFresh
  <1>1. HotExitTypeOK /\ FreshInv /\ [HotExitNext]_hotExitVars => FreshInv' /\ [Fresh]_hotExitVars
    BY FreshStep, FreshTaken
  <1>2. HotExitSpec => [][Fresh]_hotExitVars
    BY <1>1, HotExitStarts, HotExitShape, PTL DEF HotExitSpec
  <1>. QED  BY <1>2 DEF SessionIsFresh, Fresh

-----------------------------------------------------------------------------
(* What a restart owes is on disk. *)

Sound == (\A t \in owed : Kept(t)) /\ Alone /\ Before /\ During /\ After

LEMMA SoundFrame ==
    ASSUME Sound, UNCHANGED <<session, backup, cap, startup, from, event, pend, owed>>,
           UNCHANGED <<rs, held, signal>>
    PROVE  Sound'
  BY DEF Sound, Kept, Alone, Before, During, After, Awaited, ReadSession

\* Files, captures and history stay; the restore goes on.
LEMMA RestoreFrame ==
    ASSUME Sound, UNCHANGED <<session, backup, cap>>, owed' \subseteq owed,
           startup' # "done" => startup # "done", Before', During', After'
    PROVE  Sound'
  BY DEF Sound, Kept, Alone, ReadSession

LEMMA AwaitedStays ==
    ASSUME Awaited, pend' = pend, owed' \subseteq owed,
           \A l \in Labels :
              rs'[l] \in {"apply", "mark"} => rs'[l] = rs[l] /\ held'[l] = held[l]
    PROVE  Awaited'
  BY DEF Awaited

LEMMA UserKeeps ==
    ASSUME HotExitTypeOK, Sound, User, faults' \subseteq {"sameId"}
    PROVE  Sound'
  <1>1. ASSUME NEW l \in Labels, EditText(l) PROVE Sound'
    BY <1>1, HotExitFrames, RestoringIs, SoundFrame DEF EditText
  <1>2. ASSUME NEW l \in Labels, CloseWindow(l) PROVE Sound'
    <2>1. /\ rs' = [rs EXCEPT ![l] = "idle"] /\ held' = [held EXCEPT ![l] = Blank]
          /\ UNCHANGED <<session, backup, hourOld, cap, from, event, pend, owed>>
          /\ startup' = startup \/ startup' = "done"
          /\ ~signal => ~signal'
      BY <1>2, HotExitFrames DEF CloseWindow
    <2>2. \A k \in Labels : rs'[k] \in {"apply", "mark", "pull"} => rs'[k] = rs[k] /\ held'[k] = held[k]
      BY <2>1 DEF HotExitTypeOK
    <2>3. \A k \in Labels : rs[k] = "idle" => rs'[k] = "idle"
      BY <2>1 DEF HotExitTypeOK
    <2>4. Awaited => Awaited'
      BY <2>1, <2>2, AwaitedStays
    <2>5. Before' /\ During' /\ After'
      BY <2>1, <2>3, <2>4 DEF Sound, Before, During, After, ReadSession
    <2>. QED  BY <2>1, <2>5, RestoreFrame
  <1>3. ASSUME NEW l \in Labels, ButtonRestore(l) PROVE Sound'
    <2>1. /\ UNCHANGED <<session, backup, hourOld, cap, owed, startup>>
          /\ faults' = IF startup # "done" THEN faults \union {"overlap"} ELSE faults
      BY <1>3, HotExitFrames DEF ButtonRestore
    <2>2. startup' = "done"
      BY <2>1
    <2>3. Before' /\ During' /\ After'
      BY <2>2 DEF Before, During, After
    <2>. QED  BY <2>1, <2>3, RestoreFrame
  <1>4. ASSUME NEW c \in Captures, NEW id \in 1..MaxAsked, Begin(c, id) PROVE Sound'
    <2>1. /\ UNCHANGED <<session, backup, owed, startup>>
          /\ faults' = faults \union (IF startup # "done" \/ owed # {} THEN {"overlap"} ELSE {})
                              \union (IF id # asked + 1 THEN {"sameId"} ELSE {})
                              \union (IF \E d \in Captures : cap[d].phase # "idle" THEN {"together"} ELSE {})
      BY <1>4, HotExitFrames, RestoringIs DEF Begin
    <2>2. startup = "done" /\ owed = {} /\ \A d \in Captures : cap[d].phase = "idle"
      BY <2>1
    <2>3. PICK k \in CaptureStates : k.phase = "waiting" /\ cap' = [cap EXCEPT ![c] = k]
      BY <1>4, BeginIs
    <2>4. cap'[c] = k /\ \A d \in Captures \ {c} : cap'[d] = cap[d]
      BY <2>3, RecordStep
    <2>5. Alone'
      BY <2>1, <2>2, <2>3, <2>4 DEF Alone
    <2>. QED  BY <2>1, <2>2, <2>5 DEF Sound, Before, During, After
  <1>. QED  BY <1>1, <1>2, <1>3, <1>4 DEF User

LEMMA CapturingKeeps ==
    ASSUME HotExitTypeOK, SessionInv, Sound, Capturing, ~Relaunch
    PROVE  Sound'
  <1>0. UNCHANGED <<owed, startup>>
    BY RestoringIs
    DEF Capturing, Answer, Deliver, EndWait, Merge, SkipWrite, WriteBackup, WriteSession,
        CaptureWriteFails, EndCapture
  <1>1. ASSUME NEW r \in requests, Answer(r) PROVE Sound'
    BY <1>1, HotExitFrames, RestoringIs, SoundFrame DEF Answer
  <1>2. ASSUME NEW a \in answers, Deliver(a) PROVE Sound'
    <2>1. /\ \A c \in Captures : /\ cap'[c].phase = cap[c].phase
                                 /\ cap[c].phase = "done" => cap'[c].got = cap[c].got
          /\ UNCHANGED <<session, backup, from, event, pend>> /\ UNCHANGED <<rs, held, signal>>
      BY <1>2, DeliverIs, HotExitFrames, RestoringIs DEF Deliver, Accepts
    <2>2. Alone'
      BY <1>0, <2>1 DEF Alone, Sound
    <2>. QED  BY <1>0, <2>1, <2>2 DEF Sound, Kept, Before, During, After, Awaited, ReadSession
  <1>7. ASSUME NEW c \in Captures, NEW p \in {"captured", "backup", "persist", "done", "failed"},
               cap' = [cap EXCEPT ![c].phase = p]
        PROVE  /\ \A d \in Captures : /\ cap'[d].got = cap[d].got
                                      /\ d # c => cap'[d].phase = cap[d].phase
               /\ cap'[c].phase = p
    <2>1. p \in {"waiting", "captured", "backup", "persist", "done", "failed"}
      OBVIOUS
    <2>. QED  BY <1>7, <2>1, PhaseStep
  <1>3. ASSUME NEW c \in Captures, cap[c].phase # "idle",
               \A d \in Captures \ {c} : cap'[d].phase = cap[d].phase,
               cap'[c].phase = "done" => session' = cap'[c].got
        PROVE  Sound'
    <2>1. startup' = "done" /\ owed' = {} /\ \A d \in Captures \ {c} : cap'[d].phase = "idle"
      BY <1>0, <1>3 DEF Sound, Alone
    <2>2. Alone'
      BY <1>3, <2>1 DEF Alone
    <2>. QED  BY <2>1, <2>2 DEF Sound, Before, During, After
  <1>4. ASSUME NEW c \in Captures,
               EndWait(c) \/ SkipWrite(c) \/ WriteBackup(c) \/ WriteSession(c) \/ CaptureWriteFails(c)
        PROVE  Sound'
    <2>1. PICK p \in {"captured", "backup", "persist", "done", "failed"} :
             /\ cap' = [cap EXCEPT ![c].phase = p]
             /\ p = "done" => SkipWrite(c) \/ WriteSession(c)
      BY <1>4 DEF EndWait, SkipWrite, WriteBackup, WriteSession, CaptureWriteFails
    <2>2. /\ \A d \in Captures : cap'[d].got = cap[d].got
          /\ cap'[c].phase = p /\ \A d \in Captures \ {c} : cap'[d].phase = cap[d].phase
      <3>2. cap' = [cap EXCEPT ![c].phase = p]
        BY <2>1
      <3>. QED  BY <1>7, <3>2
    <2>3. SkipWrite(c) => session' = cap[c].got
      <3>1. cap[c].phase = "backup" => cap[c].got # {}
        BY DEF SessionInv
      <3>2. SkipWrite(c) => session' = session
        BY HotExitFrames DEF SkipWrite
      <3>. QED  BY <3>1, <3>2 DEF SkipWrite, SessionInv
    <2>4. WriteSession(c) => session' = cap[c].got
      BY DEF WriteSession
    <2>5. cap[c].phase # "idle"
      BY <1>4 DEF EndWait, SkipWrite, WriteBackup, WriteSession, CaptureWriteFails
    <2>. QED  BY <1>3, <2>1, <2>2, <2>3, <2>4, <2>5
  <1>5. ASSUME NEW c \in Captures, Merge(c) PROVE Sound'
    BY <1>3, <1>5, MergeIs DEF Merge
  <1>6. ASSUME NEW c \in Captures, EndCapture(c) PROVE Sound'
    <2>1. cap'[c] = Idle /\ \A d \in Captures \ {c} : cap'[d] = cap[d]
      BY <1>6, RecordStep, IdleCapture DEF EndCapture
    <2>2. Idle.phase = "idle" /\ cap[c].phase # "idle"
      BY <1>6 DEF Idle, EndCapture
    <2>. QED  BY <1>3, <2>1, <2>2
  <1>. QED  BY <1>1, <1>2, <1>4, <1>5, <1>6 DEF Capturing

LEMMA NewRunKeeps ==
    ASSUME HotExitTypeOK, Sound, Crash \/ Relaunch
    PROVE  Sound'
  <1>0. NewRun /\ UNCHANGED <<session, backup>>
    BY DEF Crash, Relaunch, NewRun
  <1>1. Alone' /\ Before' /\ During' /\ After'
    BY <1>0 DEF NewRun, Alone, Before, During, After, Idle
  <1>2. \A t \in owed : Kept(t)'
    BY <1>0 DEF Sound, Kept, ReadSession
  <1>3. \A t \in owed' : Kept(t)'
    <2>1. CASE owed' = owed
      BY <1>2, <2>1
    <2>2. CASE owed' # owed
      <3>1. /\ cap["restart"].phase = "done"
            /\ owed' = TextsOf({w \in cap["restart"].got : w.label \in open})
        BY <2>2 DEF Crash, Relaunch
      <3>2. session = cap["restart"].got
        BY <3>1 DEF Sound, Alone, Captures
      <3>3. \A t \in owed' : \E w \in session : w.text = t
        BY <3>1, <3>2 DEF TextsOf
      <3>4. \A w \in session : Covers(w.text, w.text)
        <4>1. \A w \in session : w.text.ver \in Int
          BY HotExitBounds DEF HotExitTypeOK, WindowStates, WindowTexts
        <4>. QED  BY <4>1 DEF Covers
      <3>. QED  BY <1>0, <3>3, <3>4 DEF Kept, ReadSession
    <2>. QED  BY <2>1, <2>2
  <1>. QED  BY <1>1, <1>3 DEF Sound

LEMMA StartKeeps ==
    ASSUME HotExitTypeOK, Sound,
           \/ HourPasses \/ Main15s \/ Refuse \/ HearStart \/ Expire \/ \E g \in Gens : RunExpired(g)
    PROVE  Sound'
  <1>1. CASE HourPasses \/ Expire
    BY <1>1, HotExitFrames, RestoringIs, SoundFrame DEF HourPasses, Expire
  <1>2. CASE Inspect
    <2>1. /\ UNCHANGED <<session, backup, cap, owed, event>> /\ UNCHANGED <<rs, signal>>
          /\ startup = "start" /\ from' = ReadSession /\ (startup' = "listen" \/ startup' = "done")
      BY <1>2, HotExitFrames DEF Inspect
    <2>2. Before' /\ During' /\ After'
      BY <2>1 DEF Sound, Before, During, After, ReadSession
    <2>. QED  BY <2>1, <2>2, RestoreFrame
  <1>3. CASE Refuse
    <2>1. UNCHANGED <<session, backup, cap, owed>> /\ startup' = "done"
      BY <1>3, HotExitFrames DEF Refuse
    <2>. QED  BY <2>1, RestoreFrame DEF Before, During, After
  <1>4. CASE Direct \/ HearStart
    <2>1. /\ UNCHANGED <<session, backup, cap, owed, event, pend, from, held>>
          /\ \A l \in Labels : rs'[l] = rs[l] \/ rs'[l] = "pull"
          /\ startup' = startup \/ (startup = "invoked" /\ startup' \in {"direct", "await"})
          /\ startup \notin {"start", "listen"}
      <3>1. HearStart => startup \notin {"start", "listen"}
        BY DEF Sound, Before, HearStart
      <3>2. \A l \in Labels : rs'[l] = rs[l] \/ rs'[l] = "pull"
        BY <1>4 DEF Direct, HearStart, HotExitTypeOK
      <3>. QED  BY <1>4, <3>1, <3>2, HotExitFrames DEF Direct, HearStart
    <2>2. Awaited => Awaited'
      BY <2>1, AwaitedStays
    <2>3. Before' /\ During' /\ After'
      BY <2>1, <2>2 DEF Sound, Before, During, After
    <2>. QED  BY <2>1, <2>3, RestoreFrame
  <1>5. CASE RestoreTimeout \/ Resolved
    <2>1. /\ UNCHANGED <<session, backup, cap, owed, pend, from>> /\ UNCHANGED <<rs, held, signal>>
          /\ \/ startup' = startup /\ event = "none" /\ event' = "failed"
             \/ startup = "await" /\ event' = event /\ startup' = "done"
             \/ startup = "await" /\ event' = event /\ event = "complete" /\ startup' = "clear"
      BY <1>5, HotExitFrames DEF RestoreTimeout, Resolved
    <2>2. Awaited => Awaited'
      BY <2>1, AwaitedStays
    <2>3. Before' /\ During' /\ After'
      BY <2>1, <2>2 DEF Sound, Before, During, After, ReadSession
    <2>. QED  BY <2>1, <2>3, RestoreFrame
  <1>6. CASE ClearSession \/ ClearBackup
    <2>1. UNCHANGED <<cap, owed>> /\ startup \in {"clear", "clearBackup"} /\ startup' \in {"clearBackup", "done"}
      BY <1>6, HotExitFrames DEF ClearSession, ClearBackup
    <2>2. owed = {} /\ \A c \in Captures : cap[c].phase = "idle"
      BY <2>1 DEF Sound, After, Alone
    <2>. QED  BY <2>1, <2>2 DEF Sound, Alone, Before, During, After
  <1>7. ASSUME NEW g \in Gens, RunExpired(g) PROVE Sound'
    <2>1. /\ UNCHANGED <<session, backup, cap, owed, startup, event, from>> /\ UNCHANGED <<rs, held, signal>>
          /\ pend' = pend \/ pend'.expected = {}
      BY <1>7, HotExitFrames DEF RunExpired, Cleared
    <2>2. pend' = pend /\ Awaited => Awaited'
      BY <2>1, AwaitedStays
    <2>3. During'
      BY <2>1, <2>2 DEF Sound, During
    <2>4. Before' /\ After'
      BY <2>1 DEF Sound, Before, After, ReadSession
    <2>. QED  BY <2>1, <2>3, <2>4, RestoreFrame
  <1>. QED  BY <1>1, <1>2, <1>3, <1>4, <1>5, <1>6, <1>7 DEF Main15s

LEMMA InvokeKeeps ==
    ASSUME HotExitTypeOK, SessionInv, Sound, NEW made \in SUBSET Labels, Invoke(made),
           faults' \subseteq {"sameId"}
    PROVE  Sound'
  <1>1. /\ UNCHANGED <<session, backup, cap, owed, event, held>>
        /\ startup = "listen" /\ startup' = "invoked"
        /\ \A l \in Labels : rs'[l] \in {rs[l], "pull"}
    BY HotExitFrames DEF Invoke, HotExitTypeOK
  <1>2. from = ReadSession /\ event # "complete" /\ \A l \in Labels : rs[l] = "idle"
    BY <1>1 DEF Sound, Before
  <1>3. PICK S : S = {Own(from)} \union Others(from)
    OBVIOUS
  <1>4. /\ OfEach(S) /\ S \subseteq WindowStates
        /\ pend' = [states |-> S, expected |-> LabelsOf(S), completed |-> {}, gen |-> pend.gen + 1]
    <2>1. /\ made = LabelsOf(Others(from))
          /\ Store({Own(from)} \union {w \in Others(from) : w.label \in made})
          /\ OfEach({Own(from)} \union Others(from))
          /\ {Own(from)} \union Others(from) \subseteq WindowStates
      <3>1. /\ made \subseteq LabelsOf(Others(from)) /\ Others(from) \subseteq WindowStates
            /\ OfEach({Own(from)} \union Others(from)) /\ Own(from) \in WindowStates
            /\ Store({Own(from)} \union {w \in Others(from) : w.label \in made})
            /\ faults' = IF made # LabelsOf(Others(from)) THEN faults \union {"uncreated"} ELSE faults
        BY InvokeIs
      <3>2. made = LabelsOf(Others(from))
        BY <3>1
      <3>. QED  BY <3>1, <3>2
    <2>2. {w \in Others(from) : w.label \in made} = Others(from)
      BY <2>1 DEF LabelsOf
    <2>. QED  BY <1>3, <2>1, <2>2 DEF Store
  <1>5. \A t \in owed : \E o \in S : Covers(o.text, t)
    <2>1. \A t \in owed : \E w \in from : Covers(w.text, t)
      BY <1>2 DEF Sound, Kept
    <2>2. \A w \in from : \E o \in S : o.text = w.text
      BY <1>1, <1>3, AllTextsGo DEF SessionInv, HotExitTypeOK
    <2>. QED  BY <2>1, <2>2
  <1>6. Awaited'
    <2>1. pend'.states = S /\ pend'.expected = LabelsOf(S) /\ pend'.completed = {}
      BY <1>4
    <2>. QED  BY <1>1, <1>2, <1>4, <1>5, <2>1 DEF Awaited, OfEach
  <1>7. Before' /\ During' /\ After'
    BY <1>1, <1>2, <1>6 DEF Before, During, After
  <1>. QED  BY <1>1, <1>7, RestoreFrame

LEMMA PullingKeeps ==
    ASSUME HotExitTypeOK, Sound, Pulling
    PROVE  Sound'
  <1>0. rs \in [Labels -> {"idle", "pull", "apply", "mark"}] /\ held \in [Labels -> WindowTexts]
    BY DEF HotExitTypeOK
  <1>1. PICK l \in Labels : Pull(l) \/ GiveUp(l) \/ Apply(l) \/ ApplyFails(l) \/ Mark(l)
    BY DEF Pulling
  <1>2. /\ UNCHANGED <<session, backup, cap, from, signal>> /\ rs[l] # "idle"
        /\ startup' = startup \/ (startup = "direct" /\ startup' = "await")
    BY <1>1, HotExitFrames DEF Pull, GiveUp, Apply, ApplyFails, Mark, Returns
  <1>3. startup \notin {"start", "listen"} /\ startup' \notin {"start", "listen"}
    BY <1>2 DEF Sound, Before
  <1>4. ASSUME owed' \subseteq owed,
               startup \in {"invoked", "direct", "await"} =>
                  IF event' = "complete" THEN owed' = {} ELSE pend'.expected = {} \/ Awaited'
        PROVE  Sound'
    <2>1. Before' /\ During' /\ After'
      BY <1>2, <1>3, <1>4 DEF Sound, Before, During, After
    <2>. QED  BY <1>2, <1>4, <2>1, RestoreFrame
  <1>5. CASE Pull(l)
    <2>1. PICK w \in pend.states : w.label = l /\ held' = [held EXCEPT ![l] = w.text]
      BY <1>5 DEF Pull
    <2>2. rs' = [rs EXCEPT ![l] = "apply"] /\ UNCHANGED <<pend, owed, event>>
      BY <1>5 DEF Pull
    <2>3. Awaited => Awaited'
      <3>1. w = [label |-> l, text |-> held'[l]]
        BY <1>0, <2>1 DEF HotExitTypeOK, WindowStates
      <3>2. rs'[l] = "apply" /\ \A k \in Labels \ {l} : rs'[k] = rs[k] /\ held'[k] = held[k]
        BY <1>0, <2>1, <2>2
      <3>. QED  BY <2>2, <3>1, <3>2 DEF Awaited
    <2>. QED  BY <1>4, <2>2, <2>3 DEF Sound, During
  <1>6. CASE GiveUp(l) \/ ApplyFails(l)
    <2>1. /\ rs' = [rs EXCEPT ![l] = "idle"] /\ UNCHANGED <<pend, owed>>
          /\ held' = held \/ held' = [held EXCEPT ![l] = Blank]
          /\ event' = event \/ (event = "none" /\ event' = "failed")
      BY <1>6 DEF GiveUp, ApplyFails, Emit
    <2>2. \A k \in Labels : rs'[k] \in {"apply", "mark"} => rs'[k] = rs[k] /\ held'[k] = held[k]
      BY <1>0, <2>1
    <2>3. Awaited => Awaited'
      BY <2>1, <2>2, AwaitedStays
    <2>. QED  BY <1>4, <2>1, <2>3 DEF Sound, During
  <1>7. CASE Apply(l)
    <2>1. /\ rs' = [rs EXCEPT ![l] = "mark"] /\ UNCHANGED <<pend, held, event>> /\ rs[l] = "apply"
          /\ owed' = {t \in owed : ~Covers(held[l], t)}
      BY <1>7 DEF Apply
    <2>2. Awaited => Awaited'
      <3>1. rs'[l] = "mark" /\ \A k \in Labels \ {l} : rs'[k] = rs[k]
        BY <1>0, <2>1
      <3>2. /\ owed' \subseteq owed /\ held' = held /\ pend' = pend
            /\ \A t \in owed' : ~Covers(held'[l], t)
        BY <2>1
      <3>. QED  BY <2>1, <3>1, <3>2 DEF Awaited
    <2>. QED  BY <1>4, <2>1, <2>2 DEF Sound, During
  <1>8. CASE Mark(l)
    <2>1. PICK done \in SUBSET Labels :
              /\ done = IF l \in pend.expected THEN pend.completed \union {l} ELSE pend.completed
              /\ IF pend.expected # {} /\ pend.expected \subseteq done
                 THEN /\ pend' = Cleared(pend) /\ Emit("complete")
                      /\ guard' = (guard /\ l # MainWindow)
                 ELSE /\ pend' = [states |-> pend.states, expected |-> pend.expected,
                                  completed |-> done, gen |-> pend.gen]
                      /\ event' = event /\ guard' = guard
      BY <1>8, MarkIs
    <2>2. /\ rs' = [rs EXCEPT ![l] = "idle"] /\ held' = [held EXCEPT ![l] = Blank]
          /\ owed' = owed /\ rs[l] = "mark"
      BY <1>8 DEF Mark
    <2>3. /\ \A k \in Labels : rs'[k] \in {"apply", "mark"} => rs'[k] = rs[k] /\ held'[k] = held[k]
      BY <1>0, <2>2
    <2>4. Awaited => \A t \in owed : \E w \in pend.states : w.label \notin done /\ Covers(w.text, t)
      <3>. SUFFICES ASSUME Awaited, NEW t \in owed
                    PROVE  \E w \in pend.states : w.label \notin done /\ Covers(w.text, t)
        OBVIOUS
      <3>1. PICK w \in pend.states : w.label \notin pend.completed /\ Covers(w.text, t)
        BY DEF Awaited
      <3>2. w.label # l
        <4>1. PICK v \in pend.states : v = [label |-> l, text |-> held[l]]
          BY <2>2 DEF Awaited
        <4>2. ~Covers(held[l], t) /\ v.text = held[l] /\ v.label = l
          BY <2>2, <4>1 DEF Awaited
        <4>. QED  BY <3>1, <4>1, <4>2 DEF Awaited, OfEach
      <3>. QED  BY <2>1, <3>1, <3>2
    <2>5. CASE pend.expected # {} /\ pend.expected \subseteq done
      <3>1. Cleared(pend).expected = {}
        BY DEF Cleared
      <3>2. Awaited => owed = {}
        BY <2>4, <2>5 DEF Awaited, LabelsOf
      <3>. QED  BY <1>4, <2>1, <2>2, <2>5, <3>1, <3>2 DEF Sound, During, Emit
    <2>6. CASE ~(pend.expected # {} /\ pend.expected \subseteq done)
      <3>1. pend'.states = pend.states /\ pend'.expected = pend.expected /\ pend'.completed = done
        BY <2>1, <2>6
      <3>2. Awaited => Awaited'
        BY <2>2, <2>3, <2>4, <3>1 DEF Awaited, OfEach
      <3>3. event' = event
        BY <2>1, <2>6
      <3>. QED  BY <1>4, <2>2, <3>1, <3>2, <3>3 DEF Sound, During
    <2>. QED  BY <2>5, <2>6
  <1>. QED  BY <1>1, <1>5, <1>6, <1>7, <1>8

LEMMA KeepStep ==
    ASSUME HotExitTypeOK, SessionInv, KeepInv, [HotExitNext]_hotExitVars
    PROVE  KeepInv'
  <1>1. faults \subseteq faults'
    BY RestoringIs
    DEF HotExitNext, User, EditText, CloseWindow, ButtonRestore, Begin, Crash, HourPasses, Capturing,
        Answer, Deliver, EndWait, Merge, SkipWrite, WriteBackup, WriteSession, CaptureWriteFails,
        EndCapture, Relaunch, Main15s, Inspect, Refuse, Direct, HearStart, RestoreTimeout, Resolved,
        ClearSession, ClearBackup, Expire, RunExpired, Pulling, Pull, GiveUp, Apply, ApplyFails,
        Mark, Invoke, hotExitVars
  <1>. SUFFICES ASSUME faults' \subseteq {"sameId"} PROVE Sound'
    BY DEF KeepInv, Sound, Kept, Alone, Before, During, After, Awaited, ReadSession, OfEach
  <1>2. Sound
    BY <1>1 DEF KeepInv, Sound
  <1>3. CASE UNCHANGED hotExitVars
    BY <1>2, <1>3, HotExitFrames, RestoringIs, SoundFrame DEF hotExitVars
  <1>. QED
    BY <1>2, <1>3, UserKeeps, CapturingKeeps, NewRunKeeps, StartKeeps, InvokeKeeps, PullingKeeps
    DEF HotExitNext, Capturing

\* What a restart captured stays on disk until a window shows it, whatever crashes,
\* closes, fails or is late, for any windows, documents and restarts; captures that
\* overlap and windows that cannot be created are excepted (restartWithHotExit.ts:181).
THEOREM OwedTextStays == HotExitSpec => []OwedIsKept
  <1>1. KeepInv => OwedIsKept
    BY DEF KeepInv, OwedIsKept, Kept
  <1>2. HotExitTypeOK /\ SessionInv /\ KeepInv /\ [HotExitNext]_hotExitVars => KeepInv'
    BY KeepStep
  <1>. QED  BY <1>1, <1>2, HotExitStarts, HotExitShape, PTL DEF HotExitSpec

-----------------------------------------------------------------------------
(* Crash recovery. *)

USE MainIsWindow, EmptyIsText, FilesHoldTexts, TabsAreNumbers, BoundsAreNumbers
USE DEF docVars, writeVars, recoveryVars

-----------------------------------------------------------------------------
(* Types *)

LEMMA TypeInit == Init => TypeOK
<1> SUFFICES ASSUME Init PROVE TypeOK
    OBVIOUS
<1>1. files \in SUBSET Snapshots
    BY LeftoversAreOld DEF Init, Snapshots, Tabs
<1>2. DOMAIN doc = {} /\ DOMAIN lastHash = {}
    BY DEF Init
<1> QED
    BY <1>1, <1>2 DEF Init, TypeOK, Open, Tabs

LEMMA TypeNext == TypeOK /\ [Next]_vars => TypeOK'
<1> SUFFICES ASSUME TypeOK, [Next]_vars PROVE TypeOK'
    OBVIOUS
<1> USE DEF TypeOK, Open, Fails
<1>1. CASE Restart
    BY <1>1 DEF Restart
<1>2. ASSUME NEW w \in Windows, NEW p \in Paths \union {NoPath}, OpenTab(w, p) PROVE TypeOK'
    BY <1>2 DEF OpenTab, Add, NewDoc, Tabs
<1>3. ASSUME NEW t \in Tabs, NEW text \in Texts, Edit(t, text) PROVE TypeOK'
    BY <1>3 DEF Edit, Becomes, Cleaned, Ask
<1>4. ASSUME NEW t \in Tabs, NEW w \in Windows, Move(t, w) PROVE TypeOK'
    BY <1>4 DEF Move, Ask
<1>5. ASSUME NEW t \in Tabs, Save(t) PROVE TypeOK'
  <2>1. t \in Open /\ UNCHANGED edits
    BY <1>5 DEF Save, Dirty
  <2>2. PICK p \in Paths \union {NoPath} :
            Becomes(t, [doc[t] EXCEPT !.saved = doc[t].text, !.path = p])
    BY <1>5, <2>1 DEF Save
  <2>3. [doc[t] EXCEPT !.saved = doc[t].text, !.path = p]
            \in [win : Windows, text : Texts, saved : Texts, path : Paths \union {NoPath}]
    BY <2>1
  <2> QED
    BY <2>1, <2>2, <2>3 DEF Becomes, Cleaned, Ask
<1>6. ASSUME NEW t \in Tabs, CloseTab(t) PROVE TypeOK'
    BY <1>6 DEF CloseTab, Restrict, Ask
<1>7. ASSUME NEW t \in Tabs, Delete(t) PROVE TypeOK'
    BY <1>7 DEF Delete, Without
<1>8. ASSUME NEW w \in Windows, PassBegins(w) PROVE TypeOK'
    BY <1>8 DEF PassBegins, Restrict, TabsOf
<1>9. ASSUME NEW e \in left, Look(e) PROVE TypeOK'
    BY <1>9 DEF Look, Dirty, Snapshots, TabsOf
<1>10. ASSUME NEW s \in writing, WriteLands(s) PROVE TypeOK'
    BY <1>10 DEF WriteLands, Without, Hashed, Snapshots
<1>11. ASSUME NEW s \in writing, WriteFails(s) PROVE TypeOK'
    BY <1>11 DEF WriteFails
<1>12. ASSUME NEW w \in Windows, PassEnds(w) PROVE TypeOK'
    BY <1>12 DEF PassEnds
<1>13. CASE RecoveryBegins
    BY <1>13 DEF RecoveryBegins, Snapshots
<1>14. ASSUME NEW t \in Tabs, Read(t) PROVE TypeOK'
    BY <1>14 DEF Read
<1>15. CASE AllRead
    BY <1>15 DEF AllRead, Deduped
<1>16. ASSUME NEW s \in todo, Restore(s) PROVE TypeOK'
  <2>1. s \in Snapshots /\ s \in got
    OBVIOUS
  <2>2. DOMAIN doc' \subseteq Tabs /\ next' \in 1 .. (MaxTabs + 1)
    BY <1>16 DEF Restore, Add, Tabs
  <2>3. \A t \in DOMAIN doc' :
            doc'[t] \in [win : Windows, text : Texts, saved : Texts, path : Paths \union {NoPath}]
    BY <1>16, <2>1 DEF Restore, Add, NewDoc, Snapshots
  <2> QED
    BY <1>16, <2>1, <2>2, <2>3 DEF Restore
<1>17. ASSUME NEW s \in todo, RestoreFails(s) PROVE TypeOK'
    BY <1>17 DEF RestoreFails
<1>18. ASSUME NEW s \in clearing, Clear(s) PROVE TypeOK'
    BY <1>18 DEF Clear, Without
<1>19. ASSUME NEW s \in drops, Drop(s) PROVE TypeOK'
    BY <1>19 DEF Drop, Without
<1>20. CASE RecoveryEnds
    BY <1>20 DEF RecoveryEnds
<1>21. CASE UNCHANGED vars
    BY <1>21 DEF vars
<1> QED
    BY <1>1, <1>2, <1>3, <1>4, <1>5, <1>6, <1>7, <1>8, <1>9, <1>10, <1>11, <1>12, <1>13, <1>14,
       <1>15, <1>16, <1>17, <1>18, <1>19, <1>20, <1>21 DEF Next, PassStep

\* Every variable of the crash recovery keeps its type.
THEOREM TypeCorrect == Spec => []TypeOK
    BY TypeInit, TypeNext, PTL DEF Spec

-----------------------------------------------------------------------------
(* The invariant of NothingIsLost *)

(* Tabs are numbered as they are opened, snapshots as they are written, and  *)
(* a tab has at most one snapshot on disk.                                   *)
Numbered ==
    /\ \A s \in files \union writing : s.tab < next /\ s.time <= clock
    /\ \A s \in got : s.time <= clock
    /\ \A t \in Open : t < next
    /\ \A e \in left : e.tab < next
    /\ \A r, s \in files : r.tab = s.tab => r = s

(* What this process writes, deletes and closes are its own tabs, never      *)
(* those of the snapshots it found.                                          *)
Apart ==
    \A f \in found :
        /\ f.tab < next /\ f.tab \notin Open /\ deletes[f.tab] = 0
        /\ \A e \in left \union writing : e.tab # f.tab
        /\ \A s \in files \union got : s.tab = f.tab => s = f

Superseded(f) == \E n \in shown \union kept : Supersedes(n, f)

(* How far the recovery is with each snapshot that it found or has read.     *)
Progress ==
    /\ phase \in {"waiting", "reading"} => shown \union todo \union drops \union clearing = {}
    /\ phase = "waiting" => kept \union old = {}
    /\ phase # "reading" => toRead = {}
    /\ phase = "reading" => \A f \in found : f \in old \union kept \union got \/ f.tab \in toRead
    /\ phase \in {"restoring", "done"} =>
           \A f \in found : f \in old \union kept \union shown \union todo \union drops \/ Superseded(f)
    /\ phase = "done" => todo \union drops \union clearing = {}
    /\ clearing \subseteq shown
    /\ \A s \in drops : Superseded(s) \/ \E r \in todo : Supersedes(r, s)

(* Until then it is on disk.                                                 *)
Still ==
    \A f \in found :
        f \in shown \union old \union files \/ (phase \in {"restoring", "done"} /\ Superseded(f))

RecoveryInv == TypeOK /\ Numbered /\ Apart /\ Progress /\ Still

LEMMA NumberedNext == TypeOK /\ Numbered /\ [Next]_vars => Numbered'
<1> SUFFICES ASSUME TypeOK /\ Numbered, [Next]_vars PROVE Numbered'
    OBVIOUS
<1> USE DEF TypeOK, Open, Numbered, Snapshots, Tabs
<1>1. CASE Restart
    BY <1>1 DEF Restart
<1>2. ASSUME NEW w \in Windows, NEW p \in Paths \union {NoPath}, OpenTab(w, p) PROVE Numbered'
    BY <1>2 DEF OpenTab, Add, NewDoc
<1>3. ASSUME NEW t \in Tabs, NEW text \in Texts, Edit(t, text) PROVE Numbered'
    BY <1>3 DEF Edit, Becomes, Cleaned, Ask, Dirty
<1>4. ASSUME NEW t \in Tabs, NEW w \in Windows, Move(t, w) PROVE Numbered'
    BY <1>4 DEF Move, Ask
<1>5. ASSUME NEW t \in Tabs, Save(t) PROVE Numbered'
    BY <1>5 DEF Save, Becomes, Cleaned, Ask, Dirty
<1>6. ASSUME NEW t \in Tabs, CloseTab(t) PROVE Numbered'
    BY <1>6 DEF CloseTab, Restrict, Ask
<1>7. ASSUME NEW t \in Tabs, Delete(t) PROVE Numbered'
    BY <1>7 DEF Delete, Without
<1>8. ASSUME NEW w \in Windows, PassBegins(w) PROVE Numbered'
    BY <1>8 DEF PassBegins, TabsOf
<1>9. ASSUME NEW e \in left, Look(e) PROVE Numbered'
    BY <1>9 DEF Look, TabsOf
<1>10. ASSUME NEW s \in writing, WriteLands(s) PROVE Numbered'
    BY <1>10 DEF WriteLands, Without
<1>11. ASSUME NEW s \in writing, WriteFails(s) PROVE Numbered'
    BY <1>11 DEF WriteFails
<1>12. ASSUME NEW w \in Windows, PassEnds(w) PROVE Numbered'
    BY <1>12 DEF PassEnds
<1>13. CASE RecoveryBegins
    BY <1>13 DEF RecoveryBegins
<1>14. ASSUME NEW t \in Tabs, Read(t) PROVE Numbered'
    BY <1>14 DEF Read
<1>15. CASE AllRead
    BY <1>15 DEF AllRead
<1>16. ASSUME NEW s \in todo, Restore(s) PROVE Numbered'
    BY <1>16 DEF Restore, Add
<1>17. ASSUME NEW s \in todo, RestoreFails(s) PROVE Numbered'
    BY <1>17 DEF RestoreFails
<1>18. ASSUME NEW s \in clearing, Clear(s) PROVE Numbered'
    BY <1>18 DEF Clear, Without
<1>19. ASSUME NEW s \in drops, Drop(s) PROVE Numbered'
    BY <1>19 DEF Drop, Without
<1>20. CASE RecoveryEnds
    BY <1>20 DEF RecoveryEnds
<1>21. CASE UNCHANGED vars
    BY <1>21 DEF vars
<1> QED
    BY <1>1, <1>2, <1>3, <1>4, <1>5, <1>6, <1>7, <1>8, <1>9, <1>10, <1>11, <1>12, <1>13, <1>14,
       <1>15, <1>16, <1>17, <1>18, <1>19, <1>20, <1>21 DEF Next, PassStep

LEMMA ApartNext == TypeOK /\ Numbered /\ Apart /\ [Next]_vars => Apart'
<1> SUFFICES ASSUME TypeOK /\ Numbered /\ Apart, [Next]_vars PROVE Apart'
    OBVIOUS
<1> USE DEF TypeOK, Open, Numbered, Apart, Snapshots
<1>1. CASE Restart
    BY <1>1 DEF Restart
<1>2. ASSUME NEW w \in Windows, NEW p \in Paths \union {NoPath}, OpenTab(w, p) PROVE Apart'
  <2>1. Open' = Open \union {next} /\ next < next'
    BY <1>2 DEF OpenTab, Add
  <2> QED
    BY <1>2, <2>1 DEF OpenTab, Tabs
<1>3. ASSUME NEW t \in Tabs, NEW text \in Texts, Edit(t, text) PROVE Apart'
    BY <1>3 DEF Edit, Becomes, Cleaned, Ask, Dirty
<1>4. ASSUME NEW t \in Tabs, NEW w \in Windows, Move(t, w) PROVE Apart'
    BY <1>4 DEF Move, Ask
<1>5. ASSUME NEW t \in Tabs, Save(t) PROVE Apart'
    BY <1>5 DEF Save, Becomes, Cleaned, Ask, Dirty
<1>6. ASSUME NEW t \in Tabs, CloseTab(t) PROVE Apart'
    BY <1>6 DEF CloseTab, Restrict, Ask
<1>7. ASSUME NEW t \in Tabs, Delete(t) PROVE Apart'
    BY <1>7 DEF Delete, Without
<1>8. ASSUME NEW w \in Windows, PassBegins(w) PROVE Apart'
    BY <1>8 DEF PassBegins, TabsOf
<1>9. ASSUME NEW e \in left, Look(e) PROVE Apart'
    BY <1>9 DEF Look, TabsOf
<1>10. ASSUME NEW s \in writing, WriteLands(s) PROVE Apart'
    BY <1>10 DEF WriteLands, Without
<1>11. ASSUME NEW s \in writing, WriteFails(s) PROVE Apart'
    BY <1>11 DEF WriteFails
<1>12. ASSUME NEW w \in Windows, PassEnds(w) PROVE Apart'
    BY <1>12 DEF PassEnds
<1>13. CASE RecoveryBegins
    BY <1>13 DEF RecoveryBegins
<1>14. ASSUME NEW t \in Tabs, Read(t) PROVE Apart'
    BY <1>14 DEF Read
<1>15. CASE AllRead
    BY <1>15 DEF AllRead
<1>16. ASSUME NEW s \in todo, Restore(s) PROVE Apart'
  <2>1. Open' = Open \union {next} /\ next < next'
    BY <1>16 DEF Restore, Add
  <2> QED
    BY <1>16, <2>1 DEF Restore, Tabs
<1>17. ASSUME NEW s \in todo, RestoreFails(s) PROVE Apart'
    BY <1>17 DEF RestoreFails
<1>18. ASSUME NEW s \in clearing, Clear(s) PROVE Apart'
    BY <1>18 DEF Clear, Without
<1>19. ASSUME NEW s \in drops, Drop(s) PROVE Apart'
    BY <1>19 DEF Drop, Without
<1>20. CASE RecoveryEnds
    BY <1>20 DEF RecoveryEnds
<1>21. CASE UNCHANGED vars
    BY <1>21 DEF vars
<1> QED
    BY <1>1, <1>2, <1>3, <1>4, <1>5, <1>6, <1>7, <1>8, <1>9, <1>10, <1>11, <1>12, <1>13, <1>14,
       <1>15, <1>16, <1>17, <1>18, <1>19, <1>20, <1>21 DEF Next, PassStep

\* Of the snapshots that a newer one of the same path supersedes, the newest of
\* that path is kept.
LEMMA Newest ==
    ASSUME NEW Q \in SUBSET Snapshots, NEW k \in Nat, \A q \in Q : q.time <= k,
           NEW s \in Q \ Deduped(Q)
    PROVE  \E r \in Deduped(Q) : Supersedes(r, s)
<1> DEFINE R == {q \in Q : Supersedes(q, s)}
           Ages == {k - q.time : q \in R}
<1>1. \A q \in Q : q.time \in Nat /\ k - q.time \in Nat
    BY DEF Snapshots
<1>2. Ages \subseteq Nat /\ Ages # {}
    BY <1>1 DEF Deduped
<1>3. PICK x \in Ages : \A y \in Ages : ~(<<y, x>> \in OpToRel(<, Nat))
  <2> HIDE DEF Ages
  <2> QED
    BY <1>2, NatLessThanWellFounded, WFMin, Zenon
<1>4. \A y \in Ages : ~(y < x)
    BY <1>2, <1>3 DEF OpToRel
<1>5. PICK r \in R : x = k - r.time
    OBVIOUS
<1>6. \A q \in Q : ~Supersedes(q, r)
  <2> SUFFICES ASSUME NEW q \in Q, Supersedes(q, r) PROVE FALSE
    OBVIOUS
  <2>1. q \in R
    BY <1>1, <1>5 DEF Supersedes
  <2>2. k - q.time \in Ages
    BY <2>1
  <2> QED
    BY <1>1, <1>4, <1>5, <2>2 DEF Supersedes
<1> QED
    BY <1>5, <1>6 DEF Deduped

LEMMA ProgressNext == TypeOK /\ Numbered /\ Apart /\ Progress /\ Still /\ [Next]_vars => Progress'
<1> SUFFICES ASSUME TypeOK /\ Numbered /\ Apart /\ Progress /\ Still, [Next]_vars PROVE Progress'
    OBVIOUS
<1> USE DEF Progress, Superseded
<1>1. CASE Restart
    BY <1>1 DEF Restart
<1>2. ASSUME NEW w \in Windows, NEW p \in Paths \union {NoPath}, OpenTab(w, p) PROVE Progress'
    BY <1>2 DEF OpenTab, Add, NewDoc
<1>3. ASSUME NEW t \in Tabs, NEW text \in Texts, Edit(t, text) PROVE Progress'
    BY <1>3 DEF Edit, Becomes, Cleaned, Ask, Dirty
<1>4. ASSUME NEW t \in Tabs, NEW w \in Windows, Move(t, w) PROVE Progress'
    BY <1>4 DEF Move, Ask
<1>5. ASSUME NEW t \in Tabs, Save(t) PROVE Progress'
    BY <1>5 DEF Save, Becomes, Cleaned, Ask, Dirty
<1>6. ASSUME NEW t \in Tabs, CloseTab(t) PROVE Progress'
    BY <1>6 DEF CloseTab, Restrict, Ask
<1>7. ASSUME NEW t \in Tabs, Delete(t) PROVE Progress'
    BY <1>7 DEF Delete, Without
<1>8. ASSUME NEW w \in Windows, PassBegins(w) PROVE Progress'
    BY <1>8 DEF PassBegins, TabsOf
<1>9. ASSUME NEW e \in left, Look(e) PROVE Progress'
    BY <1>9 DEF Look, TabsOf
<1>10. ASSUME NEW s \in writing, WriteLands(s) PROVE Progress'
    BY <1>10 DEF WriteLands, Without
<1>11. ASSUME NEW s \in writing, WriteFails(s) PROVE Progress'
    BY <1>11 DEF WriteFails
<1>12. ASSUME NEW w \in Windows, PassEnds(w) PROVE Progress'
    BY <1>12 DEF PassEnds
<1>13. CASE RecoveryBegins
  <2>1. /\ shown = {} /\ todo = {} /\ drops = {} /\ clearing = {} /\ kept = {}
        /\ UNCHANGED <<shown, todo, drops, clearing, kept, got, found>> /\ phase' = "reading"
    BY <1>13 DEF RecoveryBegins
  <2>2. \A f \in found : f \in files
    BY <1>13 DEF RecoveryBegins, Still
  <2>3. \A f \in found : f \in old' \/ f.tab \in toRead'
    BY <1>13, <2>2 DEF RecoveryBegins
  <2> QED
    BY <2>1, <2>3
<1>14. ASSUME NEW t \in Tabs, Read(t) PROVE Progress'
  <2>1. /\ phase = "reading" /\ UNCHANGED <<phase, shown, todo, drops, clearing, old, found, files>>
        /\ toRead' = toRead \ {t} /\ got \subseteq got' /\ kept \subseteq kept'
        /\ \A s \in files : s.tab = t => s \in got' \union kept'
    BY <1>14 DEF Read
  <2>2. shown = {} /\ todo = {} /\ drops = {} /\ clearing = {}
    BY <2>1
  <2>3. \A f \in found : f \in old' \union kept' \union got' \/ f.tab \in toRead'
    <3> SUFFICES ASSUME NEW f \in found, f.tab = t, f \notin old, f \notin kept
                 PROVE  f \in got' \union kept'
      BY <2>1
    <3>1. f \in files
      BY <2>1, <2>2 DEF Still
    <3> QED
      BY <2>1, <3>1
  <2> QED
    BY <2>1, <2>2, <2>3
<1>15. CASE AllRead
  <2>1. /\ phase = "reading" /\ phase' = "restoring" /\ toRead = {} /\ shown = {} /\ clearing = {}
        /\ todo' = Deduped(got) /\ drops' = got \ Deduped(got)
        /\ UNCHANGED <<toRead, got, clearing, shown, kept, old, found>>
    BY <1>15 DEF AllRead
  <2>2. \A s \in got \ Deduped(got) : \E r \in Deduped(got) : Supersedes(r, s)
    BY Newest DEF Numbered, TypeOK
  <2>3. \A f \in found : f \in old \union kept \union got
    BY <2>1
  <2> QED
    BY <2>1, <2>2, <2>3
<1>16. ASSUME NEW s \in todo, Restore(s) PROVE Progress'
    BY <1>16 DEF Restore, Add
<1>17. ASSUME NEW s \in todo, RestoreFails(s) PROVE Progress'
    BY <1>17 DEF RestoreFails
<1>18. ASSUME NEW s \in clearing, Clear(s) PROVE Progress'
    BY <1>18 DEF Clear, Without
<1>19. ASSUME NEW s \in drops, Drop(s) PROVE Progress'
    BY <1>19 DEF Drop, Without
<1>20. CASE RecoveryEnds
    BY <1>20 DEF RecoveryEnds
<1>21. CASE UNCHANGED vars
    BY <1>21 DEF vars
<1> QED
    BY <1>1, <1>2, <1>3, <1>4, <1>5, <1>6, <1>7, <1>8, <1>9, <1>10, <1>11, <1>12, <1>13, <1>14,
       <1>15, <1>16, <1>17, <1>18, <1>19, <1>20, <1>21 DEF Next, PassStep

LEMMA StillNext == TypeOK /\ Apart /\ Progress /\ Still /\ [Next]_vars => Still'
<1> SUFFICES ASSUME TypeOK /\ Apart /\ Progress /\ Still, [Next]_vars PROVE Still'
    OBVIOUS
<1> USE DEF Still, Superseded
<1>1. CASE Restart
    BY <1>1 DEF Restart
<1>2. ASSUME NEW w \in Windows, NEW p \in Paths \union {NoPath}, OpenTab(w, p) PROVE Still'
    BY <1>2 DEF OpenTab, Add, NewDoc
<1>3. ASSUME NEW t \in Tabs, NEW text \in Texts, Edit(t, text) PROVE Still'
    BY <1>3 DEF Edit, Becomes, Cleaned, Ask, Dirty
<1>4. ASSUME NEW t \in Tabs, NEW w \in Windows, Move(t, w) PROVE Still'
    BY <1>4 DEF Move, Ask
<1>5. ASSUME NEW t \in Tabs, Save(t) PROVE Still'
    BY <1>5 DEF Save, Becomes, Cleaned, Ask, Dirty
<1>6. ASSUME NEW t \in Tabs, CloseTab(t) PROVE Still'
    BY <1>6 DEF CloseTab, Restrict, Ask
<1>7. ASSUME NEW t \in Tabs, Delete(t) PROVE Still'
    BY <1>7 DEF Delete, Without, Apart, TypeOK
<1>8. ASSUME NEW w \in Windows, PassBegins(w) PROVE Still'
    BY <1>8 DEF PassBegins, TabsOf
<1>9. ASSUME NEW e \in left, Look(e) PROVE Still'
    BY <1>9 DEF Look, TabsOf
<1>10. ASSUME NEW s \in writing, WriteLands(s) PROVE Still'
    BY <1>10 DEF WriteLands, Without, Apart, TypeOK
<1>11. ASSUME NEW s \in writing, WriteFails(s) PROVE Still'
    BY <1>11 DEF WriteFails
<1>12. ASSUME NEW w \in Windows, PassEnds(w) PROVE Still'
    BY <1>12 DEF PassEnds
<1>13. CASE RecoveryBegins
    BY <1>13 DEF RecoveryBegins, Progress
<1>14. ASSUME NEW t \in Tabs, Read(t) PROVE Still'
    BY <1>14 DEF Read
<1>15. CASE AllRead
    BY <1>15 DEF AllRead
<1>16. ASSUME NEW s \in todo, Restore(s) PROVE Still'
    BY <1>16 DEF Restore, Add
<1>17. ASSUME NEW s \in todo, RestoreFails(s) PROVE Still'
    BY <1>17 DEF RestoreFails
<1>18. ASSUME NEW s \in clearing, Clear(s) PROVE Still'
    BY <1>18 DEF Clear, Without, Apart, Progress, TypeOK
<1>19. ASSUME NEW s \in drops, Drop(s) PROVE Still'
    BY <1>19 DEF Drop, Without, Apart, Progress, TypeOK
<1>20. CASE RecoveryEnds
    BY <1>20 DEF RecoveryEnds
<1>21. CASE UNCHANGED vars
    BY <1>21 DEF vars
<1> QED
    BY <1>1, <1>2, <1>3, <1>4, <1>5, <1>6, <1>7, <1>8, <1>9, <1>10, <1>11, <1>12, <1>13, <1>14,
       <1>15, <1>16, <1>17, <1>18, <1>19, <1>20, <1>21 DEF Next, PassStep

LEMMA RecoveryInit == Init => Numbered /\ Apart /\ Progress /\ Still
<1> SUFFICES ASSUME Init PROVE Numbered /\ Apart /\ Progress /\ Still
    OBVIOUS
<1>1. Open = {}
    BY DEF Init, Open
<1>2. \A s \in files : s.tab \in Tabs /\ s.tab < next /\ s.time <= clock
    BY LeftoversAreOld DEF Init, Tabs
<1>3. \A r, s \in files : r.tab = s.tab => r = s
    BY LeftoversAreOld DEF Init
<1>4. Numbered
    BY <1>1, <1>2, <1>3 DEF Numbered, Init
<1>5. Apart
    BY <1>1, <1>2, <1>3 DEF Apart, Init
<1> QED
    BY <1>4, <1>5 DEF Progress, Still, Init

LEMMA RecoveryInductive == Spec => []RecoveryInv
<1>1. Init => RecoveryInv
    BY TypeInit, RecoveryInit DEF RecoveryInv
<1>2. RecoveryInv /\ [Next]_vars => RecoveryInv'
    BY TypeNext, NumberedNext, ApartNext, ProgressNext, StillNext DEF RecoveryInv
<1> QED
    BY <1>1, <1>2, PTL DEF Spec

\* What an earlier process left is never lost: each snapshot that a process finds
\* stays on disk until it is shown or too old or a newer one of its path is shown
\* or kept, whatever the user, the writers, failures and the end of the process
\* do meanwhile, and is shown in the end if it can be.
THEOREM LeftoversAreKept == Spec => []NothingIsLost
<1>1. RecoveryInv => NothingIsLost
    BY DEF RecoveryInv, Progress, Still, Superseded, NothingIsLost
<1> QED
    BY <1>1, RecoveryInductive, PTL
-----------------------------------------------------------------------------
(* Each step that makes a document clean, closes it or moves it asks for the *)
(* deletion of its snapshot.                                                 *)

LEMMA StaleStep ==
    ASSUME TypeOK, Numbered, [Next]_vars, NEW t \in Tabs, Stale(t)', ~Stale(t)
    PROVE  failures' > failures \/ \E s \in writing : s.tab = t /\ s \in files'
<1> SUFFICES ASSUME ~(\E s \in writing : s.tab = t /\ s \in files') PROVE failures' > failures
    OBVIOUS
<1> USE DEF TypeOK, Open, Fails, Stale, Dirty
<1>1. CASE Restart
    BY <1>1 DEF Restart
<1>2. ASSUME NEW w \in Windows, NEW p \in Paths \union {NoPath}, OpenTab(w, p) PROVE FALSE
    BY <1>2 DEF OpenTab, Add, NewDoc, Numbered
<1>3. ASSUME NEW u \in Tabs, NEW text \in Texts, Edit(u, text) PROVE FALSE
  <2>1. u # t => (t \in Open' <=> t \in Open) /\ doc'[t] = doc[t] /\ deletes'[t] = deletes[t]
    BY <1>3 DEF Edit, Becomes, Cleaned, Ask
  <2>2. u = t /\ Dirty(t) /\ ~Dirty(t)' => deletes'[t] = deletes[t] + 1
    BY <1>3 DEF Edit, Becomes, Cleaned, Ask
  <2>3. UNCHANGED <<files, found>> /\ (~Dirty(t) => deletes'[t] >= deletes[t])
    BY <1>3 DEF Edit, Becomes, Cleaned, Ask
  <2> QED
    BY <2>1, <2>2, <2>3
<1>4. ASSUME NEW u \in Tabs, NEW w \in Windows, Move(u, w) PROVE FALSE
    BY <1>4 DEF Move, Ask
<1>5. ASSUME NEW u \in Tabs, Save(u) PROVE FALSE
  <2>1. deletes' = [deletes EXCEPT ![u] = @ + 1] /\ UNCHANGED <<files, found>>
    BY <1>5 DEF Save, Becomes, Cleaned, Ask
  <2>2. u # t => (t \in Open' <=> t \in Open) /\ doc'[t] = doc[t]
    BY <1>5 DEF Save, Becomes
  <2> QED
    BY <2>1, <2>2
<1>6. ASSUME NEW u \in Tabs, CloseTab(u) PROVE FALSE
    BY <1>6 DEF CloseTab, Restrict, Ask
<1>7. ASSUME NEW u \in Tabs, Delete(u) PROVE failures' > failures
    BY <1>7 DEF Delete, Without
<1>8. ASSUME NEW w \in Windows, PassBegins(w) PROVE FALSE
    BY <1>8 DEF PassBegins
<1>9. ASSUME NEW e \in left, Look(e) PROVE FALSE
    BY <1>9 DEF Look
<1>10. ASSUME NEW s \in writing, WriteLands(s) PROVE FALSE
    BY <1>10 DEF WriteLands, Without
<1>11. ASSUME NEW s \in writing, WriteFails(s) PROVE FALSE
    BY <1>11 DEF WriteFails
<1>12. ASSUME NEW w \in Windows, PassEnds(w) PROVE FALSE
    BY <1>12 DEF PassEnds
<1>13. CASE RecoveryBegins
    BY <1>13 DEF RecoveryBegins
<1>14. ASSUME NEW u \in Tabs, Read(u) PROVE FALSE
    BY <1>14 DEF Read
<1>15. CASE AllRead
    BY <1>15 DEF AllRead
<1>16. ASSUME NEW s \in todo, Restore(s) PROVE FALSE
    BY <1>16 DEF Restore, Add, NewDoc, Numbered
<1>17. ASSUME NEW s \in todo, RestoreFails(s) PROVE FALSE
    BY <1>17 DEF RestoreFails
<1>18. ASSUME NEW s \in clearing, Clear(s) PROVE FALSE
    BY <1>18 DEF Clear, Without
<1>19. ASSUME NEW s \in drops, Drop(s) PROVE FALSE
    BY <1>19 DEF Drop, Without
<1>20. CASE RecoveryEnds
    BY <1>20 DEF RecoveryEnds
<1>21. CASE UNCHANGED vars
    BY <1>21 DEF vars
<1> QED
    BY <1>1, <1>2, <1>3, <1>4, <1>5, <1>6, <1>7, <1>8, <1>9, <1>10, <1>11, <1>12, <1>13, <1>14,
       <1>15, <1>16, <1>17, <1>18, <1>19, <1>20, <1>21 DEF Next, PassStep

\* What StaleIsLate says of a step
OnlyLate ==
    \A t \in Tabs :
        Stale(t)' /\ ~Stale(t)
        => \/ failures' > failures
           \/ \E s \in writing : s.tab = t /\ s \in files'

\* A save, an undo or a close leaves no snapshot of its document behind, but for
\* one that was still being written or could not be removed
\* (useCrashRecoveryCleanup.ts:4), for any windows, tabs and files.
THEOREM StaleSnapshotsAreLate == Spec => StaleIsLate
<1>1. RecoveryInv /\ [Next]_vars => [OnlyLate]_vars
    BY StaleStep DEF RecoveryInv, OnlyLate
<1>2. Spec => [][OnlyLate]_vars
    BY <1>1, RecoveryInductive, PTL DEF Spec
<1> QED
    BY <1>2 DEF StaleIsLate, OnlyLate
=============================================================================
