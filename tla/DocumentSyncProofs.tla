------------------------ MODULE DocumentSyncProofs ------------------------
(* Proofs about DocumentSync, for any paths, texts, tasks and bounds. *)
EXTENDS MCDocumentSync, TLAPS

USE DEF fileVars, saveVars, taskVars, askVars, countVars, GoTo

\* A dialog that is up has a change to ask about.
DialogInv == pc["dialog"] # "idle" => batch # <<>>

TypeInv == TypeOK /\ DialogInv

-----------------------------------------------------------------------------
(* The operators of the model give values of their types.                  *)

LEMMA FirstTyped == First \in Texts /\ Home \in Paths
  <1>1. (CHOOSE b \in Bodies : TRUE) \in Bodies /\ (CHOOSE e \in Eols : TRUE) \in Eols
        /\ (CHOOSE p \in Paths : TRUE) \in Paths
    BY TextAssumption
  <1>. QED
    BY <1>1, TextAssumption DEF First, Home, Texts

LEMMA OutputTyped ==
    ASSUME doc \in Documents, NEW t \in Texts
    PROVE  Output(t) \in Texts
  BY DEF Output, Documents, Texts

LEMMA DocumentsTyped ==
    ASSUME NEW d \in Documents, NEW t \in Texts, NEW p \in Paths, NEW b \in BOOLEAN,
           NEW e \in {"lf", "crlf"}
    PROVE  /\ [d EXCEPT !.isMissing = b] \in Documents
           /\ [d EXCEPT !.isDivergent = b] \in Documents
           /\ [d EXCEPT !.lastDiskContent = t] \in Documents
           /\ [d EXCEPT !.filePath = p] \in Documents
           /\ [d EXCEPT !.filePath = p, !.isMissing = b] \in Documents
           /\ [d EXCEPT !.filePath = p, !.lineEnding = e] \in Documents
           /\ [d EXCEPT !.content = t, !.isDirty = b] \in Documents
           /\ MarkSaved(d, t) \in Documents
  BY DEF Documents, MarkSaved

LEMMA StoreTyped ==
    ASSUME doc \in Documents, NEW t \in Texts, NEW p \in Paths
    PROVE  /\ SetContent(t) \in Documents
           /\ LoadContent(t, p) \in Documents
           /\ [LoadContent(t, p) EXCEPT !.isMissing = FALSE] \in Documents
           /\ Missing(doc) \in Documents
  BY DEF SetContent, LoadContent, Missing, Documents, Texts

LEMMA AfterSaveTyped ==
    ASSUME TypeOK, NEW a \in AllTasks
    PROVE  AfterSave(a) \in Documents
  <1>1. job[a].path \in Paths /\ job[a].text \in Texts /\ job[a].clear \in BOOLEAN
        /\ job[a].text.eol \in {"lf", "crlf"} /\ doc \in Documents
    BY DEF TypeOK, Jobs, Texts
  <1>. DEFINE d == IF a = "mcp" THEN doc
                   ELSE [doc EXCEPT !.filePath = job[a].path, !.lineEnding = job[a].text.eol]
              s == MarkSaved(d, job[a].text)
  <1>2. d \in Documents
    BY <1>1, DocumentsTyped
  <1>3. s \in Documents
    <2>. HIDE DEF d
    <2>. QED
      BY <1>1, <1>2, DocumentsTyped
  <1>4. s.isMissing \in BOOLEAN
    <2>. HIDE DEF s
    <2>. QED
      BY <1>3 DEF Documents
  <1>5. [s EXCEPT !.isMissing = s.isMissing /\ ~job[a].clear] \in Documents
    <2>. HIDE DEF s
    <2>1. [s EXCEPT !.isMissing = TRUE] \in Documents /\ [s EXCEPT !.isMissing = FALSE] \in Documents
      BY <1>1, <1>3, DocumentsTyped
    <2>2. CASE s.isMissing /\ ~job[a].clear
      <3>1. (s.isMissing /\ ~job[a].clear) = TRUE
        BY <2>2
      <3>. QED
        BY <2>1, <3>1
    <2>3. CASE ~(s.isMissing /\ ~job[a].clear)
      <3>1. (s.isMissing /\ ~job[a].clear) = FALSE
        BY <2>3
      <3>. QED
        BY <2>1, <3>1
    <2>. QED
      BY <2>2, <2>3
  <1>. QED
    BY <1>5 DEF AfterSave

LEMMA NotifyTyped ==
    ASSUME TypeOK, NEW k \in {"modify", "rename", "remove", "pair"},
           NEW p \in Paths, NEW q \in Paths, Notify(k, p, q)
    PROVE  recent' \subseteq Paths /\ events' \subseteq Events /\ emitted' \in Nat
  <1>. DEFINE heard == {x \in {p, q} : ~Debounce \/ x \notin recent}
              e == [no   |-> emitted + 1,
                    kind |-> IF k = "pair" /\ heard # {p, q} THEN "rename" ELSE k,
                    path |-> IF p \in heard THEN p ELSE q,
                    to   |-> IF q \in heard THEN q ELSE p]
  <1>1. recent' \subseteq Paths
    BY DEF TypeOK, Notify
  <1>2. CASE heard = {}
    BY <1>1, <1>2 DEF TypeOK, Notify
  <1>3. CASE heard # {}
    <2>1. events' = events \cup {e} /\ emitted' = emitted + 1
      BY <1>3 DEF Notify
    <2>2. e \in Events
      <3>. HIDE DEF heard
      <3>. QED
        BY DEF TypeOK, Events
    <2>. HIDE DEF e
    <2>. QED
      BY <1>1, <2>1, <2>2 DEF TypeOK
  <1>. QED
    BY <1>2, <1>3

LEMMA BeginTyped ==
    ASSUME TypeOK, NEW a \in AllTasks, NEW p \in Paths, NEW t \in Texts,
           NEW clear \in BOOLEAN, NEW again \in BOOLEAN, Begin(a, p, t, clear, again)
    PROVE  /\ saves' \in Nat
           /\ pc' = [pc EXCEPT ![a] = "write"] /\ pc' \in [AllTasks -> Phases]
           /\ job' \in [AllTasks -> Jobs]
           /\ pend' \in [Paths -> Entries \cup {None}]
  <1>1. Output(t) \in Texts
    BY OutputTyped DEF TypeOK
  <1>2. saves \in Nat /\ saves + 1 \in Nat
    BY DEF TypeOK
  <1>3. [content |-> Output(t), token |-> saves + 1] \in Entries
    BY <1>1, <1>2 DEF Entries
  <1>4. [job[a] EXCEPT !.path = p, !.snap = t, !.text = Output(t),
           !.token = saves + 1, !.clear = clear, !.again = again] \in Jobs
    <2>1. job[a] \in Jobs
      BY DEF TypeOK
    <2>. QED
      BY <1>1, <1>2, <2>1 DEF Jobs
  <1>5. pend' = [pend EXCEPT ![p] = [content |-> Output(t), token |-> saves + 1]]
        /\ job' = [job EXCEPT ![a] = [job[a] EXCEPT !.path = p, !.snap = t,
              !.text = Output(t), !.token = saves + 1, !.clear = clear, !.again = again]]
        /\ pc' = [pc EXCEPT ![a] = "write"] /\ saves' = saves + 1
    BY DEF Begin
  <1>6. pend' \in [Paths -> Entries \cup {None}]
    BY <1>3, <1>5 DEF TypeOK
  <1>7. job' \in [AllTasks -> Jobs]
    BY <1>4, <1>5 DEF TypeOK
  <1>8. pc' \in [AllTasks -> Phases]
    BY <1>5 DEF TypeOK, Phases
  <1>. QED
    BY <1>2, <1>5, <1>6, <1>7, <1>8

LEMMA ClearedTyped ==
    ASSUME TypeOK, NEW p \in Paths, NEW t \in Nat
    PROVE  Cleared(p, t) \in [Paths -> Entries \cup {None}]
  BY DEF Cleared, TypeOK

LEMMA TailTyped ==
    ASSUME NEW q \in Seq(Paths), q # <<>>
    PROVE  /\ Head(q) \in Paths /\ Tail(q) \in Seq(Paths)
           /\ ~(Len(q) < 2) => Tail(q) # <<>>
  <1>1. Head(q) \in Paths /\ Tail(q) \in Seq(Paths) /\ Len(Tail(q)) = Len(q) - 1
        /\ Len(q) \in Nat
    OBVIOUS
  <1>2. CASE ~(Len(q) < 2)
    <2>1. Len(Tail(q)) # 0
      BY <1>1, <1>2
    <2>2. Len(<<>>) = 0
      OBVIOUS
    <2>3. Tail(q) # <<>>
      BY <2>1, <2>2, Zenon
    <2>. QED
      BY <1>1, <2>3
  <1>. QED
    BY <1>1, <1>2

\* A task that returns is idle, or is the dialog with a change left.
LEMMA ReturnTyped ==
    ASSUME TypeInv, NEW a \in AllTasks, NEW d \in Documents, Return(a, d),
           pc[a] # "idle"
    PROVE  /\ pc' \in [AllTasks -> Phases] /\ job' \in [AllTasks -> Jobs]
           /\ batch' \in Seq(Paths) /\ DialogInv'
  <1>1. d.content \in Texts
    BY DEF Documents
  <1>2. CASE a # "dialog"
    BY <1>2 DEF Return, TypeInv, TypeOK, DialogInv, AllTasks, Phases
  <1>3. CASE a = "dialog"
    <2>1. batch # <<>> /\ batch \in Seq(Paths)
      BY <1>3 DEF TypeInv, TypeOK, DialogInv
    <2>2. batch' \in Seq(Paths) /\ (~(Len(batch) < 2) => batch' # <<>>)
      BY <1>3, <2>1, TailTyped DEF Return
    <2>3. job' = [job EXCEPT ![a] = [job[a] EXCEPT !.snap = d.content]]
      BY <1>3 DEF Return
    <2>4. [job[a] EXCEPT !.snap = d.content] \in Jobs
      <3>1. job[a] \in Jobs
        BY DEF TypeInv, TypeOK
      <3>. QED
        BY <1>1, <3>1 DEF Jobs
    <2>5. job' \in [AllTasks -> Jobs]
      BY <2>3, <2>4 DEF TypeInv, TypeOK
    <2>6. pc' = [pc EXCEPT ![a] = IF Len(batch) < 2 THEN "idle"
                                  ELSE IF all THEN "load" ELSE "ask"]
      BY <1>3 DEF Return
    <2>7. pc' \in [AllTasks -> Phases] /\ DialogInv'
      BY <1>3, <2>2, <2>6 DEF TypeInv, TypeOK, DialogInv, AllTasks, Phases
    <2>. QED
      BY <2>2, <2>5, <2>7
  <1>. QED
    BY <1>2, <1>3

-----------------------------------------------------------------------------
(* Every action keeps the types, and the dialog its batch.                 *)

THEOREM TypeInit == Init => TypeInv
  <1>. SUFFICES ASSUME Init PROVE TypeInv
    OBVIOUS
  <1>1. First \in Texts /\ Home \in Paths /\ First.eol \in {"lf", "crlf"}
    BY FirstTyped DEF Texts
  <1>2. doc \in Documents
    BY <1>1 DEF Init, Documents
  <1>3. job \in [AllTasks -> Jobs]
    BY <1>1 DEF Init, Jobs
  <1>4. disk \in [Paths -> Texts \cup {None}] /\ pend \in [Paths -> Entries \cup {None}]
        /\ pc \in [AllTasks -> Phases]
    BY <1>1 DEF Init, Phases
  <1>5. queued \in Seq(Paths) /\ batch \in Seq(Paths)
    BY DEF Init
  <1>6. /\ timers \subseteq Paths \X Nat \X Nat /\ recent \subseteq Paths
        /\ events \subseteq Events /\ reads \subseteq Reads /\ own \subseteq Paths
        /\ persisted \subseteq Texts
    BY <1>1 DEF Init
  <1>7. /\ saves \in Nat /\ lastSave \in Nat /\ emitted \in Nat /\ edits \in Nat
        /\ others \in Nat /\ all \in BOOLEAN /\ dropped \in BOOLEAN
    BY DEF Init
  <1>8. TypeOK
    BY <1>2, <1>3, <1>4, <1>5, <1>6, <1>7 DEF TypeOK
  <1>. QED
    BY <1>8 DEF Init, TypeInv, DialogInv, AllTasks

LEMMA FileTypes ==
    ASSUME TypeInv, FileStep PROVE TypeInv'
  <1>. USE DEF TypeInv, TypeOK, DialogInv
  <1>1. ASSUME NEW p \in Paths, NEW t \in WriterTexts, NEW k \in Kinds, OtherWrites(p, t, k)
        PROVE  TypeInv'
    <2>1. t \in Texts /\ k \in {"modify", "rename", "remove", "pair"}
      BY TextAssumption, TasksAssumption DEF WriterTexts, Texts
    <2>2. recent' \subseteq Paths /\ events' \subseteq Events /\ emitted' \in Nat
      BY <1>1, <2>1, NotifyTyped DEF OtherWrites
    <2>. QED
      BY <1>1, <2>1, <2>2 DEF OtherWrites
  <1>2. ASSUME NEW p \in Paths, NEW k \in Kinds, OtherDeletes(p, k)
        PROVE  TypeInv'
    <2>. DEFINE kind == IF k = "modify" THEN "remove" ELSE k
    <2>1. kind \in {"modify", "rename", "remove", "pair"} /\ Notify(kind, p, p)
      BY <1>2, TasksAssumption DEF OtherDeletes
    <2>. HIDE DEF kind
    <2>2. recent' \subseteq Paths /\ events' \subseteq Events /\ emitted' \in Nat
      BY <2>1, NotifyTyped
    <2>. QED
      BY <1>2, <2>2 DEF OtherDeletes
  <1>3. ASSUME NEW p \in Paths, NEW q \in Paths, OtherRenames(p, q)
        PROVE  TypeInv'
    <2>1. recent' \subseteq Paths /\ events' \subseteq Events /\ emitted' \in Nat
      BY <1>3, NotifyTyped DEF OtherRenames
    <2>. QED
      BY <1>3, <2>1 DEF OtherRenames
  <1>4. ASSUME NEW p \in Paths, Calm(p)
        PROVE  TypeInv'
    BY <1>4 DEF Calm
  <1>. QED
    BY <1>1, <1>2, <1>3, <1>4 DEF FileStep

LEMMA EditTypes ==
    ASSUME TypeInv, NEW b \in Typed, Edit(b) PROVE TypeInv'
  <1>1. [body |-> b, eol |-> "lf"] \in Texts
    BY TextAssumption DEF Texts
  <1>2. doc' \in Documents
    BY <1>1, FirstTyped, StoreTyped DEF Edit, TypeInv, TypeOK
  <1>. QED
    BY <1>2 DEF Edit, TypeInv, TypeOK, DialogInv

\* A save that begins, by any task that is not the dialog or whose dialog is up.
LEMMA BeginTypes ==
    ASSUME TypeInv, NEW a \in AllTasks, a = "dialog" => pc["dialog"] # "idle",
           NEW p \in Paths, NEW t \in Texts, NEW clear \in BOOLEAN, NEW again \in BOOLEAN,
           Begin(a, p, t, clear, again),
           UNCHANGED <<fileVars, doc, timers, lastSave, reads, askVars, countVars>>
    PROVE  TypeInv'
  <1>1. /\ saves' \in Nat /\ pc' = [pc EXCEPT ![a] = "write"]
        /\ pc' \in [AllTasks -> Phases] /\ job' \in [AllTasks -> Jobs]
        /\ pend' \in [Paths -> Entries \cup {None}]
    BY BeginTyped DEF TypeInv
  <1>. QED
    BY <1>1 DEF TypeInv, TypeOK, DialogInv, AllTasks

\* Only the control state and job of a task change, to a phase of the task.
LEMMA TaskTypes ==
    ASSUME TypeInv, NEW a \in AllTasks, NEW ph \in Phases, NEW j \in Jobs,
           a = "dialog" => pc["dialog"] # "idle",
           pc' = [pc EXCEPT ![a] = ph], job' = [job EXCEPT ![a] = j],
           saves' \in Nat,
           UNCHANGED <<fileVars, doc, pend, timers, lastSave, reads, askVars, countVars>>
    PROVE  TypeInv'
  BY DEF TypeInv, TypeOK, DialogInv, AllTasks

LEMMA StartTypes ==
    ASSUME TypeInv,
           \/ AutoSave \/ Save \/ McpSave
           \/ \E a \in {"save", "move"} : SaveAs(a)
           \/ \E a \in {"save", "move", "dialog"}, p \in Paths : Pick(a, p)
    PROVE  TypeInv'
  <1>. USE DEF AllTasks
  <1>1. doc \in Documents /\ doc.content \in Texts /\ doc.filePath \in Paths
        /\ saves \in Nat
    BY DEF TypeInv, TypeOK, Documents
  <1>2. \A a \in AllTasks : /\ job[a] \in Jobs /\ job[a].snap \in Texts
                            /\ job[a].clear \in BOOLEAN
    BY DEF TypeInv, TypeOK, Jobs
  <1>3. CASE AutoSave
    BY <1>1, <1>3, BeginTypes DEF AutoSave
  <1>4. CASE Save
    <2>1. CASE Begin("save", doc.filePath, doc.content, FALSE, TRUE)
      BY <1>1, <1>4, <2>1, BeginTypes DEF Save
    <2>2. CASE /\ GoTo("save", "pick")
               /\ job' = [job EXCEPT !["save"].snap = doc.content, !["save"].clear = TRUE]
               /\ UNCHANGED <<pend, saves>>
      <3>1. [job["save"] EXCEPT !.snap = doc.content, !.clear = TRUE] \in Jobs
        BY <1>1, <1>2 DEF Jobs
      <3>2. job' = [job EXCEPT !["save"] = [job["save"] EXCEPT !.snap = doc.content, !.clear = TRUE]]
        BY <2>2 DEF TypeInv, TypeOK
      <3>3. "pick" \in Phases /\ pc' = [pc EXCEPT !["save"] = "pick"] /\ saves' \in Nat
        BY <1>1, <2>2 DEF Phases
      <3>. QED
        BY <1>4, <2>2, <3>1, <3>2, <3>3, TaskTypes DEF Save
    <2>. QED
      BY <1>4, <2>1, <2>2 DEF Save
  <1>5. CASE McpSave
    <2>. DEFINE j == [job["mcp"] EXCEPT !.path = doc.filePath, !.snap = doc.content,
                                        !.text = doc.content]
    <2>1. j \in Jobs
      BY <1>1, <1>2 DEF Jobs
    <2>2. job' = [job EXCEPT !["mcp"] = j]
      BY <1>5 DEF McpSave, TypeInv, TypeOK
    <2>3. "write" \in Phases /\ pc' = [pc EXCEPT !["mcp"] = "write"] /\ saves' \in Nat
      BY <1>1, <1>5 DEF Phases, McpSave
    <2>. HIDE DEF j
    <2>. QED
      BY <1>5, <2>1, <2>2, <2>3, TaskTypes DEF McpSave
  <1>6. ASSUME NEW a \in {"save", "move"}, SaveAs(a) PROVE TypeInv'
    <2>. DEFINE j == [job[a] EXCEPT !.snap = doc.content, !.old = doc.filePath,
                                    !.clear = FALSE]
    <2>1. j \in Jobs
      BY <1>1, <1>2 DEF Jobs
    <2>2. job' = [job EXCEPT ![a] = j] /\ saves' \in Nat
      BY <1>1, <1>6 DEF SaveAs
    <2>3. "pick" \in Phases /\ pc' = [pc EXCEPT ![a] = "pick"]
      BY <1>6 DEF Phases, SaveAs
    <2>. HIDE DEF j
    <2>. QED
      BY <1>6, <2>1, <2>2, <2>3, TaskTypes DEF SaveAs
  <1>7. ASSUME NEW a \in {"save", "move", "dialog"}, NEW p \in Paths, Pick(a, p)
        PROVE  TypeInv'
    <2>1. a \in AllTasks /\ pc[a] # "idle" /\ Begin(a, p, job[a].snap, job[a].clear, FALSE)
      BY <1>7 DEF Pick
    <2>2. job[a].snap \in Texts /\ job[a].clear \in BOOLEAN
      BY <1>2, <2>1
    <2>3. UNCHANGED <<fileVars, doc, timers, lastSave, reads, askVars, countVars>>
      BY <1>7 DEF Pick
    <2>4. a = "dialog" => pc["dialog"] # "idle"
      BY <2>1
    <2>. DEFINE t == job[a].snap
                clear == job[a].clear
    <2>. HIDE DEF t, clear
    <2>5. t \in Texts /\ clear \in BOOLEAN /\ Begin(a, p, t, clear, FALSE)
      BY <2>1, <2>2 DEF t, clear
    <2>. QED
      BY <2>1, <2>3, <2>4, <2>5, BeginTypes
  <1>. QED
    BY <1>3, <1>4, <1>5, <1>6, <1>7

LEMMA EndTypes ==
    ASSUME TypeInv,
           \/ RemoveOld
           \/ \E a \in {"save", "move", "dialog"} : Cancel(a)
           \/ \E a \in AllTasks : Saved(a) \/ WriteFails(a) \/ \E k \in Kinds : Persist(a, k)
           \/ \E t \in timers : ClearPending(t)
    PROVE  TypeInv'
  <1>1. \A a \in AllTasks : /\ job[a] \in Jobs /\ job[a].path \in Paths
                            /\ job[a].old \in Paths /\ job[a].text \in Texts
                            /\ job[a].token \in Nat
    BY DEF TypeInv, TypeOK, Jobs
  <1>2. TypeOK /\ DialogInv /\ doc \in Documents
    BY DEF TypeInv, TypeOK
  <1>3. ASSUME NEW a \in {"save", "move", "dialog"}, Cancel(a) PROVE TypeInv'
    <2>1. a \in AllTasks /\ pc[a] # "idle" /\ Return(a, doc)
      BY <1>3 DEF Cancel, AllTasks
    <2>2. /\ pc' \in [AllTasks -> Phases] /\ job' \in [AllTasks -> Jobs]
          /\ batch' \in Seq(Paths) /\ DialogInv'
      BY <1>2, <2>1, ReturnTyped
    <2>. QED
      BY <1>3, <2>2 DEF Cancel, TypeInv, TypeOK
  <1>4. ASSUME NEW a \in AllTasks, NEW k \in Kinds, Persist(a, k) PROVE TypeInv'
    <2>1. job[a].path \in Paths /\ job[a].text \in Texts
      BY <1>1
    <2>. DEFINE kind == IF a = "mcp" THEN "modify" ELSE k
    <2>2. kind \in {"modify", "rename", "remove", "pair"}
          /\ Notify(kind, job[a].path, job[a].path)
      BY <1>4, TasksAssumption DEF Persist
    <2>3. recent' \subseteq Paths /\ events' \subseteq Events /\ emitted' \in Nat
      <3>. HIDE DEF kind
      <3>. QED
        BY <1>2, <2>1, <2>2, NotifyTyped
    <2>4. pc' \in [AllTasks -> Phases] /\ DialogInv'
      BY <1>4 DEF Persist, TypeInv, TypeOK, DialogInv, Phases
    <2>5. disk' \in [Paths -> Texts \cup {None}]
      BY <1>4, <2>1 DEF Persist, TypeInv, TypeOK
    <2>. QED
      BY <1>4, <2>1, <2>3, <2>4, <2>5 DEF Persist, TypeInv, TypeOK
  <1>5. ASSUME NEW a \in AllTasks, Saved(a) PROVE TypeInv'
    <2>1. job[a].path \in Paths /\ job[a].token \in Nat /\ emitted \in Nat
      BY <1>1, <1>2 DEF TypeOK
    <2>2. doc' \in Documents /\ pc[a] # "idle"
      BY <1>2, <1>5, AfterSaveTyped DEF Saved
    <2>3. timers' \subseteq Paths \X Nat \X Nat
      BY <1>2, <1>5, <2>1 DEF Saved, TypeOK
    <2>4. /\ pc' \in [AllTasks -> Phases] /\ job' \in [AllTasks -> Jobs]
          /\ batch' \in Seq(Paths) /\ DialogInv'
      <3>1. CASE a = "move"
        BY <1>5, <3>1 DEF Saved, TypeInv, TypeOK, DialogInv, AllTasks, Phases
      <3>2. CASE a # "move"
        <4>1. Return(a, doc') /\ AfterSave(a) \in Documents /\ doc' = AfterSave(a)
          BY <1>2, <1>5, <3>2, AfterSaveTyped DEF Saved
        <4>2. PICK d \in Documents : d = AfterSave(a)
          BY <4>1
        <4>3. Return(a, d)
          BY <1>5, <3>2, <4>2 DEF Saved
        <4>. QED
          BY <2>2, <4>3, ReturnTyped
      <3>. QED
        BY <3>1, <3>2
    <2>5. lastSave' \in Nat
      BY <1>5, <2>1 DEF Saved, TypeInv, TypeOK
    <2>. QED
      BY <1>5, <2>2, <2>3, <2>4, <2>5 DEF Saved, TypeInv, TypeOK
  <1>6. ASSUME NEW a \in AllTasks, WriteFails(a) PROVE TypeInv'
    <2>1. pend' \in [Paths -> Entries \cup {None}]
      BY <1>1, <1>2, <1>6, ClearedTyped DEF WriteFails, TypeOK
    <2>2. doc' \in Documents /\ pc[a] # "idle"
      BY <1>2, <1>6, FirstTyped, StoreTyped DEF WriteFails, Missing
    <2>3. /\ pc' \in [AllTasks -> Phases] /\ job' \in [AllTasks -> Jobs]
          /\ batch' \in Seq(Paths) /\ DialogInv'
      <3>1. CASE /\ a = "save" /\ GoTo(a, "pick")
                 /\ job' = [job EXCEPT ![a].clear = TRUE] /\ UNCHANGED batch
        <4>1. [job[a] EXCEPT !.clear = TRUE] \in Jobs
          BY <1>1 DEF Jobs
        <4>. QED
          BY <3>1, <4>1 DEF TypeInv, TypeOK, DialogInv, AllTasks, Phases
      <3>2. CASE Return(a, doc')
        <4>1. PICK d \in Documents : d = doc'
          BY <2>2
        <4>2. Return(a, d)
          BY <3>2, <4>1
        <4>. QED
          BY <2>2, <4>2, ReturnTyped
      <3>. QED
        BY <1>6, <3>1, <3>2 DEF WriteFails
    <2>. QED
      BY <1>6, <2>1, <2>2, <2>3 DEF WriteFails, TypeInv, TypeOK
  <1>7. CASE RemoveOld
    <2>1. job["move"].old \in Paths
      BY <1>1 DEF AllTasks
    <2>2. pc' \in [AllTasks -> Phases] /\ DialogInv'
      BY <1>7 DEF RemoveOld, TypeInv, TypeOK, DialogInv, Phases, AllTasks
    <2>3. /\ recent' \subseteq Paths /\ events' \subseteq Events /\ emitted' \in Nat
          /\ disk' \in [Paths -> Texts \cup {None}] /\ own' \subseteq Paths
          /\ persisted' \subseteq Texts
      <3>1. CASE UNCHANGED fileVars
        BY <1>2, <3>1 DEF TypeOK
      <3>2. CASE ~UNCHANGED fileVars
        <4>1. Notify("remove", job["move"].old, job["move"].old)
          BY <1>7, <3>2 DEF RemoveOld
        <4>2. recent' \subseteq Paths /\ events' \subseteq Events /\ emitted' \in Nat
          BY <1>2, <2>1, <4>1, NotifyTyped
        <4>. QED
          BY <1>2, <1>7, <2>1, <3>2, <4>2 DEF RemoveOld, TypeOK
      <3>. QED
        BY <3>1, <3>2
    <2>. QED
      BY <1>7, <2>2, <2>3 DEF RemoveOld, TypeInv, TypeOK
  <1>8. ASSUME NEW t \in timers, ClearPending(t) PROVE TypeInv'
    <2>1. t[1] \in Paths /\ t[2] \in Nat /\ timers' \subseteq Paths \X Nat \X Nat
      BY <1>2, <1>8 DEF TypeOK, ClearPending
    <2>2. pend' \in [Paths -> Entries \cup {None}]
      BY <1>2, <1>8, <2>1, ClearedTyped DEF ClearPending
    <2>. QED
      BY <1>8, <2>1, <2>2 DEF ClearPending, TypeInv, TypeOK, DialogInv
  <1>. QED
    BY <1>3, <1>4, <1>5, <1>6, <1>7, <1>8

LEMMA EventTypes ==
    ASSUME TypeInv, EventStep PROVE TypeInv'
  <1>1. TypeOK /\ DialogInv /\ doc \in Documents /\ doc.filePath \in Paths
    BY DEF TypeInv, TypeOK, Documents
  <1>2. ASSUME NEW e \in events, Deliver(e) PROVE TypeInv'
    <2>1. e \in Events /\ e.no \in Nat /\ e.path \in Paths /\ e.to \in Paths
      BY <1>1 DEF TypeOK, Events
    <2>. DEFINE Read(k, p) == [no |-> e.no, kind |-> k, path |-> p, text |-> None,
                               done |-> FALSE, own |-> FALSE]
    <2>2. \A k \in {"modify", "rename"}, p \in Paths : Read(k, p) \in Reads
      BY <2>1 DEF Reads
    <2>3. doc' \in Documents
      <3>1. [doc EXCEPT !.filePath = e.to, !.isMissing = FALSE] \in Documents
        BY <1>1, <2>1 DEF Documents
      <3>2. Missing(doc) \in Documents
        BY <1>1, FirstTyped, StoreTyped
      <3>. QED
        BY <1>1, <1>2, <3>1, <3>2 DEF Deliver
    <2>4. reads' \subseteq Reads
      <3>1. \/ reads' = reads
            \/ \E k \in {"modify", "rename"}, p \in Paths : reads' = reads \cup {Read(k, p)}
        BY <1>2, <2>1 DEF Deliver
      <3>. HIDE DEF Read
      <3>. QED
        BY <1>1, <2>2, <3>1 DEF TypeOK
    <2>. QED
      BY <1>1, <1>2, <2>3, <2>4 DEF Deliver, TypeInv, TypeOK, DialogInv
  <1>3. ASSUME NEW r \in reads, ReadFile(r) PROVE TypeInv'
    <2>1. r \in Reads /\ disk[r.path] \in Texts \cup {None}
      BY <1>1 DEF TypeOK, Reads
    <2>. DEFINE s == [r EXCEPT !.text = disk[r.path], !.done = TRUE, !.own = r.path \in own]
    <2>2. s \in Reads
      <3>1. \A b \in BOOLEAN : [r EXCEPT !.text = disk[r.path], !.done = TRUE, !.own = b] \in Reads
        BY <2>1 DEF Reads
      <3>2. CASE r.path \in own
        <4>1. (r.path \in own) = TRUE
          BY <3>2
        <4>. QED
          BY <3>1, <4>1
      <3>3. CASE r.path \notin own
        <4>1. (r.path \in own) = FALSE
          BY <3>3
        <4>. QED
          BY <3>1, <4>1
      <3>. QED
        BY <3>2, <3>3
    <2>3. reads' \subseteq Reads
      <3>1. reads' = (reads \ {r}) \cup {s}
        BY <1>3 DEF ReadFile
      <3>. HIDE DEF s
      <3>. QED
        BY <1>1, <2>2, <3>1 DEF TypeOK
    <2>. QED
      BY <1>1, <1>3, <2>3 DEF ReadFile, TypeInv, TypeOK, DialogInv
  <1>4. ASSUME NEW r \in reads, Resume(r) PROVE TypeInv'
    <2>1. r.path \in Paths /\ r.text \in Texts \cup {None}
      BY <1>1 DEF TypeOK, Reads
    <2>2. doc' \in Documents /\ queued' \in Seq(Paths)
      <3>1. CASE ReadFails(r)
        BY <1>1, <2>1, <3>1, FirstTyped, StoreTyped DEF ReadFails, TypeOK
      <3>2. CASE UNCHANGED <<doc, queued>>
        BY <1>1, <3>2 DEF TypeOK
      <3>3. CASE r.text # None /\ ModifyEvent(r.path, r.text)
        <4>1. r.text \in Texts
          BY <2>1, <3>3
        <4>2. [doc EXCEPT !.lastDiskContent = r.text] \in Documents
          BY <1>1, <4>1 DEF Documents
        <4>3. [LoadContent(r.text, r.path) EXCEPT !.isMissing = FALSE] \in Documents
          BY <1>1, <2>1, <4>1, StoreTyped
        <4>4. queued \in Seq(Paths) /\ Append(queued, r.path) \in Seq(Paths)
          BY <1>1, <2>1 DEF TypeOK
        <4>. QED
          BY <1>1, <3>3, <4>2, <4>3, <4>4 DEF ModifyEvent
      <3>. QED
        BY <1>4, <3>1, <3>2, <3>3 DEF Resume
    <2>3. reads' \subseteq Reads
      BY <1>1, <1>4 DEF Resume, TypeOK
    <2>. QED
      BY <1>1, <1>4, <2>2, <2>3 DEF Resume, TypeInv, TypeOK, DialogInv
  <1>. QED
    BY <1>2, <1>3, <1>4 DEF EventStep

LEMMA DialogTypes ==
    ASSUME TypeInv, DialogStep PROVE TypeInv'
  <1>1. TypeOK /\ DialogInv /\ doc \in Documents /\ doc.content \in Texts
        /\ "dialog" \in AllTasks /\ job["dialog"] \in Jobs
    BY DEF TypeInv, TypeOK, Documents, AllTasks
  <1>2. pc["dialog"] # "idle" => batch # <<>> /\ Head(batch) \in Paths
    BY <1>1, TailTyped DEF TypeOK, DialogInv
  <1>3. ASSUME NEW d \in Documents, Return("dialog", d), pc["dialog"] # "idle"
        PROVE  /\ pc' \in [AllTasks -> Phases] /\ job' \in [AllTasks -> Jobs]
               /\ batch' \in Seq(Paths) /\ DialogInv'
    BY <1>1, <1>3, ReturnTyped
  <1>4. \A ph \in Phases : [pc EXCEPT !["dialog"] = ph] \in [AllTasks -> Phases]
    BY <1>1 DEF TypeOK
  <1>5. \A t \in Texts : /\ [job EXCEPT !["dialog"].snap = t] \in [AllTasks -> Jobs]
                         /\ [job EXCEPT !["dialog"].text = t] \in [AllTasks -> Jobs]
    <2>1. \A t \in Texts : /\ [job["dialog"] EXCEPT !.snap = t] \in Jobs
                           /\ [job["dialog"] EXCEPT !.text = t] \in Jobs
      BY <1>1 DEF Jobs
    <2>. QED
      BY <1>1, <2>1 DEF TypeOK
  <1>. <<>> \in Seq(Paths)
    OBVIOUS
  <1>6. CASE OpenDialog
    <2>1. queued \in Seq(Paths) /\ batch' = queued /\ queued' = <<>> /\ all' = FALSE
          /\ batch' # <<>>
      BY <1>1, <1>6 DEF OpenDialog, TypeOK
    <2>2. pc' \in [AllTasks -> Phases] /\ job' \in [AllTasks -> Jobs]
      BY <1>1, <1>4, <1>5, <1>6 DEF OpenDialog, Phases
    <2>. QED
      BY <1>1, <1>6, <2>1, <2>2 DEF OpenDialog, TypeInv, TypeOK, DialogInv
  <1>7. CASE ChooseSaveAs
    <2>1. [job["dialog"] EXCEPT !.clear = TRUE] \in Jobs
      BY <1>1 DEF Jobs
    <2>2. job' \in [AllTasks -> Jobs]
      BY <1>1, <1>7, <2>1 DEF ChooseSaveAs, TypeOK
    <2>. QED
      BY <1>1, <1>2, <1>4, <1>7, <2>2 DEF ChooseSaveAs, TypeInv, TypeOK, DialogInv, Phases
  <1>8. CASE ChooseReload
    BY <1>1, <1>2, <1>4, <1>8 DEF ChooseReload, TypeInv, TypeOK, DialogInv, Phases
  <1>9. CASE ChooseKeep
    <2>1. PICK d \in Documents : d = [doc EXCEPT !.isDivergent = TRUE]
      BY <1>1 DEF Documents
    <2>2. /\ pc' \in [AllTasks -> Phases] /\ job' \in [AllTasks -> Jobs]
          /\ batch' \in Seq(Paths) /\ DialogInv'
      <3>1. CASE pc["dialog"] = "ask"
        <4>1. Return("dialog", d)
          BY <1>9, <2>1, <3>1 DEF ChooseKeep
        <4>. QED
          BY <1>3, <3>1, <4>1
      <3>2. CASE pc["dialog"] = "askAll"
        <4>1. batch' = <<>> /\ pc' = [pc EXCEPT !["dialog"] = "idle"] /\ UNCHANGED job
          BY <1>9, <3>2 DEF ChooseKeep
        <4>2. "idle" \in Phases
          BY DEF Phases
        <4>. QED
          BY <1>1, <1>4, <4>1, <4>2 DEF TypeOK, DialogInv
      <3>. QED
        BY <1>9, <3>1, <3>2 DEF ChooseKeep
    <2>. QED
      BY <1>1, <1>9, <2>1, <2>2 DEF ChooseKeep, TypeInv, TypeOK
  <1>10. CASE ReviewEach
    BY <1>1, <1>2, <1>4, <1>5, <1>10 DEF ReviewEach, TypeInv, TypeOK, DialogInv, Phases
  <1>11. CASE ReloadReads
    <2>1. disk[Head(batch)] \in Texts
      BY <1>1, <1>2, <1>11 DEF ReloadReads, TypeOK
    <2>. QED
      BY <1>1, <1>2, <1>4, <1>5, <1>11, <2>1
      DEF ReloadReads, TypeInv, TypeOK, DialogInv, Phases
  <1>12. CASE ReloadFails
    <2>1. PICK d \in Documents : d = Missing(doc)
      BY <1>1, FirstTyped, StoreTyped
    <2>2. Return("dialog", d) /\ pc["dialog"] # "idle"
      BY <1>12, <2>1 DEF ReloadFails
    <2>. QED
      BY <1>1, <1>3, <1>12, <2>1, <2>2 DEF ReloadFails, TypeInv, TypeOK
  <1>13. CASE Reloaded
    <2>1. job["dialog"].text \in Texts /\ Head(batch) \in Paths
      BY <1>1, <1>2, <1>13 DEF Reloaded, Jobs
    <2>2. LoadContent(job["dialog"].text, Head(batch)) \in Documents
          /\ [LoadContent(job["dialog"].text, Head(batch)) EXCEPT !.isMissing = FALSE] \in Documents
      BY <1>1, <2>1, StoreTyped
    <2>3. PICK d \in Documents : d = LoadContent(job["dialog"].text, Head(batch))
      BY <2>2
    <2>4. Return("dialog", d) /\ pc["dialog"] # "idle"
      BY <1>13, <2>3 DEF Reloaded
    <2>. QED
      BY <1>1, <1>3, <1>13, <2>2, <2>4 DEF Reloaded, TypeInv, TypeOK
  <1>. QED
    BY <1>6, <1>7, <1>8, <1>9, <1>10, <1>11, <1>12, <1>13 DEF DialogStep

LEMMA TypeStep == ASSUME TypeInv, [Next]_vars PROVE TypeInv'
  <1>1. CASE \E b \in Typed : Edit(b)
    BY <1>1, EditTypes
  <1>2. CASE FileStep
    BY <1>2, FileTypes
  <1>3. CASE SaveStep
    BY <1>3, StartTypes, EndTypes DEF SaveStep
  <1>4. CASE EventStep
    BY <1>4, EventTypes
  <1>5. CASE DialogStep
    BY <1>5, DialogTypes
  <1>6. CASE UNCHANGED vars
    BY <1>6 DEF vars, TypeInv, TypeOK, DialogInv
  <1>. QED
    BY <1>1, <1>2, <1>3, <1>4, <1>5, <1>6 DEF Next

THEOREM TypeInvariance == Spec => []TypeInv
  <1>1. TypeInv /\ [Next]_vars => TypeInv'
    BY TypeStep
  <1>. QED
    BY <1>1, TypeInit, PTL DEF Spec

\* The variables keep their shape: no failed read or write leaves something
\* that is not a text in the editor, and a dialog always has a change to show.
THEOREM TypeCorrect == Spec => []TypeOK
  <1>1. TypeInv => TypeOK
    BY DEF TypeInv
  <1>. QED
    BY <1>1, TypeInvariance, PTL

-----------------------------------------------------------------------------
(* What the saves keep: the texts on record, the dirty mark, and the        *)
(* registration of the newest save.                                         *)

\* The dirty mark compares the editor with the text last saved or read, which
\* is on record.
DirtyInv ==
    /\ doc.isDirty = (doc.content # doc.savedContent)
    /\ doc.savedContent \in persisted

\* So are the texts of the files, and what the reads and the saves under way
\* will put into the document.
RecordInv ==
    /\ \A p \in Paths : disk[p] # None => disk[p] \in persisted
    /\ \A r \in reads : r.text # None => r.text \in persisted
    /\ \A a \in AllTasks : pc[a] \in {"written", "loaded"} => job[a].text \in persisted

SyncInv == TypeInv /\ DirtyInv /\ RecordInv

\* A task that returns keeps its text and is neither written nor loaded.
LEMMA ReturnFrame ==
    ASSUME TypeInv, NEW a \in AllTasks, NEW d, Return(a, d)
    PROVE  /\ \A b \in AllTasks : /\ job'[b].text = job[b].text
                                  /\ job'[b].token = job[b].token
                                  /\ job'[b].path = job[b].path
           /\ \A b \in AllTasks : b # a => pc'[b] = pc[b]
           /\ pc'[a] \notin {"write", "written", "loaded"}
  <1>1. job \in [AllTasks -> Jobs] /\ pc \in [AllTasks -> Phases] /\ job[a] \in Jobs
    BY DEF TypeInv, TypeOK
  <1>2. CASE a # "dialog"
    BY <1>1, <1>2 DEF Return
  <1>3. CASE a = "dialog"
    <2>1. pc' = [pc EXCEPT ![a] = IF Len(batch) < 2 THEN "idle"
                                  ELSE IF all THEN "load" ELSE "ask"]
          /\ job' = [job EXCEPT ![a] = [job[a] EXCEPT !.snap = d.content]]
      BY <1>3 DEF Return
    <2>2. [job[a] EXCEPT !.snap = d.content].text = job[a].text
          /\ [job[a] EXCEPT !.snap = d.content].token = job[a].token
          /\ [job[a] EXCEPT !.snap = d.content].path = job[a].path
      BY <1>1 DEF Jobs
    <2>. QED
      BY <1>1, <2>1, <2>2
  <1>. QED
    BY <1>2, <1>3

\* A save that begins leaves the other tasks alone.
LEMMA BeginFrame ==
    ASSUME TypeInv, NEW a \in AllTasks, NEW p \in Paths, NEW t \in Texts,
           NEW clear, NEW again, Begin(a, p, t, clear, again)
    PROVE  /\ \A b \in AllTasks : b # a => job'[b] = job[b] /\ pc'[b] = pc[b]
           /\ pc'[a] = "write" /\ job'[a].path = p
           /\ job'[a].text = Output(t) /\ job'[a].token = saves + 1
           /\ saves' = saves + 1
           /\ pend' = [pend EXCEPT ![p] = [content |-> Output(t), token |-> saves + 1]]
  <1>1. job \in [AllTasks -> Jobs] /\ pc \in [AllTasks -> Phases] /\ job[a] \in Jobs
    BY DEF TypeInv, TypeOK
  <1>. DEFINE j == [job[a] EXCEPT !.path = p, !.snap = t, !.text = Output(t),
                      !.token = saves + 1, !.clear = clear, !.again = again]
  <1>2. job' = [job EXCEPT ![a] = j]
    BY DEF Begin
  <1>3. j.path = p /\ j.text = Output(t) /\ j.token = saves + 1
    BY <1>1 DEF Jobs
  <1>. QED
    BY <1>1, <1>2, <1>3 DEF Begin

LEMMA MarkSavedFacts ==
    ASSUME NEW d \in Documents, NEW t
    PROVE  /\ MarkSaved(d, t).content = d.content
           /\ MarkSaved(d, t).savedContent = t
           /\ MarkSaved(d, t).lastDiskContent = t
           /\ MarkSaved(d, t).isDirty = (d.content # t)
  BY DEF MarkSaved, Documents

LEMMA LoadFacts ==
    ASSUME doc \in Documents, NEW t, NEW p,
           doc' = [LoadContent(t, p) EXCEPT !.isMissing = FALSE]
    PROVE  /\ doc'.content = t /\ doc'.savedContent = t /\ doc'.lastDiskContent = t
           /\ doc'.isDirty = FALSE
  BY DEF LoadContent, Documents

LEMMA AfterSaveFacts ==
    ASSUME TypeInv, NEW a \in AllTasks
    PROVE  /\ AfterSave(a).content = doc.content
           /\ AfterSave(a).savedContent = job[a].text
           /\ AfterSave(a).lastDiskContent = job[a].text
           /\ AfterSave(a).isDirty = (doc.content # job[a].text)
  <1>. DEFINE d == IF a = "mcp" THEN doc
                   ELSE [doc EXCEPT !.filePath = job[a].path, !.lineEnding = job[a].text.eol]
              s == MarkSaved(d, job[a].text)
  <1>1. job[a].path \in Paths /\ job[a].text \in Texts /\ job[a].clear \in BOOLEAN
        /\ job[a].text.eol \in {"lf", "crlf"} /\ doc \in Documents
    BY DEF TypeInv, TypeOK, Jobs, Texts
  <1>2. d \in Documents /\ d.content = doc.content
    BY <1>1, DocumentsTyped DEF Documents
  <1>3. s \in Documents /\ s.content = doc.content /\ s.savedContent = job[a].text
        /\ s.lastDiskContent = job[a].text /\ s.isDirty = (doc.content # job[a].text)
    <2>. HIDE DEF d
    <2>. QED
      BY <1>1, <1>2, MarkSavedFacts, DocumentsTyped
  <1>4. AfterSave(a) = [s EXCEPT !.isMissing = s.isMissing /\ ~job[a].clear]
    BY DEF AfterSave
  <1>. HIDE DEF s
  <1>. QED
    BY <1>3, <1>4 DEF Documents

\* The texts on record are never forgotten.
LEMMA RecordsGrow ==
    ASSUME Next PROVE persisted \subseteq persisted'
  <1>1. CASE \E b \in Typed : Edit(b)
    BY <1>1 DEF Edit
  <1>2. CASE FileStep
    BY <1>2 DEF FileStep, OtherWrites, OtherDeletes, OtherRenames, Calm
  <1>3. CASE SaveStep
    BY <1>3 DEF SaveStep, AutoSave, Save, McpSave, RemoveOld, SaveAs, Cancel, Pick, Saved,
                WriteFails, Persist, ClearPending
  <1>4. CASE EventStep
    BY <1>4 DEF EventStep, Deliver, ReadFile, Resume
  <1>5. CASE DialogStep
    BY <1>5 DEF DialogStep, OpenDialog, ChooseSaveAs, ChooseReload, ChooseKeep, ReviewEach,
                ReloadReads, ReloadFails, Reloaded
  <1>. QED
    BY <1>1, <1>2, <1>3, <1>4, <1>5 DEF Next

\* The editor's text and its dirty mark change in four ways: an edit, a save
\* that ends, an event that reloads the file, and the user's reload.
LEMMA ContentStep ==
    ASSUME TypeInv, Next
    PROVE  \/ doc'.content = doc.content /\ doc'.savedContent = doc.savedContent
              /\ doc'.isDirty = doc.isDirty
           \/ \E b \in Typed : Edit(b)
           \/ \E a \in AllTasks : pc[a] = "written" /\ doc' = AfterSave(a)
           \/ \E r \in reads : /\ r.text # None /\ Policy(r.text) = "auto_reload"
                                /\ doc' = [LoadContent(r.text, r.path) EXCEPT !.isMissing = FALSE]
           \/ Reloaded
  <1>1. doc \in Documents
    BY DEF TypeInv, TypeOK
  <1>2. \A b \in BOOLEAN : LET d == [doc EXCEPT !.isMissing = b] IN
             d.content = doc.content /\ d.savedContent = doc.savedContent /\ d.isDirty = doc.isDirty
    BY <1>1 DEF Documents
  <1>3. CASE FileStep
    BY <1>3 DEF FileStep, OtherWrites, OtherDeletes, OtherRenames, Calm
  <1>4. CASE SaveStep
    <2>1. ASSUME NEW a \in AllTasks, WriteFails(a)
          PROVE  doc'.content = doc.content /\ doc'.savedContent = doc.savedContent
                 /\ doc'.isDirty = doc.isDirty
      <3>1. doc' = doc \/ doc' = [doc EXCEPT !.isMissing = TRUE]
        BY <2>1 DEF WriteFails
      <3>. QED
        BY <1>2, <3>1
    <2>2. ASSUME NEW a \in AllTasks, Saved(a)
          PROVE  pc[a] = "written" /\ doc' = AfterSave(a)
      BY <2>2 DEF Saved
    <2>3. CASE \/ AutoSave \/ Save \/ McpSave \/ RemoveOld
               \/ \E a \in {"save", "move"} : SaveAs(a)
               \/ \E a \in {"save", "move", "dialog"} : Cancel(a) \/ \E p \in Paths : Pick(a, p)
               \/ \E a \in AllTasks, k \in Kinds : Persist(a, k)
               \/ \E t \in timers : ClearPending(t)
      BY <2>3 DEF AutoSave, Save, McpSave, RemoveOld, SaveAs, Cancel, Pick, Persist, ClearPending
    <2>. QED
      BY <1>4, <2>1, <2>2, <2>3 DEF SaveStep
  <1>5. CASE EventStep
    <2>1. ASSUME NEW e \in events, Deliver(e)
          PROVE  doc'.content = doc.content /\ doc'.savedContent = doc.savedContent
                 /\ doc'.isDirty = doc.isDirty
      BY <1>1, <2>1 DEF Deliver, Missing, Documents
    <2>2. ASSUME NEW r \in reads, Resume(r)
          PROVE  \/ doc'.content = doc.content /\ doc'.savedContent = doc.savedContent
                    /\ doc'.isDirty = doc.isDirty
                 \/ /\ r.text # None /\ Policy(r.text) = "auto_reload"
                    /\ doc' = [LoadContent(r.text, r.path) EXCEPT !.isMissing = FALSE]
      BY <1>1, <2>2 DEF Resume, ReadFails, ModifyEvent, Missing, Documents
    <2>3. CASE \E r \in reads : ReadFile(r)
      BY <2>3 DEF ReadFile
    <2>. QED
      BY <1>5, <2>1, <2>2, <2>3 DEF EventStep
  <1>6. CASE DialogStep
    <2>1. CASE ChooseKeep
      BY <1>1, <2>1 DEF ChooseKeep, Documents
    <2>2. CASE ReloadFails
      BY <1>1, <2>2 DEF ReloadFails, Missing, Documents
    <2>3. CASE OpenDialog \/ ChooseSaveAs \/ ChooseReload \/ ReviewEach \/ ReloadReads
      BY <2>3 DEF OpenDialog, ChooseSaveAs, ChooseReload, ReviewEach, ReloadReads
    <2>. QED
      BY <1>6, <2>1, <2>2, <2>3 DEF DialogStep
  <1>. QED
    BY <1>3, <1>4, <1>5, <1>6 DEF Next

LEMMA DirtyStep ==
    ASSUME SyncInv, Next PROVE DirtyInv'
  <1>1. TypeInv /\ doc \in Documents /\ DirtyInv /\ RecordInv
    BY DEF SyncInv, TypeInv, TypeOK
  <1>2. persisted \subseteq persisted'
    BY RecordsGrow
  <1>3. ASSUME NEW b \in Typed, Edit(b) PROVE DirtyInv'
    <2>. DEFINE t == [body |-> b, eol |-> "lf"]
    <2>1. doc'.content = t /\ doc'.savedContent = doc.savedContent
          /\ doc'.isDirty = (doc.savedContent # t)
      <3>1. doc' = SetContent(t)
        BY <1>3 DEF Edit
      <3>. HIDE DEF t
      <3>. QED
        BY <1>1, <3>1 DEF SetContent, Documents
    <2>. HIDE DEF t
    <2>. QED
      BY <1>1, <1>2, <2>1 DEF DirtyInv
  <1>4. ASSUME NEW a \in AllTasks, pc[a] = "written", doc' = AfterSave(a) PROVE DirtyInv'
    BY <1>1, <1>2, <1>4, AfterSaveFacts DEF DirtyInv, RecordInv
  <1>5. ASSUME NEW r \in reads, r.text # None,
               doc' = [LoadContent(r.text, r.path) EXCEPT !.isMissing = FALSE]
        PROVE  DirtyInv'
    <2>1. doc'.content = r.text /\ doc'.savedContent = r.text /\ doc'.isDirty = FALSE
      BY <1>1, <1>5, LoadFacts
    <2>2. r.text \in persisted
      BY <1>1, <1>5 DEF RecordInv
    <2>. QED
      BY <1>2, <2>1, <2>2 DEF DirtyInv
  <1>6. CASE Reloaded
    <2>. DEFINE t == job["dialog"].text
    <2>1. doc' = [LoadContent(t, Head(batch)) EXCEPT !.isMissing = FALSE]
          /\ pc["dialog"] = "loaded" /\ "dialog" \in AllTasks
      BY <1>6 DEF Reloaded, AllTasks
    <2>2. t \in persisted
      BY <1>1, <2>1 DEF RecordInv
    <2>. HIDE DEF t
    <2>3. doc'.content = t /\ doc'.savedContent = t /\ doc'.isDirty = FALSE
      BY <1>1, <2>1, LoadFacts
    <2>. QED
      BY <1>2, <2>2, <2>3 DEF DirtyInv
  <1>7. CASE doc'.content = doc.content /\ doc'.savedContent = doc.savedContent
             /\ doc'.isDirty = doc.isDirty
    BY <1>1, <1>2, <1>7 DEF DirtyInv
  <1>. QED
    BY <1>1, <1>3, <1>4, <1>5, <1>6, <1>7, ContentStep

\* The files hold texts on record.
LEMMA DiskStep ==
    ASSUME SyncInv, Next
    PROVE  \A p \in Paths : disk'[p] # None => disk'[p] \in persisted'
  <1>1. /\ disk \in [Paths -> Texts \cup {None}] /\ persisted \subseteq persisted'
        /\ \A p \in Paths : disk[p] # None => disk[p] \in persisted
    BY RecordsGrow DEF SyncInv, TypeInv, TypeOK, RecordInv
  <1>2. CASE UNCHANGED disk
    BY <1>1, <1>2
  <1>3. CASE FileStep
    BY <1>1, <1>3 DEF FileStep, OtherWrites, OtherDeletes, OtherRenames, Calm
  <1>4. ASSUME NEW a \in AllTasks, NEW k \in Kinds, Persist(a, k)
        PROVE  \A p \in Paths : disk'[p] # None => disk'[p] \in persisted'
    BY <1>1, <1>4 DEF Persist
  <1>5. CASE RemoveOld
    BY <1>1, <1>5 DEF RemoveOld
  <1>6. CASE SaveStep
    <2>1. CASE \/ AutoSave \/ Save \/ McpSave
               \/ \E a \in {"save", "move"} : SaveAs(a)
               \/ \E a \in {"save", "move", "dialog"} : Cancel(a) \/ \E p \in Paths : Pick(a, p)
               \/ \E a \in AllTasks : Saved(a) \/ WriteFails(a)
               \/ \E t \in timers : ClearPending(t)
      BY <1>2, <2>1 DEF AutoSave, Save, McpSave, SaveAs, Cancel, Pick, Saved, WriteFails,
                        ClearPending
    <2>. QED
      BY <1>4, <1>5, <1>6, <2>1 DEF SaveStep
  <1>7. CASE (\E b \in Typed : Edit(b)) \/ EventStep \/ DialogStep
    BY <1>2, <1>7 DEF Edit, EventStep, Deliver, ReadFile, Resume, DialogStep, OpenDialog,
       ChooseSaveAs, ChooseReload, ChooseKeep, ReviewEach, ReloadReads, ReloadFails, Reloaded
  <1>. QED
    BY <1>3, <1>6, <1>7 DEF Next

LEMMA ReadStep ==
    ASSUME SyncInv, Next
    PROVE  \A r \in reads' : r.text # None => r.text \in persisted'
  <1>1. /\ TypeOK /\ persisted \subseteq persisted'
        /\ \A p \in Paths : disk[p] # None => disk[p] \in persisted
        /\ \A r \in reads : r.text # None => r.text \in persisted
    BY RecordsGrow DEF SyncInv, TypeInv, RecordInv
  <1>2. CASE reads' \subseteq reads
    BY <1>1, <1>2
  <1>3. CASE \/ \E b \in Typed : Edit(b)
             \/ FileStep \/ SaveStep \/ DialogStep
    BY <1>2, <1>3 DEF Edit, FileStep, OtherWrites, OtherDeletes, OtherRenames, Calm, SaveStep,
       AutoSave, Save, McpSave, RemoveOld, SaveAs, Cancel, Pick, Saved, WriteFails, Persist,
       ClearPending, DialogStep, OpenDialog, ChooseSaveAs, ChooseReload, ChooseKeep,
       ReviewEach, ReloadReads, ReloadFails, Reloaded
  <1>4. ASSUME NEW e \in events, Deliver(e)
        PROVE  \A r \in reads' : r.text # None => r.text \in persisted'
    <2>1. \A r \in reads' : r \in reads \/ r.text = None
      BY <1>4 DEF Deliver
    <2>. QED
      BY <1>1, <2>1
  <1>5. ASSUME NEW r \in reads, ReadFile(r)
        PROVE  \A s \in reads' : s.text # None => s.text \in persisted'
    <2>1. r \in Reads /\ r.path \in Paths
      BY <1>1 DEF TypeOK, Reads
    <2>2. [r EXCEPT !.text = disk[r.path], !.done = TRUE, !.own = r.path \in own].text
             = disk[r.path]
      BY <2>1 DEF Reads
    <2>. QED
      BY <1>1, <1>5, <2>1, <2>2 DEF ReadFile
  <1>6. ASSUME NEW r \in reads, Resume(r)
        PROVE  \A s \in reads' : s.text # None => s.text \in persisted'
    BY <1>2, <1>6 DEF Resume
  <1>. QED
    BY <1>3, <1>4, <1>5, <1>6 DEF Next, EventStep

LEMMA JobStep ==
    ASSUME SyncInv, Next
    PROVE  \A a \in AllTasks : pc'[a] \in {"written", "loaded"} => job'[a].text \in persisted'
  <1>. DEFINE Kept == \A a \in AllTasks :
                 pc'[a] \in {"written", "loaded"} => job'[a].text \in persisted'
  <1>. SUFFICES Kept
    OBVIOUS
  <1>1. /\ TypeInv /\ TypeOK /\ persisted \subseteq persisted'
        /\ pc \in [AllTasks -> Phases] /\ job \in [AllTasks -> Jobs]
        /\ doc \in Documents /\ doc.content \in Texts /\ doc.filePath \in Paths
        /\ \A a \in AllTasks : job[a].snap \in Texts
        /\ \A p \in Paths : disk[p] # None => disk[p] \in persisted
        /\ \A a \in AllTasks : pc[a] \in {"written", "loaded"} => job[a].text \in persisted
    BY RecordsGrow DEF SyncInv, TypeInv, TypeOK, RecordInv, Documents, Jobs
  <1>2. CASE UNCHANGED taskVars
    BY <1>1, <1>2
  \* One task's phase changes to a phase with nothing to vouch for.
  <1>3. ASSUME NEW a \in AllTasks, NEW ph \in Phases \ {"written", "loaded"},
               pc' = [pc EXCEPT ![a] = ph],
               \A b \in AllTasks \ {a} : job'[b] = job[b]
        PROVE  Kept
    BY <1>1, <1>3
  <1>4. ASSUME NEW a \in AllTasks, NEW d, Return(a, d) PROVE Kept
    BY <1>1, <1>4, ReturnFrame
  <1>5. ASSUME NEW a \in AllTasks, NEW p \in Paths, NEW t \in Texts, NEW clear, NEW again,
               Begin(a, p, t, clear, again)
        PROVE  Kept
    BY <1>1, <1>5, BeginFrame
  <1>6. CASE \/ \E b \in Typed : Edit(b)
             \/ FileStep \/ EventStep
    BY <1>2, <1>6 DEF Edit, FileStep, OtherWrites, OtherDeletes, OtherRenames, Calm,
       EventStep, Deliver, ReadFile, Resume
  <1>7. CASE AutoSave
    BY <1>1, <1>5, <1>7 DEF AutoSave, AllTasks
  <1>8. CASE Save
    <2>1. "save" \in AllTasks /\ "pick" \in Phases \ {"written", "loaded"}
      BY DEF AllTasks, Phases
    <2>2. CASE Begin("save", doc.filePath, doc.content, FALSE, TRUE)
      BY <1>1, <1>5, <2>1, <2>2
    <2>3. CASE GoTo("save", "pick")
               /\ job' = [job EXCEPT !["save"].snap = doc.content, !["save"].clear = TRUE]
      BY <1>1, <1>3, <2>1, <2>3
    <2>. QED
      BY <1>8, <2>2, <2>3 DEF Save
  <1>9. CASE McpSave
    BY <1>1, <1>3, <1>9 DEF McpSave, AllTasks, Phases
  <1>10. CASE RemoveOld
    BY <1>1, <1>3, <1>10 DEF RemoveOld, AllTasks, Phases
  <1>11. ASSUME NEW a \in {"save", "move"}, SaveAs(a) PROVE Kept
    BY <1>1, <1>3, <1>11 DEF SaveAs, AllTasks, Phases
  <1>12. ASSUME NEW a \in {"save", "move", "dialog"}, Cancel(a) PROVE Kept
    BY <1>4, <1>12 DEF Cancel, AllTasks
  <1>13. ASSUME NEW a \in {"save", "move", "dialog"}, NEW p \in Paths, Pick(a, p) PROVE Kept
    <2>1. a \in AllTasks /\ Begin(a, p, job[a].snap, job[a].clear, FALSE)
      BY <1>13 DEF Pick, AllTasks
    <2>2. PICK t \in Texts : t = job[a].snap
      BY <1>1, <2>1
    <2>3. Begin(a, p, t, job[a].clear, FALSE)
      BY <2>1, <2>2
    <2>. QED
      BY <1>5, <2>1, <2>3
  <1>14. ASSUME NEW a \in AllTasks, NEW k \in Kinds, Persist(a, k) PROVE Kept
    <2>1. pc' = [pc EXCEPT ![a] = "written"] /\ job' = job
          /\ persisted' = persisted \cup {job[a].text}
      BY <1>14 DEF Persist
    <2>. QED
      BY <1>1, <2>1
  <1>15. ASSUME NEW a \in AllTasks, Saved(a) PROVE Kept
    <2>1. CASE a = "move"
      BY <1>1, <1>3, <1>15, <2>1 DEF Saved, AllTasks, Phases
    <2>2. CASE a # "move"
      BY <1>4, <1>15, <2>2 DEF Saved
    <2>. QED
      BY <2>1, <2>2
  <1>16. ASSUME NEW a \in AllTasks, WriteFails(a) PROVE Kept
    <2>1. CASE a = "save" /\ GoTo(a, "pick") /\ job' = [job EXCEPT ![a].clear = TRUE]
      BY <1>1, <1>3, <2>1 DEF Phases
    <2>2. CASE Return(a, doc')
      BY <1>4, <2>2
    <2>. QED
      BY <1>16, <2>1, <2>2 DEF WriteFails
  <1>17. ASSUME NEW t \in timers, ClearPending(t) PROVE Kept
    BY <1>2, <1>17 DEF ClearPending
  <1>18. CASE DialogStep
    <2>1. "dialog" \in AllTasks
      BY DEF AllTasks
    <2>2. CASE OpenDialog \/ ChooseSaveAs \/ ChooseReload \/ ReviewEach
      BY <1>1, <1>3, <2>1, <2>2 DEF OpenDialog, ChooseSaveAs, ChooseReload, ReviewEach, Phases
    <2>3. CASE ChooseKeep
      BY <1>1, <1>3, <1>4, <2>1, <2>3 DEF ChooseKeep, Phases
    <2>4. CASE ReloadReads
      <3>1. batch # <<>> /\ batch \in Seq(Paths)
        BY <1>1, <2>4 DEF ReloadReads, TypeInv, TypeOK, DialogInv
      <3>2. disk[Head(batch)] \in persisted
        BY <1>1, <2>4, <3>1, TailTyped DEF ReloadReads
      <3>3. job'["dialog"].text = disk[Head(batch)]
            /\ \A b \in AllTasks \ {"dialog"} : job'[b] = job[b] /\ pc'[b] = pc[b]
        BY <1>1, <2>1, <2>4 DEF ReloadReads, Jobs
      <3>. QED
        BY <1>1, <3>2, <3>3
    <2>5. CASE ReloadFails
      BY <1>4, <2>1, <2>5 DEF ReloadFails
    <2>6. CASE Reloaded
      BY <1>4, <2>1, <2>6 DEF Reloaded
    <2>. QED
      BY <1>18, <2>2, <2>3, <2>4, <2>5, <2>6 DEF DialogStep
  <1>. HIDE DEF Kept
  <1>19. CASE SaveStep
    BY <1>7, <1>8, <1>9, <1>10, <1>11, <1>12, <1>13, <1>14, <1>15, <1>16, <1>17, <1>19
    DEF SaveStep
  <1>. QED
    BY <1>6, <1>18, <1>19 DEF Next

LEMMA SyncInit == Init => SyncInv
  <1>. SUFFICES ASSUME Init PROVE SyncInv
    OBVIOUS
  <1>1. DirtyInv
    BY DEF Init, DirtyInv
  <1>2. RecordInv
    BY DEF Init, RecordInv
  <1>. QED
    BY <1>1, <1>2, TypeInit DEF SyncInv

LEMMA SyncStep == ASSUME SyncInv, [Next]_vars PROVE SyncInv'
  <1>1. TypeInv'
    BY TypeStep DEF SyncInv
  <1>2. CASE Next
    <2>1. DirtyInv'
      BY <1>2, DirtyStep
    <2>2. RecordInv'
      BY <1>2, DiskStep, ReadStep, JobStep DEF RecordInv
    <2>. QED
      BY <1>1, <2>1, <2>2 DEF SyncInv
  <1>3. CASE UNCHANGED vars
    BY <1>1, <1>3 DEF vars, SyncInv, DirtyInv, RecordInv
  <1>. QED
    BY <1>2, <1>3

THEOREM SyncInvariance == Spec => []SyncInv
  <1>1. SyncInv /\ [Next]_vars => SyncInv'
    BY SyncStep
  <1>. QED
    BY <1>1, SyncInit, PTL DEF Spec

\* A document shown as saved is on record in a file, however edits and saves
\* overlap.
THEOREM CleanMeansPersisted == Spec => []CleanIsPersisted
  <1>1. SyncInv => CleanIsPersisted
    BY DEF SyncInv, DirtyInv, CleanIsPersisted
  <1>. QED
    BY <1>1, SyncInvariance, PTL

\* No event, save or failure discards an editor's text that is on record
\* nowhere; only the user's reload does.
THEOREM NothingIsDiscarded == Spec => NothingDiscarded
  <1>. DEFINE Kept == doc'.content # doc.content =>
                 \/ edits' # edits
                 \/ SoftContentEquals(doc'.content, doc.content)
                 \/ doc.content \in persisted
                 \/ pc["dialog"] = "loaded"
  <1>1. ASSUME SyncInv, Next PROVE Kept
    <2>1. TypeInv /\ DirtyInv /\ doc \in Documents /\ edits \in Nat
      BY <1>1 DEF SyncInv, TypeInv, TypeOK
    <2>2. ASSUME NEW b \in Typed, Edit(b) PROVE Kept
      BY <2>1, <2>2 DEF Edit
    <2>3. ASSUME NEW a \in AllTasks, doc' = AfterSave(a) PROVE Kept
      BY <2>1, <2>3, AfterSaveFacts
    <2>4. ASSUME NEW r \in reads, Policy(r.text) = "auto_reload",
                 doc' = [LoadContent(r.text, r.path) EXCEPT !.isMissing = FALSE]
          PROVE  Kept
      <3>1. doc'.content = r.text
        BY <2>1, <2>4, LoadFacts
      <3>2. ~doc.isDirty \/ SoftContentEquals(r.text, doc.content)
        BY <2>4 DEF Policy, ResolveExternalChange
      <3>. QED
        BY <2>1, <3>1, <3>2 DEF DirtyInv
    <2>5. CASE Reloaded
      BY <2>5 DEF Reloaded
    <2>. QED
      BY <1>1, <2>1, <2>2, <2>3, <2>4, <2>5, ContentStep
  <1>2. SyncInv /\ [Next]_vars => [Kept]_vars
    BY <1>1
  <1>. QED
    BY <1>2, SyncInvariance, PTL DEF Spec, NothingDiscarded

-----------------------------------------------------------------------------
(* The registrations of the saves.                                         *)

Savers == AllTasks \ {"mcp"}
Saving(a) == pc[a] \in {"write", "written"}

\* Each save under way has a token of its own, which no timer holds.
TokenInv ==
    /\ \A a \in Savers : job[a].token <= saves /\ (Saving(a) => job[a].token > 0)
    /\ \A a, b \in Savers : a # b /\ job[a].token = job[b].token => job[a].token = 0
    /\ \A t \in timers : /\ t[2] <= saves
                         /\ \A a \in Savers : Saving(a) => t[2] # job[a].token

RegisteredInv == TypeInv /\ TokenInv /\ NewestIsRegistered

\* What a step of task a that begins no save may do: it ends a's own save, or
\* none, and clears at most a's own registration.
EndsAtMost(a) ==
    /\ \A b \in AllTasks : job'[b].token = job[b].token
    /\ \A b \in AllTasks \ {a} : /\ job'[b].path = job[b].path /\ job'[b].text = job[b].text
                                 /\ pc'[b] = pc[b]
    /\ a = "mcp" \/ ~Saving(a)'
    /\ saves' \in Nat /\ saves <= saves'
    /\ pend' = pend \/ (Saving(a) /\ a # "mcp" /\ pend' = Cleared(job[a].path, job[a].token))
    /\ \A t \in timers' : t \in timers \/ (a # "mcp" /\ Saving(a) /\ t[2] = job[a].token)

LEMMA EndsKeeps ==
    ASSUME RegisteredInv, NEW a \in AllTasks, EndsAtMost(a)
    PROVE  TokenInv' /\ NewestIsRegistered'
  <1>. USE DEF RegisteredInv, Savers, Saving
  <1>1. /\ saves \in Nat /\ saves' \in Nat /\ saves <= saves'
        /\ \A b \in AllTasks : job[b].token \in Nat /\ job[b].path \in Paths
        /\ \A t \in timers : t[2] \in Nat
        /\ pend \in [Paths -> Entries \cup {None}]
    BY DEF EndsAtMost, TypeInv, TypeOK, Jobs
  <1>2. \A b \in Savers : Saving(b)' => b # a /\ Saving(b)
    BY DEF EndsAtMost
  <1>3. TokenInv'
    <2>1. \A b \in Savers : job'[b].token <= saves' /\ (Saving(b)' => job'[b].token > 0)
      BY <1>1, <1>2 DEF EndsAtMost, TokenInv
    <2>2. \A b, c \in Savers : b # c /\ job'[b].token = job'[c].token => job'[b].token = 0
      BY DEF EndsAtMost, TokenInv
    <2>3. ASSUME NEW t \in timers'
          PROVE  t[2] <= saves' /\ \A b \in Savers : Saving(b)' => t[2] # job'[b].token
      <3>1. CASE t \in timers
        BY <1>1, <1>2, <3>1 DEF EndsAtMost, TokenInv
      <3>2. CASE a # "mcp" /\ Saving(a) /\ t[2] = job[a].token
        BY <1>1, <1>2, <3>2 DEF EndsAtMost, TokenInv
      <3>. QED
        BY <3>1, <3>2 DEF EndsAtMost
    <2>. QED
      BY <2>1, <2>2, <2>3 DEF TokenInv
  <1>4. ASSUME NEW b \in Savers, Saving(b)', \A c \in Savers : job'[c].token <= job'[b].token
        PROVE  pend'[job'[b].path] = [content |-> job'[b].text, token |-> job'[b].token]
    <2>1. b # a /\ Saving(b) /\ b \in AllTasks
      BY <1>2, <1>4
    <2>2. pend[job[b].path] = [content |-> job[b].text, token |-> job[b].token]
      BY <1>4, <2>1 DEF EndsAtMost, NewestIsRegistered
    <2>3. pend'[job[b].path] = pend[job[b].path]
      <3>1. CASE pend' = pend
        BY <3>1
      <3>2. CASE Saving(a) /\ a # "mcp" /\ pend' = Cleared(job[a].path, job[a].token)
        <4>1. job[a].token # job[b].token
          BY <1>1, <2>1, <3>2 DEF TokenInv
        <4>2. pend[job[b].path].token = job[b].token /\ job[b].path \in Paths
          BY <1>1, <2>1, <2>2
        <4>. QED
          BY <1>1, <3>2, <4>1, <4>2 DEF Cleared
      <3>. QED
        BY <3>1, <3>2 DEF EndsAtMost
    <2>. QED
      BY <2>1, <2>2, <2>3 DEF EndsAtMost
  <1>. QED
    BY <1>3, <1>4 DEF NewestIsRegistered

\* A save that begins is the newest, under a token nobody has.
LEMMA BeginKeeps ==
    ASSUME RegisteredInv, NEW a \in Savers, NEW p \in Paths, NEW t \in Texts,
           NEW clear, NEW again, Begin(a, p, t, clear, again), UNCHANGED timers
    PROVE  TokenInv' /\ NewestIsRegistered'
  <1>. USE DEF RegisteredInv, Savers, Saving
  <1>1. /\ saves \in Nat /\ \A b \in AllTasks : job[b].token \in Nat
        /\ \A x \in timers : x[2] \in Nat
        /\ pend \in [Paths -> Entries \cup {None}] /\ TypeInv /\ a \in AllTasks
    BY DEF TypeInv, TypeOK, Jobs
  <1>2. /\ \A b \in AllTasks : b # a => job'[b] = job[b] /\ pc'[b] = pc[b]
        /\ pc'[a] = "write" /\ job'[a].path = p /\ job'[a].text = Output(t)
        /\ job'[a].token = saves + 1 /\ saves' = saves + 1
        /\ pend' = [pend EXCEPT ![p] = [content |-> Output(t), token |-> saves + 1]]
    BY <1>1, BeginFrame
  <1>3. TokenInv'
    <2>1. \A b \in Savers : job'[b].token <= saves' /\ (Saving(b)' => job'[b].token > 0)
      BY <1>1, <1>2 DEF TokenInv
    <2>2. \A b, c \in Savers : b # c /\ job'[b].token = job'[c].token => job'[b].token = 0
      BY <1>1, <1>2 DEF TokenInv
    <2>3. \A x \in timers' : /\ x[2] <= saves'
                             /\ \A b \in Savers : Saving(b)' => x[2] # job'[b].token
      BY <1>1, <1>2 DEF TokenInv
    <2>. QED
      BY <2>1, <2>2, <2>3 DEF TokenInv
  <1>4. ASSUME NEW b \in Savers, \A c \in Savers : job'[c].token <= job'[b].token
        PROVE  b = a
    BY <1>1, <1>2, <1>4 DEF TokenInv
  <1>5. pend'[job'[a].path] = [content |-> job'[a].text, token |-> job'[a].token]
    BY <1>1, <1>2
  <1>. QED
    BY <1>3, <1>4, <1>5 DEF NewestIsRegistered

\* The steps that neither begin a save nor run a timer end at most one.
LEMMA PhaseEnds ==
    ASSUME TypeInv, NEW a \in AllTasks, NEW ph \in Phases \ {"write", "written"},
           pc' = [pc EXCEPT ![a] = ph],
           \A b \in AllTasks : job'[b].token = job[b].token,
           \A b \in AllTasks \ {a} : job'[b] = job[b],
           UNCHANGED <<pend, saves>>, timers' = timers
    PROVE  EndsAtMost(a)
  BY DEF TypeInv, TypeOK, EndsAtMost, Saving

LEMMA ReturnEnds ==
    ASSUME TypeInv, NEW a \in AllTasks, NEW d, Return(a, d),
           UNCHANGED <<pend, saves>>, timers' = timers
    PROVE  EndsAtMost(a)
  BY ReturnFrame DEF TypeInv, TypeOK, EndsAtMost, Saving

LEMMA SaveEnds ==
    ASSUME TypeInv, NEW a \in AllTasks,
           Saved(a) \/ WriteFails(a) \/ (a \in {"save", "move", "dialog"} /\ Cancel(a))
    PROVE  EndsAtMost(a)
  <1>1. /\ pc \in [AllTasks -> Phases] /\ job \in [AllTasks -> Jobs] /\ saves \in Nat
        /\ job[a] \in Jobs /\ emitted \in Nat
    BY DEF TypeInv, TypeOK
  <1>2. CASE a \in {"save", "move", "dialog"} /\ Cancel(a)
    BY <1>2, ReturnEnds DEF Cancel
  <1>3. CASE Saved(a)
    <2>1. /\ pend' = pend /\ saves' = saves
          /\ \A t \in timers' : t \in timers \/ (a # "mcp" /\ Saving(a) /\ t[2] = job[a].token)
      BY <1>3 DEF Saved, Saving
    <2>2. /\ \A b \in AllTasks : job'[b].token = job[b].token
          /\ \A b \in AllTasks \ {a} : /\ job'[b].path = job[b].path
                                       /\ job'[b].text = job[b].text /\ pc'[b] = pc[b]
          /\ ~Saving(a)'
      <3>1. CASE a = "move"
        BY <1>1, <1>3, <3>1 DEF Saved, Saving
      <3>2. CASE a # "move"
        <4>1. Return(a, AfterSave(a))
          BY <1>3, <3>2 DEF Saved
        <4>. QED
          BY <4>1, ReturnFrame DEF Saving
      <3>. QED
        BY <3>1, <3>2
    <2>. QED
      BY <1>1, <2>1, <2>2 DEF EndsAtMost
  <1>4. CASE WriteFails(a)
    <2>1. /\ saves' = saves /\ timers' = timers
          /\ pend' = pend \/ (Saving(a) /\ a # "mcp" /\ pend' = Cleared(job[a].path, job[a].token))
      BY <1>4 DEF WriteFails, Saving
    <2>2. /\ \A b \in AllTasks : job'[b].token = job[b].token
          /\ \A b \in AllTasks \ {a} : /\ job'[b].path = job[b].path
                                       /\ job'[b].text = job[b].text /\ pc'[b] = pc[b]
          /\ ~Saving(a)'
      <3>1. CASE GoTo(a, "pick") /\ job' = [job EXCEPT ![a].clear = TRUE]
        <4>1. job'[a].token = job[a].token /\ pc'[a] = "pick"
          BY <1>1, <3>1 DEF Jobs
        <4>. QED
          BY <1>1, <3>1, <4>1 DEF Saving
      <3>2. CASE Return(a, doc')
        BY <3>2, ReturnFrame DEF Saving
      <3>. QED
        BY <1>4, <3>1, <3>2 DEF WriteFails
    <2>. QED
      BY <1>1, <2>1, <2>2 DEF EndsAtMost
  <1>. QED
    BY <1>2, <1>3, <1>4

LEMMA DialogEnds ==
    ASSUME TypeInv, DialogStep PROVE EndsAtMost("dialog")
  <1>1. /\ "dialog" \in AllTasks /\ job \in [AllTasks -> Jobs]
        /\ job["dialog"] \in Jobs
        /\ {"ask", "askAll", "pick", "load", "loaded", "idle"} \subseteq Phases \ {"write", "written"}
    BY DEF TypeInv, TypeOK, AllTasks, Phases
  <1>2. CASE OpenDialog \/ ChooseSaveAs \/ ChooseReload \/ ReviewEach \/ ReloadReads
    <2>1. /\ \E ph \in Phases \ {"write", "written"} : pc' = [pc EXCEPT !["dialog"] = ph]
          /\ UNCHANGED <<pend, saves>> /\ timers' = timers
      BY <1>1, <1>2 DEF OpenDialog, ChooseSaveAs, ChooseReload, ReviewEach, ReloadReads
    <2>2. job'["dialog"].token = job["dialog"].token
          /\ \A b \in AllTasks \ {"dialog"} : job'[b] = job[b]
      BY <1>1, <1>2 DEF OpenDialog, ChooseSaveAs, ChooseReload, ReviewEach, ReloadReads, Jobs
    <2>. QED
      BY <1>1, <2>1, <2>2, PhaseEnds
  <1>3. CASE ChooseKeep
    <2>1. CASE pc["dialog"] = "ask"
      BY <1>1, <1>3, <2>1, ReturnEnds DEF ChooseKeep
    <2>2. CASE pc["dialog"] = "askAll"
      BY <1>1, <1>3, <2>2, PhaseEnds DEF ChooseKeep
    <2>. QED
      BY <1>3, <2>1, <2>2 DEF ChooseKeep
  <1>4. CASE ReloadFails
    BY <1>1, <1>4, ReturnEnds DEF ReloadFails
  <1>5. CASE Reloaded
    BY <1>1, <1>5, ReturnEnds DEF Reloaded
  <1>. QED
    BY <1>2, <1>3, <1>4, <1>5 DEF DialogStep

LEMMA RegisteredStep ==
    ASSUME RegisteredInv, Next PROVE TokenInv' /\ NewestIsRegistered'
  <1>1. /\ TypeInv /\ TokenInv /\ NewestIsRegistered
        /\ pc \in [AllTasks -> Phases] /\ job \in [AllTasks -> Jobs]
        /\ doc \in Documents /\ doc.content \in Texts /\ doc.filePath \in Paths
        /\ saves \in Nat /\ \A a \in AllTasks : job[a].snap \in Texts
        /\ \A a \in AllTasks : job[a].token \in Nat
    BY DEF RegisteredInv, TypeInv, TypeOK, Documents, Jobs
  <1>2. CASE UNCHANGED <<saveVars, taskVars>>
    BY <1>1, <1>2 DEF TokenInv, NewestIsRegistered, Saving
  <1>3. CASE \/ \E b \in Typed : Edit(b)
             \/ FileStep \/ EventStep
    BY <1>2, <1>3 DEF Edit, FileStep, OtherWrites, OtherDeletes, OtherRenames, Calm,
       EventStep, Deliver, ReadFile, Resume
  <1>4. CASE AutoSave
    BY <1>1, <1>4, BeginKeeps DEF AutoSave, Savers, AllTasks
  <1>5. CASE Save
    <2>1. CASE Begin("save", doc.filePath, doc.content, FALSE, TRUE)
      BY <1>1, <1>5, <2>1, BeginKeeps DEF Save, Savers, AllTasks
    <2>2. CASE /\ GoTo("save", "pick")
               /\ job' = [job EXCEPT !["save"].snap = doc.content, !["save"].clear = TRUE]
               /\ UNCHANGED <<pend, saves>>
      <3>1. "save" \in AllTasks /\ job["save"] \in Jobs /\ "pick" \in Phases \ {"write", "written"}
        BY <1>1 DEF AllTasks, Phases
      <3>2. job'["save"].token = job["save"].token
            /\ \A b \in AllTasks \ {"save"} : job'[b] = job[b]
        BY <1>1, <2>2, <3>1 DEF Jobs
      <3>3. timers' = timers
        BY <1>5 DEF Save
      <3>. QED
        BY <1>1, <2>2, <3>1, <3>2, <3>3, PhaseEnds, EndsKeeps
    <2>. QED
      BY <1>5, <2>1, <2>2 DEF Save
  <1>6. CASE McpSave
    <2>1. "mcp" \in AllTasks /\ job["mcp"] \in Jobs
      BY <1>1 DEF AllTasks
    <2>2. /\ saves' = saves + 1 /\ pend' = pend /\ timers' = timers
          /\ pc' = [pc EXCEPT !["mcp"] = "write"]
          /\ job' = [job EXCEPT !["mcp"] = [job["mcp"] EXCEPT !.path = doc.filePath,
                                  !.snap = doc.content, !.text = doc.content]]
      BY <1>1, <1>6, <2>1 DEF McpSave
    <2>3. job'["mcp"].token = job["mcp"].token
          /\ \A b \in AllTasks \ {"mcp"} : job'[b] = job[b] /\ pc'[b] = pc[b]
      BY <1>1, <2>1, <2>2 DEF Jobs
    <2>4. EndsAtMost("mcp")
      BY <1>1, <2>2, <2>3 DEF EndsAtMost
    <2>. QED
      BY <2>1, <2>4, EndsKeeps
  <1>7. CASE RemoveOld
    BY <1>1, <1>7, PhaseEnds, EndsKeeps DEF RemoveOld, AllTasks, Phases
  <1>8. ASSUME NEW a \in {"save", "move"}, SaveAs(a)
        PROVE  TokenInv' /\ NewestIsRegistered'
    <2>1. a \in AllTasks /\ job[a] \in Jobs /\ "pick" \in Phases \ {"write", "written"}
      BY <1>1 DEF AllTasks, Phases
    <2>2. job'[a].token = job[a].token /\ \A b \in AllTasks \ {a} : job'[b] = job[b]
      BY <1>1, <1>8, <2>1 DEF SaveAs, Jobs
    <2>. QED
      BY <1>1, <1>8, <2>1, <2>2, PhaseEnds, EndsKeeps DEF SaveAs
  <1>9. ASSUME NEW a \in {"save", "move", "dialog"}, NEW p \in Paths, Pick(a, p)
        PROVE  TokenInv' /\ NewestIsRegistered'
    <2>1. /\ a \in Savers /\ a \in AllTasks /\ timers' = timers
          /\ Begin(a, p, job[a].snap, job[a].clear, FALSE)
      BY <1>9 DEF Pick, Savers, AllTasks
    <2>2. PICK t \in Texts : t = job[a].snap
      BY <1>1, <2>1
    <2>3. Begin(a, p, t, job[a].clear, FALSE)
      BY <2>1, <2>2
    <2>. QED
      BY <2>1, <2>3, BeginKeeps
  <1>10. ASSUME NEW a \in AllTasks, NEW k \in Kinds, Persist(a, k)
         PROVE  TokenInv' /\ NewestIsRegistered'
    <2>1. pc[a] = "write" /\ pc' = [pc EXCEPT ![a] = "written"] /\ job' = job
          /\ pend' = pend /\ timers' = timers /\ saves' = saves
      BY <1>10 DEF Persist
    <2>2. \A b \in AllTasks : Saving(b)' <=> Saving(b)
      BY <1>1, <2>1 DEF Saving
    <2>. QED
      BY <1>1, <2>1, <2>2 DEF TokenInv, NewestIsRegistered, Saving, Savers
  <1>11. ASSUME NEW a \in AllTasks,
                Saved(a) \/ WriteFails(a) \/ (a \in {"save", "move", "dialog"} /\ Cancel(a))
         PROVE  TokenInv' /\ NewestIsRegistered'
    BY <1>1, <1>11, SaveEnds, EndsKeeps
  <1>12. ASSUME NEW t \in timers, ClearPending(t)
         PROVE  TokenInv' /\ NewestIsRegistered'
    <2>1. /\ timers' \subseteq timers /\ pend' = Cleared(t[1], t[2]) /\ saves' = saves
          /\ pc' = pc /\ job' = job
          /\ pend \in [Paths -> Entries \cup {None}] /\ t[1] \in Paths /\ t[2] \in Nat
          /\ \A b \in AllTasks : job[b].path \in Paths
      BY <1>1, <1>12 DEF ClearPending, TypeInv, TypeOK, Jobs
    <2>2. TokenInv'
      BY <1>1, <2>1 DEF TokenInv, Saving
    <2>3. ASSUME NEW b \in Savers, Saving(b), \A c \in Savers : job[c].token <= job[b].token
          PROVE  pend'[job[b].path] = [content |-> job[b].text, token |-> job[b].token]
      <3>1. pend[job[b].path] = [content |-> job[b].text, token |-> job[b].token]
            /\ b \in AllTasks
        BY <1>1, <2>3 DEF NewestIsRegistered, Saving, Savers
      <3>2. t[2] # job[b].token
        BY <1>1, <1>12, <2>3 DEF TokenInv
      <3>3. pend[job[b].path].token = job[b].token
        BY <3>1
      <3>4. pend'[job[b].path] = pend[job[b].path]
        BY <2>1, <3>1, <3>2, <3>3 DEF Cleared
      <3>. QED
        BY <3>1, <3>4
    <2>. QED
      BY <2>1, <2>2, <2>3 DEF NewestIsRegistered, Saving, Savers
  <1>13. CASE DialogStep
    BY <1>1, <1>13, DialogEnds, EndsKeeps DEF AllTasks
  <1>14. CASE SaveStep
    <2>1. {"save", "move", "dialog"} \subseteq AllTasks
      BY DEF AllTasks
    <2>. QED
      BY <1>4, <1>5, <1>6, <1>7, <1>8, <1>9, <1>10, <1>11, <1>12, <1>14, <2>1 DEF SaveStep
  <1>. QED
    BY <1>3, <1>13, <1>14 DEF Next

LEMMA RegisteredInit == Init => RegisteredInv
  <1>. SUFFICES ASSUME Init PROVE RegisteredInv
    OBVIOUS
  <1>1. TokenInv /\ NewestIsRegistered
    BY DEF Init, TokenInv, NewestIsRegistered, Saving, Savers
  <1>. QED
    BY <1>1, TypeInit DEF RegisteredInv

LEMMA RegisteredKept == ASSUME RegisteredInv, [Next]_vars PROVE RegisteredInv'
  <1>1. TypeInv'
    BY TypeStep DEF RegisteredInv
  <1>2. CASE Next
    BY <1>1, <1>2, RegisteredStep DEF RegisteredInv
  <1>3. CASE UNCHANGED vars
    BY <1>1, <1>3 DEF vars, RegisteredInv, TokenInv, NewestIsRegistered, Saving
  <1>. QED
    BY <1>2, <1>3

\* While its write is under way the newest save is the one registered for its
\* path: no older save's end, failure or timer takes its registration.
THEOREM NewestStaysRegistered == Spec => []NewestIsRegistered
  <1>1. RegisteredInv /\ [Next]_vars => RegisteredInv'
    BY RegisteredKept
  <1>2. RegisteredInv => NewestIsRegistered
    BY DEF RegisteredInv
  <1>. QED
    BY <1>1, <1>2, RegisteredInit, PTL DEF Spec

-----------------------------------------------------------------------------
(* One file, in time: the document follows its file.                       *)

Marked  == doc.isMissing \/ doc.isDivergent
Behind  == disk[Home] = None \/ ~SoftContentEquals(doc.savedContent, disk[Home])
Writing == \E a \in AllTasks : pc[a] = "written"
Pending == events # {} \/ reads # {} \/ queued # <<>> \/ pc["dialog"] # "idle" \/ Writing

\* What was written or read is still in the file when the code resumes.
Sampled(r) == r.done => r.text = disk[Home] /\ (r.own => Home \in own)
SampleInv ==
    /\ \A a \in AllTasks : pc[a] = "written" => job[a].text = disk[Home]
    /\ pc["dialog"] = "loaded" => job["dialog"].text = disk[Home]
    /\ \A r \in reads : r.kind = "modify" /\ Sampled(r)
    /\ \A e \in events : e.kind \in {"modify", "remove"}
    /\ pc["move"] \in {"idle", "pick"}

\* A document behind its file is marked, or something under way will bring it
\* forward or mark it; a file that a save wrote last is ahead only until the
\* save resumes.
FollowInv ==
    /\ SoftContentEquals(doc.savedContent, doc.lastDiskContent)
    /\ disk[Home] = None => doc.isMissing \/ \E e \in events : e.kind = "remove"
    /\ Home \in own => Writing \/ ~Behind
    /\ Behind => Pending \/ Marked \/ dropped

InTimeInv == TypeInv /\ DirtyInv /\ SampleInv /\ FollowInv

LEMMA OnePath == ASSUME InTime PROVE Paths = {Home}
  BY FirstTyped DEF InTime

\* The file changes, and says so in an event, while no answer is on its way.
FileMoves ==
    /\ doc' = doc /\ dropped' = dropped /\ reads' = reads /\ job' = job
    /\ \A a \in AllTasks : pc[a] \notin {"written", "loaded"}
    /\ \A r \in reads : ~r.done
    /\ \E e \in events' : /\ e.kind \in {"modify", "remove"}
                          /\ disk'[Home] = None => e.kind = "remove"
                          /\ \A f \in events' : f = e \/ f \in events
    /\ \/ pc' = pc /\ Home \notin own'
       \/ \E a \in AllTasks \ {"move"} :
            /\ pc'[a] = "written" /\ disk'[Home] = job[a].text /\ job[a].text # None
            /\ \A b \in AllTasks \ {a} : pc'[b] = pc[b]

\* The document takes what is in the file.
Follows ==
    /\ disk' = disk /\ own' = own /\ events' = events /\ reads' \subseteq reads
    /\ disk[Home] # None
    /\ doc'.savedContent = disk[Home] /\ doc'.lastDiskContent = disk[Home]
    /\ \A a \in AllTasks : pc'[a] \in {"written", "loaded"} =>
           pc'[a] = pc[a] /\ job'[a].text = job[a].text
    /\ pc'["move"] \in {"idle", "pick"}

\* Neither: what was under way stays so, or leaves a mark.
Waits ==
    /\ disk' = disk /\ own' = own
    /\ doc'.savedContent = doc.savedContent
    /\ SoftContentEquals(doc'.lastDiskContent, doc.lastDiskContent)
    /\ doc.isMissing => doc'.isMissing
    /\ doc.isDivergent => doc'.isDivergent
    /\ dropped => dropped'
    /\ events' \subseteq events
    /\ \A e \in events : e.kind = "remove" => e \in events' \/ doc'.isMissing
    /\ \A r \in reads' : r \in reads \/ (r.kind = "modify" /\ Sampled(r))
    /\ \A a \in AllTasks : pc'[a] = "written" <=> pc[a] = "written"
    /\ \A a \in AllTasks : pc'[a] = "written" => job'[a].text = job[a].text
    /\ pc'["dialog"] = "loaded" => job'["dialog"].text = disk[Home]
    /\ pc'["move"] \in {"idle", "pick"}
    /\ Pending => Pending' \/ Marked' \/ dropped' \/ ~Behind

LEMMA FileMovesKeep ==
    ASSUME InTimeInv, FileMoves PROVE SampleInv' /\ FollowInv'
  <1>. USE DEF InTimeInv
  <1>0. "dialog" \in AllTasks /\ "move" \in AllTasks
    BY DEF AllTasks
  <1>1. PICK e \in events' : /\ e.kind \in {"modify", "remove"}
                             /\ disk'[Home] = None => e.kind = "remove"
                             /\ \A f \in events' : f = e \/ f \in events
    BY DEF FileMoves
  <1>2. SampleInv'
    <2>1. \A r \in reads' : r.kind = "modify" /\ ~r.done
      BY DEF FileMoves, SampleInv
    <2>2. \A a \in AllTasks : /\ pc'[a] = "written" => job'[a].text = disk'[Home]
                              /\ pc'[a] # "loaded"
      BY DEF FileMoves
    <2>3. pc'["move"] \in {"idle", "pick"}
      BY <1>0 DEF FileMoves, SampleInv
    <2>. QED
      BY <1>0, <1>1, <2>1, <2>2, <2>3 DEF SampleInv, Sampled
  <1>3. FollowInv'
    <2>1. events' # {}
      BY <1>1
    <2>2. SoftContentEquals(doc.savedContent, doc.lastDiskContent)'
      BY DEF FileMoves, FollowInv, SoftContentEquals
    <2>3. Home \in own' => Writing'
      BY DEF FileMoves, Writing
    <2>. QED
      BY <1>1, <2>1, <2>2, <2>3 DEF FollowInv, Pending
  <1>. QED
    BY <1>2, <1>3

LEMMA FollowsKeep ==
    ASSUME InTimeInv, Follows PROVE SampleInv' /\ FollowInv'
  <1>. USE DEF InTimeInv
  <1>0. "dialog" \in AllTasks
    BY DEF AllTasks
  <1>1. SampleInv'
    BY <1>0 DEF Follows, SampleInv, Sampled
  <1>2. ~Behind'
    BY DEF Follows, Behind, SoftContentEquals
  <1>3. SoftContentEquals(doc.savedContent, doc.lastDiskContent)'
    BY DEF Follows, SoftContentEquals
  <1>. QED
    BY <1>1, <1>2, <1>3 DEF FollowInv, Follows

LEMMA WaitsKeep ==
    ASSUME InTimeInv, Waits PROVE SampleInv' /\ FollowInv'
  <1>. USE DEF InTimeInv
  <1>1. SampleInv'
    BY DEF Waits, SampleInv, Sampled
  <1>2. Behind' <=> Behind
    BY DEF Waits, Behind, SoftContentEquals
  <1>3. Writing => Writing'
    BY DEF Waits, Writing
  <1>4. SoftContentEquals(doc.savedContent, doc.lastDiskContent)'
    BY DEF Waits, FollowInv, SoftContentEquals
  <1>5. Marked => Marked'
    BY DEF Waits, Marked
  <1>6. disk'[Home] = None => doc'.isMissing \/ \E e \in events' : e.kind = "remove"
    BY DEF Waits, FollowInv
  <1>7. Home \in own' => Writing' \/ ~Behind'
    BY <1>2, <1>3 DEF Waits, FollowInv
  <1>8. Behind' => Pending' \/ Marked' \/ dropped'
    BY <1>2, <1>5 DEF Waits, FollowInv
  <1>. QED
    BY <1>1, <1>4, <1>6, <1>7, <1>8 DEF FollowInv

\* Marks on the document leave its texts alone.
LEMMA MarkFacts ==
    ASSUME doc \in Documents, NEW t
    PROVE  /\ Missing(doc).savedContent = doc.savedContent
           /\ Missing(doc).lastDiskContent = doc.lastDiskContent
           /\ Missing(doc).isMissing = TRUE /\ Missing(doc).isDivergent = doc.isDivergent
           /\ LET d == [doc EXCEPT !.isDivergent = TRUE] IN
              /\ d.savedContent = doc.savedContent /\ d.lastDiskContent = doc.lastDiskContent
              /\ d.isMissing = doc.isMissing /\ d.isDivergent = TRUE
           /\ LET d == [doc EXCEPT !.lastDiskContent = t] IN
              /\ d.savedContent = doc.savedContent /\ d.lastDiskContent = t
              /\ d.isMissing = doc.isMissing /\ d.isDivergent = doc.isDivergent
           /\ SetContent(t).savedContent = doc.savedContent
           /\ SetContent(t).lastDiskContent = doc.lastDiskContent
           /\ SetContent(t).isMissing = doc.isMissing
           /\ SetContent(t).isDivergent = doc.isDivergent
  BY DEF Missing, SetContent, Documents

\* A step of the tasks that leaves the file, its events, the document and the
\* dialog's end alone.
LEMMA TaskWaits ==
    ASSUME InTimeInv,
           disk' = disk, own' = own, doc' = doc, dropped' = dropped,
           events' = events, reads' = reads, queued' = queued,
           \A a \in AllTasks : pc'[a] = "written" <=> pc[a] = "written",
           \A a \in AllTasks : pc'[a] = "written" => job'[a].text = job[a].text,
           pc'["dialog"] = "loaded" => job'["dialog"].text = disk[Home],
           pc'["move"] \in {"idle", "pick"},
           pc["dialog"] # "idle" => pc'["dialog"] # "idle"
    PROVE  Waits
  <1>1. Writing => Writing'
    BY DEF Writing
  <1>2. Pending => Pending'
    BY <1>1 DEF Pending
  <1>. QED
    BY <1>2 DEF Waits, SoftContentEquals

LEMMA FileFollows ==
    ASSUME InTime, InTimeInv, FileStep PROVE FileMoves \/ Waits
  <1>1. /\ Paths = {Home} /\ ~Late /\ ~Debounce /\ Kinds \subseteq {"modify"}
        /\ TypeOK /\ disk \in [Paths -> Texts \cup {None}] /\ "dialog" \in AllTasks
        /\ pc["move"] \in {"idle", "pick"}
    BY OnePath DEF InTime, InTimeInv, TypeInv, TypeOK, SampleInv, AllTasks
  <1>2. ASSUME NEW p \in Paths, NEW q \in Paths, NEW k, Notify(k, p, q), p = q, k # "pair"
        PROVE  \E e \in events' : e.kind = k /\ \A f \in events' : f = e \/ f \in events
    <2>. DEFINE heard == {x \in {p, q} : ~Debounce \/ x \notin recent}
    <2>1. heard = {p}
      BY <1>1, <1>2
    <2>. HIDE DEF heard
    <2>. DEFINE e == [no   |-> emitted + 1,
                      kind |-> IF k = "pair" /\ heard # {p, q} THEN "rename" ELSE k,
                      path |-> IF p \in heard THEN p ELSE q,
                      to   |-> IF q \in heard THEN q ELSE p]
    <2>2. e.kind = k
      BY <1>2
    <2>3. events' = events \cup {e}
      BY <1>2, <2>1 DEF Notify, heard
    <2>. HIDE DEF e
    <2>. QED
      BY <2>2, <2>3
  <1>3. MayChange => /\ \A a \in AllTasks : pc[a] \notin {"written", "loaded"}
                     /\ \A r \in reads : ~r.done
    BY <1>1 DEF MayChange
  <1>4. ASSUME NEW p \in Paths, NEW t \in WriterTexts, NEW k \in Kinds, OtherWrites(p, t, k)
        PROVE  FileMoves
    <2>1. p = Home /\ k = "modify" /\ t # None
      BY <1>1, NoneAssumption, TextAssumption DEF WriterTexts, Texts
    <2>2. disk'[Home] # None /\ Home \notin own'
      BY <1>1, <1>4, <2>1 DEF OtherWrites
    <2>3. \E e \in events' : e.kind = k /\ \A f \in events' : f = e \/ f \in events
      BY <1>2, <1>4, <2>1 DEF OtherWrites
    <2>4. UNCHANGED <<doc, dropped, reads, job, pc>>
      BY <1>4 DEF OtherWrites
    <2>. QED
      BY <1>3, <1>4, <2>1, <2>2, <2>3, <2>4 DEF FileMoves, OtherWrites
  <1>5. ASSUME NEW p \in Paths, NEW k \in Kinds, OtherDeletes(p, k) PROVE FileMoves
    <2>1. p = Home /\ k = "modify"
      BY <1>1
    <2>2. Home \notin own'
      BY <1>5, <2>1 DEF OtherDeletes
    <2>3. \E e \in events' : e.kind = "remove" /\ \A f \in events' : f = e \/ f \in events
      <3>1. Notify("remove", p, p)
        BY <1>5, <2>1 DEF OtherDeletes
      <3>. QED
        BY <1>2, <3>1
    <2>4. UNCHANGED <<doc, dropped, reads, job, pc>>
      BY <1>5 DEF OtherDeletes
    <2>. QED
      BY <1>3, <1>5, <2>2, <2>3, <2>4 DEF FileMoves, OtherDeletes
  <1>6. ASSUME NEW p \in Paths, NEW q \in Paths, OtherRenames(p, q) PROVE FALSE
    BY <1>1, <1>6 DEF OtherRenames
  <1>7. ASSUME NEW p \in Paths, Calm(p) PROVE Waits
    <2>1. UNCHANGED <<disk, own, doc, dropped, events, reads, queued, pc, job>>
      BY <1>7 DEF Calm
    <2>. QED
      BY <1>1, <2>1, TaskWaits DEF InTimeInv, SampleInv
  <1>. QED
    BY <1>4, <1>5, <1>6, <1>7 DEF FileStep

LEMMA EditWaits ==
    ASSUME InTimeInv, NEW b \in Typed, Edit(b) PROVE Waits
  <1>1. doc \in Documents /\ pc["move"] \in {"idle", "pick"}
        /\ (pc["dialog"] = "loaded" => job["dialog"].text = disk[Home])
    BY DEF InTimeInv, TypeInv, TypeOK, SampleInv
  <1>2. UNCHANGED <<disk, own, dropped, events, reads, queued, pc, job>>
    BY DEF Edit
  <1>3. /\ doc'.savedContent = doc.savedContent /\ doc'.lastDiskContent = doc.lastDiskContent
        /\ doc'.isMissing = doc.isMissing /\ doc'.isDivergent = doc.isDivergent
    BY <1>1, MarkFacts DEF Edit
  <1>4. Pending => Pending'
    BY <1>2 DEF Pending, Writing
  <1>. QED
    BY <1>1, <1>2, <1>3, <1>4 DEF Waits, SoftContentEquals

LEMMA BeginsWait ==
    ASSUME InTime, InTimeInv,
           \/ AutoSave \/ Save \/ McpSave
           \/ \E a \in {"save", "move"} : SaveAs(a)
           \/ \E a \in {"save", "move", "dialog"}, p \in Paths : Pick(a, p)
           \/ \E t \in timers : ClearPending(t)
    PROVE  Waits
  <1>1. /\ Paths = {Home} /\ TypeInv /\ {"auto", "save", "move", "dialog", "mcp"} \subseteq AllTasks
        /\ pc \in [AllTasks -> Phases] /\ job \in [AllTasks -> Jobs]
        /\ doc \in Documents /\ doc.content \in Texts /\ doc.filePath \in Paths
        /\ \A a \in AllTasks : job[a] \in Jobs /\ job[a].snap \in Texts /\ job[a].old \in Paths
        /\ pc["move"] \in {"idle", "pick"}
        /\ (pc["dialog"] = "loaded" => job["dialog"].text = disk[Home])
    BY OnePath DEF InTimeInv, TypeInv, TypeOK, SampleInv, AllTasks, Documents, Jobs
  <1>2. ASSUME NEW a \in AllTasks \ {"move"}, NEW p \in Paths, NEW t \in Texts,
               NEW clear, NEW again, Begin(a, p, t, clear, again), pc[a] # "written",
               UNCHANGED <<fileVars, doc, timers, lastSave, reads, askVars, countVars>>
        PROVE  Waits
    <2>1. /\ \A b \in AllTasks : b # a => job'[b] = job[b] /\ pc'[b] = pc[b]
          /\ pc'[a] = "write"
      BY <1>1, <1>2, BeginFrame
    <2>2. UNCHANGED <<disk, own, doc, dropped, events, reads, queued>>
      BY <1>2
    <2>. QED
      BY <1>1, <1>2, <2>1, <2>2, TaskWaits
  <1>3. ASSUME NEW a \in AllTasks, NEW ph \in {"pick", "write"}, pc' = [pc EXCEPT ![a] = ph],
               a = "move" => ph = "pick", pc[a] = "idle",
               \A b \in AllTasks \ {a} : job'[b] = job[b],
               UNCHANGED <<fileVars, doc, timers, lastSave, reads, askVars, countVars>>
        PROVE  Waits
    <2>1. /\ \A b \in AllTasks : b # a => job'[b] = job[b] /\ pc'[b] = pc[b]
          /\ pc'[a] = ph
      BY <1>1, <1>3
    <2>2. UNCHANGED <<disk, own, doc, dropped, events, reads, queued>>
      BY <1>3
    <2>. QED
      BY <1>1, <1>3, <2>1, <2>2, TaskWaits
  <1>4. CASE AutoSave
    BY <1>1, <1>2, <1>4 DEF AutoSave
  <1>5. CASE Save
    <2>1. CASE Begin("save", doc.filePath, doc.content, FALSE, TRUE)
      BY <1>1, <1>2, <1>5, <2>1 DEF Save
    <2>2. CASE /\ GoTo("save", "pick")
               /\ job' = [job EXCEPT !["save"].snap = doc.content, !["save"].clear = TRUE]
      <3>1. \A b \in AllTasks \ {"save"} : job'[b] = job[b]
        BY <1>1, <2>2
      <3>. QED
        BY <1>1, <1>3, <1>5, <2>2, <3>1 DEF Save
    <2>. QED
      BY <1>5, <2>1, <2>2 DEF Save
  <1>6. CASE McpSave
    <2>1. \A b \in AllTasks \ {"mcp"} : job'[b] = job[b]
      BY <1>1, <1>6 DEF McpSave
    <2>. QED
      BY <1>1, <1>3, <1>6, <2>1 DEF McpSave
  <1>7. ASSUME NEW a \in {"save", "move"}, SaveAs(a) PROVE Waits
    <2>1. \A b \in AllTasks \ {a} : job'[b] = job[b]
      BY <1>1, <1>7 DEF SaveAs
    <2>. QED
      BY <1>1, <1>3, <1>7, <2>1 DEF SaveAs
  <1>8. ASSUME NEW a \in {"save", "move", "dialog"}, NEW p \in Paths, Pick(a, p) PROVE Waits
    <2>1. a # "move" /\ a \in AllTasks /\ pc[a] = "pick"
          /\ Begin(a, p, job[a].snap, job[a].clear, FALSE)
          /\ UNCHANGED <<fileVars, doc, timers, lastSave, reads, askVars, countVars>>
      BY <1>1, <1>8 DEF Pick
    <2>2. PICK t \in Texts : t = job[a].snap
      BY <1>1, <2>1
    <2>3. Begin(a, p, t, job[a].clear, FALSE)
      BY <2>1, <2>2
    <2>. QED
      BY <1>2, <2>1, <2>3
  <1>9. ASSUME NEW t \in timers, ClearPending(t) PROVE Waits
    <2>1. UNCHANGED <<disk, own, doc, dropped, events, reads, queued, pc, job>>
      BY <1>9 DEF ClearPending
    <2>. QED
      BY <1>1, <2>1, TaskWaits
  <1>. QED
    BY <1>4, <1>5, <1>6, <1>7, <1>8, <1>9

LEMMA SavesFollow ==
    ASSUME InTime, InTimeInv, NEW a \in AllTasks,
           Saved(a) \/ WriteFails(a) \/ (a \in {"save", "move", "dialog"} /\ Cancel(a))
    PROVE  Follows \/ Waits
  <1>1. /\ TypeInv /\ pc \in [AllTasks -> Phases] /\ job \in [AllTasks -> Jobs]
        /\ doc \in Documents /\ job[a].text \in Texts /\ None \notin Texts
        /\ "dialog" \in AllTasks /\ "move" \in AllTasks
        /\ pc["move"] \in {"idle", "pick"}
        /\ (pc["dialog"] = "loaded" => job["dialog"].text = disk[Home])
    BY NoneAssumption DEF InTimeInv, TypeInv, TypeOK, SampleInv, AllTasks, Jobs
  <1>2. ASSUME NEW d, Return(a, d)
        PROVE  /\ \A b \in AllTasks : job'[b].text = job[b].text
               /\ \A b \in AllTasks : b # a => pc'[b] = pc[b]
               /\ pc'[a] \notin {"write", "written", "loaded"}
               /\ a # "dialog" => pc'[a] = "idle"
    <2>1. a # "dialog" => pc'[a] = "idle"
      BY <1>1, <1>2 DEF Return
    <2>. QED
      BY <1>1, <1>2, <2>1, ReturnFrame
  <1>3. CASE Saved(a)
    <2>1. pc[a] = "written" /\ doc' = AfterSave(a) /\ a # "move"
          /\ UNCHANGED <<disk, own, events, reads>>
      BY <1>1, <1>3 DEF Saved
    <2>2. Return(a, AfterSave(a))
      BY <1>3, <2>1 DEF Saved
    <2>3. job[a].text = disk[Home]
      BY <2>1 DEF InTimeInv, SampleInv
    <2>4. doc'.savedContent = disk[Home] /\ doc'.lastDiskContent = disk[Home]
      BY <1>1, <2>1, <2>3, AfterSaveFacts
    <2>5. \A b \in AllTasks : pc'[b] \in {"written", "loaded"} =>
             pc'[b] = pc[b] /\ job'[b].text = job[b].text
      BY <1>2, <2>2
    <2>6. pc'["move"] \in {"idle", "pick"}
      BY <1>1, <1>2, <2>1, <2>2
    <2>7. Follows
      BY <1>1, <2>1, <2>3, <2>4, <2>5, <2>6 DEF Follows
    <2>. QED
      BY <2>7
  <1>4. CASE WriteFails(a)
    <2>1. /\ UNCHANGED <<disk, own, events, reads, queued>> /\ pc[a] = "write" /\ a # "move"
          /\ dropped' = (dropped \/ a = "dialog")
          /\ doc' = doc \/ doc' = Missing(doc)
      BY <1>1, <1>4 DEF WriteFails, Missing
    <2>2. /\ doc'.savedContent = doc.savedContent /\ doc'.lastDiskContent = doc.lastDiskContent
          /\ doc.isMissing => doc'.isMissing
          /\ doc'.isDivergent = doc.isDivergent
      BY <1>1, <2>1, MarkFacts
    <2>3. /\ \A b \in AllTasks \ {a} : job'[b].text = job[b].text /\ pc'[b] = pc[b]
          /\ pc'[a] \notin {"write", "written", "loaded"}
      <3>1. CASE GoTo(a, "pick") /\ job' = [job EXCEPT ![a].clear = TRUE]
        BY <1>1, <3>1
      <3>2. CASE Return(a, doc')
        BY <1>2, <3>2
      <3>. QED
        BY <1>4, <3>1, <3>2 DEF WriteFails
    <2>4. Pending => Pending' \/ dropped'
      <3>1. CASE a = "dialog"
        BY <2>1, <3>1
      <3>2. CASE a # "dialog"
        <4>1. pc'["dialog"] = pc["dialog"] /\ (Writing => Writing')
          BY <1>1, <2>1, <2>3, <3>2 DEF Writing
        <4>. QED
          BY <2>1, <4>1 DEF Pending
      <3>. QED
        BY <3>1, <3>2
    <2>5. Waits
      BY <1>1, <2>1, <2>2, <2>3, <2>4 DEF Waits, SoftContentEquals
    <2>. QED
      BY <2>5
  <1>5. CASE a \in {"save", "move", "dialog"} /\ Cancel(a)
    <2>1. /\ UNCHANGED <<disk, own, events, reads, queued, doc>> /\ pc[a] = "pick"
          /\ dropped' = (dropped \/ a = "dialog") /\ Return(a, doc)
      BY <1>5 DEF Cancel
    <2>2. Pending => Pending' \/ dropped'
      <3>1. CASE a = "dialog"
        BY <2>1, <3>1
      <3>2. CASE a # "dialog"
        <4>1. pc'["dialog"] = pc["dialog"] /\ (Writing => Writing')
          BY <1>1, <1>2, <2>1, <3>2 DEF Writing
        <4>. QED
          BY <2>1, <4>1 DEF Pending
      <3>. QED
        BY <3>1, <3>2
    <2>3. pc'["move"] \in {"idle", "pick"}
      BY <1>1, <1>2, <2>1
    <2>4. /\ \A b \in AllTasks : pc'[b] = "written" <=> pc[b] = "written"
          /\ \A b \in AllTasks : job'[b].text = job[b].text
          /\ pc'["dialog"] = "loaded" => job'["dialog"].text = disk[Home]
      BY <1>1, <1>2, <2>1
    <2>5. Waits
      BY <1>1, <2>1, <2>2, <2>3, <2>4 DEF Waits, SoftContentEquals
    <2>. QED
      BY <2>5
  <1>. QED
    BY <1>3, <1>4, <1>5

LEMMA PersistMoves ==
    ASSUME InTime, InTimeInv, NEW a \in AllTasks, NEW k \in Kinds, Persist(a, k)
    PROVE  FileMoves
  <1>1. /\ Paths = {Home} /\ ~Late /\ ~Debounce /\ Kinds \subseteq {"modify"}
        /\ pc \in [AllTasks -> Phases] /\ disk \in [Paths -> Texts \cup {None}]
        /\ job[a].path = Home /\ job[a].text \in Texts /\ None \notin Texts
        /\ pc["move"] \in {"idle", "pick"}
    BY OnePath, NoneAssumption
    DEF InTime, InTimeInv, TypeInv, TypeOK, SampleInv, AllTasks, Jobs
  <1>2. /\ pc[a] = "write" /\ a # "move" /\ MayChange /\ Notify("modify", Home, Home)
        /\ pc' = [pc EXCEPT ![a] = "written"]
        /\ disk'[Home] = job[a].text /\ UNCHANGED <<doc, dropped, reads, job>>
    BY <1>1 DEF Persist
  <1>3. \E e \in events' : e.kind = "modify" /\ \A f \in events' : f = e \/ f \in events
    <2>. DEFINE heard == {x \in {Home} : ~Debounce \/ x \notin recent}
                e == [no |-> emitted + 1, kind |-> "modify", path |-> Home, to |-> Home]
    <2>1. heard = {Home}
      BY <1>1
    <2>2. events' = events \cup {e}
      BY <1>2, <2>1 DEF Notify
    <2>3. e.kind = "modify"
      OBVIOUS
    <2>. HIDE DEF e
    <2>. QED
      BY <2>2, <2>3
  <1>4. /\ \A b \in AllTasks : pc[b] \notin {"written", "loaded"}
        /\ \A r \in reads : ~r.done
    BY <1>1, <1>2 DEF MayChange
  <1>. QED
    BY <1>1, <1>2, <1>3, <1>4 DEF FileMoves

LEMMA DeliverWaits ==
    ASSUME InTime, InTimeInv, NEW e \in events, Deliver(e) PROVE Waits
  <1>1. /\ Paths = {Home} /\ doc \in Documents /\ doc.filePath = Home /\ e.path = Home
        /\ e.kind \in {"modify", "remove"} /\ pc["move"] \in {"idle", "pick"}
        /\ (pc["dialog"] = "loaded" => job["dialog"].text = disk[Home])
    BY OnePath DEF InTimeInv, TypeInv, TypeOK, SampleInv, Documents, Events
  <1>2. /\ UNCHANGED <<disk, own, dropped, queued, pc, job>> /\ events' = events \ {e}
    BY DEF Deliver
  <1>3. CASE e.kind = "modify"
    <2>. DEFINE r == [no |-> e.no, kind |-> "modify", path |-> e.path, text |-> None,
                      done |-> FALSE, own |-> FALSE]
    <2>1. doc' = doc /\ reads' = reads \cup {r}
      BY <1>1, <1>3 DEF Deliver
    <2>2. r.kind = "modify" /\ Sampled(r)
      BY DEF Sampled
    <2>. HIDE DEF r
    <2>3. Pending'
      BY <2>1 DEF Pending
    <2>. QED
      BY <1>1, <1>2, <1>3, <2>1, <2>2, <2>3 DEF Waits, SoftContentEquals
  <1>4. CASE e.kind = "remove"
    <2>1. doc' = Missing(doc) /\ reads' = reads
      BY <1>1, <1>4 DEF Deliver
    <2>2. /\ doc'.savedContent = doc.savedContent /\ doc'.lastDiskContent = doc.lastDiskContent
          /\ doc'.isMissing /\ doc'.isDivergent = doc.isDivergent
      BY <1>1, <2>1, MarkFacts
    <2>. QED
      BY <1>1, <1>2, <2>1, <2>2 DEF Waits, SoftContentEquals, Marked
  <1>. QED
    BY <1>1, <1>3, <1>4

LEMMA ReadWaits ==
    ASSUME InTime, InTimeInv, NEW r \in reads, ReadFile(r) PROVE Waits
  <1>1. /\ Paths = {Home} /\ r \in Reads /\ r.path = Home /\ r.kind = "modify"
        /\ pc["move"] \in {"idle", "pick"}
        /\ (pc["dialog"] = "loaded" => job["dialog"].text = disk[Home])
    BY OnePath DEF InTimeInv, TypeInv, TypeOK, SampleInv, Reads
  <1>. DEFINE s == [r EXCEPT !.text = disk[r.path], !.done = TRUE, !.own = r.path \in own]
  <1>2. UNCHANGED <<disk, own, doc, dropped, events, queued, pc, job>>
        /\ reads' = (reads \ {r}) \cup {s}
    BY DEF ReadFile
  <1>3. s.kind = "modify" /\ s.text = disk[Home] /\ s.own = (Home \in own)
    BY <1>1 DEF Reads
  <1>4. s.kind = "modify" /\ Sampled(s)
    <2>. HIDE DEF s
    <2>. QED
      BY <1>3 DEF Sampled
  <1>. HIDE DEF s
  <1>5. Pending'
    BY <1>2 DEF Pending
  <1>. QED
    BY <1>1, <1>2, <1>4, <1>5 DEF Waits, SoftContentEquals

\* A read that resumes brings the document forward, queues the change, or finds
\* nothing to bring forward.
LEMMA ResumeFollows ==
    ASSUME InTime, InTimeInv, NEW r \in reads, Resume(r) PROVE Follows \/ Waits
  <1>1. /\ Paths = {Home} /\ doc \in Documents /\ r.path = Home /\ r.kind = "modify"
        /\ r.done /\ r.text = disk[Home] /\ (r.own => Home \in own)
        /\ queued \in Seq(Paths) /\ pc["move"] \in {"idle", "pick"}
        /\ (pc["dialog"] = "loaded" => job["dialog"].text = disk[Home])
        /\ SoftContentEquals(doc.savedContent, doc.lastDiskContent)
        /\ (disk[Home] = None => doc.isMissing \/ \E e \in events : e.kind = "remove")
        /\ (Home \in own => Writing \/ ~Behind)
    BY OnePath DEF InTimeInv, TypeInv, TypeOK, SampleInv, Sampled, FollowInv, Reads, Resume
  <1>2. /\ UNCHANGED <<disk, own, events, pc, job>> /\ reads' \subseteq reads
        /\ (dropped => dropped') /\ (Writing => Writing')
    BY DEF Resume, Writing
  <1>3. CASE ReadFails(r)
    <2>1. doc' = doc /\ queued' = queued /\ disk[Home] = None
      BY <1>1, <1>3 DEF ReadFails
    <2>2. Pending' \/ Marked'
      BY <1>1, <1>2, <2>1 DEF Pending, Marked
    <2>. QED
      BY <1>1, <1>2, <2>1, <2>2 DEF Waits, SoftContentEquals
  <1>4. CASE r.text # None /\ r.kind = "modify" /\ MatchesPendingSave(r.path, r.text)
             /\ UNCHANGED <<doc, queued>>
    <2>1. ~r.own => dropped'
      <3>1. ~r.own => Mistaken(r)
        BY <1>4 DEF Mistaken, MatchesPendingSave
      <3>. QED
        BY <3>1 DEF Resume
    <2>2. r.own => Pending' \/ ~Behind
      BY <1>1, <1>2 DEF Pending
    <2>. QED
      BY <1>1, <1>2, <1>4, <2>1, <2>2 DEF Waits, SoftContentEquals
  <1>5. CASE Policy(r.text) = "refresh" /\ doc' = [doc EXCEPT !.lastDiskContent = r.text]
             /\ UNCHANGED queued /\ r.text # None
    <2>1. SoftContentEquals(r.text, doc.lastDiskContent)
      BY <1>5 DEF Policy, ResolveExternalChange
    <2>2. /\ doc'.savedContent = doc.savedContent /\ doc'.lastDiskContent = r.text
          /\ doc'.isMissing = doc.isMissing /\ doc'.isDivergent = doc.isDivergent
      BY <1>1, <1>5, MarkFacts
    <2>3. ~Behind
      BY <1>1, <1>5, <2>1 DEF Behind, SoftContentEquals
    <2>4. SoftContentEquals(doc'.lastDiskContent, doc.lastDiskContent)
      BY <2>1, <2>2
    <2>. QED
      BY <1>1, <1>2, <2>2, <2>3, <2>4 DEF Waits
  <1>6. CASE doc' = [LoadContent(r.text, r.path) EXCEPT !.isMissing = FALSE] /\ r.text # None
    <2>1. doc'.savedContent = r.text /\ doc'.lastDiskContent = r.text
      BY <1>1, <1>6, LoadFacts
    <2>. QED
      BY <1>1, <1>2, <1>6, <2>1 DEF Follows
  <1>7. CASE queued' = Append(queued, r.path) /\ UNCHANGED doc
    <2>1. queued' # <<>>
      <3>1. Len(Append(queued, r.path)) = Len(queued) + 1 /\ Len(queued) \in Nat
            /\ Len(<<>>) = 0
        BY <1>1
      <3>2. Len(queued') # Len(<<>>)
        BY <1>7, <3>1
      <3>. QED
        BY <3>2, Zenon
    <2>2. Pending'
      BY <2>1 DEF Pending
    <2>. QED
      BY <1>1, <1>2, <1>7, <2>2 DEF Waits, SoftContentEquals
  <1>. QED
    BY <1>3, <1>4, <1>5, <1>6, <1>7 DEF Resume, ModifyEvent

LEMMA DialogFollows ==
    ASSUME InTime, InTimeInv, DialogStep PROVE Follows \/ Waits
  <1>1. /\ Paths = {Home} /\ TypeInv /\ "dialog" \in AllTasks /\ "move" \in AllTasks
        /\ pc \in [AllTasks -> Phases] /\ job \in [AllTasks -> Jobs]
        /\ job["dialog"] \in Jobs /\ doc \in Documents
        /\ pc["move"] \in {"idle", "pick"}
        /\ (pc["dialog"] = "loaded" => job["dialog"].text = disk[Home])
        /\ (pc["dialog"] # "idle" => batch # <<>> /\ Head(batch) = Home)
    <2>1. pc["dialog"] # "idle" => batch # <<>> /\ Head(batch) \in Paths
      BY TailTyped DEF InTimeInv, TypeInv, TypeOK, DialogInv
    <2>. QED
      BY <2>1, OnePath DEF InTimeInv, TypeInv, TypeOK, SampleInv, AllTasks
  <1>2. /\ UNCHANGED <<disk, own, events, reads, dropped>>
    BY DEF DialogStep, OpenDialog, ChooseSaveAs, ChooseReload, ChooseKeep, ReviewEach,
           ReloadReads, ReloadFails, Reloaded
  <1>3. ASSUME NEW ph \in Phases \ {"idle", "written", "loaded"}, pc["dialog"] # "written",
               pc' = [pc EXCEPT !["dialog"] = ph], UNCHANGED doc,
               \A b \in AllTasks \ {"dialog"} : job'[b] = job[b]
        PROVE  Waits
    <2>1. Pending'
      BY <1>1, <1>3 DEF Pending
    <2>. QED
      BY <1>1, <1>2, <1>3, <2>1 DEF Waits, SoftContentEquals
  <1>4. CASE OpenDialog \/ ChooseSaveAs \/ ChooseReload \/ ReviewEach
    <2>1. /\ \E ph \in {"ask", "askAll", "pick", "load"} : pc' = [pc EXCEPT !["dialog"] = ph]
          /\ UNCHANGED doc /\ pc["dialog"] # "written"
          /\ \A b \in AllTasks \ {"dialog"} : job'[b] = job[b]
      BY <1>1, <1>4 DEF OpenDialog, ChooseSaveAs, ChooseReload, ReviewEach
    <2>2. {"ask", "askAll", "pick", "load"} \subseteq Phases \ {"idle", "written", "loaded"}
      BY DEF Phases
    <2>. QED
      BY <1>3, <2>1, <2>2
  <1>5. CASE ReloadReads
    <2>1. /\ pc' = [pc EXCEPT !["dialog"] = "loaded"] /\ UNCHANGED doc
          /\ pc["dialog"] = "load" /\ disk[Home] # None
          /\ job' = [job EXCEPT !["dialog"] = [job["dialog"] EXCEPT !.text = disk[Home]]]
      BY <1>1, <1>5 DEF ReloadReads
    <2>2. job'["dialog"].text = disk[Home] /\ \A b \in AllTasks \ {"dialog"} : job'[b] = job[b]
      BY <1>1, <2>1 DEF Jobs
    <2>3. Pending'
      BY <1>1, <2>1 DEF Pending
    <2>. QED
      BY <1>1, <1>2, <2>1, <2>2, <2>3 DEF Waits, SoftContentEquals
  <1>6. ASSUME NEW d, Return("dialog", d)
        PROVE  /\ \A b \in AllTasks : job'[b].text = job[b].text
               /\ \A b \in AllTasks : b # "dialog" => pc'[b] = pc[b]
               /\ pc'["dialog"] \notin {"write", "written", "loaded"}
    BY <1>1, <1>6, ReturnFrame
  <1>7. CASE ChooseKeep
    <2>1. /\ pc["dialog"] \in {"ask", "askAll"} /\ doc' = [doc EXCEPT !.isDivergent = TRUE]
          /\ queued' = queued
      BY <1>7 DEF ChooseKeep
    <2>2. /\ \A b \in AllTasks : b # "dialog" => pc'[b] = pc[b]
          /\ \A b \in AllTasks : job'[b].text = job[b].text
          /\ pc'["dialog"] \notin {"write", "written", "loaded"}
      <3>1. CASE pc["dialog"] = "ask"
        <4>1. Return("dialog", doc')
          BY <1>7, <3>1 DEF ChooseKeep
        <4>. QED
          BY <1>6, <4>1
      <3>2. CASE pc["dialog"] = "askAll"
        BY <1>1, <1>7, <3>2 DEF ChooseKeep
      <3>. QED
        BY <2>1, <3>1, <3>2
    <2>3. /\ doc'.savedContent = doc.savedContent /\ doc'.lastDiskContent = doc.lastDiskContent
          /\ doc'.isMissing = doc.isMissing /\ doc'.isDivergent = TRUE
      BY <1>1, <2>1, MarkFacts
    <2>4. Waits
      BY <1>1, <1>2, <2>1, <2>2, <2>3 DEF Waits, SoftContentEquals, Marked
    <2>. QED
      BY <2>4
  <1>8. CASE ReloadFails
    <2>1. pc["dialog"] = "load" /\ doc' = Missing(doc) /\ Return("dialog", Missing(doc))
      BY <1>8 DEF ReloadFails
    <2>2. /\ doc'.savedContent = doc.savedContent /\ doc'.lastDiskContent = doc.lastDiskContent
          /\ doc'.isMissing = TRUE /\ doc'.isDivergent = doc.isDivergent
      BY <1>1, <2>1, MarkFacts
    <2>3. Waits
      BY <1>1, <1>2, <1>6, <2>1, <2>2 DEF Waits, SoftContentEquals, Marked
    <2>. QED
      BY <2>3
  <1>9. CASE Reloaded
    <2>. DEFINE t == job["dialog"].text
    <2>1. /\ doc' = [LoadContent(t, Head(batch)) EXCEPT !.isMissing = FALSE]
          /\ pc["dialog"] = "loaded" /\ Return("dialog", LoadContent(t, Head(batch)))
      BY <1>9 DEF Reloaded
    <2>2. t = disk[Home] /\ t # None
      BY <1>1, <2>1, NoneAssumption DEF Jobs
    <2>. HIDE DEF t
    <2>3. doc'.savedContent = t /\ doc'.lastDiskContent = t
      BY <1>1, <2>1, LoadFacts
    <2>4. Follows
      BY <1>1, <1>2, <1>6, <2>1, <2>2, <2>3 DEF Follows
    <2>. QED
      BY <2>4
  <1>. QED
    BY <1>4, <1>5, <1>7, <1>8, <1>9 DEF DialogStep

LEMMA InTimeStep ==
    ASSUME InTime, InTimeInv, Next PROVE SampleInv' /\ FollowInv'
  <1>1. ASSUME FileMoves \/ Follows \/ Waits PROVE SampleInv' /\ FollowInv'
    BY <1>1, FileMovesKeep, FollowsKeep, WaitsKeep
  <1>2. CASE \E b \in Typed : Edit(b)
    BY <1>1, <1>2, EditWaits
  <1>3. CASE FileStep
    BY <1>1, <1>3, FileFollows
  <1>4. CASE SaveStep
    <2>1. CASE RemoveOld
      BY <2>1 DEF RemoveOld, InTimeInv, SampleInv
    <2>2. {"save", "move", "dialog"} \subseteq AllTasks
      BY DEF AllTasks
    <2>. QED
      BY <1>1, <1>4, <2>1, <2>2, BeginsWait, SavesFollow, PersistMoves DEF SaveStep
  <1>5. CASE EventStep
    BY <1>1, <1>5, DeliverWaits, ReadWaits, ResumeFollows DEF EventStep
  <1>6. CASE DialogStep
    BY <1>1, <1>6, DialogFollows
  <1>. QED
    BY <1>2, <1>3, <1>4, <1>5, <1>6 DEF Next

-----------------------------------------------------------------------------
(* The events of auto-save's own writes, in time.                          *)

\* Auto-save alone has saved.
Alone == \A a \in AllTasks \ {"auto"} : job[a].token = 0

\* While an event is to be handled, auto-save's last write is registered: it
\* is under way, or neither its timer nor the next tick comes before the event.
Remembered ==
    \/ pc["auto"] = "written"
    \/ /\ pc["auto"] # "write" /\ lastSave = emitted
       /\ pend[Home] # None /\ pend[Home].content = disk[Home]
       /\ \A t \in timers : t[2] = pend[Home].token => t[3] = emitted

OwnInv ==
    /\ pc["mcp"] = "idle"
    /\ \A x \in events \cup reads : x.no <= emitted
    /\ Alone /\ Home \in own /\ events \cup reads # {} => Remembered

\* A step that handles events and leaves auto-save and what it registered alone.
LEMMA OwnFrame ==
    ASSUME OwnInv, emitted' = emitted, pc'["mcp"] = "idle",
           \A x \in (events \cup reads)' : \E y \in events \cup reads : x.no = y.no,
           Alone' => /\ Alone /\ UNCHANGED <<disk, own, pend, timers, lastSave>>
                     /\ pc'["auto"] = pc["auto"]
    PROVE  OwnInv'
  <1>1. \A x \in (events \cup reads)' : x.no <= emitted'
    BY DEF OwnInv
  <1>2. Alone' /\ Home \in own' /\ (events \cup reads)' # {} => Remembered'
    BY DEF OwnInv, Remembered
  <1>. QED
    BY <1>1, <1>2 DEF OwnInv

LEMMA OwnFiles ==
    ASSUME InTime, TypeInv, OwnInv, FileStep PROVE OwnInv'
  <1>1. /\ Paths = {Home} /\ ~Debounce /\ emitted \in Nat
        /\ \A x \in events \cup reads : x.no \in Nat
    BY OnePath DEF InTime, TypeInv, TypeOK, Events, Reads
  <1>2. ASSUME NEW p \in Paths, NEW k, Notify(k, p, p), Home \notin own',
               UNCHANGED <<reads, pc>>
        PROVE  OwnInv'
    <2>1. emitted' = emitted + 1 /\ \A x \in events' : x \in events \/ x.no = emitted + 1
      BY <1>1, <1>2 DEF Notify
    <2>2. \A x \in (events \cup reads)' : x.no <= emitted'
      BY <1>1, <1>2, <2>1 DEF OwnInv
    <2>. QED
      BY <1>2, <2>2 DEF OwnInv
  <1>3. ASSUME NEW p \in Paths, NEW t \in WriterTexts, NEW k \in Kinds, OtherWrites(p, t, k)
        PROVE  OwnInv'
    BY <1>1, <1>2, <1>3 DEF OtherWrites
  <1>4. ASSUME NEW p \in Paths, NEW k \in Kinds, OtherDeletes(p, k) PROVE OwnInv'
    <2>1. PICK kind : kind = IF k = "modify" THEN "remove" ELSE k
      OBVIOUS
    <2>2. Notify(kind, p, p) /\ Home \notin own' /\ UNCHANGED <<reads, pc>>
      BY <1>1, <1>4, <2>1 DEF OtherDeletes
    <2>. QED
      BY <1>2, <2>2
  <1>5. ASSUME NEW p \in Paths, NEW q \in Paths, OtherRenames(p, q) PROVE FALSE
    BY <1>1, <1>5 DEF OtherRenames
  <1>6. ASSUME NEW p \in Paths, Calm(p) PROVE OwnInv'
    BY <1>6, OwnFrame DEF Calm, OwnInv, Alone
  <1>. QED
    BY <1>3, <1>4, <1>5, <1>6 DEF FileStep

LEMMA OwnEvents ==
    ASSUME TypeInv, OwnInv, EventStep PROVE OwnInv'
  <1>1. ASSUME NEW e \in events, Deliver(e) PROVE OwnInv'
    <2>1. \A r \in reads' : r \in reads \/ r.no = e.no
      BY <1>1 DEF Deliver
    <2>2. \A x \in (events \cup reads)' : \E y \in events \cup reads : x.no = y.no
      BY <1>1, <2>1 DEF Deliver
    <2>. QED
      BY <1>1, <2>2, OwnFrame DEF Deliver, OwnInv, Alone
  <1>2. ASSUME NEW r \in reads, ReadFile(r) PROVE OwnInv'
    <2>1. [r EXCEPT !.text = disk[r.path], !.done = TRUE, !.own = r.path \in own].no = r.no
      BY DEF TypeInv, TypeOK, Reads
    <2>2. \A x \in (events \cup reads)' : \E y \in events \cup reads : x.no = y.no
      BY <1>2, <2>1 DEF ReadFile
    <2>. QED
      BY <1>2, <2>2, OwnFrame DEF ReadFile, OwnInv, Alone
  <1>3. ASSUME NEW r \in reads, Resume(r) PROVE OwnInv'
    BY <1>3, OwnFrame DEF Resume, OwnInv, Alone
  <1>. QED
    BY <1>1, <1>2, <1>3 DEF EventStep

LEMMA OwnDialogs ==
    ASSUME TypeInv, OwnInv, DialogStep PROVE OwnInv'
  <1>1. EndsAtMost("dialog") /\ {"dialog", "auto", "mcp"} \subseteq AllTasks
    BY DialogEnds DEF AllTasks
  <1>2. /\ UNCHANGED <<disk, own, pend, timers, lastSave, emitted, events, reads>>
    BY DEF DialogStep, OpenDialog, ChooseSaveAs, ChooseReload, ChooseKeep, ReviewEach,
           ReloadReads, ReloadFails, Reloaded
  <1>. QED
    BY <1>1, <1>2, OwnFrame DEF EndsAtMost, OwnInv, Alone

LEMMA OwnBegins ==
    ASSUME InTime, "mcp" \notin Tasks, TypeInv, OwnInv,
           \/ AutoSave \/ Save \/ McpSave
           \/ \E a \in {"save", "move"} : SaveAs(a)
           \/ \E a \in {"save", "move", "dialog"}, p \in Paths : Pick(a, p)
    PROVE  OwnInv'
  <1>1. /\ {"auto", "save", "move", "dialog", "mcp"} \subseteq AllTasks
        /\ pc \in [AllTasks -> Phases] /\ job \in [AllTasks -> Jobs]
        /\ \A a \in AllTasks : job[a] \in Jobs /\ job[a].snap \in Texts
        /\ doc \in Documents /\ doc.content \in Texts /\ doc.filePath \in Paths
        /\ saves \in Nat /\ emitted \in Nat /\ ~Late
        /\ \A x \in events \cup reads : x.no \in Nat
    BY DEF TypeInv, TypeOK, AllTasks, Jobs, Documents, InTime, Events, Reads
  <1>2. ASSUME NEW a \in AllTasks \ {"auto", "mcp"}, NEW p \in Paths, NEW t \in Texts,
               NEW clear, NEW again, Begin(a, p, t, clear, again),
               UNCHANGED <<fileVars, reads>>
        PROVE  OwnInv'
    <2>1. job'[a].token = saves + 1 /\ pc'["mcp"] = pc["mcp"]
      BY <1>1, <1>2, BeginFrame
    <2>2. ~Alone'
      BY <1>1, <2>1 DEF Alone
    <2>. QED
      BY <1>2, <2>1, <2>2, OwnFrame DEF OwnInv
  <1>3. ASSUME NEW a \in {"save", "move"}, pc' = [pc EXCEPT ![a] = "pick"],
               \A b \in AllTasks : job'[b].token = job[b].token,
               UNCHANGED <<fileVars, saveVars, reads>>
        PROVE  OwnInv'
    BY <1>1, <1>3, OwnFrame DEF OwnInv, Alone
  <1>4. CASE AutoSave
    <2>1. /\ Begin("auto", doc.filePath, doc.content, FALSE, FALSE) /\ Handled(lastSave)
          /\ pc["auto"] = "idle" /\ UNCHANGED <<fileVars, reads>>
      BY <1>1, <1>4 DEF AutoSave
    <2>2. \A b \in AllTasks : b # "auto" => job'[b] = job[b] /\ pc'[b] = pc[b]
      BY <1>1, <2>1, BeginFrame
    <2>3. Alone' => Alone
      BY <2>2 DEF Alone
    <2>4. ~(Alone /\ Home \in own /\ events \cup reads # {})
      <3>1. ASSUME Remembered, NEW x \in events \cup reads PROVE FALSE
        <4>1. lastSave = emitted
          BY <2>1, <3>1 DEF Remembered
        <4>2. x.no > emitted /\ x.no <= emitted
          BY <2>1, <4>1 DEF Handled, OwnInv
        <4>. QED
          BY <1>1, <4>2
      <3>. QED
        BY <3>1 DEF OwnInv
    <2>. QED
      BY <1>1, <2>1, <2>2, <2>3, <2>4 DEF OwnInv
  <1>5. CASE Save
    <2>1. CASE Begin("save", doc.filePath, doc.content, FALSE, TRUE)
      BY <1>1, <1>2, <1>5, <2>1 DEF Save
    <2>2. CASE /\ GoTo("save", "pick")
               /\ job' = [job EXCEPT !["save"].snap = doc.content, !["save"].clear = TRUE]
               /\ UNCHANGED <<pend, saves>>
      <3>1. \A b \in AllTasks : job'[b].token = job[b].token
        BY <1>1, <2>2 DEF Jobs
      <3>2. UNCHANGED <<fileVars, saveVars, reads>>
        BY <1>5, <2>2 DEF Save
      <3>. QED
        BY <1>3, <2>2, <3>1, <3>2
    <2>. QED
      BY <1>5, <2>1, <2>2 DEF Save
  <1>6. CASE McpSave
    BY <1>6 DEF McpSave
  <1>7. ASSUME NEW a \in {"save", "move"}, SaveAs(a) PROVE OwnInv'
    <2>1. \A b \in AllTasks : job'[b].token = job[b].token
      BY <1>1, <1>7 DEF SaveAs, Jobs
    <2>. QED
      BY <1>3, <1>7, <2>1 DEF SaveAs
  <1>8. ASSUME NEW a \in {"save", "move", "dialog"}, NEW p \in Paths, Pick(a, p)
        PROVE  OwnInv'
    <2>1. /\ a \in AllTasks \ {"auto", "mcp"} /\ UNCHANGED <<fileVars, reads>>
          /\ Begin(a, p, job[a].snap, job[a].clear, FALSE)
      BY <1>1, <1>8 DEF Pick
    <2>2. PICK t \in Texts : t = job[a].snap
      BY <1>1, <2>1
    <2>3. Begin(a, p, t, job[a].clear, FALSE)
      BY <2>1, <2>2
    <2>. QED
      BY <1>2, <2>1, <2>3
  <1>. QED
    BY <1>4, <1>5, <1>6, <1>7, <1>8

LEMMA OwnPersists ==
    ASSUME InTime, TypeInv, TokenInv, OwnInv, NEW a \in AllTasks, NEW k \in Kinds, Persist(a, k)
    PROVE  OwnInv'
  <1>1. /\ Paths = {Home} /\ ~Debounce /\ emitted \in Nat /\ pc \in [AllTasks -> Phases]
        /\ "auto" \in AllTasks /\ "mcp" \in AllTasks
        /\ \A b \in AllTasks : job[b].token \in Nat
        /\ \A x \in events \cup reads : x.no \in Nat
    BY OnePath DEF InTime, TypeInv, TypeOK, Events, Reads, AllTasks, Jobs
  <1>2. pc[a] = "write" /\ pc' = [pc EXCEPT ![a] = "written"] /\ UNCHANGED <<job, reads>>
        /\ a # "mcp"
    BY DEF Persist, OwnInv
  <1>3. PICK kind : kind = IF a = "mcp" THEN "modify" ELSE k
    OBVIOUS
  <1>4. Notify(kind, job[a].path, job[a].path) /\ job[a].path = Home
    BY <1>1, <1>3 DEF Persist, TypeInv, TypeOK, Jobs
  <1>5. emitted' = emitted + 1 /\ \A x \in events' : x \in events \/ x.no = emitted + 1
    BY <1>1, <1>4 DEF Notify
  <1>6. \A x \in (events \cup reads)' : x.no <= emitted'
    BY <1>1, <1>2, <1>5 DEF OwnInv
  <1>7. CASE a = "auto"
    BY <1>1, <1>2, <1>6, <1>7 DEF OwnInv, Remembered
  <1>8. CASE a # "auto"
    <2>1. job[a].token > 0
      BY <1>2 DEF TokenInv, Savers, Saving
    <2>2. ~Alone'
      BY <1>1, <1>2, <1>8, <2>1 DEF Alone
    <2>. QED
      BY <1>1, <1>2, <1>6, <2>2 DEF OwnInv
  <1>. QED
    BY <1>7, <1>8

LEMMA OwnEnds ==
    ASSUME InTime, RegisteredInv, SampleInv, OwnInv, NEW a \in AllTasks,
           Saved(a) \/ WriteFails(a) \/ (a \in {"save", "move", "dialog"} /\ Cancel(a))
    PROVE  OwnInv'
  <1>1. /\ Paths = {Home} /\ TypeInv /\ TokenInv /\ NewestIsRegistered
        /\ "auto" \in AllTasks /\ "mcp" \in AllTasks /\ a # "mcp"
        /\ \A b \in AllTasks : job[b].token \in Nat /\ job[b].path = Home
        /\ job["auto"].text \in Texts /\ None \notin Texts
        /\ pc \in [AllTasks -> Phases]
    <2>1. a # "mcp"
      BY DEF OwnInv, Saved, WriteFails
    <2>. QED
      BY <2>1, OnePath, NoneAssumption DEF RegisteredInv, TypeInv, TypeOK, Jobs, AllTasks
  <1>2. EndsAtMost(a)
    BY <1>1, SaveEnds
  <1>3. (Alone' <=> Alone) /\ pc'["mcp"] = "idle"
    BY <1>1, <1>2 DEF EndsAtMost, Alone, OwnInv
  <1>4. UNCHANGED <<disk, own, emitted, events, reads>>
    BY DEF Saved, WriteFails, Cancel
  <1>5. CASE a \in {"save", "move", "dialog"} /\ Cancel(a)
    <2>1. UNCHANGED <<pend, timers, lastSave>> /\ pc'["auto"] = pc["auto"]
      BY <1>1, <1>2, <1>5 DEF Cancel, EndsAtMost
    <2>. QED
      BY <1>3, <1>4, <2>1, OwnFrame
  <1>6. CASE a # "auto" /\ (Saved(a) \/ WriteFails(a))
    <2>1. job[a].token > 0
      BY <1>1, <1>6 DEF TokenInv, Savers, Saving, Saved, WriteFails
    <2>2. ~Alone
      BY <1>1, <1>6, <2>1 DEF Alone
    <2>. QED
      BY <1>3, <1>4, <2>2, OwnFrame
  <1>7. CASE a = "auto" /\ WriteFails(a)
    <2>1. pc["auto"] = "write"
      BY <1>7 DEF WriteFails
    <2>2. ~(Alone /\ Home \in own /\ events \cup reads # {})
      BY <2>1 DEF OwnInv, Remembered
    <2>. QED
      BY <1>3, <1>4, <2>2 DEF OwnInv
  <1>8. CASE a = "auto" /\ Saved(a)
    <2>1. /\ pc["auto"] = "written" /\ pend' = pend /\ lastSave' = emitted
          /\ timers' = timers \cup {<<Home, job["auto"].token, emitted>>}
      BY <1>1, <1>8 DEF Saved
    <2>2. pc'["auto"] # "write"
      BY <1>2, <1>8 DEF EndsAtMost, Saving
    <2>3. ASSUME Alone PROVE Remembered'
      <3>1. \A b \in AllTasks \ {"mcp"} : job[b].token <= job["auto"].token
        BY <1>1, <2>3 DEF Alone
      <3>2. pend[Home] = [content |-> job["auto"].text, token |-> job["auto"].token]
        BY <1>1, <2>1, <3>1 DEF NewestIsRegistered
      <3>3. job["auto"].text = disk[Home]
        BY <1>1, <2>1 DEF SampleInv
      <3>4. \A t \in timers : t[2] # job["auto"].token
        BY <1>1, <2>1 DEF TokenInv, Savers, Saving
      <3>5. pend'[Home].content = disk'[Home] /\ pend'[Home].token = job["auto"].token
            /\ pend'[Home] # None
        <4>1. pend[Home] # None
          <5>1. pend[Home] \in Entries /\ pend \in [Paths -> Entries \cup {None}]
            BY <1>1, <3>2 DEF Entries, TypeInv, TypeOK
          <5>. QED
            BY <1>1, <3>2, <5>1, EntriesAssumption
        <4>. QED
          BY <1>4, <2>1, <3>2, <3>3, <4>1
      <3>6. \A t \in timers' : t[2] = pend'[Home].token => t[3] = emitted'
        BY <1>4, <2>1, <3>4, <3>5
      <3>. QED
        BY <1>4, <2>1, <2>2, <3>5, <3>6 DEF Remembered
    <2>. QED
      BY <1>3, <1>4, <2>3 DEF OwnInv
  <1>. QED
    BY <1>5, <1>6, <1>7, <1>8

-----------------------------------------------------------------------------
(* What holds in time.                                                     *)

AllInv == SyncInv /\ RegisteredInv /\ SampleInv /\ FollowInv
AloneInv == AllInv /\ OwnInv

LEMMA InTimeInit == ASSUME Init PROVE AllInv /\ OwnInv
  <1>1. First \in Texts /\ None # First /\ Home \in Paths
        /\ {"auto", "move", "dialog", "mcp"} \subseteq AllTasks
    BY FirstTyped, NoneAssumption DEF AllTasks
  <1>2. SyncInv /\ RegisteredInv
    BY SyncInit, RegisteredInit
  <1>3. SampleInv
    BY <1>1 DEF Init, SampleInv
  <1>4. ~Behind /\ SoftContentEquals(doc.savedContent, doc.lastDiskContent)
        /\ disk[Home] # None
    BY <1>1 DEF Init, Behind, SoftContentEquals
  <1>5. FollowInv
    BY <1>4 DEF FollowInv
  <1>6. OwnInv
    BY <1>1 DEF Init, OwnInv
  <1>. QED
    BY <1>2, <1>3, <1>5, <1>6 DEF AllInv

LEMMA InTimeKept == ASSUME InTime, AllInv, [Next]_vars PROVE AllInv'
  <1>1. SyncInv' /\ RegisteredInv'
    BY SyncStep, RegisteredKept DEF AllInv
  <1>2. CASE Next
    <2>1. InTimeInv
      BY DEF AllInv, SyncInv, InTimeInv
    <2>. QED
      BY <1>1, <1>2, <2>1, InTimeStep DEF AllInv
  <1>3. CASE UNCHANGED vars
    <2>1. SampleInv'
      BY <1>3 DEF vars, AllInv, SampleInv, Sampled
    <2>2. FollowInv'
      BY <1>3 DEF vars, AllInv, FollowInv, Behind, Pending, Writing, Marked, SoftContentEquals
    <2>. QED
      BY <1>1, <2>1, <2>2 DEF AllInv
  <1>. QED
    BY <1>2, <1>3

LEMMA OwnKept == ASSUME InTime, "mcp" \notin Tasks, AloneInv, [Next]_vars PROVE AloneInv'
  <1>. USE DEF AloneInv
  <1>1. AllInv'
    BY InTimeKept
  <1>2. TypeInv /\ TokenInv /\ RegisteredInv /\ SampleInv /\ OwnInv
    BY DEF AllInv, SyncInv, RegisteredInv
  <1>. SUFFICES OwnInv'
    BY <1>1
  <1>3. CASE \E b \in Typed : Edit(b)
    BY <1>2, <1>3, OwnFrame DEF Edit, OwnInv, Alone
  <1>4. CASE FileStep
    BY <1>2, <1>4, OwnFiles
  <1>5. CASE SaveStep
    <2>1. CASE RemoveOld
      BY <1>2, <2>1 DEF RemoveOld, SampleInv
    <2>2. ASSUME NEW t \in timers, ClearPending(t) PROVE OwnInv'
      <3>1. /\ UNCHANGED <<disk, own, emitted, events, reads, pc, job, lastSave>>
            /\ Handled(t[3]) /\ timers' = timers \ {t} /\ pend' = Cleared(t[1], t[2])
        BY <2>2 DEF ClearPending, InTime
      <3>2. ASSUME Alone, Home \in own, events \cup reads # {} PROVE Remembered'
        <4>1. PICK x \in events \cup reads : TRUE
          BY <3>2
        <4>2. x.no > t[3] /\ x.no <= emitted /\ x.no \in Nat /\ emitted \in Nat /\ t[3] \in Nat
          BY <1>2, <2>2, <3>1 DEF Handled, OwnInv, TypeInv, TypeOK, Events, Reads
        <4>3. t[3] # emitted
          BY <4>2
        <4>4. Remembered
          BY <1>2, <3>2 DEF OwnInv
        <4>5. CASE pc["auto"] = "written"
          BY <3>1, <4>5 DEF Remembered
        <4>6. CASE pc["auto"] # "written"
          <5>1. pend[Home] # None /\ t[2] # pend[Home].token
            BY <2>2, <4>3, <4>4, <4>6 DEF Remembered
          <5>2. t[1] = Home /\ pend \in [Paths -> Entries \cup {None}] /\ Home \in Paths
            BY <1>2, <2>2, OnePath DEF TypeInv, TypeOK
          <5>3. pend'[Home] = pend[Home]
            BY <3>1, <5>1, <5>2 DEF Cleared
          <5>. QED
            BY <3>1, <4>4, <4>6, <5>3 DEF Remembered
        <4>. QED
          BY <4>5, <4>6
      <3>3. Alone' <=> Alone
        BY <3>1 DEF Alone
      <3>. QED
        BY <1>2, <3>1, <3>2, <3>3 DEF OwnInv
    <2>3. {"save", "move", "dialog"} \subseteq AllTasks
      BY DEF AllTasks
    <2>. QED
      BY <1>2, <1>5, <2>1, <2>2, <2>3, OwnBegins, OwnPersists, OwnEnds DEF SaveStep
  <1>6. CASE EventStep
    BY <1>2, <1>6, OwnEvents
  <1>7. CASE DialogStep
    BY <1>2, <1>7, OwnDialogs
  <1>8. CASE UNCHANGED vars
    BY <1>2, <1>8 DEF vars, OwnInv, Alone, Remembered
  <1>. QED
    BY <1>3, <1>4, <1>5, <1>6, <1>7, <1>8 DEF Next

LEMMA QuietInSync == ASSUME InTime, AllInv PROVE InSyncOrDropped
  <1>1. TypeInv /\ DirtyInv /\ FollowInv /\ doc.filePath = Home
    BY OnePath DEF AllInv, SyncInv, TypeInv, TypeOK, Documents
  <1>. SUFFICES ASSUME ~dropped, Quiet, ~doc.isDirty, ~doc.isMissing, ~doc.isDivergent
                PROVE  disk[doc.filePath] # None
                       /\ SoftContentEquals(doc.content, disk[doc.filePath])
    BY DEF InSyncOrDropped, InSync
  <1>2. "dialog" \in AllTasks /\ ~Pending
    BY DEF Quiet, Pending, Writing, AllTasks
  <1>3. ~Behind
    BY <1>1, <1>2 DEF FollowInv, Marked
  <1>4. doc.content = doc.savedContent
    BY <1>1 DEF DirtyInv
  <1>. QED
    BY <1>1, <1>3, <1>4 DEF Behind

\* While an event is to be handled auto-save's own write is registered, and the
\* event finds it so.
LEMMA OwnFiltered ==
    ASSUME InTime, AloneInv, Next PROVE OwnSaveFiltered
  <1>. SUFFICES ASSUME NEW r \in reads, r.done, r.own, r \notin reads',
                       \A a \in AllTasks \ {"auto"} :
                          job[a].token = 0 /\ pc[a] \notin {"write", "written"}
                PROVE  doc'.content = doc.content /\ queued' = queued
    BY DEF OwnSaveFiltered
  <1>1. /\ TypeInv /\ SampleInv /\ NewestIsRegistered /\ OwnInv /\ Paths = {Home}
        /\ Alone /\ "auto" \in AllTasks
        /\ pend \in [Paths -> Entries \cup {None}] /\ r.path = Home /\ r.kind = "modify"
        /\ \A a \in AllTasks : job[a] \in Jobs /\ job[a].token \in Nat
    BY OnePath DEF AloneInv, AllInv, RegisteredInv, TypeInv, TypeOK, Alone, AllTasks, Reads,
       SampleInv, Jobs
  <1>2. Resume(r)
    <2>1. CASE EventStep
      <3>1. \A s \in reads : ReadFile(s) => s # r /\ r \in reads'
        BY DEF ReadFile
      <3>2. \A e \in events : Deliver(e) => r \in reads'
        BY DEF Deliver
      <3>3. \A s \in reads : Resume(s) => s = r
        BY DEF Resume
      <3>. QED
        BY <2>1, <3>1, <3>2, <3>3 DEF EventStep
    <2>2. CASE (\E b \in Typed : Edit(b)) \/ FileStep \/ SaveStep \/ DialogStep
      <3>1. reads' = reads
        BY <2>2 DEF Edit, FileStep, OtherWrites, OtherDeletes, OtherRenames, Calm, SaveStep,
           AutoSave, Save, McpSave, RemoveOld, SaveAs, Cancel, Pick, Saved, WriteFails, Persist,
           ClearPending, DialogStep, OpenDialog, ChooseSaveAs, ChooseReload, ChooseKeep,
           ReviewEach, ReloadReads, ReloadFails, Reloaded
      <3>. QED
        BY <3>1
    <2>. QED
      BY <2>1, <2>2 DEF Next
  <1>3. r.text = disk[Home] /\ Home \in own
    BY <1>1 DEF SampleInv, Sampled
  <1>4. Remembered
    BY <1>1, <1>3 DEF OwnInv
  <1>5. pend[Home] \in Entries /\ pend[Home].content = disk[Home]
    <2>1. CASE pc["auto"] = "written"
      <3>1. \A b \in AllTasks \ {"mcp"} : job[b].token <= job["auto"].token
        BY <1>1 DEF Alone
      <3>2. pend[Home] = [content |-> job["auto"].text, token |-> job["auto"].token]
        BY <1>1, <2>1, <3>1 DEF NewestIsRegistered, Jobs
      <3>3. job["auto"].text = disk[Home] /\ job["auto"].text \in Texts
        BY <1>1, <2>1 DEF SampleInv, Jobs
      <3>. QED
        BY <1>1, <3>2, <3>3 DEF Entries
    <2>2. CASE pc["auto"] # "written"
      BY <1>1, <1>4, <2>2, FirstTyped DEF Remembered
    <2>. QED
      BY <2>1, <2>2
  <1>6. r.text # None /\ MatchesPendingSave(r.path, r.text)
    <2>1. pend[Home] # None /\ pend[Home].content \in Texts
      BY <1>5, EntriesAssumption DEF Entries
    <2>. QED
      BY <1>1, <1>3, <1>5, <2>1, NoneAssumption DEF MatchesPendingSave
  <1>. QED
    BY <1>1, <1>2, <1>6 DEF Resume, ReadFails

\* One file whose events are handled within the code's pauses: a document that
\* shows no mark when nothing is under way says what its file says, whatever
\* was edited, saved, written by other programs and answered in between, unless
\* the user left a dialog unanswered or another program repeated a save's text.
THEOREM DocumentsFollow == ASSUME InTime PROVE Spec => []InSyncOrDropped
  <1>1. Init => AllInv
    BY InTimeInit
  <1>2. AllInv /\ [Next]_vars => AllInv'
    BY InTimeKept
  <1>3. AllInv => InSyncOrDropped
    BY QuietInSync
  <1>. QED
    BY <1>1, <1>2, <1>3, PTL DEF Spec

\* Under the same conditions the event of auto-save's own write never changes
\* the editor nor asks the user, as long as auto-save alone has saved.
THEOREM OwnSavesAreFiltered ==
    ASSUME InTime, "mcp" \notin Tasks PROVE Spec => OwnSavesFiltered
  <1>1. Init => AloneInv
    BY InTimeInit DEF AloneInv
  <1>2. AloneInv /\ [Next]_vars => AloneInv'
    BY OwnKept
  <1>3. AloneInv /\ [Next]_vars => [OwnSaveFiltered]_vars
    BY OwnFiltered
  <1>. QED
    BY <1>1, <1>2, <1>3, PTL DEF Spec, OwnSavesFiltered

\* The instance of the model run whose events are in time has the conditions.
MCInv == setting = "in time" => InTime /\ "mcp" \notin Tasks /\ AloneInv

LEMMA MCInvariance == MCSpec => []MCInv
  <1>1. MCInit => MCInv
    BY InTimeInit DEF MCInit, MCInv, AloneInv
  <1>2. MCInv /\ [MCNext]_<<vars, setting>> => MCInv'
    <2>. SUFFICES ASSUME MCInv, [MCNext]_<<vars, setting>>, setting' = "in time"
                  PROVE  InTime /\ "mcp" \notin Tasks /\ AloneInv'
      BY DEF MCInv
    <2>1. setting = "in time" /\ [Next]_vars
      BY DEF MCNext
    <2>. QED
      BY <2>1, OwnKept DEF MCInv
  <1>. QED
    BY <1>1, <1>2, PTL DEF MCSpec

\* So in that instance unmarked documents say what their files say ...
THEOREM DocumentsFollowInTime == MCSpec => []InSyncInTime
  <1>1. MCInv => InSyncInTime
    BY QuietInSync DEF MCInv, InSyncInTime, AloneInv
  <1>. QED
    BY <1>1, MCInvariance, PTL

\* ... and auto-save's own events change nothing.
THEOREM OwnSavesFilteredInTime == MCSpec => OwnSavesInTime
  <1>1. MCInv /\ [MCNext]_<<vars, setting>> => [setting = "in time" => OwnSaveFiltered]_vars
    <2>. SUFFICES ASSUME MCInv, [MCNext]_<<vars, setting>>, setting = "in time", ~UNCHANGED vars
                  PROVE  OwnSaveFiltered
      OBVIOUS
    <2>1. Next
      BY DEF MCNext
    <2>. QED
      BY <2>1, OwnFiltered DEF MCInv
  <1>. QED
    BY <1>1, MCInvariance, PTL DEF MCSpec, OwnSavesInTime
=============================================================================
