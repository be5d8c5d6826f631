---------------------------- MODULE DocumentSync ----------------------------
(***************************************************************************)
(* One open document of TMark and its file: edits, the five ways of saving *)
(* it, the file watcher's events and the dialog about external changes.    *)
(*                                                                         *)
(*   src/src/stores/documentStore.ts           the document's state        *)
(*   src/src/utils/saveToPath.ts, pendingSaves.ts, reentryGuard.ts         *)
(*   src/src/hooks/useAutoSave.ts, useFileSave.ts                          *)
(*   src/src/hooks/useExternalFileChanges.ts   what an event does          *)
(*   src/src-tauri/src/watcher.rs, lib.rs      events and file writes      *)
(*                                                                         *)
(* A save is a task a \in Tasks with at most one run at a time; an await   *)
(* of the TypeScript code ends a step.  A write, the moment a read samples *)
(* the file, and the resumption of the code that awaits it are separate    *)
(* steps.  The document has a path from the start (untitled ones are not   *)
(* saved automatically and have no file to follow).                        *)
(***************************************************************************)
EXTENDS Naturals, Sequences, FiniteSets

CONSTANTS
    Paths,      \* file paths
    Bodies,     \* what a text says, line endings aside
    Typed,      \* bodies the user types
    Written,    \* bodies other programs write
    Eols,       \* line endings they write
    None,       \* no file; no pending save
    Tasks,      \* the save tasks of an instance
    Kinds,      \* event kinds a change of a file may be reported as
    Debounce,   \* may changes follow each other within the 200 ms?
    Late,       \* may the handling of an event take longer than the code's
                \* pauses: 1 s after a save, 5 s between auto-saves, and may a
                \* file change while the answer to a read or write of it is
                \* on its way?
    Failures,   \* may a write fail?
    MaxEdits,   \* bound: edits
    MaxOthers,  \* bound: changes of files by other programs
    MaxSaves    \* bound: saves begun

AllTasks == {"auto", "save", "move", "dialog", "mcp"}
Texts    == [body : Bodies, eol : {"lf", "crlf"}]

ASSUME NoneAssumption  == None \notin Texts
ASSUME TasksAssumption == Tasks \subseteq AllTasks /\ Kinds \subseteq {"modify", "rename"}
ASSUME TextAssumption  == Typed \cup Written \subseteq Bodies /\ Eols \subseteq {"lf", "crlf"}
                             /\ Paths # {} /\ Bodies # {} /\ Eols # {}
ASSUME BoundAssumption ==
    /\ MaxEdits \in Nat /\ MaxOthers \in Nat /\ MaxSaves \in Nat
    /\ {Debounce, Late, Failures} \subseteq BOOLEAN

VARIABLES
    disk,       \* the text of each file, or None
    doc,        \* DocumentState
    pend,       \* pendingSaves: the entry of each path, or None
    timers,     \* the 1000 ms timers: <<path, token, events emitted before>>
    saves,      \* nextToken: saves begun so far
    lastSave,   \* lastSaveRef: the events emitted before the last auto-save ended
    pc, job,    \* where each task is; what it saves
    recent,     \* LAST_EMITTED within the debounce interval
    events,     \* emitted fs:changed events the window has not handled
    reads,      \* event handlers waiting for readTextFile
    queued,     \* pendingDirtyChangesRef
    batch, all, \* the changes the dialog is about; was "reload all" chosen?
    edits, others, emitted, \* counters
    persisted,  \* history: every text some file has had
    own,        \* history: files whose text this program wrote last
    dropped     \* history: did the user leave a change dialog without an answer,
                \* or was another program's text taken for a save's?

fileVars == <<disk, recent, events, emitted, persisted, own>>
saveVars == <<pend, timers, saves, lastSave>>
taskVars == <<pc, job>>
askVars  == <<queued, batch, all, dropped>>
countVars == <<edits, others>>
vars == <<disk, doc, pend, timers, saves, lastSave, pc, job, recent, events, reads,
          queued, batch, all, edits, others, emitted, persisted, own,
          dropped>>

Documents == [content : Texts, savedContent : Texts, lastDiskContent : Texts,
              filePath : Paths, isDirty : BOOLEAN, isMissing : BOOLEAN,
              isDivergent : BOOLEAN, lineEnding : {"lf", "crlf"}]
Entries == [content : Texts, token : Nat]
Phases  == {"idle", "pick", "write", "written", "remove", "ask", "askAll",
            "load", "loaded"}
Jobs    == [path : Paths, old : Paths, snap : Texts, text : Texts, token : Nat,
            clear : BOOLEAN, again : BOOLEAN]
Events  == [no : Nat, kind : {"modify", "rename", "remove", "pair"},
            path : Paths, to : Paths]
Reads   == [no : Nat, kind : {"modify", "rename"}, path : Paths,
            text : Texts \cup {None}, done : BOOLEAN, own : BOOLEAN]

ASSUME EntriesAssumption == None \notin Entries

\* The shape of the variables: in particular the editor and both remembered
\* texts are texts, never the outcome of a failed read.
TypeOK ==
    /\ disk \in [Paths -> Texts \cup {None}] /\ doc \in Documents
    /\ pend \in [Paths -> Entries \cup {None}]
    /\ timers \subseteq Paths \X Nat \X Nat /\ saves \in Nat /\ lastSave \in Nat
    /\ pc \in [AllTasks -> Phases] /\ job \in [AllTasks -> Jobs]
    /\ recent \subseteq Paths /\ events \subseteq Events /\ emitted \in Nat
    /\ reads \subseteq Reads
    /\ queued \in Seq(Paths) /\ batch \in Seq(Paths) /\ all \in BOOLEAN
    /\ edits \in Nat /\ others \in Nat
    /\ persisted \subseteq Texts /\ own \subseteq Paths /\ dropped \in BOOLEAN

First == [body |-> CHOOSE b \in Bodies : TRUE, eol |-> CHOOSE e \in Eols : TRUE]
Home  == CHOOSE p \in Paths : TRUE

\* The document has just been read from its file; other files do not exist.
Init ==
    /\ disk = [p \in Paths |-> IF p = Home THEN First ELSE None]
    /\ doc = [content |-> First, savedContent |-> First, lastDiskContent |-> First,
              filePath |-> Home, isDirty |-> FALSE, isMissing |-> FALSE,
              isDivergent |-> FALSE, lineEnding |-> First.eol]
    /\ pend = [p \in Paths |-> None] /\ timers = {} /\ saves = 0 /\ lastSave = 0
    /\ pc = [a \in AllTasks |-> "idle"]
    /\ job = [a \in AllTasks |->
                [path |-> Home, old |-> Home, snap |-> First, text |-> First,
                 token |-> 0, clear |-> FALSE, again |-> FALSE]]
    /\ recent = {} /\ events = {} /\ emitted = 0 /\ reads = {}
    /\ queued = <<>> /\ batch = <<>> /\ all = FALSE
    /\ edits = 0 /\ others = 0
    /\ persisted = {First} /\ own = {} /\ dropped = FALSE

-----------------------------------------------------------------------------
(* Texts and the document store.                                           *)

SoftContentEquals(s, t) == s.body = t.body

\* Line endings on save: "preserve", the setting's default.
Output(t) == [t EXCEPT !.eol = doc.lineEnding]

SetContent(t) == [doc EXCEPT !.content = t, !.isDirty = (doc.savedContent # t)]

LoadContent(t, p) ==
    [doc EXCEPT !.content = t, !.savedContent = t, !.lastDiskContent = t,
                !.filePath = p, !.isDirty = FALSE, !.isDivergent = FALSE,
                !.lineEnding = t.eol]

\* Mutant of MarkSaved: what was typed during the write is not looked at.
MarkSavedBlindly(d, t) ==
    [d EXCEPT !.savedContent = t, !.lastDiskContent = t, !.isDirty = FALSE,
              !.isDivergent = FALSE]

MarkSaved(d, t) ==
    [d EXCEPT !.savedContent = t, !.lastDiskContent = t,
              !.isDirty = (d.content # t), !.isDivergent = FALSE]

-----------------------------------------------------------------------------
(* The file watcher.                                                       *)

\* A change of p, or of p and q, reaches the window as one event unless an
\* event for the same path was emitted within the last 200 ms.
Notify(kind, p, q) ==
    LET heard == {x \in {p, q} : ~Debounce \/ x \notin recent} IN
    /\ recent' = IF Debounce THEN recent \cup {p, q} ELSE recent
    /\ IF heard = {}
       THEN UNCHANGED <<events, emitted>>
       ELSE /\ emitted' = emitted + 1
            /\ events' = events \cup
                 {[no   |-> emitted + 1,
                   kind |-> IF kind = "pair" /\ heard # {p, q} THEN "rename" ELSE kind,
                   path |-> IF p \in heard THEN p ELSE q,
                   to   |-> IF q \in heard THEN q ELSE p]}

\* 200 ms have passed since the last event for p.
Calm(p) ==
    /\ p \in recent
    /\ recent' = recent \ {p}
    /\ UNCHANGED <<disk, doc, saveVars, taskVars, events, emitted, reads,
                   askVars, countVars, persisted, own>>

\* Have the events up to the no-th been handled?
Handled(no) == \A x \in events \cup reads : x.no > no

\* May a file change now?
MayChange ==
    \/ Late
    \/ /\ \A a \in AllTasks : pc[a] \notin {"written", "loaded"}
       /\ \A r \in reads : ~r.done

\* Another program writes, deletes or renames a file.
OtherWrites(p, t, kind) ==
    /\ MayChange /\ others < MaxOthers /\ t # disk[p]
    /\ others' = others + 1
    /\ disk' = [disk EXCEPT ![p] = t]
    /\ persisted' = persisted \cup {t} /\ own' = own \ {p}
    /\ Notify(kind, p, p)
    /\ UNCHANGED <<doc, saveVars, taskVars, reads, askVars, edits>>

OtherDeletes(p, kind) ==
    /\ MayChange /\ others < MaxOthers /\ disk[p] # None
    /\ others' = others + 1
    /\ disk' = [disk EXCEPT ![p] = None] /\ own' = own \ {p}
    /\ Notify(IF kind = "modify" THEN "remove" ELSE kind, p, p)
    /\ UNCHANGED <<doc, saveVars, taskVars, reads, askVars, edits, persisted>>

OtherRenames(p, q) ==
    /\ MayChange /\ others < MaxOthers /\ disk[p] # None /\ p # q
    /\ others' = others + 1
    /\ disk' = [disk EXCEPT ![q] = disk[p], ![p] = None] /\ own' = own \ {p, q}
    /\ Notify("pair", p, q)
    /\ UNCHANGED <<doc, saveVars, taskVars, reads, askVars, edits, persisted>>

-----------------------------------------------------------------------------
(* Edits and saves.                                                        *)

\* The editors join lines with "\n".
Edit(b) ==
    /\ edits < MaxEdits /\ doc.content # [body |-> b, eol |-> "lf"]
    /\ edits' = edits + 1
    /\ doc' = SetContent([body |-> b, eol |-> "lf"])
    /\ UNCHANGED <<fileVars, saveVars, taskVars, reads, askVars, others>>

GoTo(a, phase) == pc' = [pc EXCEPT ![a] = phase]

\* Mutant of Begin: the pending save is registered too late to matter.
BeginUnregistered(a, p, t, clear, again) ==
    /\ saves < MaxSaves
    /\ saves' = saves + 1
    /\ GoTo(a, "write")
    /\ job' = [job EXCEPT ![a] = [@ EXCEPT !.path = p, !.snap = t, !.text = Output(t),
                       !.token = saves + 1, !.clear = clear, !.again = again]]
    /\ UNCHANGED pend

\* saveToPath up to its await: the output is registered under a new token.
\* clear: does the caller clear isMissing after it?  again: does the caller
\* offer Save As when the folder is gone?
Begin(a, p, t, clear, again) ==
    /\ saves < MaxSaves
    /\ saves' = saves + 1
    /\ GoTo(a, "write")
    /\ job' = [job EXCEPT ![a] = [@ EXCEPT !.path = p, !.snap = t, !.text = Output(t),
                       !.token = saves + 1, !.clear = clear, !.again = again]]
    /\ pend' = [pend EXCEPT ![p] = [content |-> Output(t), token |-> saves + 1]]

\* A tick of the auto-save interval.
AutoSave ==
    /\ "auto" \in Tasks /\ pc["auto"] = "idle" /\ pc["save"] = "idle"
    /\ doc.isDirty /\ ~doc.isMissing /\ ~doc.isDivergent
    /\ Late \/ Handled(lastSave)
    /\ Begin("auto", doc.filePath, doc.content, FALSE, FALSE)
    /\ UNCHANGED <<fileVars, doc, timers, lastSave, reads, askVars, countVars>>

\* Save, unless another one runs; Save As when the file is missing.
Save ==
    /\ "save" \in Tasks /\ pc["save"] = "idle"
    /\ \/ /\ ~doc.isMissing
          /\ Begin("save", doc.filePath, doc.content, FALSE, TRUE)
       \/ /\ doc.isMissing
          /\ GoTo("save", "pick")
          /\ job' = [job EXCEPT !["save"].snap = doc.content, !["save"].clear = TRUE]
          /\ UNCHANGED <<pend, saves>>
    /\ UNCHANGED <<fileVars, doc, timers, lastSave, reads, askVars, countVars>>

\* Save As and Move To: the content is taken before the dialog.
SaveAs(a) ==
    /\ a \in Tasks \cap {"save", "move"} /\ pc[a] = "idle"
    /\ GoTo(a, "pick")
    /\ job' = [job EXCEPT ![a] = [@ EXCEPT !.snap = doc.content, !.old = doc.filePath,
                                         !.clear = FALSE]]
    /\ UNCHANGED <<fileVars, doc, saveVars, reads, askVars, countVars>>

\* What a task does after its save, successful or not.  The change dialog goes
\* on to the next change of its batch; d is the document by then.
Return(a, d) ==
    IF a # "dialog"
    THEN GoTo(a, "idle") /\ UNCHANGED <<job, batch>>
    ELSE /\ batch' = Tail(batch)
         /\ GoTo(a, IF Len(batch) < 2 THEN "idle" ELSE IF all THEN "load" ELSE "ask")
         /\ job' = [job EXCEPT ![a].snap = d.content]

\* The save dialog's path.  Move To of a file onto itself does nothing.
Pick(a, p) ==
    /\ pc[a] = "pick"
    /\ a = "move" => p # job[a].old
    /\ Begin(a, p, job[a].snap, job[a].clear, FALSE)
    /\ UNCHANGED <<fileVars, doc, timers, lastSave, reads, askVars, countVars>>

Cancel(a) ==
    /\ pc[a] = "pick"
    /\ Return(a, doc)
    /\ dropped' = (dropped \/ a = "dialog")
    /\ UNCHANGED <<fileVars, doc, saveVars, reads, queued, all, countVars>>

\* tmark.workspace.save writes the file directly and registers nothing.
McpSave ==
    /\ "mcp" \in Tasks /\ pc["mcp"] = "idle" /\ saves < MaxSaves
    /\ saves' = saves + 1
    /\ GoTo("mcp", "write")
    /\ job' = [job EXCEPT !["mcp"].path = doc.filePath, !["mcp"].snap = doc.content,
                          !["mcp"].text = doc.content]
    /\ UNCHANGED <<fileVars, doc, pend, timers, lastSave, reads, askVars, countVars>>

\* The temporary file is renamed over the target on a worker thread: writes
\* under way end in any order.
Persist(a, kind) ==
    /\ MayChange /\ pc[a] = "write"
    /\ disk' = [disk EXCEPT ![job[a].path] = job[a].text]
    /\ persisted' = persisted \cup {job[a].text}
    /\ own' = own \cup {job[a].path}
    /\ Notify(IF a = "mcp" THEN "modify" ELSE kind, job[a].path, job[a].path)
    /\ GoTo(a, "written")
    /\ UNCHANGED <<doc, saveVars, job, reads, askVars, countVars>>

\* The document once a's write has succeeded.
AfterSave(a) ==
    LET d == IF a = "mcp" THEN doc
             ELSE [doc EXCEPT !.filePath = job[a].path, !.lineEnding = job[a].text.eol]
    IN [MarkSaved(d, job[a].text) EXCEPT !.isMissing = @ /\ ~job[a].clear]

\* The saving code resumes.  Move To goes on to remove the old file.
Saved(a) ==
    /\ pc[a] = "written"
    /\ doc' = AfterSave(a)
    /\ timers' = IF a = "mcp" THEN timers ELSE timers \cup {<<job[a].path, job[a].token, emitted>>}
    /\ IF a = "move"
       THEN GoTo(a, "remove") /\ UNCHANGED <<job, batch>>
       ELSE Return(a, AfterSave(a))
    /\ UNCHANGED <<fileVars, pend, saves, reads, queued, all, dropped, countVars>>
    /\ lastSave' = IF a = "auto" THEN emitted ELSE lastSave

\* Mutant of Cleared: tokens are not compared.
ClearedAnyway(p, t) == [pend EXCEPT ![p] = None]

\* clearPendingSave: only the registration with this token goes.
Cleared(p, t) ==
    IF pend[p] # None /\ pend[p].token # t THEN pend ELSE [pend EXCEPT ![p] = None]

\* The write fails.  If the folder is gone the document is missing, and Save
\* goes on with Save As whenever it finds the document missing.
WriteFails(a) ==
    /\ Failures /\ pc[a] = "write"
    /\ pend' = IF a = "mcp" THEN pend ELSE Cleared(job[a].path, job[a].token)
    /\ \/ doc' = doc
       \/ a # "mcp" /\ disk[job[a].path] = None /\ doc' = [doc EXCEPT !.isMissing = TRUE]
    /\ \/ /\ a = "save" /\ job[a].again /\ doc'.isMissing
          /\ GoTo(a, "pick") /\ job' = [job EXCEPT ![a].clear = TRUE]
          /\ UNCHANGED batch
       \/ /\ ~(a = "save" /\ job[a].again /\ doc'.isMissing)
          /\ Return(a, doc')
    /\ dropped' = (dropped \/ a = "dialog")
    /\ UNCHANGED <<fileVars, timers, saves, lastSave, reads, queued, all, countVars>>

\* Move To removes the old file, or fails to.
RemoveOld ==
    /\ pc["move"] = "remove" /\ GoTo("move", "idle")
    /\ \/ /\ MayChange /\ disk[job["move"].old] # None
          /\ disk' = [disk EXCEPT ![job["move"].old] = None]
          /\ own' = own \cup {job["move"].old}
          /\ Notify("remove", job["move"].old, job["move"].old)
          /\ UNCHANGED persisted
       \/ /\ Failures \/ disk[job["move"].old] = None
          /\ UNCHANGED fileVars
    /\ UNCHANGED <<doc, saveVars, job, reads, askVars, countVars>>

\* 1000 ms after a save its registration is cleared.
ClearPending(t) ==
    /\ t \in timers /\ (Late \/ Handled(t[3]))
    /\ timers' = timers \ {t}
    /\ pend' = Cleared(t[1], t[2])
    /\ UNCHANGED <<fileVars, doc, saves, lastSave, taskVars, reads, askVars, countVars>>

-----------------------------------------------------------------------------
(* Events: the listener of fs:changed.                                     *)

Missing(d) == [d EXCEPT !.isMissing = TRUE]

\* The listener takes the next event.  A rename of the open file moves the
\* document; another rename, a change or a creation is read back; a rename is
\* not looked at while a save of that path is registered.
Deliver(e) ==
    /\ e \in events /\ \A f \in events : e.no <= f.no
    /\ events' = events \ {e}
    /\ LET Read(k, p) == reads' = reads \cup {[no |-> e.no, kind |-> k, path |-> p,
                                text |-> None, done |-> FALSE, own |-> FALSE]}
       IN \/ /\ e.kind = "pair" /\ e.path = doc.filePath
             /\ doc' = [doc EXCEPT !.filePath = e.to, !.isMissing = FALSE]
             /\ UNCHANGED reads
          \/ /\ e.kind = "pair" /\ e.path # doc.filePath /\ e.to = doc.filePath
             /\ IF pend[e.to] = None THEN Read("rename", e.to) ELSE UNCHANGED reads
             /\ UNCHANGED doc
          \/ /\ e.kind = "rename" /\ e.path = doc.filePath
             /\ IF pend[e.path] = None THEN Read("rename", e.path) ELSE UNCHANGED reads
             /\ UNCHANGED doc
          \/ /\ e.kind = "modify" /\ e.path = doc.filePath
             /\ Read("modify", e.path)
             /\ UNCHANGED doc
          \/ /\ e.kind = "remove" /\ e.path = doc.filePath
             /\ doc' = Missing(doc)
             /\ UNCHANGED reads
          \/ /\ doc.filePath \notin {e.path, e.to}
             /\ UNCHANGED <<doc, reads>>
    /\ UNCHANGED <<disk, recent, emitted, persisted, own, saveVars, taskVars,
                   askVars, countVars>>

\* readTextFile samples the file.
ReadFile(r) ==
    /\ r \in reads /\ ~r.done
    /\ reads' = (reads \ {r}) \cup {[r EXCEPT !.text = disk[r.path], !.done = TRUE,
                                              !.own = r.path \in own]}
    /\ UNCHANGED <<fileVars, doc, saveVars, taskVars, askVars, countVars>>

\* Mutant of MatchesPendingSave: any registration will do.
HasPendingSave(p, t) == pend[p] # None

MatchesPendingSave(p, t) == pend[p] # None /\ pend[p].content = t

\* Mutant of ResolveExternalChange: a dirty document is reloaded like a clean one.
AlwaysReload(isDirty) == "auto_reload"

ResolveExternalChange(isDirty) == IF isDirty THEN "prompt_user" ELSE "auto_reload"

\* What an event whose file holds t asks for, in the order of the tests of
\* handleModifyEvent.
Policy(t) ==
    IF doc.isMissing THEN ResolveExternalChange(doc.isDirty)
    ELSE IF SoftContentEquals(t, doc.lastDiskContent) THEN "refresh"
    ELSE IF doc.isDivergent /\ SoftContentEquals(t, doc.content) THEN "auto_reload"
    ELSE ResolveExternalChange(doc.isDirty)

\* handleModifyEvent: the document is looked at now, the text was read before.
ModifyEvent(p, t) ==
    \/ /\ Policy(t) = "refresh"
       /\ doc' = [doc EXCEPT !.lastDiskContent = t]
       /\ UNCHANGED queued
    \/ /\ Policy(t) = "auto_reload"
       /\ doc' = [LoadContent(t, p) EXCEPT !.isMissing = FALSE]
       /\ UNCHANGED queued
    \/ /\ Policy(t) = "prompt_user"
       /\ queued' = Append(queued, p)
       /\ UNCHANGED doc

\* A file that cannot be read was deleted if the event was a rename.
ReadFails(r) ==
    /\ r.text = None
    /\ doc' = IF r.kind = "rename" THEN Missing(doc) ELSE doc
    /\ UNCHANGED queued

\* Another program wrote the very text that a save has registered.
Mistaken(r) ==
    /\ ~r.own /\ r.text # None
    /\ pend[r.path] # None /\ pend[r.path].content = r.text

\* The listener resumes after its read.
Resume(r) ==
    /\ r \in reads /\ r.done
    /\ reads' = reads \ {r}
    /\ \/ ReadFails(r)
       \/ /\ r.text # None /\ r.kind = "modify" /\ MatchesPendingSave(r.path, r.text)
          /\ UNCHANGED <<doc, queued>>
       \/ /\ r.text # None /\ ~(r.kind = "modify" /\ MatchesPendingSave(r.path, r.text))
          /\ ModifyEvent(r.path, r.text)
    /\ dropped' = (dropped \/ Mistaken(r))
    /\ UNCHANGED <<fileVars, saveVars, taskVars, batch, all, countVars>>

-----------------------------------------------------------------------------
(* The dialog about external changes.                                      *)

\* 300 ms after the last queued change, unless the dialog is up already.  One
\* change gets the three-way dialog, several get the batch dialog.
OpenDialog ==
    /\ "dialog" \in Tasks /\ queued # <<>> /\ pc["dialog"] = "idle"
    /\ batch' = queued /\ queued' = <<>> /\ all' = FALSE
    /\ GoTo("dialog", IF Len(queued) = 1 THEN "ask" ELSE "askAll")
    /\ job' = [job EXCEPT !["dialog"].snap = doc.content]
    /\ UNCHANGED <<fileVars, doc, saveVars, reads, dropped, countVars>>

\* "Save As...": the content is the one the dialog was opened with.
ChooseSaveAs ==
    /\ pc["dialog"] = "ask"
    /\ GoTo("dialog", "pick")
    /\ job' = [job EXCEPT !["dialog"].clear = TRUE]
    /\ UNCHANGED <<fileVars, doc, saveVars, reads, askVars, countVars>>

\* "Reload", or "Reload all" for the whole batch.
ChooseReload ==
    /\ pc["dialog"] \in {"ask", "askAll"}
    /\ all' = (pc["dialog"] = "askAll")
    /\ GoTo("dialog", "load")
    /\ UNCHANGED <<fileVars, doc, saveVars, job, reads, queued, batch, dropped, countVars>>

\* "Keep", or "Keep all".
ChooseKeep ==
    /\ pc["dialog"] \in {"ask", "askAll"}
    /\ doc' = [doc EXCEPT !.isDivergent = TRUE]
    /\ IF pc["dialog"] = "ask" THEN Return("dialog", doc')
       ELSE batch' = <<>> /\ GoTo("dialog", "idle") /\ UNCHANGED job
    /\ UNCHANGED <<fileVars, saveVars, reads, queued, all, dropped, countVars>>

ReviewEach ==
    /\ pc["dialog"] = "askAll"
    /\ GoTo("dialog", "ask")
    /\ job' = [job EXCEPT !["dialog"].snap = doc.content]
    /\ UNCHANGED <<fileVars, doc, saveVars, reads, askVars, countVars>>

\* reloadTabFromDisk: the read, ...
ReloadReads ==
    /\ pc["dialog"] = "load" /\ disk[Head(batch)] # None
    /\ GoTo("dialog", "loaded")
    /\ job' = [job EXCEPT !["dialog"].text = disk[Head(batch)]]
    /\ UNCHANGED <<fileVars, doc, saveVars, reads, askVars, countVars>>

\* ... which may fail, ...
ReloadFails ==
    /\ pc["dialog"] = "load" /\ disk[Head(batch)] = None
    /\ doc' = Missing(doc)
    /\ Return("dialog", Missing(doc))
    /\ UNCHANGED <<fileVars, saveVars, reads, queued, all, dropped, countVars>>

\* ... and what was read replaces whatever the editor holds by then.
Reloaded ==
    /\ pc["dialog"] = "loaded"
    /\ doc' = [LoadContent(job["dialog"].text, Head(batch)) EXCEPT !.isMissing = FALSE]
    /\ Return("dialog", LoadContent(job["dialog"].text, Head(batch)))
    /\ UNCHANGED <<fileVars, saveVars, reads, queued, all, dropped, countVars>>

-----------------------------------------------------------------------------
WriterTexts == [body : Written, eol : Eols]

FileStep ==
    \/ \E p \in Paths, t \in WriterTexts, k \in Kinds : OtherWrites(p, t, k)
    \/ \E p \in Paths, k \in Kinds : OtherDeletes(p, k)
    \/ \E p, q \in Paths : OtherRenames(p, q)
    \/ \E p \in Paths : Calm(p)
SaveStep ==
    \/ AutoSave \/ Save \/ McpSave \/ RemoveOld
    \/ \E a \in {"save", "move"} : SaveAs(a)
    \/ \E a \in {"save", "move", "dialog"} :
          Cancel(a) \/ \E p \in Paths : Pick(a, p)
    \/ \E a \in AllTasks : Saved(a) \/ WriteFails(a) \/ \E k \in Kinds : Persist(a, k)
    \/ \E t \in timers : ClearPending(t)
EventStep ==
    \/ \E e \in events : Deliver(e)
    \/ \E r \in reads : ReadFile(r) \/ Resume(r)
DialogStep ==
    \/ OpenDialog \/ ChooseSaveAs \/ ChooseReload \/ ChooseKeep \/ ReviewEach
    \/ ReloadReads \/ ReloadFails \/ Reloaded

Next == (\E b \in Typed : Edit(b)) \/ FileStep \/ SaveStep \/ EventStep \/ DialogStep

Spec == Init /\ [][Next]_vars

-----------------------------------------------------------------------------
(* Properties.                                                             *)

\* A document shown as saved has a text that some file has had: the dirty mark
\* goes only after the very text of the editor was written or read, whatever
\* was typed during the writes and however the five saves overlap.
CleanIsPersisted == ~doc.isDirty => doc.content \in persisted

\* The editor's text is replaced only by the user's edit, by a text that
\* differs in line endings, when it is on record in a file, or when the user
\* chose Reload: an event never discards what exists nowhere else.
NothingDiscarded ==
    [][doc'.content # doc.content =>
         \/ edits' # edits
         \/ SoftContentEquals(doc'.content, doc.content)
         \/ doc.content \in persisted
         \/ pc["dialog"] = "loaded"]_vars

\* The newest save, while its write is under way, is the one registered for its
\* path, whichever older saves end or fail and whichever timers run out.
NewestIsRegistered ==
    \A a \in AllTasks \ {"mcp"} :
        (/\ pc[a] \in {"write", "written"}
         /\ \A b \in AllTasks \ {"mcp"} : job[b].token <= job[a].token)
        => pend[job[a].path] = [content |-> job[a].text, token |-> job[a].token]

\* One file, whose events are handled within the code's pauses and are neither
\* suppressed nor reported as renames.
InTime ==
    /\ ~Late /\ ~Debounce /\ Kinds \subseteq {"modify"}
    /\ \A p \in Paths : p = Home

\* Nothing is under way.
Quiet ==
    /\ events = {} /\ reads = {} /\ queued = <<>>
    /\ \A a \in AllTasks : pc[a] = "idle"

\* When nothing is under way, a document without any mark says what its file
\* says (workspace-management.md:176) ...
InSync ==
    Quiet /\ ~doc.isDirty /\ ~doc.isMissing /\ ~doc.isDivergent
      => /\ disk[doc.filePath] # None
         /\ SoftContentEquals(doc.content, disk[doc.filePath])

\* ... or a change was dropped: the user was asked about one and left the
\* dialog without an answer, or another program wrote the very text that a save
\* had registered, which pendingSaves cannot tell from the save.  The saves' own
\* events are told from foreign ones otherwise, and no change is lost between
\* the listener, the dialog and the saves.
InSyncOrDropped == dropped \/ InSync

\* As long as auto-save alone has saved, the event of a text that it wrote
\* changes nothing in the editor and queues no question, whatever was typed,
\* and whichever changes other programs made, in between
\* (workspace-management.md:184).
OwnSaveFiltered ==
    \A r \in reads :
        /\ r.done /\ r.own /\ r \notin reads'
        /\ \A a \in AllTasks \ {"auto"} : job[a].token = 0 /\ pc[a] \notin {"write", "written"}
        => doc'.content = doc.content /\ queued' = queued
OwnSavesFiltered == [][OwnSaveFiltered]_vars

\* While a change by another program waits for the user's answer, auto-save
\* does not write over it (workspace-management.md:179).
AskedChangeSurvives ==
    [][\A p \in Paths :
         (/\ p \notin own
          /\ \/ \E i \in DOMAIN queued : queued[i] = p
             \/ pc["dialog"] \in {"ask", "askAll"} /\ Head(batch) = p)
         => ~(pc["auto"] = "write" /\ pc'["auto"] = "written" /\ job["auto"].path = p)]_vars
=============================================================================
