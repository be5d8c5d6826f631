---------------------------- MODULE McpDocuments ----------------------------
(***************************************************************************)
(* One window's documents as the user and the AI clients change them: the  *)
(* text in the document store, the text in the editor of the active tab,   *)
(* which reaches the store a frame or a debounce later                     *)
(* (components/Editor/TiptapEditor.tsx), the one revision of the window    *)
(* that a client's write is checked against (stores/revisionStore.ts), the *)
(* handlers that read, write, transform and patch                          *)
(* (hooks/mcpBridge/v2/document.ts, selection.ts, workflow.ts) and the     *)
(* texts they replaced, which the user can put back                        *)
(* (stores/mcpCheckpointStore.ts, components/McpHistory).                  *)
(*                                                                         *)
(* A text is known by the tab it was made for and a number, 0 for the one  *)
(* read from disk.                                                         *)
(***************************************************************************)
EXTENDS Naturals, Sequences, Functions

CONSTANTS
    Tabs,           \* the open tabs
    Clients,        \* AI clients
    Nothing,        \* what a client knows before its first read; no text
    MaxTexts,       \* bound: texts typed or written
    MaxRestores,    \* bound: checkpoints put back
    Limit           \* CHECKPOINT_PER_ANCHOR_LIMIT

ASSUME BoundsAssumption == MaxTexts \in Nat /\ MaxRestores \in Nat /\ Limit \in Nat \ {0}
ASSUME NothingAssumption == Nothing \notin Tabs

Texts == [of : Tabs, no : 0 .. MaxTexts]
Revisions == 0 .. MaxTexts + MaxRestores

VARIABLES
    yaml,       \* the tabs that hold a workflow, edited as source only
    active,     \* the active tab
    source,     \* source mode
    store,      \* the text of every tab in the document store
    shown,      \* the text in the editor of the active tab
    synced,     \* the text the editor last took from or gave to the store
    pending,    \* a flush of the editor is due
    internal,   \* the frame after a flush: changes of the store are ignored
    revision,   \* the revision of the window
    heard,      \* what a client last learned: a tab, its text and the revision
    kept,       \* the replaced texts of every tab, newest first
    texts,      \* texts made so far
    restores,   \* checkpoints put back so far
    typed,      \* history: the last text typed into every tab, until a listed
                \* exception meets it
    missed,     \* history: the editor ignored the last change of the store
    tracked,    \* history: the tabs whose text in the store has a revision
    unread      \* history: what the last step, a write that named its revision,
                \* replaced without the client having heard it

docs == <<yaml, active, source>>
editor == <<shown, synced, pending, internal, missed>>
mcp == <<revision, heard, kept>>
history == <<typed, tracked>>
vars == <<docs, store, editor, mcp, texts, restores, history, unread>>

(* The editor of the active tab is the rich-text one, which lags the store. *)
Wysiwyg == ~source /\ active \notin yaml

Fresh(tab) == [of |-> tab, no |-> texts + 1]

(* A text joins the replaced ones of its tab; the oldest beyond the limit go. *)
Retained(replaced) == SubSeq(replaced, 1, IF Len(replaced) < Limit THEN Len(replaced) ELSE Limit)
Push(t, text) == kept' = [kept EXCEPT ![t] = Retained(<<text>> \o @)]

(* The texts of a tab that retention drops when one more is pushed. *)
Dropped(t) == IF Len(kept[t]) >= Limit THEN {kept[t][Limit]} ELSE {}

(* The tabs whose typed text is no longer promised to be kept. *)
Forget(gone) == typed' = [t \in Tabs |-> IF t \in gone THEN Nothing ELSE typed[t]]

-----------------------------------------------------------------------------
Init ==
    /\ yaml \in SUBSET Tabs
    /\ active \in Tabs
    /\ source = FALSE
    /\ store = [t \in Tabs |-> [of |-> t, no |-> 0]]
    /\ shown = store[active]
    /\ synced = shown
    /\ pending = FALSE
    /\ internal = FALSE
    /\ missed = FALSE
    /\ revision = 0
    /\ heard = [c \in Clients |-> Nothing]
    /\ kept = [t \in Tabs |-> <<>>]
    /\ texts = 0
    /\ restores = 0
    /\ typed = [t \in Tabs |-> Nothing]
    /\ tracked = Tabs
    /\ unread = "none"

-----------------------------------------------------------------------------
(* The user types. The rich-text editor gives the text to the store at its  *)
(* next flush; a source editor does so at once.                             *)
Type ==
    /\ texts < MaxTexts
    /\ LET text == Fresh(active)
       IN  /\ shown' = text
           /\ typed' = [typed EXCEPT ![active] = text]
           /\ IF Wysiwyg
              THEN pending' = TRUE /\ UNCHANGED <<store, synced, tracked>>
              ELSE /\ store' = [store EXCEPT ![active] = text]
                   /\ synced' = text
                   /\ tracked' = tracked \ {active}
                   /\ UNCHANGED pending
    /\ texts' = texts + 1
    /\ unread' = "none"
    /\ UNCHANGED <<docs, internal, missed, mcp, restores>>

(* The tabs whose text has a revision once the editor's goes to tab t. *)
Untracked(t) == IF store[t] = shown THEN tracked ELSE tracked \ {t}

(* The flush that is due runs. *)
Flush ==
    /\ pending
    /\ store' = [store EXCEPT ![active] = shown]
    /\ synced' = shown
    /\ internal' = TRUE
    /\ pending' = FALSE
    /\ missed' = FALSE
    /\ tracked' = Untracked(active)
    /\ unread' = "none"
    /\ UNCHANGED <<docs, shown, mcp, texts, restores, typed>>

(* The next frame: the editor listens to the store again. *)
Frame ==
    /\ internal
    /\ internal' = FALSE
    /\ unread' = "none"
    /\ UNCHANGED <<docs, store, shown, synced, pending, missed, mcp, texts, restores, history>>

(* Mutant of Mounted: the new editor keeps the text it was created with. *)
MountedSnapshot(t) == store[t]

(* The text that the editor of a tab starts with: it was created before the *)
(* old editor's last flush, and looks at the store again.                   *)
Mounted(t) == store'[t]

(* Another tab becomes active, by the user or by a client. The editor of    *)
(* the old tab is unmounted; a flush still due runs then, and goes to the   *)
(* tab that is active by now. The editor of the new tab shows its store.    *)
Switch(t) ==
    /\ t # active
    /\ active' = t
    /\ store' = IF pending THEN [store EXCEPT ![t] = shown] ELSE store
    /\ shown' = Mounted(t)
    /\ synced' = Mounted(t)
    /\ pending' = FALSE
    /\ internal' = FALSE
    /\ missed' = FALSE
    /\ Forget(IF pending THEN {active, t} ELSE {})
    /\ tracked' = IF pending THEN Untracked(t) ELSE tracked
    /\ unread' = "none"
    /\ UNCHANGED <<yaml, source, mcp, texts, restores>>

(* The user toggles source mode, refused for a workflow. What is due is     *)
(* flushed first.                                                           *)
ToggleMode ==
    /\ active \notin yaml
    /\ source' = ~source
    /\ store' = IF source THEN store ELSE [store EXCEPT ![active] = shown]
    /\ shown' = store'[active]
    /\ synced' = store'[active]
    /\ pending' = FALSE
    /\ internal' = FALSE
    /\ missed' = FALSE
    /\ tracked' = IF source THEN tracked ELSE Untracked(active)
    /\ unread' = "none"
    /\ UNCHANGED <<yaml, active, mcp, texts, restores, typed>>

-----------------------------------------------------------------------------
(* tmark.document.read: the store's text and the revision. *)
Read(c, t) ==
    /\ heard' = [heard EXCEPT ![c] = [tab |-> t, text |-> store[t], revision |-> revision]]
    /\ unread' = "none"
    /\ UNCHANGED <<docs, store, editor, revision, kept, texts, restores, history>>

(* Mutant of Accepted: the revision is not compared. *)
AcceptedAnyway(c, t, expected) == expected => heard[c] # Nothing /\ heard[c].tab = t

(* A request that names a revision is refused as STALE unless it is the     *)
(* window's. The client names the one of the tab it last heard of.          *)
Accepted(c, t, expected) ==
    expected => /\ heard[c] # Nothing
                /\ heard[c].tab = t
                /\ heard[c].revision = revision

(* What the client heard last is what it now wrote. *)
Answer(c, t, text) ==
    heard' = [heard EXCEPT ![c] = [tab |-> t, text |-> text, revision |-> revision']]

(* Whether the text of tab t is one that the client has not heard. *)
Unread(c, t) ==
    IF store[t] = heard[c].text THEN "none"
    ELSE IF t \in tracked THEN "tracked" ELSE "untracked"

(* tmark.document.write and .transform of tab t. With a rich-text editor on *)
(* screen and a document that is not a workflow, writeContent also puts the *)
(* text into that editor, whose flush is due then, and leaves the revision  *)
(* to a listener; otherwise it makes a new revision.                        *)
Write(c, t, expected) ==
    /\ texts < MaxTexts
    /\ Accepted(c, t, expected)
    /\ LET bound == Wysiwyg /\ t \notin yaml
           text  == Fresh(t)
       IN  /\ store' = [store EXCEPT ![t] = text]
           /\ shown' = IF bound \/ t = active THEN text ELSE shown
           /\ synced' = IF t = active /\ ~internal THEN text ELSE synced
           /\ pending' = (pending \/ bound)
           /\ missed' = (missed /\ t # active)
           /\ revision' = IF bound THEN revision ELSE revision + 1
           /\ tracked' = IF bound THEN tracked \ {t} ELSE tracked \cup {t}
           /\ Forget({u \in Tabs : \/ u = active /\ bound /\ (pending \/ u # t)
                                   \/ u = t /\ typed[t] \in Dropped(t)})
           /\ Answer(c, t, text)
    /\ Push(t, store[t])
    /\ unread' = IF expected THEN Unread(c, t) ELSE "none"
    /\ texts' = texts + 1
    /\ UNCHANGED <<docs, internal, restores>>

(* tmark.workflow.apply_patch: refused unless the tab holds a workflow. *)
ApplyPatch(c, t, expected) ==
    /\ texts < MaxTexts
    /\ t \in yaml
    /\ Accepted(c, t, expected)
    /\ revision' = revision + 1
    /\ LET text == Fresh(t)
       IN  /\ store' = [store EXCEPT ![t] = text]
           /\ IF t = active
              THEN shown' = text /\ synced' = text
              ELSE UNCHANGED <<shown, synced>>
           /\ Answer(c, t, text)
    /\ Push(t, store[t])
    /\ unread' = IF expected THEN Unread(c, t) ELSE "none"
    /\ tracked' = tracked \cup {t}
    /\ Forget({u \in {t} : typed[u] \in Dropped(u)})
    /\ texts' = texts + 1
    /\ UNCHANGED <<docs, pending, internal, missed, restores>>

(* Mutant of Live: the replaced text is the store's. *)
LiveInStore == store[active]

(* The text that the selection is part of: the editor's, not the store's. *)
Live == shown

(* tmark.selection.set on the active tab: the replaced text is the          *)
(* editor's own, and both the editor and the store get the new one.         *)
SelectionSet(c, expected) ==
    /\ texts < MaxTexts
    /\ Accepted(c, active, expected)
    /\ revision' = revision + 1
    /\ LET text == Fresh(active)
       IN  /\ shown' = text
           /\ store' = [store EXCEPT ![active] = text]
           /\ synced' = IF internal THEN synced ELSE text
           /\ Answer(c, active, text)
    /\ Push(active, Live)
    /\ pending' = (pending \/ Wysiwyg)
    /\ missed' = FALSE
    /\ Forget({u \in {active} : typed[u] \in Dropped(u)})
    /\ tracked' = tracked \cup {active}
    /\ texts' = texts + 1
    /\ unread' = "none"
    /\ UNCHANGED <<docs, internal, restores>>

-----------------------------------------------------------------------------
(* The user puts a replaced text of the active tab back. The editor takes   *)
(* it from the store, unless a flush was just made or it holds this text to *)
(* be the last one it shared.                                               *)
Restore(text) ==
    /\ restores < MaxRestores
    /\ text \in Range(kept[active])
    /\ text # store[active]
    /\ store' = [store EXCEPT ![active] = text]
    /\ revision' = revision + 1
    /\ IF Wysiwyg /\ (internal \/ text = synced)
       THEN /\ missed' = (text # shown)
            /\ UNCHANGED <<shown, synced>>
       ELSE /\ shown' = text
            /\ synced' = text
            /\ missed' = FALSE
    /\ Forget({active})
    /\ tracked' = tracked \cup {active}
    /\ restores' = restores + 1
    /\ unread' = "none"
    /\ UNCHANGED <<docs, pending, internal, heard, kept, texts>>

(* The user clears the replaced texts of the active tab. *)
Clear ==
    /\ kept[active] # <<>>
    /\ kept' = [kept EXCEPT ![active] = <<>>]
    /\ Forget({active})
    /\ unread' = "none"
    /\ UNCHANGED <<docs, store, editor, revision, heard, texts, restores, tracked>>

-----------------------------------------------------------------------------
User == Type \/ ToggleMode \/ (\E t \in Tabs : Switch(t))
        \/ (\E t \in Tabs : \E text \in Range(kept[t]) : Restore(text)) \/ Clear

Client(c) ==
    \E t \in Tabs, expected \in BOOLEAN :
        \/ Read(c, t)
        \/ Write(c, t, expected)
        \/ ApplyPatch(c, t, expected)
        \/ SelectionSet(c, expected)

Next == User \/ Flush \/ Frame \/ \E c \in Clients : Client(c)

Spec == Init /\ [][Next]_vars

-----------------------------------------------------------------------------
(* Every variable has its type, and no tab keeps more replaced texts than   *)
(* the limit (applyRetention).                                              *)
TypeOK ==
    /\ yaml \subseteq Tabs /\ active \in Tabs /\ source \in BOOLEAN
    /\ store \in [Tabs -> Texts] /\ shown \in Texts /\ synced \in Texts
    /\ pending \in BOOLEAN /\ internal \in BOOLEAN /\ missed \in BOOLEAN
    /\ revision \in Revisions
    /\ heard \in [Clients -> {Nothing} \cup [tab : Tabs, text : Texts, revision : Revisions]]
    /\ kept \in [Tabs -> Seq(Texts)] /\ \A t \in Tabs : Len(kept[t]) <= Limit
    /\ texts \in 0 .. MaxTexts /\ restores \in 0 .. MaxRestores
    /\ typed \in [Tabs -> {Nothing} \cup Texts] /\ tracked \subseteq Tabs
    /\ unread \in {"none", "tracked", "untracked"}

(* With no flush due, the editor shows what the store holds, which is what  *)
(* is saved and what a client reads; the exception is a change of the store *)
(* in the frame after a flush, which the editor ignores                     *)
(* (TiptapEditor.tsx:543).                                                  *)
EditorAgrees == ~pending /\ ~missed => shown = store[active]

(* What the user last typed into a tab is not gone: it is in the editor, in *)
(* the store, or among the replaced texts. The exceptions, which Forget     *)
(* names: a switch with a flush due, a client's write into the editor of    *)
(* keystrokes not flushed or of another tab, a restore, and a history that  *)
(* is cleared or full.                                                      *)
TypedIsKept ==
    \A t \in Tabs : typed[t] # Nothing =>
        \/ typed[t] = store[t]
        \/ t = active /\ typed[t] = shown
        \/ typed[t] \in Range(kept[t])

(* A client that names the revision it read replaces no text that another   *)
(* client made under a newer revision, or that the user put back: the check *)
(* and the change are one step, whichever of the handlers runs. Typed text, *)
(* text written into the rich-text editor and whatever else comes from a    *)
(* flush get no revision of their own.                                      *)
TrackedIsSafe == unread # "tracked"

(* A flush at the end of an editor keeps the keystrokes that only it holds  *)
(* (TiptapEditor.tsx:445): they never replace the text of another tab.      *)
OwnText == \A t \in Tabs : store[t].of = t

(* The check of the revision refuses a write by a client that has not seen  *)
(* the text it would replace (revisionStore.ts:11).                         *)
StaleIsRefused == unread = "none"

(* A write keeps the editor in step with the document it is about           *)
(* (document.ts:158): the editor of the active tab holds that tab's text.   *)
EditorShowsItsTab == shown.of = active
=============================================================================
