------------------------------ MODULE TabTransfer ------------------------------
(***************************************************************************)
(* Tabs moved between windows: dragged onto another window, dragged out or *)
(* sent to a new window, and brought back by the toast's Undo.             *)
(*                                                                         *)
(*   src/src/components/StatusBar/tabTransferActions.ts   the source       *)
(*   src/src/components/Tabs/useTabContextMenuActions.ts  "Move to New..." *)
(*   src/src/contexts/WindowContext.tsx                   the target       *)
(*   src/src-tauri/src/tab_transfer.rs                    the registry     *)
(*   src/src/stores/tabStore.ts                                            *)
(*                                                                         *)
(* Each await of the TypeScript code ends a step; a synchronous command of *)
(* the Rust side runs on the main thread and is one step.  A text is the   *)
(* number of the edit that made it.                                        *)
(***************************************************************************)
EXTENDS Naturals, FiniteSets, Sequences

CONSTANTS
    Main,       \* the main window
    Docs,       \* labels of document windows
    TabIds,     \* tab ids, which a move keeps
    Nothing,    \* no text, no payload
    MaxMoves,   \* bound: moves begun
    MaxTabEdits \* bound: edits

ASSUME MainIsNoDoc == Main \notin Docs
ASSUME TabsAreFinite == IsFiniteSet(TabIds) /\ TabIds # {}
ASSUME NothingIsNew == Nothing \notin Nat /\ Nothing \notin [tab : TabIds, text : Nat]
ASSUME BoundsAreNumbers == MaxMoves \in Nat /\ MaxTabEdits \in Nat

Labels == Docs \union {Main}
NewWindow == "new window"
ASSUME NewWindowIsNew == NewWindow \notin Labels
Payloads == [tab : TabIds, text : Nat]

VARIABLES
    stage,      \* of each window: "none", "loading", "claimed", "ready", "gone"
    text,       \* per window, the texts of the tabs it shows, or Nothing
    registry,   \* TRANSFER_REGISTRY: a payload per window, or Nothing
    events,     \* events on their way to a window
    applying,   \* payloads whose workspace a window is opening
    moves,      \* moves under way
    toasts,     \* Undo buttons on show
    undoing,    \* undos whose removal was asked for
    closing,    \* windows that asked for their own end
    movesBegun, tabEdits,   \* counters
    latest,     \* history: the last text the user gave a tab
    known       \* history: tabs that met one of the cases the code does not guard

windowVars == <<stage, text, registry, events, applying>>
moveVars == <<moves, toasts, undoing, movesBegun>>
historyVars == <<tabEdits, latest, known>>
transferVars == <<windowVars, moveVars, historyVars, closing>>

Shown(w) == {t \in TabIds : text[w][t] # Nothing}
Lives(w) == stage[w] \notin {"none", "gone"}

\* All tabs are in the main window, or some in a second one.
TransferInit ==
    \E there \in SUBSET TabIds, d \in Docs :
        /\ there # TabIds
        /\ stage = [w \in Labels |-> IF w = Main \/ (w = d /\ there # {}) THEN "ready" ELSE "none"]
        /\ text = [w \in Labels |-> [t \in TabIds |->
                     IF (w = d /\ t \in there) \/ (w = Main /\ t \notin there) THEN 0 ELSE Nothing]]
        /\ registry = [w \in Labels |-> Nothing] /\ events = [w \in Labels |-> <<>>]
        /\ applying = [w \in Labels |-> {}]
        /\ moves = {} /\ toasts = {} /\ undoing = {} /\ closing = {} /\ movesBegun = 0
        /\ tabEdits = 0 /\ latest = [t \in TabIds |-> 0] /\ known = {}

-----------------------------------------------------------------------------
(* Windows and their tabs. *)

\* An Undo of the tab's move is under way.
BroughtBack(t) ==
    \/ \E u \in undoing : u.tab = t
    \/ \E w \in Labels : \E i \in DOMAIN events[w] :
          events[w][i].kind = "remove" /\ events[w][i].tab = t

EditTab(w, t) ==
    /\ stage[w] = "ready" /\ t \in Shown(w) /\ tabEdits < MaxTabEdits
    /\ tabEdits' = tabEdits + 1
    /\ text' = [text EXCEPT ![w][t] = tabEdits + 1]
    /\ latest' = [latest EXCEPT ![t] = tabEdits + 1]
    /\ known' = IF (\E v \in Labels \ {w} : t \in Shown(v)) \/ BroughtBack(t)
                THEN known \union {t} ELSE known
    /\ UNCHANGED <<stage, registry, events, applying, moveVars, closing>>

\* createTransferredTab and initDocument: a tab that is there gets the text.
Shows(w, p) == text' = [text EXCEPT ![w][p.tab] = p.text]

\* detachTab, cleanupTabState, and the end of a document window left empty.
Drops(w, t) ==
    /\ text' = [text EXCEPT ![w][t] = Nothing]
    /\ closing' = IF Shown(w) \ {t} = {} /\ w # Main THEN closing \union {w} ELSE closing

\* A window ends, with its listeners, continuations and toasts.
Ends(w) ==
    /\ stage' = [stage EXCEPT ![w] = "gone"]
    /\ registry' = [registry EXCEPT ![w] = Nothing]
    /\ text' = [text EXCEPT ![w] = [t \in TabIds |-> Nothing]]
    /\ events' = [events EXCEPT ![w] = <<>>] /\ applying' = [applying EXCEPT ![w] = {}]
    /\ moves' = {m \in moves : m.from # w} /\ toasts' = {u \in toasts : u.from # w}
    /\ undoing' = {u \in undoing : u.from # w}
    /\ closing' = closing \ {w}

\* What would be lost with a window: its texts, what is on its way to it, and
\* what it is about to bring back.
Carried(w) ==
    Shown(w) \union {p.tab : p \in applying[w]} \union {u.tab : u \in {v \in undoing : v.from = w}}
        \union {events[w][i].tab : i \in DOMAIN events[w]}
        \union (IF registry[w] = Nothing THEN {} ELSE {registry[w].tab})

\* close_window for a window that its last tab has left.
EmptyCloses(w) ==
    /\ w \in closing /\ Ends(w)
    /\ known' = known \union Carried(w)
    /\ UNCHANGED <<movesBegun, tabEdits, latest>>

\* The user closes a document window, whatever it holds.
UserCloses(w) ==
    /\ w \in Docs /\ Lives(w) /\ Ends(w)
    /\ known' = known \union Carried(w)
    /\ UNCHANGED <<movesBegun, tabEdits, latest>>

-----------------------------------------------------------------------------
(* The source. *)

\* transferTabFromDragOut and handleMoveToNewWindow take the text now; the last
\* tab of the main window stays.
BeginMove(w, t, to) ==
    /\ stage[w] = "ready" /\ t \in Shown(w) /\ movesBegun < MaxMoves
    /\ w = Main => Cardinality(Shown(w)) > 1
    /\ movesBegun' = movesBegun + 1
    /\ moves' = moves \union
         {[no |-> movesBegun + 1, from |-> w, tab |-> t, text |-> text[w][t], to |-> to, sent |-> FALSE]}
    /\ known' = IF (\E m \in moves : m.tab = t) \/ BroughtBack(t) THEN known \union {t} ELSE known
    /\ UNCHANGED <<windowVars, toasts, undoing, closing, tabEdits, latest>>

\* A drag ends over another window, the context menu and a drag to nowhere ask
\* for a new one.
Targets(w) == {v \in Labels \ {w} : Lives(v)} \union {NewWindow}

Payload(m) == [tab |-> m.tab, text |-> m.text]

\* Only a listener that is registered hears an event.
Emit(w, event) ==
    events' = IF stage[w] = "ready" THEN [events EXCEPT ![w] = Append(@, event)] ELSE events

\* transfer_tab_to_existing_window
Send(m) ==
    /\ ~m.sent /\ m.to \in Labels
    /\ IF Lives(m.to)
       THEN /\ Emit(m.to, [kind |-> "transfer", tab |-> m.tab, text |-> m.text])
            /\ moves' = (moves \ {m}) \union {[m EXCEPT !.sent = TRUE]}
            /\ known' = IF stage[m.to] = "ready" THEN known ELSE known \union {m.tab}
       ELSE moves' = moves \ {m} /\ UNCHANGED <<events, known>>
    /\ UNCHANGED <<stage, text, registry, applying, toasts, undoing, movesBegun, closing, tabEdits, latest>>

\* Mutant of Detach: the registry is keyed by the source's label.
DetachMisfiled(m, d) ==
    /\ ~m.sent /\ m.to = NewWindow /\ stage[d] = "none"
    /\ stage' = [stage EXCEPT ![d] = "loading"]
    /\ registry' = [registry EXCEPT ![m.from] = Payload(m)]
    /\ moves' = (moves \ {m}) \union {[m EXCEPT !.sent = TRUE, !.to = d]}
    /\ UNCHANGED <<text, events, applying, toasts, undoing, movesBegun, closing, historyVars>>

\* detach_tab_to_new_window: the window's page asks for its tab from the main
\* thread, after this command.
Detach(m, d) ==
    /\ ~m.sent /\ m.to = NewWindow /\ stage[d] = "none"
    /\ stage' = [stage EXCEPT ![d] = "loading"]
    /\ registry' = [registry EXCEPT ![d] = Payload(m)]
    /\ moves' = (moves \ {m}) \union {[m EXCEPT !.sent = TRUE, !.to = d]}
    /\ UNCHANGED <<text, events, applying, toasts, undoing, movesBegun, closing, historyVars>>

\* The window cannot be created: the tab stays.
DetachFails(m) ==
    /\ ~m.sent /\ m.to = NewWindow
    /\ moves' = moves \ {m}
    /\ UNCHANGED <<windowVars, toasts, undoing, movesBegun, closing, historyVars>>

\* Mutant of Finish: the tab stays in its window.
FinishKeeps(m) ==
    /\ m.sent
    /\ moves' = moves \ {m} /\ toasts' = toasts \union {m}
    /\ UNCHANGED <<windowVars, undoing, movesBegun, closing, historyVars>>

\* The source goes on: the toast, and the tab leaves with what it holds by now.
Finish(m) ==
    /\ m.sent
    /\ moves' = moves \ {m} /\ toasts' = toasts \union {m}
    /\ Drops(m.from, m.tab)
    /\ known' = IF text[m.from][m.tab] \in {m.text, Nothing} THEN known ELSE known \union {m.tab}
    /\ UNCHANGED <<stage, registry, events, applying, undoing, movesBegun, tabEdits, latest>>

\* Is the moved tab still on its way?
OnItsWay(m) ==
    \/ registry[m.to] = Payload(m)
    \/ Payload(m) \in applying[m.to]
    \/ \E i \in DOMAIN events[m.to] : events[m.to][i].kind = "transfer" /\ events[m.to][i].tab = m.tab

\* The target shows the tab as it was moved, and nothing is under way with it.
Settled(u) ==
    /\ stage[u.to] = "ready" /\ text[u.to][u.tab] = u.text
    /\ ~OnItsWay(u) /\ ~BroughtBack(u.tab) /\ ~\E m \in moves : m.tab = u.tab

\* Undo: remove_tab_from_window, which fails when the window is gone.
Undo(u) ==
    /\ u \in toasts /\ toasts' = toasts \ {u}
    /\ IF Lives(u.to)
       THEN /\ undoing' = undoing \union {u}
            /\ Emit(u.to, [kind |-> "remove", tab |-> u.tab, text |-> 0])
            /\ known' = IF Settled(u) THEN known ELSE known \union {u.tab}
       ELSE UNCHANGED <<undoing, events, known>>
    /\ UNCHANGED <<stage, text, registry, applying, moves, movesBegun, closing, tabEdits, latest>>

\* Mutant of Restore: the removal is taken for the whole of the undo.
RestoreNothing(u) ==
    /\ u \in undoing /\ undoing' = undoing \ {u}
    /\ UNCHANGED <<windowVars, moves, toasts, movesBegun, closing, historyVars>>

\* restoreTransferredTab goes on: the tab comes back with the text it left with.
Restore(u) ==
    /\ u \in undoing /\ undoing' = undoing \ {u}
    /\ Shows(u.from, u)
    /\ UNCHANGED <<stage, registry, events, applying, moves, toasts, movesBegun, closing, historyVars>>

-----------------------------------------------------------------------------
(* The target. *)

\* Mutant of Claim: what was claimed is not kept for the page.
ClaimForgets(w) ==
    /\ stage[w] = "loading" /\ registry[w] # Nothing
    /\ stage' = [stage EXCEPT ![w] = "claimed"]
    /\ registry' = [registry EXCEPT ![w] = Nothing]
    /\ UNCHANGED <<text, events, applying, moveVars, closing, historyVars>>

\* claim_tab_transfer, by the page of a window made for a tab
Claim(w) ==
    /\ stage[w] = "loading" /\ registry[w] # Nothing
    /\ stage' = [stage EXCEPT ![w] = "claimed"]
    /\ applying' = [applying EXCEPT ![w] = {registry[w]}]
    /\ registry' = [registry EXCEPT ![w] = Nothing]
    /\ UNCHANGED <<text, events, moveVars, closing, historyVars>>

\* applyTabTransferData: the workspace is open, the tab appears.
Apply(w, p) ==
    /\ p \in applying[w]
    /\ applying' = [applying EXCEPT ![w] = @ \ {p}]
    /\ Shows(w, p)
    /\ known' = IF text[w][p.tab] \in {Nothing, p.text} THEN known ELSE known \union {p.tab}
    /\ UNCHANGED <<stage, registry, events, moveVars, closing, tabEdits, latest>>

\* The listeners of the page are registered.
Listen(w) ==
    /\ stage[w] = "claimed" /\ applying[w] = {}
    /\ stage' = [stage EXCEPT ![w] = "ready"]
    /\ UNCHANGED <<text, registry, events, applying, moveVars, closing, historyVars>>

\* tab:transfer and tab:remove-by-id
HearEvent(w) ==
    /\ events[w] # <<>> /\ events' = [events EXCEPT ![w] = Tail(@)]
    /\ \/ /\ Head(events[w]).kind = "transfer"
          /\ applying' = [applying EXCEPT ![w] = @ \union {Payload(Head(events[w]))}]
          /\ UNCHANGED <<text, closing>>
       \/ /\ Head(events[w]).kind = "remove"
          /\ Drops(w, Head(events[w]).tab)
          /\ UNCHANGED applying
    /\ UNCHANGED <<stage, registry, moveVars, historyVars>>

-----------------------------------------------------------------------------
TransferNext ==
    \/ \E w \in Labels :
          \/ EmptyCloses(w) \/ UserCloses(w) \/ Claim(w) \/ Listen(w) \/ HearEvent(w)
          \/ \E p \in applying[w] : Apply(w, p)
          \/ \E t \in TabIds : EditTab(w, t) \/ \E to \in Targets(w) : BeginMove(w, t, to)
    \/ \E m \in moves : Send(m) \/ DetachFails(m) \/ Finish(m) \/ \E d \in Docs : Detach(m, d)
    \/ \E u \in toasts : Undo(u)
    \/ \E u \in undoing : Restore(u)

TransferSpec == TransferInit /\ [][TransferNext]_transferVars

\* Pages run, and the main thread answers.
TransferFairSpec == TransferSpec /\ \A w \in Labels :
    /\ WF_transferVars(Claim(w)) /\ WF_transferVars(Listen(w)) /\ WF_transferVars(HearEvent(w))
    /\ WF_transferVars(\E p \in applying[w] : Apply(w, p))
    /\ WF_transferVars(EmptyCloses(w))

-----------------------------------------------------------------------------
Move == [no : Nat, from : Labels, tab : TabIds, text : Nat,
         to : Labels \union {NewWindow}, sent : BOOLEAN]
Event == [kind : {"transfer", "remove"}, tab : TabIds, text : Nat]

\* Every variable keeps its type.
TransferTypeOK ==
    /\ stage \in [Labels -> {"none", "loading", "claimed", "ready", "gone"}]
    /\ text \in [Labels -> [TabIds -> Nat \union {Nothing}]]
    /\ registry \in [Labels -> Payloads \union {Nothing}]
    /\ events \in [Labels -> Seq(Event)]
    /\ applying \in [Labels -> SUBSET Payloads]
    /\ moves \subseteq Move /\ toasts \subseteq Move /\ undoing \subseteq Move
    /\ closing \subseteq Docs /\ movesBegun \in Nat /\ tabEdits \in Nat
    /\ latest \in [TabIds -> Nat] /\ known \subseteq TabIds

\* Where a text may be: in a window, on its way, or with the Undo that holds it.
Holds(t) ==
    {text[w][t] : w \in Labels}
      \union {p.text : p \in {q \in UNION {applying[w] : w \in Labels} : q.tab = t}}
      \union {registry[w].text : w \in {v \in Labels : registry[v] # Nothing /\ registry[v].tab = t}}
      \union {u.text : u \in {v \in undoing : v.tab = t}}
      \union UNION {{events[w][i].text : i \in {j \in DOMAIN events[w] :
                        events[w][j].kind = "transfer" /\ events[w][j].tab = t}} : w \in Labels}

\* Moving a tab loses no text (tabTransferActions.ts:10): the user's last text
\* of a tab is in a window or on its way to one, unless the tab was edited
\* while it moved, sent to a window that does not listen, moved twice at once,
\* undone after an edit or on its way, or went with a window that was closed.
MovedTextIsKept == \A t \in TabIds \ known : latest[t] \in Holds(t)

\* A tab is in one window, except while it moves or is brought back.
OneCopy ==
    \A t \in TabIds \ known :
        \/ Cardinality({w \in Labels : t \in Shown(w)}) <= 1
        \/ \E m \in moves : m.tab = t
        \/ BroughtBack(t)

\* Unless it is closed, the window made for a tab shows it in the end.
DetachedIsShown ==
    \A d \in Docs : stage[d] = "loading" ~> stage[d] = "gone" \/ (stage[d] = "ready" /\ Shown(d) # {})
=============================================================================
