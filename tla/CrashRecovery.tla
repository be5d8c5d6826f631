---------------------------- MODULE CrashRecovery ----------------------------
(***************************************************************************)
(* Crash recovery: each window writes a snapshot of every dirty document   *)
(* at intervals, deletes it when the document is clean or closed, and the  *)
(* main window of the next process offers what it finds                    *)
(* (src/utils/crashRecovery.ts and the three useCrashRecovery hooks).      *)
(*                                                                         *)
(* A snapshot is visible from the rename that ends its write, a deletion   *)
(* is asked for by a callback and done some time later: both are steps of  *)
(* their own.  The webviews of a process share its files and nothing else. *)
(***************************************************************************)
EXTENDS Naturals, FiniteSets, Functions

CONSTANTS
    Windows, Main,      \* windows, and the one that recovers
    Paths, NoPath,      \* files, and the path of an untitled document
    Texts, Empty,       \* texts of documents, and the empty one
    OnFile(_),          \* the text that a path is opened with
    Hash(_),            \* simpleHash
    Leftovers,          \* what earlier processes may have left: sets of snapshots
    OldTabs, MaxTabs,   \* the tabs of earlier processes, and of all
    MaxEdits,           \* bound on edits and moves
    MaxEnds,            \* bound on the ends of a process
    MaxFailures,        \* bound on file operations and restores that fail
    Weeks               \* whether a week may pass before a start

ASSUME MainIsWindow == Main \in Windows
ASSUME NoPathIsNone == NoPath \notin Paths
ASSUME EmptyIsText == Empty \in Texts
ASSUME FilesHoldTexts == \A p \in Paths : OnFile(p) \in Texts
ASSUME TabsAreNumbers == OldTabs \in Nat /\ MaxTabs \in Nat /\ OldTabs <= MaxTabs
ASSUME BoundsAreNumbers == MaxEdits \in Nat /\ MaxEnds \in Nat /\ MaxFailures \in Nat

Tabs == 1..MaxTabs      \* ids are random: those of earlier processes never recur

Snapshots ==
    [win : Windows, tab : Tabs, text : Texts, path : Paths \union {NoPath}, time : Nat]

\* A tab has one snapshot, the times are those of earlier ticks.
ASSUME LeftoversAreOld ==
    \A past \in Leftovers :
        /\ past \subseteq [win : Windows, tab : 1..OldTabs, text : Texts,
                           path : Paths \union {NoPath}, time : 1..OldTabs]
        /\ \A r, s \in past : r.tab = s.tab \/ r.time = s.time => r = s

VARIABLES
    files,                  \* the snapshots on disk
    doc, next,              \* open documents by tab; the next tab's id
    inPass, left, writing,  \* windows with writingRef; tabs their passes have
                            \* still to look at; snapshots being written
    lastHash,               \* lastHashRef, by window and tab
    deletes,                \* deletions asked for and not done
    clock,                  \* Date.now(), one tick per snapshot
    phase, toRead, got,     \* how far the recovery is; the names it has still to
                            \* read; what it has read
    todo, clearing, drops,  \* what it has to restore, the snapshot it deletes
                            \* now, the duplicates it deletes at the end
    edits, ends, failures,  \* counters for the bounds
    found, shown, kept, old \* history: the snapshots on disk at the start; those
                            \* restored, not restorable, and too old

docVars == <<doc, next, edits>>
writeVars == <<inPass, left, writing, lastHash, clock>>
recoveryVars == <<phase, toRead, got, todo, clearing, drops, shown, kept, old>>
vars == <<files, docVars, writeVars, deletes, recoveryVars, ends, failures, found>>

-----------------------------------------------------------------------------
Init ==
    /\ files \in Leftovers /\ found = files
    /\ doc = << >> /\ next = OldTabs + 1
    /\ inPass = {} /\ left = {} /\ writing = {}
    /\ lastHash = << >> /\ deletes = [t \in Tabs |-> 0] /\ clock = OldTabs
    /\ phase = "waiting" /\ toRead = {} /\ got = {} /\ todo = {} /\ clearing = {} /\ drops = {}
    /\ edits = 0 /\ ends = 0 /\ failures = 0
    /\ shown = {} /\ kept = {} /\ old = {}

Open == DOMAIN doc
Dirty(t) == t \in Open /\ doc[t].text # doc[t].saved

\* The snapshot of tab t is removed.
Without(t) == {s \in files : s.tab # t}

\* A further operation on a file fails.
Fails == failures < MaxFailures /\ failures' = failures + 1

-----------------------------------------------------------------------------
(* The process *)

\* The process ends, killed or after beforeunload has begun to delete the
\* snapshots of the windows' tabs, which it gets to as far as it gets; and the
\* next process starts.
Restart ==
    /\ ends < MaxEnds /\ ends' = ends + 1
    /\ \E gone \in SUBSET Open : files' = {s \in files : s.tab \notin gone}
    /\ found' = files'
    /\ doc' = << >> /\ lastHash' = << >>
    /\ inPass' = {} /\ left' = {} /\ writing' = {}
    /\ deletes' = [t \in Tabs |-> 0]
    /\ phase' = "waiting" /\ toRead' = {} /\ got' = {} /\ todo' = {} /\ clearing' = {} /\ drops' = {}
    /\ shown' = {} /\ kept' = {} /\ old' = {}
    /\ UNCHANGED <<next, clock, edits, failures>>

-----------------------------------------------------------------------------
(* Documents, and useCrashRecoveryCleanup *)

NewDoc(w, text, saved, path) == [win |-> w, text |-> text, saved |-> saved, path |-> path]

Add(t, d) == [u \in Open \union {t} |-> IF u = t THEN d ELSE doc[u]]

OpenTab(w, p) ==
    /\ next \in Tabs
    /\ LET text == IF p = NoPath THEN Empty ELSE OnFile(p)
       IN doc' = Add(next, NewDoc(w, text, text, p))
    /\ next' = next + 1
    /\ UNCHANGED <<files, edits, writeVars, deletes, recoveryVars, ends, failures, found>>

\* Cleanup when a tab goes, or when its document gets clean
Ask(t) == deletes' = [deletes EXCEPT ![t] = @ + 1]

\* Mutant of Cleaned: only closed tabs are cleaned up.
CleanedNever(t, d) == UNCHANGED deletes

Cleaned(t, d) == IF Dirty(t) /\ d.text = d.saved THEN Ask(t) ELSE UNCHANGED deletes

\* A document gets the text or the saved text of d.
Becomes(t, d) ==
    /\ doc' = [doc EXCEPT ![t] = d]
    /\ Cleaned(t, d)
    /\ UNCHANGED <<files, next, writeVars, recoveryVars, ends, failures, found>>

Edit(t, text) ==
    /\ t \in Open /\ text # doc[t].text
    /\ edits < MaxEdits /\ edits' = edits + 1
    /\ Becomes(t, [doc[t] EXCEPT !.text = text])

\* An untitled document gets a path with its first save.
Save(t) ==
    /\ Dirty(t)
    /\ \E p \in IF doc[t].path = NoPath THEN Paths ELSE {doc[t].path} :
          Becomes(t, [doc[t] EXCEPT !.saved = doc[t].text, !.path = p])
    /\ UNCHANGED edits

CloseTab(t) ==
    /\ t \in Open
    /\ doc' = Restrict(doc, Open \ {t})
    /\ Ask(t)
    /\ UNCHANGED <<files, next, edits, writeVars, recoveryVars, ends, failures, found>>

\* A tab that goes to another window keeps its id: the window it leaves asks for
\* the deletion of the snapshot that the other writes under the same name.
Move(t, w) ==
    /\ t \in Open /\ w # doc[t].win
    /\ edits < MaxEdits /\ edits' = edits + 1
    /\ doc' = [doc EXCEPT ![t].win = w]
    /\ Ask(t)
    /\ UNCHANGED <<files, next, writeVars, recoveryVars, ends, failures, found>>

\* deleteRecoverySnapshot removes what has the tab's name when it gets to it.
Delete(t) ==
    /\ deletes[t] > 0 /\ deletes' = [deletes EXCEPT ![t] = @ - 1]
    /\ \/ files' = Without(t) /\ UNCHANGED failures
       \/ Fails /\ UNCHANGED files
    /\ UNCHANGED <<docVars, writeVars, recoveryVars, ends, found>>

-----------------------------------------------------------------------------
(* useCrashRecoveryWriter *)

TabsOf(w) == {t \in Open : doc[t].win = w}

\* The interval: a pass over the tabs there are now, with their paths of now.  A
\* pass over no tabs with no hash to prune changes nothing and is left out.
PassBegins(w) ==
    /\ w \notin inPass /\ inPass' = inPass \union {w}
    /\ TabsOf(w) # {} \/ \E k \in DOMAIN lastHash : k[1] = w
    /\ left' = left \union {[win |-> w, tab |-> t, path |-> doc[t].path] : t \in TabsOf(w)}
    /\ lastHash' = Restrict(lastHash, {k \in DOMAIN lastHash : k[1] = w => k[2] \in TabsOf(w)})
    /\ UNCHANGED <<files, docVars, writing, deletes, clock, recoveryVars, ends, failures, found>>

\* What window w wrote of tab t last has the text of now.
Unchanged(w, t) ==
    <<w, t>> \in DOMAIN lastHash /\ lastHash[<<w, t>>] = Hash(doc[t].text)

\* The pass looks at its next tab, with the document's text of now.
Look(e) ==
    /\ \A s \in writing : s.win # e.win
    /\ left' = left \ {e}
    /\ IF e.tab \in TabsOf(e.win) /\ Dirty(e.tab) /\ ~Unchanged(e.win, e.tab)
       THEN /\ clock' = clock + 1
            /\ writing' = writing \union
                  {[win |-> e.win, tab |-> e.tab, text |-> doc[e.tab].text, path |-> e.path,
                    time |-> clock + 1]}
       ELSE UNCHANGED <<clock, writing>>
    /\ UNCHANGED <<files, docVars, inPass, lastHash, deletes, recoveryVars, ends, failures, found>>

\* lastHash once the window has written s
Hashed(s) == [k \in DOMAIN lastHash \union {<<s.win, s.tab>>} |->
                 IF k = <<s.win, s.tab>> THEN Hash(s.text) ELSE lastHash[k]]

WriteLands(s) ==
    /\ writing' = writing \ {s}
    /\ files' = Without(s.tab) \union {s} /\ lastHash' = Hashed(s)
    /\ UNCHANGED <<docVars, inPass, left, deletes, clock, recoveryVars, ends, failures, found>>

\* Mutant of WriteFails: the hash is kept whether or not the write succeeds.
WriteFailsCached(s) ==
    /\ Fails /\ writing' = writing \ {s} /\ lastHash' = Hashed(s)
    /\ UNCHANGED <<files, docVars, inPass, left, deletes, clock, recoveryVars, ends, found>>

WriteFails(s) ==
    /\ Fails /\ writing' = writing \ {s}
    /\ UNCHANGED <<files, docVars, inPass, left, lastHash, deletes, clock, recoveryVars,
                   ends, found>>

PassEnds(w) ==
    /\ w \in inPass /\ \A e \in left \union writing : e.win # w
    /\ inPass' = inPass \ {w}
    /\ UNCHANGED <<files, docVars, left, writing, lastHash, deletes, clock, recoveryVars,
                   ends, failures, found>>

PassStep(w) ==
    \/ PassBegins(w)
    \/ \E e \in left : e.win = w /\ Look(e)
    \/ \E s \in writing : s.win = w /\ (WriteLands(s) \/ WriteFails(s))
    \/ PassEnds(w)

-----------------------------------------------------------------------------
(* useCrashRecoveryStartup, in the main window *)

\* After the hot exit's restore, or its time-out: the snapshots older than a
\* week go, the names of the others are listed.
RecoveryBegins ==
    /\ phase = "waiting" /\ phase' = "reading"
    /\ \E week \in IF Weeks THEN 0..clock ELSE {0} :
          old' = {s \in files \intersect found : s.time <= week}
    /\ files' = files \ old'
    /\ toRead' = {s.tab : s \in files'}
    /\ UNCHANGED <<docVars, writeVars, deletes, got, todo, clearing, drops, shown,
                   kept, ends, failures, found>>

\* A file that cannot be read is passed over and left.
Read(t) ==
    /\ t \in toRead /\ toRead' = toRead \ {t}
    /\ LET named == {s \in files : s.tab = t}
       IN \/ got' = got \union named /\ UNCHANGED <<kept, failures>>
          \/ Fails /\ kept' = kept \union named /\ UNCHANGED got
    /\ UNCHANGED <<files, docVars, writeVars, deletes, phase, todo, clearing, drops,
                   shown, old, ends, found>>

Supersedes(r, s) == r.path = s.path /\ s.path # NoPath /\ r.time > s.time

\* Mutant of Deduped: of the untitled documents one is kept as well.
DedupedAll(snapshots) ==
    {s \in snapshots : \A r \in snapshots : r.path = s.path => r.time <= s.time}

\* deduplicateSnapshots: the newest of each path, and all that have no path
Deduped(snapshots) == {s \in snapshots : \A r \in snapshots : ~Supersedes(r, s)}

AllRead ==
    /\ phase = "reading" /\ toRead = {} /\ phase' = "restoring"
    /\ todo' = Deduped(got) /\ drops' = got \ Deduped(got)
    /\ UNCHANGED <<files, docVars, writeVars, deletes, toRead, got, clearing, shown,
                   kept, old, ends, failures, found>>

\* restoreSnapshot: a new tab, whatever tab has the path, saved as empty
Restore(s) ==
    /\ s \in todo /\ clearing = {} /\ next \in Tabs
    /\ doc' = Add(next, NewDoc(Main, s.text, Empty, s.path)) /\ next' = next + 1
    /\ todo' = todo \ {s} /\ shown' = shown \union {s} /\ clearing' = {s}
    /\ UNCHANGED <<files, edits, writeVars, deletes, phase, toRead, got, drops,
                   kept, old, ends, failures, found>>

RestoreFails(s) ==
    /\ s \in todo /\ clearing = {} /\ Fails
    /\ todo' = todo \ {s} /\ kept' = kept \union {s}
    /\ UNCHANGED <<files, docVars, writeVars, deletes, phase, toRead, got, clearing,
                   drops, shown, old, ends, found>>

\* The snapshot of a restored tab is deleted before the next is restored, ...
Clear(s) ==
    /\ s \in clearing /\ clearing' = {}
    /\ \/ files' = Without(s.tab) /\ UNCHANGED failures
       \/ Fails /\ UNCHANGED files
    /\ UNCHANGED <<docVars, writeVars, deletes, phase, toRead, got, todo, drops,
                   shown, kept, old, ends, found>>

\* ... and at the end those of the duplicates.
Drop(s) ==
    /\ s \in drops /\ todo = {} /\ clearing = {} /\ drops' = drops \ {s}
    /\ \/ files' = Without(s.tab) /\ UNCHANGED failures
       \/ Fails /\ UNCHANGED files
    /\ UNCHANGED <<docVars, writeVars, deletes, phase, toRead, got, todo, clearing,
                   shown, kept, old, ends, found>>

RecoveryEnds ==
    /\ phase = "restoring" /\ todo = {} /\ clearing = {} /\ drops = {} /\ phase' = "done"
    /\ UNCHANGED <<files, docVars, writeVars, deletes, toRead, got, todo, clearing,
                   drops, shown, kept, old, ends, failures, found>>

-----------------------------------------------------------------------------
Next ==
    \/ Restart
    \/ \E w \in Windows, p \in Paths \union {NoPath} : OpenTab(w, p)
    \/ \E t \in Tabs :
          \/ \E text \in Texts : Edit(t, text)
          \/ \E w \in Windows : Move(t, w)
          \/ Save(t) \/ CloseTab(t) \/ Delete(t)
    \/ \E w \in Windows : PassStep(w)
    \/ RecoveryBegins \/ (\E t \in Tabs : Read(t)) \/ AllRead
    \/ \E s \in todo : Restore(s) \/ RestoreFails(s)
    \/ \E s \in clearing : Clear(s)
    \/ \E s \in drops : Drop(s)
    \/ RecoveryEnds

Spec == Init /\ [][Next]_vars

\* The interval fires and file operations answer.
Fairness == \A w \in Windows : WF_vars(PassStep(w))

FairSpec == Spec /\ Fairness

-----------------------------------------------------------------------------
\* Every variable keeps its type.
TypeOK ==
    /\ files \in SUBSET Snapshots
    /\ Open \subseteq Tabs /\ next \in 1..(MaxTabs + 1)
    /\ \A t \in Open : doc[t] \in [win : Windows, text : Texts, saved : Texts,
                                   path : Paths \union {NoPath}]
    /\ inPass \subseteq Windows
    /\ left \subseteq [win : Windows, tab : Tabs, path : Paths \union {NoPath}]
    /\ writing \subseteq Snapshots
    /\ DOMAIN lastHash \subseteq Windows \X Tabs /\ deletes \in [Tabs -> Nat] /\ clock \in Nat
    /\ phase \in {"waiting", "reading", "restoring", "done"} /\ toRead \subseteq Tabs
    /\ got \subseteq Snapshots /\ todo \subseteq got /\ clearing \subseteq got /\ drops \subseteq got
    /\ edits \in 0..MaxEdits /\ ends \in 0..MaxEnds /\ failures \in 0..MaxFailures
    /\ found \subseteq Snapshots /\ shown \subseteq Snapshots /\ kept \subseteq Snapshots
    /\ old \subseteq Snapshots

\* What the last process left is not lost: a snapshot found at the start is on
\* disk until it is shown, is a week old, or a newer one of the same path is
\* shown or kept; and when the recovery is over it has been shown unless it
\* could not be read or restored (useCrashRecoveryStartup.ts:75-116).
NothingIsLost ==
    \A s \in found :
        \/ s \in shown \union old
        \/ \E n \in shown \union kept : Supersedes(n, s)
        \/ s \in files /\ (phase = "done" => s \in kept)

\* A snapshot of this process that no deletion is on the way to, of a document
\* that is clean or closed: the next start would offer it.
Stale(t) ==
    /\ \E s \in files : s.tab = t /\ s \notin found
    /\ deletes[t] = 0 /\ ~Dirty(t)

\* A save, an undo or a close leaves no snapshot behind, but for one that was
\* still being written or could not be removed (useCrashRecoveryCleanup.ts:4).
StaleIsLate ==
    [][\A t \in Tabs :
          Stale(t)' /\ ~Stale(t)
          => \/ failures' > failures
             \/ \E s \in writing : s.tab = t /\ s \in files']_vars

OnDisk(t) == \E s \in files : s.tab = t /\ s.text = doc[t].text

\* When the user pauses, as he does here after MaxEdits, each unsaved text gets
\* on disk (useCrashRecoveryWriter.ts:4) ...
EveryTextIsKept == []<>(\A t \in Open : Dirty(t) => OnDisk(t))

\* ... unless the window had written it and its snapshot has been deleted since,
\* or written over by the window that the tab came from: lastHashRef is not told.
UnsavedIsKept ==
    []<>(\A t \in Open : Dirty(t) =>
            \/ OnDisk(t)
            \/ /\ Unchanged(doc[t].win, t)
               /\ \A s \in files : s.tab = t => s.win # doc[t].win)
=============================================================================
