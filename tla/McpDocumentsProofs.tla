------------------------- MODULE McpDocumentsProofs -------------------------
(* Proofs about McpDocuments, for any tabs, clients, limit and bounds.      *)
EXTENDS McpDocuments, SequenceTheorems, TLAPS

USE BoundsAssumption, NothingAssumption
USE DEF docs, editor, mcp, history, Texts, Revisions

-----------------------------------------------------------------------------
(* The operators of the model give values of their types.                   *)

LEMMA FreshTyped == ASSUME texts \in 0 .. MaxTexts, texts < MaxTexts, NEW t \in Tabs
                    PROVE  Fresh(t) \in Texts
  BY DEF Fresh

(* What is kept is no longer than the limit, and begins with the new text.  *)
LEMMA RetainedTyped ==
    ASSUME NEW text \in Texts, NEW s \in Seq(Texts), Len(s) <= Limit
    PROVE  /\ Retained(<<text>> \o s) \in Seq(Texts)
           /\ Len(Retained(<<text>> \o s)) <= Limit
  <1>1. <<text>> \in Seq(Texts) /\ Len(<<text>>) = 1
    OBVIOUS
  <1>2. /\ <<text>> \o s \in Seq(Texts)
        /\ Len(<<text>> \o s) = 1 + Len(s)
    BY <1>1, ConcatProperties
  <1>3. PICK q \in Seq(Texts) : q = <<text>> \o s
    BY <1>2
  <1>4. Len(q) \in Nat
    OBVIOUS
  <1>5. \A i \in 1 .. Len(q) : q[i] \in Texts
    BY ElementOfSeq
  <1>6. ASSUME NEW m \in 0 .. Len(q)
        PROVE  SubSeq(q, 1, m) \in Seq(Texts) /\ Len(SubSeq(q, 1, m)) = m
    <2>1. 1 \in Int /\ m \in Int /\ \A i \in 1 .. m : q[i] \in Texts
      BY <1>4, <1>5
    <2>2. SubSeq(q, 1, m) \in Seq(Texts)
      BY <2>1, SubSeqProperties
    <2>3. Len(SubSeq(q, 1, m)) = IF 1 <= m THEN m - 1 + 1 ELSE 0
      BY <2>1, SubSeqProperties
    <2>. QED
      BY <2>2, <2>3, <1>4
  <1>7. Retained(q) \in Seq(Texts) /\ Len(Retained(q)) <= Limit
    BY <1>4, <1>6 DEF Retained
  <1>. QED
    BY <1>3, <1>7

(* What is pushed for a tab leaves every history typed and within the limit. *)
LEMMA PushTyped ==
    ASSUME NEW t \in Tabs, NEW text \in Texts, Push(t, text),
           kept \in [Tabs -> Seq(Texts)], \A u \in Tabs : Len(kept[u]) <= Limit
    PROVE  kept' \in [Tabs -> Seq(Texts)] /\ \A u \in Tabs : Len(kept'[u]) <= Limit
  <1>1. kept[t] \in Seq(Texts) /\ Len(kept[t]) <= Limit
    OBVIOUS
  <1>2. /\ Retained(<<text>> \o kept[t]) \in Seq(Texts)
        /\ Len(Retained(<<text>> \o kept[t])) <= Limit
    BY <1>1, RetainedTyped
  <1>3. kept' = [kept EXCEPT ![t] = Retained(<<text>> \o kept[t])]
    BY DEF Push
  <1>. QED
    BY <1>2, <1>3

LEMMA ForgetTyped ==
    ASSUME NEW gone, Forget(gone), typed \in [Tabs -> {Nothing} \cup Texts]
    PROVE  typed' \in [Tabs -> {Nothing} \cup Texts]
  BY DEF Forget

-----------------------------------------------------------------------------
(* The types with the bound on the revision that makes them inductive:      *)
(* every new revision comes with a new text or with a restore.              *)
Bounded == revision <= texts + restores
TypeInv == TypeOK /\ Bounded

(* A new text may come with a new revision: the revisions stay within their *)
(* bound, which grows with the texts and the restores.                      *)
LEMMA Counted ==
    ASSUME revision \in Revisions, texts \in 0 .. MaxTexts, restores \in 0 .. MaxRestores,
           Bounded, texts < MaxTexts, texts' = texts + 1, restores' = restores,
           revision' \in {revision, revision + 1}
    PROVE  revision' \in Revisions /\ Bounded' /\ texts' \in 0 .. MaxTexts
  BY DEF Bounded

\* The same for the restore of a text.
LEMMA CountedBack ==
    ASSUME revision \in Revisions, texts \in 0 .. MaxTexts, restores \in 0 .. MaxRestores,
           Bounded, restores < MaxRestores, restores' = restores + 1, texts' = texts,
           revision' = revision + 1
    PROVE  revision' \in Revisions /\ Bounded' /\ restores' \in 0 .. MaxRestores
  BY DEF Bounded

LEMMA TypeInit == Init => TypeInv
  <1>. SUFFICES ASSUME Init PROVE TypeInv
    OBVIOUS
  <1>1. store \in [Tabs -> Texts] /\ shown \in Texts /\ active \in Tabs
    BY DEF Init
  <1>2. << >> \in Seq(Texts) /\ Len(<< >>) = 0
    OBVIOUS
  <1>3. kept \in [Tabs -> Seq(Texts)] /\ \A t \in Tabs : Len(kept[t]) <= Limit
    BY <1>2 DEF Init
  <1>4. revision = 0 /\ texts = 0 /\ restores = 0
    BY DEF Init
  <1>5. Bounded /\ revision \in Revisions /\ texts \in 0 .. MaxTexts /\ restores \in 0 .. MaxRestores
    BY <1>4 DEF Bounded
  <1>6. /\ heard \in [Clients -> {Nothing} \cup [tab : Tabs, text : Texts, revision : Revisions]]
        /\ typed \in [Tabs -> {Nothing} \cup Texts] /\ tracked \subseteq Tabs
    BY DEF Init
  <1>7. /\ yaml \subseteq Tabs /\ source \in BOOLEAN /\ synced \in Texts /\ unread = "none"
        /\ pending \in BOOLEAN /\ internal \in BOOLEAN /\ missed \in BOOLEAN
    BY <1>1 DEF Init
  <1>. QED
    BY <1>1, <1>3, <1>5, <1>6, <1>7 DEF TypeInv, TypeOK

LEMMA TypeUser == TypeInv /\ User => TypeInv'
  <1>. SUFFICES ASSUME TypeInv, User PROVE TypeInv'
    OBVIOUS
  <1>. USE DEF TypeInv, TypeOK, Bounded
  <1>1. CASE Type
    <2>1. Fresh(active) \in Texts
      BY <1>1, FreshTyped DEF Type
    <2>2. revision' \in Revisions /\ Bounded' /\ texts' \in 0 .. MaxTexts
      <3>1. /\ texts < MaxTexts /\ texts' = texts + 1 /\ restores' = restores
            /\ revision' \in {revision, revision + 1}
        BY <1>1 DEF Type
      <3>. QED
        BY <3>1, Counted
    <2>3. /\ store' \in [Tabs -> Texts] /\ shown' \in Texts /\ synced' \in Texts
          /\ pending' \in BOOLEAN /\ tracked' \subseteq Tabs
      <3>1. CASE Wysiwyg
        BY <1>1, <2>1, <3>1 DEF Type
      <3>2. CASE ~Wysiwyg
        <4>1. /\ shown' = Fresh(active) /\ synced' = Fresh(active) /\ pending' = pending
              /\ store' = [store EXCEPT ![active] = Fresh(active)]
              /\ tracked' = tracked \ {active}
          BY <1>1, <3>2 DEF Type
        <4>. QED
          BY <2>1, <4>1
      <3>. QED
        BY <3>1, <3>2
    <2>4. typed' \in [Tabs -> {Nothing} \cup Texts]
      BY <1>1, <2>1 DEF Type
    <2>. QED
      BY <1>1, <2>2, <2>3, <2>4 DEF Type
  <1>2. CASE ToggleMode
    BY <1>2 DEF ToggleMode, Untracked
  <1>3. CASE \E t \in Tabs : Switch(t)
    <2>1. PICK t \in Tabs : Switch(t)
      BY <1>3
    <2>2. typed' \in [Tabs -> {Nothing} \cup Texts]
      BY <2>1, ForgetTyped DEF Switch
    <2>. QED
      BY <2>1, <2>2 DEF Switch, Mounted, Untracked
  <1>4. CASE \E t \in Tabs : \E text \in Range(kept[t]) : Restore(text)
    <2>1. PICK text : Restore(text)
      BY <1>4
    <2>2. text \in Texts
      <3>1. kept[active] \in Seq(Texts)
        OBVIOUS
      <3>2. PICK i \in DOMAIN kept[active] : text = kept[active][i]
        BY <2>1 DEF Restore, Range
      <3>3. DOMAIN kept[active] = 1 .. Len(kept[active])
        BY <3>1
      <3>. QED
        BY <3>1, <3>2, <3>3, ElementOfSeq
    <2>3. typed' \in [Tabs -> {Nothing} \cup Texts]
      BY <2>1, ForgetTyped DEF Restore
    <2>4. revision' \in Revisions /\ Bounded' /\ restores' \in 0 .. MaxRestores
      <3>1. /\ restores < MaxRestores /\ restores' = restores + 1 /\ texts' = texts
            /\ revision' = revision + 1
        BY <2>1 DEF Restore
      <3>. QED
        BY <3>1, CountedBack
    <2>. QED
      BY <2>1, <2>2, <2>3, <2>4 DEF Restore
  <1>5. CASE Clear
    <2>1. typed' \in [Tabs -> {Nothing} \cup Texts]
      BY <1>5, ForgetTyped DEF Clear
    <2>2. kept' \in [Tabs -> Seq(Texts)] /\ \A t \in Tabs : Len(kept'[t]) <= Limit
      <3>1. << >> \in Seq(Texts) /\ Len(<< >>) = 0
        OBVIOUS
      <3>2. PICK none \in Seq(Texts) : none = << >> /\ Len(none) = 0
        BY <3>1
      <3>3. kept' = [kept EXCEPT ![active] = none]
        BY <1>5, <3>2 DEF Clear
      <3>4. \A t \in Tabs : kept'[t] = none \/ kept'[t] = kept[t]
        BY <3>3
      <3>5. kept' \in [Tabs -> Seq(Texts)]
        BY <3>2, <3>3
      <3>6. 0 <= Limit
        BY BoundsAssumption
      <3>. QED
        BY <3>2, <3>4, <3>5, <3>6
    <2>. QED
      BY <1>5, <2>1, <2>2 DEF Clear
  <1>. QED
    BY <1>1, <1>2, <1>3, <1>4, <1>5 DEF User

LEMMA TypeFlush == TypeInv /\ (Flush \/ Frame) => TypeInv'
  <1>. SUFFICES ASSUME TypeInv, Flush \/ Frame PROVE TypeInv'
    OBVIOUS
  <1>. USE DEF TypeInv, TypeOK, Bounded
  <1>1. CASE Flush
    BY <1>1 DEF Flush, Untracked
  <1>2. CASE Frame
    BY <1>2 DEF Frame
  <1>. QED
    BY <1>1, <1>2

LEMMA TypeClient == ASSUME TypeInv, NEW c \in Clients, Client(c) PROVE TypeInv'
  <1>. USE DEF TypeInv, TypeOK, Bounded
  <1>1. PICK t \in Tabs, expected \in BOOLEAN :
            \/ Read(c, t) \/ Write(c, t, expected)
            \/ ApplyPatch(c, t, expected) \/ SelectionSet(c, expected)
    BY DEF Client
  <1>2. CASE Read(c, t)
    BY <1>2 DEF Read
  <1>3. CASE Write(c, t, expected)
    <2>1. Fresh(t) \in Texts
      BY <1>3, FreshTyped DEF Write
    <2>2. typed' \in [Tabs -> {Nothing} \cup Texts]
      BY <1>3, ForgetTyped DEF Write
    <2>3. kept' \in [Tabs -> Seq(Texts)] /\ \A u \in Tabs : Len(kept'[u]) <= Limit
      <3>1. store[t] \in Texts
        OBVIOUS
      <3>. QED
        BY <1>3, <3>1, PushTyped DEF Write
    <2>4. revision' \in Revisions /\ Bounded' /\ texts' \in 0 .. MaxTexts
      <3>1. /\ texts < MaxTexts /\ texts' = texts + 1 /\ restores' = restores
            /\ revision' \in {revision, revision + 1}
        BY <1>3 DEF Write
      <3>. QED
        BY <3>1, Counted
    <2>5. heard' \in [Clients -> {Nothing} \cup [tab : Tabs, text : Texts, revision : Revisions]]
      BY <1>3, <2>1, <2>4 DEF Write, Answer
    <2>. QED
      BY <1>3, <2>1, <2>2, <2>3, <2>4, <2>5 DEF Write, Unread
  <1>4. CASE ApplyPatch(c, t, expected)
    <2>1. Fresh(t) \in Texts
      BY <1>4, FreshTyped DEF ApplyPatch
    <2>2. typed' \in [Tabs -> {Nothing} \cup Texts]
      BY <1>4, ForgetTyped DEF ApplyPatch
    <2>3. kept' \in [Tabs -> Seq(Texts)] /\ \A u \in Tabs : Len(kept'[u]) <= Limit
      <3>1. store[t] \in Texts
        OBVIOUS
      <3>. QED
        BY <1>4, <3>1, PushTyped DEF ApplyPatch
    <2>4. revision' \in Revisions /\ Bounded' /\ texts' \in 0 .. MaxTexts
      <3>1. /\ texts < MaxTexts /\ texts' = texts + 1 /\ restores' = restores
            /\ revision' \in {revision, revision + 1}
        BY <1>4 DEF ApplyPatch
      <3>. QED
        BY <3>1, Counted
    <2>5. heard' \in [Clients -> {Nothing} \cup [tab : Tabs, text : Texts, revision : Revisions]]
      BY <1>4, <2>1, <2>4 DEF ApplyPatch, Answer
    <2>. QED
      BY <1>4, <2>1, <2>2, <2>3, <2>4, <2>5 DEF ApplyPatch, Unread
  <1>5. CASE SelectionSet(c, expected)
    <2>1. Fresh(active) \in Texts
      BY <1>5, FreshTyped DEF SelectionSet
    <2>2. typed' \in [Tabs -> {Nothing} \cup Texts]
      BY <1>5, ForgetTyped DEF SelectionSet
    <2>3. kept' \in [Tabs -> Seq(Texts)] /\ \A u \in Tabs : Len(kept'[u]) <= Limit
      <3>1. Live \in Texts
        BY DEF Live
      <3>. QED
        BY <1>5, <3>1, PushTyped DEF SelectionSet
    <2>4. revision' \in Revisions /\ Bounded' /\ texts' \in 0 .. MaxTexts
      <3>1. /\ texts < MaxTexts /\ texts' = texts + 1 /\ restores' = restores
            /\ revision' \in {revision, revision + 1}
        BY <1>5 DEF SelectionSet
      <3>. QED
        BY <3>1, Counted
    <2>5. heard' \in [Clients -> {Nothing} \cup [tab : Tabs, text : Texts, revision : Revisions]]
      BY <1>5, <2>1, <2>4 DEF SelectionSet, Answer
    <2>. QED
      BY <1>5, <2>1, <2>2, <2>3, <2>4, <2>5 DEF SelectionSet
  <1>. QED
    BY <1>1, <1>2, <1>3, <1>4, <1>5

LEMMA TypeStep == TypeInv /\ [Next]_vars => TypeInv'
  <1>. SUFFICES ASSUME TypeInv, [Next]_vars PROVE TypeInv'
    OBVIOUS
  <1>1. CASE Next
    BY <1>1, TypeUser, TypeFlush, TypeClient DEF Next
  <1>2. CASE UNCHANGED vars
    BY <1>2 DEF TypeInv, TypeOK, Bounded, vars
  <1>. QED
    BY <1>1, <1>2

(* The variables keep their types, and no tab keeps more replaced texts     *)
(* than applyRetention allows.                                              *)
THEOREM TypesHold == Spec => []TypeOK
  <1>1. TypeInv => TypeOK
    BY DEF TypeInv
  <1>. QED
    BY <1>1, TypeInit, TypeStep, PTL DEF Spec

-----------------------------------------------------------------------------
(* The editor and the store of its tab.                                     *)

LEMMA AgreesUser == ASSUME TypeOK, EditorAgrees, User PROVE EditorAgrees'
  <1>. USE DEF EditorAgrees, TypeOK
  <1>1. CASE Type
    BY <1>1 DEF Type
  <1>2. CASE ToggleMode
    BY <1>2 DEF ToggleMode
  <1>3. CASE \E t \in Tabs : Switch(t)
    BY <1>3 DEF Switch, Mounted
  <1>4. CASE \E t \in Tabs : \E text \in Range(kept[t]) : Restore(text)
    <2>1. PICK text : Restore(text)
      BY <1>4
    <2>2. CASE Wysiwyg /\ (internal \/ text = synced)
      BY <2>1, <2>2 DEF Restore
    <2>3. CASE ~(Wysiwyg /\ (internal \/ text = synced))
      BY <2>1, <2>3 DEF Restore
    <2>. QED
      BY <2>2, <2>3
  <1>5. CASE Clear
    BY <1>5 DEF Clear
  <1>. QED
    BY <1>1, <1>2, <1>3, <1>4, <1>5 DEF User

LEMMA AgreesFlush == ASSUME TypeOK, EditorAgrees, Flush \/ Frame PROVE EditorAgrees'
  BY DEF EditorAgrees, TypeOK, Flush, Frame

LEMMA AgreesClient ==
    ASSUME TypeOK, EditorAgrees, NEW c \in Clients, Client(c) PROVE EditorAgrees'
  <1>. USE DEF EditorAgrees, TypeOK
  <1>1. PICK t \in Tabs, expected \in BOOLEAN :
            \/ Read(c, t) \/ Write(c, t, expected)
            \/ ApplyPatch(c, t, expected) \/ SelectionSet(c, expected)
    BY DEF Client
  <1>2. CASE Read(c, t)
    BY <1>2 DEF Read
  <1>3. CASE Write(c, t, expected)
    BY <1>3 DEF Write
  <1>4. CASE ApplyPatch(c, t, expected)
    BY <1>4 DEF ApplyPatch
  <1>5. CASE SelectionSet(c, expected)
    BY <1>5 DEF SelectionSet
  <1>. QED
    BY <1>1, <1>2, <1>3, <1>4, <1>5

(* With no flush due and no change of the store ignored, the text on screen *)
(* is the text that is saved and that a client reads.                       *)
THEOREM EditorAndStoreAgree == Spec => []EditorAgrees
  <1>1. Init => EditorAgrees
    BY DEF Init, EditorAgrees
  <1>2. TypeInv => TypeOK
    BY DEF TypeInv
  <1>3. TypeInv /\ EditorAgrees /\ [Next]_vars => EditorAgrees'
    <2>1. ASSUME TypeInv, EditorAgrees, UNCHANGED vars PROVE EditorAgrees'
      BY <2>1 DEF vars, EditorAgrees
    <2>. QED
      BY <1>2, <2>1, AgreesUser, AgreesFlush, AgreesClient DEF Next
  <1>. QED
    BY <1>1, <1>3, TypeInit, TypeStep, PTL DEF Spec

-----------------------------------------------------------------------------
(* The revision that a client names. A text that a client has heard under   *)
(* the revision of the window, for a tab whose text has a revision, is the  *)
(* text of that tab: every change of a tracked tab's text makes a new       *)
(* revision, or leaves the tab untracked.                                   *)
Heard ==
    \A c \in Clients : heard[c] # Nothing =>
        /\ heard[c].revision <= revision
        /\ heard[c].revision = revision /\ heard[c].tab \in tracked
               => store[heard[c].tab] = heard[c].text

SafeInv == Heard /\ TrackedIsSafe

LEMMA HeardKept ==
    ASSUME TypeOK, Heard, heard' = heard,
           \/ revision' = revision + 1
           \/ /\ revision' = revision
              /\ tracked' \subseteq tracked
              /\ \A t \in tracked' : store'[t] = store[t]
    PROVE  Heard'
  <1>. SUFFICES ASSUME NEW c \in Clients, heard[c] # Nothing
                PROVE  /\ heard[c].revision <= revision'
                       /\ heard[c].revision = revision' /\ heard[c].tab \in tracked'
                             => store'[heard[c].tab] = heard[c].text
    BY DEF Heard
  <1>1. heard[c].revision \in Nat /\ revision \in Nat
    BY DEF TypeOK
  <1>2. /\ heard[c].revision <= revision
        /\ heard[c].revision = revision /\ heard[c].tab \in tracked
               => store[heard[c].tab] = heard[c].text
    BY DEF Heard
  <1>. QED
    BY <1>1, <1>2

LEMMA HeardAnswered ==
    ASSUME TypeOK, Heard, NEW c \in Clients, NEW t \in Tabs, NEW text \in Texts,
           Answer(c, t, text), store' = [store EXCEPT ![t] = text],
           \/ revision' = revision + 1
           \/ revision' = revision /\ tracked' \subseteq tracked \ {t}
    PROVE  Heard'
  <1>1. heard' = [heard EXCEPT ![c] = [tab |-> t, text |-> text, revision |-> revision']]
    BY DEF Answer
  <1>2. ASSUME NEW d \in Clients, heard'[d] # Nothing
        PROVE  /\ heard'[d].revision <= revision'
               /\ heard'[d].revision = revision' /\ heard'[d].tab \in tracked'
                     => store'[heard'[d].tab] = heard'[d].text
    <2>1. revision \in Nat /\ revision' \in Nat
      BY DEF TypeOK
    <2>2. CASE d = c
      <3>1. heard'[d] = [tab |-> t, text |-> text, revision |-> revision']
        BY <1>1, <2>2 DEF TypeOK
      <3>2. store'[t] = text
        BY DEF TypeOK
      <3>. QED
        BY <2>1, <3>1, <3>2
    <2>3. CASE d # c
      <3>1. heard'[d] = heard[d]
        BY <1>1, <2>3 DEF TypeOK
      <3>2. heard[d].revision \in Nat /\ heard[d].tab \in Tabs
        <4>1. heard[d] \in [tab : Tabs, text : Texts, revision : Revisions]
          BY <1>2, <3>1 DEF TypeOK
        <4>. QED
          BY <4>1
      <3>3. /\ heard[d].revision <= revision
            /\ heard[d].revision = revision /\ heard[d].tab \in tracked
                   => store[heard[d].tab] = heard[d].text
        BY <1>2, <3>1 DEF Heard
      <3>4. \A u \in Tabs : u # t => store'[u] = store[u]
        BY DEF TypeOK
      <3>. QED
        BY <2>1, <3>1, <3>2, <3>3, <3>4
    <2>. QED
      BY <2>2, <2>3
  <1>. QED
    BY <1>2 DEF Heard

(* A write that names its revision replaces a tracked text only if the      *)
(* client has heard it.                                                     *)
LEMMA AcceptedIsHeard ==
    ASSUME TypeOK, Heard, NEW c \in Clients, NEW t \in Tabs, Accepted(c, t, TRUE)
    PROVE  Unread(c, t) # "tracked"
  BY DEF Heard, Accepted, Unread, TypeOK

LEMMA SafeUser == ASSUME TypeOK, SafeInv, User PROVE SafeInv'
  <1>. USE DEF SafeInv, TrackedIsSafe
  <1>1. CASE Type
    <2>1. CASE Wysiwyg
      BY <1>1, <2>1, HeardKept DEF Type
    <2>2. CASE ~Wysiwyg
      <3>1. /\ tracked' = tracked \ {active} /\ revision' = revision /\ heard' = heard
            /\ store' = [store EXCEPT ![active] = Fresh(active)] /\ unread' = "none"
        BY <1>1, <2>2 DEF Type
      <3>2. \A t \in tracked' : store'[t] = store[t]
        BY <3>1 DEF TypeOK
      <3>. QED
        BY <3>1, <3>2, HeardKept
    <2>. QED
      BY <2>1, <2>2
  <1>2. CASE ToggleMode
    <2>1. tracked' \subseteq tracked /\ \A t \in tracked' : store'[t] = store[t]
      BY <1>2 DEF ToggleMode, Untracked, TypeOK
    <2>. QED
      BY <1>2, <2>1, HeardKept DEF ToggleMode
  <1>3. CASE \E t \in Tabs : Switch(t)
    <2>1. PICK t \in Tabs : Switch(t)
      BY <1>3
    <2>2. tracked' \subseteq tracked /\ \A u \in tracked' : store'[u] = store[u]
      BY <2>1 DEF Switch, Untracked, TypeOK
    <2>. QED
      BY <2>1, <2>2, HeardKept DEF Switch
  <1>4. CASE \E t \in Tabs : \E text \in Range(kept[t]) : Restore(text)
    BY <1>4, HeardKept DEF Restore
  <1>5. CASE Clear
    BY <1>5, HeardKept DEF Clear
  <1>. QED
    BY <1>1, <1>2, <1>3, <1>4, <1>5 DEF User

LEMMA SafeFlush == ASSUME TypeOK, SafeInv, Flush \/ Frame PROVE SafeInv'
  <1>. USE DEF SafeInv, TrackedIsSafe
  <1>1. CASE Flush
    <2>1. tracked' \subseteq tracked /\ \A t \in tracked' : store'[t] = store[t]
      BY <1>1 DEF Flush, Untracked, TypeOK
    <2>. QED
      BY <1>1, <2>1, HeardKept DEF Flush
  <1>2. CASE Frame
    BY <1>2, HeardKept DEF Frame
  <1>. QED
    BY <1>1, <1>2

LEMMA SafeClient == ASSUME TypeInv, SafeInv, NEW c \in Clients, Client(c) PROVE SafeInv'
  <1>. USE DEF SafeInv, TrackedIsSafe, TypeInv
  <1>1. PICK t \in Tabs, expected \in BOOLEAN :
            \/ Read(c, t) \/ Write(c, t, expected)
            \/ ApplyPatch(c, t, expected) \/ SelectionSet(c, expected)
    BY DEF Client
  <1>2. CASE Read(c, t)
    <2>1. heard' = [heard EXCEPT ![c] = [tab |-> t, text |-> store[t], revision |-> revision]]
      BY <1>2 DEF Read
    <2>2. revision' = revision /\ store' = store /\ tracked' = tracked /\ unread' = "none"
      BY <1>2 DEF Read
    <2>3. revision \in Nat
      BY DEF TypeOK
    <2>4. ASSUME NEW d \in Clients
          PROVE  \/ heard'[d] = heard[d]
                 \/ heard'[d] = [tab |-> t, text |-> store[t], revision |-> revision]
      BY <2>1 DEF TypeOK
    <2>. QED
      BY <2>2, <2>3, <2>4 DEF Heard
  <1>3. CASE Write(c, t, expected)
    <2>1. Fresh(t) \in Texts
      BY <1>3, FreshTyped DEF Write, TypeOK
    <2>2. /\ Answer(c, t, Fresh(t)) /\ store' = [store EXCEPT ![t] = Fresh(t)]
          /\ \/ revision' = revision + 1
             \/ revision' = revision /\ tracked' \subseteq tracked \ {t}
      BY <1>3 DEF Write
    <2>3. Heard'
      BY <2>1, <2>2, HeardAnswered
    <2>4. unread' # "tracked"
      <3>1. CASE expected
        BY <1>3, <3>1, AcceptedIsHeard DEF Write
      <3>2. CASE ~expected
        BY <1>3, <3>2 DEF Write
      <3>. QED
        BY <3>1, <3>2
    <2>. QED
      BY <2>3, <2>4
  <1>4. CASE ApplyPatch(c, t, expected)
    <2>1. Fresh(t) \in Texts
      BY <1>4, FreshTyped DEF ApplyPatch, TypeOK
    <2>2. Heard'
      BY <1>4, <2>1, HeardAnswered DEF ApplyPatch
    <2>3. unread' # "tracked"
      <3>1. CASE expected
        BY <1>4, <3>1, AcceptedIsHeard DEF ApplyPatch
      <3>2. CASE ~expected
        BY <1>4, <3>2 DEF ApplyPatch
      <3>. QED
        BY <3>1, <3>2
    <2>. QED
      BY <2>2, <2>3
  <1>5. CASE SelectionSet(c, expected)
    <2>1. Fresh(active) \in Texts /\ active \in Tabs
      BY <1>5, FreshTyped DEF SelectionSet, TypeOK
    <2>2. Heard'
      BY <1>5, <2>1, HeardAnswered DEF SelectionSet
    <2>. QED
      BY <1>5, <2>2 DEF SelectionSet
  <1>. QED
    BY <1>1, <1>2, <1>3, <1>4, <1>5

(* A client that names the revision it heard replaces no text of another    *)
(* client, and none put back by the user, that came with a newer revision.  *)
THEOREM NewerIsNotReplaced == Spec => []TrackedIsSafe
  <1>1. Init => SafeInv
    BY DEF Init, SafeInv, Heard, TrackedIsSafe
  <1>2. TypeInv => TypeOK
    BY DEF TypeInv
  <1>3. TypeInv /\ SafeInv /\ [Next]_vars => SafeInv'
    <2>1. ASSUME TypeInv, SafeInv, UNCHANGED vars PROVE SafeInv'
      BY <2>1 DEF vars, SafeInv, Heard, TrackedIsSafe
    <2>. QED
      BY <1>2, <2>1, SafeUser, SafeFlush, SafeClient DEF Next
  <1>4. SafeInv => TrackedIsSafe
    BY DEF SafeInv
  <1>. QED
    BY <1>1, <1>3, <1>4, TypeInit, TypeStep, PTL DEF Spec

-----------------------------------------------------------------------------
(* What the user last typed. It is the editor's while a flush is due, and   *)
(* the store's otherwise, unless it has joined the replaced texts.          *)
Due ==
    /\ pending \/ missed => Wysiwyg
    /\ missed /\ ~pending => typed[active] = Nothing
    /\ pending => typed[active] \in {Nothing, shown} \cup Range(kept[active])

TypedInv == EditorAgrees /\ TypedIsKept /\ Due

(* A push keeps the text that it is for, and every text of the tab that     *)
(* retention does not drop.                                                 *)
LEMMA PushKeeps ==
    ASSUME TypeOK, NEW t \in Tabs, NEW text \in Texts, Push(t, text),
           NEW v, v = text \/ v \in Range(kept[t]), v = text \/ v \notin Dropped(t)
    PROVE  v \in Range(kept'[t])
  <1>. DEFINE s == kept[t]
              n == Len(s)
              m == IF n + 1 < Limit THEN n + 1 ELSE Limit
              r == SubSeq(<<text>> \o s, 1, m)
  <1>1. s \in Seq(Texts) /\ n \in Nat /\ n <= Limit /\ DOMAIN s = 1 .. n
    <2>1. s \in Seq(Texts) /\ n <= Limit
      BY DEF TypeOK
    <2>. HIDE DEF s
    <2>. QED
      BY <2>1
  <1>2. <<text>> \in Seq(Texts) /\ Len(<<text>>) = 1 /\ <<text>>[1] = text
    OBVIOUS
  <1>3. /\ <<text>> \o s \in Seq(Texts)
        /\ Len(<<text>> \o s) = n + 1
        /\ (<<text>> \o s)[1] = text
        /\ \A i \in 1 .. n : (<<text>> \o s)[i + 1] = s[i]
    <2>. HIDE DEF s
    <2>1. /\ <<text>> \o s \in Seq(Texts)
          /\ Len(<<text>> \o s) = 1 + n
          /\ \A i \in 1 .. 1 + n : (<<text>> \o s)[i] =
                 IF i <= 1 THEN <<text>>[i] ELSE s[i - 1]
      BY <1>1, <1>2, ConcatProperties
    <2>2. 1 \in 1 .. 1 + n /\ \A i \in 1 .. n : i + 1 \in 1 .. 1 + n /\ ~(i + 1 <= 1) /\ i + 1 - 1 = i
      BY <1>1
    <2>. QED
      BY <1>1, <1>2, <2>1, <2>2
  <1>4. m \in 1 .. n + 1
    BY <1>1
  <1>5. r \in Seq(Texts) /\ Len(r) = m /\ \A i \in 1 .. m : r[i] = (<<text>> \o s)[i]
    <2>1. PICK q \in Seq(Texts) : q = <<text>> \o s
      BY <1>3
    <2>2. Len(q) = n + 1 /\ \A i \in 1 .. n + 1 : q[i] \in Texts
      BY <1>3, <2>1, ElementOfSeq
    <2>3. 1 \in Int /\ m \in Int /\ \A i \in 1 .. m : q[i] \in Texts
      BY <1>1, <1>4, <2>2
    <2>. HIDE DEF m
    <2>4. /\ SubSeq(q, 1, m) \in Seq(Texts)
          /\ Len(SubSeq(q, 1, m)) = IF 1 <= m THEN m - 1 + 1 ELSE 0
          /\ \A i \in 1 .. m - 1 + 1 : SubSeq(q, 1, m)[i] = q[1 + i - 1]
      BY <2>3, SubSeqProperties
    <2>5. 1 <= m /\ m - 1 + 1 = m /\ \A i \in 1 .. m : 1 + i - 1 = i
      BY <1>1, <1>4
    <2>6. Len(SubSeq(q, 1, m)) = m /\ \A i \in 1 .. m : SubSeq(q, 1, m)[i] = q[i]
      BY <2>4, <2>5
    <2>. QED
      BY <2>1, <2>4, <2>6
  <1>6. kept'[t] = r
    <2>1. kept' = [kept EXCEPT ![t] = Retained(<<text>> \o s)]
      BY DEF Push
    <2>2. Retained(<<text>> \o s) = r
      BY <1>3 DEF Retained
    <2>. QED
      BY <2>1, <2>2 DEF TypeOK
  <1>7. \E i \in 1 .. m : r[i] = v
    <2>1. CASE v = text
      BY <1>3, <1>4, <1>5, <2>1
    <2>2. CASE v # text
      <3>1. PICK i \in 1 .. n : s[i] = v
        BY <1>1, <2>2 DEF Range
      <3>2. n >= Limit => n = Limit /\ i # n
        BY <1>1, <2>2, <3>1 DEF Dropped
      <3>3. i + 1 \in 1 .. m
        BY <1>1, <3>2
      <3>. QED
        BY <1>3, <1>5, <3>1, <3>3
    <2>. QED
      BY <2>1, <2>2
  <1>. QED
    <2>1. DOMAIN r = 1 .. m
      BY <1>5
    <2>. QED
      BY <1>6, <1>7, <2>1 DEF Range

LEMMA Forgotten ==
    ASSUME TypeOK, NEW gone, Forget(gone), NEW t \in Tabs
    PROVE  typed'[t] = IF t \in gone THEN Nothing ELSE typed[t]
  BY DEF Forget

LEMMA KeptUser == ASSUME TypeInv, TypedInv, User PROVE TypedInv'
  <1>. USE DEF TypeInv, TypedInv
  <1>0. EditorAgrees'
    BY AgreesUser
  <1>1. CASE Type
    <2>1. Fresh(active) \in Texts /\ active \in Tabs
      BY <1>1, FreshTyped DEF Type, TypeOK
    <2>2. CASE Wysiwyg
      BY <1>1, <2>1, <2>2, <1>0 DEF Type, TypedIsKept, Due, TypeOK, Wysiwyg
    <2>3. CASE ~Wysiwyg
      <3>1. /\ store' = [store EXCEPT ![active] = Fresh(active)]
            /\ typed' = [typed EXCEPT ![active] = Fresh(active)]
            /\ active' = active /\ yaml' = yaml /\ source' = source /\ kept' = kept
            /\ pending' = pending /\ missed' = missed
        BY <1>1, <2>3 DEF Type
      <3>2. ~pending /\ ~missed
        BY <2>3 DEF Due
      <3>3. \A t \in Tabs : t # active => typed'[t] = typed[t] /\ store'[t] = store[t]
        BY <3>1 DEF TypeOK
      <3>4. typed'[active] = store'[active]
        BY <2>1, <3>1 DEF TypeOK
      <3>. QED
        BY <1>0, <3>1, <3>2, <3>3, <3>4 DEF TypedIsKept, Due
    <2>. QED
      BY <2>2, <2>3
  <1>2. CASE ToggleMode
    <2>1. /\ typed' = typed /\ kept' = kept /\ active' = active /\ ~pending' /\ ~missed'
          /\ store' = IF source THEN store ELSE [store EXCEPT ![active] = shown]
      BY <1>2 DEF ToggleMode
    <2>2. source => shown = store[active]
      BY DEF Due, Wysiwyg, EditorAgrees
    <2>3. /\ \A t \in Tabs : t # active => store'[t] = store[t]
          /\ store'[active] = shown
      BY <2>1, <2>2 DEF TypeOK
    <2>4. ~pending => typed[active] = Nothing \/ shown = store[active]
      BY DEF Due, EditorAgrees
    <2>. QED
      BY <1>0, <2>1, <2>3, <2>4 DEF TypedIsKept, Due
  <1>3. CASE \E t \in Tabs : Switch(t)
    <2>1. PICK t \in Tabs : Switch(t)
      BY <1>3
    <2>2. /\ kept' = kept /\ active' = t /\ t # active /\ ~pending' /\ ~missed'
          /\ store' = IF pending THEN [store EXCEPT ![t] = shown] ELSE store
          /\ Forget(IF pending THEN {active, t} ELSE {})
      BY <2>1 DEF Switch
    <2>3. \A u \in Tabs : typed'[u] = IF pending /\ u \in {active, t} THEN Nothing ELSE typed[u]
      BY <2>2, Forgotten
    <2>4. \A u \in Tabs : ~(pending /\ u = t) => store'[u] = store[u]
      BY <2>2 DEF TypeOK
    <2>5. ~pending => typed[active] = Nothing \/ shown = store[active]
      BY DEF Due, EditorAgrees
    <2>. QED
      BY <1>0, <2>2, <2>3, <2>4, <2>5 DEF TypedIsKept, Due
  <1>4. CASE \E t \in Tabs : \E text \in Range(kept[t]) : Restore(text)
    <2>1. PICK text : Restore(text)
      BY <1>4
    <2>2. \A u \in Tabs : typed'[u] = IF u = active THEN Nothing ELSE typed[u]
      BY <2>1, Forgotten DEF Restore
    <2>3. /\ kept' = kept /\ active' = active /\ yaml' = yaml /\ source' = source
          /\ pending' = pending /\ store' = [store EXCEPT ![active] = text]
      BY <2>1 DEF Restore
    <2>4. missed' => Wysiwyg
      BY <2>1 DEF Restore
    <2>5. \A u \in Tabs : u # active => store'[u] = store[u]
      BY <2>3 DEF TypeOK
    <2>6. active \in Tabs
      BY DEF TypeOK
    <2>. QED
      BY <1>0, <2>2, <2>3, <2>4, <2>5, <2>6 DEF TypedIsKept, Due, Wysiwyg
  <1>5. CASE Clear
    <2>1. \A u \in Tabs : typed'[u] = IF u = active THEN Nothing ELSE typed[u]
      BY <1>5, Forgotten DEF Clear
    <2>2. /\ store' = store /\ active' = active /\ yaml' = yaml /\ source' = source
          /\ pending' = pending /\ missed' = missed /\ shown' = shown
          /\ \A u \in Tabs : u # active => kept'[u] = kept[u]
      BY <1>5 DEF Clear, TypeOK
    <2>3. active \in Tabs
      BY DEF TypeOK
    <2>. QED
      BY <1>0, <2>1, <2>2, <2>3 DEF TypedIsKept, Due, Wysiwyg
  <1>. QED
    BY <1>1, <1>2, <1>3, <1>4, <1>5 DEF User

LEMMA KeptFlush == ASSUME TypeInv, TypedInv, Flush \/ Frame PROVE TypedInv'
  <1>. USE DEF TypeInv, TypedInv
  <1>0. EditorAgrees'
    BY AgreesFlush
  <1>1. CASE Flush
    <2>1. /\ kept' = kept /\ typed' = typed /\ active' = active /\ shown' = shown
          /\ pending /\ ~pending' /\ ~missed' /\ store' = [store EXCEPT ![active] = shown]
      BY <1>1 DEF Flush
    <2>2. /\ \A u \in Tabs : u # active => store'[u] = store[u]
          /\ store'[active] = shown
      BY <2>1 DEF TypeOK
    <2>. QED
      BY <1>0, <2>1, <2>2 DEF TypedIsKept, Due
  <1>2. CASE Frame
    BY <1>0, <1>2 DEF Frame, TypedIsKept, Due, Wysiwyg
  <1>. QED
    BY <1>1, <1>2

(* A push leaves the other tabs alone. *)
LEMMA PushOthers ==
    ASSUME TypeOK, NEW t \in Tabs, NEW text \in Texts, Push(t, text)
    PROVE  \A u \in Tabs : u # t => kept'[u] = kept[u]
  BY DEF Push, TypeOK

(* The typed text of a tab that a client changes is the store's, unless it  *)
(* has joined the replaced ones or a flush is due.                          *)
LEMMA TypedIsStored ==
    ASSUME TypedInv, NEW t \in Tabs, typed[t] # Nothing
    PROVE  \/ typed[t] = store[t]
           \/ typed[t] \in Range(kept[t])
           \/ t = active /\ pending /\ Wysiwyg /\ typed[t] = shown
  BY DEF TypedInv, TypedIsKept, EditorAgrees, Due

LEMMA KeptClient == ASSUME TypeInv, TypedInv, NEW c \in Clients, Client(c) PROVE TypedInv'
  <1>. USE DEF TypeInv
  <1>0. EditorAgrees'
    BY AgreesClient DEF TypedInv
  <1>1. PICK t \in Tabs, expected \in BOOLEAN :
            \/ Read(c, t) \/ Write(c, t, expected)
            \/ ApplyPatch(c, t, expected) \/ SelectionSet(c, expected)
    BY DEF Client
  <1>a. active \in Tabs /\ shown \in Texts /\ \A u \in Tabs : store[u] \in Texts
    BY DEF TypeOK
  <1>2. CASE Read(c, t)
    BY <1>0, <1>2 DEF Read, TypedInv, TypedIsKept, Due, Wysiwyg
  <1>3. CASE Write(c, t, expected)
    <2>. DEFINE bound == Wysiwyg /\ t \notin yaml
                lost(u) == \/ u = active /\ bound /\ (pending \/ u # t)
                           \/ u = t /\ typed[t] \in Dropped(t)
    <2>1. /\ Push(t, store[t]) /\ Forget({u \in Tabs : lost(u)})
          /\ store' = [store EXCEPT ![t] = Fresh(t)]
          /\ shown' = IF bound \/ t = active THEN Fresh(t) ELSE shown
          /\ active' = active /\ yaml' = yaml /\ source' = source
      BY <1>3 DEF Write
    <2>2. /\ pending' = (pending \/ bound)
          /\ missed' = (missed /\ t # active)
      BY <1>3 DEF Write
    <2>3. \A u \in Tabs : typed'[u] = IF lost(u) THEN Nothing ELSE typed[u]
      BY <2>1, Forgotten
    <2>4. \A u \in Tabs : u # t => kept'[u] = kept[u] /\ store'[u] = store[u]
      BY <1>a, <2>1, PushOthers DEF TypeOK
    <2>5. typed'[t] # Nothing => typed'[t] = typed[t] /\ typed'[t] \in Range(kept'[t])
      <3>. SUFFICES ASSUME typed'[t] # Nothing
                    PROVE  typed'[t] = typed[t] /\ typed'[t] \in Range(kept'[t])
        OBVIOUS
      <3>1. typed'[t] = typed[t] /\ ~lost(t)
        BY <2>3
      <3>2. typed[t] = store[t] \/ typed[t] \in Range(kept[t])
        BY <3>1, TypedIsStored DEF Wysiwyg
      <3>. QED
        BY <1>a, <2>1, <3>1, <3>2, PushKeeps
    <2>6. TypedIsKept'
      <3>. SUFFICES ASSUME NEW u \in Tabs, typed'[u] # Nothing
                    PROVE  \/ typed'[u] = store'[u]
                           \/ u = active' /\ typed'[u] = shown'
                           \/ typed'[u] \in Range(kept'[u])
        BY DEF TypedIsKept
      <3>1. CASE u = t
        BY <2>5, <3>1
      <3>2. CASE u # t
        BY <2>1, <2>3, <2>4, <3>2 DEF TypedInv, TypedIsKept
      <3>. QED
        BY <3>1, <3>2
    <2>7. Due'
      <3>1. pending' \/ missed' => Wysiwyg'
        BY <2>1, <2>2 DEF TypedInv, Due, Wysiwyg
      <3>2. missed' /\ ~pending' => typed'[active'] = Nothing
        BY <1>a, <2>1, <2>2, <2>3 DEF TypedInv, Due
      <3>3. pending' => typed'[active'] \in {Nothing, shown'} \cup Range(kept'[active'])
        <4>1. CASE t = active
          BY <2>1, <2>5, <4>1
        <4>2. CASE t # active
          BY <1>a, <2>1, <2>2, <2>3, <2>4, <4>2 DEF TypedInv, Due
        <4>. QED
          BY <4>1, <4>2
      <3>. QED
        BY <3>1, <3>2, <3>3 DEF Due
    <2>. QED
      BY <1>0, <2>6, <2>7 DEF TypedInv
  <1>4. CASE ApplyPatch(c, t, expected)
    <2>1. /\ Push(t, store[t]) /\ Forget({u \in {t} : typed[u] \in Dropped(u)})
          /\ store' = [store EXCEPT ![t] = Fresh(t)] /\ t \in yaml
          /\ t # active => shown' = shown
          /\ active' = active /\ yaml' = yaml /\ source' = source
          /\ pending' = pending /\ missed' = missed
      BY <1>4 DEF ApplyPatch
    <2>2. \A u \in Tabs :
              typed'[u] = IF u = t /\ typed[t] \in Dropped(t) THEN Nothing ELSE typed[u]
      BY <2>1, Forgotten
    <2>3. \A u \in Tabs : u # t => kept'[u] = kept[u] /\ store'[u] = store[u]
      BY <1>a, <2>1, PushOthers DEF TypeOK
    <2>4. typed'[t] # Nothing => typed'[t] \in Range(kept'[t])
      <3>. SUFFICES ASSUME typed'[t] # Nothing PROVE typed'[t] \in Range(kept'[t])
        OBVIOUS
      <3>1. typed'[t] = typed[t] /\ typed[t] \notin Dropped(t)
        BY <2>2
      <3>2. typed[t] = store[t] \/ typed[t] \in Range(kept[t])
        BY <2>1, <3>1, TypedIsStored DEF Wysiwyg
      <3>. QED
        BY <1>a, <2>1, <3>1, <3>2, PushKeeps
    <2>5. TypedIsKept'
      <3>. SUFFICES ASSUME NEW u \in Tabs, typed'[u] # Nothing
                    PROVE  \/ typed'[u] = store'[u]
                           \/ u = active' /\ typed'[u] = shown'
                           \/ typed'[u] \in Range(kept'[u])
        BY DEF TypedIsKept
      <3>1. CASE u = t
        BY <2>4, <3>1
      <3>2. CASE u # t
        <4>1. u = active => t # active
          BY <3>2
        <4>. QED
          BY <2>1, <2>2, <2>3, <3>2, <4>1 DEF TypedInv, TypedIsKept
      <3>. QED
        BY <3>1, <3>2
    <2>6. Due'
      <3>1. pending \/ missed => t # active
        BY <2>1 DEF TypedInv, Due, Wysiwyg
      <3>. QED
        BY <1>a, <2>1, <2>2, <2>3, <3>1 DEF TypedInv, Due, Wysiwyg
    <2>. QED
      BY <1>0, <2>5, <2>6 DEF TypedInv
  <1>5. CASE SelectionSet(c, expected)
    <2>1. /\ Push(active, shown) /\ Forget({u \in {active} : typed[u] \in Dropped(u)})
          /\ store' = [store EXCEPT ![active] = Fresh(active)]
          /\ active' = active /\ yaml' = yaml /\ source' = source
          /\ pending' = (pending \/ Wysiwyg) /\ missed' = FALSE
      BY <1>5 DEF SelectionSet, Live
    <2>2. \A u \in Tabs :
              typed'[u] = IF u = active /\ typed[active] \in Dropped(active)
                          THEN Nothing ELSE typed[u]
      BY <2>1, Forgotten
    <2>3. \A u \in Tabs : u # active => kept'[u] = kept[u] /\ store'[u] = store[u]
      BY <1>a, <2>1, PushOthers DEF TypeOK
    <2>4. typed'[active] # Nothing => typed'[active] \in Range(kept'[active])
      <3>. SUFFICES ASSUME typed'[active] # Nothing
                    PROVE  typed'[active] \in Range(kept'[active])
        OBVIOUS
      <3>1. typed'[active] = typed[active] /\ typed[active] \notin Dropped(active)
        BY <1>a, <2>2
      <3>2. typed[active] = shown \/ typed[active] \in Range(kept[active])
        <4>1. ~pending /\ ~missed => shown = store[active]
          BY DEF TypedInv, EditorAgrees
        <4>. QED
          BY <1>a, <3>1, <4>1 DEF TypedInv, TypedIsKept, Due
      <3>. QED
        BY <1>a, <2>1, <3>1, <3>2, PushKeeps
    <2>5. TypedIsKept'
      BY <1>a, <2>1, <2>2, <2>3, <2>4 DEF TypedInv, TypedIsKept
    <2>6. Due'
      BY <2>1, <2>4 DEF TypedInv, Due, Wysiwyg
    <2>. QED
      BY <1>0, <2>5, <2>6 DEF TypedInv
  <1>. QED
    BY <1>1, <1>2, <1>3, <1>4, <1>5

(* What the user typed stays in the editor, in the store or among the       *)
(* replaced texts, until one of the exceptions that Forget lists.           *)
THEOREM TypedTextIsKept == Spec => []TypedIsKept
  <1>1. Init => TypedInv
    BY DEF Init, TypedInv, EditorAgrees, TypedIsKept, Due
  <1>2. TypeInv /\ TypedInv /\ [Next]_vars => TypedInv'
    <2>1. ASSUME TypeInv, TypedInv, UNCHANGED vars PROVE TypedInv'
      BY <2>1 DEF vars, TypedInv, EditorAgrees, TypedIsKept, Due, Wysiwyg
    <2>. QED
      BY <2>1, KeptUser, KeptFlush, KeptClient DEF Next
  <1>3. TypedInv => TypedIsKept
    BY DEF TypedInv
  <1>. QED
    BY <1>1, <1>2, <1>3, TypeInit, TypeStep, PTL DEF Spec

=============================================================================
