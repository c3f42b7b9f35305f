--------------------------- MODULE MediaPreview_proofs ---------------------------
(***************************************************************************)
(* Proofs about MediaPreview: for any number of pickers, sessions, items   *)
(* and calls for details, the preview shows the active item of the session *)
(* on the screen with its own detail, and what the user chose stays.       *)
(***************************************************************************)
EXTENDS MediaPreview, SequenceTheorems, FiniteSetTheorems, TLAPS

-----------------------------------------------------------------------------
(* How many there are in a set that changes.                               *)

LEMMA CountGains ==
  ASSUME NEW A, NEW B, NEW x, IsFiniteSet(A), x \notin A, B = A \cup {x}
  PROVE  Cardinality(A) \in Nat /\ Cardinality(B) = Cardinality(A) + 1
BY FS_CardinalityType, FS_AddElement

-----------------------------------------------------------------------------
(* The inductive invariant.                                                *)

\* Sessions that have been given a generation.
Begun == {s \in Session : generation[s] # 0}

\* Each session is given one generation, once, and none is given twice; the
\* registry serves the source of its owner.
Sessions ==
  /\ sources \in 0 .. MaxSessions /\ session \in 0 .. sources
  /\ locator \in [Session -> 0 .. MaxSessions]
  /\ session # NoSession => sourceDisplayName = locator[session]
  /\ opening \subseteq 1 .. session
  /\ owner \in 0 .. session /\ nextKey \in Nat
  /\ nextKey # 0 => owner # NoSession
  /\ owner # NoSession => root = locator[owner]

Generations ==
  /\ generation \in [Session -> Nat]
  /\ \A s \in Session : s > session \/ s \in opening => generation[s] = 0
  /\ \A s \in Session : generation[s] <= Cardinality(Begun)
  /\ \A s, t \in Begun : generation[s] = generation[t] => s = t
  /\ owner # NoSession => generation[owner] # 0

\* A call for a detail asks with the key of its own session, and the latest one
\* asks for the active item.
DetailInv(d) ==
  /\ DOMAIN d = {"call", "session", "media", "stage", "key", "path"}
  /\ d.call # None /\ d.session \in 1 .. session
  /\ d.key.number = d.media /\ d.key.generation \in {0, generation[d.session]}
  /\ d.stage = "found" => d.path = <<[source |-> locator[d.session], item |-> d.media]>>
  /\ d.call = latest =>
       active # Inactive /\ d.session = active.session /\ d.media = active.media

Details == \A d \in details : DetailInv(d)

Shown ==
  /\ active = Inactive => preview = Idle /\ latest = None
  /\ active # Inactive => session # NoSession

IInv == Sessions /\ Generations /\ Details /\ Shown /\ PreviewIsCurrent

-----------------------------------------------------------------------------
LEMMA Constants ==
  /\ MaxSessions \in Nat \ {0} /\ MaxDetails \in Nat /\ None = 0 /\ NoSession = 0
  /\ IsFiniteSet(Session) /\ Session = 1 .. MaxSessions
  /\ Idle.status = "idle" /\ Inactive.session = NoSession
BY PreviewAssumption, FS_Interval DEF Session, None, NoSession, Idle, Inactive

LEMMA BegunIsFinite ==
  /\ IsFiniteSet(Begun) /\ Cardinality(Begun) \in Nat
<1>1. Begun \in SUBSET Session
  BY DEF Begun
<1> QED
  BY <1>1, Constants, FS_Subset, FS_CardinalityType

(* Where the active item may be after a step: nowhere, or among the items  *)
(* the session on the screen shows then.                                   *)
Placed(next) ==
  \/ next = Inactive
  \/ /\ next.session = session' /\ session' # NoSession
     /\ next.position \in 1 .. Len(view') /\ view'[next.position] = next.media
     /\ next.total = Len(view')

(* What the preview does about a new active item.                          *)
LEMMA PublishKeeps ==
  ASSUME IInv, NEW next, Publish(next), Placed(next),
         session \in Nat, session' \in Nat, session <= session',
         next # Inactive => generation' = generation /\ sourceDisplayName' = sourceDisplayName,
         \A s \in 1 .. session : generation'[s] = generation[s] /\ locator'[s] = locator[s]
  PROVE  Details' /\ Shown' /\ PreviewIsCurrent'
<1>1. \A d \in details : d.session \in 1 .. session' /\ d.session \in 1 .. session
  <2>1. \A d \in details : d.session \in 1 .. session
    BY DEF IInv, Details, DetailInv
  <2>2. 1 .. session \subseteq 1 .. session'
    OBVIOUS
  <2> QED
    BY <2>1, <2>2
<1>2. CASE next = active
  <2>1. UNCHANGED <<active, preview, latest, details>>
    BY <1>2 DEF Publish, previewVars
  <2>2. Details'
    BY <1>1, <2>1 DEF IInv, Details, DetailInv
  <2>3. Shown' /\ PreviewIsCurrent'
    BY <1>2, <2>1, Constants DEF IInv, Shown, PreviewIsCurrent, Placed
  <2> QED
    BY <2>2, <2>3
<1>3. CASE next # active
  <2>1. active' = next /\ onActivationChanged(next)
    BY <1>3 DEF Publish
  <2>2. CASE preview' = Idle /\ latest' = None /\ UNCHANGED details
    <3>1. Details'
      BY <1>1, <2>2, Constants DEF IInv, Details, DetailInv
    <3>2. Shown' /\ PreviewIsCurrent'
      BY <2>1, <2>2, Constants DEF IInv, Shown, PreviewIsCurrent, Placed
    <3> QED
      BY <3>1, <3>2
  <2>3. CASE ~(preview' = Idle /\ latest' = None /\ UNCHANGED details)
    <3>1. next # Inactive
      BY <2>1, <2>3 DEF onActivationChanged
    <3>2. PICK call \in 1 .. MaxDetails :
            /\ \A d \in details : d.call # call
            /\ latest' = call
            /\ preview' = [status |-> "loading", session |-> next.session,
                           media |-> next.media, detail |-> <<>>]
            /\ details' = details \cup
                 {[call |-> call, session |-> next.session, media |-> next.media, stage |-> "sent",
                   key |-> [generation |-> generation[next.session], number |-> next.media],
                   path |-> <<>>]}
      BY <2>1, <2>3 DEF onActivationChanged
    <3>3. /\ next.session = session' /\ session' # NoSession /\ generation' = generation
          /\ next.session \in 1 .. session'
      BY <3>1, Constants DEF Placed
    <3>4. \A d \in details : DetailInv(d)'
      BY <1>1, <3>2, Constants DEF IInv, Details, DetailInv
    <3>5. \A d \in details' \ details : DetailInv(d)'
      BY <2>1, <3>1, <3>2, <3>3, Constants DEF DetailInv
    <3>6. Details'
      BY <3>4, <3>5 DEF Details
    <3>7. Shown' /\ PreviewIsCurrent'
      BY <2>1, <3>1, <3>2, <3>3 DEF Shown, PreviewIsCurrent, Placed
    <3> QED
      BY <3>6, <3>7
  <2> QED
    BY <2>2, <2>3
<1> QED
  BY <1>2, <1>3

(* reconcile keeps the active item, at its place in the new view.          *)
LEMMA ReconcileKeepsMedia ==
  ASSUME NEW s, NEW items, reconcile(s, items) # Inactive
  PROVE  LET next == reconcile(s, items)
         IN  /\ active # Inactive /\ active.session = s
             /\ next.session = s /\ next.media = active.media
             /\ next.position \in 1 .. Len(items) /\ items[next.position] = next.media
             /\ next.total = Len(items)
<1> DEFINE at == IF active.position \in 1 .. Len(items) /\ items[active.position] = active.media
                 THEN active.position ELSE indexOf(items, active.media)
<1>1. active # Inactive /\ active.session = s /\ at # 0 /\ reconcile(s, items) = buildSnapshot(s, at, items)
  BY DEF reconcile
<1>2. at \in 1 .. Len(items) /\ items[at] = active.media
  BY <1>1 DEF indexOf
<1> HIDE DEF at
<1> QED
  BY <1>1, <1>2 DEF buildSnapshot

-----------------------------------------------------------------------------
(* The screen and the user.                                                *)

LEMMA BackendStays ==
  ASSUME IInv, UNCHANGED <<sources, session, locator, sourceDisplayName, backendVars>>
  PROVE  /\ Sessions' /\ Generations' /\ session \in Nat /\ session' = session
         /\ \A s \in 1 .. session : generation'[s] = generation[s] /\ locator'[s] = locator[s]
<1>1. Sessions' /\ session \in Nat
  BY DEF IInv, Sessions, backendVars
<1>2. Begun' = Begun
  BY DEF Begun, backendVars
<1>3. Generations'
  BY <1>2 DEF IInv, Generations, backendVars
<1> QED
  BY <1>1, <1>3 DEF backendVars

(* A new active item of a screen and a backend that stay.                  *)
LEMMA PublishOnScreen ==
  ASSUME IInv, NEW next, Publish(next), Placed(next),
         UNCHANGED <<sources, session, locator, sourceDisplayName, backendVars>>
  PROVE  IInv'
<1>1. /\ Sessions' /\ Generations' /\ session \in Nat /\ session' = session
      /\ \A s \in 1 .. session : generation'[s] = generation[s] /\ locator'[s] = locator[s]
  BY BackendStays
<1>2. session <= session' /\ session' \in Nat
  BY <1>1
<1>3. generation' = generation /\ sourceDisplayName' = sourceDisplayName
  BY DEF backendVars
<1>4. Details' /\ Shown' /\ PreviewIsCurrent'
  BY <1>1, <1>2, <1>3, PublishKeeps
<1> QED
  BY <1>1, <1>4 DEF IInv

LEMMA ActivateKeeps ==
  ASSUME IInv, NEW at, activateIndex(at), session # NoSession
  PROVE  IInv'
<1>1. UNCHANGED <<sources, session, locator, sourceDisplayName, backendVars, view>>
  BY DEF activateIndex, pickVars, sessionVars
<1>2. Publish(buildSnapshot(session, at, view)) /\ at \in 1 .. Len(view)
  BY DEF activateIndex
<1>3. Placed(buildSnapshot(session, at, view))
  BY <1>1, <1>2 DEF Placed, buildSnapshot
<1> QED
  BY <1>1, <1>2, <1>3, PublishOnScreen

LEMMA NavigationKeeps ==
  ASSUME IInv, (\E i \in Item : activate(i)) \/ activatePrevious \/ activateNext \/ clear
  PROVE  IInv'
<1>1. ASSUME NEW i \in Item, activate(i) PROVE IInv'
  BY <1>1, ActivateKeeps DEF activate
<1>2. CASE activatePrevious
  BY <1>2, ActivateKeeps DEF activatePrevious, Adjacent, IInv, Shown
<1>3. CASE activateNext
  BY <1>3, ActivateKeeps DEF activateNext, Adjacent, IInv, Shown
<1>4. CASE clear
  <2>1. Publish(Inactive) /\ UNCHANGED <<sources, session, locator, sourceDisplayName, backendVars>>
    BY <1>4 DEF clear, pickVars, sessionVars
  <2> QED
    BY <2>1, PublishOnScreen DEF Placed
<1> QED
  BY <1>1, <1>2, <1>3, <1>4

LEMMA ScreenChangesKeeps ==
  ASSUME IInv, ScreenChanges
  PROVE  IInv'
<1>1. SessionChanged /\ UNCHANGED <<sources, session, locator, sourceDisplayName, backendVars>>
  BY DEF ScreenChanges, BatchArrives, EndArrives, setIncludedKinds, setSort, pickVars
<1>2. PICK next \in {reconcile(session', view')} : Publish(next)
  BY <1>1 DEF SessionChanged
<1>3. Placed(next)
  <2>1. CASE next = Inactive
    BY <2>1 DEF Placed
  <2>2. CASE next # Inactive
    <3>1. /\ active # Inactive /\ next.session = session'
          /\ next.position \in 1 .. Len(view') /\ view'[next.position] = next.media
          /\ next.total = Len(view')
      BY <1>2, <2>2, ReconcileKeepsMedia
    <3> QED
      BY <1>1, <3>1 DEF Placed, IInv, Shown
  <2> QED
    BY <2>1, <2>2
<1> QED
  BY <1>1, <1>2, <1>3, PublishOnScreen

LEMMA DisposeKeeps ==
  ASSUME IInv, dispose
  PROVE  IInv'
<1>1. /\ active' = Inactive /\ preview' = Idle /\ latest' = None
      /\ UNCHANGED <<sources, session, locator, sourceDisplayName, backendVars, details>>
  BY DEF dispose, sessionVars
<1>2. Sessions' /\ Generations' /\ generation' = generation
  BY <1>1, BackendStays DEF backendVars
<1>3. Details'
  BY <1>1, <1>2, Constants DEF IInv, Details, DetailInv
<1>4. Shown' /\ PreviewIsCurrent'
  BY <1>1, Constants DEF Shown, PreviewIsCurrent
<1> QED
  BY <1>2, <1>3, <1>4 DEF IInv

(* Nothing the invariant speaks of changes.                                *)
LEMMA NothingChanges ==
  ASSUME IInv,
         UNCHANGED <<sources, locator, sourceDisplayName, backendVars, sessionVars, previewVars>>
  PROVE  IInv'
<1>1. Sessions' /\ Generations'
  BY BackendStays DEF sessionVars
<1>2. Details' /\ Shown' /\ PreviewIsCurrent'
  BY DEF IInv, Details, DetailInv, Shown, PreviewIsCurrent, backendVars, sessionVars, previewVars
<1> QED
  BY <1>1, <1>2 DEF IInv

-----------------------------------------------------------------------------
(* A folder is picked.                                                     *)

LEMMA FolderPickedKeeps ==
  ASSUME IInv, NEW call \in picks, FolderPicked(call)
  PROVE  IInv'
<1>1. /\ sources < MaxSessions /\ sources' = sources + 1
      /\ sources \in Nat /\ session \in Nat /\ session <= sources
      /\ MaxSessions \in Nat /\ sources' \in 0 .. MaxSessions
  <2>1. sources < MaxSessions /\ sources' = sources + 1
    BY DEF FolderPicked
  <2>2. sources \in 0 .. MaxSessions /\ session \in 0 .. sources /\ MaxSessions \in Nat
    BY Constants DEF IInv, Sessions
  <2> QED
    BY <2>1, <2>2
<1>2. CASE CurrentPick(call)
  <2>1. sourceDisplayName' = sources' /\ openSource(sources')
    BY <1>2 DEF FolderPicked
  <2>2. /\ session' = session + 1 /\ session' \in Session /\ session' \in 1 .. sources'
        /\ session' \in Nat /\ session <= session' /\ session' # session
    BY <1>1, <2>1, Constants DEF openSource
  <2>3. /\ locator' = [locator EXCEPT ![session + 1] = sources']
        /\ opening' = opening \cup {session + 1}
        /\ UNCHANGED <<owner, root, nextKey, generation>>
    BY <2>1 DEF openSource
  <2>4. \A s \in 1 .. session : generation'[s] = generation[s] /\ locator'[s] = locator[s]
    <3>1. locator \in [Session -> 0 .. MaxSessions]
      BY DEF IInv, Sessions
    <3>2. \A s \in 1 .. session : s # session + 1 /\ s \in Session
      BY <1>1, Constants
    <3> QED
      BY <2>3, <3>1, <3>2
  <2>5. Sessions'
    <3>1. locator' \in [Session -> 0 .. MaxSessions] /\ locator'[session'] = sources'
      BY <1>1, <2>2, <2>3 DEF IInv, Sessions
    <3>2. opening' \subseteq 1 .. session' /\ owner' \in 0 .. session' /\ session' \in 0 .. sources'
      <4>1. 1 .. session \subseteq 1 .. session' /\ 0 .. session \subseteq 0 .. session'
            /\ session + 1 \in 1 .. session' /\ session' \in 0 .. sources'
        BY <1>1, <2>2
      <4> QED
        BY <2>3, <4>1 DEF IInv, Sessions
    <3>3. owner' # NoSession => root' = locator'[owner']
      <4>1. owner # NoSession => owner \in 1 .. session
        BY <1>1, Constants DEF IInv, Sessions
      <4> QED
        BY <2>3, <2>4, <4>1 DEF IInv, Sessions
    <3> QED
      BY <1>1, <2>1, <2>3, <3>1, <3>2, <3>3 DEF IInv, Sessions
  <2>6. Generations'
    <3>1. Begun' = Begun
      BY <2>3 DEF Begun
    <3>2. ASSUME NEW s \in Session, s > session' \/ s \in opening' PROVE generation[s] = 0
      <4>1. s > session \/ s \in opening
        BY <1>1, <2>2, <2>3, <3>2, Constants
      <4> QED
        BY <4>1 DEF IInv, Generations
    <3> QED
      BY <2>3, <3>1, <3>2 DEF IInv, Generations
  <2>7. PICK next \in {reconcile(session', view')} : Publish(next)
    BY <2>1 DEF openSource, SessionChanged
  <2>8. next = Inactive
    BY <2>2, <2>7, ReconcileKeepsMedia DEF IInv, PreviewIsCurrent
  <2>9. Details' /\ Shown' /\ PreviewIsCurrent'
    BY <1>1, <2>2, <2>4, <2>7, <2>8, PublishKeeps DEF Placed
  <2> QED
    BY <2>5, <2>6, <2>9 DEF IInv
<1>3. CASE ~CurrentPick(call)
  <2>1. UNCHANGED <<sourceDisplayName, locator, backendVars, sessionVars, previewVars>>
    BY <1>3 DEF FolderPicked
  <2>2. session' \in 0 .. sources'
    BY <1>1, <2>1 DEF sessionVars
  <2>3. Sessions'
    BY <1>1, <2>1, <2>2 DEF IInv, Sessions, backendVars, sessionVars
  <2>4. Generations'
    <3>1. Begun' = Begun
      BY <2>1 DEF Begun, backendVars
    <3> QED
      BY <2>1, <3>1 DEF IInv, Generations, backendVars, sessionVars
  <2>5. Details' /\ Shown' /\ PreviewIsCurrent'
    BY <2>1 DEF IInv, Details, DetailInv, Shown, PreviewIsCurrent, backendVars, sessionVars, previewVars
  <2> QED
    BY <2>3, <2>4, <2>5 DEF IInv
<1> QED
  BY <1>2, <1>3

-----------------------------------------------------------------------------
(* The scan.                                                               *)

(* A session is given a generation no other session has.                   *)
LEMMA BeginSessionKeeps ==
  ASSUME IInv, NEW s \in opening, begin_session(s),
         UNCHANGED <<pickVars, sessionVars, previewVars>>
  PROVE  IInv'
<1>1. /\ opening' = opening \ {s} /\ owner' = s /\ root' = locator[s] /\ nextKey' = 0
      /\ generation' = [generation EXCEPT ![s] = 1 + Cardinality(Begun)]
      /\ UNCHANGED <<sources, locator, sourceDisplayName, session>>
  BY DEF begin_session, Begun, pickVars, sessionVars
<1>2. /\ s \in 1 .. session /\ s \in Session /\ generation[s] = 0
      /\ generation \in [Session -> Nat] /\ session \in Nat
  <2>1. sources \in 0 .. MaxSessions /\ session \in 0 .. sources /\ s \in 1 .. session
    BY DEF IInv, Sessions
  <2>2. s \in Session /\ session \in Nat
    BY <2>1, Constants
  <2> QED
    BY <2>1, <2>2 DEF IInv, Generations
<1>3. Begun' = Begun \cup {s} /\ s \notin Begun
  <2>1. \A t \in Session : generation'[t] = IF t = s THEN 1 + Cardinality(Begun) ELSE generation[t]
    BY <1>1, <1>2
  <2>2. 1 + Cardinality(Begun) # 0
    BY BegunIsFinite
  <2>3. \A t : t \in Begun' <=> t \in Begun \cup {s}
    BY <1>2, <2>1, <2>2 DEF Begun
  <2> QED
    BY <1>2, <2>3 DEF Begun
<1>4. Cardinality(Begun) \in Nat /\ Cardinality(Begun') = Cardinality(Begun) + 1
  BY <1>3, BegunIsFinite, CountGains
<1>5. Sessions'
  <2>1. s \in 0 .. session
    BY <1>2
  <2>2. s # NoSession
    BY <1>2, Constants
  <2> QED
    BY <1>1, <2>1, <2>2, Constants DEF IInv, Sessions
<1>6. Generations'
  <2>1. generation' \in [Session -> Nat] /\ generation'[s] = Cardinality(Begun')
    BY <1>1, <1>2, <1>4
  <2>2. \A t \in Session : t # s => generation'[t] = generation[t]
    BY <1>1, <1>2
  <2>3. ASSUME NEW t \in Session, t > session' \/ t \in opening' PROVE generation'[t] = 0
    <3>1. t # s /\ (t > session \/ t \in opening)
      BY <1>1, <1>2, <2>3, Constants
    <3> QED
      BY <2>2, <3>1 DEF IInv, Generations
  <2>4. ASSUME NEW t \in Session PROVE generation'[t] <= Cardinality(Begun')
    <3>1. generation[t] <= Cardinality(Begun) /\ generation[t] \in Nat
      BY <1>2 DEF IInv, Generations
    <3> QED
      BY <1>4, <2>1, <2>2, <3>1
  <2>5. ASSUME NEW t \in Begun PROVE generation'[t] # generation'[s] /\ generation'[t] = generation[t]
    <3>1. generation[t] <= Cardinality(Begun) /\ generation[t] \in Nat /\ t \in Session
      BY <1>2 DEF IInv, Generations, Begun
    <3> QED
      BY <1>3, <1>4, <2>1, <2>2, <3>1
  <2>6. \A t, u \in Begun' : generation'[t] = generation'[u] => t = u
    BY <1>3, <2>5 DEF IInv, Generations
  <2>7. owner' # NoSession => generation'[owner'] # 0
    BY <1>1, <1>4, <2>1
  <2> QED
    BY <2>1, <2>3, <2>4, <2>6, <2>7 DEF Generations
<1>7. Details'
  <2>1. ASSUME NEW d \in details PROVE DetailInv(d)'
    <3>1. DetailInv(d)
      BY DEF IInv, Details
    <3>2. d.session \in Session
      <4>1. sources \in 0 .. MaxSessions /\ session \in 0 .. sources /\ d.session \in 1 .. session
        BY <3>1 DEF DetailInv, IInv, Sessions
      <4> QED
        BY <4>1, Constants
    <3>3. d.key.generation \in {0, generation'[d.session]}
      BY <1>1, <1>2, <3>1, <3>2 DEF DetailInv
    <3> QED
      BY <1>1, <3>1, <3>3 DEF DetailInv, previewVars
  <2> QED
    BY <2>1 DEF Details, previewVars
<1>8. Shown' /\ PreviewIsCurrent'
  BY DEF IInv, Shown, PreviewIsCurrent, pickVars, sessionVars, previewVars
<1> QED
  BY <1>5, <1>6, <1>7, <1>8 DEF IInv

LEMMA ScanKeeps ==
  ASSUME IInv, Scan
  PROVE  IInv'
<1>1. UNCHANGED <<pickVars, sessionVars, previewVars>>
  BY DEF Scan
<1>2. ASSUME NEW s \in opening, begin_session(s) PROVE IInv'
  BY <1>1, <1>2, BeginSessionKeeps
<1>3. CASE SendItem \/ ScanEnds
  <2>1. /\ opening' \subseteq opening /\ nextKey' \in Nat /\ (nextKey' # 0 => owner # NoSession)
        /\ UNCHANGED <<owner, root, generation>>
    <3>1. CASE SendItem
      <4>1. nextKey \in Nat /\ nextKey' = nextKey + 1 /\ session # NoSession /\ owner = session
        BY <3>1 DEF SendItem, IInv, Sessions
      <4> QED
        BY <3>1, <4>1 DEF SendItem
    <3>2. CASE ScanEnds
      BY <3>2 DEF ScanEnds, IInv, Sessions
    <3> QED
      BY <1>3, <3>1, <3>2
  <2>2. Sessions'
    BY <1>1, <2>1 DEF IInv, Sessions, pickVars, sessionVars
  <2>3. Generations'
    <3>1. Begun' = Begun
      BY <2>1 DEF Begun
    <3> QED
      BY <1>1, <2>1, <3>1 DEF IInv, Generations, sessionVars
  <2>4. Details' /\ Shown' /\ PreviewIsCurrent'
    BY <1>1, <2>1
    DEF IInv, Details, DetailInv, Shown, PreviewIsCurrent, pickVars, sessionVars, previewVars
  <2> QED
    BY <2>2, <2>3, <2>4 DEF IInv
<1> QED
  BY <1>2, <1>3 DEF Scan

-----------------------------------------------------------------------------
(* A detail is read.                                                       *)

LEMMA OneElementSequence ==
  ASSUME NEW x
  PROVE  SetToSeq({x}) = <<x>>
<1> DEFINE Orders == [1 .. 1 -> {x}]
<1>1. Cardinality({x}) = 1
  BY FS_Singleton
<1>2. <<x>> \in Orders /\ IsInjective(<<x>>)
  BY DEF IsInjective
<1>3. \A f \in Orders : f = <<x>>
  OBVIOUS
<1>4. SetToSeq({x}) = CHOOSE f \in Orders : IsInjective(f)
  BY <1>1 DEF SetToSeq
<1> HIDE DEF Orders
<1> QED
  BY <1>2, <1>3, <1>4

(* A key stands for the file of its own session, or for none.              *)
LEMMA KeyServesItsSession ==
  ASSUME IInv, NEW d \in details, resolve(d.key) # {}
  PROVE  resolve(d.key) = {[source |-> locator[d.session], item |-> d.media]}
<1>1. DetailInv(d)
  BY DEF IInv, Details
<1>2. PICK i \in 1 .. nextKey : d.key.number = i /\ d.key.generation = generation[owner]
  BY DEF resolve
<1>3. owner # NoSession /\ generation[owner] # 0 /\ root = locator[owner]
  <2>1. nextKey # 0
    BY <1>2 DEF IInv, Sessions
  <2> QED
    BY <2>1 DEF IInv, Sessions, Generations
<1>4. owner \in Session /\ d.session \in Session
  <2>1. /\ sources \in 0 .. MaxSessions /\ session \in 0 .. sources /\ d.session \in 1 .. session
        /\ owner \in 0 .. session
    BY <1>1 DEF DetailInv, IInv, Sessions
  <2> QED
    BY <1>3, <2>1, Constants
<1>5. generation[d.session] = generation[owner]
  BY <1>1, <1>2, <1>3 DEF DetailInv
<1>6. owner = d.session
  BY <1>3, <1>4, <1>5 DEF IInv, Generations, Begun
<1>7. i = d.media /\ \A j \in 1 .. nextKey :
        d.key.number = j /\ d.key.generation = generation[owner] <=> j = i
  BY <1>1, <1>2 DEF DetailInv
<1> QED
  BY <1>3, <1>6, <1>7 DEF resolve

LEMMA DetailResolvesKeeps ==
  ASSUME IInv, NEW d \in details, DetailResolves(d)
  PROVE  IInv'
<1>1. /\ d.stage = "sent" /\ DetailInv(d)
      /\ UNCHANGED <<pickVars, backendVars, sessionVars, active, preview, latest>>
  BY DEF DetailResolves, IInv, Details
<1>2. PICK next \in {IF resolve(d.key) = {} THEN [d EXCEPT !.stage = "refused"]
                     ELSE [d EXCEPT !.stage = "found", !.path = SetToSeq(resolve(d.key))]} :
        details' = (details \ {d}) \cup {next}
  BY DEF DetailResolves
<1>3. DetailInv(next)
  <2>1. CASE resolve(d.key) = {}
    <3>1. next = [d EXCEPT !.stage = "refused"]
      BY <1>2, <2>1
    <3>2. /\ DOMAIN next = DOMAIN d /\ next.call = d.call /\ next.session = d.session
          /\ next.media = d.media /\ next.key = d.key /\ next.stage = "refused"
      BY <1>1, <3>1 DEF DetailInv
    <3> QED
      BY <1>1, <3>2 DEF DetailInv
  <2>2. CASE resolve(d.key) # {}
    <3>1. next = [d EXCEPT !.stage = "found",
                           !.path = <<[source |-> locator[d.session], item |-> d.media]>>]
      BY <1>2, <2>2, KeyServesItsSession, OneElementSequence
    <3>2. /\ DOMAIN next = DOMAIN d /\ next.call = d.call /\ next.session = d.session
          /\ next.media = d.media /\ next.key = d.key
          /\ next.path = <<[source |-> locator[d.session], item |-> d.media]>>
      BY <1>1, <3>1 DEF DetailInv
    <3> QED
      BY <1>1, <3>2 DEF DetailInv
  <2> QED
    BY <2>1, <2>2
<1>4. Sessions' /\ Generations'
  BY <1>1, BackendStays DEF pickVars, sessionVars
<1>5. Details'
  BY <1>1, <1>2, <1>3
  DEF IInv, Details, DetailInv, pickVars, backendVars, sessionVars
<1>6. Shown' /\ PreviewIsCurrent'
  BY <1>1 DEF IInv, Shown, PreviewIsCurrent, pickVars, sessionVars
<1> QED
  BY <1>4, <1>5, <1>6 DEF IInv

LEMMA DetailArrivesKeeps ==
  ASSUME IInv, NEW d \in details, DetailArrives(d)
  PROVE  IInv'
<1>1. /\ DetailInv(d) /\ details' = details \ {d}
      /\ UNCHANGED <<pickVars, backendVars, sessionVars, active, latest>>
  BY DEF DetailArrives, IInv, Details
<1>2. Sessions' /\ Generations'
  BY <1>1, BackendStays DEF pickVars, sessionVars
<1>3. Details'
  BY <1>1 DEF IInv, Details, DetailInv, pickVars, backendVars, sessionVars
<1>4. CASE isCurrentRequest(d)
  <2>1. /\ active # Inactive /\ d.session = active.session /\ d.media = active.media
        /\ active.session = session /\ sourceDisplayName = locator[d.session]
    BY <1>1, <1>4 DEF isCurrentRequest, DetailInv, IInv, Sessions, Shown, PreviewIsCurrent
  <2>2. PICK detail \in Answers(d) :
          preview' = [status |-> IF detail = <<>> THEN "error" ELSE "ready",
                      session |-> d.session, media |-> d.media, detail |-> detail]
    BY <1>4 DEF DetailArrives
  <2>3. detail = <<>> \/ detail = <<[source |-> sourceDisplayName, item |-> active.media]>>
    BY <1>1, <2>1, <2>2 DEF Answers, DetailInv
  <2>4. Shown' /\ PreviewIsCurrent'
    BY <1>1, <2>1, <2>2, <2>3 DEF IInv, Shown, PreviewIsCurrent, pickVars, sessionVars
  <2> QED
    BY <1>2, <1>3, <2>4 DEF IInv
<1>5. CASE ~isCurrentRequest(d)
  <2>1. preview' = preview
    BY <1>5 DEF DetailArrives
  <2>2. Shown' /\ PreviewIsCurrent'
    BY <1>1, <2>1 DEF IInv, Shown, PreviewIsCurrent, pickVars, sessionVars
  <2> QED
    BY <1>2, <1>3, <2>2 DEF IInv
<1> QED
  BY <1>4, <1>5

-----------------------------------------------------------------------------
(* The theorems.                                                           *)

LEMMA InitEstablishes == Init => IInv
<1> SUFFICES ASSUME Init PROVE IInv
  OBVIOUS
<1>1. Sessions
  BY Constants DEF Init, Sessions, NoSource
<1>2. Generations
  <2>1. Begun = {}
    BY DEF Init, Begun
  <2>2. Cardinality(Begun) = 0
    BY <2>1, FS_EmptySet
  <2> QED
    BY <2>1, <2>2 DEF Init, Generations
<1>3. Details /\ Shown /\ PreviewIsCurrent
  BY Constants DEF Init, Details, Shown, PreviewIsCurrent
<1> QED
  BY <1>1, <1>2, <1>3 DEF IInv

LEMMA StepKeeps == IInv /\ [Next]_vars => IInv'
<1> SUFFICES ASSUME IInv, [Next]_vars PROVE IInv'
  OBVIOUS
<1>1. CASE pickAndOpenSource
  BY <1>1, NothingChanges DEF pickAndOpenSource
<1>2. ASSUME NEW call \in picks, NothingPicked(call) PROVE IInv'
  BY <1>2, NothingChanges DEF NothingPicked
<1>3. ASSUME NEW call \in picks, FolderPicked(call) PROVE IInv'
  BY <1>3, FolderPickedKeeps
<1>4. CASE Scan
  BY <1>4, ScanKeeps
<1>5. CASE ScreenChanges
  BY <1>5, ScreenChangesKeeps
<1>6. CASE (\E i \in Item : activate(i)) \/ activatePrevious \/ activateNext \/ clear
  BY <1>6, NavigationKeeps
<1>7. ASSUME NEW d \in details, DetailResolves(d) PROVE IInv'
  BY <1>7, DetailResolvesKeeps
<1>8. ASSUME NEW d \in details, DetailArrives(d) PROVE IInv'
  BY <1>8, DetailArrivesKeeps
<1>9. CASE dispose
  BY <1>9, DisposeKeeps
<1>10. CASE UNCHANGED vars
  BY <1>10, NothingChanges DEF vars, pickVars
<1> QED
  BY <1>1, <1>2, <1>3, <1>4, <1>5, <1>6, <1>7, <1>8, <1>9, <1>10 DEF Next

\* The preview keeps its inductive invariant: no generation is given to two
\* sessions, and a call for a detail asks for its own session's file, whatever
\* the picker, the scan and the user do meanwhile.
THEOREM Invariance == Safe => []IInv
BY InitEstablishes, StepKeeps, PTL DEF Safe

\* The preview shows the active item of the session on the screen, at its place,
\* and no other detail than its own, for any number of pickers, sessions and calls.
THEOREM PreviewIsCurrentHolds == Safe => []PreviewIsCurrent
<1>1. IInv => PreviewIsCurrent
  BY DEF IInv
<1> QED
  BY <1>1, Invariance, PTL

LEMMA StepKeepsChoice ==
  ASSUME IInv, [Next]_vars
  PROVE  [/\ session' # session => pickGeneration \in picks \ picks'
          /\ session' = session /\ view' # view /\ active' # Inactive => active'.media = active.media
         ]_vars
<1>1. ASSUME session' # session PROVE pickGeneration \in picks \ picks'
  <2>1. PICK call \in picks : FolderPicked(call)
    BY <1>1
    DEF Next, pickAndOpenSource, NothingPicked, Scan, ScreenChanges, BatchArrives, EndArrives,
        setIncludedKinds, setSort, activate, activatePrevious, activateNext, activateIndex, clear,
        DetailResolves, DetailArrives, dispose, sessionVars, vars
  <2> QED
    BY <1>1, <2>1 DEF FolderPicked, CurrentPick, sessionVars
<1>2. ASSUME session' = session, view' # view, active' # Inactive
      PROVE  active'.media = active.media
  <2>1. \A call \in picks : ~FolderPicked(call)
    <3> SUFFICES ASSUME NEW call \in picks, FolderPicked(call) PROVE FALSE
      OBVIOUS
    <3>1. session' = session + 1
      BY <1>2 DEF FolderPicked, openSource, sessionVars
    <3>2. session \in Nat
      BY DEF IInv, Sessions
    <3> QED
      BY <1>2, <3>1, <3>2
  <2>2. ScreenChanges
    BY <1>2, <2>1
    DEF Next, pickAndOpenSource, NothingPicked, Scan, activate, activatePrevious, activateNext,
        activateIndex, clear, DetailResolves, DetailArrives, dispose, sessionVars, vars
  <2>3. PICK next \in {reconcile(session', view')} : Publish(next)
    BY <2>2 DEF ScreenChanges, BatchArrives, EndArrives, setIncludedKinds, setSort, SessionChanged
  <2>4. active' = next
    BY <2>3 DEF Publish, previewVars
  <2> QED
    BY <1>2, <2>3, <2>4, ReconcileKeepsMedia
<1> QED
  BY <1>1, <1>2

\* The source on the screen is replaced by the answer of the latest picker alone,
\* in the step that answers that picker and no earlier or later one, and what the session does makes no other item active, for any number of
\* pickers, sessions and items.
THEOREM ChoiceStaysHolds == Safe => ChoiceStays
BY Invariance, StepKeepsChoice, PTL DEF Safe, ChoiceStays

-----------------------------------------------------------------------------
(* A set of items in an order.                                             *)

(* Each order is one of all items: equal sort keys keep that of the source. *)
LEMMA PrecedesOrders ==
  ASSUME NEW order \in Sort, NEW i \in Item, NEW j \in Item, NEW k \in Item
  PROVE  /\ ~Precedes(order, i, i)
         /\ i = j \/ Precedes(order, i, j) \/ Precedes(order, j, i)
         /\ Precedes(order, i, j) /\ Precedes(order, j, k) => Precedes(order, i, k)
<1>1. Item \subseteq Nat
  BY MediaIndexAssumption DEF Item
<1>2. CASE order = "source"
  BY <1>1, <1>2 DEF Precedes
<1>3. CASE order # "source"
  <2>1. RankOf[order] \in [Item -> Nat]
    BY <1>3, MediaIndexAssumption DEF Sort
  <2>2. RankOf[order][i] \in Nat /\ RankOf[order][j] \in Nat /\ RankOf[order][k] \in Nat
    BY <2>1
  <2> QED
    BY <1>1, <1>3, <2>2 DEF Precedes
<1> QED
  BY <1>2, <1>3

Ahead(items, order, i) == {j \in items : Precedes(order, j, i)}
Place(items, order, i) == Cardinality(Ahead(items, order, i))

LEMMA ItemsAreFinite ==
  ASSUME NEW items \in SUBSET Item
  PROVE  IsFiniteSet(items) /\ Cardinality(items) \in Nat
<1>1. IsFiniteSet(Item)
  BY MediaIndexAssumption, FS_Interval DEF Item
<1> QED
  BY <1>1, FS_Subset, FS_CardinalityType

(* Every item has a place of its own.                                      *)
LEMMA PlacesDiffer ==
  ASSUME NEW items \in SUBSET Item, NEW order \in Sort, NEW i \in items
  PROVE  /\ Place(items, order, i) \in 0 .. Cardinality(items) - 1
         /\ \A j \in items : Place(items, order, i) = Place(items, order, j) => i = j
<1>1. IsFiniteSet(items) /\ Cardinality(items) \in Nat
  BY ItemsAreFinite
<1>2. \A j \in items : /\ IsFiniteSet(Ahead(items, order, j))
                       /\ Place(items, order, j) \in Nat
                       /\ j \notin Ahead(items, order, j)
  <2> SUFFICES ASSUME NEW j \in items
               PROVE  /\ IsFiniteSet(Ahead(items, order, j)) /\ Place(items, order, j) \in Nat
                      /\ j \notin Ahead(items, order, j)
    OBVIOUS
  <2>1. Ahead(items, order, j) \in SUBSET Item
    BY DEF Ahead
  <2>2. j \notin Ahead(items, order, j)
    BY PrecedesOrders DEF Ahead
  <2> QED
    BY <2>1, <2>2, ItemsAreFinite DEF Place
<1>3. \A j \in items : Cardinality(Ahead(items, order, j) \cup {j}) = Place(items, order, j) + 1
  BY <1>2, FS_AddElement DEF Place
<1>4. ASSUME NEW j \in items, NEW k \in items, Precedes(order, j, k)
      PROVE  Place(items, order, j) < Place(items, order, k)
  <2>1. Ahead(items, order, j) \cup {j} \subseteq Ahead(items, order, k)
    BY <1>4, PrecedesOrders DEF Ahead
  <2>2. Cardinality(Ahead(items, order, j) \cup {j}) <= Place(items, order, k)
    BY <1>2, <2>1, FS_Subset DEF Place
  <2> QED
    BY <1>2, <1>3, <2>2
<1>5. Place(items, order, i) \in 0 .. Cardinality(items) - 1
  <2>1. Ahead(items, order, i) \cup {i} \subseteq items
    BY DEF Ahead
  <2>2. Cardinality(Ahead(items, order, i) \cup {i}) <= Cardinality(items)
    BY <1>1, <2>1, FS_Subset
  <2> QED
    BY <1>1, <1>2, <1>3, <2>2
<1>6. ASSUME NEW j \in items, Place(items, order, i) = Place(items, order, j) PROVE i = j
  <2>1. i = j \/ Precedes(order, i, j) \/ Precedes(order, j, i)
    BY PrecedesOrders
  <2> QED
    BY <1>2, <1>4, <1>6, <2>1
<1> QED
  BY <1>5, <1>6

(* A sorted sequence has every item of the set at its place.               *)
LEMMA SortedAtPlace ==
  ASSUME NEW items \in SUBSET Item, NEW order \in Sort
  PROVE  /\ Sorted(items, order) \in Seq(items) /\ Cardinality(items) \in Nat
         /\ Len(Sorted(items, order)) = Cardinality(items)
         /\ \A at \in 1 .. Cardinality(items) :
              /\ Sorted(items, order)[at] \in items
              /\ Place(items, order, Sorted(items, order)[at]) = at - 1
         /\ \A i \in items : Sorted(items, order)[Place(items, order, i) + 1] = i
<1> DEFINE c == Cardinality(items)
           sorted == Sorted(items, order)
           P(i) == Place(items, order, i)
<1>1. IsFiniteSet(items) /\ c \in Nat
  BY ItemsAreFinite
<1>2. \A i \in items : P(i) \in 0 .. c - 1 /\ \A j \in items : P(i) = P(j) => i = j
  BY PlacesDiffer
<1>3. sorted = [at \in 1 .. c |-> CHOOSE i \in items : P(i) = at - 1]
  BY DEF Sorted, Place, Ahead
<1> HIDE DEF P, sorted, c
<1>4. ASSUME NEW at \in 1 .. c PROVE \E i \in items : P(i) = at - 1
  <2> DEFINE f == [i \in items |-> P(i)]
             T == 0 .. c - 1
  <2>1. IsFiniteSet(T) /\ Cardinality(T) = c
    BY <1>1, FS_Interval
  <2>2. f \in Injection(items, T)
    BY <1>2 DEF Injection, IsInjective
  <2>3. f \in Surjection(items, T)
    BY <1>1, <2>1, <2>2, FS_Injection DEF c
  <2>4. at - 1 \in T
    BY <1>1
  <2>5. PICK i \in items : f[i] = at - 1
    BY <2>3, <2>4 DEF Surjection
  <2> QED
    BY <2>5
<1>5. ASSUME NEW at \in 1 .. c PROVE sorted[at] \in items /\ P(sorted[at]) = at - 1
  BY <1>3, <1>4
<1>6. sorted \in Seq(items) /\ Len(sorted) = c
  BY <1>1, <1>3, <1>5
<1>7. ASSUME NEW i \in items PROVE sorted[P(i) + 1] = i
  <2>1. P(i) + 1 \in 1 .. c /\ (P(i) + 1) - 1 = P(i)
    BY <1>1, <1>2
  <2> QED
    BY <1>2, <1>5, <2>1
<1> QED
  BY <1>1, <1>5, <1>6, <1>7 DEF P, sorted, c

(* In the order of the source, later items go behind.                      *)
LEMMA LaterItemsGoBehind ==
  ASSUME NEW A \in SUBSET Item, NEW B \in SUBSET Item, \A i \in A, j \in B : i < j
  PROVE  Sorted(A \cup B, "source") = Sorted(A, "source") \o Sorted(B, "source")
<1> DEFINE C == A \cup B
           a == Sorted(A, "source")
           b == Sorted(B, "source")
           s == Sorted(C, "source")
<1>1. "source" \in Sort /\ C \in SUBSET Item /\ Item \subseteq Nat
  <2>1. "source" \in Sort
    BY DEF Sort
  <2>2. Item \subseteq Nat
    BY MediaIndexAssumption DEF Item
  <2> QED
    BY <2>1, <2>2
<1>2. /\ a \in Seq(A) /\ Cardinality(A) \in Nat /\ Len(a) = Cardinality(A)
      /\ \A at \in 1 .. Len(a) : a[at] \in A /\ Place(A, "source", a[at]) = at - 1
  BY <1>1, SortedAtPlace
<1>3. /\ b \in Seq(B) /\ Cardinality(B) \in Nat /\ Len(b) = Cardinality(B)
      /\ \A at \in 1 .. Len(b) : b[at] \in B /\ Place(B, "source", b[at]) = at - 1
  BY <1>1, SortedAtPlace
<1>4. /\ s \in Seq(C) /\ Len(s) = Cardinality(C)
      /\ \A i \in C : s[Place(C, "source", i) + 1] = i
  BY <1>1, SortedAtPlace
<1>5. IsFiniteSet(A) /\ IsFiniteSet(B)
  BY ItemsAreFinite
<1>6. Len(s) = Len(a) + Len(b)
  <2>1. A \cap B = {}
    BY <1>1
  <2>2. Cardinality(C) = Cardinality(A) + Cardinality(B) - Cardinality(A \cap B)
    BY <1>5, FS_Union
  <2>3. Cardinality(A \cap B) = 0
    BY <2>1, FS_EmptySet
  <2> HIDE DEF a, b, s, C
  <2> QED
    BY <1>2, <1>3, <1>4, <2>2, <2>3
<1>7. ASSUME NEW i \in A PROVE Place(C, "source", i) = Place(A, "source", i)
  <2>1. \A j \in C : j < i => j \in A
    BY <1>1
  <2>2. \A j : Precedes("source", j, i) <=> j < i
    BY DEF Precedes
  <2>3. Ahead(C, "source", i) = Ahead(A, "source", i)
    BY <2>1, <2>2 DEF Ahead
  <2> QED
    BY <2>3 DEF Place
<1>8. ASSUME NEW i \in B PROVE Place(C, "source", i) = Cardinality(A) + Place(B, "source", i)
  <2>1. /\ Ahead(C, "source", i) = A \cup Ahead(B, "source", i)
        /\ A \cap Ahead(B, "source", i) = {} /\ Ahead(B, "source", i) \in SUBSET Item
    <3>1. \A j : Precedes("source", j, i) <=> j < i
      BY DEF Precedes
    <3>2. \A j \in A : j < i /\ ~(j \in B)
      BY <1>1
    <3> QED
      BY <3>1, <3>2 DEF Ahead
  <2>2. IsFiniteSet(Ahead(B, "source", i)) /\ Place(B, "source", i) \in Nat
    BY <2>1, ItemsAreFinite DEF Place
  <2>3. Place(C, "source", i) = Cardinality(A) + Place(B, "source", i) - Cardinality({})
    BY <1>5, <2>1, <2>2, FS_Union DEF Place
  <2> QED
    BY <1>2, <2>2, <2>3, FS_EmptySet
<1> HIDE DEF a, b, s, C
<1>9. ASSUME NEW at \in 1 .. Len(a) PROVE s[at] = a[at]
  <2>1. a[at] \in A /\ Place(A, "source", a[at]) + 1 = at
    BY <1>2
  <2> QED
    BY <1>4, <1>7, <2>1 DEF C
<1>10. ASSUME NEW at \in 1 .. Len(b) PROVE s[Len(a) + at] = b[at]
  <2>1. b[at] \in B /\ Cardinality(A) + Place(B, "source", b[at]) + 1 = Len(a) + at
    BY <1>2, <1>3
  <2> QED
    BY <1>4, <1>8, <2>1 DEF C
<1>11. /\ Len(a \o b) = Len(a) + Len(b) /\ a \o b \in Seq(Item) /\ s \in Seq(Item)
       /\ \A at \in 1 .. Len(a) : (a \o b)[at] = a[at]
       /\ \A at \in 1 .. Len(b) : (a \o b)[Len(a) + at] = b[at]
  <2>1. A \subseteq Item /\ B \subseteq Item /\ C \subseteq Item
    BY DEF C
  <2>2. a \in Seq(Item) /\ b \in Seq(Item) /\ s \in Seq(Item)
    BY <1>2, <1>3, <1>4, <2>1
  <2> QED
    BY <2>2
<1>12. ASSUME NEW at \in 1 .. Len(s) PROVE s[at] = (a \o b)[at]
  <2>1. CASE at <= Len(a)
    BY <1>2, <1>9, <1>11, <2>1
  <2>2. CASE ~(at <= Len(a))
    <3>1. at - Len(a) \in 1 .. Len(b) /\ Len(a) + (at - Len(a)) = at
      BY <1>2, <1>3, <1>6, <2>2
    <3> QED
      BY <1>10, <1>11, <3>1
  <2> QED
    BY <2>1, <2>2
<1>13. s = a \o b
  BY <1>6, <1>11, <1>12, SeqEqual
<1> QED
  BY <1>13 DEF s, a, b, C

(* Items appended in the order of the source are the projection rebuilt.   *)
LEMMA UpsertIsRebuild ==
  ASSUME NEW n \in 0 .. ItemCount, NEW m \in n .. ItemCount, NEW kinds
  PROVE  upsertMany(rebuildProjection(n, kinds, "source"), n, m, kinds, "source")
           = rebuildProjection(m, kinds, "source")
<1> DEFINE A == {i \in 1 .. n : Included(i, kinds)}
           B == {i \in n + 1 .. m : Included(i, kinds)}
<1>1. /\ A \in SUBSET Item /\ B \in SUBSET Item /\ \A i \in A, j \in B : i < j
      /\ A \cup B = {i \in 1 .. m : Included(i, kinds)}
  BY MediaIndexAssumption DEF Item
<1>2. Sorted(A \cup B, "source") = Sorted(A, "source") \o Sorted(B, "source")
  BY <1>1, LaterItemsGoBehind
<1> QED
  BY <1>1, <1>2 DEF upsertMany, rebuildProjection

LEMMA ProjectionOfItems ==
  ASSUME NEW n \in 0 .. ItemCount, NEW kinds, NEW order \in Sort
  PROVE  rebuildProjection(n, kinds, order) \in Seq(Item)
<1>1. {i \in 1 .. n : Included(i, kinds)} \in SUBSET Item
  BY MediaIndexAssumption DEF Item
<1> QED
  <2> DEFINE S == {i \in 1 .. n : Included(i, kinds)}
  <2>1. Sorted(S, order) \in Seq(S) /\ S \subseteq Item
    BY <1>1, SortedAtPlace
  <2> HIDE DEF S
  <2>2. Sorted(S, order) \in Seq(Item)
    BY <2>1
  <2> QED
    BY <2>2 DEF rebuildProjection, S

LEMMA ProjectionOfNothing ==
  ASSUME NEW kinds, NEW order
  PROVE  rebuildProjection(0, kinds, order) = <<>>
<1>1. {i \in 1 .. 0 : Included(i, kinds)} = {} /\ Cardinality({}) = 0
  BY FS_EmptySet
<1> QED
  BY <1>1 DEF rebuildProjection, Sorted

-----------------------------------------------------------------------------
(* Types.  The view the controller keeps by appending is the one rebuilt.  *)

PickTypes ==
  /\ picks \subseteq 1 .. MaxPicks /\ pickGeneration \in 0 .. MaxPicks
  /\ sources \in 0 .. MaxSessions /\ sourceDisplayName \in 0 .. sources
  /\ locator \in [Session -> 0 .. sources]

BackendTypes ==
  /\ opening \subseteq Session /\ ended \in BOOLEAN
  /\ owner \in Session \cup {NoSession} /\ root \in Source \cup {NoSource}
  /\ generation \in [Session -> 0 .. MaxSessions]

\* The items sent are keys of the session's own registration.
Counts ==
  /\ nextKey \in 0 .. ItemCount /\ received \in 0 .. ItemCount /\ sent \in received .. ItemCount
  /\ session = NoSession \/ generation[session] = 0 => sent = 0
  /\ session # NoSession /\ owner = session => sent <= nextKey

ScreenTypes ==
  /\ session \in Session \cup {NoSession} /\ terminal \in BOOLEAN
  /\ viewSort = (IF terminal THEN sort ELSE "source") /\ sort \in Sort
  /\ view = rebuildProjection(received, includedKinds, viewSort)

PreviewTypes ==
  /\ preview.status \in {"idle", "loading", "ready", "error"} /\ latest \in 0 .. MaxDetails
  /\ \A d \in details : d.call \in 1 .. MaxDetails /\ d.key \in Key
                         /\ d.stage \in {"sent", "found", "refused"}

Types == PickTypes /\ BackendTypes /\ Counts /\ ScreenTypes /\ PreviewTypes

(* What a new active item does to the preview.                             *)
LEMMA PublishTypes ==
  ASSUME PreviewTypes, NEW next, Publish(next), Placed(next),
         ScreenTypes', received' \in 0 .. ItemCount, generation \in [Session -> 0 .. MaxSessions]
  PROVE  PreviewTypes'
<1>1. CASE next = active
  BY <1>1 DEF Publish, previewVars, PreviewTypes
<1>2. CASE next # active
  <2>1. onActivationChanged(next)
    BY <1>2 DEF Publish
  <2>2. CASE preview' = Idle /\ latest' = None /\ UNCHANGED details
    BY <2>2, PreviewAssumption DEF PreviewTypes, Idle, None
  <2>3. CASE ~(preview' = Idle /\ latest' = None /\ UNCHANGED details)
    <3>1. next # Inactive
      BY <2>1, <2>3 DEF onActivationChanged
    <3>2. PICK call \in 1 .. MaxDetails :
            /\ latest' = call
            /\ preview' = [status |-> "loading", session |-> next.session,
                           media |-> next.media, detail |-> <<>>]
            /\ details' = details \cup
                 {[call |-> call, session |-> next.session, media |-> next.media, stage |-> "sent",
                   key |-> [generation |-> generation[next.session], number |-> next.media],
                   path |-> <<>>]}
      BY <2>1, <2>3 DEF onActivationChanged
    <3>3. view' \in Seq(Item)
      <4>1. viewSort' \in Sort
        BY DEF ScreenTypes, Sort
      <4> QED
        BY <4>1, ProjectionOfItems DEF ScreenTypes
    <3>4. next.media \in Item /\ next.session \in Session
      BY <3>1, <3>3 DEF Placed, ScreenTypes
    <3>5. [generation |-> generation[next.session], number |-> next.media] \in Key
      BY <3>4 DEF Key
    <3> QED
      BY <3>2, <3>5, PreviewAssumption DEF PreviewTypes
  <2> QED
    BY <2>2, <2>3
<1> QED
  BY <1>1, <1>2

LEMMA InitTypes == Init => Types
<1> SUFFICES ASSUME Init PROVE Types
  OBVIOUS
<1>1. PickTypes
  BY PreviewAssumption DEF Init, PickTypes, None, NoSource
<1>2. BackendTypes
  <2>1. 0 \in 0 .. MaxSessions
    BY PreviewAssumption
  <2> QED
    BY <2>1 DEF Init, BackendTypes
<1>3. Counts
  BY MediaIndexAssumption DEF Init, Counts
<1>4. ScreenTypes
  BY ProjectionOfNothing DEF Init, ScreenTypes, Sort
<1>5. PreviewTypes
  BY PreviewAssumption DEF Init, PreviewTypes, Idle, None
<1> QED
  BY <1>1, <1>2, <1>3, <1>4, <1>5 DEF Types

LEMMA NavigationTypes ==
  ASSUME IInv, Types, (\E i \in Item : activate(i)) \/ activatePrevious \/ activateNext \/ clear
  PROVE  Types'
<1>1. UNCHANGED <<pickVars, backendVars, sessionVars>>
  BY DEF activate, activatePrevious, activateNext, activateIndex, clear
<1>2. PickTypes' /\ BackendTypes' /\ Counts' /\ ScreenTypes'
  BY <1>1 DEF Types, PickTypes, BackendTypes, Counts, ScreenTypes, pickVars, backendVars, sessionVars
<1>3. session # NoSession \/ clear
  BY DEF activate, activatePrevious, activateNext, Adjacent, IInv, Shown
<1>4. PICK next : Publish(next) /\ Placed(next)
  <2>1. CASE clear
    BY <2>1 DEF clear, Placed
  <2>2. ASSUME NEW at, activateIndex(at), session # NoSession
        PROVE  \E next : Publish(next) /\ Placed(next)
    BY <1>1, <2>2 DEF activateIndex, Placed, buildSnapshot, sessionVars
  <2> QED
    BY <1>3, <2>1, <2>2 DEF activate, activatePrevious, activateNext
<1>5. PreviewTypes'
  <2>1. received' \in 0 .. ItemCount
    BY <1>2 DEF Counts
  <2> QED
    BY <1>2, <1>4, <2>1, PublishTypes DEF Types, BackendTypes
<1> QED
  BY <1>2, <1>5 DEF Types

LEMMA ScreenChangesTypes ==
  ASSUME IInv, Types, ScreenChanges
  PROVE  Types'
<1>1. /\ SessionChanged /\ session' = session
      /\ UNCHANGED <<pickVars, backendVars>>
  BY DEF ScreenChanges, BatchArrives, EndArrives, setIncludedKinds, setSort
<1>2. /\ session \in Session \cup {NoSession} /\ terminal \in BOOLEAN /\ sort \in Sort
      /\ viewSort = (IF terminal THEN sort ELSE "source")
      /\ view = rebuildProjection(received, includedKinds, viewSort)
      /\ received \in 0 .. ItemCount /\ sent \in received .. ItemCount
  BY DEF Types, Counts, ScreenTypes
<1>3. ScreenTypes' /\ received' \in 0 .. ItemCount /\ sent \in received' .. ItemCount
  <2>1. CASE BatchArrives
    <3>1. PICK m \in received + 1 .. sent :
            received' = m /\ view' = upsertMany(view, received, m, includedKinds, viewSort)
      BY <2>1 DEF BatchArrives
    <3>2. UNCHANGED <<terminal, viewSort, includedKinds, sort>> /\ viewSort = "source"
      BY <1>2, <2>1 DEF BatchArrives
    <3>3. m \in received .. ItemCount /\ sent \in m .. ItemCount /\ m \in 0 .. ItemCount
      BY <1>2, <3>1, MediaIndexAssumption
    <3>4. upsertMany(view, received, m, includedKinds, "source")
            = rebuildProjection(m, includedKinds, "source")
      BY <1>2, <3>2, <3>3, UpsertIsRebuild
    <3> QED
      BY <1>1, <1>2, <3>1, <3>2, <3>3, <3>4 DEF ScreenTypes
  <2>2. CASE EndArrives
    BY <1>1, <1>2, <2>2 DEF EndArrives, ScreenTypes
  <2>3. ASSUME NEW kinds \in KindSet, setIncludedKinds(kinds)
        PROVE  ScreenTypes' /\ received' = received
    BY <1>1, <1>2, <2>3 DEF setIncludedKinds, ScreenTypes
  <2>4. ASSUME NEW order \in Sort, setSort(order)
        PROVE  ScreenTypes' /\ received' = received
    BY <1>1, <1>2, <2>4 DEF setSort, ScreenTypes
  <2> QED
    BY <1>2, <2>1, <2>2, <2>3, <2>4 DEF ScreenChanges, EndArrives
<1>4. PickTypes' /\ BackendTypes' /\ Counts'
  BY <1>1, <1>3 DEF Types, PickTypes, BackendTypes, Counts, pickVars, backendVars
<1>5. PICK next \in {reconcile(session', view')} : Publish(next)
  BY <1>1 DEF SessionChanged
<1>6. Placed(next)
  BY <1>1, <1>5, ReconcileKeepsMedia DEF Placed, IInv, Shown
<1>7. PreviewTypes'
  BY <1>3, <1>5, <1>6, PublishTypes DEF Types, BackendTypes
<1> QED
  BY <1>3, <1>4, <1>7 DEF Types

LEMMA FolderPickedTypes ==
  ASSUME IInv, Types, NEW call \in picks, FolderPicked(call)
  PROVE  Types'
<1>1. /\ sources < MaxSessions /\ sources' = sources + 1 /\ picks' = picks \ {call}
      /\ pickGeneration' = pickGeneration /\ sources \in 0 .. MaxSessions
      /\ session \in 0 .. sources /\ MaxSessions \in Nat
  BY Constants DEF FolderPicked, Types, PickTypes, IInv, Sessions
<1>2. sources' \in 1 .. MaxSessions /\ 0 .. sources \subseteq 0 .. sources'
  BY <1>1
<1>3. CASE CurrentPick(call)
  <2>1. sourceDisplayName' = sources' /\ openSource(sources')
    BY <1>3 DEF FolderPicked
  <2>2. /\ session' = session + 1 /\ received' = 0 /\ terminal' = FALSE /\ view' = <<>>
        /\ viewSort' = "source" /\ locator' = [locator EXCEPT ![session + 1] = sources']
        /\ opening' = opening \cup {session + 1} /\ sent' = 0 /\ ended' = FALSE
        /\ UNCHANGED <<sort, owner, root, nextKey, generation>>
    BY <2>1 DEF openSource
  <2>3. session' \in Session /\ session \in Nat /\ session' # session
    BY <1>1, <2>2, Constants
  <2>4. PickTypes'
    <3>1. locator' \in [Session -> 0 .. sources']
      <4>1. locator \in [Session -> 0 .. sources'] /\ sources' \in 0 .. sources'
        BY <1>2 DEF Types, PickTypes
      <4> QED
        BY <2>2, <4>1
    <3> QED
      BY <1>1, <1>2, <2>1, <3>1 DEF Types, PickTypes
  <2>5. BackendTypes'
    BY <2>2, <2>3 DEF Types, BackendTypes
  <2>6. Counts'
    <3>1. owner \in 0 .. session
      BY DEF IInv, Sessions
    <3>2. owner # session' /\ 0 \in 0 .. ItemCount
      BY <2>2, <2>3, <3>1, MediaIndexAssumption
    <3> QED
      BY <2>2, <3>2 DEF Types, Counts
  <2>7. ScreenTypes'
    BY <2>2, <2>3, ProjectionOfNothing DEF Types, ScreenTypes
  <2>8. PICK next \in {reconcile(session', view')} : Publish(next)
    BY <2>1 DEF openSource, SessionChanged
  <2>9. next = Inactive
    BY <2>3, <2>8, ReconcileKeepsMedia DEF IInv, PreviewIsCurrent
  <2>10. PreviewTypes'
    <3>1. received' \in 0 .. ItemCount
      BY <2>6 DEF Counts
    <3> QED
      BY <2>7, <2>8, <2>9, <3>1, PublishTypes DEF Types, BackendTypes, Placed
  <2> QED
    BY <2>4, <2>5, <2>6, <2>7, <2>10 DEF Types
<1>4. CASE ~CurrentPick(call)
  <2>1. UNCHANGED <<sourceDisplayName, locator, backendVars, sessionVars, previewVars>>
    BY <1>4 DEF FolderPicked
  <2>2. PickTypes'
    <3>1. locator \in [Session -> 0 .. sources']
      BY <1>2 DEF Types, PickTypes
    <3> QED
      BY <1>1, <1>2, <2>1, <3>1 DEF Types, PickTypes
  <2>3. BackendTypes' /\ Counts' /\ ScreenTypes' /\ PreviewTypes'
    BY <2>1 DEF Types, BackendTypes, Counts, ScreenTypes, PreviewTypes,
                backendVars, sessionVars, previewVars
  <2> QED
    BY <2>2, <2>3 DEF Types
<1> QED
  BY <1>3, <1>4

LEMMA ScanTypes ==
  ASSUME IInv, Types, Scan
  PROVE  Types'
<1>1. UNCHANGED <<pickVars, sessionVars, previewVars>>
  BY DEF Scan
<1>2. PickTypes' /\ ScreenTypes' /\ PreviewTypes'
  BY <1>1 DEF Types, PickTypes, ScreenTypes, PreviewTypes, pickVars, sessionVars, previewVars
<1>3. ASSUME NEW s \in opening, begin_session(s) PROVE BackendTypes' /\ Counts'
  <2>1. /\ opening' = opening \ {s} /\ owner' = s /\ root' = locator[s] /\ nextKey' = 0
        /\ generation' = [generation EXCEPT ![s] = 1 + Cardinality(Begun)]
        /\ UNCHANGED <<session, sent, ended, received>>
    BY <1>1, <1>3 DEF begin_session, Begun, sessionVars
  <2>2. /\ s \in Session /\ s \in 1 .. session /\ generation[s] = 0
        /\ generation \in [Session -> 0 .. MaxSessions]
    BY DEF Types, BackendTypes, IInv, Sessions, Generations
  <2>3. 1 + Cardinality(Begun) \in 0 .. MaxSessions
    <3>1. Begun \cup {s} \subseteq Session /\ s \notin Begun
      BY <2>2 DEF Begun
    <3>2. Cardinality(Begun \cup {s}) = Cardinality(Begun) + 1 /\ Cardinality(Begun) \in Nat
      BY <3>1, BegunIsFinite, FS_AddElement
    <3>3. Cardinality(Begun \cup {s}) <= Cardinality(Session) /\ Cardinality(Session) = MaxSessions
      BY <3>1, Constants, FS_Subset, FS_Interval
    <3> QED
      BY <3>2, <3>3, Constants
  <2>4. BackendTypes'
    <3>1. root' \in Source \cup {NoSource}
      BY <2>1, <2>2, Constants DEF Types, PickTypes, Source, NoSource
    <3>2. generation' \in [Session -> 0 .. MaxSessions]
      BY <2>1, <2>2, <2>3
    <3> QED
      BY <2>1, <2>2, <3>1, <3>2 DEF Types, BackendTypes
  <2>5. Counts'
    <3>1. session \in Session
      BY <2>2, Constants DEF Types, ScreenTypes
    <3>2. session = s => sent = 0
      BY <2>2 DEF Types, Counts
    <3>3. generation'[session] = 0 => generation[session] = 0
      BY <2>1, <2>2, <3>1, BegunIsFinite
    <3>4. session = NoSession \/ generation'[session] = 0 => sent = 0
      BY <3>3 DEF Types, Counts
    <3> QED
      BY <2>1, <3>2, <3>4, MediaIndexAssumption DEF Types, Counts
  <2> QED
    BY <2>4, <2>5
<1>4. ASSUME SendItem PROVE BackendTypes' /\ Counts'
  <2>1. /\ session # NoSession /\ generation[session] # 0 /\ owner = session
        /\ nextKey < ItemCount /\ nextKey' = nextKey + 1 /\ sent' = sent + 1
        /\ UNCHANGED <<opening, owner, root, generation, ended, session, received>>
    BY <1>1, <1>4 DEF SendItem, sessionVars
  <2>2. BackendTypes'
    BY <2>1 DEF Types, BackendTypes
  <2>3. Counts'
    <3>1. /\ nextKey \in 0 .. ItemCount /\ received \in 0 .. ItemCount
          /\ sent \in received .. ItemCount /\ sent <= nextKey /\ ItemCount \in Nat
      BY <2>1, MediaIndexAssumption DEF Types, Counts
    <3>2. /\ nextKey' \in 0 .. ItemCount /\ sent' \in received .. ItemCount /\ sent' <= nextKey'
      BY <2>1, <3>1
    <3> QED
      BY <2>1, <3>1, <3>2 DEF Counts
  <2> QED
    BY <2>2, <2>3
<1>5. ASSUME ScanEnds PROVE BackendTypes' /\ Counts'
  <2>1. /\ ended' = TRUE /\ opening' \subseteq opening
        /\ UNCHANGED <<owner, root, nextKey, generation, sent, session, received>>
    BY <1>1, <1>5 DEF ScanEnds, sessionVars
  <2> QED
    BY <2>1 DEF Types, BackendTypes, Counts
<1> QED
  BY <1>2, <1>3, <1>4, <1>5 DEF Scan, Types

LEMMA DetailTypes ==
  ASSUME IInv, Types, NEW d \in details, DetailResolves(d) \/ DetailArrives(d)
  PROVE  Types'
<1>1. UNCHANGED <<pickVars, backendVars, sessionVars, latest>>
  BY DEF DetailResolves, DetailArrives
<1>2. PickTypes' /\ BackendTypes' /\ Counts' /\ ScreenTypes'
  BY <1>1 DEF Types, PickTypes, BackendTypes, Counts, ScreenTypes, pickVars, backendVars, sessionVars
<1>3. CASE DetailResolves(d)
  <2>1. PICK next \in {IF resolve(d.key) = {} THEN [d EXCEPT !.stage = "refused"]
                       ELSE [d EXCEPT !.stage = "found", !.path = SetToSeq(resolve(d.key))]} :
          details' = (details \ {d}) \cup {next}
    BY <1>3 DEF DetailResolves
  <2>2. next.call = d.call /\ next.key = d.key /\ next.stage \in {"refused", "found"}
    BY <2>1 DEF IInv, Details, DetailInv
  <2> QED
    BY <1>1, <1>2, <1>3, <2>1, <2>2 DEF Types, PreviewTypes, DetailResolves
<1>4. CASE DetailArrives(d)
  <2>1. preview' = preview \/ preview'.status \in {"error", "ready"}
    BY <1>4 DEF DetailArrives
  <2>2. details' \subseteq details
    BY <1>4 DEF DetailArrives
  <2> QED
    BY <1>1, <1>2, <2>1, <2>2 DEF Types, PreviewTypes
<1> QED
  BY <1>3, <1>4

LEMMA StepKeepsTypes == IInv /\ Types /\ [Next]_vars => Types'
<1> SUFFICES ASSUME IInv, Types, [Next]_vars PROVE Types'
  OBVIOUS
<1>1. ASSUME picks' \subseteq 1 .. MaxPicks, pickGeneration' \in 0 .. MaxPicks,
             UNCHANGED <<sources, sourceDisplayName, locator, backendVars, sessionVars, previewVars>>
      PROVE  Types'
  BY <1>1 DEF Types, PickTypes, BackendTypes, Counts, ScreenTypes, PreviewTypes,
              backendVars, sessionVars, previewVars
<1>2. CASE pickAndOpenSource
  BY <1>1, <1>2, PreviewAssumption DEF pickAndOpenSource, Types, PickTypes
<1>3. ASSUME NEW call \in picks, NothingPicked(call) PROVE Types'
  BY <1>1, <1>3 DEF NothingPicked, Types, PickTypes
<1>4. ASSUME NEW call \in picks, FolderPicked(call) PROVE Types'
  BY <1>4, FolderPickedTypes
<1>5. CASE Scan
  BY <1>5, ScanTypes
<1>6. CASE ScreenChanges
  BY <1>6, ScreenChangesTypes
<1>7. CASE (\E i \in Item : activate(i)) \/ activatePrevious \/ activateNext \/ clear
  BY <1>7, NavigationTypes
<1>8. ASSUME NEW d \in details, DetailResolves(d) \/ DetailArrives(d) PROVE Types'
  BY <1>8, DetailTypes
<1>9. CASE dispose
  <2>1. /\ pickGeneration' = None /\ preview' = Idle /\ latest' = None
        /\ UNCHANGED <<picks, sourceDisplayName, sources, locator, backendVars, sessionVars, details>>
    BY <1>9 DEF dispose
  <2> QED
    BY <2>1, PreviewAssumption
    DEF Types, PickTypes, BackendTypes, Counts, ScreenTypes, PreviewTypes, backendVars, sessionVars,
        Idle, None
<1>10. CASE UNCHANGED vars
  BY <1>1, <1>10 DEF vars, pickVars, Types, PickTypes
<1> QED
  BY <1>2, <1>3, <1>4, <1>5, <1>6, <1>7, <1>8, <1>9, <1>10 DEF Next

\* Types hold for any number of pickers, sessions, items and calls for details. What
\* the controller keeps by appending, by rebuilding and by deferring a sort to the end
\* of the scan is at any time what the filter and the order make of the items
\* received (application/mediaSession.ts).
THEOREM TypeCorrect == Safe => []TypeOK
<1>1. Types => TypeOK
  BY DEF Types, PickTypes, BackendTypes, Counts, ScreenTypes, PreviewTypes, TypeOK
<1> QED
  BY <1>1, InitEstablishes, StepKeeps, InitTypes, StepKeepsTypes, PTL DEF Safe
===============================================================================
