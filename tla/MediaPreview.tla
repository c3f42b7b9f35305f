------------------------------ MODULE MediaPreview -------------------------------
(***************************************************************************)
(* What the preview of one medium shows, from the folder picked to the      *)
(* detail read: ViewerWorkspaceController opens what the picker returns,    *)
(* the scan registers files and sends them, MediaActivationController       *)
(* holds the active item through every change of the session, and           *)
(* PreviewMediaDetailController asks get_media_detail for its detail.       *)
(*                                                                         *)
(* Sessions are numbered as they are opened, and sources as they are        *)
(* registered: each pick registers a source of its own, a folder picked     *)
(* twice too, and the identifiers of its media belong to it alone.  Of the  *)
(* scan (see MediaSessionController) only what reaches the preview is kept. *)
(***************************************************************************)
EXTENDS MediaIndex, FiniteSets

CONSTANTS
  KindSet,       \* the values of includedKinds
  MaxSessions,   \* bound: folders picked, and so sessions opened
  MaxPicks,      \* bound: pickers open at once
  MaxDetails     \* bound: calls of get_media_detail under way at once

ASSUME PreviewAssumption ==
  MaxSessions \in Nat \ {0} /\ MaxPicks \in Nat \ {0} /\ MaxDetails \in Nat \ {0} /\ KindSet # {}

Session == 1 .. MaxSessions
NoSession == 0
None == 0

VARIABLES
  \* the pickers and the sources they registered
  picks,             \* the calls of pickAndOpenSource that await a folder
  pickGeneration,    \* the latest of them, or None
  sourceDisplayName, \* the source named in the workspace
  sources,           \* sources LocalSourceRegistry has registered
  locator,           \* the source a session scans
  \* the backend
  opening,           \* sessions whose start_scan has not begun
  owner,             \* MediaResourceRegistry: session, root and
  root,              \*   the number of keys registered;
  nextKey,
  generation,        \*   the generation each session has been given
  sent,              \* items the scan of the session on the screen sent
  ended,             \* is that scan over?
  \* the session on the screen
  session, received, terminal, view, viewSort, includedKinds, sort,
  \* the preview
  active,            \* #snapshot of MediaActivationController
  preview,           \* #snapshot of PreviewMediaDetailController
  latest,            \* the call made at the latest request revision, or None
  details,           \* calls of get_media_detail under way
  disposed

pickVars    == <<picks, pickGeneration, sourceDisplayName, sources, locator>>
backendVars == <<opening, owner, root, nextKey, generation, sent, ended>>
sessionVars == <<session, received, terminal, view, viewSort, includedKinds, sort>>
previewVars == <<active, preview, latest, details>>
vars == <<pickVars, backendVars, sessionVars, previewVars, disposed>>

NoSource == 0
Inactive == [session |-> NoSession, media |-> None, position |-> 0, total |-> 0]
Idle     == [status |-> "idle", session |-> NoSession, media |-> None, detail |-> <<>>]

\* A key is the generation of its session and the number of the file.
Key == [generation : 0 .. MaxSessions, number : Item]
Source == 1 .. MaxSessions
Path == [source : Source, item : Item]

TypeOK ==
  /\ picks \subseteq 1 .. MaxPicks /\ pickGeneration \in 0 .. MaxPicks
  /\ sources \in 0 .. MaxSessions /\ sourceDisplayName \in 0 .. sources
  /\ locator \in [Session -> 0 .. sources]
  /\ opening \subseteq Session /\ ended \in BOOLEAN
  /\ owner \in Session \cup {NoSession} /\ root \in Source \cup {NoSource}
  /\ nextKey \in 0 .. ItemCount
  /\ generation \in [Session -> 0 .. MaxSessions] /\ sent \in received .. ItemCount
  /\ session \in Session \cup {NoSession} /\ received \in 0 .. ItemCount /\ terminal \in BOOLEAN
  /\ view = rebuildProjection(received, includedKinds, viewSort)
  /\ viewSort = (IF terminal THEN sort ELSE "source")
  /\ preview.status \in {"idle", "loading", "ready", "error"}
  /\ latest \in 0 .. MaxDetails
  /\ \A d \in details : d.call \in 1 .. MaxDetails /\ d.key \in Key
                         /\ d.stage \in {"sent", "found", "refused"}

Init ==
  /\ picks = {} /\ pickGeneration = None /\ sourceDisplayName = NoSource
  /\ sources = 0 /\ locator = [s \in Session |-> NoSource]
  /\ opening = {} /\ sent = 0 /\ ended = FALSE
  /\ owner = NoSession /\ root = NoSource /\ nextKey = 0
  /\ generation = [s \in Session |-> 0]
  /\ session = NoSession /\ received = 0 /\ terminal = FALSE
  /\ view = <<>> /\ viewSort = "source" /\ includedKinds = {KindOf[i] : i \in Item} /\ sort = "source"
  /\ active = Inactive /\ preview = Idle /\ latest = None /\ details = {}
  /\ disposed = FALSE

-----------------------------------------------------------------------------
(* PreviewMediaDetailController and MediaActivationController.             *)

\* #onActivationChanged: the detail of a video or an audio file is asked for,
\* under the key the backend gave the file.
onActivationChanged(next) ==
  IF next = Inactive \/ KindOf[next.media] \in {"image", "animated-image"}
  THEN preview' = Idle /\ latest' = None /\ UNCHANGED details
  ELSE \E call \in 1 .. MaxDetails :
         /\ \A d \in details : d.call # call
         /\ latest' = call
         /\ preview' = [status |-> "loading", session |-> next.session,
                        media |-> next.media, detail |-> <<>>]
         /\ details' = details \cup
              {[call |-> call, session |-> next.session, media |-> next.media, stage |-> "sent",
                key |-> [generation |-> generation[next.session], number |-> next.media],
                path |-> <<>>]}

\* A snapshot equal to the one before is not published.
Publish(next) ==
  IF next = active THEN UNCHANGED previewVars
                   ELSE active' = next /\ onActivationChanged(next)

buildSnapshot(s, at, items) ==
  [session |-> s, media |-> items[at], position |-> at, total |-> Len(items)]

\* #reconcile, on every change of the session.
reconcile(s, items) ==
  LET at == IF active.position \in 1 .. Len(items) /\ items[active.position] = active.media
            THEN active.position ELSE indexOf(items, active.media)
  IN  IF active = Inactive \/ active.session # s \/ at = 0 THEN Inactive
      ELSE buildSnapshot(s, at, items)

\* The session is published.
SessionChanged == Publish(reconcile(session', view'))

activateIndex(at) ==
  /\ ~disposed /\ at \in 1 .. Len(view)
  /\ Publish(buildSnapshot(session, at, view))
  /\ UNCHANGED <<pickVars, backendVars, sessionVars, disposed>>

activate(i) == session # NoSession /\ activateIndex(indexOf(view, i))

Adjacent == active # Inactive /\ active.session = session
activatePrevious == Adjacent /\ activateIndex(active.position - 1)
activateNext     == Adjacent /\ activateIndex(active.position + 1)

clear ==
  /\ ~disposed /\ active # Inactive
  /\ Publish(Inactive)
  /\ UNCHANGED <<pickVars, backendVars, sessionVars, disposed>>

\* The runtime disposes the preview, the activation and the workspace; of what
\* goes on after that the model has the answers still under way.
dispose ==
  /\ ~disposed /\ disposed' = TRUE
  /\ active' = Inactive /\ preview' = Idle /\ latest' = None
  /\ pickGeneration' = None
  /\ UNCHANGED <<picks, sourceDisplayName, sources, locator, backendVars, sessionVars, details>>

-----------------------------------------------------------------------------
(* ViewerWorkspaceController, and pick_source_directory behind it.         *)

pickAndOpenSource ==
  /\ ~disposed
  /\ \E call \in (1 .. MaxPicks) \ picks :
       picks' = picks \cup {call} /\ pickGeneration' = call
  /\ UNCHANGED <<sourceDisplayName, sources, locator, backendVars, sessionVars, previewVars, disposed>>

NothingPicked(call) ==
  /\ call \in picks /\ picks' = picks \ {call}
  /\ UNCHANGED <<pickGeneration, sourceDisplayName, sources, locator,
                 backendVars, sessionVars, previewVars, disposed>>

\* openSource of MediaSessionController.
openSource(l) ==
  /\ session' = session + 1
  /\ received' = 0 /\ terminal' = FALSE /\ view' = <<>> /\ viewSort' = "source"
  /\ locator' = [locator EXCEPT ![session + 1] = l]
  /\ opening' = opening \cup {session + 1}
  /\ SessionChanged
  /\ sent' = 0 /\ ended' = FALSE
  /\ UNCHANGED <<includedKinds, sort, owner, root, nextKey, generation>>

\* Faulty: a flag that a picker is open, instead of a generation.
BugAnyOpenPicker(call) == ~disposed /\ pickGeneration \in picks

\* Is this the pick the workspace waits for?
CurrentPick(call) == ~disposed /\ call = pickGeneration

\* A folder is registered whether or not its source is opened.  The registry is
\* not read before, so that the answer may come to the workspace in one step.
FolderPicked(call) ==
  /\ call \in picks /\ picks' = picks \ {call}
  /\ sources < MaxSessions /\ sources' = sources + 1
  /\ IF CurrentPick(call)
     THEN sourceDisplayName' = sources' /\ openSource(sources')
     ELSE UNCHANGED <<sourceDisplayName, locator, backendVars, sessionVars, previewVars>>
  /\ UNCHANGED <<pickGeneration, disposed>>

-----------------------------------------------------------------------------
(* The backend: the registry of one session at a time, and the scan.       *)

begin_session(s) ==
  /\ opening' = opening \ {s}
  /\ generation' = [generation EXCEPT ![s] = 1 + Cardinality({t \in Session : generation[t] # 0})]
  /\ owner' = s /\ root' = locator[s] /\ nextKey' = 0
  /\ UNCHANGED <<sent, ended>>

\* register gives a file its key, and a batch with the file is sent.  What a
\* superseded scan still registers and sends reaches nobody.
SendItem ==
  /\ session # NoSession /\ generation[session] # 0 /\ ~ended
  /\ owner = session /\ nextKey < ItemCount
  /\ nextKey' = nextKey + 1 /\ sent' = sent + 1
  /\ UNCHANGED <<opening, owner, root, generation, ended>>

\* start_scan fails, is cancelled or comes to the end.
ScanEnds ==
  /\ session # NoSession /\ ~ended /\ ended' = TRUE
  /\ opening' = opening \ {session}
  /\ UNCHANGED <<owner, root, nextKey, generation, sent>>

Scan == /\ ~disposed
        /\ (\E s \in opening : begin_session(s)) \/ SendItem \/ ScanEnds
        /\ UNCHANGED <<pickVars, sessionVars, previewVars, disposed>>

\* The file a key stands for, as a set of at most one.
resolve(key) ==
  {[source |-> root, item |-> i] : i \in
     {i \in 1 .. nextKey : key.number = i /\ key.generation = generation[owner]}}

\* get_media_detail looks its key up, and reads the file on another thread.
DetailResolves(d) ==
  /\ d \in details /\ d.stage = "sent"
  /\ LET found == resolve(d.key)
         next  == IF found = {} THEN [d EXCEPT !.stage = "refused"]
                  ELSE [d EXCEPT !.stage = "found", !.path = SetToSeq(found)]
     IN  details' = (details \ {d}) \cup {next}
  /\ UNCHANGED <<pickVars, backendVars, sessionVars, active, preview, latest, disposed>>

\* The detail of the file, or an error if the key was refused or the file
\* cannot be read.
Answers(d) == IF d.stage = "found" THEN {d.path, <<>>} ELSE {<<>>}

\* Faulty: an answer is taken whoever asked for it.
BugAnyAnswer(d) == ~disposed

isCurrentRequest(d) == ~disposed /\ d.call = latest /\ d.media = active.media

\* Faulty: nothing handles an error.
BugErrorUnhandled(d) ==
  /\ d \in details /\ d.stage # "sent"
  /\ details' = details \ {d}
  /\ IF isCurrentRequest(d) /\ d.stage = "found"
     THEN preview' = [status |-> "ready", session |-> d.session, media |-> d.media, detail |-> d.path]
     ELSE UNCHANGED preview
  /\ UNCHANGED <<pickVars, backendVars, sessionVars, active, latest, disposed>>

DetailArrives(d) ==
  /\ d \in details /\ d.stage # "sent"
  /\ details' = details \ {d}
  /\ IF isCurrentRequest(d)
     THEN \E detail \in Answers(d) :
            preview' = [status |-> IF detail = <<>> THEN "error" ELSE "ready",
                        session |-> d.session, media |-> d.media, detail |-> detail]
     ELSE UNCHANGED preview
  /\ UNCHANGED <<pickVars, backendVars, sessionVars, active, latest, disposed>>

-----------------------------------------------------------------------------
(* What reaches the session on the screen.                                 *)

\* A batch, of which the scan sent one or more.
BatchArrives ==
  /\ session # NoSession /\ ~terminal
  /\ \E m \in received + 1 .. sent :
       received' = m /\ view' = upsertMany(view, received, m, includedKinds, viewSort)
  /\ UNCHANGED <<session, terminal, viewSort, includedKinds, sort>>
  /\ SessionChanged

\* The deferred sort is applied; an error may overtake the last batches.
EndArrives ==
  /\ ended /\ ~terminal
  /\ terminal' = TRUE /\ viewSort' = sort
  /\ view' = IF sort = viewSort THEN view ELSE rebuildProjection(received, includedKinds, sort)
  /\ UNCHANGED <<session, received, includedKinds, sort>>
  /\ SessionChanged

setIncludedKinds(kinds) ==
  /\ kinds # includedKinds /\ includedKinds' = kinds
  /\ view' = rebuildProjection(received, kinds, viewSort)
  /\ UNCHANGED <<session, received, terminal, viewSort, sort>>
  /\ SessionChanged

setSort(order) ==
  /\ order # sort /\ sort' = order
  /\ IF terminal
     THEN viewSort' = order /\ view' = rebuildProjection(received, includedKinds, order)
     ELSE UNCHANGED <<viewSort, view>>
  /\ UNCHANGED <<session, received, terminal, includedKinds>>
  /\ SessionChanged

ScreenChanges ==
  /\ ~disposed
  /\ BatchArrives \/ EndArrives \/ (\E kinds \in KindSet : setIncludedKinds(kinds))
       \/ (\E order \in Sort : setSort(order))
  /\ UNCHANGED <<pickVars, backendVars, disposed>>

-----------------------------------------------------------------------------
Next ==
  \/ pickAndOpenSource \/ (\E call \in picks : NothingPicked(call) \/ FolderPicked(call))
  \/ Scan
  \/ ScreenChanges
  \/ (\E i \in Item : activate(i)) \/ activatePrevious \/ activateNext \/ clear
  \/ \E d \in details : DetailResolves(d) \/ DetailArrives(d)
  \/ dispose

Safe == Init /\ [][Next]_vars

\* Calls of get_media_detail run, and are answered.
DetailStep(call) ==
  \E d \in details : d.call = call /\ (DetailResolves(d) \/ DetailArrives(d))

Spec == Safe /\ \A call \in 1 .. MaxDetails : WF_vars(DetailStep(call))

-----------------------------------------------------------------------------
(* Properties.                                                             *)

\* The preview shows one item of the session on the screen, at its place among
\* the items shown, and no other detail than that item's own, whatever
\* answers late and in which order: batches that arrive, a new order or filter,
\* pickers answered out of turn, and a session whose keys have been dropped
\* (viewer/previewMediaDetailController.ts:122, mediaActivationController.ts:169,
\* viewerWorkspaceController.ts:90).
PreviewIsCurrent ==
  /\ active # Inactive =>
       /\ active.session = session
       /\ active.position \in 1 .. Len(view) /\ view[active.position] = active.media
       /\ active.total = Len(view)
  /\ preview.status # "idle" =>
       preview.session = active.session /\ preview.media = active.media
  /\ preview.status = "ready" =>
       preview.detail = <<[source |-> sourceDisplayName, item |-> active.media]>>

\* What the user chose stays: the source on the screen is replaced by the answer
\* of the latest picker alone, in the step in which that one is answered, never
\* by an earlier one's answer before it or after it; and the
\* active item stays active, wherever it goes, through batches, orders and
\* filters, or is dropped; none but the user's own step makes another one active
\* (viewerWorkspaceController.ts:90, mediaActivationController.ts:169).
ChoiceStays ==
  [][/\ session' # session => pickGeneration \in picks \ picks'
     /\ session' = session /\ view' # view /\ active' # Inactive => active'.media = active.media
    ]_vars

\* Every call for a detail that the preview waits for ends the waiting, with the
\* detail or with an error, unless the preview moves on before: also when the key
\* was dropped by another session (viewer/previewMediaDetailController.ts:96-119).
LoadingEnds ==
  \A call \in 1 .. MaxDetails :
    (latest = call /\ preview.status = "loading") ~> ~(latest = call /\ preview.status = "loading")

==================================================================================
