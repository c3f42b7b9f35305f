----------------------- MODULE BrowserRepresentations -----------------------
(***************************************************************************)
(* The consumers of the thumbnail scheduler: MediaBrowserController (the   *)
(* masonry and justified flows) and CanvasBrowserController, which follow  *)
(* the scan session together and keep one representation state per item    *)
(* they render.  Whatever makes a browser refresh (a scroll, a pan, a      *)
(* zoom, new items), it sees a set of items to render, each with an edge   *)
(* length and a priority; the input of a refresh is that view.             *)
(*                                                                         *)
(* The scheduler appears as what RepresentationContract promises of it: a  *)
(* pending request is answered, failed or withdrawn, and a lease is        *)
(* returned once.  The answer reaches the browser in a later run of the    *)
(* event loop; in between, aborting the signal has no effect any more.     *)
(***************************************************************************)
EXTENDS Integers, FiniteSets

CONSTANTS
  Browser,      \* the controllers
  FlowBrowser,  \* the one that has layout modes
  Media,        \* items that have a static thumbnail
  Edge,         \* values of maxEdge
  Request,      \* bound: as many requests are not forgotten at one time
  NoRequest,
  MaxSessions   \* bound: sessions opened in one behaviour

ASSUME FlowBrowserAssumption == FlowBrowser \in Browser
ASSUME EdgeAssumption == Edge \subseteq Nat \ {0}
ASSUME RequestAssumption == NoRequest \notin Request /\ IsFiniteSet(Request)
ASSUME BoundsAssumption == MaxSessions \in Nat

Session  == 1 .. MaxSessions
None     == 0             \* no session
Priority == {1, 2}        \* priorityRank of overscan and visible
Out      == [edge |-> 0, priority |-> 0]
Tile     == [edge : Edge, priority : Priority]
View     == [Media -> Tile \cup {Out}]

(* A resource key belongs to one session; with maxEdge it is requestKey.   *)
RequestKey == [session : Session, media : Media, edge : Edge]

(* A request and the state made for it share an identity, which is free    *)
(* again when the state is gone and the promise has been heard of.         *)
NoState == [request |-> NoRequest, phase |-> "none"]
State   == {NoState} \cup [request : Request, phase : {"loading", "ready", "error"}]
Nothing == [browser |-> FlowBrowser, key |-> 0, priority |-> 0]

VARIABLES
  session,          \* sessionController.current
  disposed,         \* per browser
  view,             \* what each browser renders
  thumbnailStates,  \* per browser and item: representation states
  asked,            \* by whom, for what and how urgently
  status,           \* what became of each request's promise
  leases            \* per key: handed out by the scheduler, not returned

vars == <<session, disposed, view, thumbnailStates, asked, status, leases>>

TypeOK ==
  /\ session \in Session \cup {None}
  /\ disposed \in [Browser -> BOOLEAN]
  /\ view \in [Browser -> View]
  /\ thumbnailStates \in [Browser -> [Media -> State]]
  /\ status \in [Request -> {"free", "pending", "cancelled", "failed", "leased"}]
  /\ \A r \in Request :
       IF status[r] = "free" THEN asked[r] = Nothing
       ELSE asked[r] \in [browser : Browser, key : RequestKey, priority : Priority]
  /\ leases \in [RequestKey -> Nat]

Init ==
  /\ session = None
  /\ disposed = [b \in Browser |-> FALSE]
  /\ view = [b \in Browser |-> [m \in Media |-> Out]]
  /\ thumbnailStates = [b \in Browser |-> [m \in Media |-> NoState]]
  /\ asked = [r \in Request |-> Nothing]
  /\ status = [r \in Request |-> "free"]
  /\ leases = [k \in RequestKey |-> 0]

-----------------------------------------------------------------------------
(* Releasing the states of a set: a loading one aborts its signal, which   *)
(* withdraws a request still pending; a ready one releases its lease.      *)
Released(states, st) ==
  [r \in Request |->
     IF \E x \in states : x.request = r /\ x.phase # "loading" THEN "free"
     ELSE IF st[r] = "pending" /\ \E x \in states : x.request = r THEN "cancelled"
     ELSE st[r]]

(* Faulty: every state that goes gives a lease back.                       *)
BugReturnsUnleased(states, ls) ==
  [k \in RequestKey |->
     ls[k] - Cardinality({x \in states : asked[x.request].key = k})]

Returned(states, ls) ==
  [k \in RequestKey |->
     ls[k] - Cardinality({x \in states : x.phase = "ready" /\ asked[x.request].key = k})]

(* A free identity stands for nothing.                                     *)
Forget(record) == [r \in Request |-> IF status'[r] = "free" THEN Nothing ELSE record[r]]

(* Faulty: the size of the picture does not count.                         *)
BugIgnoresEdge(x, m, tile) ==
  /\ x # NoState
  /\ asked[x.request].key.media = m /\ asked[x.request].key.session = session
  /\ x.phase = "loading" => tile.priority <= asked[x.request].priority

(* The state of an item answers the tile: it has the tile's key, and if it *)
(* loads, no lower a priority.                                             *)
Suits(x, m, tile) ==
  /\ x # NoState
  /\ asked[x.request].key = [session |-> session, media |-> m, edge |-> tile.edge]
  /\ x.phase = "loading" => tile.priority <= asked[x.request].priority

(* #refresh of browser b with the view v, after a handler has left its     *)
(* states as own, the promises as st and the leases as ls.                 *)
refresh(b, v, own, st, ls) ==
  LET kept  == {m \in Media : v[m] # Out /\ Suits(own[m], m, v[m])}
      fresh == {m \in Media : v[m] # Out} \ kept
      gone  == {own[m] : m \in Media \ kept} \ {NoState}
      askedFor(m) == [browser  |-> b,
                      key      |-> [session |-> session, media |-> m, edge |-> v[m].edge],
                      priority |-> v[m].priority]
  IN  \E new \in [fresh -> {r \in Request : st[r] = "free"}] :
        LET asker(r) == CHOOSE m \in fresh : new[m] = r
            asks(r)  == \E m \in fresh : new[m] = r
        IN  /\ \A m, n \in fresh : new[m] = new[n] => m = n
            /\ view' = [view EXCEPT ![b] = v]
            /\ thumbnailStates' = [thumbnailStates EXCEPT ![b] =
                 [m \in Media |->
                    IF m \in kept THEN own[m]
                    ELSE IF m \in fresh THEN [request |-> new[m], phase |-> "loading"]
                    ELSE NoState]]
            /\ status' = [r \in Request |->
                 IF asks(r) THEN "pending" ELSE Released(gone, st)[r]]
            /\ asked' = Forget([r \in Request |->
                 IF asks(r) THEN askedFor(asker(r)) ELSE asked[r]])
            /\ leases' = Returned(gone, ls)

-----------------------------------------------------------------------------
Nowhere == [m \in Media |-> Out]
States(b) == {thumbnailStates[b][m] : m \in Media} \ {NoState}

(* setViewport, panning and zooming, and the session's news of items or of *)
(* their order: the browser refreshes with another view, which is empty    *)
(* without a session.                                                      *)
Refresh(b, v) ==
  /\ ~disposed[b]
  /\ session = None => v = Nowhere
  /\ refresh(b, v, thumbnailStates[b], status, leases)
  /\ UNCHANGED <<session, disposed>>

(* All that the browsers of a set hold is withdrawn or given back.         *)
cancelAll(bs) ==
  LET states == UNION {States(b) : b \in bs}
  IN  /\ thumbnailStates' = [b \in Browser |->
           IF b \in bs THEN [m \in Media |-> NoState] ELSE thumbnailStates[b]]
      /\ view' = [b \in Browser |-> IF b \in bs THEN Nowhere ELSE view[b]]
      /\ status' = Released(states, status)
      /\ asked' = Forget(asked)
      /\ leases' = Returned(states, leases)

(* openSource: both browsers hear of the new session, which has no items,  *)
(* before it returns.                                                      *)
openSource ==
  /\ session < MaxSessions
  /\ session' = session + 1
  /\ cancelAll({b \in Browser : ~disposed[b]})
  /\ UNCHANGED disposed

(* setLayoutMode: every state is dropped, then the new flow is rendered.   *)
setLayoutMode(v) ==
  /\ ~disposed[FlowBrowser]
  /\ session = None => v = Nowhere
  /\ refresh(FlowBrowser, v, [m \in Media |-> NoState],
             Released(States(FlowBrowser), status), Returned(States(FlowBrowser), leases))
  /\ UNCHANGED <<session, disposed>>

dispose(b) ==
  /\ ~disposed[b]
  /\ disposed' = [disposed EXCEPT ![b] = TRUE]
  /\ cancelAll({b})
  /\ UNCHANGED session

-----------------------------------------------------------------------------
(* One backend call answers the pending requests for a key, of both        *)
(* browsers.                                                               *)
Answer(key, outcome) ==
  LET waiting == {r \in Request : status[r] = "pending" /\ asked[r].key = key}
  IN  /\ waiting # {}
      /\ status' = [r \in Request |-> IF r \in waiting THEN outcome ELSE status[r]]
      /\ leases' = [leases EXCEPT ![key] =
                      IF outcome = "leased" THEN @ + Cardinality(waiting) ELSE @]
      /\ UNCHANGED <<session, disposed, view, thumbnailStates, asked>>

(* The promise is settled, and its continuation has not run.               *)
Settled(r) ==
  /\ status[r] \in {"leased", "failed", "cancelled"}
  /\ \A b \in Browser, m \in Media :
       thumbnailStates[b][m].request = r => thumbnailStates[b][m].phase = "loading"

(* The item still has the state made for the request.                      *)
Current(r) ==
  /\ status[r] # "free"
  /\ thumbnailStates[asked[r].browser][asked[r].key.media].request = r

(* The state of the request moves on, and the browser refreshes.           *)
Becomes(r, phase, st, ls) ==
  LET b   == asked[r].browser
      own == [thumbnailStates[b] EXCEPT ![asked[r].key.media].phase = phase]
  IN  /\ refresh(b, view[b], own, st, ls)
      /\ UNCHANGED <<session, disposed>>

GiveBack(r) == [leases EXCEPT ![asked[r].key] = @ - 1]

(* Faulty: a lease that comes late is not released.                        *)
BugLateLeaseKept(r) ==
  /\ Settled(r) /\ ~Current(r)
  /\ status' = [status EXCEPT ![r] = "free"]
  /\ asked' = Forget(asked)
  /\ UNCHANGED <<session, disposed, view, thumbnailStates, leases>>

(* The item has another state by now, or none: a lease goes back.          *)
ArrivesLate(r) ==
  /\ Settled(r) /\ ~Current(r)
  /\ status' = [status EXCEPT ![r] = "free"]
  /\ asked' = Forget(asked)
  /\ leases' = IF status[r] = "leased" THEN GiveBack(r) ELSE leases
  /\ UNCHANGED <<session, disposed, view, thumbnailStates>>

(* The lease is shown, unless its URI cannot be made.                      *)
ArrivesLeased(r) ==
  /\ Settled(r) /\ Current(r) /\ status[r] = "leased"
  /\ \/ Becomes(r, "ready", status, leases)
     \/ Becomes(r, "error", [status EXCEPT ![r] = "failed"], GiveBack(r))

ArrivesFailed(r) ==
  /\ Settled(r) /\ Current(r) /\ status[r] = "failed"
  /\ Becomes(r, "error", status, leases)

(* The code has a fourth case, a current request that was cancelled, which *)
(* NoForgottenTile shows not to occur: who aborts a request replaces its   *)
(* state in the same run.                                                  *)
Arrives(r) == ArrivesLate(r) \/ ArrivesLeased(r) \/ ArrivesFailed(r)

-----------------------------------------------------------------------------
Next ==
  \/ \E b \in Browser, v \in View : Refresh(b, v)
  \/ \E v \in View : setLayoutMode(v)
  \/ openSource
  \/ \E b \in Browser : dispose(b)
  \/ \E key \in RequestKey, outcome \in {"leased", "failed"} : Answer(key, outcome)
  \/ \E r \in Request : Arrives(r)

Spec == Init /\ [][Next]_vars

-----------------------------------------------------------------------------
(* Every lease handed out is on its way to a browser or shown by a tile:   *)
(* whatever came late, was replaced, scrolled away or changed its layout   *)
(* or session, none is lost and none is returned twice.                    *)
LeasesAreShown ==
  \A k \in RequestKey :
    leases[k] = Cardinality({r \in Request : status[r] = "leased" /\ asked[r].key = k})

(* The key of the thumbnail a tile wants now.                              *)
WantedKey(b, m) == [session |-> session, media |-> m, edge |-> view[b][m].edge]

(* No tile is forgotten: each has a state for the key it wants now, asked  *)
(* for with no less than its priority while it loads, and then it will     *)
(* still hear of an answer.                                                *)
NoForgottenTile ==
  \A b \in Browser, m \in Media : view[b][m] # Out =>
    LET x == thumbnailStates[b][m]
    IN  /\ x # NoState /\ asked[x.request].key = WantedKey(b, m)
        /\ x.phase = "loading" =>
             /\ status[x.request] \in {"pending", "leased", "failed"}
             /\ view[b][m].priority <= asked[x.request].priority
        /\ x.phase = "ready" => status[x.request] = "leased"

=============================================================================
