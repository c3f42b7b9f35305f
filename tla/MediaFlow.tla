--------------------------------- MODULE MediaFlow ---------------------------------
(***************************************************************************)
(* What the flow browser and the canvas lay out.  MediaIndex is changed in  *)
(* place by the session's controller; MediaBrowserController with its flow  *)
(* model and CanvasBrowserController with its scene keep layouts of their   *)
(* own and decide at each refresh, from the session, a count and            *)
(* replacementRevision, whether to append to them or to compare them with   *)
(* the whole of it.                                                        *)
(*                                                                         *)
(* Of the scan (see MediaSessionController) only batches and the end are    *)
(* left; an item is what the scan said of it for good.                      *)
(***************************************************************************)
EXTENDS MediaIndex, Layouts

CONSTANTS
  KindSet,        \* the values of includedKinds
  Width,          \* the widths of viewports
  MaxSessions,    \* bound: sessions opened
  MaxRevision     \* bound: changes of the filter and the order in one session

ASSUME MediaFlowAssumption ==
  /\ DOMAIN WidthOf = Item
  /\ Width # {} /\ Width \subseteq Nat \ {0}
  /\ MaxSessions \in Nat /\ MaxRevision \in Nat

VARIABLES
  \* the session on the screen
  session, received, terminal,
  view, viewSort, includedKinds, replacementRevision,    \* its MediaIndex
  sort,                      \* the order chosen, in the index only once the scan is over
  \* the flow browser and the canvas browser
  viewport,                  \* the width of each, or NoViewport
  shown,                     \* the flow model and the canvas scene
  lastReplacementRevision

sessionVars == <<session, received, terminal, view, viewSort, includedKinds,
                 replacementRevision, sort>>
browserVars == <<viewport, shown, lastReplacementRevision>>
vars == <<sessionVars, browserVars>>

NoSession  == 0
NoViewport == 0
Browser    == {"flow", "canvas"}
FlowMode   == {"masonry", "justified"}

-----------------------------------------------------------------------------
(* A flow model or scene.  The width before the first viewport is 1.       *)

EmptyLayout(mode, width) ==
  CASE mode = "masonry"   -> EmptyMasonry(width)
    [] mode = "justified" -> EmptyJustified
    [] mode = "atlas"     -> EmptyAtlas

Place(mode, width, layout, i) ==
  CASE mode = "masonry"   -> PlaceMasonry(layout, i, width)
    [] mode = "justified" -> PlaceJustified(layout, i, width)
    [] mode = "atlas"     -> PlaceAtlas(layout, i)

\* #appendItems: what has no size is deferred, but has its place in the atlas.
appendItems(mode, width, layout, items) ==
  LET visual == SelectSeq(items, LAMBDA i : mode = "atlas" \/ IsVisual(i))
  IN  FoldLeft(LAMBDA l, i : Place(mode, width, l, i), layout, visual)

flushPending(layout, width) == finalizePending(layout, width, FALSE)

EmptyModel(mode) ==
  [mode |-> mode, width |-> 1, session |-> NoSession, items |-> <<>>, terminal |-> FALSE,
   refused |-> FALSE, layout |-> EmptyLayout(mode, 1)]

\* Only the justified flow knows the end: its last row is emitted then.
markTerminal(m) ==
  IF m.mode # "justified" \/ m.terminal THEN m
  ELSE [m EXCEPT !.terminal = TRUE, !.layout = flushPending(@, m.width)]

\* Faulty: the unfinished row is laid out with each batch, and anew with the next.
BugTailEmitted(m, s, items) ==
  LET all  == m.items \o items
      laid == appendItems(m.mode, m.width, EmptyLayout(m.mode, m.width), all)
  IN  [m EXCEPT !.items = all,
                !.layout = IF m.mode = "justified" THEN flushPending(laid, m.width) ELSE laid]

\* append throws for another session, for a known item, and after the end.
append(m, s, items) ==
  IF m.session # s \/ m.terminal \/ ToSet(items) \cap ToSet(m.items) # {}
  THEN [m EXCEPT !.refused = TRUE]
  ELSE [m EXCEPT !.items = @ \o items,
                 !.layout = appendItems(m.mode, m.width, @, items)]

rebuild(m, s, items, width, end) ==
  LET layout == appendItems(m.mode, width, EmptyLayout(m.mode, width), items)
      open   == [m EXCEPT !.width = width, !.session = s, !.items = items,
                          !.terminal = FALSE, !.layout = layout]
  IN  IF end THEN markTerminal(open) ELSE open

\* The canvas has no layout that depends on the viewport.
configure(m, width) ==
  IF m.mode = "atlas" \/ m.width = width THEN m
  ELSE rebuild(m, m.session, m.items, width, m.terminal)

\* What was laid out to the end cannot be appended to; if nothing has changed
\* since, it is left alone.
sync(m, s, items, end) ==
  LET added == SubSeq(items, Len(m.items) + 1, Len(items))
      grown == IF added = <<>> THEN m ELSE append(m, s, added)
  IN  IF m.session = s /\ ~m.terminal /\ IsPrefix(m.items, items)
      THEN IF end THEN markTerminal(grown) ELSE grown
      ELSE IF m.session = s /\ m.terminal = end /\ m.items = items THEN m
      ELSE rebuild(m, s, items, m.width, end)

-----------------------------------------------------------------------------
(* #refresh of a browser that has a viewport.                              *)

\* Has the view changed otherwise than by growing?
MustSync(m, last) ==
  \/ m.session # session' \/ Len(m.items) > Len(view')
  \/ replacementRevision' # last

Refreshed(m, last) ==
  IF MustSync(m, last) THEN sync(m, session', view', terminal')
  ELSE LET fresh == SubSeq(view', Len(m.items) + 1, Len(view'))
           grown == IF fresh = <<>> THEN m ELSE append(m, session', fresh)
       IN  IF terminal' THEN markTerminal(grown) ELSE grown

\* From the models and the revisions seen before it, for every browser.
Refresh(models, seen) ==
  LET active == {b \in Browser : session' # NoSession /\ viewport'[b] # NoViewport}
  IN  /\ shown' = [b \in Browser |->
           IF b \in active THEN Refreshed(configure(models[b], viewport'[b]), seen[b])
                           ELSE models[b]]
      /\ lastReplacementRevision' = [b \in Browser |->
           IF b \in active THEN replacementRevision' ELSE seen[b]]

\* #handleSessionChange of both, whenever the session is published.
Publish ==
  /\ UNCHANGED viewport
  /\ Refresh(shown, IF session' # session THEN [b \in Browser |-> 0]
                                          ELSE lastReplacementRevision)

setViewport(b, width) ==
  /\ viewport' = [viewport EXCEPT ![b] = width]
  /\ UNCHANGED sessionVars
  /\ Refresh(shown, lastReplacementRevision)

setLayoutMode(mode) ==
  /\ mode # shown["flow"].mode
  /\ UNCHANGED <<sessionVars, viewport>>
  /\ Refresh([shown EXCEPT !["flow"] = EmptyModel(mode)],
             [lastReplacementRevision EXCEPT !["flow"] = 0])

-----------------------------------------------------------------------------
(* The session.                                                            *)
Init ==
  /\ session = NoSession /\ received = 0 /\ terminal = FALSE
  /\ view = <<>> /\ viewSort = "source" /\ sort = "source"
  /\ includedKinds = {KindOf[i] : i \in Item} /\ replacementRevision = 0
  /\ viewport = [b \in Browser |-> NoViewport]
  /\ shown = [b \in Browser |-> EmptyModel(IF b = "flow" THEN "masonry" ELSE "atlas")]
  /\ lastReplacementRevision = [b \in Browser |-> 0]

openSource ==
  /\ session < MaxSessions /\ session' = session + 1
  /\ received' = 0 /\ terminal' = FALSE
  /\ view' = <<>> /\ viewSort' = "source" /\ replacementRevision' = 0
  /\ UNCHANGED <<includedKinds, sort>>
  /\ Publish

\* New items do not change the revision, whatever they do to the order.
batch ==
  /\ session # NoSession /\ ~terminal
  /\ \E m \in received + 1 .. ItemCount :
       /\ received' = m
       /\ view' = upsertMany(view, received, m, includedKinds, viewSort)
  /\ UNCHANGED <<session, terminal, viewSort, includedKinds, replacementRevision, sort>>
  /\ Publish

\* MediaIndex.setSort, of a session whose items have come.
IndexSort(order) ==
  IF order = viewSort THEN UNCHANGED <<view, viewSort, replacementRevision>>
  ELSE /\ viewSort' = order
       /\ view' = rebuildProjection(received, includedKinds, order)
       /\ replacementRevision' = replacementRevision + 1

\* finished, cancelled and #failIfCurrent.
scanEnds ==
  /\ session # NoSession /\ ~terminal /\ terminal' = TRUE
  /\ IndexSort(sort)
  /\ UNCHANGED <<session, received, includedKinds, sort>>
  /\ Publish

setIncludedKinds(kinds) ==
  /\ kinds # includedKinds /\ includedKinds' = kinds
  /\ replacementRevision < MaxRevision
  /\ UNCHANGED <<session, received, terminal, viewSort, sort>>
  /\ IF session = NoSession THEN UNCHANGED <<view, replacementRevision, browserVars>>
     ELSE /\ view' = rebuildProjection(received, kinds, viewSort)
          /\ replacementRevision' = replacementRevision + 1
          /\ Publish

\* Faulty: the order is applied while the scan still sends.
BugSortNotDeferred(order) ==
  /\ order # sort /\ sort' = order
  /\ replacementRevision < MaxRevision
  /\ IF session # NoSession THEN IndexSort(order)
     ELSE UNCHANGED <<view, viewSort, replacementRevision>>
  /\ UNCHANGED <<session, received, terminal, includedKinds>>
  /\ IF session # NoSession THEN Publish ELSE UNCHANGED browserVars

\* The order waits for the end of the scan.
setSort(order) ==
  /\ order # sort /\ sort' = order
  /\ replacementRevision < MaxRevision
  /\ IF terminal THEN IndexSort(order)
     ELSE UNCHANGED <<view, viewSort, replacementRevision>>
  /\ UNCHANGED <<session, received, terminal, includedKinds>>
  /\ IF session # NoSession THEN Publish ELSE UNCHANGED browserVars

Next ==
  \/ openSource \/ batch \/ scanEnds
  \/ \E kinds \in KindSet : setIncludedKinds(kinds)
  \/ \E order \in Sort : setSort(order)
  \/ \E b \in Browser, width \in Width : setViewport(b, width)
  \/ \E mode \in FlowMode : setLayoutMode(mode)

Spec == Init /\ [][Next]_vars

-----------------------------------------------------------------------------
(* Properties.                                                             *)

Laid(b) == session # NoSession /\ viewport[b] # NoViewport

\* The view is what the filter and the order make of the items received, and each
\* browser lays out the items of the session on the screen as it has them, although it is told of neither a new order nor a new filter and
\* appends when the count has grown: what it has built up is what is built from
\* the view at once, and no append is refused
\* (application/browser/mediaBrowserController.ts:275, canvasBrowserController.ts:268).
LaidOutAsViewed ==
  /\ view = rebuildProjection(received, includedKinds, viewSort)
  /\ \A b \in Browser : Laid(b) =>
       LET m == shown[b]
       IN  /\ ~m.refused /\ m.session = session /\ m.items = view
           /\ m.layout = rebuild(EmptyModel(m.mode), session, view, m.width, terminal).layout
           /\ b = "flow" => m.width = viewport[b]

\* While a scan sends and no order, filter or width changes, a tile that is laid
\* out stays where it is, also when the scan ends: "preventing previously emitted
\* geometry from moving while a scan is still streaming"
\* (flow/justifiedFlowModel.ts:40), "Existing world nodes keep stable coordinates"
\* (canvas/canvasSceneModel.ts:54).
TilesStay ==
  [][\A b \in Browser :
       (session' = session /\ includedKinds' = includedKinds /\ viewSort' = viewSort
          /\ shown'[b].mode = shown[b].mode /\ shown'[b].width = shown[b].width)
       => IsPrefix(shown[b].layout.nodes, shown'[b].layout.nodes)]_vars

\* Every item that can be shown has one tile, or waits in the unfinished row
\* of a scan that goes on; no two tiles overlap, and none reaches out of its
\* width (layout/masonry/masonryLayout.ts:70, justified/justifiedLayout.ts:119,
\* canvas/canvasAtlasLayout.ts:83).
TilesInPlace ==
  \A b \in Browser : Laid(b) =>
    LET m     == shown[b]
        tiles == m.layout.nodes
        Apart(s, t) == \/ s.x + s.width <= t.x \/ t.x + t.width <= s.x
                       \/ Bottom(s) <= t.y     \/ Bottom(t) <= s.y
        waiting == IF m.mode = "justified" THEN m.layout.pending ELSE <<>>
    IN  /\ [n \in 1 .. Len(tiles) |-> tiles[n].media] \o waiting =
             SelectSeq(view, LAMBDA i : b = "canvas" \/ IsVisual(i))
        /\ waiting # <<>> => ~terminal
        /\ \A n \in 1 .. Len(tiles) :
             /\ tiles[n].width > 0 /\ tiles[n].height > 0 /\ tiles[n].x >= 0
             /\ tiles[n].x + tiles[n].width <= (IF b = "canvas" THEN WorldWidth ELSE m.width)
             /\ \A k \in 1 .. n - 1 : Apart(tiles[k], tiles[n])

\* A window of the flow finds the tiles that touch it and no others, at the
\* edges of tiles too, though the tiles are searched by two bisections
\* (layout/viewport/verticalViewportIndex.ts:234).
WindowFindsTiles ==
  Laid("flow") =>
    LET tiles == ToSet(shown["flow"].layout.nodes)
        edges == UNION {{t.y - 1, t.y, Bottom(t), Bottom(t) + 1} : t \in tiles}
    IN  \A top, bottom \in edges : top < bottom =>
          queryVisible(shown["flow"].layout.nodes, top, bottom) =
            {t \in tiles : Touches(t, top, bottom)}

==================================================================================
