---------------------------------- MODULE Layouts ---------------------------------
(***************************************************************************)
(* The layouts (layout/ and application/mediaVisualProjection.ts): masonry  *)
(* columns and justified rows for the flow, the atlas for the canvas, and   *)
(* the index that finds the tiles of a window.  A layout is built by        *)
(* appending, so that it follows a scan.                                    *)
(*                                                                         *)
(* Sizes are whole numbers of a small unit; quotients are rounded down.     *)
(***************************************************************************)
EXTENDS Integers, SequencesExt, FiniteSetsExt

CONSTANTS
  WidthOf, HeightOf,   \* of each item; a width of 0 if there is no usable one
  Gap,
  MinColumnWidth, MaxColumns, TargetRowHeight,
  WorldWidth, ItemHeight, MinItemWidth

ASSUME LayoutsAssumption ==
  /\ DOMAIN WidthOf = DOMAIN HeightOf
  /\ \A i \in DOMAIN WidthOf : WidthOf[i] \in Nat /\ HeightOf[i] \in Nat \ {0}
  /\ {Gap, MinColumnWidth, TargetRowHeight} \subseteq Nat
  /\ {MaxColumns, WorldWidth, ItemHeight, MinItemWidth} \subseteq Nat \ {0}
  /\ MinItemWidth <= WorldWidth

Tile(i, x, y, width, height) ==
  [media |-> i, x |-> x, y |-> y, width |-> width, height |-> height]

Bottom(tile) == tile.y + tile.height

\* projectMediaVisual: an image without a usable size is deferred, video and
\* sound have one in any case.
IsVisual(i) == WidthOf[i] > 0

\* The width of an item of that height.
Scaled(i, height) == (height * WidthOf[i]) \div HeightOf[i]

-----------------------------------------------------------------------------
(* Masonry: a tile goes to the top of the shortest column.                 *)
calculateColumnCount(width) ==
  Max({1, Min({MaxColumns, (width + Gap) \div (MinColumnWidth + Gap)})})

ColumnWidth(width) ==
  (width - Gap * (calculateColumnCount(width) - 1)) \div calculateColumnCount(width)

EmptyMasonry(width) ==
  [nextY |-> [c \in 1 .. calculateColumnCount(width) |-> 0], nodes |-> <<>>]

shortestColumnIndex(nextY) ==
  Min({c \in DOMAIN nextY : \A d \in DOMAIN nextY : nextY[c] <= nextY[d]})

PlaceMasonry(builder, i, width) ==
  LET column == shortestColumnIndex(builder.nextY)
      tile   == Tile(i, (column - 1) * (ColumnWidth(width) + Gap), builder.nextY[column],
                     ColumnWidth(width), (ColumnWidth(width) * HeightOf[i]) \div WidthOf[i])
  IN  [nextY |-> [builder.nextY EXCEPT ![column] = Bottom(tile) + Gap],
       nodes |-> Append(builder.nodes, tile)]

-----------------------------------------------------------------------------
(* Justified: a row is emitted when it is full; the tail stays pending.    *)
EmptyJustified == [pending |-> <<>>, nextY |-> 0, nodes |-> <<>>]

SumOf(items, Of(_)) == FoldLeft(LAMBDA sum, i : sum + Of(i), 0, items)

rowWidthAtTargetHeight(row) ==
  SumOf(row, LAMBDA i : Scaled(i, TargetRowHeight)) + Gap * (Len(row) - 1)

\* The height at which a row fills the width between its gaps: the width by the
\* sum of the aspect ratios, here the row's width at a large height.
FittedHeight(row, width) ==
  ((width - Gap * (Len(row) - 1)) * 10000) \div SumOf(row, LAMBDA i : Scaled(i, 10000))

finalizePending(builder, width, justify) ==
  LET row    == builder.pending
      fitted == FittedHeight(row, width)
      height == IF justify THEN fitted ELSE Min({TargetRowHeight, fitted})
      X(n)   == SumOf(SubSeq(row, 1, n - 1), LAMBDA i : Scaled(i, height) + Gap)
  IN  IF row = <<>> THEN builder
      ELSE [pending |-> <<>>,
            nextY   |-> builder.nextY + height + Gap,
            nodes   |-> builder.nodes \o
              [n \in 1 .. Len(row) |->
                 Tile(row[n], X(n), builder.nextY, Scaled(row[n], height), height)]]

\* Faulty: a row is only closed when it is full.
BugNoRoomIgnored(builder, i, width) ==
  LET after == [builder EXCEPT !.pending = Append(@, i)]
  IN  IF rowWidthAtTargetHeight(after.pending) >= width
      THEN finalizePending(after, width, TRUE) ELSE after

\* The gaps of a row may use up the width before its items do.
PlaceJustified(builder, i, width) ==
  LET noRoom == builder.pending # <<>> /\ Gap * Len(builder.pending) >= width
      before == IF noRoom THEN finalizePending(builder, width, FALSE) ELSE builder
      after  == [before EXCEPT !.pending = Append(@, i)]
  IN  IF rowWidthAtTargetHeight(after.pending) >= width
      THEN finalizePending(after, width, TRUE) ELSE after

-----------------------------------------------------------------------------
(* Atlas: rows of one height, filled up to the width of the world.         *)
EmptyAtlas == [nextX |-> 0, nextY |-> 0, rowHasItems |-> FALSE, nodes |-> <<>>]

\* Items that are deferred elsewhere are squares here.
AtlasWidth(i) ==
  LET width == IF IsVisual(i) THEN Scaled(i, ItemHeight) ELSE ItemHeight
  IN  Min({WorldWidth, Max({MinItemWidth, width})})

PlaceAtlas(builder, i) ==
  LET wraps == builder.rowHasItems /\ builder.nextX + AtlasWidth(i) > WorldWidth
      x     == IF wraps THEN 0 ELSE builder.nextX
      y     == IF wraps THEN builder.nextY + ItemHeight + Gap ELSE builder.nextY
  IN  [nextX |-> x + AtlasWidth(i) + Gap, nextY |-> y, rowHasItems |-> TRUE,
       nodes |-> Append(builder.nodes, Tile(i, x, y, AtlasWidth(i), ItemHeight))]

-----------------------------------------------------------------------------
(* VerticalViewportIndex: the tiles by their tops, each with the lowest     *)
(* bottom up to it.                                                        *)
Entries(tiles) ==
  LET Before(m, n) == tiles[m].y < tiles[n].y \/ (tiles[m].y = tiles[n].y /\ m < n)
      order == SortSeq([n \in 1 .. Len(tiles) |-> n], Before)
  IN  [n \in 1 .. Len(tiles) |-> tiles[order[n]]]

prefixMaxBottom(entries, n) == Max({Bottom(entries[m]) : m \in 1 .. n})

\* The first of low .. high - 1 that has a property all behind it have, or high.
BinarySearch(Holds(_), low, high) ==
  LET search[l \in low .. high, h \in low .. high] ==
        LET middle == (l + h) \div 2
        IN  IF l >= h THEN l
            ELSE IF Holds(middle) THEN search[l, middle] ELSE search[middle + 1, h]
  IN  search[low, high]

\* Faulty: a tile above another one is taken to end above it.
BugOwnBottom(entries, top) ==
  BinarySearch(LAMBDA n : Bottom(entries[n]) >= top, 1, Len(entries) + 1)

firstPrefixBottomAtOrBelow(entries, top) ==
  BinarySearch(LAMBDA n : prefixMaxBottom(entries, n) >= top, 1, Len(entries) + 1)

firstTopBelow(entries, bottom) ==
  BinarySearch(LAMBDA n : entries[n].y > bottom, 1, Len(entries) + 1)

Touches(tile, top, bottom) == Bottom(tile) >= top /\ tile.y <= bottom

\* query, of a window as wide as the layout.
queryVisible(tiles, top, bottom) ==
  LET entries == Entries(tiles)
      first   == firstPrefixBottomAtOrBelow(entries, top)
      end     == firstTopBelow(entries, bottom)
  IN  {entries[n] : n \in {n \in first .. end - 1 : Touches(entries[n], top, bottom)}}

===================================================================================
