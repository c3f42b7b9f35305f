------------------------------- MODULE MediaIndex --------------------------------
(***************************************************************************)
(* The projection of a session's items a query shows (MediaIndex in         *)
(* application/mediaSession.ts), kept by appending while the order is that  *)
(* of the source and rebuilt otherwise.  Items are the numbers the source   *)
(* order gives them.                                                       *)
(***************************************************************************)
EXTENDS Naturals, FiniteSets, SequencesExt

CONSTANTS
  ItemCount,   \* items of a source
  KindOf,      \* their kinds
  RankOf       \* for each sort other than "source", the sort keys of the items

Item == 1 .. ItemCount
Sort == DOMAIN RankOf \cup {"source"}

ASSUME MediaIndexAssumption ==
  /\ ItemCount \in Nat /\ KindOf \in [Item -> STRING]
  /\ "source" \notin DOMAIN RankOf
  /\ \A order \in DOMAIN RankOf : RankOf[order] \in [Item -> Nat]

\* #compareIds: equal keys keep the order of the source.
Precedes(order, i, j) ==
  IF order = "source" \/ RankOf[order][i] = RankOf[order][j] THEN i < j
  ELSE RankOf[order][i] < RankOf[order][j]

Included(i, kinds) == KindOf[i] \in kinds

\* The items of a set in an order: each has the place that so many go before.
Sorted(items, order) ==
  LET Ahead(i) == {j \in items : Precedes(order, j, i)}
  IN  [at \in 1 .. Cardinality(items) |->
         CHOOSE i \in items : Cardinality(Ahead(i)) = at - 1]

\* #rebuildProjection of the first n items.
rebuildProjection(n, kinds, order) == Sorted({i \in 1 .. n : Included(i, kinds)}, order)

\* Faulty: an item of a kind that is not shown is appended.
BugAppendAll(view, n, m, kinds, order) ==
  IF order = "source" THEN view \o [i \in 1 .. m - n |-> n + i]
  ELSE rebuildProjection(m, kinds, order)

\* upsertMany of the items n + 1 .. m, all new.
upsertMany(view, n, m, kinds, order) ==
  LET fresh == Sorted({i \in n + 1 .. m : Included(i, kinds)}, "source")
  IN  IF order = "source" \/ fresh = <<>> THEN view \o fresh
      ELSE rebuildProjection(m, kinds, order)

indexOf(view, i) == IF \E at \in 1 .. Len(view) : view[at] = i
                    THEN CHOOSE at \in 1 .. Len(view) : view[at] = i ELSE 0

==================================================================================
