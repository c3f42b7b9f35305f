---------------------- MODULE BrowserRepresentations_proofs ----------------------
(***************************************************************************)
(* Proofs about BrowserRepresentations: for any number of browsers, items, *)
(* sizes, requests and sessions, every lease the scheduler hands out is    *)
(* shown or on its way, and no tile is forgotten.                          *)
(***************************************************************************)
EXTENDS BrowserRepresentations, FiniteSetTheorems, TLAPS

-----------------------------------------------------------------------------
(* How many there are in a set that changes.                               *)

LEMMA CountLoses ==
  ASSUME NEW A, NEW B, NEW x, IsFiniteSet(A), B = A \ {x}
  PROVE  /\ Cardinality(A) \in Nat
         /\ x \in A => Cardinality(B) = Cardinality(A) - 1
         /\ x \notin A => Cardinality(B) = Cardinality(A)
<1>1. Cardinality(A) \in Nat
  BY FS_CardinalityType
<1>2. x \in A => Cardinality(B) = Cardinality(A) - 1
  BY FS_RemoveElement
<1>3. x \notin A => B = A
  OBVIOUS
<1> QED
  BY <1>1, <1>2, <1>3

(* What a set loses to the image of another, and gains from another.       *)
LEMMA CountLosesMany ==
  ASSUME NEW A, IsFiniteSet(A), NEW S, NEW f \in [S -> A],
         \A x, y \in S : f[x] = f[y] => x = y
  PROVE  /\ Cardinality(A) \in Nat /\ Cardinality(S) \in Nat
         /\ Cardinality(A \ {f[x] : x \in S}) = Cardinality(A) - Cardinality(S)
<1> DEFINE T == {f[x] : x \in S}
<1>1. IsFiniteSet(T) /\ A \cap T = T
  BY FS_Subset
<1>2. f \in Injection(S, T) /\ f \in Surjection(S, T)
  BY DEF Injection, Surjection, IsInjective
<1> HIDE DEF T
<1>3. IsFiniteSet(S) /\ Cardinality(S) = Cardinality(T)
  BY <1>1, <1>2, FS_Injection
<1>4. Cardinality(A \ T) = Cardinality(A) - Cardinality(T)
  BY <1>1, FS_Difference
<1>5. Cardinality(A) \in Nat /\ Cardinality(S) \in Nat
  BY <1>3, FS_CardinalityType
<1> QED
  BY <1>3, <1>4, <1>5 DEF T

LEMMA CountGainsMany ==
  ASSUME NEW A, NEW C, IsFiniteSet(A), IsFiniteSet(C), A \cap C = {}
  PROVE  /\ Cardinality(A) \in Nat /\ Cardinality(C) \in Nat
         /\ Cardinality(A \cup C) = Cardinality(A) + Cardinality(C)
<1>1. Cardinality(A) \in Nat /\ Cardinality(C) \in Nat /\ Cardinality(A \cap C) = 0
  BY FS_CardinalityType, FS_EmptySet
<1>2. Cardinality(A \cup C) = Cardinality(A) + Cardinality(C) - Cardinality(A \cap C)
  BY FS_Union
<1> QED
  BY <1>1, <1>2

-----------------------------------------------------------------------------
(* The inductive invariant.                                                *)

Status == {"free", "pending", "cancelled", "failed", "leased"}
Asked  == [browser : Browser, key : RequestKey, priority : Priority]

Leased(st, as, k) == {r \in Request : st[r] = "leased" /\ as[r].key = k}
LeaseCounts(st, as) == [k \in RequestKey |-> Cardinality(Leased(st, as, k))]

\* A state and the request it was made for know each other, and the promise is
\* where the state says; the leases of a key are those of its requests.  A
\* handler passes through such states ts, promises st and leases ls on its way
\* from one to the next.
Linked(x, b, m, st, as, s) ==
  /\ x.request \in Request /\ st[x.request] # "free"
  /\ as[x.request].browser = b /\ as[x.request].key.media = m /\ as[x.request].key.session = s
  /\ x.phase = "loading" => st[x.request] \in {"pending", "leased", "failed"}
  /\ x.phase = "ready"   => st[x.request] = "leased"
  /\ x.phase = "error"   => st[x.request] = "failed"

Facts(ts, st, as, ls, s) ==
  /\ ts \in [Browser -> [Media -> State]]
  /\ st \in [Request -> Status]
  /\ \A r \in Request : st[r] # "free" => as[r] \in Asked
  /\ \A b \in Browser, m \in Media : ts[b][m] # NoState => Linked(ts[b][m], b, m, st, as, s)
  /\ ls = LeaseCounts(st, as)

\* A tile of browser b has a state exactly while it is rendered, and the state
\* is for the size it is rendered in, and no less urgent while it loads.
Rendered(b, v, own, as) ==
  \A m \in Media :
    /\ v[m] = Out <=> own[m] = NoState
    /\ v[m] # Out =>
         /\ as[own[m].request].key.edge = v[m].edge
         /\ own[m].phase = "loading" => v[m].priority <= as[own[m].request].priority

Types ==
  /\ session \in Session \cup {None}
  /\ disposed \in [Browser -> BOOLEAN]
  /\ view \in [Browser -> View]
  /\ \A r \in Request : status[r] = "free" => asked[r] = Nothing
  /\ \A b \in Browser : session = None \/ disposed[b] => view[b] = Nowhere

IInv ==
  /\ Types
  /\ Facts(thumbnailStates, status, asked, leases, session)
  /\ \A b \in Browser : Rendered(b, view[b], thumbnailStates[b], asked)

LEMMA LeasedIsFinite ==
  ASSUME NEW st, NEW as, NEW k
  PROVE  /\ Leased(st, as, k) \subseteq Request /\ IsFiniteSet(Leased(st, as, k))
         /\ Cardinality(Leased(st, as, k)) \in Nat
<1>1. Leased(st, as, k) \in SUBSET Request
  BY DEF Leased
<1> QED
  BY <1>1, RequestAssumption, FS_Subset, FS_CardinalityType

LEMMA StatesOfRequests ==
  ASSUME NEW x \in State
  PROVE  /\ x # NoState => x.request \in Request /\ x.phase \in {"loading", "ready", "error"}
         /\ x.request = NoRequest <=> x = NoState
BY RequestAssumption DEF State, NoState

-----------------------------------------------------------------------------
(* Releasing states.                                                       *)

\* The states of a set of browsers' items, and the states without them.
StatesIn(ts, P) ==
  {x \in State : x # NoState /\ \E b \in Browser, m \in Media : <<b, m>> \in P /\ x = ts[b][m]}
Without(ts, P) ==
  [b \in Browser |-> [m \in Media |-> IF <<b, m>> \in P THEN NoState ELSE ts[b][m]]]

LEMMA ReleaseKeeps ==
  ASSUME NEW ts, NEW st, NEW ls, NEW s, Facts(ts, st, asked, ls, s),
         NEW P \in SUBSET (Browser \X Media)
  PROVE  /\ Facts(Without(ts, P), Released(StatesIn(ts, P), st), asked,
                  Returned(StatesIn(ts, P), ls), s)
         /\ \A r \in Request : st[r] = "free" => Released(StatesIn(ts, P), st)[r] = "free"
<1> DEFINE states == StatesIn(ts, P)
           left == Without(ts, P)
<1>0. /\ \A x : x \in states <=>
           x # NoState /\ \E b \in Browser, m \in Media : <<b, m>> \in P /\ x = ts[b][m]
      /\ left = [b \in Browser |-> [m \in Media |-> IF <<b, m>> \in P THEN NoState ELSE ts[b][m]]]
  <2>1. ts \in [Browser -> [Media -> State]]
    BY DEF Facts
  <2>2. \A b \in Browser, m \in Media : ts[b][m] \in State
    BY <2>1
  <2> QED
    BY <2>2 DEF StatesIn, Without
<1> HIDE DEF states, left
<1>1. /\ ts \in [Browser -> [Media -> State]] /\ st \in [Request -> Status]
      /\ \A r \in Request : st[r] # "free" => asked[r] \in Asked
      /\ \A b \in Browser, m \in Media : ts[b][m] # NoState => Linked(ts[b][m], b, m, st, asked, s)
      /\ ls = LeaseCounts(st, asked)
  BY DEF Facts
<1>2. \A x \in states : \E b \in Browser, m \in Media :
         /\ <<b, m>> \in P /\ x = ts[b][m] /\ Linked(x, b, m, st, asked, s)
         /\ x \in State /\ x # NoState /\ x.phase \in {"loading", "ready", "error"}
  <2>1. \A b \in Browser, m \in Media : ts[b][m] \in State
    BY <1>1
  <2> SUFFICES ASSUME NEW x \in states
               PROVE  \E b \in Browser, m \in Media :
                        /\ <<b, m>> \in P /\ x = ts[b][m] /\ Linked(x, b, m, st, asked, s)
                        /\ x \in State /\ x # NoState /\ x.phase \in {"loading", "ready", "error"}
    OBVIOUS
  <2>2. PICK b \in Browser, m \in Media : <<b, m>> \in P /\ x = ts[b][m] /\ x # NoState
    BY <1>0
  <2>3. Linked(x, b, m, st, asked, s) /\ x \in State
    BY <1>1, <2>1, <2>2
  <2>4. x.phase \in {"loading", "ready", "error"}
    BY <2>2, <2>3, StatesOfRequests
  <2> QED
    BY <2>2, <2>3, <2>4
<1>3. \A x \in states : /\ x.request \in Request /\ st[x.request] # "free"
                        /\ x.phase = "ready" <=> x.phase # "loading" /\ st[x.request] = "leased"
  BY <1>2 DEF Linked
<1>4. ASSUME NEW x \in states, NEW y \in states, x.request = y.request PROVE x = y
  <2>1. PICK b \in Browser, m \in Media : x = ts[b][m] /\ Linked(x, b, m, st, asked, s)
    BY <1>2
  <2>2. PICK c \in Browser, n \in Media : y = ts[c][n] /\ Linked(y, c, n, st, asked, s)
    BY <1>2
  <2>3. b = c /\ m = n
    BY <1>4, <2>1, <2>2 DEF Linked
  <2> QED
    BY <2>1, <2>2, <2>3
<1>5. ASSUME NEW b \in Browser, NEW m \in Media, left[b][m] # NoState
      PROVE  /\ left[b][m] = ts[b][m] /\ Linked(ts[b][m], b, m, st, asked, s)
             /\ \A x \in states : x.request # ts[b][m].request
  <2>1. left[b][m] = ts[b][m] /\ <<b, m>> \notin P
    BY <1>0, <1>5
  <2>2. Linked(ts[b][m], b, m, st, asked, s)
    BY <1>1, <1>5, <2>1
  <2>3. ASSUME NEW x \in states, x.request = ts[b][m].request PROVE FALSE
    <3>1. PICK c \in Browser, n \in Media : <<c, n>> \in P /\ Linked(x, c, n, st, asked, s)
      BY <1>2
    <3>2. b = c /\ m = n
      BY <2>2, <2>3, <3>1 DEF Linked
    <3> QED
      BY <2>1, <3>1, <3>2
  <2> QED
    BY <2>1, <2>2, <2>3
<1>6. PICK now \in {Released(states, st)} :
        now = [r \in Request |->
                 IF \E x \in states : x.request = r /\ x.phase # "loading" THEN "free"
                 ELSE IF st[r] = "pending" /\ \E x \in states : x.request = r THEN "cancelled"
                 ELSE st[r]]
  BY DEF Released
<1>7. /\ now \in [Request -> Status]
      /\ \A r \in Request : now[r] # "free" => st[r] # "free"
  <2>1. \A r \in Request : now[r] \in Status /\ (now[r] # "free" => st[r] # "free")
    BY <1>1, <1>6 DEF Status
  <2> QED
    BY <1>6, <2>1
<1>8. ASSUME NEW b \in Browser, NEW m \in Media, left[b][m] # NoState
      PROVE  Linked(left[b][m], b, m, now, asked, s)
  <2>1. now[left[b][m].request] = st[left[b][m].request]
    BY <1>5, <1>6, <1>8 DEF Linked
  <2> QED
    BY <1>5, <1>8, <2>1 DEF Linked
<1>9. ASSUME NEW k \in RequestKey
      PROVE  Returned(states, ls)[k] = Cardinality(Leased(now, asked, k))
  <2> DEFINE S == {x \in states : x.phase = "ready" /\ asked[x.request].key = k}
             f == [x \in S |-> x.request]
  <2>1. Returned(states, ls)[k] = Cardinality(Leased(st, asked, k)) - Cardinality(S)
    BY <1>1 DEF LeaseCounts, Returned
  <2>2. f \in [S -> Leased(st, asked, k)] /\ \A x, y \in S : f[x] = f[y] => x = y
    BY <1>3, <1>4 DEF Leased
  <2>3. Leased(now, asked, k) = Leased(st, asked, k) \ {f[x] : x \in S}
    <3>1. \A r \in Request : now[r] = "leased" <=>
             st[r] = "leased" /\ ~\E x \in states : x.request = r /\ x.phase # "loading"
      BY <1>6
    <3>2. \A r \in Request : st[r] = "leased" /\ asked[r].key = k =>
             ((\E x \in states : x.request = r /\ x.phase # "loading") <=> \E x \in S : f[x] = r)
      BY <1>3
    <3> HIDE DEF S, f
    <3> QED
      BY <3>1, <3>2 DEF Leased
  <2> HIDE DEF S, f
  <2>4. Cardinality(Leased(now, asked, k)) = Cardinality(Leased(st, asked, k)) - Cardinality(S)
    BY <2>2, <2>3, LeasedIsFinite, CountLosesMany
  <2> QED
    BY <2>1, <2>4
<1>10. Returned(states, ls) = LeaseCounts(now, asked)
  <2>1. Returned(states, ls) = [k \in RequestKey |-> Returned(states, ls)[k]]
    BY DEF Returned
  <2> QED
    BY <1>9, <2>1 DEF LeaseCounts
<1>11. left \in [Browser -> [Media -> State]]
  BY <1>0, <1>1 DEF State
<1>12. Facts(left, now, asked, Returned(states, ls), s)
  BY <1>1, <1>7, <1>8, <1>10, <1>11 DEF Facts
<1> QED
  BY <1>6, <1>7, <1>12 DEF left, states

-----------------------------------------------------------------------------
(* A refresh.                                                              *)

\* New states: each for a free request, which is pending now.
AskFor(b, v, fresh, new, left, st) ==
  /\ thumbnailStates' = [left EXCEPT ![b] =
       [m \in Media |-> IF m \in fresh THEN [request |-> new[m], phase |-> "loading"]
                        ELSE left[b][m]]]
  /\ status' \in [Request -> Status]
  /\ \A m \in fresh :
       /\ v[m] # Out /\ left[b][m] = NoState
       /\ new[m] \in Request /\ st[new[m]] = "free" /\ status'[new[m]] = "pending"
       /\ asked'[new[m]] = [browser  |-> b,
                            key      |-> [session |-> session, media |-> m, edge |-> v[m].edge],
                            priority |-> v[m].priority]
  /\ \A r \in Request : (\A m \in fresh : r # new[m]) =>
       /\ status'[r] = st[r]
       /\ asked'[r] = IF st[r] = "free" THEN Nothing ELSE asked[r]

LEMMA AskKeeps ==
  ASSUME NEW b \in Browser, NEW v \in View, NEW fresh \in SUBSET Media, NEW new, NEW left, NEW st,
         Facts(left, st, asked, leases', session), AskFor(b, v, fresh, new, left, st),
         session \in Session \cup {None}, session = None => v = Nowhere
  PROVE  Facts(thumbnailStates', status', asked', leases', session)
<1>1. /\ left \in [Browser -> [Media -> State]] /\ st \in [Request -> Status]
      /\ \A r \in Request : st[r] # "free" => asked[r] \in Asked
      /\ \A c \in Browser, m \in Media : left[c][m] # NoState => Linked(left[c][m], c, m, st, asked, session)
      /\ leases' = LeaseCounts(st, asked)
  BY DEF Facts
<1>2. \A m \in fresh :
        /\ new[m] \in Request /\ st[new[m]] = "free" /\ status'[new[m]] = "pending"
        /\ asked'[new[m]].browser = b /\ asked'[new[m]].key.media = m
        /\ asked'[new[m]].key.session = session /\ asked'[new[m]] \in Asked
  <2> SUFFICES ASSUME NEW m \in fresh PROVE
        /\ new[m] \in Request /\ st[new[m]] = "free" /\ status'[new[m]] = "pending"
        /\ asked'[new[m]].browser = b /\ asked'[new[m]].key.media = m
        /\ asked'[new[m]].key.session = session /\ asked'[new[m]] \in Asked
    OBVIOUS
  <2>1. v[m] # Out /\ v[m] \in Tile \cup {Out}
    BY DEF AskFor, View
  <2>2. v[m].edge \in Edge /\ v[m].priority \in Priority
    BY <2>1 DEF Tile
  <2>3. session \in Session
    BY <2>1 DEF Nowhere
  <2>4. /\ new[m] \in Request /\ st[new[m]] = "free" /\ status'[new[m]] = "pending"
        /\ asked'[new[m]] = [browser  |-> b,
                             key      |-> [session |-> session, media |-> m, edge |-> v[m].edge],
                             priority |-> v[m].priority]
    BY DEF AskFor
  <2> QED
    BY <2>2, <2>3, <2>4 DEF Asked, RequestKey
<1>3. \A r \in Request : st[r] # "free" => status'[r] = st[r] /\ asked'[r] = asked[r]
  BY <1>2 DEF AskFor
<1>4. \A r \in Request : st[r] = "free" /\ status'[r] # "free" => \E m \in fresh : r = new[m]
  BY DEF AskFor
<1>5. thumbnailStates' \in [Browser -> [Media -> State]]
  <2>1. \A m \in fresh : [request |-> new[m], phase |-> "loading"] \in State
    BY <1>2 DEF State
  <2> QED
    BY <1>1, <2>1 DEF AskFor
<1>6. \A r \in Request : status'[r] # "free" => asked'[r] \in Asked
  BY <1>1, <1>2, <1>3, <1>4
<1>7. ASSUME NEW c \in Browser, NEW m \in Media, thumbnailStates'[c][m] # NoState
      PROVE  Linked(thumbnailStates'[c][m], c, m, status', asked', session)
  <2>1. CASE c = b /\ m \in fresh
    <3>1. thumbnailStates'[c][m] = [request |-> new[m], phase |-> "loading"]
      BY <1>1, <2>1 DEF AskFor
    <3> QED
      BY <1>2, <2>1, <3>1 DEF Linked
  <2>2. CASE ~(c = b /\ m \in fresh)
    <3>1. thumbnailStates'[c][m] = left[c][m]
      BY <1>1, <2>2 DEF AskFor
    <3>2. Linked(left[c][m], c, m, st, asked, session)
      BY <1>1, <1>7, <3>1
    <3> QED
      BY <1>3, <3>1, <3>2 DEF Linked
  <2> QED
    BY <2>1, <2>2
<1>8. \A k \in RequestKey : Leased(status', asked', k) = Leased(st, asked, k)
  <2>1. \A r \in Request : status'[r] = "leased" <=> st[r] = "leased"
    BY <1>2, <1>3, <1>4
  <2> QED
    BY <1>3, <2>1 DEF Leased
<1>9. leases' = LeaseCounts(status', asked')
  BY <1>1, <1>8 DEF LeaseCounts
<1> QED
  BY <1>5, <1>6, <1>7, <1>9 DEF AskFor, Facts

\* The states with those of browser b as its handler left them.
With(b, own) == [thumbnailStates EXCEPT ![b] = own]

\* What a refresh does: states that no tile suits are released, and the tiles
\* left without one ask.
LEMMA RefreshParts ==
  ASSUME NEW b \in Browser, NEW v \in View, NEW own \in [Media -> State], NEW st, NEW ls,
         refresh(b, v, own, st, ls), Facts(With(b, own), st, asked, ls, session),
         thumbnailStates \in [Browser -> [Media -> State]]
  PROVE  \E kept, fresh \in SUBSET Media : \E left, new, now :
           /\ kept = {m \in Media : v[m] # Out /\ Suits(own[m], m, v[m])}
           /\ fresh = {m \in Media : v[m] # Out} \ kept
           /\ left = [thumbnailStates EXCEPT ![b] = [m \in Media |-> IF m \in kept THEN own[m] ELSE NoState]]
           /\ Facts(left, now, asked, leases', session)
           /\ AskFor(b, v, fresh, new, left, now)
           /\ view' = [view EXCEPT ![b] = v]
           /\ \A r \in Request : status'[r] = "free" => asked'[r] = Nothing
<1> DEFINE kept  == {m \in Media : v[m] # Out /\ Suits(own[m], m, v[m])}
           fresh == {m \in Media : v[m] # Out} \ kept
           gone  == {own[m] : m \in Media \ kept} \ {NoState}
           askedFor(m) == [browser  |-> b,
                           key      |-> [session |-> session, media |-> m, edge |-> v[m].edge],
                           priority |-> v[m].priority]
           Asks(r, new)  == \E m \in fresh : new[m] = r
           Asker(r, new) == CHOOSE m \in fresh : new[m] = r
<1>1. kept \in SUBSET Media /\ fresh \in SUBSET Media
  OBVIOUS
<1>2. \A m \in Media : m \in fresh <=> v[m] # Out /\ m \notin kept
  OBVIOUS
<1>3. \A x : x \in gone <=> x # NoState /\ \E m \in Media : m \notin kept /\ x = own[m]
  OBVIOUS
<1>4. PICK new \in [fresh -> {r \in Request : st[r] = "free"}] :
        /\ \A m, n \in fresh : new[m] = new[n] => m = n
        /\ view' = [view EXCEPT ![b] = v]
        /\ thumbnailStates' = [thumbnailStates EXCEPT ![b] =
             [m \in Media |->
                IF m \in kept THEN own[m]
                ELSE IF m \in fresh THEN [request |-> new[m], phase |-> "loading"]
                ELSE NoState]]
        /\ status' = [r \in Request |->
             IF Asks(r, new) THEN "pending" ELSE Released(gone, st)[r]]
        /\ asked' = Forget([r \in Request |->
             IF Asks(r, new) THEN askedFor(Asker(r, new)) ELSE asked[r]])
        /\ leases' = Returned(gone, ls)
  BY Zenon DEF refresh
<1> DEFINE ts == With(b, own)
           P == {b} \X {m \in Media : m \notin kept}
           left == Without(ts, P)
           now == Released(gone, st)
<1>5. /\ P \in SUBSET (Browser \X Media)
      /\ \A c \in Browser, m \in Media : <<c, m>> \in P <=> c = b /\ m \notin kept
  OBVIOUS
<1>6. kept = {m \in Media : v[m] # Out /\ Suits(own[m], m, v[m])} /\ fresh = {m \in Media : v[m] # Out} \ kept
  OBVIOUS
<1>7. /\ ts \in [Browser -> [Media -> State]] /\ ts[b] = own
      /\ \A c \in Browser : c # b => ts[c] = thumbnailStates[c]
  BY DEF With
<1>8. left = [c \in Browser |-> [m \in Media |-> IF <<c, m>> \in P THEN NoState ELSE ts[c][m]]]
  BY DEF Without
<1>9. gone = StatesIn(ts, P)
  <2>1. \A m \in Media : own[m] \in State
    OBVIOUS
  <2> HIDE DEF P, kept, gone
  <2>2. ASSUME NEW x \in gone PROVE x \in StatesIn(ts, P)
    <3>1. PICK m \in Media : m \notin kept /\ x = own[m] /\ x # NoState
      BY <1>3
    <3>2. <<b, m>> \in P /\ x = ts[b][m] /\ x \in State
      BY <1>5, <1>7, <2>1, <3>1
    <3> QED
      BY <3>1, <3>2 DEF StatesIn
  <2>3. ASSUME NEW x \in StatesIn(ts, P) PROVE x \in gone
    <3>1. PICK c \in Browser, m \in Media : <<c, m>> \in P /\ x = ts[c][m] /\ x # NoState
      BY DEF StatesIn
    <3>2. c = b /\ m \notin kept /\ x = own[m]
      BY <1>5, <1>7, <3>1
    <3> QED
      BY <1>3, <3>1, <3>2
  <2> QED
    BY <2>2, <2>3
<1> HIDE DEF kept, fresh, gone, P, ts
<1>14. Facts(left, now, asked, leases', session) /\ \A r \in Request : st[r] = "free" => now[r] = "free"
  <2>1. Facts(ts, st, asked, ls, session) /\ P \in SUBSET (Browser \X Media)
    BY <1>5 DEF ts
  <2>2. /\ Facts(left, now, asked, Returned(gone, ls), session)
        /\ \A r \in Request : st[r] = "free" => now[r] = "free"
    BY ONLY <1>9, <2>1, ReleaseKeeps DEF left, now, ts
  <2> QED
    BY <1>4, <2>2
<1> HIDE DEF now, left
<1>10. left = [thumbnailStates EXCEPT ![b] = [m \in Media |-> IF m \in kept THEN own[m] ELSE NoState]]
  <2>1. \A c \in Browser :
          [m \in Media |-> IF <<c, m>> \in P THEN NoState ELSE ts[c][m]]
            = IF c = b THEN [m \in Media |-> IF m \in kept THEN own[m] ELSE NoState] ELSE ts[c]
    <3> SUFFICES ASSUME NEW c \in Browser
                 PROVE  [m \in Media |-> IF <<c, m>> \in P THEN NoState ELSE ts[c][m]]
                          = IF c = b THEN [m \in Media |-> IF m \in kept THEN own[m] ELSE NoState] ELSE ts[c]
      OBVIOUS
    <3>1. CASE c = b
      BY <1>5, <1>7, <3>1
    <3>2. CASE c # b
      <4>1. ts[c] \in [Media -> State]
        BY <1>7
      <4> QED
        BY <1>5, <3>2, <4>1
    <3> QED
      BY <3>1, <3>2
  <2>2. left = [c \in Browser |-> IF c = b THEN [m \in Media |-> IF m \in kept THEN own[m] ELSE NoState]
                                   ELSE ts[c]]
    BY <1>8, <2>1
  <2> QED
    BY <1>7, <2>2
<1>11. \A m \in fresh : Asks(new[m], new) /\ Asker(new[m], new) = m
  BY <1>4
<1>12. AskFor(b, v, fresh, new, left, now)
  <2>1. now \in [Request -> Status]
    BY <1>14 DEF Facts
  <2>2. status' \in [Request -> Status]
    BY <1>4, <2>1 DEF Status, now
  <2>3. ASSUME NEW m \in fresh
        PROVE  /\ v[m] # Out /\ left[b][m] = NoState
               /\ new[m] \in Request /\ now[new[m]] = "free" /\ status'[new[m]] = "pending"
               /\ asked'[new[m]] = askedFor(m)
    <3>1. v[m] # Out /\ m \notin kept
      BY <1>1, <1>2
    <3>2. left[b][m] = NoState
      BY <1>1, <1>7, <1>10, <3>1
    <3>3. new[m] \in Request /\ now[new[m]] = "free"
      BY <1>4, <1>14
    <3>4. status'[new[m]] = "pending"
      BY <1>4, <1>11, <3>3
    <3>5. asked'[new[m]] = askedFor(m)
      BY <1>4, <1>11, <3>3, <3>4 DEF Forget
    <3> QED
      BY <3>1, <3>2, <3>3, <3>4, <3>5
  <2>4. ASSUME NEW r \in Request, \A m \in fresh : r # new[m]
        PROVE  status'[r] = now[r] /\ asked'[r] = IF now[r] = "free" THEN Nothing ELSE asked[r]
    BY <1>4, <2>4 DEF now, Forget
  <2>5. thumbnailStates' = [left EXCEPT ![b] =
          [m \in Media |-> IF m \in fresh THEN [request |-> new[m], phase |-> "loading"]
                           ELSE left[b][m]]]
    <3>1. left[b] = [m \in Media |-> IF m \in kept THEN own[m] ELSE NoState]
      BY <1>7, <1>10
    <3>2. [m \in Media |-> IF m \in fresh THEN [request |-> new[m], phase |-> "loading"] ELSE left[b][m]]
            = [m \in Media |-> IF m \in kept THEN own[m]
                               ELSE IF m \in fresh THEN [request |-> new[m], phase |-> "loading"]
                               ELSE NoState]
      BY <1>2, <3>1
    <3> QED
      BY <1>4, <1>10, <3>2
  <2> QED
    BY <2>2, <2>3, <2>4, <2>5 DEF AskFor
<1>13. \A r \in Request : status'[r] = "free" => asked'[r] = Nothing
  BY <1>4 DEF Forget
<1> QED
  BY <1>1, <1>4, <1>6, <1>10, <1>12, <1>13, <1>14

LEMMA RefreshKeeps ==
  ASSUME IInv, NEW b \in Browser, NEW v \in View, NEW own \in [Media -> State], NEW st, NEW ls,
         refresh(b, v, own, st, ls), UNCHANGED <<session, disposed>>,
         Facts(With(b, own), st, asked, ls, session),
         session = None \/ disposed[b] => v = Nowhere
  PROVE  IInv'
<1>1. /\ Types /\ thumbnailStates \in [Browser -> [Media -> State]]
      /\ \A c \in Browser : Rendered(c, view[c], thumbnailStates[c], asked)
      /\ session \in Session \cup {None} /\ view \in [Browser -> View]
  BY DEF IInv, Facts, Types
<1>2. PICK kept, fresh \in SUBSET Media : \E left, new, now :
        /\ kept = {m \in Media : v[m] # Out /\ Suits(own[m], m, v[m])}
        /\ fresh = {m \in Media : v[m] # Out} \ kept
        /\ left = [thumbnailStates EXCEPT ![b] = [m \in Media |-> IF m \in kept THEN own[m] ELSE NoState]]
        /\ Facts(left, now, asked, leases', session)
        /\ AskFor(b, v, fresh, new, left, now)
        /\ view' = [view EXCEPT ![b] = v]
        /\ \A r \in Request : status'[r] = "free" => asked'[r] = Nothing
  BY <1>1, RefreshParts
<1>3. PICK left, new, now :
        /\ kept = {m \in Media : v[m] # Out /\ Suits(own[m], m, v[m])}
        /\ fresh = {m \in Media : v[m] # Out} \ kept
        /\ left = [thumbnailStates EXCEPT ![b] = [m \in Media |-> IF m \in kept THEN own[m] ELSE NoState]]
        /\ Facts(left, now, asked, leases', session)
        /\ AskFor(b, v, fresh, new, left, now)
        /\ view' = [view EXCEPT ![b] = v]
        /\ \A r \in Request : status'[r] = "free" => asked'[r] = Nothing
  BY <1>2
<1>4. Facts(thumbnailStates', status', asked', leases', session)
  BY <1>1, <1>3, AskKeeps
<1>5. Types'
  BY <1>1, <1>3 DEF Types
<1>6. /\ left[b] = [m \in Media |-> IF m \in kept THEN own[m] ELSE NoState]
      /\ \A c \in Browser : c # b => left[c] = thumbnailStates[c]
  BY <1>1, <1>3
<1>7. /\ \A c \in Browser : c # b => thumbnailStates'[c] = thumbnailStates[c] /\ view'[c] = view[c]
      /\ view'[b] = v
      /\ \A m \in Media : thumbnailStates'[b][m] =
            IF m \in fresh THEN [request |-> new[m], phase |-> "loading"]
            ELSE IF m \in kept THEN own[m] ELSE NoState
  BY <1>1, <1>3, <1>6 DEF AskFor
<1>8. ASSUME NEW c \in Browser, NEW m \in Media, left[c][m] # NoState
      PROVE  left[c][m].request \in Request /\ asked'[left[c][m].request] = asked[left[c][m].request]
  <2>1. Linked(left[c][m], c, m, now, asked, session)
    BY <1>3, <1>8 DEF Facts
  <2>2. PICK r \in Request : r = left[c][m].request /\ now[r] # "free"
    BY <2>1 DEF Linked
  <2>3. asked'[r] = asked[r]
    <3>1. AskFor(b, v, fresh, new, left, now)
      BY <1>3
    <3>2. \A other \in fresh : r # new[other]
      BY <2>2, <3>1 DEF AskFor
    <3> QED
      BY <2>2, <3>1, <3>2 DEF AskFor
  <2> QED
    BY <2>2, <2>3
<1>9. ASSUME NEW c \in Browser, c # b PROVE Rendered(c, view'[c], thumbnailStates'[c], asked')
  BY <1>1, <1>6, <1>7, <1>8, <1>9 DEF Rendered
<1>10. Rendered(b, v, thumbnailStates'[b], asked')
  <2> SUFFICES ASSUME NEW m \in Media
               PROVE  LET x == thumbnailStates'[b][m]
                      IN  /\ v[m] = Out <=> x = NoState
                          /\ v[m] # Out =>
                               /\ asked'[x.request].key.edge = v[m].edge
                               /\ x.phase = "loading" => v[m].priority <= asked'[x.request].priority
    BY DEF Rendered
  <2>1. CASE m \in kept
    <3>1. /\ v[m] # Out /\ own[m] # NoState /\ asked[own[m].request].key.edge = v[m].edge
          /\ own[m].phase = "loading" => v[m].priority <= asked[own[m].request].priority
      BY <1>3, <2>1 DEF Suits
    <3>2. thumbnailStates'[b][m] = own[m] /\ left[b][m] = own[m]
      BY <1>3, <1>6, <1>7, <2>1
    <3>3. asked'[own[m].request] = asked[own[m].request]
      BY <1>8, <3>1, <3>2
    <3> QED
      BY <3>1, <3>2, <3>3
  <2>2. CASE m \in fresh
    <3>1. /\ v[m] # Out /\ thumbnailStates'[b][m] = [request |-> new[m], phase |-> "loading"]
          /\ asked'[new[m]] = [browser  |-> b,
                               key      |-> [session |-> session, media |-> m, edge |-> v[m].edge],
                               priority |-> v[m].priority]
      BY <1>3, <1>7, <2>2 DEF AskFor
    <3>2. thumbnailStates'[b][m] # NoState
      BY <3>1 DEF NoState
    <3>3. v[m].priority <= v[m].priority
      <4>1. v[m] \in Tile
        BY <3>1 DEF View
      <4>2. v[m].priority \in Nat
        BY <4>1 DEF Tile, Priority
      <4> QED
        BY <4>2
    <3> QED
      BY <3>1, <3>2, <3>3
  <2>3. CASE m \notin kept /\ m \notin fresh
    BY <1>3, <1>7, <2>3
  <2> QED
    BY <2>1, <2>2, <2>3
<1>11. \A c \in Browser : Rendered(c, view'[c], thumbnailStates'[c], asked')
  BY <1>7, <1>9, <1>10
<1> QED
  BY <1>4, <1>5, <1>11 DEF IInv

LEMMA RefreshActionKeeps ==
  ASSUME IInv, NEW b \in Browser, NEW v \in View, Refresh(b, v)
  PROVE  IInv'
<1>1. /\ thumbnailStates \in [Browser -> [Media -> State]]
      /\ Facts(thumbnailStates, status, asked, leases, session)
  BY DEF IInv, Facts
<1>2. /\ thumbnailStates[b] \in [Media -> State]
      /\ With(b, thumbnailStates[b]) = thumbnailStates
  BY <1>1 DEF With
<1>3. /\ refresh(b, v, thumbnailStates[b], status, leases) /\ UNCHANGED <<session, disposed>>
      /\ session = None \/ disposed[b] => v = Nowhere
  BY DEF Refresh
<1>4. Facts(With(b, thumbnailStates[b]), status, asked, leases, session)
  BY <1>1, <1>2
<1> QED
  BY <1>2, <1>3, <1>4, RefreshKeeps

-----------------------------------------------------------------------------
(* Dropping all states of some browsers.                                   *)

LEMMA StatesOfAll ==
  ASSUME thumbnailStates \in [Browser -> [Media -> State]], NEW bs \in SUBSET Browser
  PROVE  /\ StatesIn(thumbnailStates, bs \X Media) = UNION {States(b) : b \in bs}
         /\ bs \X Media \in SUBSET (Browser \X Media)
         /\ Without(thumbnailStates, bs \X Media) =
              [b \in Browser |-> IF b \in bs THEN [m \in Media |-> NoState] ELSE thumbnailStates[b]]
<1> DEFINE P == bs \X Media
<1>1. \A b \in Browser, m \in Media : <<b, m>> \in P <=> b \in bs
  OBVIOUS
<1>2. P \in SUBSET (Browser \X Media)
  OBVIOUS
<1> HIDE DEF P
<1>3. \A b \in Browser, m \in Media : thumbnailStates[b][m] \in State
  OBVIOUS
<1>4. ASSUME NEW x PROVE x \in StatesIn(thumbnailStates, P) <=> \E b \in bs : x \in States(b)
  <2>1. ASSUME x \in StatesIn(thumbnailStates, P) PROVE \E b \in bs : x \in States(b)
    BY <1>1, <2>1 DEF StatesIn, States
  <2>2. ASSUME NEW b \in bs, x \in States(b) PROVE x \in StatesIn(thumbnailStates, P)
    <3>1. PICK m \in Media : x = thumbnailStates[b][m] /\ x # NoState
      BY <2>2 DEF States
    <3>2. <<b, m>> \in P /\ x \in State
      BY <1>1, <1>3, <3>1
    <3> QED
      BY <3>1, <3>2 DEF StatesIn
  <2> QED
    BY <2>1, <2>2
<1>5. \A b \in Browser :
        [m \in Media |-> IF <<b, m>> \in P THEN NoState ELSE thumbnailStates[b][m]]
          = IF b \in bs THEN [m \in Media |-> NoState] ELSE thumbnailStates[b]
  <2> SUFFICES ASSUME NEW b \in Browser
               PROVE  [m \in Media |-> IF <<b, m>> \in P THEN NoState ELSE thumbnailStates[b][m]]
                        = IF b \in bs THEN [m \in Media |-> NoState] ELSE thumbnailStates[b]
    OBVIOUS
  <2>1. thumbnailStates[b] \in [Media -> State]
    OBVIOUS
  <2> QED
    BY <1>1, <2>1
<1>6. StatesIn(thumbnailStates, P) = UNION {States(b) : b \in bs}
  BY <1>4
<1>7. Without(thumbnailStates, P) =
        [b \in Browser |-> IF b \in bs THEN [m \in Media |-> NoState] ELSE thumbnailStates[b]]
  BY <1>5 DEF Without
<1> QED
  BY <1>2, <1>6, <1>7 DEF P

LEMMA SetLayoutModeKeeps ==
  ASSUME IInv, NEW v \in View, setLayoutMode(v)
  PROVE  IInv'
<1> DEFINE b == FlowBrowser
           own == [m \in Media |-> NoState]
           st == Released(States(b), status)
           ls == Returned(States(b), leases)
<1>1. /\ b \in Browser /\ own \in [Media -> State]
      /\ thumbnailStates \in [Browser -> [Media -> State]]
      /\ Facts(thumbnailStates, status, asked, leases, session)
  BY FlowBrowserAssumption DEF State, IInv, Facts
<1>2. /\ refresh(b, v, own, st, ls) /\ UNCHANGED <<session, disposed>>
      /\ session = None \/ disposed[b] => v = Nowhere
  BY DEF setLayoutMode
<1>3. Facts(With(b, own), st, asked, ls, session)
  <2>1. PICK bs \in SUBSET Browser : bs = {b}
    BY <1>1
  <2> DEFINE P == bs \X Media
  <2>2. /\ StatesIn(thumbnailStates, P) = UNION {States(c) : c \in bs}
        /\ P \in SUBSET (Browser \X Media)
        /\ Without(thumbnailStates, P) =
             [c \in Browser |-> IF c \in bs THEN [m \in Media |-> NoState] ELSE thumbnailStates[c]]
    BY <1>1, StatesOfAll
  <2> HIDE DEF P
  <2>3. StatesIn(thumbnailStates, P) = States(b)
    BY <2>1, <2>2
  <2>4. Without(thumbnailStates, P) = With(b, own)
    BY <1>1, <2>1, <2>2 DEF With
  <2>5. Facts(Without(thumbnailStates, P), Released(StatesIn(thumbnailStates, P), status), asked,
              Returned(StatesIn(thumbnailStates, P), leases), session)
    BY <1>1, <2>2, ReleaseKeeps
  <2> QED
    BY <2>3, <2>4, <2>5
<1> HIDE DEF own, st, ls
<1> QED
  BY <1>1, <1>2, <1>3, RefreshKeeps

(* What is asked for by requests that are free does not matter.            *)
LEMMA ForgetKeeps ==
  ASSUME NEW ts, NEW st, NEW as, NEW now, NEW ls, NEW s, Facts(ts, st, as, ls, s),
         \A r \in Request : st[r] # "free" => now[r] = as[r]
  PROVE  Facts(ts, st, now, ls, s)
<1>1. ASSUME NEW b \in Browser, NEW m \in Media, ts[b][m] # NoState
      PROVE  Linked(ts[b][m], b, m, st, now, s)
  <2>1. Linked(ts[b][m], b, m, st, as, s)
    BY <1>1 DEF Facts
  <2> QED
    BY <2>1 DEF Linked
<1>2. \A k \in RequestKey : Leased(st, now, k) = Leased(st, as, k)
  BY DEF Leased
<1> QED
  BY <1>1, <1>2 DEF LeaseCounts, Facts

LEMMA CancelAllKeeps ==
  ASSUME IInv, NEW bs \in SUBSET Browser, cancelAll(bs)
  PROVE  /\ Facts(thumbnailStates', status', asked', leases', session)
         /\ \A r \in Request : status'[r] = "free" => asked'[r] = Nothing
         /\ \A b \in Browser : Rendered(b, view'[b], thumbnailStates'[b], asked')
         /\ view' \in [Browser -> View]
         /\ \A b \in Browser : /\ b \in bs => view'[b] = Nowhere /\ thumbnailStates'[b] = [m \in Media |-> NoState]
                               /\ b \notin bs => view'[b] = view[b] /\ thumbnailStates'[b] = thumbnailStates[b]
<1>1. /\ thumbnailStates \in [Browser -> [Media -> State]] /\ view \in [Browser -> View]
      /\ Facts(thumbnailStates, status, asked, leases, session)
      /\ \A b \in Browser : Rendered(b, view[b], thumbnailStates[b], asked)
  BY DEF IInv, Facts, Types
<1> DEFINE P == bs \X Media
<1>2. /\ StatesIn(thumbnailStates, P) = UNION {States(b) : b \in bs}
      /\ P \in SUBSET (Browser \X Media)
      /\ Without(thumbnailStates, P) =
           [b \in Browser |-> IF b \in bs THEN [m \in Media |-> NoState] ELSE thumbnailStates[b]]
  BY <1>1, StatesOfAll
<1> HIDE DEF P
<1>3. /\ thumbnailStates' = Without(thumbnailStates, P)
      /\ view' = [b \in Browser |-> IF b \in bs THEN Nowhere ELSE view[b]]
      /\ status' = Released(StatesIn(thumbnailStates, P), status)
      /\ asked' = Forget(asked)
      /\ leases' = Returned(StatesIn(thumbnailStates, P), leases)
  BY <1>2 DEF cancelAll
<1>4. Facts(thumbnailStates', status', asked, leases', session)
  BY <1>1, <1>2, <1>3, ReleaseKeeps
<1>5. \A r \in Request : asked'[r] = IF status'[r] = "free" THEN Nothing ELSE asked[r]
  BY <1>3 DEF Forget
<1>6. Facts(thumbnailStates', status', asked', leases', session)
  BY <1>4, <1>5, ForgetKeeps
<1>7. \A b \in Browser :
        /\ b \in bs => view'[b] = Nowhere /\ thumbnailStates'[b] = [m \in Media |-> NoState]
        /\ b \notin bs => view'[b] = view[b] /\ thumbnailStates'[b] = thumbnailStates[b]
  BY <1>2, <1>3
<1>8. ASSUME NEW b \in Browser PROVE Rendered(b, view'[b], thumbnailStates'[b], asked')
  <2>1. CASE b \in bs
    BY <1>7, <2>1 DEF Rendered, Nowhere
  <2>2. CASE b \notin bs
    <3>1. ASSUME NEW m \in Media, thumbnailStates[b][m] # NoState
          PROVE  asked'[thumbnailStates[b][m].request] = asked[thumbnailStates[b][m].request]
      <4>1. Linked(thumbnailStates'[b][m], b, m, status', asked, session)
        BY <1>4, <1>7, <2>2, <3>1 DEF Facts
      <4> QED
        BY <1>5, <1>7, <2>2, <4>1 DEF Linked
    <3> QED
      BY <1>1, <1>7, <2>2, <3>1 DEF Rendered
  <2> QED
    BY <2>1, <2>2
<1>9. view' \in [Browser -> View]
  BY <1>1, <1>3 DEF View, Nowhere
<1> QED
  BY <1>5, <1>6, <1>7, <1>8, <1>9

LEMMA OpenSourceKeeps ==
  ASSUME IInv, openSource
  PROVE  IInv'
<1> DEFINE bs == {b \in Browser : ~disposed[b]}
<1>1. session \in Session \cup {None} /\ session < MaxSessions /\ session' = session + 1 /\ disposed' = disposed
  BY DEF openSource, IInv, Types
<1>2. session' \in Session /\ session' # None
  BY <1>1, BoundsAssumption DEF Session, None
<1>3. /\ Facts(thumbnailStates', status', asked', leases', session)
      /\ \A r \in Request : status'[r] = "free" => asked'[r] = Nothing
      /\ \A b \in Browser : Rendered(b, view'[b], thumbnailStates'[b], asked')
      /\ view' \in [Browser -> View]
      /\ \A b \in Browser : /\ b \in bs => view'[b] = Nowhere /\ thumbnailStates'[b] = [m \in Media |-> NoState]
                            /\ b \notin bs => view'[b] = view[b] /\ thumbnailStates'[b] = thumbnailStates[b]
  BY CancelAllKeeps DEF openSource
<1>4. \A b \in Browser : view'[b] = Nowhere
  BY <1>3 DEF IInv, Types
<1>5. \A b \in Browser, m \in Media : thumbnailStates'[b][m] = NoState
  BY <1>3, <1>4 DEF Rendered, Nowhere
<1>6. Facts(thumbnailStates', status', asked', leases', session')
  BY <1>3, <1>5 DEF Facts
<1>7. Types'
  BY <1>1, <1>2, <1>3, <1>4 DEF IInv, Types
<1> QED
  BY <1>3, <1>6, <1>7 DEF IInv

LEMMA DisposeKeeps ==
  ASSUME IInv, NEW b \in Browser, dispose(b)
  PROVE  IInv'
<1>1. session' = session /\ disposed' = [disposed EXCEPT ![b] = TRUE] /\ disposed \in [Browser -> BOOLEAN]
  BY DEF dispose, IInv, Types
<1>2. /\ Facts(thumbnailStates', status', asked', leases', session)
      /\ \A r \in Request : status'[r] = "free" => asked'[r] = Nothing
      /\ \A c \in Browser : Rendered(c, view'[c], thumbnailStates'[c], asked')
      /\ view' \in [Browser -> View]
      /\ \A c \in Browser : /\ c \in {b} => view'[c] = Nowhere /\ thumbnailStates'[c] = [m \in Media |-> NoState]
                            /\ c \notin {b} => view'[c] = view[c] /\ thumbnailStates'[c] = thumbnailStates[c]
  BY CancelAllKeeps DEF dispose
<1>3. Types'
  BY <1>1, <1>2 DEF IInv, Types
<1> QED
  BY <1>1, <1>2, <1>3 DEF IInv

-----------------------------------------------------------------------------
(* The answers.                                                            *)

LEMMA AnswerKeeps ==
  ASSUME IInv, NEW key \in RequestKey, NEW outcome \in {"leased", "failed"}, Answer(key, outcome)
  PROVE  IInv'
<1> DEFINE waiting == {r \in Request : status[r] = "pending" /\ asked[r].key = key}
<1>1. /\ status' = [r \in Request |-> IF r \in waiting THEN outcome ELSE status[r]]
      /\ leases' = [leases EXCEPT ![key] =
                      IF outcome = "leased" THEN @ + Cardinality(waiting) ELSE @]
      /\ UNCHANGED <<session, disposed, view, thumbnailStates, asked>>
  BY DEF Answer
<1>2. /\ thumbnailStates \in [Browser -> [Media -> State]]
      /\ status \in [Request -> Status]
      /\ \A r \in Request : status[r] # "free" => asked[r] \in Asked
      /\ \A b \in Browser, m \in Media : thumbnailStates[b][m] # NoState =>
           Linked(thumbnailStates[b][m], b, m, status, asked, session)
      /\ leases = LeaseCounts(status, asked)
  BY DEF IInv, Facts
<1>3. \A r \in Request : r \in waiting <=> status[r] = "pending" /\ asked[r].key = key
  OBVIOUS
<1>4. waiting \in SUBSET Request /\ IsFiniteSet(waiting)
  BY FS_Subset, RequestAssumption
<1> HIDE DEF waiting
<1>5. status' \in [Request -> Status] /\ \A r \in Request : status'[r] = "free" <=> status[r] = "free"
  BY <1>1, <1>2, <1>3 DEF Status
<1>6. ASSUME NEW b \in Browser, NEW m \in Media, thumbnailStates[b][m] # NoState
      PROVE  Linked(thumbnailStates[b][m], b, m, status', asked, session)
  <2>1. Linked(thumbnailStates[b][m], b, m, status, asked, session)
    BY <1>2, <1>6
  <2> QED
    BY <1>1, <1>3, <2>1 DEF Linked
<1>7. ASSUME NEW k \in RequestKey PROVE leases'[k] = Cardinality(Leased(status', asked, k))
  <2>1. CASE outcome = "leased" /\ k = key
    <3>1. leases'[k] = Cardinality(Leased(status, asked, k)) + Cardinality(waiting)
      BY <1>1, <1>2, <2>1 DEF LeaseCounts
    <3>2. Leased(status', asked, k) = Leased(status, asked, k) \cup waiting
      BY <1>1, <1>3, <1>4, <2>1 DEF Leased
    <3>3. Leased(status, asked, k) \cap waiting = {}
      BY <1>3 DEF Leased
    <3> QED
      BY <1>4, <3>1, <3>2, <3>3, LeasedIsFinite, CountGainsMany
  <2>2. CASE ~(outcome = "leased" /\ k = key)
    <3>1. leases'[k] = Cardinality(Leased(status, asked, k))
      BY <1>1, <1>2, <2>2 DEF LeaseCounts
    <3>2. Leased(status', asked, k) = Leased(status, asked, k)
      BY <1>1, <1>3, <2>2 DEF Leased
    <3> QED
      BY <3>1, <3>2
  <2> QED
    BY <2>1, <2>2
<1>8. leases' = LeaseCounts(status', asked)
  BY <1>1, <1>2, <1>7 DEF LeaseCounts
<1>9. Facts(thumbnailStates', status', asked', leases', session')
  BY <1>1, <1>2, <1>5, <1>6, <1>8 DEF Facts
<1>10. Types'
  BY <1>1, <1>5 DEF IInv, Types
<1> QED
  BY <1>1, <1>9, <1>10 DEF IInv

\* One lease less: that of request r.
LEMMA LeaseGoes ==
  ASSUME NEW r \in Request, NEW now, status[r] = "leased", asked[r].key \in RequestKey,
         leases = LeaseCounts(status, asked),
         \A q \in Request : now[q] = "leased" <=> status[q] = "leased" /\ q # r
  PROVE  GiveBack(r) = LeaseCounts(now, asked)
<1>1. ASSUME NEW k \in RequestKey PROVE GiveBack(r)[k] = Cardinality(Leased(now, asked, k))
  <2>1. Leased(now, asked, k) = Leased(status, asked, k) \ {r}
    BY DEF Leased
  <2>2. r \in Leased(status, asked, k) <=> k = asked[r].key
    BY DEF Leased
  <2>3. GiveBack(r)[k] = IF k = asked[r].key THEN Cardinality(Leased(status, asked, k)) - 1
                                             ELSE Cardinality(Leased(status, asked, k))
    BY DEF GiveBack, LeaseCounts
  <2> QED
    BY <2>1, <2>2, <2>3, LeasedIsFinite, CountLoses
<1>2. GiveBack(r) = [k \in RequestKey |-> GiveBack(r)[k]]
  BY DEF GiveBack, LeaseCounts
<1> QED
  BY <1>1, <1>2 DEF LeaseCounts

LEMMA ArrivesLateKeeps ==
  ASSUME IInv, NEW r \in Request, ArrivesLate(r)
  PROVE  IInv'
<1>1. /\ status[r] # "free" /\ ~Current(r)
      /\ status' = [status EXCEPT ![r] = "free"] /\ asked' = Forget(asked)
      /\ leases' = IF status[r] = "leased" THEN GiveBack(r) ELSE leases
      /\ UNCHANGED <<session, disposed, view, thumbnailStates>>
  BY DEF ArrivesLate, Settled
<1>2. /\ thumbnailStates \in [Browser -> [Media -> State]]
      /\ status \in [Request -> Status]
      /\ \A q \in Request : status[q] # "free" => asked[q] \in Asked
      /\ \A b \in Browser, m \in Media : thumbnailStates[b][m] # NoState =>
           Linked(thumbnailStates[b][m], b, m, status, asked, session)
      /\ leases = LeaseCounts(status, asked)
  BY DEF IInv, Facts
<1>3. /\ status' \in [Request -> Status] /\ status'[r] = "free"
      /\ \A q \in Request : q # r => status'[q] = status[q]
  BY <1>1, <1>2 DEF Status
<1>4. ASSUME NEW b \in Browser, NEW m \in Media, thumbnailStates[b][m] # NoState
      PROVE  /\ Linked(thumbnailStates[b][m], b, m, status', asked, session)
             /\ thumbnailStates[b][m].request # r
  <2>1. Linked(thumbnailStates[b][m], b, m, status, asked, session)
    BY <1>2, <1>4
  <2>2. thumbnailStates[b][m].request # r
    BY <1>1, <2>1 DEF Linked, Current
  <2> QED
    BY <1>3, <2>1, <2>2 DEF Linked
<1>5. leases' = LeaseCounts(status', asked)
  <2>1. CASE status[r] = "leased"
    <3>1. asked[r].key \in RequestKey
      BY <1>2, <2>1 DEF Asked
    <3>2. \A q \in Request : status'[q] = "leased" <=> status[q] = "leased" /\ q # r
      BY <1>3
    <3> QED
      BY <1>1, <1>2, <2>1, <3>1, <3>2, LeaseGoes
  <2>2. CASE status[r] # "leased"
    <3>1. \A k \in RequestKey : Leased(status', asked, k) = Leased(status, asked, k)
      BY <1>3, <2>2 DEF Leased
    <3> QED
      BY <1>1, <1>2, <2>2, <3>1 DEF LeaseCounts
  <2> QED
    BY <2>1, <2>2
<1>6. \A q \in Request : status'[q] # "free" => status[q] # "free"
  BY <1>3
<1>7. Facts(thumbnailStates, status', asked, leases', session)
  BY <1>2, <1>3, <1>4, <1>5, <1>6 DEF Facts
<1>8. \A q \in Request : asked'[q] = IF status'[q] = "free" THEN Nothing ELSE asked[q]
  BY <1>1 DEF Forget
<1>9. Facts(thumbnailStates', status', asked', leases', session')
  BY <1>1, <1>7, <1>8, ForgetKeeps
<1>10. Types'
  BY <1>1, <1>8 DEF IInv, Types
<1>11. ASSUME NEW b \in Browser PROVE Rendered(b, view[b], thumbnailStates[b], asked')
  <2>1. Rendered(b, view[b], thumbnailStates[b], asked)
    BY DEF IInv
  <2>2. ASSUME NEW m \in Media, thumbnailStates[b][m] # NoState
        PROVE  asked'[thumbnailStates[b][m].request] = asked[thumbnailStates[b][m].request]
    BY <1>4, <1>8, <2>2 DEF Linked
  <2> QED
    BY <2>1, <2>2 DEF Rendered
<1> QED
  BY <1>1, <1>9, <1>10, <1>11 DEF IInv

\* The state of a current request becomes another, and the browser refreshes.
LEMMA BecomesKeeps ==
  ASSUME IInv, NEW r \in Request, Settled(r), Current(r),
         NEW phase \in {"ready", "error"}, NEW st \in [Request -> Status], NEW ls,
         \A q \in Request : q # r => st[q] = status[q],
         phase = "ready" => st[r] = "leased", phase = "error" => st[r] = "failed",
         ls = LeaseCounts(st, asked),
         Becomes(r, phase, st, ls)
  PROVE  IInv'
<1> DEFINE b == asked[r].browser
           n == asked[r].key.media
           own == [thumbnailStates[b] EXCEPT ![n].phase = phase]
<1>1. /\ thumbnailStates \in [Browser -> [Media -> State]]
      /\ status \in [Request -> Status]
      /\ \A q \in Request : status[q] # "free" => asked[q] \in Asked
      /\ \A c \in Browser, m \in Media : thumbnailStates[c][m] # NoState =>
           Linked(thumbnailStates[c][m], c, m, status, asked, session)
  BY DEF IInv, Facts
<1>2. b \in Browser /\ n \in Media /\ status[r] # "free" /\ thumbnailStates[b][n].request = r
  BY <1>1 DEF Current, Asked, RequestKey
<1>3. refresh(b, view[b], own, st, ls) /\ UNCHANGED <<session, disposed>>
  BY DEF Becomes
<1>4. view[b] \in View /\ (session = None \/ disposed[b] => view[b] = Nowhere)
  BY <1>2 DEF IInv, Types
<1> HIDE DEF b, n
<1>5. thumbnailStates[b][n] \in [request : Request, phase : {"loading", "ready", "error"}]
  <2>1. thumbnailStates[b][n] \in State /\ thumbnailStates[b][n] # NoState
    BY <1>1, <1>2, RequestAssumption DEF NoState
  <2> QED
    BY <2>1 DEF State
<1>6. /\ own \in [Media -> State] /\ own[n] = [request |-> r, phase |-> phase]
      /\ \A m \in Media : m # n => own[m] = thumbnailStates[b][m]
  <2>1. thumbnailStates[b] \in [Media -> State]
    BY <1>1, <1>2
  <2>2. own[n] = [request |-> r, phase |-> phase]
    BY <1>2, <1>5, <2>1
  <2>3. [request |-> r, phase |-> phase] \in State
    BY DEF State
  <2> QED
    BY <1>2, <2>1, <2>2, <2>3
<1> HIDE DEF own
<1>7. PICK ts \in [Browser -> [Media -> State]] :
        ts = With(b, own) /\ ts[b] = own /\ \A c \in Browser : c # b => ts[c] = thumbnailStates[c]
  <2>1. /\ With(b, own) \in [Browser -> [Media -> State]] /\ With(b, own)[b] = own
        /\ \A c \in Browser : c # b => With(b, own)[c] = thumbnailStates[c]
    BY <1>1, <1>2, <1>6 DEF With
  <2> QED
    BY <2>1
<1>8. ASSUME NEW c \in Browser, NEW m \in Media, ts[c][m] # NoState
      PROVE  Linked(ts[c][m], c, m, st, asked, session)
  <2>1. CASE c = b /\ m = n
    <3>1. ts[c][m].request = r /\ ts[c][m].phase = phase
      BY <1>6, <1>7, <2>1
    <3>2. Linked(thumbnailStates[b][n], b, n, status, asked, session)
      BY <1>1, <1>2, RequestAssumption DEF NoState
    <3> QED
      BY <1>2, <2>1, <3>1, <3>2 DEF Linked
  <2>2. CASE ~(c = b /\ m = n)
    <3>1. ts[c][m] = thumbnailStates[c][m]
      BY <1>6, <1>7, <2>2
    <3>2. Linked(ts[c][m], c, m, status, asked, session)
      BY <1>1, <1>8, <3>1
    <3>3. ts[c][m].request # r
      BY <2>2, <3>2 DEF Linked, b, n
    <3> QED
      BY <3>2, <3>3 DEF Linked
  <2> QED
    BY <2>1, <2>2
<1>9. \A q \in Request : st[q] # "free" => asked[q] \in Asked
  BY <1>1, <1>2
<1>10. Facts(With(b, own), st, asked, ls, session)
  BY <1>7, <1>8, <1>9 DEF Facts
<1> QED
  BY <1>2, <1>3, <1>4, <1>6, <1>10, RefreshKeeps

LEMMA ArrivesCurrentKeeps ==
  ASSUME IInv, NEW r \in Request, ArrivesLeased(r) \/ ArrivesFailed(r)
  PROVE  IInv'
<1>1. /\ status \in [Request -> Status] /\ (status[r] # "free" => asked[r] \in Asked)
      /\ leases = LeaseCounts(status, asked)
      /\ Settled(r) /\ Current(r)
  BY DEF IInv, Facts, ArrivesLeased, ArrivesFailed
<1>2. CASE status[r] = "leased" /\ Becomes(r, "ready", status, leases)
  BY <1>1, <1>2, BecomesKeeps
<1>3. CASE status[r] = "leased" /\ Becomes(r, "error", [status EXCEPT ![r] = "failed"], GiveBack(r))
  <2>1. PICK st \in [Request -> Status] :
          st = [status EXCEPT ![r] = "failed"] /\ st[r] = "failed"
          /\ \A q \in Request : q # r => st[q] = status[q]
    <3>1. "failed" \in Status
      BY DEF Status
    <3>2. [status EXCEPT ![r] = "failed"] \in [Request -> Status]
      BY <1>1, <3>1
    <3> QED
      BY <1>1, <3>2
  <2>2. asked[r].key \in RequestKey /\ \A q \in Request : st[q] = "leased" <=> status[q] = "leased" /\ q # r
    <3>1. asked[r] \in Asked
      BY <1>1, <1>3
    <3> QED
      BY <1>3, <2>1, <3>1 DEF Asked
  <2>3. GiveBack(r) = LeaseCounts(st, asked)
    BY <1>1, <1>3, <2>2, LeaseGoes
  <2> QED
    BY <1>1, <1>3, <2>1, <2>3, BecomesKeeps
<1>4. CASE status[r] = "failed" /\ Becomes(r, "error", status, leases)
  BY <1>1, <1>4, BecomesKeeps
<1> QED
  BY <1>2, <1>3, <1>4 DEF ArrivesLeased, ArrivesFailed

-----------------------------------------------------------------------------
(* The theorems.                                                           *)

LEMMA InitEstablishes == Init => IInv
<1> SUFFICES ASSUME Init PROVE IInv
  OBVIOUS
<1>1. Types
  BY DEF Init, Types, View, Nowhere
<1>2. Facts(thumbnailStates, status, asked, leases, session)
  <2>1. \A k \in RequestKey : Leased(status, asked, k) = {}
    BY DEF Init, Leased
  <2>2. leases = LeaseCounts(status, asked)
    BY <2>1, FS_EmptySet DEF LeaseCounts, Init
  <2> QED
    BY <2>2 DEF Init, Facts, State, Status
<1>3. \A b \in Browser : Rendered(b, view[b], thumbnailStates[b], asked)
  BY DEF Init, Rendered
<1> QED
  BY <1>1, <1>2, <1>3 DEF IInv

LEMMA StepKeeps == IInv /\ [Next]_vars => IInv'
<1> SUFFICES ASSUME IInv, [Next]_vars PROVE IInv'
  OBVIOUS
<1>1. ASSUME NEW b \in Browser, NEW v \in View, Refresh(b, v) PROVE IInv'
  BY <1>1, RefreshActionKeeps
<1>2. ASSUME NEW v \in View, setLayoutMode(v) PROVE IInv'
  BY <1>2, SetLayoutModeKeeps
<1>3. CASE openSource
  BY <1>3, OpenSourceKeeps
<1>4. ASSUME NEW b \in Browser, dispose(b) PROVE IInv'
  BY <1>4, DisposeKeeps
<1>5. ASSUME NEW key \in RequestKey, NEW outcome \in {"leased", "failed"}, Answer(key, outcome)
      PROVE  IInv'
  BY <1>5, AnswerKeeps
<1>6. ASSUME NEW r \in Request, Arrives(r) PROVE IInv'
  BY <1>6, ArrivesLateKeeps, ArrivesCurrentKeeps DEF Arrives
<1>7. CASE UNCHANGED vars
  BY <1>7 DEF vars, IInv, Types
<1> QED
  BY <1>1, <1>2, <1>3, <1>4, <1>5, <1>6, <1>7 DEF Next

\* Every state is linked to the request it was made for, and every rendered
\* tile has a state of its size, in whatever order browsers and answers move.
THEOREM Invariance == Spec => []IInv
BY InitEstablishes, StepKeeps, PTL DEF Spec

\* Every variable keeps its type; no key is returned more leases than were handed
\* out.
THEOREM TypeCorrect == Spec => []TypeOK
<1>1. IInv => TypeOK
  <2> SUFFICES ASSUME IInv PROVE TypeOK
    OBVIOUS
  <2>1. leases \in [RequestKey -> Nat]
    BY LeasedIsFinite DEF LeaseCounts, IInv, Facts
  <2>2. status \in [Request -> Status] /\ thumbnailStates \in [Browser -> [Media -> State]]
    BY DEF IInv, Facts
  <2>3. \A r \in Request : IF status[r] = "free" THEN asked[r] = Nothing ELSE asked[r] \in Asked
    BY DEF IInv, Types, Facts
  <2> QED
    BY <2>1, <2>2, <2>3 DEF IInv, Types, TypeOK, Status, Asked
<1> QED
  BY <1>1, Invariance, PTL

\* Every lease handed out is shown by a tile or on its way to a browser, for any
\* number of browsers, items, sizes, requests and sessions.
THEOREM LeasesAreShownHolds == Spec => []LeasesAreShown
<1>1. IInv => LeasesAreShown
  BY DEF LeaseCounts, IInv, Facts, Leased, LeasesAreShown
<1> QED
  BY <1>1, Invariance, PTL

\* Every rendered tile has a state for the key it wants, which will still hear of
\* an answer while it loads and holds a lease when it is ready.
THEOREM NoForgottenTileHolds == Spec => []NoForgottenTile
<1>1. IInv => NoForgottenTile
  <2> SUFFICES ASSUME IInv, NEW b \in Browser, NEW m \in Media, view[b][m] # Out
               PROVE  LET x == thumbnailStates[b][m]
                      IN  /\ x # NoState /\ asked[x.request].key = WantedKey(b, m)
                          /\ x.phase = "loading" =>
                               /\ status[x.request] \in {"pending", "leased", "failed"}
                               /\ view[b][m].priority <= asked[x.request].priority
                          /\ x.phase = "ready" => status[x.request] = "leased"
    BY DEF NoForgottenTile
  <2>1. PICK x : x = thumbnailStates[b][m]
    OBVIOUS
  <2>2. /\ x # NoState /\ asked[x.request].key.edge = view[b][m].edge
        /\ x.phase = "loading" => view[b][m].priority <= asked[x.request].priority
    BY <2>1 DEF IInv, Rendered
  <2>3. Linked(x, b, m, status, asked, session) /\ \A r \in Request : status[r] # "free" => asked[r] \in Asked
    BY <2>1, <2>2 DEF IInv, Facts
  <2>4. asked[x.request].key = WantedKey(b, m)
    <3>1. asked[x.request].key \in RequestKey
      BY <2>3 DEF Linked, Asked
    <3> QED
      BY <2>2, <2>3, <3>1 DEF Linked, RequestKey, WantedKey
  <2> QED
    BY <2>1, <2>2, <2>3, <2>4 DEF Linked
<1> QED
  BY <1>1, Invariance, PTL
===============================================================================
