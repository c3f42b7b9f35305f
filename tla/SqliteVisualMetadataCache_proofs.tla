-------------------- MODULE SqliteVisualMetadataCache_proofs --------------------
(***************************************************************************)
(* Proofs about SqliteVisualMetadataCache: for any number of scans, files, *)
(* versions, entries and launches, the cache answers for the file as it    *)
(* is, its order names its entries, and what the queue accepted is kept.   *)
(***************************************************************************)
EXTENDS SqliteVisualMetadataCache, SequenceTheorems, FiniteSetTheorems,
        WellFoundedInduction, TLAPS

-----------------------------------------------------------------------------
(* The inductive invariant.                                                *)

Running == {"memory", "sqlite"}    \* modes in which scans run

\* A scan met the file under this key, in this or an earlier version.
Met(key, met) == key.size = PrintOf[met].size /\ key.mtime = PrintOf[met].mtime

\* What is stored of a file was found in it by the parser of its key, in the
\* version its key was taken from or in one that came before the version now.
Sound(e, f) ==
  /\ e \in CacheEntry /\ e.value.parser = e.key.parser
  /\ \E met \in Version : Met(e.key, met) /\ e.value.version \in met .. f[e.key.locator]

AllSound(s, f) == \A i \in 1 .. Len(s) : s[i] # Shutdown => Sound(s[i], f)

\* The order has each cached file once, and each file's entry is its own.
Ordered(m) ==
  /\ m.insertionOrder \in Seq(Locator)
  /\ \A i, j \in 1 .. Len(m.insertionOrder) :
       m.insertionOrder[i] = m.insertionOrder[j] => i = j
  /\ ToSet(m.insertionOrder) = DOMAIN m.entries
  /\ Len(m.insertionOrder) <= MaxEntries

Owns(m, f) ==
  \A l \in DOMAIN m.entries : Sound(m.entries[l], f) /\ m.entries[l].key.locator = l

MemoryOK(m, f) == Ordered(m) /\ Owns(m, f)

\* A scan holds the key of a version that the file has had, then what it read.
ScanKey == [locator : Locator, size : Nat, mtime : Nat \cup {NoTime}, parser : Parser]
Reading == [pc : {"lookup", "read"}, key : ScanKey]
Storing == [pc : {"store", "send"}, key : Key, value : Value]

Looks(x, f) ==
  /\ x \in Reading
  /\ \/ x.pc = "read" /\ x.key.mtime = NoTime
     \/ \E met \in Version : met <= f[x.key.locator] /\ Met(x.key, met)

Stores(x, f) == x \in Storing /\ Sound(CachedEntry(x.key, x.value), f)

ScanOK(x, f, p) == x = Idle \/ ((Looks(x, f) \/ Stores(x, f)) /\ x.key.parser = p)

Files ==
  /\ file \in [Locator -> Version]
  /\ launches \in 0 .. MaxLaunches /\ reads \in 0 .. MaxReads /\ parser \in Parser
  /\ mode \in {"closed", "memory", "sqlite", "sending", "joining"}

Scans ==
  /\ scan = [s \in Scan |-> scan[s]]
  /\ \A s \in Scan : ScanOK(scan[s], file, parser)
  /\ mode \notin Running => \A s \in Scan : scan[s] = Idle

\* Nothing comes after the shutdown, and nothing goes to a writer that is off.
Queue ==
  /\ queue \in Seq(CacheEntry \cup {Shutdown}) /\ Len(queue) <= QueueCapacity
  /\ AllSound(queue, file)
  /\ \A i \in 1 .. Len(queue) : queue[i] = Shutdown => i = Len(queue) /\ mode = "joining"

Writer ==
  /\ writer \in [pc : {"off", "starting", "receiving", "collecting"},
                 batch : Seq(CacheEntry), shutdown : BOOLEAN]
  /\ AllSound(writer.batch, file) /\ Len(writer.batch) <= BatchSize
  /\ writer.pc = "off" => queue = <<>>
  /\ writer.pc # "collecting" => writer.batch = <<>> /\ ~writer.shutdown
  /\ writer.shutdown => queue = <<>> /\ mode = "joining"
  /\ mode \in {"closed", "memory"} => writer.pc = "off"

\* A table has one row of each file.
Rows(t) ==
  /\ t \in Seq(CacheEntry)
  /\ \A i, j \in 1 .. Len(t) : t[i].key.locator = t[j].key.locator => i = j

Table == Rows(table) /\ Len(table) <= MaxEntries /\ AllSound(table, file)

\* Where on its way to the table the newest entry of a file is.
Free(l, s) == \A i \in 1 .. Len(s) : s[i] # Shutdown => s[i].key.locator # l
Newest(l, e, s) ==
  \E i \in 1 .. Len(s) :
    /\ s[i] = e
    /\ \A j \in 1 .. Len(s) : j > i /\ s[j] # Shutdown => s[j].key.locator # l
Kept(l, e, t, b, q) ==
  \/ Newest(l, e, q)
  \/ Free(l, q) /\ Newest(l, e, b)
  \/ Free(l, q) /\ Free(l, b) /\ Newest(l, e, t)

Accepted ==
  /\ accepted \in [Locator -> CacheEntry \cup {NoEntry}]
  /\ \A l \in Locator : accepted[l] # NoEntry =>
       accepted[l].key.locator = l /\ Kept(l, accepted[l], table, writer.batch, queue)

IInv ==
  /\ Files /\ MemoryOK(memory, file) /\ Scans
  /\ Queue /\ Writer /\ Table /\ Accepted

-----------------------------------------------------------------------------
(* Induction over the natural numbers, for a set.                          *)

(* The least-number principle, from the well-foundedness of inclusion      *)
(* among finite sets.                                                      *)
LEMMA LeastNatural ==
  ASSUME NEW T \in SUBSET Nat, T # {}
  PROVE  \E n \in T : \A m \in T : n <= m
<1> DEFINE U == {0 .. n : n \in T}
           R == StrictSubsetOrdering(Nat)
<1>1. \A n \in T : IsFiniteSet(0 .. n) /\ 0 .. n \in SUBSET Nat
  BY FS_Interval
<1>2. U \subseteq FiniteSubsetsOf(Nat) /\ U # {}
  BY <1>1 DEF FiniteSubsetsOf
<1>3. PICK A \in U : \A B \in U : <<B, A>> \notin R
  <2> HIDE DEF U, R
  <2>1. IsWellFoundedOn(R, FiniteSubsetsOf(Nat))
    BY FS_StrictSubsetOrderingWellFounded DEF R
  <2> QED
    BY <1>2, <2>1, WFMin
<1>4. PICK n \in T : A = 0 .. n
  OBVIOUS
<1>5. ASSUME NEW m \in T, m < n PROVE FALSE
  <2>1. 0 .. m \in U /\ 0 .. m \in SUBSET Nat /\ 0 .. n \in SUBSET Nat
    OBVIOUS
  <2>2. 0 .. m \subseteq 0 .. n /\ n \in 0 .. n /\ n \notin 0 .. m
    BY <1>5
  <2>3. 0 .. m # 0 .. n
    BY <2>2
  <2>4. <<0 .. m, 0 .. n>> \in R
    BY <2>1, <2>2, <2>3 DEF StrictSubsetOrdering
  <2> QED
    BY <1>3, <1>4, <2>1, <2>4
<1> QED
  BY <1>5

(* Induction over the natural numbers, for a set.                          *)
LEMMA SetInduction ==
  ASSUME NEW S, 0 \in S, \A n \in Nat : n \in S => n + 1 \in S
  PROVE  Nat \subseteq S
<1> SUFFICES ASSUME NEW k \in Nat, k \notin S PROVE FALSE
  OBVIOUS
<1> DEFINE T == {n \in Nat : n \notin S}
<1>1. PICK n \in T : \A m \in T : n <= m
  <2>1. T \in SUBSET Nat /\ T # {}
    OBVIOUS
  <2> HIDE DEF T
  <2> QED
    BY <2>1, LeastNatural
<1>2. n # 0 /\ n - 1 \in Nat /\ n - 1 \notin T
  BY <1>1
<1>3. n - 1 \in S /\ (n - 1) + 1 = n
  BY <1>2
<1>4. n \in S
  BY <1>2, <1>3
<1> QED
  BY <1>4

-----------------------------------------------------------------------------
(* The rows loaded into the memory, and the entries written to the table.  *)

LEMMA LoadsRowByRow ==
  ASSUME NEW rows, Len(rows) \in Nat
  PROVE  \E loaded :
           /\ LoadIntoMemory(rows) = loaded[Len(rows)]
           /\ loaded[0] = EmptyMemory
           /\ \A n \in 1 .. Len(rows) : loaded[n] = StoreInMemory(loaded[n - 1], rows[n])
<1> DEFINE Loads(f, n) == f = [m \in 0 .. n |-> IF m = 0 THEN EmptyMemory
                                                ELSE StoreInMemory(f[m - 1], rows[m])]
           S == {n \in Nat : \E f : Loads(f, n)}
<1>1. 0 \in S
  <2>1. Loads([m \in 0 .. 0 |-> EmptyMemory], 0)
    OBVIOUS
  <2> QED
    BY <2>1
<1>2. ASSUME NEW n \in Nat, n \in S PROVE n + 1 \in S
  <2>1. PICK f : Loads(f, n)
    BY <1>2
  <2> DEFINE g == [m \in 0 .. n + 1 |-> IF m = n + 1 THEN StoreInMemory(f[n], rows[n + 1]) ELSE f[m]]
  <2>2. ASSUME NEW m \in 0 .. n + 1
        PROVE  g[m] = IF m = 0 THEN EmptyMemory ELSE StoreInMemory(g[m - 1], rows[m])
    <3>1. CASE m = n + 1
      <4>1. g[m] = StoreInMemory(f[n], rows[m]) /\ g[m - 1] = f[n] /\ m # 0
        BY <3>1
      <4> QED
        BY <4>1
    <3>2. CASE m = 0
      BY <2>1, <3>2
    <3>3. CASE m # n + 1 /\ m # 0
      <4>1. m \in 0 .. n /\ g[m] = f[m] /\ g[m - 1] = f[m - 1]
        BY <3>3
      <4> QED
        BY <2>1, <3>3, <4>1
    <3> QED
      BY <3>1, <3>2, <3>3
  <2>3. g = [m \in 0 .. n + 1 |-> g[m]]
    OBVIOUS
  <2> HIDE DEF g
  <2>4. Loads(g, n + 1)
    BY <2>2, <2>3
  <2> QED
    BY <2>4
<1>3. \E f : Loads(f, Len(rows))
  <2> HIDE DEF S
  <2>1. Nat \subseteq S
    BY <1>1, <1>2, SetInduction
  <2> QED
    BY <2>1 DEF S
<1> DEFINE loaded == CHOOSE f : Loads(f, Len(rows))
<1>4. Loads(loaded, Len(rows))
  BY <1>3
<1>5. LoadIntoMemory(rows) = loaded[Len(rows)]
  BY DEF LoadIntoMemory
<1> HIDE DEF loaded
<1> QED
  BY <1>4, <1>5

LEMMA WritesOneByOne ==
  ASSUME NEW rows, NEW batch, Len(batch) \in Nat
  PROVE  \E after :
           /\ Written(rows, batch) = after[Len(batch)]
           /\ after[0] = rows
           /\ \A n \in 1 .. Len(batch) : after[n] = Upsert(after[n - 1], batch[n])
<1> DEFINE Writes(f, n) == f = [m \in 0 .. n |-> IF m = 0 THEN rows ELSE Upsert(f[m - 1], batch[m])]
           S == {n \in Nat : \E f : Writes(f, n)}
<1>1. 0 \in S
  <2>1. Writes([m \in 0 .. 0 |-> rows], 0)
    OBVIOUS
  <2> QED
    BY <2>1
<1>2. ASSUME NEW n \in Nat, n \in S PROVE n + 1 \in S
  <2>1. PICK f : Writes(f, n)
    BY <1>2
  <2> DEFINE g == [m \in 0 .. n + 1 |-> IF m = n + 1 THEN Upsert(f[n], batch[n + 1]) ELSE f[m]]
  <2>2. ASSUME NEW m \in 0 .. n + 1
        PROVE  g[m] = IF m = 0 THEN rows ELSE Upsert(g[m - 1], batch[m])
    <3>1. CASE m = n + 1
      <4>1. g[m] = Upsert(f[n], batch[m]) /\ g[m - 1] = f[n] /\ m # 0
        BY <3>1
      <4> QED
        BY <4>1
    <3>2. CASE m = 0
      BY <2>1, <3>2
    <3>3. CASE m # n + 1 /\ m # 0
      <4>1. m \in 0 .. n /\ g[m] = f[m] /\ g[m - 1] = f[m - 1]
        BY <3>3
      <4> QED
        BY <2>1, <3>3, <4>1
    <3> QED
      BY <3>1, <3>2, <3>3
  <2>3. g = [m \in 0 .. n + 1 |-> g[m]]
    OBVIOUS
  <2> HIDE DEF g
  <2>4. Writes(g, n + 1)
    BY <2>2, <2>3
  <2> QED
    BY <2>4
<1>3. \E f : Writes(f, Len(batch))
  <2> HIDE DEF S
  <2>1. Nat \subseteq S
    BY <1>1, <1>2, SetInduction
  <2> QED
    BY <2>1 DEF S
<1> DEFINE after == CHOOSE f : Writes(f, Len(batch))
<1>4. Writes(after, Len(batch))
  BY <1>3
<1>5. Written(rows, batch) = after[Len(batch)]
  BY DEF Written
<1> HIDE DEF after
<1> QED
  BY <1>4, <1>5

-----------------------------------------------------------------------------
(* The memory.                                                             *)

LEMMA NoCommandIsAnEntry == Shutdown \notin CacheEntry /\ NoEntry \notin CacheEntry
BY DEF Shutdown, NoEntry, CacheEntry

LEMMA CountOfOrder ==
  ASSUME NEW m, Ordered(m)
  PROVE  /\ IsFiniteSet(DOMAIN m.entries)
         /\ Cardinality(DOMAIN m.entries) = Len(m.insertionOrder)
<1> DEFINE order == m.insertionOrder
           last  == Len(order)
           D     == DOMAIN m.entries
<1>1. last \in Nat /\ order \in [1 .. last -> Locator]
  BY DEF Ordered
<1>2. D = {order[i] : i \in 1 .. last}
  BY <1>1 DEF Ordered, ToSet
<1>3. \A i, j \in 1 .. last : order[i] = order[j] => i = j
  BY DEF Ordered
<1> HIDE DEF order, last, D
<1>4. order \in Injection(1 .. last, D) /\ order \in Surjection(1 .. last, D)
  BY <1>1, <1>2, <1>3 DEF Injection, Surjection, IsInjective
<1>5. IsFiniteSet(1 .. last) /\ Cardinality(1 .. last) = last
  BY <1>1, FS_Interval
<1>6. IsFiniteSet(D) /\ Cardinality(D) = Cardinality(1 .. last)
  BY <1>4, <1>5, FS_Surjection
<1> QED
  BY <1>5, <1>6 DEF D, last, order

(* A full memory evicts its oldest entry, any other none.                  *)
LEMMA EvictsTheOldest ==
  ASSUME NEW m, Ordered(m)
  PROVE  Evicted(m) = IF Len(m.insertionOrder) < MaxEntries THEN 0 ELSE 1
<1> DEFINE order == m.insertionOrder
           D     == DOMAIN m.entries
           left(n) == D \ ToSet(SubSeq(order, 1, n))
           last == Len(order)
           Stops(n) == /\ Cardinality(left(n)) < MaxEntries \/ n = last
                       /\ \A k \in 0 .. (n - 1) : Cardinality(left(k)) >= MaxEntries
<1>1. /\ order \in Seq(Locator) /\ last \in Nat /\ MaxEntries \in Nat /\ MaxEntries > 0
      /\ last <= MaxEntries
  BY MaxEntriesAssumption DEF Ordered
<1>2. left(0) = D
  BY <1>1 DEF ToSet
<1>3. IsFiniteSet(D) /\ Cardinality(D) = last
  BY CountOfOrder
<1>4. ASSUME last = MaxEntries PROVE Cardinality(left(1)) = last - 1
  <2>1. order[1] \in D
    BY <1>1, <1>4 DEF Ordered, ToSet
  <2>2. ToSet(SubSeq(order, 1, 1)) = {order[1]}
    <3>1. Len(SubSeq(order, 1, 1)) = 1 /\ SubSeq(order, 1, 1)[1] = order[1]
      BY <1>1, <1>4
    <3> QED
      BY <3>1 DEF ToSet
  <2>3. left(1) = D \ {order[1]}
    BY <2>2
  <2> HIDE DEF left, D, order
  <2> QED
    BY <1>3, <2>1, <2>3, FS_RemoveElement
<1>5. Evicted(m) = CHOOSE n \in 0 .. last : Stops(n)
  BY DEF Evicted
<1> DEFINE e == IF last < MaxEntries THEN 0 ELSE 1
<1>6. e \in 0 .. last /\ Stops(e)
  <2> HIDE DEF left, D, order
  <2>1. CASE last < MaxEntries
    BY <1>1, <1>2, <1>3, <2>1
  <2>2. CASE last = MaxEntries
    BY <1>1, <1>2, <1>3, <1>4, <2>2
  <2> QED
    BY <1>1, <2>1, <2>2
<1>7. ASSUME NEW n \in 0 .. last, Stops(n) PROVE n = e
  <2> HIDE DEF left, D, order
  <2>1. CASE last < MaxEntries
    BY <1>1, <1>2, <1>3, <1>7, <2>1
  <2>2. CASE last = MaxEntries
    <3>1. n # 0
      BY <1>1, <1>2, <1>3, <1>7, <2>2
    <3>2. n > 1 => Cardinality(left(1)) >= MaxEntries
      BY <1>1, <1>7
    <3> QED
      BY <1>1, <1>4, <2>2, <3>1, <3>2
  <2> QED
    BY <1>1, <2>1, <2>2
<1> HIDE DEF Stops, last, left, D, order
<1>8. (CHOOSE n \in 0 .. last : Stops(n)) = e
  BY <1>6, <1>7
<1> QED
  BY <1>5, <1>8 DEF last, order

(* A store keeps the order and the entries together.                       *)
LEMMA StoreKeepsMemory ==
  ASSUME NEW m, NEW e, NEW f, MemoryOK(m, f), Sound(e, f)
  PROVE  MemoryOK(StoreInMemory(m, e), f)
<1> DEFINE order == m.insertionOrder
           D     == DOMAIN m.entries
           last  == Len(order)
           l     == e.key.locator
           n     == IF l \in D THEN 0 ELSE Evicted(m)
           gone  == ToSet(SubSeq(order, 1, n))
           rest  == SubSeq(order, n + 1, last)
           stored == StoreInMemory(m, e)
<1>1. /\ order \in Seq(Locator) /\ last \in Nat /\ MaxEntries \in Nat /\ MaxEntries > 0
      /\ last <= MaxEntries /\ D = {order[i] : i \in 1 .. last}
      /\ \A i \in 1 .. last : order[i] \in Locator
      /\ \A i, j \in 1 .. last : order[i] = order[j] => i = j
  BY MaxEntriesAssumption DEF MemoryOK, Ordered, ToSet
<1>2. l \in Locator
  BY DEF Sound, CacheEntry, Key
<1>3. n \in 0 .. last /\ (l \notin D => last - n < MaxEntries) /\ (l \in D => n = 0)
  <2>1. l \notin D => Evicted(m) = IF last < MaxEntries THEN 0 ELSE 1
    BY EvictsTheOldest DEF MemoryOK
  <2> QED
    BY <1>1, <2>1
<1>4. /\ stored.entries = [k \in (D \ gone) \cup {l} |-> IF k = l THEN e ELSE m.entries[k]]
      /\ stored.insertionOrder = IF l \in D THEN rest ELSE Append(rest, l)
  BY DEF StoreInMemory
<1> HIDE DEF stored, n, l, D
<1>5. gone = {order[i] : i \in 1 .. n}
  <2> DEFINE first == SubSeq(order, 1, n)
  <2>1. /\ first \in Seq(Locator) /\ Len(first) = n
        /\ \A i \in 1 .. n : first[i] = order[i]
    BY <1>1, <1>3
  <2> HIDE DEF first
  <2>2. ToSet(first) = {first[i] : i \in 1 .. n}
    BY <2>1 DEF ToSet
  <2> QED
    BY <2>1, <2>2 DEF first
<1>6. /\ rest \in Seq(Locator) /\ Len(rest) = last - n
      /\ \A i \in 1 .. last - n : rest[i] = order[n + i]
  BY <1>1, <1>3
<1> HIDE DEF rest, gone, last, order
<1>7. D \ gone = {rest[i] : i \in 1 .. last - n}
  <2>1. ASSUME NEW x \in D \ gone PROVE x \in {rest[i] : i \in 1 .. last - n}
    <3>1. PICK i \in 1 .. last : x = order[i] /\ i > n
      BY <1>1, <1>3, <1>5
    <3>2. i - n \in 1 .. last - n /\ rest[i - n] = x
      BY <1>1, <1>3, <1>6, <3>1
    <3> QED
      BY <3>2
  <2>2. ASSUME NEW i \in 1 .. last - n PROVE rest[i] \in D \ gone
    <3>1. n + i \in 1 .. last /\ rest[i] = order[n + i] /\ rest[i] \in D
      BY <1>1, <1>3, <1>6
    <3>2. ASSUME NEW k \in 1 .. n PROVE order[k] # rest[i]
      <4>1. k \in 1 .. last /\ k # n + i
        BY <1>1, <1>3
      <4> QED
        BY <1>1, <3>1, <4>1
    <3> QED
      BY <1>5, <3>1, <3>2
  <2> QED
    BY <2>1, <2>2
<1>8. \A i, j \in 1 .. last - n : rest[i] = rest[j] => i = j
  <2> SUFFICES ASSUME NEW i \in 1 .. last - n, NEW j \in 1 .. last - n, rest[i] = rest[j] PROVE i = j
    OBVIOUS
  <2>1. n + i \in 1 .. last /\ n + j \in 1 .. last /\ order[n + i] = order[n + j]
    BY <1>1, <1>3, <1>6
  <2>2. n + i = n + j
    BY <1>1, <2>1
  <2> QED
    BY <1>3, <2>2
<1>9. Ordered(stored)
  <2>1. DOMAIN stored.entries = (D \ gone) \cup {l}
    BY <1>4
  <2>2. CASE l \in D
    <3>1. stored.insertionOrder = rest /\ n = 0 /\ Len(rest) = last
      BY <1>1, <1>3, <1>4, <1>6, <2>2
    <3>2. gone = {}
      BY <1>5, <3>1
    <3>3. ToSet(rest) = D
      BY <1>6, <1>7, <3>1, <3>2 DEF ToSet
    <3> QED
      BY <1>1, <1>6, <1>8, <2>1, <2>2, <3>1, <3>2, <3>3 DEF Ordered
  <2>3. CASE l \notin D
    <3> DEFINE longer == Append(rest, l)
    <3>1. /\ longer \in Seq(Locator) /\ Len(longer) = last - n + 1
          /\ \A i \in 1 .. last - n : longer[i] = rest[i]
          /\ longer[last - n + 1] = l
      BY <1>1, <1>2, <1>3, <1>6
    <3>2. ToSet(longer) = {longer[i] : i \in 1 .. last - n + 1}
      BY <3>1 DEF ToSet
    <3> HIDE DEF longer
    <3>3. ToSet(longer) = (D \ gone) \cup {l}
      <4>1. ASSUME NEW i \in 1 .. last - n + 1 PROVE longer[i] \in (D \ gone) \cup {l}
        <5>1. CASE i = last - n + 1
          BY <3>1, <5>1
        <5>2. CASE i # last - n + 1
          <6>1. i \in 1 .. last - n /\ longer[i] = rest[i]
            BY <1>1, <1>3, <3>1, <5>2
          <6> QED
            BY <1>7, <6>1
        <5> QED
          BY <5>1, <5>2
      <4>2. ASSUME NEW x \in D \ gone PROVE x \in ToSet(longer)
        <5>1. PICK i \in 1 .. last - n : x = rest[i]
          BY <1>7
        <5> QED
          BY <1>1, <1>3, <3>1, <3>2, <5>1
      <4>3. l \in ToSet(longer)
        BY <1>1, <1>3, <3>1, <3>2
      <4> QED
        BY <3>2, <4>1, <4>2, <4>3
    <3>4. \A i, j \in 1 .. last - n + 1 : longer[i] = longer[j] => i = j
      <4>1. \A i \in 1 .. last - n : longer[i] # l
        BY <1>7, <2>3, <3>1
      <4> QED
        BY <1>1, <1>3, <1>8, <3>1, <4>1
    <3>5. stored.insertionOrder = longer /\ Len(longer) <= MaxEntries
      BY <1>1, <1>3, <1>4, <2>3, <3>1 DEF longer
    <3> QED
      BY <2>1, <3>1, <3>3, <3>4, <3>5 DEF Ordered
  <2> QED
    BY <2>2, <2>3
<1>10. Owns(stored, f)
  <2> SUFFICES ASSUME NEW k \in (D \ gone) \cup {l}
               PROVE  Sound(stored.entries[k], f) /\ stored.entries[k].key.locator = k
    BY <1>4 DEF Owns
  <2>1. stored.entries[k] = IF k = l THEN e ELSE m.entries[k]
    BY <1>4
  <2> QED
    BY <2>1 DEF MemoryOK, Owns, l, D
<1> QED
  BY <1>9, <1>10 DEF MemoryOK, stored

LEMMA LoadKeepsMemory ==
  ASSUME NEW rows \in Seq(CacheEntry), NEW f, AllSound(rows, f)
  PROVE  MemoryOK(LoadIntoMemory(rows), f)
<1>1. Len(rows) \in Nat /\ \A i \in 1 .. Len(rows) : Sound(rows[i], f)
  BY NoCommandIsAnEntry DEF AllSound
<1>2. PICK loaded : /\ LoadIntoMemory(rows) = loaded[Len(rows)] /\ loaded[0] = EmptyMemory
                    /\ \A n \in 1 .. Len(rows) : loaded[n] = StoreInMemory(loaded[n - 1], rows[n])
  BY <1>1, LoadsRowByRow
<1>3. MemoryOK(EmptyMemory, f)
  BY MaxEntriesAssumption DEF MemoryOK, EmptyMemory, Ordered, Owns, ToSet
<1> DEFINE S == {n \in Nat : n <= Len(rows) => MemoryOK(loaded[n], f)}
<1>4. 0 \in S
  BY <1>2, <1>3
<1>5. ASSUME NEW n \in Nat, n \in S PROVE n + 1 \in S
  <2> SUFFICES ASSUME n + 1 <= Len(rows) PROVE MemoryOK(loaded[n + 1], f)
    OBVIOUS
  <2>1. MemoryOK(loaded[n], f) /\ n + 1 \in 1 .. Len(rows) /\ (n + 1) - 1 = n
    BY <1>1, <1>5
  <2>2. loaded[n + 1] = StoreInMemory(loaded[n], rows[n + 1])
    BY <1>2, <2>1
  <2> QED
    BY <1>1, <2>1, <2>2, StoreKeepsMemory
<1> HIDE DEF S
<1>6. Len(rows) \in S
  BY <1>1, <1>4, <1>5, SetInduction
<1> QED
  BY <1>1, <1>2, <1>6 DEF S

-----------------------------------------------------------------------------
(* The table.                                                              *)

Has(t, e) == \E i \in 1 .. Len(t) : t[i] = e

\* An upsert brings its entry, and changes no row of another file.
LEMMA UpsertBrings ==
  ASSUME NEW t, NEW e \in CacheEntry, Rows(t)
  PROVE  /\ Rows(Upsert(t, e)) /\ Has(Upsert(t, e), e)
         /\ \A i \in 1 .. Len(Upsert(t, e)) : Upsert(t, e)[i] = e \/ Has(t, Upsert(t, e)[i])
         /\ \A x : Has(t, x) /\ x.key.locator # e.key.locator => Has(Upsert(t, e), x)
<1> DEFINE u == Upsert(t, e)
           l == e.key.locator
<1>1. t \in Seq(CacheEntry) /\ Len(t) \in Nat /\ \A i \in 1 .. Len(t) : t[i] \in CacheEntry
  BY DEF Rows
<1>2. CASE \E i \in 1 .. Len(t) : t[i].key.locator = l
  <2>1. u = [i \in 1 .. Len(t) |-> IF t[i].key.locator = l THEN e ELSE t[i]]
    BY <1>2 DEF Upsert
  <2> HIDE DEF u
  <2>2. u \in Seq(CacheEntry) /\ Len(u) = Len(t)
    BY <1>1, <2>1
  <2>3. \A i \in 1 .. Len(t) : u[i] = IF t[i].key.locator = l THEN e ELSE t[i]
    BY <2>1
  <2>4. \A i \in 1 .. Len(t) : u[i].key.locator = t[i].key.locator
    BY <2>3
  <2>5. Rows(u)
    BY <2>2, <2>4 DEF Rows
  <2>6. Has(u, e)
    BY <1>2, <2>2, <2>3 DEF Has
  <2>7. \A i \in 1 .. Len(u) : u[i] = e \/ Has(t, u[i])
    BY <2>2, <2>3 DEF Has
  <2>8. \A x : Has(t, x) /\ x.key.locator # l => Has(u, x)
    BY <2>2, <2>3 DEF Has
  <2> QED
    BY <2>5, <2>6, <2>7, <2>8 DEF u
<1>3. CASE ~\E i \in 1 .. Len(t) : t[i].key.locator = l
  <2>1. u = Append(t, e)
    BY <1>3 DEF Upsert
  <2> HIDE DEF u
  <2>2. u \in Seq(CacheEntry) /\ Len(u) = Len(t) + 1
    BY <1>1, <2>1
  <2>3. \A i \in 1 .. Len(t) : u[i] = t[i]
    BY <1>1, <2>1
  <2>4. u[Len(t) + 1] = e
    BY <1>1, <2>1
  <2>5. Rows(u)
    <3> SUFFICES ASSUME NEW i \in 1 .. Len(t) + 1, NEW j \in 1 .. Len(t) + 1,
                        u[i].key.locator = u[j].key.locator
                 PROVE  i = j
      BY <2>2 DEF Rows
    <3>1. CASE i \in 1 .. Len(t) /\ j \in 1 .. Len(t)
      BY <2>3, <3>1 DEF Rows
    <3>2. CASE i = Len(t) + 1 /\ j \in 1 .. Len(t)
      BY <1>3, <2>3, <2>4, <3>2
    <3>3. CASE i \in 1 .. Len(t) /\ j = Len(t) + 1
      BY <1>3, <2>3, <2>4, <3>3
    <3> QED
      BY <1>1, <3>1, <3>2, <3>3
  <2>6. Has(u, e)
    BY <1>1, <2>2, <2>4 DEF Has
  <2>7. \A i \in 1 .. Len(u) : u[i] = e \/ Has(t, u[i])
    <3> SUFFICES ASSUME NEW i \in 1 .. Len(u), u[i] # e PROVE Has(t, u[i])
      OBVIOUS
    <3>1. i \in 1 .. Len(t)
      BY <1>1, <2>2, <2>4
    <3> QED
      BY <2>3, <3>1 DEF Has
  <2>8. \A x : Has(t, x) => Has(u, x)
    <3> SUFFICES ASSUME NEW i \in 1 .. Len(t) PROVE Has(u, t[i])
      BY DEF Has
    <3>1. i \in 1 .. Len(u) /\ u[i] = t[i]
      BY <1>1, <2>2, <2>3
    <3> QED
      BY <3>1 DEF Has
  <2> QED
    BY <2>5, <2>6, <2>7, <2>8 DEF u
<1> QED
  BY <1>2, <1>3

\* A transaction writes the newest entry of each file in its batch, and leaves
\* the rows of the files that have none.
LEMMA WrittenBrings ==
  ASSUME NEW t, NEW b \in Seq(CacheEntry), Rows(t)
  PROVE  /\ Rows(Written(t, b))
         /\ \A x : Has(Written(t, b), x) => Has(t, x) \/ Has(b, x)
         /\ \A l, e : e.key.locator = l /\ Newest(l, e, b) => Has(Written(t, b), e)
         /\ \A l, e : e.key.locator = l /\ Free(l, b) /\ Has(t, e) => Has(Written(t, b), e)
<1>1. Len(b) \in Nat /\ \A i \in 1 .. Len(b) : b[i] \in CacheEntry /\ b[i] # Shutdown
  BY NoCommandIsAnEntry
<1>2. PICK after : /\ Written(t, b) = after[Len(b)] /\ after[0] = t
                   /\ \A n \in 1 .. Len(b) : after[n] = Upsert(after[n - 1], b[n])
  BY <1>1, WritesOneByOne
<1> DEFINE Final(l, e, n) == \E i \in 1 .. n : b[i] = e /\ \A j \in 1 .. n : j > i => b[j].key.locator # l
           None(l, n) == \A i \in 1 .. n : b[i].key.locator # l
           Upto(n) ==
             /\ Rows(after[n])
             /\ \A x : Has(after[n], x) => Has(t, x) \/ Has(b, x)
             /\ \A l, e : e.key.locator = l /\ Final(l, e, n) => Has(after[n], e)
             /\ \A l, e : e.key.locator = l /\ None(l, n) /\ Has(t, e) => Has(after[n], e)
           S == {n \in Nat : n <= Len(b) => Upto(n)}
<1>3. 0 \in S
  BY <1>2
<1>4. ASSUME NEW n \in Nat, n \in S PROVE n + 1 \in S
  <2> SUFFICES ASSUME n + 1 <= Len(b) PROVE Upto(n + 1)
    OBVIOUS
  <2>1. Upto(n) /\ n + 1 \in 1 .. Len(b) /\ (n + 1) - 1 = n
    BY <1>1, <1>4
  <2> DEFINE u == after[n + 1]
             y == b[n + 1]
  <2>2. u = Upsert(after[n], y) /\ y \in CacheEntry /\ Has(b, y)
    BY <1>1, <1>2, <2>1 DEF Has
  <2>3. /\ Rows(u) /\ Has(u, y)
        /\ \A i \in 1 .. Len(u) : u[i] = y \/ Has(after[n], u[i])
        /\ \A x : Has(after[n], x) /\ x.key.locator # y.key.locator => Has(u, x)
    <3> HIDE DEF u, y, Final, None
    <3> QED
      BY <2>1, <2>2, UpsertBrings
  <2>4. \A x : Has(u, x) => Has(t, x) \/ Has(b, x)
    <3> SUFFICES ASSUME NEW i \in 1 .. Len(u) PROVE Has(t, u[i]) \/ Has(b, u[i])
      BY DEF Has
    <3> HIDE DEF u, y, Final, None
    <3> QED
      BY <2>1, <2>2, <2>3
  <2>5. ASSUME NEW l, NEW e, e.key.locator = l, Final(l, e, n + 1) PROVE Has(u, e)
    <3>1. PICK i \in 1 .. n + 1 : b[i] = e /\ \A j \in 1 .. n + 1 : j > i => b[j].key.locator # l
      BY <2>5
    <3>2. CASE i = n + 1
      BY <2>3, <3>1, <3>2
    <3>3. CASE i # n + 1
      <4>1. i \in 1 .. n /\ y.key.locator # l
        BY <3>1, <3>3
      <4>2. Final(l, e, n)
        BY <3>1, <4>1
      <4>3. Has(after[n], e)
        BY <2>1, <2>5, <4>2
      <4> HIDE DEF u, y
      <4> QED
        BY <2>3, <2>5, <4>1, <4>3
    <3> QED
      BY <3>2, <3>3
  <2>6. ASSUME NEW l, NEW e, e.key.locator = l, None(l, n + 1), Has(t, e) PROVE Has(u, e)
    <3>1. None(l, n) /\ y.key.locator # l
      BY <2>6
    <3>2. Has(after[n], e)
      BY <2>1, <2>6, <3>1
    <3> HIDE DEF u, y
    <3> QED
      BY <2>3, <2>6, <3>1, <3>2
  <2> HIDE DEF Final, None
  <2> QED
    BY <2>3, <2>4, <2>5, <2>6
<1> HIDE DEF S
<1>5. Len(b) \in S
  BY <1>1, <1>3, <1>4, SetInduction
<1>6. Upto(Len(b))
  BY <1>1, <1>5 DEF S
<1>7. /\ \A l, e : Newest(l, e, b) => Final(l, e, Len(b))
      /\ \A l : Free(l, b) => None(l, Len(b))
  BY <1>1 DEF Newest, Free
<1> HIDE DEF Final, None
<1> QED
  BY <1>2, <1>6, <1>7

\* Pruning keeps the youngest rows, and all of them when they are few.
LEMMA PruneKeeps ==
  ASSUME NEW t, Rows(t)
  PROVE  /\ Rows(Prune(t)) /\ Len(Prune(t)) <= MaxEntries
         /\ \A x : Has(Prune(t), x) => Has(t, x)
         /\ Len(t) <= MaxEntries => Prune(t) = t
<1> DEFINE cut == IF Len(t) > MaxEntries THEN Len(t) - MaxEntries ELSE 0
           p   == Prune(t)
<1>1. /\ t \in Seq(CacheEntry) /\ Len(t) \in Nat /\ MaxEntries \in Nat
      /\ \A i \in 1 .. Len(t) : t[i] \in CacheEntry
  BY MaxEntriesAssumption DEF Rows
<1>2. cut \in 0 .. Len(t) /\ Len(t) - cut <= MaxEntries
  BY <1>1
<1>3. p = SubSeq(t, cut + 1, Len(t))
  BY DEF Prune
<1> HIDE DEF p
<1>4. /\ p \in Seq(CacheEntry) /\ Len(p) = Len(t) - cut
      /\ \A i \in 1 .. Len(t) - cut : p[i] = t[cut + i]
  <2> HIDE DEF cut
  <2> QED
    BY <1>1, <1>2, <1>3
<1>5. Len(t) <= MaxEntries => p = t
  <2> SUFFICES ASSUME Len(t) <= MaxEntries PROVE p = t
    OBVIOUS
  <2>1. cut = 0
    BY <1>1
  <2>2. Len(p) = Len(t) /\ \A i \in 1 .. Len(t) : p[i] = t[i]
    BY <1>1, <1>4, <2>1
  <2> QED
    BY <1>1, <1>4, <2>2
<1> HIDE DEF cut
<1>6. \A i \in 1 .. Len(p) : cut + i \in 1 .. Len(t) /\ p[i] = t[cut + i]
  BY <1>1, <1>2, <1>4
<1>7. Rows(p)
  <2> SUFFICES ASSUME NEW i \in 1 .. Len(p), NEW j \in 1 .. Len(p), p[i].key.locator = p[j].key.locator
               PROVE  i = j
    BY <1>4 DEF Rows
  <2>1. cut + i = cut + j
    BY <1>6 DEF Rows
  <2> QED
    BY <1>2, <2>1
<1>8. \A x : Has(p, x) => Has(t, x)
  BY <1>6 DEF Has
<1> QED
  BY <1>2, <1>4, <1>5, <1>7, <1>8 DEF p

-----------------------------------------------------------------------------
(* The way from the queue over the batch to the table.                     *)

Message == CacheEntry \cup {Shutdown}

LEMMA SentIsNewest ==
  ASSUME NEW q \in Seq(Message), NEW x \in Message
  PROVE  /\ x # Shutdown => Newest(x.key.locator, x, Append(q, x))
         /\ \A l : x = Shutdown \/ x.key.locator # l =>
              /\ Free(l, q) => Free(l, Append(q, x))
              /\ \A e : Newest(l, e, q) => Newest(l, e, Append(q, x))
<1> DEFINE longer == Append(q, x)
<1>1. /\ Len(q) \in Nat /\ Len(longer) = Len(q) + 1
      /\ \A i \in 1 .. Len(q) : longer[i] = q[i]
      /\ longer[Len(q) + 1] = x
  OBVIOUS
<1> HIDE DEF longer
<1>2. Newest(x.key.locator, x, longer)
  BY <1>1 DEF Newest
<1>3. ASSUME NEW l, x = Shutdown \/ x.key.locator # l, Free(l, q) PROVE Free(l, longer)
  BY <1>1, <1>3 DEF Free
<1>4. ASSUME NEW l, x = Shutdown \/ x.key.locator # l, NEW e, Newest(l, e, q) PROVE Newest(l, e, longer)
  <2>1. PICK i \in 1 .. Len(q) :
          q[i] = e /\ \A j \in 1 .. Len(q) : j > i /\ q[j] # Shutdown => q[j].key.locator # l
    BY <1>4 DEF Newest
  <2>2. i \in 1 .. Len(longer) /\ longer[i] = e
    BY <1>1, <2>1
  <2>3. ASSUME NEW j \in 1 .. Len(longer), j > i, longer[j] # Shutdown PROVE longer[j].key.locator # l
    <3>1. CASE j = Len(q) + 1
      BY <1>1, <1>4, <2>3, <3>1
    <3>2. CASE j # Len(q) + 1
      <4>1. j \in 1 .. Len(q) /\ longer[j] = q[j]
        BY <1>1, <3>2
      <4> QED
        BY <2>1, <2>3, <4>1
    <3> QED
      BY <3>1, <3>2
  <2> QED
    BY <2>2, <2>3 DEF Newest
<1> QED
  BY <1>2, <1>3, <1>4 DEF longer

LEMMA TakenIsFirst ==
  ASSUME NEW q \in Seq(Message), q # <<>>
  PROVE  /\ \A l : Free(l, q) => Free(l, Tail(q)) /\ (Head(q) = Shutdown \/ Head(q).key.locator # l)
         /\ \A l, e : Newest(l, e, q) => Newest(l, e, Tail(q)) \/ (e = Head(q) /\ Free(l, Tail(q)))
<1> DEFINE rest == Tail(q)
<1>1. /\ Len(q) \in Nat /\ Len(q) > 0 /\ Len(rest) = Len(q) - 1 /\ Head(q) = q[1]
      /\ \A i \in 1 .. Len(q) - 1 : rest[i] = q[i + 1]
  BY HeadTailProperties, EmptySeq
<1> HIDE DEF rest
<1>2. ASSUME NEW l, Free(l, q)
      PROVE  Free(l, rest) /\ (Head(q) = Shutdown \/ Head(q).key.locator # l)
  BY <1>1, <1>2 DEF Free
<1>3. ASSUME NEW l, NEW e, Newest(l, e, q)
      PROVE  Newest(l, e, rest) \/ (e = Head(q) /\ Free(l, rest))
  <2>1. PICK i \in 1 .. Len(q) :
          q[i] = e /\ \A j \in 1 .. Len(q) : j > i /\ q[j] # Shutdown => q[j].key.locator # l
    BY <1>3 DEF Newest
  <2>2. ASSUME NEW j \in 1 .. Len(rest), j + 1 > i, rest[j] # Shutdown PROVE rest[j].key.locator # l
    <3>1. j + 1 \in 1 .. Len(q) /\ rest[j] = q[j + 1]
      BY <1>1
    <3> QED
      BY <2>1, <2>2, <3>1
  <2>3. CASE i = 1
    <3>1. Free(l, rest)
      BY <1>1, <2>2, <2>3 DEF Free
    <3> QED
      BY <1>1, <2>1, <2>3, <3>1
  <2>4. CASE i # 1
    <3>1. i - 1 \in 1 .. Len(rest) /\ rest[i - 1] = e
      BY <1>1, <2>1, <2>4
    <3>2. \A j \in 1 .. Len(rest) : j > i - 1 /\ rest[j] # Shutdown => rest[j].key.locator # l
      BY <1>1, <2>2
    <3>3. Newest(l, e, rest)
      BY <3>1, <3>2 DEF Newest
    <3> QED
      BY <3>3
  <2> QED
    BY <2>3, <2>4
<1> QED
  BY <1>2, <1>3 DEF rest

\* An entry that moves from the queue to the batch stays on its way.
LEMMA MovedIsKept ==
  ASSUME NEW t, NEW b \in Seq(CacheEntry), NEW q \in Seq(Message), q # <<>>,
         NEW l, NEW e \in CacheEntry, e.key.locator = l, Kept(l, e, t, b, q)
  PROVE  /\ Head(q) = Shutdown => Kept(l, e, t, b, Tail(q))
         /\ Head(q) # Shutdown => Kept(l, e, t, Append(b, Head(q)), Tail(q))
<1>1. Head(q) \in Message /\ b \in Seq(Message) /\ e # Shutdown
  BY NoCommandIsAnEntry, HeadTailProperties DEF Message
<1>2. CASE Newest(l, e, q)
  BY <1>1, <1>2, TakenIsFirst, SentIsNewest DEF Kept
<1>3. CASE Free(l, q) /\ Newest(l, e, b)
  BY <1>1, <1>3, TakenIsFirst, SentIsNewest DEF Kept
<1>4. CASE Free(l, q) /\ Free(l, b) /\ Newest(l, e, t)
  BY <1>1, <1>4, TakenIsFirst, SentIsNewest DEF Kept
<1> QED
  BY <1>2, <1>3, <1>4 DEF Kept

\* In a table, what is there is the newest of its file.
LEMMA RowIsNewest ==
  ASSUME NEW t, NEW e, Rows(t), Has(t, e)
  PROVE  Newest(e.key.locator, e, t)
BY DEF Rows, Has, Newest

LEMMA NewestIsThere ==
  ASSUME NEW l, NEW e, NEW s, Newest(l, e, s)
  PROVE  Has(s, e)
BY DEF Newest, Has

LEMMA NothingThere ==
  /\ \A l : Free(l, <<>>)
  /\ \A l, e : ~Newest(l, e, <<>>)
  /\ \A f : AllSound(<<>>, f)
BY DEF Free, Newest, AllSound

LEMMA Members ==
  ASSUME NEW S, NEW s \in Seq(S)
  PROVE  \A x : x \in ToSet(s) <=> Has(s, x)
BY DEF ToSet, Has

LEMMA SoundMembers ==
  ASSUME NEW s, NEW f
  PROVE  AllSound(s, f) <=> \A x : Has(s, x) /\ x # Shutdown => Sound(x, f)
BY DEF AllSound, Has

LEMMA SoundAppend ==
  ASSUME NEW s \in Seq(Message), NEW x \in Message, NEW f, AllSound(s, f), x # Shutdown => Sound(x, f)
  PROVE  AllSound(Append(s, x), f)
<1> SUFFICES ASSUME NEW i \in 1 .. Len(s) + 1, Append(s, x)[i] # Shutdown PROVE Sound(Append(s, x)[i], f)
  BY DEF AllSound
<1>1. CASE i = Len(s) + 1
  BY <1>1
<1>2. CASE i # Len(s) + 1
  <2>1. i \in 1 .. Len(s) /\ Append(s, x)[i] = s[i]
    BY <1>2
  <2> QED
    BY <2>1 DEF AllSound
<1> QED
  BY <1>1, <1>2

LEMMA SoundTail ==
  ASSUME NEW s \in Seq(Message), s # <<>>, NEW f, AllSound(s, f)
  PROVE  AllSound(Tail(s), f) /\ (Head(s) # Shutdown => Sound(Head(s), f))
<1>1. /\ Len(s) \in Nat /\ Len(s) > 0 /\ Len(Tail(s)) = Len(s) - 1 /\ Head(s) = s[1]
      /\ \A i \in 1 .. Len(s) - 1 : Tail(s)[i] = s[i + 1]
  BY HeadTailProperties, EmptySeq
<1> QED
  BY <1>1 DEF AllSound

-----------------------------------------------------------------------------
(* The invariant holds at first, and each action keeps it.                 *)

LEMMA InitIInv == Init => IInv
<1> SUFFICES ASSUME Init PROVE IInv
  OBVIOUS
<1>1. Files
  BY PrintOfAssumption, BoundsAssumption DEF Init, Files
<1>2. MemoryOK(memory, file)
  BY MaxEntriesAssumption DEF Init, MemoryOK, EmptyMemory, Ordered, Owns, ToSet
<1>3. Scans
  BY DEF Init, Scans, ScanOK, Running
<1>4. Queue
  BY QueueAssumption, NothingThere DEF Init, Queue
<1>5. Writer
  BY QueueAssumption, NothingThere DEF Init, Writer, NoWriter
<1>6. Table
  BY MaxEntriesAssumption, NothingThere DEF Init, Table, Rows
<1>7. Accepted
  BY DEF Init, Accepted
<1> QED
  BY <1>1, <1>2, <1>3, <1>4, <1>5, <1>6, <1>7 DEF IInv

LEMMA OpenKeeps == ASSUME IInv, Open PROVE IInv'
<1>1. /\ Files /\ MemoryOK(memory, file) /\ Scans /\ Queue /\ Writer /\ Table /\ Accepted
      /\ UNCHANGED <<file, reads, queue, scan, accepted>>
      /\ mode = "closed" /\ parser' \in Parser
  BY DEF IInv, Open
<1>2. writer.pc = "off" /\ writer.batch = <<>> /\ ~writer.shutdown /\ queue = <<>>
  BY <1>1 DEF Writer
<1>3. \/ /\ mode' = "sqlite" /\ table' = Prune(table) /\ memory' = LoadIntoMemory(table')
         /\ writer' = [NoWriter EXCEPT !.pc = "starting"]
      \/ /\ mode' = "memory" /\ table' \in {table, Prune(table)} /\ memory' = EmptyMemory
         /\ UNCHANGED writer
  BY DEF Open
<1>4. table' = table
  BY <1>1, <1>3, PruneKeeps DEF Table
<1>5. Files'
  BY <1>1, <1>3, BoundsAssumption DEF Files, Open
<1>6. MemoryOK(memory', file')
  <2>1. CASE memory' = LoadIntoMemory(table')
    BY <1>1, <1>4, <2>1, LoadKeepsMemory DEF Table, Rows
  <2>2. CASE memory' = EmptyMemory
    BY <2>2, MaxEntriesAssumption DEF MemoryOK, EmptyMemory, Ordered, Owns, ToSet
  <2> QED
    BY <1>3, <2>1, <2>2
<1>7. Scans'
  <2>1. \A s \in Scan : scan[s] = Idle
    BY <1>1 DEF Scans, Running
  <2> QED
    BY <1>1, <2>1 DEF Scans, ScanOK
<1>8. Queue'
  BY <1>1, <1>2 DEF Queue
<1>9. Writer'
  BY <1>1, <1>2, <1>3, QueueAssumption, NothingThere DEF Writer, NoWriter
<1>10. Table'
  BY <1>1, <1>4 DEF Table
<1>11. Accepted'
  <2>1. writer'.batch = writer.batch
    BY <1>2, <1>3 DEF NoWriter
  <2> QED
    BY <1>1, <1>4, <2>1 DEF Accepted
<1> QED
  BY <1>5, <1>6, <1>7, <1>8, <1>9, <1>10, <1>11 DEF IInv

\* A scan that does something else leaves the others as they are.
LEMMA ScanGoesOn ==
  ASSUME Scans, NEW s \in Scan, NEW x, scan' = [scan EXCEPT ![s] = x], ScanOK(x, file, parser),
         UNCHANGED <<file, parser, mode>>, mode \in Running
  PROVE  Scans'
<1>1. \A o \in Scan : scan'[o] = IF o = s THEN x ELSE scan[o]
  BY DEF Scans
<1>2. scan' = [o \in Scan |-> scan'[o]]
  BY DEF Scans
<1> QED
  BY <1>1, <1>2 DEF Scans

LEMMA AtWork ==
  ASSUME Scans, NEW s \in Scan, scan[s].pc # "idle"
  PROVE  /\ mode \in Running /\ scan[s].key.parser = parser
         /\ Looks(scan[s], file) \/ Stores(scan[s], file)
BY DEF Scans, ScanOK, Idle

LEMMA TakeFingerprintKeeps ==
  ASSUME IInv, NEW s \in Scan, NEW l \in Locator, TakeFingerprint(s, l) PROVE IInv'
<1>1. /\ Files /\ MemoryOK(memory, file) /\ Scans /\ Queue /\ Writer /\ Table /\ Accepted
      /\ UNCHANGED <<file, launches, parser, mode, memory, queue, writer, table, accepted>>
      /\ mode \in Running
  BY DEF IInv, TakeFingerprint, Running
<1>2. PICK mtime \in {PrintOf[file[l]].mtime, NoTime} :
        scan' = [scan EXCEPT ![s] =
          [pc  |-> IF mtime = NoTime THEN "read" ELSE "lookup",
           key |-> VisualMetadataCacheKey(l, [size |-> PrintOf[file[l]].size, mtime |-> mtime], parser)]]
  BY DEF TakeFingerprint
<1> DEFINE key == VisualMetadataCacheKey(l, [size |-> PrintOf[file[l]].size, mtime |-> mtime], parser)
           x   == [pc |-> IF mtime = NoTime THEN "read" ELSE "lookup", key |-> key]
<1>3. file[l] \in Version /\ parser \in Parser /\ PrintOf[file[l]] \in [size : Nat, mtime : Nat]
  BY <1>1, PrintOfAssumption DEF Files
<1>4. /\ key \in ScanKey /\ key.locator = l /\ key.parser = parser
      /\ key.size = PrintOf[file[l]].size /\ key.mtime = mtime
  BY <1>2, <1>3 DEF ScanKey, VisualMetadataCacheKey
<1> HIDE DEF key
<1>5. x \in Reading /\ x.key = key /\ (mtime = NoTime => x.pc = "read")
  BY <1>4 DEF Reading
<1>6. Looks(x, file)
  <2>1. CASE mtime = NoTime
    BY <1>4, <1>5, <2>1 DEF Looks
  <2>2. CASE mtime # NoTime
    <3> HIDE DEF x
    <3>1. x.key.locator = l /\ Met(x.key, file[l])
      BY <1>2, <1>4, <1>5, <2>2 DEF Met
    <3>2. file[l] <= file[x.key.locator]
      BY <1>3, <3>1, PrintOfAssumption
    <3> QED
      BY <1>3, <1>5, <3>1, <3>2 DEF Looks
  <2> QED
    BY <2>1, <2>2
<1>7. scan' = [scan EXCEPT ![s] = x]
  BY <1>2 DEF key
<1> HIDE DEF x
<1>8. Scans'
  BY <1>1, <1>4, <1>5, <1>6, <1>7, ScanGoesOn DEF ScanOK
<1>9. Files'
  BY <1>1, BoundsAssumption DEF Files, TakeFingerprint
<1> QED
  BY <1>1, <1>8, <1>9 DEF IInv, Queue, Writer, Table, Accepted

LEMMA LookupKeeps == ASSUME IInv, NEW s \in Scan, Lookup(s) PROVE IInv'
<1>1. /\ Files /\ MemoryOK(memory, file) /\ Scans /\ Queue /\ Writer /\ Table /\ Accepted
      /\ UNCHANGED <<file, launches, reads, parser, mode, memory, queue, writer, table, accepted>>
      /\ scan[s].pc = "lookup"
  BY DEF IInv, Lookup
<1>2. /\ mode \in Running /\ scan[s].key.parser = parser /\ Looks(scan[s], file)
  BY <1>1, AtWork DEF Stores, Storing
<1> DEFINE x == IF Hits(memory, scan[s].key) THEN Idle ELSE [scan[s] EXCEPT !.pc = "read"]
<1>3. scan' = [scan EXCEPT ![s] = x]
  BY <1>1 DEF Lookup, Scans
<1>4. ScanOK(x, file, parser)
  <2>1. CASE x = Idle
    BY <2>1 DEF ScanOK
  <2>2. CASE x = [scan[s] EXCEPT !.pc = "read"]
    <3>1. x \in Reading /\ x.key = scan[s].key
      BY <1>2, <2>2 DEF Looks, Reading
    <3> HIDE DEF x
    <3>2. Looks(x, file)
      BY <1>1, <1>2, <3>1 DEF Looks
    <3> QED
      BY <1>2, <3>1, <3>2 DEF ScanOK
  <2> QED
    BY <2>1, <2>2
<1> HIDE DEF x
<1>5. Scans'
  BY <1>1, <1>2, <1>3, <1>4, ScanGoesOn
<1> QED
  BY <1>1, <1>5 DEF IInv, Files, Queue, Writer, Table, Accepted

LEMMA ReadFileKeeps == ASSUME IInv, NEW s \in Scan, ReadFile(s) PROVE IInv'
<1>1. /\ Files /\ MemoryOK(memory, file) /\ Scans /\ Queue /\ Writer /\ Table /\ Accepted
      /\ UNCHANGED <<file, launches, reads, parser, mode, memory, queue, writer, table, accepted>>
      /\ scan[s].pc = "read"
  BY DEF IInv, ReadFile
<1> DEFINE key == scan[s].key
           value == [parser |-> parser, version |-> file[key.locator]]
           x == [pc |-> "store", key |-> key, value |-> value]
<1>2. /\ mode \in Running /\ key.parser = parser /\ Looks(scan[s], file)
  BY <1>1, AtWork DEF Stores, Storing
<1>3. \/ key.mtime # NoTime /\ scan' = [scan EXCEPT ![s] = x]
      \/ scan' = [scan EXCEPT ![s] = Idle]
  BY DEF ReadFile, Scans
<1>4. ASSUME key.mtime # NoTime PROVE ScanOK(x, file, parser)
  <2>1. key \in ScanKey /\ \E met \in Version : met <= file[key.locator] /\ Met(key, met)
    BY <1>2, <1>4 DEF Looks, Reading
  <2> HIDE DEF key
  <2>2. key \in Key
    BY <1>4, <2>1 DEF ScanKey, Key
  <2>3. file[key.locator] \in Version /\ value \in Value
    BY <1>1, <2>2 DEF Files, Key, Value
  <2>4. x \in Storing
    BY <2>2, <2>3 DEF Storing
  <2> DEFINE e == CachedEntry(key, value)
  <2>5. e \in CacheEntry /\ e.key = key /\ e.value = value
    BY <2>2, <2>3 DEF CachedEntry, CacheEntry
  <2>6. \E met \in Version : Met(key, met) /\ value.version \in met .. file[key.locator]
    <3>1. PICK met \in Version : met <= file[key.locator] /\ Met(key, met)
      BY <2>1
    <3>2. value.version = file[key.locator] /\ met \in Nat /\ file[key.locator] \in Nat
      BY <2>3, <3>1, PrintOfAssumption
    <3> HIDE DEF value
    <3> QED
      BY <3>1, <3>2
  <2>7. Sound(e, file)
    BY <1>2, <2>5, <2>6 DEF Sound
  <2>8. Stores(x, file) /\ x.key.parser = parser
    BY <1>2, <2>4, <2>7 DEF Stores
  <2> QED
    BY <2>8 DEF ScanOK
<1>5. ScanOK(Idle, file, parser)
  BY DEF ScanOK
<1> HIDE DEF x, key
<1>6. Scans'
  BY <1>1, <1>2, <1>3, <1>4, <1>5, ScanGoesOn
<1> QED
  BY <1>1, <1>6 DEF IInv, Files, Queue, Writer, Table, Accepted

LEMMA StoreMemoryKeeps == ASSUME IInv, NEW s \in Scan, StoreMemory(s) PROVE IInv'
<1>1. /\ Files /\ MemoryOK(memory, file) /\ Scans /\ Queue /\ Writer /\ Table /\ Accepted
      /\ UNCHANGED <<file, launches, reads, parser, mode, queue, writer, table, accepted>>
      /\ scan[s].pc = "store"
  BY DEF IInv, StoreMemory
<1>2. /\ mode \in Running /\ scan[s].key.parser = parser /\ Stores(scan[s], file)
  BY <1>1, AtWork DEF Looks, Reading
<1>3. MemoryOK(memory', file')
  BY <1>1, <1>2, StoreKeepsMemory DEF Stores, StoreMemory
<1> DEFINE x == IF mode = "sqlite" THEN [scan[s] EXCEPT !.pc = "send"] ELSE Idle
<1>4. scan' = [scan EXCEPT ![s] = x]
  BY <1>1 DEF StoreMemory, Scans
<1>5. ScanOK(x, file, parser)
  <2>1. CASE x = Idle
    BY <2>1 DEF ScanOK
  <2>2. CASE x = [scan[s] EXCEPT !.pc = "send"]
    <3>1. x \in Storing /\ x.key = scan[s].key /\ x.value = scan[s].value
      BY <1>2, <2>2 DEF Stores, Storing
    <3> HIDE DEF x
    <3> QED
      BY <1>2, <3>1 DEF Stores, ScanOK
  <2> QED
    BY <2>1, <2>2
<1> HIDE DEF x
<1>6. Scans'
  BY <1>1, <1>2, <1>4, <1>5, ScanGoesOn
<1> QED
  BY <1>1, <1>3, <1>6 DEF IInv, Files, Queue, Writer, Table, Accepted

LEMMA TrySendKeeps == ASSUME IInv, NEW s \in Scan, TrySend(s) PROVE IInv'
<1>1. /\ Files /\ MemoryOK(memory, file) /\ Scans /\ Queue /\ Writer /\ Table /\ Accepted
      /\ UNCHANGED <<file, launches, reads, parser, mode, memory, writer, table>>
      /\ scan[s].pc = "send" /\ scan' = [scan EXCEPT ![s] = Idle]
  BY DEF IInv, TrySend
<1> DEFINE e == CachedEntry(scan[s].key, scan[s].value)
           l == e.key.locator
<1>2. /\ mode \in Running /\ Sound(e, file)
  BY <1>1, AtWork DEF Looks, Reading, Stores
<1>3. \/ /\ Len(queue) < QueueCapacity /\ writer.pc # "off"
         /\ queue' = Append(queue, e) /\ accepted' = [accepted EXCEPT ![l] = e]
      \/ UNCHANGED <<queue, accepted>>
  BY DEF TrySend
<1> HIDE DEF e
<1>4. e \in CacheEntry /\ e \in Message /\ e # Shutdown /\ l \in Locator
  BY <1>2, NoCommandIsAnEntry DEF Sound, Message, CacheEntry, Key
<1>5. Scans'
  BY <1>1, <1>2, ScanGoesOn DEF ScanOK
<1>6. CASE UNCHANGED <<queue, accepted>>
  BY <1>1, <1>5, <1>6 DEF IInv, Files, Queue, Writer, Table, Accepted
<1>7. CASE /\ Len(queue) < QueueCapacity /\ writer.pc # "off"
           /\ queue' = Append(queue, e) /\ accepted' = [accepted EXCEPT ![l] = e]
  <2>1. queue \in Seq(Message) /\ Len(queue) \in Nat /\ ~writer.shutdown
    BY <1>1, <1>2 DEF Queue, Message, Writer, Running
  <2>2. /\ queue' \in Seq(Message) /\ Len(queue') = Len(queue) + 1
        /\ \A i \in 1 .. Len(queue) : queue'[i] = queue[i]
        /\ queue'[Len(queue) + 1] = e
    BY <1>4, <1>7, <2>1
  <2>3. \A i \in 1 .. Len(queue) : queue[i] # Shutdown
    BY <1>1, <1>2 DEF Queue, Running
  <2>4. Queue'
    <3>1. AllSound(queue', file)
      BY <1>1, <1>2, <1>4, <1>7, <2>1, SoundAppend DEF Queue
    <3>2. \A i \in 1 .. Len(queue') : queue'[i] # Shutdown
      BY <1>4, <2>1, <2>2, <2>3
    <3> QED
      BY <1>1, <1>7, <2>1, <2>2, <3>1, <3>2, QueueAssumption DEF Queue, Message
  <2>5. Writer'
    BY <1>1, <1>7, <2>1 DEF Writer
  <2>6. Accepted'
    <3>1. accepted' \in [Locator -> CacheEntry \cup {NoEntry}]
      BY <1>1, <1>4, <1>7 DEF Accepted
    <3>2. ASSUME NEW k \in Locator, accepted'[k] # NoEntry
          PROVE  accepted'[k].key.locator = k /\ Kept(k, accepted'[k], table, writer.batch, queue')
      <4>1. CASE k = l
        <5>1. accepted'[k] = e
          BY <1>1, <1>7, <4>1 DEF Accepted
        <5>2. Newest(l, e, queue')
          BY <1>4, <1>7, <2>1, SentIsNewest
        <5> QED
          BY <4>1, <5>1, <5>2 DEF Kept
      <4>2. CASE k # l
        <5>1. accepted'[k] = accepted[k]
          BY <1>1, <1>7, <3>2, <4>2 DEF Accepted
        <5>2. accepted[k].key.locator = k /\ Kept(k, accepted[k], table, writer.batch, queue)
          BY <1>1, <3>2, <5>1 DEF Accepted
        <5>3. /\ Free(k, queue) => Free(k, queue')
              /\ Newest(k, accepted[k], queue) => Newest(k, accepted[k], queue')
          BY <1>4, <1>7, <2>1, <4>2, SentIsNewest
        <5> QED
          BY <5>1, <5>2, <5>3 DEF Kept
      <4> QED
        BY <4>1, <4>2
    <3> QED
      BY <1>1, <3>1, <3>2 DEF Accepted
  <2> QED
    BY <1>1, <1>5, <2>4, <2>5, <2>6 DEF IInv, Files, Table
<1> QED
  BY <1>3, <1>6, <1>7

\* Entries given up leave the others accepted.
LEMMA LostOrAccepted ==
  ASSUME NEW lost
  PROVE  \A l \in Locator : Lost(lost)[l] = IF accepted[l] \in lost THEN NoEntry ELSE accepted[l]
BY DEF Lost

LEMMA LostKeepsType ==
  ASSUME Accepted, NEW lost
  PROVE  Lost(lost) \in [Locator -> CacheEntry \cup {NoEntry}]
BY DEF Accepted, Lost

LEMMA WriterOpensKeeps == ASSUME IInv, WriterOpens PROVE IInv'
<1>1. /\ Files /\ MemoryOK(memory, file) /\ Scans /\ Queue /\ Writer /\ Table /\ Accepted
      /\ UNCHANGED <<file, launches, reads, parser, mode, memory, table, scan>>
      /\ writer.pc = "starting"
  BY DEF IInv, WriterOpens
<1>2. /\ writer \in [pc : {"off", "starting", "receiving", "collecting"},
                     batch : Seq(CacheEntry), shutdown : BOOLEAN]
      /\ writer.batch = <<>> /\ ~writer.shutdown /\ mode \notin {"closed", "memory"}
  BY <1>1 DEF Writer
<1>3. CASE writer' = [writer EXCEPT !.pc = "receiving"] /\ UNCHANGED <<queue, accepted>>
  <2>1. /\ writer' \in [pc : {"off", "starting", "receiving", "collecting"},
                        batch : Seq(CacheEntry), shutdown : BOOLEAN]
        /\ writer'.pc = "receiving" /\ writer'.batch = <<>> /\ ~writer'.shutdown
    BY <1>2, <1>3
  <2>2. Writer'
    BY <1>1, <1>2, <1>3, <2>1 DEF Writer
  <2> QED
    BY <1>1, <1>2, <1>3, <2>1, <2>2 DEF IInv, Files, Scans, Queue, Table, Accepted
<1>4. CASE Exit /\ accepted' = Lost(ToSet(queue))
  <2>1. writer' = NoWriter /\ queue' = <<>>
    BY <1>4 DEF Exit
  <2>2. Writer' /\ Queue'
    BY <1>1, <2>1, QueueAssumption, NothingThere DEF Writer, Queue, NoWriter
  <2>3. ASSUME NEW l \in Locator, accepted'[l] # NoEntry
        PROVE  accepted'[l].key.locator = l /\ Kept(l, accepted'[l], table, <<>>, <<>>)
    <3>1. accepted'[l] = accepted[l] /\ accepted[l] \notin ToSet(queue)
      BY <1>4, <2>3, LostOrAccepted
    <3>2. accepted[l].key.locator = l /\ Kept(l, accepted[l], table, <<>>, queue)
      BY <1>1, <1>2, <2>3, <3>1 DEF Accepted
    <3>3. ~Newest(l, accepted[l], queue)
      BY <1>1, <3>1, Members, NewestIsThere DEF Queue
    <3> QED
      BY <3>1, <3>2, <3>3, NothingThere DEF Kept
  <2>4. Accepted'
    BY <1>1, <1>4, <2>1, <2>3, LostKeepsType DEF Accepted, NoWriter
  <2> QED
    BY <1>1, <2>2, <2>4 DEF IInv, Files, Scans, Table
<1> QED
  BY <1>3, <1>4 DEF WriterOpens

\* The writer takes the first message.
LEMMA QueueTakes ==
  ASSUME Queue, queue # <<>>
  PROVE  /\ queue \in Seq(Message) /\ Head(queue) \in Message
         /\ Tail(queue) \in Seq(Message) /\ Len(Tail(queue)) <= QueueCapacity
         /\ AllSound(Tail(queue), file)
         /\ \A i \in 1 .. Len(Tail(queue)) :
              Tail(queue)[i] = Shutdown => i = Len(Tail(queue)) /\ mode = "joining"
         /\ Head(queue) # Shutdown => Head(queue) \in CacheEntry /\ Sound(Head(queue), file)
         /\ Head(queue) = Shutdown => Tail(queue) = <<>> /\ mode = "joining"
<1> DEFINE rest == Tail(queue)
<1>1. /\ queue \in Seq(Message) /\ Len(queue) <= QueueCapacity /\ AllSound(queue, file)
      /\ \A i \in 1 .. Len(queue) : queue[i] = Shutdown => i = Len(queue) /\ mode = "joining"
      /\ QueueCapacity \in Nat
  BY QueueAssumption DEF Queue, Message
<1>2. /\ Len(queue) \in Nat /\ Len(queue) > 0 /\ Head(queue) = queue[1] /\ Head(queue) \in Message
      /\ rest \in Seq(Message) /\ Len(rest) = Len(queue) - 1
      /\ \A i \in 1 .. Len(queue) - 1 : rest[i] = queue[i + 1]
  BY <1>1, HeadTailProperties, EmptySeq
<1>3. AllSound(rest, file) /\ (Head(queue) # Shutdown => Sound(Head(queue), file))
  BY <1>1, SoundTail
<1> HIDE DEF rest
<1>4. ASSUME NEW i \in 1 .. Len(rest), rest[i] = Shutdown PROVE i = Len(rest) /\ mode = "joining"
  <2>1. i + 1 \in 1 .. Len(queue) /\ queue[i + 1] = Shutdown
    BY <1>2, <1>4
  <2>2. i + 1 = Len(queue) /\ mode = "joining"
    BY <1>1, <2>1
  <2> QED
    BY <1>2, <2>2
<1>5. ASSUME Head(queue) = Shutdown PROVE rest = <<>> /\ mode = "joining"
  <2>1. 1 \in 1 .. Len(queue) /\ queue[1] = Shutdown
    BY <1>2, <1>5
  <2>2. Len(queue) = 1 /\ mode = "joining"
    BY <1>1, <2>1
  <2>3. Len(rest) = 0
    BY <1>2, <2>2
  <2> QED
    BY <1>2, <2>2, <2>3, EmptySeq
<1>6. Head(queue) # Shutdown => Head(queue) \in CacheEntry
  BY <1>2 DEF Message
<1>7. Len(rest) <= QueueCapacity
  BY <1>1, <1>2
<1>8. \A i \in 1 .. Len(rest) : rest[i] = Shutdown => i = Len(rest) /\ mode = "joining"
  BY <1>4
<1> QED
  BY <1>1, <1>2, <1>3, <1>5, <1>6, <1>7, <1>8 DEF rest

LEMMA ReceiveKeeps == ASSUME IInv, Receive PROVE IInv'
<1>1. /\ Files /\ MemoryOK(memory, file) /\ Scans /\ Queue /\ Writer /\ Table /\ Accepted
      /\ UNCHANGED <<file, launches, reads, parser, mode, memory, table, scan, accepted>>
      /\ writer.pc = "receiving" /\ queue # <<>>
  BY DEF IInv, Receive
<1>2. /\ writer.batch = <<>> /\ ~writer.shutdown /\ mode \notin {"closed", "memory"}
      /\ queue \in Seq(Message)
  BY <1>1 DEF Writer, Queue, Message
<1>3. /\ Tail(queue) \in Seq(Message) /\ Len(Tail(queue)) <= QueueCapacity
      /\ AllSound(Tail(queue), file)
      /\ \A i \in 1 .. Len(Tail(queue)) :
           Tail(queue)[i] = Shutdown => i = Len(Tail(queue)) /\ mode = "joining"
      /\ Head(queue) # Shutdown => Head(queue) \in CacheEntry /\ Sound(Head(queue), file)
      /\ Head(queue) = Shutdown => Tail(queue) = <<>> /\ mode = "joining"
  BY <1>1, QueueTakes
<1>4. CASE Head(queue) = Shutdown /\ Exit
  <2>1. writer' = NoWriter /\ queue' = <<>>
    BY <1>4 DEF Exit
  <2>2. Writer' /\ Queue'
    BY <1>1, <2>1, QueueAssumption, NothingThere DEF Writer, Queue, NoWriter
  <2>3. ASSUME NEW l \in Locator, accepted[l] # NoEntry
        PROVE  Kept(l, accepted[l], table, <<>>, <<>>)
    <3>1. accepted[l] \in CacheEntry /\ Kept(l, accepted[l], table, <<>>, queue) /\ accepted[l].key.locator = l
      BY <1>1, <1>2, <2>3 DEF Accepted
    <3> QED
      BY <1>1, <1>2, <1>3, <1>4, <3>1, MovedIsKept, EmptySeq
  <2>4. Accepted'
    BY <1>1, <2>1, <2>3 DEF Accepted, NoWriter
  <2> QED
    BY <1>1, <2>2, <2>4 DEF IInv, Files, Scans, Table
<1>5. CASE /\ Head(queue) # Shutdown /\ queue' = Tail(queue)
           /\ writer' = [pc |-> "collecting", batch |-> <<Head(queue)>>, shutdown |-> FALSE]
  <2>1. <<Head(queue)>> = Append(<<>>, Head(queue)) /\ <<Head(queue)>> \in Seq(CacheEntry)
    BY <1>3, <1>5
  <2>2. AllSound(<<Head(queue)>>, file)
    <3>1. <<>> \in Seq(Message) /\ Head(queue) \in Message /\ AllSound(<<>>, file)
      BY <1>3, <1>5, NothingThere, EmptySeq DEF Message
    <3>2. AllSound(Append(<<>>, Head(queue)), file)
      BY <1>3, <1>5, <3>1, SoundAppend
    <3> QED
      BY <2>1, <3>2
  <2>3. Writer'
    BY <1>1, <1>2, <1>5, <2>1, <2>2, QueueAssumption DEF Writer
  <2>4. Queue'
    BY <1>1, <1>3, <1>5 DEF Queue, Message
  <2>5. ASSUME NEW l \in Locator, accepted[l] # NoEntry
        PROVE  Kept(l, accepted[l], table, <<Head(queue)>>, Tail(queue))
    <3>1. accepted[l] \in CacheEntry /\ Kept(l, accepted[l], table, <<>>, queue) /\ accepted[l].key.locator = l
      BY <1>1, <1>2, <2>5 DEF Accepted
    <3> QED
      BY <1>1, <1>2, <1>5, <2>1, <3>1, MovedIsKept, EmptySeq
  <2>6. Accepted'
    BY <1>1, <1>5, <2>5 DEF Accepted
  <2> QED
    BY <1>1, <2>3, <2>4, <2>6 DEF IInv, Files, Scans, Table
<1> QED
  BY <1>4, <1>5 DEF Receive

LEMMA CollectKeeps == ASSUME IInv, Collect PROVE IInv'
<1>1. /\ Files /\ MemoryOK(memory, file) /\ Scans /\ Queue /\ Writer /\ Table /\ Accepted
      /\ UNCHANGED <<file, launches, reads, parser, mode, memory, table, scan, accepted>>
      /\ writer.pc = "collecting" /\ queue # <<>> /\ ~writer.shutdown
      /\ Len(writer.batch) < BatchSize /\ queue' = Tail(queue)
  BY DEF IInv, Collect, CollectMore
<1>2. /\ writer \in [pc : {"off", "starting", "receiving", "collecting"},
                     batch : Seq(CacheEntry), shutdown : BOOLEAN]
      /\ AllSound(writer.batch, file) /\ Len(writer.batch) \in Nat /\ mode \notin {"closed", "memory"}
      /\ queue \in Seq(Message) /\ BatchSize \in Nat
  BY <1>1, EmptySeq, QueueAssumption DEF Writer, Queue, Message
<1>3. /\ Tail(queue) \in Seq(Message) /\ Len(Tail(queue)) <= QueueCapacity
      /\ AllSound(Tail(queue), file)
      /\ \A i \in 1 .. Len(Tail(queue)) :
           Tail(queue)[i] = Shutdown => i = Len(Tail(queue)) /\ mode = "joining"
      /\ Head(queue) # Shutdown => Head(queue) \in CacheEntry /\ Sound(Head(queue), file)
      /\ Head(queue) = Shutdown => Tail(queue) = <<>> /\ mode = "joining"
  BY <1>1, QueueTakes
<1>4. Queue'
  BY <1>1, <1>3 DEF Queue, Message
<1>5. ASSUME NEW l \in Locator, accepted[l] # NoEntry
      PROVE  /\ Head(queue) = Shutdown => Kept(l, accepted[l], table, writer.batch, Tail(queue))
             /\ Head(queue) # Shutdown =>
                  Kept(l, accepted[l], table, Append(writer.batch, Head(queue)), Tail(queue))
  <2>1. /\ accepted[l] \in CacheEntry /\ accepted[l].key.locator = l
        /\ Kept(l, accepted[l], table, writer.batch, queue) /\ writer.batch \in Seq(CacheEntry)
    BY <1>1, <1>2, <1>5 DEF Accepted
  <2> QED
    BY <1>1, <1>2, <2>1, MovedIsKept
<1>6. CASE Head(queue) = Shutdown
  <2>1. writer' = [writer EXCEPT !.shutdown = TRUE]
    BY <1>6 DEF Collect
  <2>4. Writer'
    BY <1>1, <1>2, <1>3, <1>6, <2>1 DEF Writer
  <2>5. Accepted'
    BY <1>1, <1>2, <1>5, <1>6, <2>1 DEF Accepted
  <2> QED
    BY <1>1, <1>4, <2>4, <2>5 DEF IInv, Files, Scans, Table
<1>7. CASE Head(queue) # Shutdown
  <2> DEFINE longer == Append(writer.batch, Head(queue))
  <2>1. writer' = [writer EXCEPT !.batch = longer]
    BY <1>7 DEF Collect
  <2>2. longer \in Seq(CacheEntry) /\ Len(longer) = Len(writer.batch) + 1
    BY <1>2, <1>3, <1>7
  <2>3. AllSound(longer, file)
    <3>1. writer.batch \in Seq(Message)
      BY <1>2 DEF Message
    <3> QED
      BY <1>2, <1>3, <1>7, <3>1, SoundAppend
  <2> HIDE DEF longer
  <2>4. /\ writer' \in [pc : {"off", "starting", "receiving", "collecting"},
                        batch : Seq(CacheEntry), shutdown : BOOLEAN]
        /\ writer'.pc = "collecting" /\ ~writer'.shutdown
    BY <1>1, <1>2, <2>1, <2>2
  <2>5. writer'.batch = longer /\ Len(longer) <= BatchSize
    BY <1>1, <1>2, <2>1, <2>2
  <2>6. Writer'
    BY <1>1, <1>2, <2>3, <2>4, <2>5 DEF Writer
  <2>7. Accepted'
    BY <1>1, <1>5, <1>7, <2>5 DEF Accepted, longer
  <2> QED
    BY <1>1, <1>4, <2>6, <2>7 DEF IInv, Files, Scans, Table
<1> QED
  BY <1>6, <1>7

\* The batch is written, all of it or nothing, and the writer goes on or ends.
LEMMA PersistKeeps == ASSUME IInv, Persist PROVE IInv'
<1>1. /\ Files /\ MemoryOK(memory, file) /\ Scans /\ Queue /\ Writer /\ Table /\ Accepted
      /\ UNCHANGED <<file, launches, reads, parser, mode, memory, scan>>
      /\ writer.pc = "collecting" /\ AfterBatch
  BY DEF IInv, Persist
<1> DEFINE b == writer.batch
<1>2. /\ b \in Seq(CacheEntry) /\ AllSound(b, file) /\ mode \notin {"closed", "memory"}
      /\ writer.shutdown => queue = <<>>
      /\ Rows(table) /\ AllSound(table, file)
  BY <1>1 DEF Writer, Table
<1>3. /\ queue' = queue /\ writer'.batch = <<>>
      /\ \/ writer' = NoWriter /\ queue = <<>>
         \/ writer' = [NoWriter EXCEPT !.pc = "receiving"]
  <2>1. CASE writer.shutdown
    BY <1>1, <1>2, <2>1 DEF AfterBatch, Exit, NoWriter
  <2>2. CASE ~writer.shutdown
    BY <1>1, <2>2 DEF AfterBatch, NoWriter
  <2> QED
    BY <2>1, <2>2
<1>4. Queue'
  BY <1>1, <1>3 DEF Queue
<1>5. Writer'
  <2>1. /\ writer' \in [pc : {"off", "starting", "receiving", "collecting"},
                        batch : Seq(CacheEntry), shutdown : BOOLEAN]
        /\ writer'.pc # "collecting" /\ ~writer'.shutdown /\ writer'.batch = <<>>
        /\ writer'.pc = "off" => queue = <<>>
    <3>1. CASE writer' = NoWriter /\ queue = <<>>
      BY <3>1 DEF NoWriter
    <3>2. CASE writer' = [NoWriter EXCEPT !.pc = "receiving"]
      <4>1. writer' = [pc |-> "receiving", batch |-> <<>>, shutdown |-> FALSE]
        BY <3>2 DEF NoWriter
      <4> QED
        BY <4>1
    <3> QED
      BY <1>3, <3>1, <3>2
  <2>2. Len(<<>>) <= BatchSize
    BY QueueAssumption
  <2> QED
    BY <1>1, <1>2, <1>3, <2>1, <2>2, NothingThere DEF Writer
<1>6. Files' /\ Scans' /\ MemoryOK(memory, file)'
  BY <1>1 DEF Files, Scans
<1>7. ASSUME NEW l \in Locator, accepted[l] # NoEntry
      PROVE  /\ accepted[l] \in CacheEntry /\ accepted[l].key.locator = l
             /\ Kept(l, accepted[l], table, b, queue)
  BY <1>1, <1>7 DEF Accepted
<1>8. CASE UNCHANGED table /\ accepted' = Lost(ToSet(b))
  <2>1. ASSUME NEW l \in Locator, accepted'[l] # NoEntry
        PROVE  accepted'[l].key.locator = l /\ Kept(l, accepted'[l], table, <<>>, queue)
    <3>1. accepted'[l] = accepted[l] /\ accepted[l] \notin ToSet(b)
      BY <1>8, <2>1, LostOrAccepted
    <3>2. ~Newest(l, accepted[l], b)
      BY <1>2, <3>1, Members, NewestIsThere
    <3> QED
      BY <1>7, <2>1, <3>1, <3>2, NothingThere DEF Kept
  <2>2. Accepted'
    BY <1>1, <1>3, <1>8, <2>1, LostKeepsType DEF Accepted
  <2> QED
    BY <1>1, <1>4, <1>5, <1>6, <1>8, <2>2 DEF IInv, Table
<1> DEFINE rows == Written(table, b)
<1>9. CASE table' = Prune(rows) /\ accepted' = Lost(ToSet(rows) \ ToSet(table'))
  <2>1. /\ Rows(rows) /\ \A x : Has(rows, x) => Has(table, x) \/ Has(b, x)
        /\ \A l, e : e.key.locator = l /\ Newest(l, e, b) => Has(rows, e)
        /\ \A l, e : e.key.locator = l /\ Free(l, b) /\ Has(table, e) => Has(rows, e)
    BY <1>2, WrittenBrings
  <2> HIDE DEF rows, b
  <2>2. /\ Rows(table') /\ Len(table') <= MaxEntries
        /\ \A x : Has(table', x) => Has(rows, x)
    BY <1>9, <2>1, PruneKeeps
  <2>3. AllSound(table', file)
    BY <1>2, <2>1, <2>2, SoundMembers
  <2>4. Table'
    BY <1>1, <2>2, <2>3 DEF Table
  <2>5. ASSUME NEW l \in Locator, accepted'[l] # NoEntry
        PROVE  accepted'[l].key.locator = l /\ Kept(l, accepted'[l], table', <<>>, queue)
    <3> DEFINE e == accepted[l]
    <3>1. accepted'[l] = e /\ e \notin ToSet(rows) \ ToSet(table')
      BY <1>9, <2>5, LostOrAccepted
    <3>2. e.key.locator = l /\ Kept(l, e, table, b, queue)
      BY <1>7, <2>5, <3>1
    <3> HIDE DEF e
    <3>3. CASE Newest(l, e, queue)
      BY <3>1, <3>2, <3>3 DEF Kept
    <3>4. CASE Free(l, queue) /\ Has(rows, e)
      <4>1. Has(table', e)
        BY <2>1, <2>2, <3>1, <3>4, Members DEF Rows
      <4>2. Newest(l, e, table')
        BY <2>2, <3>2, <4>1, RowIsNewest
      <4> QED
        BY <3>1, <3>2, <3>4, <4>2, NothingThere DEF Kept
    <3>5. Newest(l, e, queue) \/ (Free(l, queue) /\ Has(rows, e))
      <4>1. ASSUME Newest(l, e, b) PROVE Has(rows, e)
        BY <2>1, <3>2, <4>1
      <4>2. ASSUME Free(l, b), Newest(l, e, table) PROVE Has(rows, e)
        BY <2>1, <3>2, <4>2, NewestIsThere
      <4> QED
        BY <3>2, <4>1, <4>2 DEF Kept
    <3> QED
      BY <3>3, <3>4, <3>5
  <2>6. Accepted'
    BY <1>1, <1>3, <1>9, <2>5, LostKeepsType DEF Accepted
  <2> QED
    BY <1>4, <1>5, <1>6, <2>4, <2>6 DEF IInv
<1> QED
  BY <1>8, <1>9 DEF Persist

LEMMA DropKeeps == ASSUME IInv, Drop PROVE IInv'
<1>1. /\ Files /\ MemoryOK(memory, file) /\ Scans /\ Queue /\ Writer /\ Table /\ Accepted
      /\ UNCHANGED <<file, launches, reads, parser, queue, writer, table, scan, accepted>>
      /\ mode \in Running /\ (\A s \in Scan : scan[s] = Idle) /\ memory' = EmptyMemory
      /\ mode' = IF mode = "sqlite" THEN "sending" ELSE "closed"
  BY DEF IInv, Drop, Running
<1>2. MemoryOK(memory, file)'
  BY <1>1, MaxEntriesAssumption DEF MemoryOK, EmptyMemory, Ordered, Owns, ToSet
<1>3. Scans'
  BY <1>1 DEF Scans
<1>4. \A i \in 1 .. Len(queue) : queue[i] # Shutdown
  BY <1>1 DEF Queue, Running
<1>5. Queue'
  BY <1>1, <1>4 DEF Queue
<1>6. ~writer.shutdown /\ (mode = "memory" => writer.pc = "off")
  BY <1>1 DEF Writer, Running
<1>7. Writer'
  BY <1>1, <1>6 DEF Writer, Running
<1> QED
  BY <1>1, <1>2, <1>3, <1>5, <1>7 DEF IInv, Files, Table, Accepted

LEMMA SendShutdownKeeps == ASSUME IInv, SendShutdown PROVE IInv'
<1>1. /\ Files /\ MemoryOK(memory, file) /\ Scans /\ Queue /\ Writer /\ Table /\ Accepted
      /\ UNCHANGED <<file, launches, reads, parser, memory, writer, table, scan, accepted>>
      /\ mode = "sending" /\ mode' = "joining"
  BY DEF IInv, SendShutdown
<1>2. \/ writer.pc = "off" /\ queue' = queue
      \/ writer.pc # "off" /\ Len(queue) < QueueCapacity /\ queue' = Append(queue, Shutdown)
  BY DEF SendShutdown
<1>3. /\ queue \in Seq(Message) /\ Len(queue) \in Nat /\ ~writer.shutdown
      /\ \A i \in 1 .. Len(queue) : queue[i] # Shutdown
      /\ Shutdown \in Message /\ QueueCapacity \in Nat /\ Len(queue) <= QueueCapacity
  BY <1>1, QueueAssumption DEF Queue, Writer, Message
<1>4. Queue'
  <2>1. CASE queue' = queue
    BY <1>1, <1>3, <2>1 DEF Queue
  <2>2. CASE Len(queue) < QueueCapacity /\ queue' = Append(queue, Shutdown)
    <3>1. /\ queue' \in Seq(Message) /\ Len(queue') = Len(queue) + 1
          /\ \A i \in 1 .. Len(queue) : queue'[i] = queue[i]
      BY <1>3, <2>2
    <3>2. AllSound(queue', file)
      BY <1>1, <1>3, <2>2, SoundAppend DEF Queue
    <3>3. \A i \in 1 .. Len(queue') : queue'[i] = Shutdown => i = Len(queue')
      BY <1>3, <3>1
    <3> QED
      BY <1>1, <1>3, <2>2, <3>1, <3>2, <3>3 DEF Queue, Message
  <2> QED
    BY <1>2, <2>1, <2>2
<1>5. Writer'
  BY <1>1, <1>2, <1>3 DEF Writer
<1>6. Scans' /\ Files'
  BY <1>1 DEF Scans, Files, Running
<1>7. Accepted'
  <2>1. \A l, e : Kept(l, e, table, writer.batch, queue) => Kept(l, e, table, writer.batch, queue')
    BY <1>2, <1>3, SentIsNewest DEF Kept
  <2> QED
    BY <1>1, <2>1 DEF Accepted
<1> QED
  BY <1>1, <1>4, <1>5, <1>6, <1>7 DEF IInv, Table

LEMMA JoinKeeps == ASSUME IInv, Join PROVE IInv'
<1>1. /\ Files /\ MemoryOK(memory, file) /\ Scans /\ Queue /\ Writer /\ Table /\ Accepted
      /\ UNCHANGED <<file, launches, reads, parser, memory, queue, writer, table, scan, accepted>>
      /\ mode = "joining" /\ mode' = "closed" /\ writer.pc = "off"
  BY DEF IInv, Join
<1>2. queue = <<>> /\ ~writer.shutdown
  BY <1>1 DEF Writer
<1> QED
  BY <1>1, <1>2 DEF IInv, Files, Scans, Running, Queue, Writer, Table, Accepted

LEMMA CrashKeeps == ASSUME IInv, Crash PROVE IInv'
<1>1. /\ Files /\ MemoryOK(memory, file) /\ Scans /\ Queue /\ Writer /\ Table /\ Accepted
      /\ UNCHANGED <<file, launches, reads, parser, table>>
      /\ mode' = "closed" /\ memory' = EmptyMemory /\ writer' = NoWriter /\ queue' = <<>>
      /\ scan' = [s \in Scan |-> Idle]
      /\ accepted' = [l \in Locator |-> IF accepted[l] \in ToSet(table) THEN accepted[l] ELSE NoEntry]
  BY DEF IInv, Crash, Exit
<1>2. MemoryOK(memory, file)'
  BY <1>1, MaxEntriesAssumption DEF MemoryOK, EmptyMemory, Ordered, Owns, ToSet
<1>3. Scans'
  BY <1>1 DEF Scans, ScanOK
<1>4. Queue' /\ Writer'
  BY <1>1, QueueAssumption, NothingThere DEF Queue, Writer, NoWriter
<1>5. Accepted'
  <2>1. ASSUME NEW l \in Locator, accepted'[l] # NoEntry
        PROVE  accepted'[l].key.locator = l /\ Kept(l, accepted'[l], table, <<>>, <<>>)
    <3>1. accepted'[l] = accepted[l] /\ accepted[l] \in ToSet(table)
      BY <1>1, <2>1
    <3>2. accepted[l].key.locator = l /\ Has(table, accepted[l]) /\ Rows(table)
      BY <1>1, <2>1, <3>1, Members DEF Accepted, Table, Rows
    <3>3. Newest(l, accepted[l], table)
      BY <3>2, RowIsNewest
    <3> QED
      BY <3>1, <3>2, <3>3, NothingThere DEF Kept
  <2>2. accepted' \in [Locator -> CacheEntry \cup {NoEntry}]
    BY <1>1 DEF Accepted
  <2> QED
    BY <1>1, <2>1, <2>2 DEF Accepted, NoWriter
<1> QED
  BY <1>1, <1>2, <1>3, <1>4, <1>5 DEF IInv, Files, Table

(* What was found in a file stays true of it as its versions go on.        *)
LEMMA SoundLater ==
  ASSUME NEW f \in [Locator -> Version], NEW g \in [Locator -> Version],
         \A l \in Locator : f[l] <= g[l]
  PROVE  /\ \A e : Sound(e, f) => Sound(e, g)
         /\ \A s : AllSound(s, f) => AllSound(s, g)
<1>1. ASSUME NEW e, Sound(e, f) PROVE Sound(e, g)
  <2>1. /\ e \in CacheEntry /\ e.key.locator \in Locator /\ e.value.version \in Version
        /\ e.value.parser = e.key.parser
    BY <1>1 DEF Sound, CacheEntry, Key, Value
  <2>2. PICK met \in Version : Met(e.key, met) /\ e.value.version \in met .. f[e.key.locator]
    BY <1>1 DEF Sound
  <2>3. e.value.version \in met .. g[e.key.locator]
    <3> DEFINE l == e.key.locator
    <3>1. f[l] <= g[l] /\ f[l] \in Nat /\ g[l] \in Nat /\ met \in Nat
      BY <2>1, PrintOfAssumption
    <3> QED
      BY <2>2, <3>1
  <2> QED
    BY <2>1, <2>2, <2>3 DEF Sound
<1> QED
  BY <1>1 DEF AllSound

LEMMA ModifyKeeps == ASSUME IInv, NEW l \in Locator, Modify(l) PROVE IInv'
<1>1. /\ Files /\ MemoryOK(memory, file) /\ Scans /\ Queue /\ Writer /\ Table /\ Accepted
      /\ UNCHANGED <<launches, reads, parser, mode, memory, queue, writer, table, scan, accepted>>
      /\ file[l] + 1 \in Version /\ file' = [file EXCEPT ![l] = @ + 1]
  BY DEF IInv, Modify
<1>2. /\ file \in [Locator -> Version] /\ file' \in [Locator -> Version]
      /\ \A k \in Locator : file[k] \in Nat /\ file'[k] \in Nat /\ file[k] <= file'[k]
  <2>1. file \in [Locator -> Version] /\ file' \in [Locator -> Version]
    BY <1>1 DEF Files
  <2>2. \A k \in Locator : file[k] \in Nat /\ file'[k] \in Nat
    BY <2>1, PrintOfAssumption
  <2>3. \A k \in Locator : file'[k] = IF k = l THEN file[k] + 1 ELSE file[k]
    BY <1>1, <2>1
  <2> QED
    BY <2>1, <2>2, <2>3
<1>3. /\ \A e : Sound(e, file) => Sound(e, file')
      /\ \A s : AllSound(s, file) => AllSound(s, file')
  BY <1>2, SoundLater
<1>4. Files' /\ Queue' /\ Writer' /\ Table' /\ Accepted'
  BY <1>1, <1>2, <1>3 DEF Files, Queue, Writer, Table, Accepted
<1>5. MemoryOK(memory, file)'
  BY <1>1, <1>3 DEF MemoryOK, Owns
<1>6. Scans'
  <2>1. ASSUME NEW x, NEW p, ScanOK(x, file, p) PROVE ScanOK(x, file', p)
    <3>1. CASE Looks(x, file)
      <4>1. x.key.locator \in Locator
        BY <3>1 DEF Looks, Reading, ScanKey
      <4>2. \A met \in Version : met <= file[x.key.locator] => met <= file'[x.key.locator]
        BY <1>2, <4>1, PrintOfAssumption
      <4> QED
        BY <2>1, <3>1, <4>2 DEF ScanOK, Looks
    <3>2. CASE Stores(x, file)
      BY <1>3, <2>1, <3>2 DEF ScanOK, Stores
    <3> QED
      BY <2>1, <3>1, <3>2 DEF ScanOK
  <2> QED
    BY <1>1, <2>1 DEF Scans
<1> QED
  BY <1>4, <1>5, <1>6 DEF IInv

LEMMA StepKeepsIInv == IInv /\ [Next]_vars => IInv'
<1> SUFFICES ASSUME IInv, [Next]_vars PROVE IInv'
  OBVIOUS
<1>1. CASE UNCHANGED vars
  BY <1>1 DEF vars, IInv, Files, MemoryOK, Ordered, Owns, Scans, Queue, Writer, Table, Accepted
<1>2. CASE Open \/ Drop \/ SendShutdown \/ Join \/ Crash
  BY <1>2, OpenKeeps, DropKeeps, SendShutdownKeeps, JoinKeeps, CrashKeeps
<1>3. CASE WriterOpens \/ Receive \/ Collect \/ Persist
  BY <1>3, WriterOpensKeeps, ReceiveKeeps, CollectKeeps, PersistKeeps
<1>4. ASSUME NEW l \in Locator, Modify(l) PROVE IInv'
  BY <1>4, ModifyKeeps
<1>5. ASSUME NEW s \in Scan, NEW l \in Locator, TakeFingerprint(s, l) PROVE IInv'
  BY <1>5, TakeFingerprintKeeps
<1>6. ASSUME NEW s \in Scan, Lookup(s) \/ ReadFile(s) \/ StoreMemory(s) \/ TrySend(s)
      PROVE  IInv'
  BY <1>6, LookupKeeps, ReadFileKeeps, StoreMemoryKeeps, TrySendKeeps
<1> QED
  BY <1>1, <1>2, <1>3, <1>4, <1>5, <1>6 DEF Next

(* The invariant holds in every state: what is stored of a file anywhere,   *)
(* in memory, on the queue, in a batch or in the table, is sound for it;    *)
(* the order of the memory names its entries; nothing follows the shutdown  *)
(* on the queue; the table has one row of a file                            *)
(* (metadata/cache.rs:150-269, metadata/sqlite.rs:57-332).                  *)
THEOREM Invariance == Spec => []IInv
<1>1. Init => IInv
  BY InitIInv
<1>2. IInv /\ [Next]_vars => IInv'
  BY StepKeepsIInv
<1> QED
  BY <1>1, <1>2, PTL DEF Spec

-----------------------------------------------------------------------------
(* What follows from it.                                                   *)

LEMMA OneRow ==
  ASSUME Rows(table), NEW l
  PROVE  Cardinality(RowOf(l)) <= 1
<1>1. CASE RowOf(l) = {}
  BY <1>1, FS_EmptySet
<1>2. CASE RowOf(l) # {}
  <2>1. PICK i \in RowOf(l) : TRUE
    BY <1>2
  <2>2. RowOf(l) = {i}
    BY <2>1 DEF RowOf, Rows
  <2>3. Cardinality({i}) = 1
    BY FS_Singleton
  <2> QED
    BY <2>2, <2>3
<1> QED
  BY <1>1, <1>2

(* Types hold for any number of scans, files, versions and entries: the     *)
(* queue and the batch keep to their capacities, the table to the budget    *)
(* with one row of each file (metadata/sqlite.rs:57-332).                   *)
THEOREM TypeCorrect == Spec => []TypeOK
<1>1. IInv => TypeOK
  <2> SUFFICES ASSUME IInv PROVE TypeOK
    OBVIOUS
  <2>1. Files /\ MemoryOK(memory, file) /\ Scans /\ Queue /\ Writer /\ Table /\ Accepted
    BY DEF IInv
  <2>2. /\ file \in [Locator -> Version]
        /\ parser \in Parser /\ launches \in 0 .. MaxLaunches /\ reads \in 0 .. MaxReads
        /\ mode \in {"closed", "memory", "sqlite", "sending", "joining"}
    BY <2>1 DEF Files
  <2>3. \A l \in DOMAIN memory.entries : memory.entries[l] \in CacheEntry
    BY <2>1 DEF MemoryOK, Owns, Sound
  <2>4. /\ Len(queue) <= QueueCapacity
        /\ \A i \in 1 .. Len(queue) : queue[i] \in CacheEntry \cup {Shutdown}
    BY <2>1 DEF Queue
  <2>5. /\ writer.pc \in {"off", "starting", "receiving", "collecting"}
        /\ Len(writer.batch) <= BatchSize /\ IsEntrySeq(writer.batch)
    BY <2>1 DEF Writer, IsEntrySeq
  <2>6. /\ IsEntrySeq(table) /\ Len(table) <= MaxEntries
        /\ \A l \in Locator : Cardinality(RowOf(l)) <= 1
    BY <2>1, OneRow DEF Table, Rows, IsEntrySeq
  <2>7. \A s \in Scan : scan[s].pc \in {"idle", "lookup", "read", "store", "send"}
    BY <2>1 DEF Scans, ScanOK, Idle, Looks, Reading, Stores, Storing
  <2>8. accepted \in [Locator -> CacheEntry \cup {NoEntry}]
    BY <2>1 DEF Accepted
  <2> QED
    BY <2>2, <2>3, <2>4, <2>5, <2>6, <2>7, <2>8 DEF TypeOK
<1> QED
  BY <1>1, Invariance, PTL

(* A hit answers with what this release's parser found in the file in a     *)
(* version it had since the scan met it, however scans, modifications,      *)
(* evictions, releases and launches follow each other                       *)
(* (metadata/cache.rs:230-269).                                             *)
THEOREM AnswerIsCurrentHolds == Spec => []AnswerIsCurrent
<1>1. IInv => AnswerIsCurrent
  <2> SUFFICES ASSUME IInv, NEW s \in Scan, scan[s].pc = "lookup", Hits(memory, scan[s].key)
               PROVE  LET key == scan[s].key
                      IN  /\ Answer(key).parser = parser
                          /\ \E met \in Version :
                               /\ VisualMetadataCacheKey(key.locator, PrintOf[met], parser) = key
                               /\ Answer(key).version \in met .. file[key.locator]
    BY DEF AnswerIsCurrent
  <2> DEFINE key   == scan[s].key
             entry == memory.entries[key.locator]
  <2>1. key \in ScanKey /\ key.parser = parser
    BY DEF IInv, Scans, ScanOK, Idle, Looks, Reading, Stores, Storing
  <2>2. /\ Sound(entry, file) /\ entry.key.locator = key.locator
        /\ entry.key.size = key.size /\ entry.key.mtime = key.mtime
        /\ entry.key.parser = key.parser
    BY DEF IInv, MemoryOK, Owns, Hits, SameFile
  <2>3. PICK met \in Version :
          /\ Met(entry.key, met) /\ entry.value.version \in met .. file[key.locator]
    BY <2>2 DEF Sound
  <2>4. entry.value.parser = parser
    BY <2>1, <2>2 DEF Sound
  <2>5. key = [locator |-> key.locator, size |-> key.size, mtime |-> key.mtime,
               parser |-> key.parser]
    BY <2>1 DEF ScanKey
  <2> HIDE DEF key
  <2>6. VisualMetadataCacheKey(key.locator, PrintOf[met], parser) = key
    BY <2>1, <2>2, <2>3, <2>5 DEF VisualMetadataCacheKey, Met
  <2> QED
    BY <2>3, <2>4, <2>6 DEF Answer, key
<1> QED
  BY <1>1, Invariance, PTL

(* The order of the memory names each cached file once and never more than  *)
(* the budget, for any budget (metadata/cache.rs:162-195).                  *)
THEOREM OrderNamesEntriesHolds == Spec => []OrderNamesEntries
<1>1. IInv => OrderNamesEntries
  <2> SUFFICES ASSUME IInv PROVE OrderNamesEntries
    OBVIOUS
  <2>1. Ordered(memory)
    BY DEF IInv, MemoryOK
  <2> QED
    BY <2>1, CountOfOrder DEF Ordered, OrderNamesEntries
<1> QED
  BY <1>1, Invariance, PTL

LEMMA NewestOnward ==
  ASSUME NEW a \in Seq(Message), NEW b \in Seq(Message), NEW l, NEW e
  PROVE  /\ Newest(l, e, b) => Newest(l, e, a \o b)
         /\ Newest(l, e, a) /\ Free(l, b) => Newest(l, e, a \o b)
<1>1. /\ Len(a) \in Nat /\ Len(b) \in Nat /\ Len(a \o b) = Len(a) + Len(b)
      /\ \A i \in 1 .. Len(a) : (a \o b)[i] = a[i]
      /\ \A i \in 1 .. Len(b) : (a \o b)[Len(a) + i] = b[i]
  OBVIOUS
<1>2. ASSUME NEW j \in 1 .. Len(a \o b), j > Len(a)
      PROVE  j - Len(a) \in 1 .. Len(b) /\ (a \o b)[j] = b[j - Len(a)]
  <2>1. j - Len(a) \in 1 .. Len(b) /\ Len(a) + (j - Len(a)) = j
    BY <1>1, <1>2
  <2> QED
    BY <1>1, <2>1
<1>3. ASSUME Newest(l, e, b) PROVE Newest(l, e, a \o b)
  <2>1. PICK i \in 1 .. Len(b) :
          b[i] = e /\ \A j \in 1 .. Len(b) : j > i /\ b[j] # Shutdown => b[j].key.locator # l
    BY <1>3 DEF Newest
  <2>2. Len(a) + i \in 1 .. Len(a \o b) /\ (a \o b)[Len(a) + i] = e
    BY <1>1, <2>1
  <2>3. ASSUME NEW j \in 1 .. Len(a \o b), j > Len(a) + i, (a \o b)[j] # Shutdown
        PROVE  (a \o b)[j].key.locator # l
    <3>1. j > Len(a) /\ j - Len(a) > i
      BY <1>1, <2>3
    <3> QED
      BY <1>2, <2>1, <2>3, <3>1
  <2> QED
    BY <2>2, <2>3 DEF Newest
<1>4. ASSUME Newest(l, e, a), Free(l, b) PROVE Newest(l, e, a \o b)
  <2>1. PICK i \in 1 .. Len(a) :
          a[i] = e /\ \A j \in 1 .. Len(a) : j > i /\ a[j] # Shutdown => a[j].key.locator # l
    BY <1>4 DEF Newest
  <2>2. i \in 1 .. Len(a \o b) /\ (a \o b)[i] = e
    BY <1>1, <2>1
  <2>3. ASSUME NEW j \in 1 .. Len(a \o b), j > i, (a \o b)[j] # Shutdown
        PROVE  (a \o b)[j].key.locator # l
    <3>1. CASE j > Len(a)
      BY <1>2, <1>4, <2>3, <3>1 DEF Free
    <3>2. CASE ~(j > Len(a))
      BY <1>1, <2>1, <2>3, <3>2
    <3> QED
      BY <3>1, <3>2
  <2> QED
    BY <2>2, <2>3 DEF Newest
<1> QED
  BY <1>3, <1>4

(* What the queue took stays the newest of its file on the way from the     *)
(* table's rows over the batch to the queue, for any batch size and queue   *)
(* capacity and in every order of stores, batches, failures, prunings and   *)
(* shutdowns (metadata/sqlite.rs:166-212).                                  *)
THEOREM AcceptedIsKeptHolds == Spec => []AcceptedIsKept
<1>1. IInv => AcceptedIsKept
  <2> DEFINE before == table \o writer.batch
             way    == before \o queue
             Of(l)  == {i \in 1 .. Len(way) : way[i] # Shutdown /\ way[i].key.locator = l}
  <2> SUFFICES ASSUME IInv, NEW l \in Locator, accepted[l] # NoEntry
               PROVE  \E i \in Of(l) : way[i] = accepted[l] /\ \A j \in Of(l) : j <= i
    BY DEF AcceptedIsKept
  <2>1. /\ table \in Seq(Message) /\ writer.batch \in Seq(Message) /\ queue \in Seq(Message)
        /\ before \in Seq(Message)
    BY DEF IInv, Table, Rows, Writer, Queue, Message
  <2>2. /\ accepted[l] \in CacheEntry /\ accepted[l].key.locator = l
        /\ Kept(l, accepted[l], table, writer.batch, queue)
    BY DEF IInv, Accepted
  <2>3. Newest(l, accepted[l], way)
    <3>1. CASE Newest(l, accepted[l], queue)
      BY <2>1, <3>1, NewestOnward
    <3>2. ASSUME Newest(l, accepted[l], before), Free(l, queue) PROVE Newest(l, accepted[l], way)
      BY <2>1, <3>2, NewestOnward
    <3>3. ASSUME Newest(l, accepted[l], writer.batch) PROVE Newest(l, accepted[l], before)
      BY <2>1, <3>3, NewestOnward
    <3>4. ASSUME Newest(l, accepted[l], table), Free(l, writer.batch)
          PROVE  Newest(l, accepted[l], before)
      BY <2>1, <3>4, NewestOnward
    <3> QED
      BY <2>2, <3>1, <3>2, <3>3, <3>4 DEF Kept
  <2> HIDE DEF way
  <2>4. PICK i \in 1 .. Len(way) :
          /\ way[i] = accepted[l]
          /\ \A j \in 1 .. Len(way) : j > i /\ way[j] # Shutdown => way[j].key.locator # l
    BY <2>3 DEF Newest
  <2>5. i \in Of(l) /\ \A j \in Of(l) : j <= i
    BY <2>2, <2>4, NoCommandIsAnEntry
  <2> QED
    BY <2>4, <2>5
<1> QED
  BY <1>1, Invariance, PTL
===============================================================================
