---------------------- MODULE InMemoryVisualMetadataCache ----------------------
(***************************************************************************)
(* The bounded map behind metadata/cache.rs.  Each operator is one critical *)
(* section of its read-write lock.  A key is the fingerprint a file had     *)
(* when a scan met it; the kind of the medium follows from the extension of *)
(* the locator, so keys of one locator have one kind and it is left out.    *)
(***************************************************************************)
EXTENDS Naturals, Sequences, SequencesExt

CONSTANT MaxEntries     \* max_entries

ASSUME MaxEntriesAssumption == MaxEntries \in Nat \ {0}

VisualMetadataCacheKey(locator, print, parser) ==
    [locator |-> locator, size |-> print.size, mtime |-> print.mtime,
     parser |-> parser]

\* An entry is the key it was stored under and the value read.
CachedEntry(key, value) == [key |-> key, value |-> value]

EmptyMemory == [entries |-> <<>>, insertionOrder |-> <<>>]

\* Faulty: a file of the same size is taken for the same.
BugSameSizeOnly(key, other) == key.size = other.size /\ key.parser = other.parser

\* The fields that lookup compares before it trusts an entry.
SameFile(key, other) ==
    /\ key.size = other.size
    /\ key.mtime = other.mtime
    /\ key.parser = other.parser

Hits(memory, key) ==
    /\ key.locator \in DOMAIN memory.entries
    /\ SameFile(memory.entries[key.locator].key, key)

\* How many locators the eviction loop pops: it stops below the budget, or
\* with an empty insertion order.
Evicted(memory) ==
    LET left(n) == DOMAIN memory.entries
                     \ ToSet(SubSeq(memory.insertionOrder, 1, n))
        last    == Len(memory.insertionOrder)
    IN  CHOOSE n \in 0..last :
          /\ Cardinality(left(n)) < MaxEntries \/ n = last
          /\ \A m \in 0..(n - 1) : Cardinality(left(m)) >= MaxEntries

\* Faulty: every store appends to the order, and nothing is evicted.
BugOrderAgain(memory, entry) ==
    [entries        |-> [l \in DOMAIN memory.entries \cup {entry.key.locator} |->
                           IF l = entry.key.locator THEN entry ELSE memory.entries[l]],
     insertionOrder |-> Append(memory.insertionOrder, entry.key.locator)]

\* store: a new locator makes room for itself and goes to the end of the order.
StoreInMemory(memory, entry) ==
    LET locator == entry.key.locator
        n       == IF locator \in DOMAIN memory.entries THEN 0 ELSE Evicted(memory)
        gone    == ToSet(SubSeq(memory.insertionOrder, 1, n))
        rest    == SubSeq(memory.insertionOrder, n + 1, Len(memory.insertionOrder))
    IN  [entries        |-> [l \in (DOMAIN memory.entries \ gone) \cup {locator} |->
                               IF l = locator THEN entry ELSE memory.entries[l]],
         insertionOrder |-> IF locator \in DOMAIN memory.entries
                              THEN rest ELSE Append(rest, locator)]

================================================================================
