----------------------- MODULE SqliteVisualMetadataCache -----------------------
(***************************************************************************)
(* The persistent cache of visual metadata (metadata/sqlite.rs): a memory   *)
(* that answers, a bounded queue, one writer thread that copies the queue   *)
(* into a table, and the scans that read through it                         *)
(* (CachingVisualMetadataReader in metadata/cache.rs), while the files      *)
(* change and the program is closed, killed and launched again.             *)
(*                                                                         *)
(* A file is the number of its version; a version has a fingerprint, and    *)
(* what a parser finds in it is the pair of parser and version.             *)
(***************************************************************************)
EXTENDS InMemoryVisualMetadataCache

CONSTANTS
  Scan,           \* scanning threads
  Locator,        \* files
  Version,        \* 1 .. n: what a file may become
  PrintOf,        \* the fingerprint of each version
  NoTime,         \* the modification time cannot be read
  Parser,         \* parser versions of the releases launched
  QueueCapacity,  \* DEFAULT_WRITE_QUEUE_CAPACITY
  BatchSize,      \* DEFAULT_WRITE_BATCH_SIZE
  MaxLaunches,    \* bound: launches of the program
  MaxReads        \* bound: files met by all scans together

ASSUME PrintOfAssumption ==
  /\ Version \subseteq Nat \ {0} /\ 1 \in Version
  /\ PrintOf \in [Version -> [size : Nat, mtime : Nat]]
  /\ \A v, w \in Version : PrintOf[v] = PrintOf[w] => v = w
ASSUME QueueAssumption == QueueCapacity \in Nat \ {0} /\ BatchSize \in Nat \ {0}
ASSUME BoundsAssumption == MaxLaunches \in Nat /\ MaxReads \in Nat
ASSUME NoTimeAssumption == NoTime \notin Nat

VARIABLES
  file,      \* the version each file has now
  launches, reads, parser,
  mode,      \* "closed", "memory" (no database), "sqlite", "sending" or "joining" (drop)
  memory,
  queue,     \* the channel to the writer
  writer,    \* the writer thread: pc, batch, shutdown
  table,     \* the rows in the order of their rowid
  scan,      \* what each scanning thread reads
  accepted   \* history: the last entry of a file the queue took and nobody lost

vars == <<file, launches, reads, parser, mode, memory, queue, writer, table, scan,
          accepted>>

Value     == [parser : Parser, version : Version]
Key       == [locator : Locator, size : Nat, mtime : Nat, parser : Parser]
CacheEntry == [key : Key, value : Value]
Shutdown  == [command |-> "shutdown"]
NoEntry   == [entry |-> "none"]
NoWriter  == [pc |-> "off", batch |-> <<>>, shutdown |-> FALSE]
Idle      == [pc |-> "idle"]

RowOf(l) == {i \in 1 .. Len(table) : table[i].key.locator = l}

IsEntrySeq(s) == \A i \in 1 .. Len(s) : s[i] \in CacheEntry

TypeOK ==
  /\ file \in [Locator -> Version]
  /\ parser \in Parser /\ launches \in 0 .. MaxLaunches /\ reads \in 0 .. MaxReads
  /\ mode \in {"closed", "memory", "sqlite", "sending", "joining"}
  /\ \A l \in DOMAIN memory.entries : memory.entries[l] \in CacheEntry
  /\ Len(queue) <= QueueCapacity
  /\ \A i \in 1 .. Len(queue) : queue[i] \in CacheEntry \cup {Shutdown}
  /\ writer.pc \in {"off", "starting", "receiving", "collecting"}
  /\ Len(writer.batch) <= BatchSize /\ IsEntrySeq(writer.batch)
  /\ IsEntrySeq(table) /\ Len(table) <= MaxEntries
  /\ \A l \in Locator : Cardinality(RowOf(l)) <= 1
  /\ \A s \in Scan : scan[s].pc \in {"idle", "lookup", "read", "store", "send"}
  /\ accepted \in [Locator -> CacheEntry \cup {NoEntry}]

Init ==
  /\ file = [l \in Locator |-> 1]
  /\ launches = 0 /\ reads = 0 /\ parser \in Parser
  /\ mode = "closed"
  /\ memory = EmptyMemory
  /\ queue = <<>> /\ writer = NoWriter
  /\ table = <<>>
  /\ scan = [s \in Scan |-> Idle]
  /\ accepted = [l \in Locator |-> NoEntry]

-----------------------------------------------------------------------------
(* The table.                                                              *)

\* INSERT ... ON CONFLICT DO UPDATE: a known file keeps its rowid.
Upsert(rows, entry) ==
  IF \E i \in 1 .. Len(rows) : rows[i].key.locator = entry.key.locator
  THEN [i \in 1 .. Len(rows) |->
          IF rows[i].key.locator = entry.key.locator THEN entry ELSE rows[i]]
  ELSE Append(rows, entry)

\* Faulty: one row too many is kept.
BugPruneLate(rows) ==
  LET excess == IF Len(rows) > MaxEntries + 1 THEN Len(rows) - MaxEntries ELSE 0
  IN  SubSeq(rows, excess + 1, Len(rows))

\* The rows with the least rowids go, as many as exceed the budget.
Prune(rows) ==
  LET excess == IF Len(rows) > MaxEntries THEN Len(rows) - MaxEntries ELSE 0
  IN  SubSeq(rows, excess + 1, Len(rows))

\* load_into_memory: in the order of rowid, so that the oldest are evicted first.
LoadIntoMemory(rows) ==
  LET loaded[n \in 0 .. Len(rows)] ==
        IF n = 0 THEN EmptyMemory ELSE StoreInMemory(loaded[n - 1], rows[n])
  IN  loaded[Len(rows)]

\* The upserts of one transaction.
Written(rows, batch) ==
  LET after[n \in 0 .. Len(batch)] ==
        IF n = 0 THEN rows ELSE Upsert(after[n - 1], batch[n])
  IN  after[Len(batch)]

-----------------------------------------------------------------------------
(* A launch opens the database, prunes it, loads it into memory and starts *)
(* the writer; when any of that fails, before the pruning or after it, the *)
(* program runs without it.                                                *)
Open ==
  /\ mode = "closed" /\ launches < MaxLaunches
  /\ launches' = launches + 1
  /\ parser' \in Parser
  /\ \/ /\ mode' = "sqlite"
        /\ table' = Prune(table)
        /\ memory' = LoadIntoMemory(table')
        /\ writer' = [NoWriter EXCEPT !.pc = "starting"]
     \/ /\ mode' = "memory"
        /\ table' \in {table, Prune(table)}
        /\ memory' = EmptyMemory
        /\ UNCHANGED writer
  /\ UNCHANGED <<file, reads, queue, scan, accepted>>

-----------------------------------------------------------------------------
(* A scan.                                                                 *)

\* scanner.rs takes the fingerprint of a file first.  Without a modification
\* time the cache is bypassed.
TakeFingerprint(s, l) ==
  /\ mode \in {"memory", "sqlite"} /\ scan[s].pc = "idle"
  /\ reads < MaxReads /\ reads' = reads + 1
  /\ \E mtime \in {PrintOf[file[l]].mtime, NoTime} :
       LET print == [size |-> PrintOf[file[l]].size, mtime |-> mtime]
       IN  scan' = [scan EXCEPT ![s] =
             [pc  |-> IF mtime = NoTime THEN "read" ELSE "lookup",
              key |-> VisualMetadataCacheKey(l, print, parser)]]
  /\ UNCHANGED <<file, launches, parser, mode, memory, queue, writer, table, accepted>>

\* What a scan that looks up is told when it hits.
Answer(key) == memory.entries[key.locator].value

Lookup(s) ==
  /\ scan[s].pc = "lookup"
  /\ scan' = [scan EXCEPT ![s] =
       IF Hits(memory, @.key) THEN Idle ELSE [@ EXCEPT !.pc = "read"]]
  /\ UNCHANGED <<file, launches, reads, parser, mode, memory, queue, writer, table, accepted>>

\* The inner reader opens the file as it is by now; a failure
\* and what was read past the cache are not stored.
ReadFile(s) ==
  /\ scan[s].pc = "read"
  /\ \/ /\ scan[s].key.mtime # NoTime
        /\ scan' = [scan EXCEPT ![s] =
             [pc    |-> "store", key |-> @.key,
              value |-> [parser |-> parser, version |-> file[@.key.locator]]]]
     \/ scan' = [scan EXCEPT ![s] = Idle]
  /\ UNCHANGED <<file, launches, reads, parser, mode, memory, queue, writer, table, accepted>>

\* store: the memory first, under its lock.
StoreMemory(s) ==
  /\ scan[s].pc = "store"
  /\ memory' = StoreInMemory(memory, CachedEntry(scan[s].key, scan[s].value))
  /\ scan' = [scan EXCEPT ![s] = IF mode = "sqlite" THEN [@ EXCEPT !.pc = "send"]
                                                 ELSE Idle]
  /\ UNCHANGED <<file, launches, reads, parser, mode, queue, writer, table, accepted>>

\* Then the queue, without waiting: a full queue or a dead writer loses the
\* entry, and the scan goes on.
TrySend(s) ==
  /\ scan[s].pc = "send"
  /\ LET entry == CachedEntry(scan[s].key, scan[s].value)
     IN  IF Len(queue) < QueueCapacity /\ writer.pc # "off"
         THEN /\ queue' = Append(queue, entry)
              /\ accepted' = [accepted EXCEPT ![entry.key.locator] = entry]
         ELSE UNCHANGED <<queue, accepted>>
  /\ scan' = [scan EXCEPT ![s] = Idle]
  /\ UNCHANGED <<file, launches, reads, parser, mode, memory, writer, table>>

-----------------------------------------------------------------------------
(* The writer thread.  When it returns, the channel and what is in it go.  *)
Exit == /\ writer' = NoWriter
        /\ queue' = <<>>

\* Entries that will not reach the table are nobody's any more.
Lost(entries) ==
  [l \in Locator |-> IF accepted[l] \in entries THEN NoEntry ELSE accepted[l]]

WriterOpens ==
  /\ writer.pc = "starting"
  /\ \/ /\ writer' = [writer EXCEPT !.pc = "receiving"]
        /\ UNCHANGED <<queue, accepted>>
     \/ /\ Exit
        /\ accepted' = Lost(ToSet(queue))
  /\ UNCHANGED <<file, launches, reads, parser, mode, memory, table, scan>>

\* recv waits for a first command.
Receive ==
  /\ writer.pc = "receiving" /\ queue # <<>>
  /\ IF Head(queue) = Shutdown
     THEN Exit
     ELSE /\ writer' = [pc |-> "collecting", batch |-> <<Head(queue)>>, shutdown |-> FALSE]
          /\ queue' = Tail(queue)
  /\ UNCHANGED <<file, launches, reads, parser, mode, memory, table, scan, accepted>>

CollectMore == Len(writer.batch) < BatchSize /\ queue # <<>> /\ ~writer.shutdown

\* Faulty: the shutdown is obeyed before the batch is written.
BugShutdownDropsBatch ==
  /\ writer.pc = "collecting" /\ CollectMore
  /\ queue' = Tail(queue)
  /\ writer' = IF Head(queue) = Shutdown
               THEN [writer EXCEPT !.shutdown = TRUE, !.batch = <<>>]
               ELSE [writer EXCEPT !.batch = Append(@, Head(queue))]
  /\ UNCHANGED <<file, launches, reads, parser, mode, memory, table, scan, accepted>>

\* Faulty: the shutdown ends the batch and is then forgotten.
BugShutdownForgotten ==
  /\ writer.pc = "collecting" /\ CollectMore
  /\ queue' = Tail(queue)
  /\ writer' = IF Head(queue) = Shutdown
               THEN writer
               ELSE [writer EXCEPT !.batch = Append(@, Head(queue))]
  /\ UNCHANGED <<file, launches, reads, parser, mode, memory, table, scan, accepted>>

\* try_recv takes what is there, up to the batch size or the shutdown.
Collect ==
  /\ writer.pc = "collecting" /\ CollectMore
  /\ queue' = Tail(queue)
  /\ writer' = IF Head(queue) = Shutdown
               THEN [writer EXCEPT !.shutdown = TRUE]
               ELSE [writer EXCEPT !.batch = Append(@, Head(queue))]
  /\ UNCHANGED <<file, launches, reads, parser, mode, memory, table, scan, accepted>>

AfterBatch == IF writer.shutdown
              THEN Exit
              ELSE /\ writer' = [NoWriter EXCEPT !.pc = "receiving"]
                   /\ UNCHANGED queue

\* persist_batch is one transaction: upserts, pruning, commit, or nothing.
Persist ==
  /\ writer.pc = "collecting" /\ ~CollectMore
  /\ AfterBatch
  /\ \/ LET rows == Written(table, writer.batch)
        IN  /\ table' = Prune(rows)
            /\ accepted' = Lost(ToSet(rows) \ ToSet(table'))
     \/ /\ accepted' = Lost(ToSet(writer.batch))
        /\ UNCHANGED table
  /\ UNCHANGED <<file, launches, reads, parser, mode, memory, scan>>

-----------------------------------------------------------------------------
(* drop: when the last scan has ended, Shutdown is sent, waiting for room, *)
(* and the writer is joined.                                               *)
Drop ==
  /\ mode \in {"memory", "sqlite"} /\ \A s \in Scan : scan[s] = Idle
  /\ memory' = EmptyMemory
  /\ mode' = IF mode = "sqlite" THEN "sending" ELSE "closed"
  /\ UNCHANGED <<file, launches, reads, parser, queue, writer, table, scan, accepted>>

SendShutdown ==
  /\ mode = "sending" /\ (writer.pc = "off" \/ Len(queue) < QueueCapacity)
  /\ mode' = "joining"
  /\ queue' = IF writer.pc = "off" THEN queue ELSE Append(queue, Shutdown)
  /\ UNCHANGED <<file, launches, reads, parser, memory, writer, table, scan, accepted>>

Join ==
  /\ mode = "joining" /\ writer.pc = "off"
  /\ mode' = "closed"
  /\ UNCHANGED <<file, launches, reads, parser, memory, queue, writer, table, scan, accepted>>

\* The process is killed: committed rows stay, the rest is gone.
Crash ==
  /\ mode # "closed"
  /\ mode' = "closed" /\ memory' = EmptyMemory
  /\ Exit
  /\ scan' = [s \in Scan |-> Idle]
  /\ accepted' = [l \in Locator |->
       IF accepted[l] \in ToSet(table) THEN accepted[l] ELSE NoEntry]
  /\ UNCHANGED <<file, launches, reads, parser, table>>

\* Somebody writes a file.
Modify(l) ==
  /\ file[l] + 1 \in Version
  /\ file' = [file EXCEPT ![l] = @ + 1]
  /\ UNCHANGED <<launches, reads, parser, mode, memory, queue, writer, table, scan, accepted>>

Next ==
  \/ Open \/ Drop \/ SendShutdown \/ Join \/ Crash
  \/ WriterOpens \/ Receive \/ Collect \/ Persist
  \/ \E l \in Locator : Modify(l)
  \/ \E s \in Scan : \/ \E l \in Locator : TakeFingerprint(s, l)
                     \/ Lookup(s) \/ ReadFile(s) \/ StoreMemory(s) \/ TrySend(s)

Spec == Init /\ [][Next]_vars

\* The threads of a process that is closing are scheduled.  Scans, files and
\* launches owe nothing.
Fairness == WF_vars(SendShutdown) /\ WF_vars(Join)
            /\ WF_vars(WriterOpens) /\ WF_vars(Receive)
            /\ WF_vars(Collect) /\ WF_vars(Persist)

FairSpec == Spec /\ Fairness

-----------------------------------------------------------------------------
(* Properties.                                                             *)

\* What the cache tells a scan about a file is what the parser of this release
\* finds in the file at some moment since the scan met it: never the dimensions
\* of an older version, of another release's parser or of another file
\* (CachingVisualMetadataReader, metadata/cache.rs:230-269).
AnswerIsCurrent ==
  \A s \in Scan :
    (scan[s].pc = "lookup" /\ Hits(memory, scan[s].key)) =>
      LET key == scan[s].key
      IN  /\ Answer(key).parser = parser
          /\ \E met \in Version : /\ VisualMetadataCacheKey(key.locator, PrintOf[met], parser) = key
                                 /\ Answer(key).version \in met .. file[key.locator]

\* The insertion order names each cached file once, so that the oldest can
\* always be found and the budget holds, whatever scans store at one time
\* (metadata/cache.rs:162-195).
OrderNamesEntries ==
  /\ ToSet(memory.insertionOrder) = DOMAIN memory.entries
  /\ Len(memory.insertionOrder) = Cardinality(DOMAIN memory.entries)
  /\ Len(memory.insertionOrder) <= MaxEntries

\* An entry the queue took stays the newest of its file on the way to the table
\* until a transaction fails, the process is killed or it is pruned as one of
\* the oldest: batches, rowids and the last flush lose and reorder nothing
\* (metadata/sqlite.rs:166-212).
AcceptedIsKept ==
  \A l \in Locator :
    accepted[l] # NoEntry =>
      LET way == table \o writer.batch \o queue
          Of  == {i \in 1 .. Len(way) : way[i] # Shutdown /\ way[i].key.locator = l}
      IN  \E i \in Of : way[i] = accepted[l] /\ \A j \in Of : j <= i

\* drop comes to an end, with the queue full, the writer in the middle of a
\* batch or already dead: nobody waits for the other (metadata/sqlite.rs:155).
DropEnds == mode \in {"sending", "joining"} ~> mode = "closed"

================================================================================
