---------------------------- MODULE ScanBackend ----------------------------
(***************************************************************************)
(* src/src-tauri/src/ipc/scan.rs with the walk of                          *)
(* src/crates/waterfall-infra/src/filesystem/scanner.rs: the start_scan    *)
(* and cancel_scan commands, the registry of running scans, and the scan   *)
(* task of each session.                                                   *)
(*                                                                         *)
(* start_scan is an asynchronous command: commands of several sessions run *)
(* at once, and a step is what one of them does between two accesses to a  *)
(* shared lock.  Events go through one channel per session, in order; the  *)
(* answer of the command travels on its own.                               *)
(***************************************************************************)
EXTENDS Integers, Sequences

CONSTANTS
  MaxSessions,   \* bound: sessions opened
  MaxEntries,    \* bound: directory entries the walk of each session meets
  BatchSize      \* the request's batchSize

Session   == 1 .. MaxSessions
NoSession == 0

VARIABLES
  command,    \* how far start_scan of a session is
  sessions,   \* ScanRegistry: the sessions with a cancellation flag
  flag,       \* the flags
  resourceSession,   \* the current session of MediaResourceRegistry
  walked, batch, accepted,   \* the walk: entries seen, batch, summary
  result,     \* what start_scan returns
  channel,    \* events sent and not handled yet
  response,   \* answers of start_scan sent and not handled yet
  cancels     \* cancel_scan commands on their way: session and caller

walkVars    == <<walked, batch, accepted>>
backendVars == <<command, sessions, flag, resourceSession, walkVars, result>>
wireVars    == <<channel, response, cancels>>

ErrorCode == {"source-unavailable", "internal"}
Caller    == {"user", "controller"}

Event == [event : {"started", "warning"}]
           \cup [event : {"batch"}, items : 1 .. BatchSize]
           \cup [event : {"finished", "cancelled"}, accepted : Nat]

BackendTypeOK ==
  /\ command \in [Session -> {"none", "invoked", "registered", "begun",
                              "walking", "returned", "answered"}]
  /\ sessions \subseteq Session
  /\ flag \in [Session -> BOOLEAN]
  /\ resourceSession \in Session \cup {NoSession}
  /\ \A s \in Session : accepted[s] <= walked[s] /\ walked[s] <= MaxEntries[s]
  /\ batch \in [Session -> 0 .. BatchSize - 1]
  /\ walked \in [Session -> Nat] /\ accepted \in [Session -> Nat]
  /\ result \in [Session -> ErrorCode \cup {"none", "ok"}]
  /\ channel \in [Session -> Seq(Event)]
  /\ response \in [Session -> ErrorCode \cup {"none", "ok"}]
  /\ cancels \subseteq [session : Session, caller : Caller]

BackendInit ==
  /\ command = [s \in Session |-> "none"]
  /\ sessions = {}
  /\ flag = [s \in Session |-> FALSE]
  /\ resourceSession = NoSession
  /\ walked = [s \in Session |-> 0]
  /\ batch = [s \in Session |-> 0]
  /\ accepted = [s \in Session |-> 0]
  /\ result = [s \in Session |-> "none"]
  /\ channel = [s \in Session |-> <<>>]
  /\ response = [s \in Session |-> "none"]
  /\ cancels = {}

-----------------------------------------------------------------------------
(* start_scan resolves the source and enters the session in the registry.  *)
(* A session identifier is fresh, so session-exists cannot happen.         *)
Register(s) ==
  /\ command[s] = "invoked"
  /\ \/ /\ command' = [command EXCEPT ![s] = "registered"]
        /\ sessions' = sessions \cup {s}
        /\ flag' = [flag EXCEPT ![s] = FALSE]
        /\ UNCHANGED response
     \/ /\ command' = [command EXCEPT ![s] = "answered"]
        /\ response' = [response EXCEPT ![s] = "source-unavailable"]
        /\ UNCHANGED <<sessions, flag>>
  /\ UNCHANGED <<resourceSession, walkVars, result, channel, cancels>>

(* The media resource registry drops the keys of its previous session.     *)
BeginSession(s) ==
  /\ command[s] = "registered"
  /\ command' = [command EXCEPT ![s] = "begun"]
  /\ resourceSession' = s
  /\ UNCHANGED <<sessions, flag, walkVars, result, wireVars>>

(* The scan task returns r.                                                *)
Returns(s, r) ==
  /\ command' = [command EXCEPT ![s] = "returned"]
  /\ result' = [result EXCEPT ![s] = r]

Emit(s, events) == channel' = [channel EXCEPT ![s] = @ \o events]

(* The task checks the root and announces the scan.                        *)
ScanStarts(s) ==
  /\ command[s] = "begun"
  /\ \/ /\ command' = [command EXCEPT ![s] = "walking"]
        /\ Emit(s, <<[event |-> "started"]>>)
        /\ UNCHANGED result
     \/ /\ Returns(s, "source-unavailable")
        /\ UNCHANGED channel
  /\ UNCHANGED <<sessions, flag, resourceSession, walkVars, response, cancels>>

-----------------------------------------------------------------------------
(* flush_batch: a batch of n items is sent under the keys the resource     *)
(* registry gives them, which it refuses to a session that is not current. *)
CanFlush(s, n) == n > 0 => resourceSession = s
Flushed(n)     == IF n = 0 THEN <<>> ELSE <<[event |-> "batch", items |-> n]>>

(* The next entry cannot be read.  One that is no media file changes       *)
(* nothing and is no step; a media file without readable dimensions sends  *)
(* this warning before it is taken as any other.                           *)
WalkUnreadable(s) ==
  /\ command[s] = "walking" /\ ~flag[s]
  /\ walked[s] < MaxEntries[s]
  /\ walked' = [walked EXCEPT ![s] = @ + 1]
  /\ Emit(s, <<[event |-> "warning"]>>)
  /\ UNCHANGED <<command, sessions, flag, resourceSession, batch, accepted,
                 result, response, cancels>>

(* Faulty: one item more than the batch holds.                             *)
BugFullTooLate(s) == batch[s] + 1 > BatchSize

(* Is the batch full with the next item?                                   *)
Full(s) == batch[s] + 1 >= BatchSize

(* The next entry is a media file; a full batch is flushed.                *)
WalkMedia(s) ==
  LET full == Full(s)
  IN  /\ command[s] = "walking" /\ ~flag[s]
      /\ walked[s] < MaxEntries[s]
      /\ walked' = [walked EXCEPT ![s] = @ + 1]
      /\ accepted' = [accepted EXCEPT ![s] = @ + 1]
      /\ batch' = [batch EXCEPT ![s] = IF full THEN 0 ELSE @ + 1]
      /\ IF full /\ ~CanFlush(s, BatchSize)
           THEN Returns(s, "internal") /\ UNCHANGED channel
           ELSE /\ Emit(s, Flushed(IF full THEN BatchSize ELSE 0))
                /\ UNCHANGED <<command, result>>
      /\ UNCHANGED <<sessions, flag, resourceSession, response, cancels>>

(* Faulty: the items of the unfinished batch are not sent.                 *)
BugNoFinalFlush(s, terminal) ==
  /\ command[s] = "walking"
  /\ Returns(s, "ok")
  /\ Emit(s, <<[event |-> terminal, accepted |-> accepted[s]]>>)
  /\ batch' = [batch EXCEPT ![s] = 0]
  /\ UNCHANGED <<sessions, flag, resourceSession, walked, accepted, response, cancels>>

(* The walk stops: what is left of the batch, then the terminal event.     *)
ScanEnds(s, terminal) ==
  /\ command[s] = "walking"
  /\ IF CanFlush(s, batch[s])
       THEN /\ Returns(s, "ok")
            /\ Emit(s, Flushed(batch[s]) \o
                       <<[event |-> terminal, accepted |-> accepted[s]]>>)
       ELSE /\ Returns(s, "internal")
            /\ UNCHANGED channel
  /\ batch' = [batch EXCEPT ![s] = 0]
  /\ UNCHANGED <<sessions, flag, resourceSession, walked, accepted, response, cancels>>

(* No entry is left, or there is one more and the flag is found set.       *)
WalkFinished(s)  == ScanEnds(s, "finished")
WalkCancelled(s) == flag[s] /\ ScanEnds(s, "cancelled")

(* start_scan takes the session from the registry and answers; the flag    *)
(* and the variables of the walk are gone.                                 *)
Conclude(s) ==
  /\ command[s] = "returned"
  /\ command' = [command EXCEPT ![s] = "answered"]
  /\ sessions' = sessions \ {s}
  /\ response' = [response EXCEPT ![s] = result[s]]
  /\ result' = [result EXCEPT ![s] = "none"]
  /\ flag' = [flag EXCEPT ![s] = FALSE]
  /\ walked' = [walked EXCEPT ![s] = 0]
  /\ batch' = [batch EXCEPT ![s] = 0]
  /\ accepted' = [accepted EXCEPT ![s] = 0]
  /\ UNCHANGED <<resourceSession, channel, cancels>>

(* cancel_scan: the flag of a registered session is set.                   *)
ExecuteCancel(c) ==
  /\ c \in cancels
  /\ cancels' = cancels \ {c}
  /\ flag' = IF c.session \in sessions THEN [flag EXCEPT ![c.session] = TRUE] ELSE flag
  /\ UNCHANGED <<command, sessions, resourceSession, walkVars, result, channel, response>>

StartScanStep(s) ==
  \/ Register(s)
  \/ BeginSession(s)
  \/ ScanStarts(s)
  \/ WalkUnreadable(s)
  \/ WalkMedia(s)
  \/ WalkFinished(s)
  \/ WalkCancelled(s)
  \/ Conclude(s)
=============================================================================
