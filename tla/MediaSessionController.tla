----------------------- MODULE MediaSessionController -----------------------
(***************************************************************************)
(* src/src/application/mediaSession.ts, MediaSessionController, over the   *)
(* scan commands of the backend: the current session, the events of its    *)
(* scan and of the scans it superseded, and cancellation.  The query that   *)
(* orders and filters the session's items is in MediaFlow.                 *)
(*                                                                         *)
(* An action is a handler the JavaScript event loop runs to its end.       *)
(* Sessions are numbered in the order they are opened.  Of the index of    *)
(* the items only its size is kept.                                        *)
(***************************************************************************)
EXTENDS ScanBackend, FiniteSets

CONSTANT MaxCancelCalls  \* bound: calls of cancelCurrent under way at once

ASSUME SessionAssumption ==
  /\ MaxSessions \in Nat \ {0} /\ MaxEntries \in [Session -> Nat]
  /\ BatchSize \in Nat \ {0} /\ MaxCancelCalls \in Nat

VARIABLES
  current,        \* the number of the current session
  status, receivedItems, warningCount, summary, error,   \* its scanState
  replies         \* answers of cancel_scan that cancelCurrent awaits

stateVars == <<status, receivedItems, warningCount, summary, error>>
vars == <<backendVars, wireVars, current, stateVars, replies>>

NoSummary == -1

isActive(st)   == st \in {"starting", "scanning", "cancelling"}
isTerminal(st) == st \in {"finished", "cancelled", "failed"}

TypeOK ==
  /\ BackendTypeOK
  /\ current \in Session \cup {NoSession}
  /\ isActive(status) \/ isTerminal(status)
  /\ receivedItems \in Nat /\ warningCount \in Nat
  /\ current # NoSession => receivedItems + warningCount <= MaxEntries[current]
  /\ summary \in Nat \cup {NoSummary}
  /\ error \in ErrorCode \cup {"none", "protocol-error"}
  /\ replies \subseteq [session : Session, accepted : BOOLEAN]

(* Without a current session the scanState is not read.                    *)
Init ==
  /\ BackendInit
  /\ current = NoSession
  /\ status = "finished" /\ receivedItems = 0 /\ warningCount = 0
  /\ summary = NoSummary /\ error = "none"
  /\ replies = {}

-----------------------------------------------------------------------------
(* A session replaces the current one, whose scan is told to stop, and     *)
(* start_scan is invoked for it.                                           *)
openSource ==
  LET s == current + 1
  IN  /\ s \in Session
      /\ cancels' = IF current # NoSession /\ isActive(status)
                      THEN cancels \cup {[session |-> current, caller |-> "controller"]}
                      ELSE cancels
      /\ current' = s
      /\ status' = "starting"
      /\ receivedItems' = 0 /\ warningCount' = 0
      /\ summary' = NoSummary /\ error' = "none"
      /\ command' = [command EXCEPT ![s] = "invoked"]
      /\ UNCHANGED <<sessions, flag, resourceSession, walkVars, result, channel,
                     response, replies>>

(* cancelCurrent up to its await                                           *)
cancelCurrent ==
  /\ current # NoSession /\ isActive(status)
  /\ Cardinality({c \in cancels : c.caller = "user"}) + Cardinality(replies) < MaxCancelCalls
  /\ cancels' = cancels \cup {[session |-> current, caller |-> "user"]}
  /\ UNCHANGED <<backendVars, channel, response, current, stateVars, replies>>

(* cancel_scan runs; the answer goes back to cancelCurrent if it asked.    *)
CancelRuns(c) ==
  /\ ExecuteCancel(c)
  /\ replies' = IF c.caller = "user"
                  THEN replies \cup {[session |-> c.session,
                                      accepted |-> c.session \in sessions]}
                  ELSE replies
  /\ UNCHANGED <<current, stateVars>>

(* cancelCurrent after its await.                                          *)
CancelReply(reply) ==
  /\ reply \in replies
  /\ replies' = replies \ {reply}
  /\ status' = IF reply.accepted /\ current = reply.session /\ isActive(status)
                 THEN "cancelling" ELSE status
  /\ UNCHANGED <<backendVars, wireVars, current, receivedItems, warningCount,
                 summary, error>>

-----------------------------------------------------------------------------
(* #handleEvent                                                            *)
(* The next event of the channel of s.                                     *)
Handles(s) ==
  /\ channel[s] # <<>>
  /\ channel' = [channel EXCEPT ![s] = Tail(@)]
  /\ UNCHANGED <<backendVars, response, current, replies>>

(* Faulty: the scan of a superseded session is left alone.                 *)
BugStaleStartIgnored(s) ==
  /\ Handles(s)
  /\ current # s
  /\ UNCHANGED <<cancels, stateVars>>

(* An event of a session that is not current any more changes nothing,     *)
(* except that the scan it announces is told to stop.                      *)
HandleStale(s) ==
  /\ Handles(s)
  /\ current # s
  /\ cancels' = IF Head(channel[s]).event = "started"
                  THEN cancels \cup {[session |-> s, caller |-> "controller"]}
                  ELSE cancels
  /\ UNCHANGED stateVars

(* An event after the session has come to an end is dropped.               *)
HandleLate(s) ==
  /\ Handles(s)
  /\ current = s /\ isTerminal(status)
  /\ UNCHANGED <<cancels, stateVars>>

HandleStarted(s) ==
  /\ Handles(s)
  /\ current = s /\ isActive(status)
  /\ Head(channel[s]).event = "started"
  /\ status' = IF status = "starting" THEN "scanning" ELSE status
  /\ UNCHANGED <<cancels, receivedItems, warningCount, summary, error>>

(* Files of one scan differ in their identifiers: upsertMany adds them.    *)
HandleBatch(s) ==
  /\ Handles(s)
  /\ current = s /\ isActive(status)
  /\ Head(channel[s]).event = "batch"
  /\ receivedItems' = receivedItems + Head(channel[s]).items
  /\ UNCHANGED <<cancels, status, warningCount, summary, error>>

HandleWarning(s) ==
  /\ Handles(s)
  /\ current = s /\ isActive(status)
  /\ Head(channel[s]).event = "warning"
  /\ warningCount' = warningCount + 1
  /\ UNCHANGED <<cancels, status, receivedItems, summary, error>>

(* finished and cancelled; MediaFlow applies the deferred sort.             *)
HandleTerminal(s) ==
  /\ Handles(s)
  /\ current = s /\ isActive(status)
  /\ Head(channel[s]).event \in {"finished", "cancelled"}
  /\ status' = Head(channel[s]).event
  /\ summary' = Head(channel[s]).accepted
  /\ error' = "none"
  /\ UNCHANGED <<cancels, receivedItems, warningCount>>

handleEvent(s) ==
  \/ HandleStale(s)
  \/ HandleLate(s)
  \/ HandleStarted(s)
  \/ HandleBatch(s)
  \/ HandleWarning(s)
  \/ HandleTerminal(s)

-----------------------------------------------------------------------------
(* #failIfCurrent past its guard                                           *)
fail(code) ==
  /\ status' = "failed"
  /\ error' = code
  /\ UNCHANGED <<receivedItems, warningCount, summary>>

(* Faulty: the error of start_scan is dropped.                             *)
BugErrorSwallowed(s) ==
  /\ response[s] # "none"
  /\ response' = [response EXCEPT ![s] = "none"]
  /\ IF current = s /\ ~isTerminal(status) /\ response[s] = "ok"
       THEN fail("protocol-error")
       ELSE UNCHANGED stateVars
  /\ UNCHANGED <<backendVars, channel, cancels, current, replies>>

(* #runScan after its await: an error fails the session, and so does an    *)
(* answer before the terminal event.                                       *)
scanSettles(s) ==
  /\ response[s] # "none"
  /\ response' = [response EXCEPT ![s] = "none"]
  /\ IF current = s /\ ~isTerminal(status)
       THEN fail(IF response[s] = "ok" THEN "protocol-error" ELSE response[s])
       ELSE UNCHANGED stateVars
  /\ UNCHANGED <<backendVars, channel, cancels, current, replies>>

-----------------------------------------------------------------------------
controllerVars == <<current, stateVars, replies>>

Backend(s) == StartScanStep(s) /\ UNCHANGED controllerVars

Next ==
  \/ openSource
  \/ cancelCurrent
  \/ \E c \in cancels : CancelRuns(c)
  \/ \E reply \in replies : CancelReply(reply)
  \/ \E s \in Session : handleEvent(s)
  \/ \E s \in Session : scanSettles(s)
  \/ \E s \in Session : Backend(s)

(* Every command runs, every walk goes on, and every message arrives.      *)
Fairness ==
  \A s \in Session :
    /\ WF_vars(Backend(s))
    /\ WF_vars(handleEvent(s))
    /\ WF_vars(scanSettles(s))

Safe == Init /\ [][Next]_vars
Spec == Safe /\ Fairness

-----------------------------------------------------------------------------
(* A session reported finished or cancelled has received every item the    *)
(* scan accepted, and no other session's: the last batch is flushed and    *)
(* overtaken by nothing, and late events of older scans add nothing.       *)
CompleteAtTerminal ==
  current # NoSession /\ status \in {"finished", "cancelled"} =>
    receivedItems = summary

(* A scan that walks for a session no longer current has been told to      *)
(* stop, will be, or has its announcement on the way, which makes the      *)
(* controller tell it again: also when the first cancel_scan came before   *)
(* start_scan had registered the session and was refused.                  *)
SupersededScanStops ==
  \A s \in Session : s # current /\ command[s] = "walking" =>
    \/ flag[s]
    \/ \E c \in cancels : c.session = s
    \/ \E i \in 1 .. Len(channel[s]) : channel[s][i].event = "started"

(* Every scan of the current session comes to an end on the screen.        *)
CurrentScanEnds ==
  \A s \in Session :
    (current = s /\ isActive(status)) ~> (current # s \/ isTerminal(status))

(* The scan of a session is not broken by the start of an older one: the   *)
(* new session remains usable while old work converges.                    *)
NewSessionUndisturbed ==
  current # NoSession => error # "internal"
=============================================================================
