-------------------- MODULE MediaSessionController_proofs --------------------
(***************************************************************************)
(* Proofs about MediaSessionController over ScanBackend: for every number  *)
(* of sessions, every length of a walk and every size of a batch, no item  *)
(* of a scan is lost on its way, and a superseded scan is told to stop.    *)
(***************************************************************************)
EXTENDS MediaSessionController, SequenceTheorems, FiniteSetTheorems, TLAPS

-----------------------------------------------------------------------------
(* What the events of a channel add up to.                                 *)

ItemsIn    == [e \in Event |-> IF e.event = "batch" THEN e.items ELSE 0]
WarningsIn == [e \in Event |-> IF e.event = "warning" THEN 1 ELSE 0]

(* sums gives the sums over the beginnings of ch, counted from a number;   *)
(* that they grow follows, and is stated because it would need induction.  *)
Sums(sums, ch, weight, from) ==
  /\ sums \in [0 .. Len(ch) -> Nat]
  /\ sums[0] = from
  /\ \A i \in 1 .. Len(ch) : sums[i] = sums[i - 1] + weight[ch[i]]
  /\ \A i, j \in 0 .. Len(ch) : i <= j => sums[i] <= sums[j]

(* The events of ch lead from one number to another.                       *)
AddsUp(ch, weight, from, to) ==
  \E sums \in [0 .. Len(ch) -> Nat] : Sums(sums, ch, weight, from) /\ sums[Len(ch)] = to

LEMMA EventFields ==
  ASSUME NEW e \in Event
  PROVE  /\ e.event \in {"started", "warning", "batch", "finished", "cancelled"}
         /\ e.event = "batch" => e.items \in 1 .. BatchSize
         /\ e.event \in {"finished", "cancelled"} => e.accepted \in Nat
BY DEF Event

LEMMA WeightTypes == ItemsIn \in [Event -> Nat] /\ WarningsIn \in [Event -> Nat]
<1>1. \A e \in Event : e.event = "batch" => e.items \in Nat
  BY EventFields, SessionAssumption
<1> QED
  BY <1>1 DEF ItemsIn, WarningsIn

LEMMA AddsUpEmpty ==
  ASSUME NEW weight, NEW from \in Nat
  PROVE  AddsUp(<<>>, weight, from, from)
<1> DEFINE sums == [i \in 0 .. 0 |-> from]
<1>1. Len(<<>>) = 0
  OBVIOUS
<1>2. sums \in [0 .. 0 -> Nat] /\ sums[0] = from
  OBVIOUS
<1>3. Sums(sums, <<>>, weight, from)
  BY <1>1, <1>2 DEF Sums
<1> QED
  BY <1>1, <1>2, <1>3 DEF AddsUp

LEMMA AddsUpTypes ==
  ASSUME NEW S, NEW ch \in Seq(S), NEW weight, NEW from, NEW to, AddsUp(ch, weight, from, to)
  PROVE  from \in Nat /\ to \in Nat /\ from <= to
<1>1. Len(ch) \in Nat
  BY LenProperties
<1>2. PICK sums \in [0 .. Len(ch) -> Nat] : Sums(sums, ch, weight, from) /\ sums[Len(ch)] = to
  BY DEF AddsUp
<1> QED
  BY <1>1, <1>2 DEF Sums

(* An event at the end.                                                    *)
LEMMA AddsUpAppend ==
  ASSUME NEW S, NEW ch \in Seq(S), NEW e \in S, NEW weight \in [S -> Nat],
         NEW from, NEW to, AddsUp(ch, weight, from, to)
  PROVE  AddsUp(ch \o <<e>>, weight, from, to + weight[e])
<1> DEFINE n == Len(ch)
           longer == ch \o <<e>>
<1>1. n \in Nat /\ to \in Nat /\ from \in Nat /\ from <= to /\ weight[e] \in Nat
  BY LenProperties, AddsUpTypes
<1>2. PICK sums \in [0 .. n -> Nat] : Sums(sums, ch, weight, from) /\ sums[n] = to
  BY DEF AddsUp
<1>3. /\ Len(longer) = n + 1 /\ longer[n + 1] = e
      /\ \A i \in 1 .. n : longer[i] = ch[i]
  OBVIOUS
<1> DEFINE more == [i \in 0 .. n + 1 |-> IF i = n + 1 THEN to + weight[e] ELSE sums[i]]
<1>4. more \in [0 .. n + 1 -> Nat] /\ more[n + 1] = to + weight[e]
  BY <1>1
<1>5. \A i \in 0 .. n : more[i] = sums[i]
  BY <1>1
<1> HIDE DEF longer, n, more
<1>6. more[0] = from
  BY <1>1, <1>2, <1>5 DEF Sums, n
<1>7. ASSUME NEW i \in 1 .. n + 1
      PROVE  more[i] = more[i - 1] + weight[longer[i]]
  <2>1. CASE i = n + 1
    BY <1>1, <1>2, <1>3, <1>4, <1>5, <2>1
  <2>2. CASE i # n + 1
    <3>1. i \in 1 .. n /\ i \in 0 .. n /\ i - 1 \in 0 .. n
      BY <1>1, <2>2
    <3>2. sums[i] = sums[i - 1] + weight[ch[i]]
      BY <1>2, <3>1 DEF Sums, n
    <3> QED
      BY <1>3, <1>5, <3>1, <3>2
  <2> QED
    BY <2>1, <2>2
<1>8. ASSUME NEW i \in 0 .. n + 1, NEW h \in 0 .. n + 1, i <= h
      PROVE  more[i] <= more[h]
  <2>1. CASE i = n + 1
    BY <1>1, <1>4, <1>8, <2>1
  <2>2. CASE i # n + 1 /\ h = n + 1
    <3>1. i \in 0 .. n /\ n \in 0 .. n /\ i <= n
      BY <1>1, <2>2
    <3>2. sums[i] <= to /\ sums[i] \in Nat
      BY <1>2, <3>1 DEF Sums, n
    <3> QED
      BY <1>1, <1>4, <1>5, <2>2, <3>1, <3>2
  <2>3. CASE i # n + 1 /\ h # n + 1
    <3>1. i \in 0 .. n /\ h \in 0 .. n
      BY <1>1, <2>3
    <3> QED
      BY <1>2, <1>5, <1>8, <3>1 DEF Sums, n
  <2> QED
    BY <2>1, <2>2, <2>3
<1>9. Sums(more, longer, weight, from)
  BY <1>3, <1>4, <1>6, <1>7, <1>8 DEF Sums
<1>10. AddsUp(longer, weight, from, to + weight[e])
  BY <1>3, <1>4, <1>9 DEF AddsUp
<1> QED
  BY <1>10 DEF longer

(* The event at the head is handled.                                       *)
LEMMA AddsUpTail ==
  ASSUME NEW S, NEW ch \in Seq(S), ch # <<>>, NEW weight \in [S -> Nat],
         NEW from, NEW to, AddsUp(ch, weight, from, to)
  PROVE  AddsUp(Tail(ch), weight, from + weight[Head(ch)], to)
<1> DEFINE n == Len(ch)
           rest == Tail(ch)
<1>1. n \in Nat /\ n > 0 /\ to \in Nat /\ from \in Nat
  BY LenProperties, EmptySeq, AddsUpTypes
<1>2. PICK sums \in [0 .. n -> Nat] : Sums(sums, ch, weight, from) /\ sums[n] = to
  BY DEF AddsUp
<1>3. /\ Len(rest) = n - 1 /\ Head(ch) = ch[1] /\ Head(ch) \in S
      /\ \A i \in 1 .. n - 1 : rest[i] = ch[i + 1]
  BY HeadTailProperties
<1>4. sums[1] = from + weight[ch[1]] /\ weight[ch[1]] \in Nat
  BY <1>1, <1>2, <1>3 DEF Sums
<1> DEFINE less == [i \in 0 .. n - 1 |-> sums[i + 1]]
<1>5. less \in [0 .. n - 1 -> Nat] /\ less[n - 1] = to /\ less[0] = sums[1]
  BY <1>1, <1>2
<1> HIDE DEF rest, n, less
<1>6. ASSUME NEW i \in 1 .. n - 1
      PROVE  less[i] = less[i - 1] + weight[rest[i]]
  <2>1. sums[i + 1] = sums[i] + weight[ch[i + 1]]
    BY <1>1, <1>2 DEF Sums, n
  <2>2. less[i] = sums[i + 1] /\ less[i - 1] = sums[i]
    BY <1>1 DEF less
  <2> QED
    BY <1>3, <2>1, <2>2
<1>7. ASSUME NEW i \in 0 .. n - 1, NEW h \in 0 .. n - 1, i <= h
      PROVE  less[i] <= less[h]
  <2>1. sums[i + 1] <= sums[h + 1]
    BY <1>1, <1>2, <1>7 DEF Sums, n
  <2> QED
    BY <2>1 DEF less
<1>8. Sums(less, rest, weight, from + weight[Head(ch)])
  BY <1>3, <1>4, <1>5, <1>6, <1>7 DEF Sums
<1>9. AddsUp(rest, weight, from + weight[Head(ch)], to)
  BY <1>3, <1>5, <1>8 DEF AddsUp
<1> QED
  BY <1>9 DEF rest

LEMMA AddsUpNothing ==
  ASSUME NEW weight, NEW from, NEW to, AddsUp(<<>>, weight, from, to)
  PROVE  from = to
BY DEF AddsUp, Sums

-----------------------------------------------------------------------------
(* The inductive invariant.  CompleteAtTerminal rests on the accounts of   *)
(* the current scan (Ledger) and on its terminal event being the last of   *)
(* its channel (EndsLast); SupersededScanStops on the session being active *)
(* on the screen while its start_scan is at work (ShownActive).            *)

BeforeWalk == {"none", "invoked", "registered", "begun"}
Registered == {"registered", "begun", "walking"}
AtWork     == {"invoked", "registered", "begun", "walking"}
Terminal   == {"finished", "cancelled"}

(* How far start_scan of a session is, and what there is by then.          *)
Stages ==
  \A s \in Session :
    /\ s > current => command[s] = "none"
    /\ command[s] \in BeforeWalk =>
         channel[s] = <<>> /\ walked[s] = 0 /\ batch[s] = 0 /\ accepted[s] = 0
    /\ response[s] # "none" => command[s] = "answered"
    /\ command[s] \in Registered => s \in sessions

EndsLast ==
  \A s \in Session : \A i \in 1 .. Len(channel[s]) :
    channel[s][i].event \in Terminal =>
      i = Len(channel[s]) /\ command[s] \in {"returned", "answered"}

ShownActive ==
  current # NoSession /\ command[current] \in AtWork => isActive(status)

(* While the current session is active: what it has received, with what is *)
(* in its channel and in the batch, is what the walk took; a terminal      *)
(* event tells the sum.                                                    *)
Accounts(s, items, warnings) ==
  /\ AddsUp(channel[s], ItemsIn, receivedItems, items)
  /\ AddsUp(channel[s], WarningsIn, warningCount, warnings)
  /\ items + warnings <= MaxEntries[s]
  /\ command[s] \in AtWork =>
       items + batch[s] = accepted[s] /\ accepted[s] + warnings = walked[s]
  /\ \A i \in 1 .. Len(channel[s]) :
       channel[s][i].event \in Terminal => channel[s][i].accepted = items

Ledger ==
  current # NoSession /\ isActive(status) =>
    \E items, warnings \in Nat : Accounts(current, items, warnings)

WireInv == Stages /\ EndsLast
IInv == TypeOK /\ WireInv /\ ShownActive /\ Ledger /\ CompleteAtTerminal /\ SupersededScanStops

-----------------------------------------------------------------------------
(* Frames: what a handler need not touch to keep a part.                   *)

LEMMA ConstantTypes ==
  /\ MaxSessions \in Nat /\ MaxEntries \in [Session -> Nat] /\ BatchSize \in Nat /\ BatchSize > 0
  /\ \A s \in Session : s \in Nat /\ s > 0 /\ s # NoSession
BY SessionAssumption DEF Session, NoSession

LEMMA InitIInv == Init => IInv
<1> SUFFICES ASSUME Init PROVE IInv
  OBVIOUS
<1>1. TypeOK
  BY ConstantTypes DEF Init, BackendInit, TypeOK, BackendTypeOK, isActive, isTerminal
<1>2. WireInv
  BY ConstantTypes DEF Init, BackendInit, WireInv, Stages, EndsLast, NoSession, Registered
<1>3. ShownActive /\ Ledger /\ CompleteAtTerminal /\ SupersededScanStops
  BY DEF Init, BackendInit, ShownActive, Ledger, CompleteAtTerminal, SupersededScanStops
<1> QED
  BY <1>1, <1>2, <1>3 DEF IInv

(* A step that leaves the channel and the walk of the current session.     *)
LEMMA LedgerFrame ==
  ASSUME Ledger, current' = current,
         receivedItems' = receivedItems, warningCount' = warningCount,
         isActive(status') => isActive(status),
         channel'[current] = channel[current],
         command'[current] \in AtWork =>
           /\ command[current] \in AtWork
           /\ batch'[current] = batch[current] /\ accepted'[current] = accepted[current]
           /\ walked'[current] = walked[current]
  PROVE  Ledger'
<1> SUFFICES ASSUME current # NoSession, isActive(status')
             PROVE  (\E items, warnings \in Nat : Accounts(current, items, warnings))'
  BY DEF Ledger
<1>1. PICK items \in Nat, warnings \in Nat : Accounts(current, items, warnings)
  BY DEF Ledger
<1>2. Accounts(current, items, warnings)'
  BY <1>1 DEF Accounts
<1> QED
  BY <1>2

(* The task of a session sends events after those under way.               *)
LEMMA Emitting ==
  ASSUME NEW ch \in Seq(Event), NEW events \in Seq(Event)
  PROVE  /\ ch \o events \in Seq(Event)
         /\ Len(ch) \in Nat /\ Len(events) \in Nat /\ Len(ch \o events) = Len(ch) + Len(events)
         /\ \A i \in 1 .. Len(ch) : (ch \o events)[i] = ch[i]
         /\ \A i \in 1 .. Len(events) : (ch \o events)[Len(ch) + i] = events[i]
         /\ \A i \in 1 .. Len(ch \o events) :
               \/ i \in 1 .. Len(ch)
               \/ i - Len(ch) \in 1 .. Len(events) /\ (ch \o events)[i] = events[i - Len(ch)]
  OBVIOUS

(* Handling the next event of a channel.                                   *)
LEMMA Handling ==
  ASSUME NEW ch \in Seq(Event), ch # <<>>
  PROVE  /\ Tail(ch) \in Seq(Event) /\ Head(ch) \in Event /\ Head(ch) = ch[1]
         /\ Len(ch) \in Nat /\ Len(ch) > 0 /\ Len(Tail(ch)) = Len(ch) - 1
         /\ \A i \in 1 .. Len(Tail(ch)) : Tail(ch)[i] = ch[i + 1]
BY HeadTailProperties, EmptySeq, LenProperties

-----------------------------------------------------------------------------
(* The commands that do not touch a channel.                               *)

LEMMA OpenSourceStep ==
  ASSUME IInv, openSource
  PROVE  IInv'
<1> DEFINE s == current + 1
<1>1. /\ s \in Session
      /\ cancels' = IF current # NoSession /\ isActive(status)
                      THEN cancels \cup {[session |-> current, caller |-> "controller"]}
                      ELSE cancels
      /\ current' = s /\ status' = "starting"
      /\ receivedItems' = 0 /\ warningCount' = 0
      /\ summary' = NoSummary /\ error' = "none"
      /\ command' = [command EXCEPT ![s] = "invoked"]
      /\ UNCHANGED <<sessions, flag, resourceSession, walkVars, result, channel,
                     response, replies>>
  BY DEF openSource
<1>2. TypeOK /\ current \in Nat
  BY ConstantTypes DEF IInv, TypeOK, NoSession
<1>3. /\ command[s] = "none" /\ channel[s] = <<>> /\ response[s] = "none"
      /\ walked[s] = 0 /\ batch[s] = 0 /\ accepted[s] = 0
  BY <1>1, <1>2, ConstantTypes DEF IInv, WireInv, Stages, BeforeWalk
<1>4. MaxEntries[s] \in Nat
  BY <1>1, ConstantTypes
<1>5. TypeOK'
  <2>1. BackendTypeOK'
    <3>1. BackendTypeOK
      BY <1>2 DEF TypeOK
    <3>2. command' \in [Session -> {"none", "invoked", "registered", "begun",
                                    "walking", "returned", "answered"}]
      BY <1>1, <3>1 DEF BackendTypeOK
    <3>3. CASE current # NoSession /\ isActive(status)
      <4>1. [session |-> current, caller |-> "controller"] \in [session : Session, caller : Caller]
        BY <1>2, <3>3 DEF TypeOK, Caller
      <4>2. cancels' \subseteq [session : Session, caller : Caller]
        BY <1>1, <3>1, <3>3, <4>1 DEF BackendTypeOK
      <4> QED
        BY <1>1, <3>1, <3>2, <4>2 DEF BackendTypeOK, walkVars
    <3>4. CASE ~(current # NoSession /\ isActive(status))
      BY <1>1, <3>1, <3>2, <3>4 DEF BackendTypeOK, walkVars
    <3> QED
      BY <3>3, <3>4
  <2> QED
    BY <1>1, <1>2, <1>4, <2>1 DEF TypeOK, isActive
<1>6. WireInv'
  <2>1. \A t \in Session : command'[t] = IF t = s THEN "invoked" ELSE command[t]
    BY <1>1, <1>2 DEF TypeOK, BackendTypeOK
  <2>2. ASSUME NEW t \in Session
        PROVE  /\ t > s => command'[t] = "none"
               /\ command'[t] \in BeforeWalk =>
                    channel[t] = <<>> /\ walked[t] = 0 /\ batch[t] = 0 /\ accepted[t] = 0
               /\ response[t] # "none" => command'[t] = "answered"
               /\ command'[t] \in Registered => t \in sessions
    <3>1. CASE t = s
      BY <1>2, <1>3, <2>1, <3>1 DEF Registered
    <3>2. CASE t # s
      BY <1>2, <2>1, <3>2, ConstantTypes DEF IInv, WireInv, Stages
    <3> QED
      BY <3>1, <3>2
  <2>3. Stages'
    BY <1>1, <2>2 DEF Stages, walkVars
  <2>4. ASSUME NEW t \in Session, NEW i \in 1 .. Len(channel[t]),
               channel[t][i].event \in Terminal
        PROVE  i = Len(channel[t]) /\ command'[t] \in {"returned", "answered"}
    <3>1. CASE t = s
      BY <1>3, <2>4, <3>1
    <3>2. CASE t # s
      BY <2>1, <2>4, <3>2 DEF IInv, WireInv, EndsLast
    <3> QED
      BY <3>1, <3>2
  <2>5. EndsLast'
    BY <1>1, <2>4 DEF EndsLast
  <2> QED
    BY <2>3, <2>5 DEF WireInv
<1>7. ShownActive' /\ CompleteAtTerminal'
  BY <1>1 DEF ShownActive, CompleteAtTerminal, isActive
<1>8. Ledger'
  <2>1. AddsUp(<<>>, ItemsIn, 0, 0) /\ AddsUp(<<>>, WarningsIn, 0, 0)
    BY AddsUpEmpty
  <2>2. Accounts(current, 0, 0)'
    BY <1>1, <1>3, <1>4, <2>1 DEF Accounts, walkVars
  <2> QED
    BY <2>2 DEF Ledger
<1>9. SupersededScanStops'
  <2> SUFFICES ASSUME NEW t \in Session, t # current', command'[t] = "walking"
               PROVE  \/ flag'[t]
                      \/ \E c \in cancels' : c.session = t
                      \/ \E i \in 1 .. Len(channel'[t]) : channel'[t][i].event = "started"
    BY DEF SupersededScanStops
  <2>1. t # s /\ command[t] = "walking"
    BY <1>1, <1>2 DEF TypeOK, BackendTypeOK
  <2>2. CASE t = current
    <3>1. isActive(status) /\ current # NoSession
      BY <2>1, <2>2, ConstantTypes DEF IInv, ShownActive, AtWork
    <3>2. [session |-> current, caller |-> "controller"] \in cancels'
      BY <1>1, <3>1
    <3> QED
      BY <2>2, <3>2
  <2>3. CASE t # current
    BY <1>1, <2>1, <2>3 DEF IInv, SupersededScanStops
  <2> QED
    BY <2>2, <2>3
<1> QED
  BY <1>5, <1>6, <1>7, <1>8, <1>9 DEF IInv

LEMMA CancelCurrentStep ==
  ASSUME IInv, cancelCurrent
  PROVE  IInv'
<1>1. /\ current # NoSession
      /\ cancels' = cancels \cup {[session |-> current, caller |-> "user"]}
      /\ UNCHANGED <<backendVars, channel, response, current, stateVars, replies>>
  BY DEF cancelCurrent
<1> USE <1>1 DEF backendVars, walkVars, stateVars
<1>2. TypeOK'
  BY DEF IInv, TypeOK, BackendTypeOK, Caller
<1>3. WireInv' /\ ShownActive' /\ CompleteAtTerminal'
  BY DEF IInv, WireInv, Stages, EndsLast, ShownActive, CompleteAtTerminal
<1>4. Ledger'
  BY LedgerFrame DEF IInv
<1>5. SupersededScanStops'
  BY DEF IInv, SupersededScanStops
<1> QED
  BY <1>2, <1>3, <1>4, <1>5 DEF IInv

LEMMA CancelRunsStep ==
  ASSUME IInv, NEW c \in cancels, CancelRuns(c)
  PROVE  IInv'
<1>1. /\ cancels' = cancels \ {c}
      /\ flag' = IF c.session \in sessions THEN [flag EXCEPT ![c.session] = TRUE] ELSE flag
      /\ UNCHANGED <<command, sessions, resourceSession, walkVars, result, channel, response>>
      /\ UNCHANGED <<current, stateVars>>
      /\ replies' = IF c.caller = "user"
                      THEN replies \cup {[session |-> c.session, accepted |-> c.session \in sessions]}
                      ELSE replies
  BY DEF CancelRuns, ExecuteCancel
<1>2. TypeOK /\ c.session \in Session
  BY DEF IInv, TypeOK, BackendTypeOK
<1> USE <1>1 DEF walkVars, stateVars
<1>3. TypeOK'
  <2>1. BackendTypeOK'
    BY <1>2 DEF TypeOK, BackendTypeOK
  <2>2. replies' \subseteq [session : Session, accepted : BOOLEAN]
    <3>1. (c.session \in sessions) \in BOOLEAN
      OBVIOUS
    <3>2. \A b \in BOOLEAN : [session |-> c.session, accepted |-> b] \in
                                [session : Session, accepted : BOOLEAN]
      BY <1>2
    <3>3. [session |-> c.session, accepted |-> c.session \in sessions] \in
            [session : Session, accepted : BOOLEAN]
      BY <3>1, <3>2, Zenon
    <3> QED
      BY <1>2, <3>3 DEF TypeOK
  <2> QED
    BY <1>2, <2>1, <2>2 DEF TypeOK
<1>4. WireInv' /\ ShownActive' /\ CompleteAtTerminal'
  BY DEF IInv, WireInv, Stages, EndsLast, ShownActive, CompleteAtTerminal
<1>5. Ledger'
  BY LedgerFrame DEF IInv
<1>6. SupersededScanStops'
  <2> SUFFICES ASSUME NEW t \in Session, t # current, command[t] = "walking"
               PROVE  \/ flag'[t]
                      \/ \E d \in cancels' : d.session = t
                      \/ \E i \in 1 .. Len(channel'[t]) : channel'[t][i].event = "started"
    BY DEF SupersededScanStops
  <2>1. t \in sessions
    BY DEF IInv, WireInv, Stages, Registered
  <2>2. CASE c.session = t
    BY <1>2, <2>1, <2>2 DEF TypeOK, BackendTypeOK
  <2>3. CASE c.session # t
    BY <1>2, <2>3 DEF TypeOK, BackendTypeOK, IInv, SupersededScanStops
  <2> QED
    BY <2>2, <2>3
<1> QED
  BY <1>3, <1>4, <1>5, <1>6 DEF IInv

LEMMA CancelReplyStep ==
  ASSUME IInv, NEW reply \in replies, CancelReply(reply)
  PROVE  IInv'
<1>1. /\ replies' = replies \ {reply}
      /\ status' = IF reply.accepted /\ current = reply.session /\ isActive(status)
                     THEN "cancelling" ELSE status
      /\ UNCHANGED <<backendVars, wireVars, current, receivedItems, warningCount, summary, error>>
  BY DEF CancelReply
<1> USE <1>1 DEF backendVars, wireVars, walkVars
<1>2. TypeOK'
  BY DEF IInv, TypeOK, BackendTypeOK, isActive, isTerminal
<1>3. isActive(status') <=> isActive(status)
  BY DEF isActive
<1>4. WireInv' /\ ShownActive'
  BY <1>3 DEF IInv, WireInv, Stages, EndsLast, ShownActive
<1>5. CompleteAtTerminal'
  BY DEF IInv, CompleteAtTerminal
<1>6. Ledger'
  BY <1>3, LedgerFrame DEF IInv
<1>7. SupersededScanStops'
  BY DEF IInv, SupersededScanStops
<1> QED
  BY <1>2, <1>4, <1>5, <1>6, <1>7 DEF IInv

LEMMA ScanSettlesStep ==
  ASSUME IInv, NEW s \in Session, scanSettles(s)
  PROVE  IInv'
<1>1. /\ response[s] # "none" /\ response' = [response EXCEPT ![s] = "none"]
      /\ UNCHANGED <<backendVars, channel, cancels, current, replies>>
      /\ \/ /\ current = s /\ ~isTerminal(status) /\ status' = "failed"
            /\ error' = (IF response[s] = "ok" THEN "protocol-error" ELSE response[s])
            /\ UNCHANGED <<receivedItems, warningCount, summary>>
         \/ UNCHANGED stateVars
  BY DEF scanSettles, fail
<1> USE <1>1 DEF backendVars, walkVars, stateVars
<1>2. TypeOK'
  <2>1. TypeOK
    BY DEF IInv
  <2>2. error' \in ErrorCode \cup {"none", "protocol-error"}
    BY <2>1 DEF TypeOK, BackendTypeOK
  <2>3. isActive(status') \/ isTerminal(status')
    BY <2>1 DEF TypeOK, isTerminal
  <2>4. BackendTypeOK'
    BY <2>1 DEF TypeOK, BackendTypeOK
  <2> QED
    BY <2>1, <2>2, <2>3, <2>4 DEF TypeOK
<1>3. command[s] = "answered"
  BY DEF IInv, WireInv, Stages
<1>4. WireInv'
  BY DEF IInv, TypeOK, BackendTypeOK, WireInv, Stages, EndsLast
<1>5. ShownActive'
  BY <1>3 DEF IInv, ShownActive, AtWork
<1>6. CompleteAtTerminal'
  BY DEF IInv, CompleteAtTerminal
<1>7. isActive(status') => isActive(status)
  BY DEF isActive
<1>8. Ledger'
  BY <1>7, LedgerFrame DEF IInv
<1>9. SupersededScanStops'
  BY DEF IInv, SupersededScanStops
<1> QED
  BY <1>2, <1>4, <1>5, <1>6, <1>8, <1>9 DEF IInv

-----------------------------------------------------------------------------
(* #handleEvent: the next event of the channel of s.                       *)

LEMMA HandlesWire ==
  ASSUME IInv, NEW s \in Session, Handles(s),
         cancels' \in SUBSET [session : Session, caller : Caller]
  PROVE  BackendTypeOK' /\ WireInv'
<1>1. /\ channel[s] # <<>> /\ channel' = [channel EXCEPT ![s] = Tail(channel[s])]
      /\ UNCHANGED <<backendVars, response, current, replies>>
  BY DEF Handles
<1>2. BackendTypeOK /\ channel \in [Session -> Seq(Event)]
  BY DEF IInv, TypeOK, BackendTypeOK
<1>3. /\ Tail(channel[s]) \in Seq(Event)
      /\ Len(channel[s]) \in Nat /\ Len(channel[s]) > 0
      /\ Len(Tail(channel[s])) = Len(channel[s]) - 1
      /\ \A i \in 1 .. Len(Tail(channel[s])) : Tail(channel[s])[i] = channel[s][i + 1]
  BY <1>1, <1>2, Handling
<1>4. channel' \in [Session -> Seq(Event)]
  BY <1>1, <1>2, <1>3
<1>5. BackendTypeOK'
  BY <1>1, <1>2, <1>4 DEF BackendTypeOK, backendVars, walkVars
<1>6. \A t \in Session : t # s => channel'[t] = channel[t]
  BY <1>1, <1>2
<1>7. channel'[s] = Tail(channel[s])
  BY <1>1, <1>2
<1>8. command[s] \notin BeforeWalk
  BY <1>1 DEF IInv, WireInv, Stages
<1>9. Stages'
  BY <1>1, <1>6, <1>8 DEF IInv, WireInv, Stages, backendVars, walkVars
<1>10. ASSUME NEW t \in Session, NEW i \in 1 .. Len(channel'[t]),
              channel'[t][i].event \in Terminal
       PROVE  i = Len(channel'[t]) /\ command[t] \in {"returned", "answered"}
  <2>1. CASE t = s
    <3>1. channel'[t] = Tail(channel[s])
      BY <1>7, <2>1
    <3>2. i \in 1 .. Len(Tail(channel[s])) /\ i \in Nat
      BY <1>3, <3>1
    <3>3. i + 1 \in 1 .. Len(channel[s])
      BY <1>3, <3>2
    <3>4. channel[s][i + 1].event \in Terminal
      BY <1>3, <1>10, <3>1, <3>2
    <3>5. i + 1 = Len(channel[s]) /\ command[s] \in {"returned", "answered"}
      BY <3>3, <3>4 DEF IInv, WireInv, EndsLast
    <3>6. i = Len(channel'[t])
      BY <1>3, <3>1, <3>2, <3>5
    <3> QED
      BY <2>1, <3>5, <3>6
  <2>2. CASE t # s
    BY <1>6, <1>10, <2>2 DEF IInv, WireInv, EndsLast
  <2> QED
    BY <2>1, <2>2
<1>11. EndsLast'
  BY <1>1, <1>10 DEF EndsLast, backendVars
<1> QED
  BY <1>5, <1>9, <1>11 DEF WireInv

(* The event is counted: the accounts of the current session still add up, *)
(* with fewer events to come.                                              *)
LEMMA HandlesLedger ==
  ASSUME IInv, NEW s \in Session, Handles(s), current = s, isActive(status),
         receivedItems' = receivedItems + ItemsIn[Head(channel[s])],
         warningCount' = warningCount + WarningsIn[Head(channel[s])]
  PROVE  /\ Ledger'
         /\ receivedItems' \in Nat /\ warningCount' \in Nat
         /\ receivedItems' + warningCount' <= MaxEntries[s]
<1>1. /\ channel[s] # <<>> /\ channel' = [channel EXCEPT ![s] = Tail(channel[s])]
      /\ UNCHANGED <<backendVars, response, current, replies>>
  BY DEF Handles
<1>2. channel \in [Session -> Seq(Event)] /\ channel'[s] = Tail(channel[s])
  BY <1>1 DEF IInv, TypeOK, BackendTypeOK
<1>3. /\ channel[s] \in Seq(Event) /\ Tail(channel[s]) \in Seq(Event)
      /\ Len(channel[s]) \in Nat /\ Len(channel[s]) > 0
      /\ Len(Tail(channel[s])) = Len(channel[s]) - 1
      /\ \A i \in 1 .. Len(Tail(channel[s])) : Tail(channel[s])[i] = channel[s][i + 1]
  BY <1>1, <1>2, Handling
<1>4. current # NoSession /\ MaxEntries[s] \in Nat
  BY ConstantTypes
<1>5. PICK items \in Nat, warnings \in Nat : Accounts(s, items, warnings)
  BY <1>4 DEF IInv, Ledger
<1>6. AddsUp(channel'[s], ItemsIn, receivedItems', items)
  BY <1>1, <1>2, <1>3, <1>5, WeightTypes, AddsUpTail DEF Accounts
<1>7. AddsUp(channel'[s], WarningsIn, warningCount', warnings)
  BY <1>1, <1>2, <1>3, <1>5, WeightTypes, AddsUpTail DEF Accounts
<1>8. /\ receivedItems' \in Nat /\ receivedItems' <= items
      /\ warningCount' \in Nat /\ warningCount' <= warnings
  BY <1>2, <1>3, <1>6, <1>7, AddsUpTypes
<1>9. items + warnings <= MaxEntries[s]
  BY <1>5 DEF Accounts
<1>10. ASSUME NEW i \in 1 .. Len(channel'[s]), channel'[s][i].event \in Terminal
       PROVE  channel'[s][i].accepted = items
  <2>1. i + 1 \in 1 .. Len(channel[s]) /\ channel'[s][i] = channel[s][i + 1]
    BY <1>2, <1>3
  <2> QED
    BY <1>5, <1>10, <2>1 DEF Accounts
<1>11. /\ command[s] \in AtWork =>
            items + batch[s] = accepted[s] /\ accepted[s] + warnings = walked[s]
       /\ command' = command /\ batch' = batch /\ accepted' = accepted /\ walked' = walked
  BY <1>1, <1>5 DEF Accounts, backendVars, walkVars
<1>12. current' = s
  BY <1>1
<1>13. Accounts(current, items, warnings)'
  BY <1>6, <1>7, <1>9, <1>10, <1>11, <1>12 DEF Accounts
<1>14. Ledger'
  BY <1>13 DEF Ledger
<1> QED
  BY <1>4, <1>8, <1>9, <1>14

(* A scan is not announced to the current session but to its own.          *)
LEMMA HandlesSuperseded ==
  ASSUME IInv, NEW s \in Session, Handles(s), cancels \subseteq cancels',
         s # current /\ Head(channel[s]).event = "started" => \E c \in cancels' : c.session = s
  PROVE  SupersededScanStops'
<1>1. /\ channel[s] # <<>> /\ channel' = [channel EXCEPT ![s] = Tail(channel[s])]
      /\ UNCHANGED <<command, flag, current>>
  BY DEF Handles, backendVars
<1>2. channel \in [Session -> Seq(Event)]
  BY DEF IInv, TypeOK, BackendTypeOK
<1>3. /\ Head(channel[s]) = channel[s][1]
      /\ Len(channel[s]) \in Nat /\ Len(channel[s]) > 0
      /\ Len(Tail(channel[s])) = Len(channel[s]) - 1
      /\ \A i \in 1 .. Len(Tail(channel[s])) : Tail(channel[s])[i] = channel[s][i + 1]
  BY <1>1, <1>2, Handling
<1>4. channel'[s] = Tail(channel[s]) /\ \A t \in Session : t # s => channel'[t] = channel[t]
  BY <1>1, <1>2
<1> SUFFICES ASSUME NEW t \in Session, t # current, command[t] = "walking"
             PROVE  \/ flag[t]
                    \/ \E c \in cancels' : c.session = t
                    \/ \E i \in 1 .. Len(channel'[t]) : channel'[t][i].event = "started"
  BY <1>1 DEF SupersededScanStops
<1>5. \/ flag[t]
      \/ \E c \in cancels : c.session = t
      \/ \E i \in 1 .. Len(channel[t]) : channel[t][i].event = "started"
  BY DEF IInv, SupersededScanStops
<1>6. CASE t = s
  <2>1. ASSUME NEW i \in 1 .. Len(channel[s]), channel[s][i].event = "started", i # 1
        PROVE  \E h \in 1 .. Len(channel'[s]) : channel'[s][h].event = "started"
    <3>1. i - 1 \in 1 .. Len(Tail(channel[s])) /\ (i - 1) + 1 = i
      BY <1>3, <2>1
    <3>2. channel'[s][i - 1] = channel[s][i]
      BY <1>3, <1>4, <3>1
    <3> QED
      BY <1>4, <2>1, <3>1, <3>2
  <2> QED
    BY <1>3, <1>5, <1>6, <2>1
<1>7. CASE t # s
  BY <1>4, <1>5, <1>7
<1> QED
  BY <1>6, <1>7

LEMMA HandleEventStep ==
  ASSUME IInv, NEW s \in Session, handleEvent(s)
  PROVE  IInv'
<1>1. /\ Handles(s)
      /\ channel[s] # <<>> /\ channel' = [channel EXCEPT ![s] = Tail(channel[s])]
      /\ UNCHANGED <<backendVars, response, current, replies>>
  BY DEF handleEvent, HandleStale, HandleLate, HandleStarted, HandleBatch, HandleWarning,
         HandleTerminal, Handles
<1>2. TypeOK /\ channel \in [Session -> Seq(Event)]
  BY DEF IInv, TypeOK, BackendTypeOK
<1>3. /\ Head(channel[s]) \in Event /\ Head(channel[s]) = channel[s][1]
      /\ Len(channel[s]) \in Nat /\ Len(channel[s]) > 0
      /\ Len(Tail(channel[s])) = Len(channel[s]) - 1
  BY <1>1, <1>2, Handling
<1> DEFINE e == Head(channel[s])
<1>4. /\ e.event \in {"started", "warning", "batch", "finished", "cancelled"}
      /\ ItemsIn[e] = (IF e.event = "batch" THEN e.items ELSE 0)
      /\ WarningsIn[e] = (IF e.event = "warning" THEN 1 ELSE 0)
  BY <1>3, EventFields DEF ItemsIn, WarningsIn
<1>5. receivedItems \in Nat /\ warningCount \in Nat /\ (e.event \in Terminal => e.accepted \in Nat)
  BY <1>2, <1>3, EventFields DEF TypeOK, Terminal
<1>6. channel'[s] = Tail(channel[s]) /\ \A t \in Session : t # s => channel'[t] = channel[t]
  BY <1>1, <1>2
<1> HIDE DEF e
<1>7. cancels' \in SUBSET [session : Session, caller : Caller]
      /\ cancels \subseteq cancels'
      /\ (s # current /\ e.event = "started" => \E c \in cancels' : c.session = s)
  <2>1. cancels \in SUBSET [session : Session, caller : Caller]
    BY <1>2 DEF TypeOK, BackendTypeOK
  <2>2. CASE HandleStale(s)
    <3>1. [session |-> s, caller |-> "controller"] \in [session : Session, caller : Caller]
      BY DEF Caller
    <3>2. CASE e.event = "started"
      <4>1. cancels' = cancels \cup {[session |-> s, caller |-> "controller"]}
        BY <2>2, <3>2 DEF HandleStale, e
      <4>2. \E c \in cancels' : c.session = s
        <5>1. [session |-> s, caller |-> "controller"] \in cancels'
          BY <4>1
        <5> WITNESS [session |-> s, caller |-> "controller"] \in cancels'
        <5> QED
          OBVIOUS
      <4> QED
        BY <2>1, <3>1, <4>1, <4>2
    <3>3. CASE e.event # "started"
      BY <2>1, <2>2, <3>3 DEF HandleStale, e
    <3> QED
      BY <3>2, <3>3
  <2>3. CASE cancels' = cancels /\ current = s
    BY <2>1, <2>3
  <2> QED
    BY <2>2, <2>3
       DEF handleEvent, HandleLate, HandleStarted, HandleBatch, HandleWarning, HandleTerminal
<1>8. BackendTypeOK' /\ WireInv'
  BY <1>1, <1>7, HandlesWire
<1>9. SupersededScanStops'
  BY <1>1, <1>7, HandlesSuperseded DEF e
<1> USE <1>1 DEF backendVars, walkVars
<1>10. CASE UNCHANGED stateVars /\ (current = s => isTerminal(status))
  <2> USE <1>10 DEF stateVars
  <2>1. TypeOK'
    BY <1>2, <1>8 DEF TypeOK
  <2>2. ShownActive' /\ CompleteAtTerminal'
    BY DEF IInv, ShownActive, CompleteAtTerminal
  <2>3. Ledger'
    <3>1. CASE current = NoSession \/ ~isActive(status)
      BY <3>1 DEF Ledger
    <3>2. CASE current # NoSession /\ isActive(status)
      <4>1. current \in Session /\ current # s
        BY <1>2, <1>10, <3>2 DEF TypeOK, isActive, isTerminal
      <4>2. channel'[current] = channel[current]
        BY <1>6, <4>1
      <4> QED
        BY <4>2, LedgerFrame DEF IInv
    <3> QED
      BY <3>1, <3>2
  <2> QED
    BY <1>8, <1>9, <2>1, <2>2, <2>3 DEF IInv
<1>11. CASE HandleStarted(s) \/ HandleBatch(s) \/ HandleWarning(s)
  <2>1. /\ current = s /\ isActive(status) /\ isActive(status')
        /\ UNCHANGED <<summary, error>>
        /\ receivedItems' = receivedItems + ItemsIn[e]
        /\ warningCount' = warningCount + WarningsIn[e]
    BY <1>4, <1>5, <1>11 DEF HandleStarted, HandleBatch, HandleWarning, e, isActive
  <2>2. /\ Ledger' /\ receivedItems' \in Nat /\ warningCount' \in Nat
        /\ receivedItems' + warningCount' <= MaxEntries[s]
    BY <2>1, HandlesLedger DEF e
  <2>3. TypeOK'
    BY <1>2, <1>8, <2>1, <2>2 DEF TypeOK
  <2>4. ShownActive' /\ CompleteAtTerminal'
    BY <2>1 DEF ShownActive, CompleteAtTerminal, isActive
  <2> QED
    BY <1>8, <1>9, <2>2, <2>3, <2>4 DEF IInv
<1>12. CASE HandleTerminal(s)
  <2>1. /\ current = s /\ isActive(status) /\ e.event \in Terminal
        /\ status' = e.event /\ summary' = e.accepted /\ error' = "none"
        /\ UNCHANGED <<cancels, receivedItems, warningCount>>
    BY <1>12 DEF HandleTerminal, e, Terminal
  <2>2. current # NoSession
    BY <2>1, ConstantTypes
  <2>3. PICK items \in Nat, warnings \in Nat : Accounts(s, items, warnings)
    BY <2>1, <2>2 DEF IInv, Ledger
  <2>4. 1 \in 1 .. Len(channel[s]) /\ channel[s][1].event \in Terminal
    BY <1>3, <2>1 DEF e
  <2>5. 1 = Len(channel[s]) /\ command[s] \in {"returned", "answered"}
    BY <2>4 DEF IInv, WireInv, EndsLast
  <2>6. e.accepted = items
    BY <1>3, <2>3, <2>4 DEF Accounts, e
  <2>7. Tail(channel[s]) = <<>>
    BY <1>1, <1>2, <1>3, <2>5, Handling, EmptySeq
  <2>8. AddsUp(Tail(channel[s]), ItemsIn, receivedItems + ItemsIn[e], items)
    BY <1>2, <2>3, WeightTypes, AddsUpTail DEF Accounts, e
  <2>9. ItemsIn[e] = 0
    BY <1>4, <2>1 DEF Terminal
  <2>10. receivedItems = items
    <3>1. receivedItems + ItemsIn[e] = receivedItems
      BY <1>5, <2>9
    <3>2. AddsUp(<<>>, ItemsIn, receivedItems, items)
      BY <2>7, <2>8, <3>1
    <3> QED
      BY <3>2, AddsUpNothing
  <2>11. CompleteAtTerminal'
    BY <2>1, <2>6, <2>10 DEF CompleteAtTerminal
  <2>12. TypeOK'
    BY <1>2, <1>5, <1>8, <2>1 DEF TypeOK, isTerminal, Terminal
  <2>13. ShownActive' /\ Ledger'
    BY <2>1, <2>5 DEF ShownActive, Ledger, AtWork, Terminal, isActive
  <2> QED
    BY <1>8, <1>9, <2>11, <2>12, <2>13 DEF IInv
<1> QED
  BY <1>10, <1>11, <1>12 DEF handleEvent, HandleStale, HandleLate

-----------------------------------------------------------------------------
(* start_scan and the scan task of s.                                      *)

(* A step of the command that sends nothing.                               *)
LEMMA SilentStep ==
  ASSUME IInv, NEW s \in Session, BackendTypeOK',
         UNCHANGED controllerVars, UNCHANGED channel, UNCHANGED cancels,
         command[s] # "none", command'[s] # "none",
         \A t \in Session : t # s =>
           /\ command'[t] = command[t] /\ response'[t] = response[t] /\ flag'[t] = flag[t]
           /\ batch'[t] = batch[t] /\ accepted'[t] = accepted[t] /\ walked'[t] = walked[t]
           /\ t \in sessions => t \in sessions',
         command'[s] \in BeforeWalk =>
           /\ command[s] \in BeforeWalk
           /\ walked'[s] = walked[s] /\ batch'[s] = batch[s] /\ accepted'[s] = accepted[s],
         response'[s] # "none" => command'[s] = "answered",
         command'[s] \in Registered => s \in sessions',
         command'[s] = "walking" => command[s] = "walking" /\ flag'[s] = flag[s],
         command[s] \in {"returned", "answered"} => command'[s] \in {"returned", "answered"},
         command'[s] \in AtWork => command[s] \in AtWork,
         s = current => Ledger'
  PROVE  IInv'
<1>1. UNCHANGED <<current, status, receivedItems, warningCount, summary, error, replies>>
  BY DEF controllerVars, stateVars
<1>2. TypeOK'
  BY <1>1 DEF IInv, TypeOK
<1>3. ASSUME NEW t \in Session
      PROVE  /\ t > current => command'[t] = "none"
             /\ command'[t] \in BeforeWalk =>
                  channel[t] = <<>> /\ walked'[t] = 0 /\ batch'[t] = 0 /\ accepted'[t] = 0
             /\ response'[t] # "none" => command'[t] = "answered"
             /\ command'[t] \in Registered => t \in sessions'
  <2>1. CASE t = s
    BY <2>1 DEF IInv, WireInv, Stages
  <2>2. CASE t # s
    BY <2>2 DEF IInv, WireInv, Stages
  <2> QED
    BY <2>1, <2>2
<1>4. Stages'
  BY <1>1, <1>3 DEF Stages
<1>5. EndsLast'
  BY DEF IInv, WireInv, EndsLast
<1>6. ShownActive' /\ CompleteAtTerminal'
  <2>1. current # NoSession => current \in Session
    BY DEF IInv, TypeOK
  <2>2. current # NoSession /\ command'[current] \in AtWork => command[current] \in AtWork
    BY <2>1
  <2> QED
    BY <1>1, <2>2 DEF IInv, ShownActive, CompleteAtTerminal
<1>7. Ledger'
  <2>1. CASE current = NoSession
    BY <1>1, <2>1 DEF Ledger
  <2>2. CASE current # NoSession /\ current # s
    <3>1. current \in Session
      BY <2>2 DEF IInv, TypeOK
    <3>2. /\ command'[current] = command[current] /\ channel'[current] = channel[current]
          /\ batch'[current] = batch[current] /\ accepted'[current] = accepted[current]
          /\ walked'[current] = walked[current]
      BY <2>2, <3>1
    <3> QED
      BY <1>1, <3>2, LedgerFrame DEF IInv
  <2> QED
    BY <2>1, <2>2
<1>8. SupersededScanStops'
  <2>1. ASSUME NEW t \in Session, command'[t] = "walking"
        PROVE  command[t] = "walking" /\ flag'[t] = flag[t]
    BY <2>1
  <2> QED
    BY <1>1, <2>1 DEF IInv, SupersededScanStops
<1> QED
  BY <1>2, <1>4, <1>5, <1>6, <1>7, <1>8 DEF IInv, WireInv

LEMMA RegisterStep ==
  ASSUME IInv, NEW s \in Session, Register(s), UNCHANGED controllerVars
  PROVE  IInv'
<1>1. BackendTypeOK
  BY DEF IInv, TypeOK
<1>2. /\ command[s] = "invoked"
      /\ UNCHANGED <<resourceSession, walked, batch, accepted, result, channel, cancels>>
      /\ UNCHANGED <<current, status, receivedItems, warningCount, summary, error, replies>>
      /\ \/ /\ command' = [command EXCEPT ![s] = "registered"]
            /\ sessions' = sessions \cup {s} /\ flag' = [flag EXCEPT ![s] = FALSE]
            /\ response' = response
         \/ /\ command' = [command EXCEPT ![s] = "answered"]
            /\ response' = [response EXCEPT ![s] = "source-unavailable"]
            /\ UNCHANGED <<sessions, flag>>
  BY DEF Register, walkVars, controllerVars, stateVars
<1>3. BackendTypeOK'
  BY <1>1, <1>2 DEF BackendTypeOK, ErrorCode
<1>4. response[s] = "none"
  BY <1>2 DEF IInv, WireInv, Stages
<1>5. s = current => Ledger'
  <2> SUFFICES ASSUME s = current PROVE Ledger'
    OBVIOUS
  <2> QED
    BY <1>2, LedgerFrame DEF IInv, AtWork
<1>6. \A t \in Session : t # s =>
        /\ command'[t] = command[t] /\ response'[t] = response[t] /\ flag'[t] = flag[t]
        /\ t \in sessions => t \in sessions'
  BY <1>1, <1>2 DEF BackendTypeOK
<1>7. /\ command'[s] \in {"registered", "answered"}
      /\ response'[s] # "none" => command'[s] = "answered"
      /\ command'[s] = "registered" => s \in sessions'
  BY <1>1, <1>2, <1>4 DEF BackendTypeOK
<1> QED
  BY <1>2, <1>3, <1>5, <1>6, <1>7, SilentStep DEF BeforeWalk, AtWork, Registered

LEMMA BeginSessionStep ==
  ASSUME IInv, NEW s \in Session, BeginSession(s), UNCHANGED controllerVars
  PROVE  IInv'
<1>1. BackendTypeOK
  BY DEF IInv, TypeOK
<1>2. /\ command[s] = "registered" /\ command' = [command EXCEPT ![s] = "begun"]
      /\ resourceSession' = s
      /\ UNCHANGED <<sessions, flag, walked, batch, accepted, result, channel, response, cancels>>
      /\ UNCHANGED <<current, status, receivedItems, warningCount, summary, error, replies>>
  BY DEF BeginSession, walkVars, wireVars, controllerVars, stateVars
<1>3. BackendTypeOK'
  BY <1>1, <1>2 DEF BackendTypeOK
<1>4. response[s] = "none" /\ s \in sessions
  BY <1>2 DEF IInv, WireInv, Stages, Registered
<1>5. command'[s] = "begun" /\ \A t \in Session : t # s => command'[t] = command[t]
  BY <1>1, <1>2 DEF BackendTypeOK
<1>6. s = current => Ledger'
  <2> SUFFICES ASSUME s = current PROVE Ledger'
    OBVIOUS
  <2> QED
    BY <1>2, LedgerFrame DEF IInv, AtWork
<1> QED
  BY <1>2, <1>3, <1>4, <1>5, <1>6, SilentStep DEF BeforeWalk, AtWork, Registered

LEMMA ConcludeStep ==
  ASSUME IInv, NEW s \in Session, Conclude(s), UNCHANGED controllerVars
  PROVE  IInv'
<1>1. BackendTypeOK
  BY DEF IInv, TypeOK
<1>2. /\ command[s] = "returned" /\ command' = [command EXCEPT ![s] = "answered"]
      /\ sessions' = sessions \ {s}
      /\ response' = [response EXCEPT ![s] = result[s]]
      /\ result' = [result EXCEPT ![s] = "none"] /\ flag' = [flag EXCEPT ![s] = FALSE]
      /\ walked' = [walked EXCEPT ![s] = 0] /\ batch' = [batch EXCEPT ![s] = 0]
      /\ accepted' = [accepted EXCEPT ![s] = 0]
      /\ UNCHANGED <<resourceSession, channel, cancels>>
      /\ UNCHANGED <<current, status, receivedItems, warningCount, summary, error, replies>>
  BY DEF Conclude, controllerVars, stateVars
<1>3. BackendTypeOK'
  <2>1. /\ command' \in [Session -> {"none", "invoked", "registered", "begun",
                                     "walking", "returned", "answered"}]
        /\ response' \in [Session -> ErrorCode \cup {"none", "ok"}]
        /\ result' \in [Session -> ErrorCode \cup {"none", "ok"}]
        /\ flag' \in [Session -> BOOLEAN]
    BY <1>1, <1>2 DEF BackendTypeOK
  <2>2. /\ walked' \in [Session -> Nat] /\ accepted' \in [Session -> Nat]
        /\ batch' \in [Session -> 0 .. BatchSize - 1]
    BY <1>1, <1>2, ConstantTypes DEF BackendTypeOK
  <2>3. ASSUME NEW t \in Session
        PROVE  accepted'[t] <= walked'[t] /\ walked'[t] <= MaxEntries[t]
    <3>1. MaxEntries[t] \in Nat /\ accepted[t] <= walked[t] /\ walked[t] <= MaxEntries[t]
      BY <1>1, ConstantTypes DEF BackendTypeOK
    <3>2. CASE t = s
      BY <1>1, <1>2, <3>1, <3>2 DEF BackendTypeOK
    <3>3. CASE t # s
      BY <1>1, <1>2, <3>1, <3>3 DEF BackendTypeOK
    <3> QED
      BY <3>2, <3>3
  <2> QED
    BY <1>1, <1>2, <2>1, <2>2, <2>3 DEF BackendTypeOK
<1>4. \A t \in Session : t # s =>
        /\ command'[t] = command[t] /\ response'[t] = response[t] /\ flag'[t] = flag[t]
        /\ batch'[t] = batch[t] /\ accepted'[t] = accepted[t] /\ walked'[t] = walked[t]
        /\ t \in sessions => t \in sessions'
  BY <1>1, <1>2 DEF BackendTypeOK
<1>5. command'[s] = "answered"
  BY <1>1, <1>2 DEF BackendTypeOK
<1>6. s = current => Ledger'
  <2> SUFFICES ASSUME s = current PROVE Ledger'
    OBVIOUS
  <2> QED
    BY <1>2, <1>5, LedgerFrame DEF IInv, AtWork
<1> QED
  BY <1>2, <1>3, <1>4, <1>5, <1>6, SilentStep DEF BeforeWalk, AtWork, Registered

(* The task of s gives up: nothing is sent, and batch is lost.             *)
LEMMA GivesUp ==
  ASSUME IInv, NEW s \in Session, UNCHANGED controllerVars,
         command[s] \in {"begun", "walking"}, NEW r \in ErrorCode, Returns(s, r),
         UNCHANGED <<sessions, flag, resourceSession, channel, response, cancels>>,
         walked' \in [Session -> Nat], accepted' \in [Session -> Nat],
         batch' \in [Session -> 0 .. BatchSize - 1],
         accepted'[s] <= walked'[s] /\ walked'[s] <= MaxEntries[s],
         \A t \in Session : t # s =>
           batch'[t] = batch[t] /\ accepted'[t] = accepted[t] /\ walked'[t] = walked[t]
  PROVE  IInv'
<1>1. BackendTypeOK
  BY DEF IInv, TypeOK
<1>2. /\ command' = [command EXCEPT ![s] = "returned"]
      /\ result' = [result EXCEPT ![s] = r]
      /\ UNCHANGED <<current, status, receivedItems, warningCount, summary, error, replies>>
  BY DEF Returns, controllerVars, stateVars
<1>3. command'[s] = "returned" /\ \A t \in Session : t # s => command'[t] = command[t]
  BY <1>1, <1>2 DEF BackendTypeOK
<1>4. BackendTypeOK'
  <2>1. /\ command' \in [Session -> {"none", "invoked", "registered", "begun",
                                     "walking", "returned", "answered"}]
        /\ result' \in [Session -> ErrorCode \cup {"none", "ok"}]
    BY <1>1, <1>2 DEF BackendTypeOK
  <2>2. \A t \in Session : accepted'[t] <= walked'[t] /\ walked'[t] <= MaxEntries[t]
    BY <1>1 DEF BackendTypeOK
  <2> QED
    BY <1>1, <2>1, <2>2 DEF BackendTypeOK
<1>5. response[s] = "none"
  BY DEF IInv, WireInv, Stages
<1>6. s = current => Ledger'
  <2> SUFFICES ASSUME s = current PROVE Ledger'
    OBVIOUS
  <2> QED
    BY <1>2, <1>3, LedgerFrame DEF IInv, AtWork
<1> QED
  BY <1>2, <1>3, <1>4, <1>5, <1>6, SilentStep DEF BeforeWalk, AtWork, Registered

(* The task of s sends events; only the last may be the terminal one.      *)
LEMMA SendingStep ==
  ASSUME IInv, NEW s \in Session, UNCHANGED controllerVars,
         command[s] \in {"begun", "walking"}, command'[s] \in {"walking", "returned"},
         NEW events \in Seq(Event),
         channel' = [channel EXCEPT ![s] = channel[s] \o events],
         \A i \in 1 .. Len(events) : events[i].event \in Terminal =>
           i = Len(events) /\ command'[s] = "returned",
         command[s] = "begun" /\ command'[s] = "walking" => events = <<[event |-> "started"]>>,
         BackendTypeOK', UNCHANGED <<sessions, flag, response, cancels>>,
         \A t \in Session : t # s =>
           /\ command'[t] = command[t]
           /\ batch'[t] = batch[t] /\ accepted'[t] = accepted[t] /\ walked'[t] = walked[t],
         s = current => Ledger'
  PROVE  IInv'
<1>1. UNCHANGED <<current, status, receivedItems, warningCount, summary, error, replies>>
  BY DEF controllerVars, stateVars
<1>2. TypeOK' /\ channel \in [Session -> Seq(Event)] /\ channel[s] \in Seq(Event)
  BY <1>1 DEF IInv, TypeOK, BackendTypeOK
<1>3. channel'[s] = channel[s] \o events /\ \A t \in Session : t # s => channel'[t] = channel[t]
  BY <1>2
<1>4. s \in sessions /\ response[s] = "none" /\ ~(s > current)
  BY DEF IInv, WireInv, Stages, Registered
<1>5. ASSUME NEW t \in Session
      PROVE  /\ t > current => command'[t] = "none"
             /\ command'[t] \in BeforeWalk =>
                  channel'[t] = <<>> /\ walked'[t] = 0 /\ batch'[t] = 0 /\ accepted'[t] = 0
             /\ response[t] # "none" => command'[t] = "answered"
             /\ command'[t] \in Registered => t \in sessions
  <2>1. CASE t = s
    BY <1>4, <2>1 DEF BeforeWalk
  <2>2. CASE t # s
    BY <1>3, <2>2 DEF IInv, WireInv, Stages
  <2> QED
    BY <2>1, <2>2
<1>6. Stages'
  BY <1>1, <1>5 DEF Stages
<1>7. ASSUME NEW t \in Session, NEW i \in 1 .. Len(channel'[t]),
             channel'[t][i].event \in Terminal
      PROVE  i = Len(channel'[t]) /\ command'[t] \in {"returned", "answered"}
  <2>1. CASE t = s
    <3>1. channel'[t] = channel[s] \o events /\ i \in 1 .. Len(channel[s] \o events)
      BY <1>3, <2>1
    <3>2. i \notin 1 .. Len(channel[s])
      <4> SUFFICES ASSUME i \in 1 .. Len(channel[s]) PROVE FALSE
        OBVIOUS
      <4>1. channel[s][i].event \in Terminal
        BY <1>2, <1>7, <3>1, Emitting
      <4> QED
        BY <4>1 DEF IInv, WireInv, EndsLast
    <3>3. /\ i - Len(channel[s]) \in 1 .. Len(events)
          /\ (channel[s] \o events)[i] = events[i - Len(channel[s])]
      BY <1>2, <3>1, <3>2, Emitting
    <3>4. i - Len(channel[s]) = Len(events) /\ command'[s] = "returned"
      BY <1>7, <3>1, <3>3
    <3>5. i = Len(channel[s] \o events)
      BY <1>2, <3>4, Emitting
    <3> QED
      BY <2>1, <3>1, <3>4, <3>5
  <2>2. CASE t # s
    BY <1>3, <1>7, <2>2 DEF IInv, WireInv, EndsLast
  <2> QED
    BY <2>1, <2>2
<1>8. EndsLast'
  BY <1>7 DEF EndsLast
<1>9. ShownActive' /\ CompleteAtTerminal'
  <2>1. current # NoSession => current \in Session
    BY DEF IInv, TypeOK
  <2>2. current # NoSession /\ command'[current] \in AtWork => command[current] \in AtWork
    BY <2>1 DEF AtWork
  <2> QED
    BY <1>1, <2>2 DEF IInv, ShownActive, CompleteAtTerminal
<1>10. Ledger'
  <2>1. CASE current = NoSession
    BY <1>1, <2>1 DEF Ledger
  <2>2. CASE current # NoSession /\ current # s
    <3>1. current \in Session
      BY <2>2 DEF IInv, TypeOK
    <3>2. /\ command'[current] = command[current] /\ channel'[current] = channel[current]
          /\ batch'[current] = batch[current] /\ accepted'[current] = accepted[current]
          /\ walked'[current] = walked[current]
      BY <1>3, <2>2, <3>1
    <3> QED
      BY <1>1, <3>2, LedgerFrame DEF IInv
  <2> QED
    BY <2>1, <2>2
<1>11. SupersededScanStops'
  <2> SUFFICES ASSUME NEW t \in Session, t # current, command'[t] = "walking"
               PROVE  \/ flag[t]
                      \/ \E c \in cancels : c.session = t
                      \/ \E i \in 1 .. Len(channel'[t]) : channel'[t][i].event = "started"
    BY <1>1 DEF SupersededScanStops
  <2>1. CASE t # s
    BY <1>3, <2>1 DEF IInv, SupersededScanStops
  <2>2. CASE t = s /\ command[s] = "begun"
    <3>1. events = <<[event |-> "started"]>> /\ Len(events) = 1 /\ events[1].event = "started"
      BY <2>2
    <3>2. Len(channel[s]) + 1 \in 1 .. Len(channel[s] \o events)
      BY <1>2, <3>1, Emitting
    <3>3. (channel[s] \o events)[Len(channel[s]) + 1] = events[1]
      BY <1>2, <3>1, Emitting
    <3> QED
      BY <1>3, <2>2, <3>1, <3>2, <3>3
  <2>3. CASE t = s /\ command[s] = "walking"
    <3>1. \/ flag[s]
          \/ \E c \in cancels : c.session = s
          \/ \E i \in 1 .. Len(channel[s]) : channel[s][i].event = "started"
      BY <2>3 DEF IInv, SupersededScanStops
    <3>2. ASSUME NEW i \in 1 .. Len(channel[s])
          PROVE  i \in 1 .. Len(channel'[s]) /\ channel'[s][i] = channel[s][i]
      <4>1. i \in 1 .. Len(channel[s] \o events)
        BY <1>2, Emitting
      <4> QED
        BY <1>2, <1>3, <4>1, Emitting
    <3> QED
      BY <2>3, <3>1, <3>2
  <2> QED
    BY <2>1, <2>2, <2>3
<1> QED
  BY <1>2, <1>6, <1>8, <1>9, <1>10, <1>11 DEF IInv, WireInv

(* The accounts of the current session after one event more, which is not  *)
(* the terminal one.                                                       *)
LEMMA AccountsOfOneMore ==
  ASSUME NEW ch \in Seq(Event), NEW e \in Event, NEW items, NEW warnings,
         AddsUp(ch, ItemsIn, receivedItems, items), AddsUp(ch, WarningsIn, warningCount, warnings)
  PROVE  /\ AddsUp(ch \o <<e>>, ItemsIn, receivedItems, items + ItemsIn[e])
         /\ AddsUp(ch \o <<e>>, WarningsIn, warningCount, warnings + WarningsIn[e])
BY WeightTypes, AddsUpAppend

LEMMA NoTerminalYet ==
  ASSUME IInv, NEW s \in Session, command[s] \in AtWork, NEW i \in 1 .. Len(channel[s])
  PROVE  channel[s][i].event \notin Terminal
BY DEF IInv, WireInv, EndsLast, AtWork

(* What leaves the batch is in the event, what is no item is a warning.    *)
Balanced(s, e) ==
  /\ accepted'[s] = accepted[s] - batch[s] + batch'[s] + ItemsIn[e]
  /\ walked'[s] = walked[s] - accepted[s] + accepted'[s] + WarningsIn[e]

(* The task of s sends one event, not the terminal one, and walks on.      *)
LEMMA SendsOne ==
  ASSUME IInv, NEW s \in Session, UNCHANGED controllerVars,
         command[s] \in {"begun", "walking"}, command' = [command EXCEPT ![s] = "walking"],
         NEW e \in Event, e.event \notin Terminal,
         command[s] = "begun" => e = [event |-> "started"],
         channel' = [channel EXCEPT ![s] = channel[s] \o <<e>>],
         UNCHANGED <<sessions, flag, resourceSession, result, response, cancels>>,
         walked' \in [Session -> Nat], accepted' \in [Session -> Nat],
         batch' \in [Session -> 0 .. BatchSize - 1],
         \A t \in Session : t # s =>
           batch'[t] = batch[t] /\ accepted'[t] = accepted[t] /\ walked'[t] = walked[t],
         accepted'[s] <= walked'[s] /\ walked'[s] <= MaxEntries[s],
         Balanced(s, e)
  PROVE  IInv'
<1>1. BackendTypeOK
  BY DEF IInv, TypeOK
<1>2. UNCHANGED <<current, status, receivedItems, warningCount, summary, error, replies>>
  BY DEF controllerVars, stateVars
<1>3. <<e>> \in Seq(Event) /\ Len(<<e>>) = 1 /\ <<e>>[1] = e
  OBVIOUS
<1>4. channel[s] \in Seq(Event) /\ channel[s] \o <<e>> \in Seq(Event)
  BY <1>1, <1>3, Emitting DEF BackendTypeOK
<1>5. channel' \in [Session -> Seq(Event)] /\ channel'[s] = channel[s] \o <<e>>
  BY <1>1, <1>4 DEF BackendTypeOK
<1>6. BackendTypeOK'
  <2>1. command' \in [Session -> {"none", "invoked", "registered", "begun",
                                  "walking", "returned", "answered"}]
    BY <1>1 DEF BackendTypeOK
  <2>2. \A t \in Session : accepted'[t] <= walked'[t] /\ walked'[t] <= MaxEntries[t]
    BY <1>1 DEF BackendTypeOK
  <2> QED
    BY <1>1, <1>5, <2>1, <2>2 DEF BackendTypeOK
<1>7. command'[s] = "walking" /\ \A t \in Session : t # s => command'[t] = command[t]
  BY <1>1 DEF BackendTypeOK
<1>8. command[s] \in AtWork
  BY DEF AtWork
<1>9. ASSUME s = current, isActive(status)
      PROVE  Ledger'
  <2>1. PICK items \in Nat, warnings \in Nat : Accounts(s, items, warnings)
    BY <1>9, ConstantTypes DEF IInv, Ledger
  <2>2. ItemsIn[e] \in Nat /\ WarningsIn[e] \in Nat
    BY WeightTypes
  <2>3. items + ItemsIn[e] \in Nat /\ warnings + WarningsIn[e] \in Nat
    BY <2>2
  <2>4. /\ AddsUp(channel'[s], ItemsIn, receivedItems, items + ItemsIn[e])
        /\ AddsUp(channel'[s], WarningsIn, warningCount, warnings + WarningsIn[e])
    BY <1>4, <1>5, <2>1, AccountsOfOneMore DEF Accounts
  <2>5. items + batch[s] = accepted[s] /\ accepted[s] + warnings = walked[s]
    BY <1>8, <2>1 DEF Accounts
  <2>6. /\ batch[s] \in Nat /\ accepted[s] \in Nat /\ walked[s] \in Nat
        /\ batch'[s] \in Nat /\ accepted'[s] \in Nat /\ walked'[s] \in Nat
        /\ MaxEntries[s] \in Nat
    BY <1>1, ConstantTypes DEF BackendTypeOK
  <2>7. /\ (items + ItemsIn[e]) + batch'[s] = accepted'[s]
        /\ accepted'[s] + (warnings + WarningsIn[e]) = walked'[s]
        /\ (items + ItemsIn[e]) + (warnings + WarningsIn[e]) <= MaxEntries[s]
    <3>1. PICK b \in Nat, a \in Nat, w \in Nat, b2 \in Nat, a2 \in Nat, w2 \in Nat, max \in Nat :
            /\ b = batch[s] /\ a = accepted[s] /\ w = walked[s]
            /\ b2 = batch'[s] /\ a2 = accepted'[s] /\ w2 = walked'[s]
            /\ max = MaxEntries[s]
      BY <2>6
    <3>2. PICK di \in Nat, dw \in Nat : di = ItemsIn[e] /\ dw = WarningsIn[e]
      BY <2>2
    <3>3. /\ items + b = a /\ a + warnings = w
          /\ a2 = a - b + b2 + di /\ w2 = w - a + a2 + dw /\ w2 <= max
      BY <2>5, <3>1, <3>2 DEF Balanced
    <3>4. items + di + b2 = a2 /\ a2 + (warnings + dw) = w2
      <4>1. a - b = items /\ w - a = warnings
        BY <3>3
      <4>2. a2 = items + b2 + di /\ w2 = warnings + a2 + dw
        BY <3>3, <4>1
      <4> QED
        BY <4>2
    <3>5. items + di + (warnings + dw) <= max
      BY <3>3, <3>4
    <3> QED
      BY <3>1, <3>2, <3>4, <3>5
  <2>8. \A i \in 1 .. Len(channel'[s]) : channel'[s][i].event \notin Terminal
    BY <1>3, <1>4, <1>5, <1>8, NoTerminalYet, Emitting
  <2>9. Accounts(s, items + ItemsIn[e], warnings + WarningsIn[e])'
    BY <1>2, <2>4, <2>7, <2>8 DEF Accounts
  <2> QED
    BY <1>2, <1>9, <2>3, <2>9 DEF Ledger
<1>10. s = current => Ledger'
  BY <1>2, <1>9 DEF Ledger
<1>11. \A i \in 1 .. Len(<<e>>) : <<e>>[i].event \notin Terminal
  BY <1>3
<1> QED
  BY <1>2, <1>3, <1>6, <1>7, <1>10, <1>11, SendingStep

LEMMA ScanStartsStep ==
  ASSUME IInv, NEW s \in Session, ScanStarts(s), UNCHANGED controllerVars
  PROVE  IInv'
<1>1. /\ BackendTypeOK
      /\ batch[s] \in Nat /\ accepted[s] \in Nat /\ walked[s] \in Nat
  BY DEF IInv, TypeOK, BackendTypeOK
<1>2. /\ command[s] = "begun"
      /\ UNCHANGED <<sessions, flag, resourceSession, walked, batch, accepted, response, cancels>>
  BY DEF ScanStarts, walkVars
<1>3. CASE Returns(s, "source-unavailable") /\ UNCHANGED channel
  BY <1>1, <1>2, <1>3, GivesUp DEF BackendTypeOK, ErrorCode
<1>4. CASE /\ command' = [command EXCEPT ![s] = "walking"]
           /\ channel' = [channel EXCEPT ![s] = channel[s] \o <<[event |-> "started"]>>]
           /\ result' = result
  <2> DEFINE e == [event |-> "started"]
  <2>1. e \in Event /\ ItemsIn[e] = 0 /\ WarningsIn[e] = 0 /\ e.event \notin Terminal
    BY DEF Event, ItemsIn, WarningsIn, Terminal
  <2>2. channel' = [channel EXCEPT ![s] = channel[s] \o <<e>>]
    BY <1>4
  <2> HIDE DEF e
  <2>3. /\ accepted'[s] = accepted[s] - batch[s] + batch'[s] + ItemsIn[e]
        /\ walked'[s] = walked[s] - accepted[s] + accepted'[s] + WarningsIn[e]
    BY <1>1, <1>2, <2>1
  <2>4. e = [event |-> "started"]
    BY DEF e
  <2> QED
    BY <1>1, <1>2, <1>4, <2>1, <2>2, <2>3, <2>4, SendsOne DEF BackendTypeOK, Balanced
<1> QED
  BY <1>3, <1>4 DEF ScanStarts, Emit

LEMMA WalkTypes ==
  ASSUME IInv, NEW s \in Session
  PROVE  /\ BackendTypeOK
         /\ batch[s] \in Nat /\ accepted[s] \in Nat /\ walked[s] \in Nat
         /\ walked \in [Session -> Nat] /\ accepted \in [Session -> Nat]
         /\ batch \in [Session -> 0 .. BatchSize - 1]
         /\ BatchSize \in Nat /\ BatchSize > 0 /\ MaxEntries[s] \in Nat
         /\ accepted[s] <= walked[s] /\ batch[s] <= BatchSize - 1
<1>1. BackendTypeOK
  BY DEF IInv, TypeOK
<1>2. BatchSize \in Nat /\ BatchSize > 0 /\ MaxEntries[s] \in Nat
  BY ConstantTypes
<1>3. /\ walked \in [Session -> Nat] /\ accepted \in [Session -> Nat]
      /\ batch \in [Session -> 0 .. BatchSize - 1] /\ accepted[s] <= walked[s]
  BY <1>1 DEF BackendTypeOK
<1>4. batch[s] \in 0 .. BatchSize - 1
  BY <1>3
<1> QED
  BY <1>1, <1>2, <1>3, <1>4

LEMMA WalkUnreadableStep ==
  ASSUME IInv, NEW s \in Session, WalkUnreadable(s), UNCHANGED controllerVars
  PROVE  IInv'
<1>1. /\ BackendTypeOK
      /\ batch[s] \in Nat /\ accepted[s] \in Nat /\ walked[s] \in Nat
      /\ walked \in [Session -> Nat] /\ MaxEntries[s] \in Nat
      /\ accepted[s] <= walked[s]
  BY WalkTypes
<1> DEFINE e == [event |-> "warning"]
<1>2. /\ command[s] = "walking" /\ walked[s] < MaxEntries[s]
      /\ walked' = [walked EXCEPT ![s] = walked[s] + 1]
      /\ channel' = [channel EXCEPT ![s] = channel[s] \o <<e>>]
      /\ UNCHANGED <<command, sessions, flag, resourceSession, batch, accepted,
                     result, response, cancels>>
  BY DEF WalkUnreadable, Emit
<1>3. e \in Event /\ ItemsIn[e] = 0 /\ WarningsIn[e] = 1 /\ e.event \notin Terminal
  BY DEF Event, ItemsIn, WarningsIn, Terminal
<1> HIDE DEF e
<1>4. command' = [command EXCEPT ![s] = "walking"]
  BY <1>1, <1>2 DEF BackendTypeOK
<1>5. walked'[s] = walked[s] + 1 /\ walked' \in [Session -> Nat]
      /\ \A t \in Session : t # s => walked'[t] = walked[t]
  BY <1>1, <1>2
<1>6. /\ accepted'[s] = accepted[s] - batch[s] + batch'[s] + ItemsIn[e]
      /\ walked'[s] = walked[s] - accepted[s] + accepted'[s] + WarningsIn[e]
      /\ accepted'[s] <= walked'[s] /\ walked'[s] <= MaxEntries[s]
  BY <1>1, <1>2, <1>3, <1>5
<1> QED
  BY <1>1, <1>2, <1>3, <1>4, <1>5, <1>6, SendsOne DEF BackendTypeOK, Balanced

LEMMA WalkMediaStep ==
  ASSUME IInv, NEW s \in Session, WalkMedia(s), UNCHANGED controllerVars
  PROVE  IInv'
<1>1. /\ BackendTypeOK
      /\ batch[s] \in Nat /\ accepted[s] \in Nat /\ walked[s] \in Nat
      /\ walked \in [Session -> Nat] /\ accepted \in [Session -> Nat]
      /\ batch \in [Session -> 0 .. BatchSize - 1]
      /\ BatchSize \in Nat /\ BatchSize > 0 /\ MaxEntries[s] \in Nat
      /\ accepted[s] <= walked[s] /\ batch[s] <= BatchSize - 1
  BY WalkTypes
<1>2. /\ command[s] = "walking" /\ walked[s] < MaxEntries[s]
      /\ walked' = [walked EXCEPT ![s] = walked[s] + 1]
      /\ accepted' = [accepted EXCEPT ![s] = accepted[s] + 1]
      /\ batch' = [batch EXCEPT ![s] = IF Full(s) THEN 0 ELSE batch[s] + 1]
      /\ UNCHANGED <<sessions, flag, resourceSession, response, cancels>>
  BY DEF WalkMedia
<1>3. /\ walked'[s] = walked[s] + 1 /\ walked' \in [Session -> Nat]
      /\ accepted'[s] = accepted[s] + 1 /\ accepted' \in [Session -> Nat]
      /\ accepted'[s] <= walked'[s] /\ walked'[s] <= MaxEntries[s]
  BY <1>1, <1>2
<1>4. batch'[s] = (IF Full(s) THEN 0 ELSE batch[s] + 1) /\ batch'[s] \in 0 .. BatchSize - 1
  BY <1>1, <1>2 DEF Full
<1>5. /\ batch' \in [Session -> 0 .. BatchSize - 1]
      /\ \A t \in Session : t # s =>
           batch'[t] = batch[t] /\ accepted'[t] = accepted[t] /\ walked'[t] = walked[t]
  BY <1>1, <1>2, <1>4
<1>6. CASE Returns(s, "internal") /\ UNCHANGED channel
  BY <1>2, <1>3, <1>5, <1>6, GivesUp DEF ErrorCode
<1>7. CASE Full(s) /\ Emit(s, Flushed(BatchSize)) /\ UNCHANGED <<command, result>>
  <2> DEFINE e == [event |-> "batch", items |-> BatchSize]
  <2>1. channel' = [channel EXCEPT ![s] = channel[s] \o <<e>>]
    <3>1. Flushed(BatchSize) = <<e>>
      BY <1>1 DEF Flushed
    <3> QED
      BY <1>7, <3>1 DEF Emit
  <2>2. e \in Event
    BY <1>1 DEF Event
  <2>3. ItemsIn[e] = BatchSize /\ WarningsIn[e] = 0 /\ e.event \notin Terminal
    BY <2>2 DEF ItemsIn, WarningsIn, Terminal
  <2> HIDE DEF e
  <2>4. command' = [command EXCEPT ![s] = "walking"]
    BY <1>1, <1>2, <1>7 DEF BackendTypeOK
  <2>5. batch[s] = BatchSize - 1 /\ batch'[s] = 0
    BY <1>1, <1>4, <1>7 DEF Full
  <2>6. /\ accepted'[s] = accepted[s] - batch[s] + batch'[s] + ItemsIn[e]
        /\ walked'[s] = walked[s] - accepted[s] + accepted'[s] + WarningsIn[e]
    BY <1>1, <1>3, <2>3, <2>5
  <2> QED
    BY <1>2, <1>3, <1>5, <1>7, <2>1, <2>2, <2>3, <2>4, <2>6, SendsOne DEF Balanced
<1>8. CASE ~Full(s) /\ Emit(s, Flushed(0)) /\ UNCHANGED <<command, result>>
  <2>1. channel \in [Session -> Seq(Event)]
    BY <1>1 DEF BackendTypeOK
  <2>2. channel[s] \o <<>> = channel[s]
    BY <2>1
  <2>3. channel' = channel
    BY <1>8, <2>1, <2>2 DEF Emit, Flushed
  <2>4. \A t \in Session : accepted'[t] <= walked'[t] /\ walked'[t] <= MaxEntries[t]
    BY <1>1, <1>3, <1>5 DEF BackendTypeOK
  <2>5. BackendTypeOK'
    BY <1>1, <1>2, <1>3, <1>5, <1>8, <2>3, <2>4 DEF BackendTypeOK
  <2>6. s \in sessions /\ response[s] = "none"
    BY <1>2 DEF IInv, WireInv, Stages, Registered
  <2>7. UNCHANGED <<current, status, receivedItems, warningCount, summary, error, replies>>
    BY DEF controllerVars, stateVars
  <2>8. ASSUME s = current, isActive(status)
        PROVE  Ledger'
    <3>1. PICK items \in Nat, warnings \in Nat : Accounts(s, items, warnings)
      BY <2>8, ConstantTypes DEF IInv, Ledger
    <3>2. items + batch[s] = accepted[s] /\ accepted[s] + warnings = walked[s]
      BY <1>2, <3>1 DEF Accounts, AtWork
    <3>3. batch'[s] = batch[s] + 1
      BY <1>4, <1>8
    <3>4. items + batch'[s] = accepted'[s] /\ accepted'[s] + warnings = walked'[s]
      BY <1>1, <1>3, <3>2, <3>3
    <3>5. Accounts(s, items, warnings)'
      BY <2>3, <2>7, <3>1, <3>4 DEF Accounts
    <3> QED
      BY <2>7, <2>8, <3>5 DEF Ledger
  <2>9. s = current => Ledger'
    BY <2>7, <2>8 DEF Ledger
  <2> QED
    BY <1>2, <1>5, <1>8, <2>3, <2>5, <2>6, <2>9, SilentStep DEF BeforeWalk, AtWork
<1> QED
  BY <1>6, <1>7, <1>8 DEF WalkMedia

(* The walk ends: all its items are in the channel by the terminal event,  *)
(* which tells their number.                                               *)
LEMMA ScanEndsStep ==
  ASSUME IInv, NEW s \in Session, NEW terminal \in Terminal, ScanEnds(s, terminal),
         UNCHANGED controllerVars
  PROVE  IInv'
<1>1. /\ BackendTypeOK
      /\ batch[s] \in Nat /\ accepted[s] \in Nat /\ walked[s] \in Nat
      /\ batch \in [Session -> 0 .. BatchSize - 1] /\ channel \in [Session -> Seq(Event)]
      /\ BatchSize \in Nat /\ BatchSize > 0 /\ MaxEntries[s] \in Nat
      /\ accepted[s] <= walked[s] /\ batch[s] <= BatchSize - 1 /\ walked[s] <= MaxEntries[s]
  BY WalkTypes DEF BackendTypeOK
<1>2. /\ command[s] = "walking" /\ batch' = [batch EXCEPT ![s] = 0]
      /\ UNCHANGED <<sessions, flag, resourceSession, walked, accepted, response, cancels>>
  BY DEF ScanEnds
<1>3. /\ batch' \in [Session -> 0 .. BatchSize - 1]
      /\ \A t \in Session : t # s => batch'[t] = batch[t]
  <2>1. 0 \in 0 .. BatchSize - 1
    BY <1>1
  <2> QED
    BY <1>1, <1>2, <2>1
<1>4. CASE Returns(s, "internal") /\ UNCHANGED channel
  BY <1>1, <1>2, <1>3, <1>4, GivesUp DEF ErrorCode, BackendTypeOK
<1>5. CASE /\ Returns(s, "ok")
           /\ Emit(s, Flushed(batch[s]) \o <<[event |-> terminal, accepted |-> accepted[s]]>>)
  <2> DEFINE last  == [event |-> terminal, accepted |-> accepted[s]]
             ch    == channel[s]
             chunk == Flushed(batch[s])
  <2>1. /\ last \in Event /\ ItemsIn[last] = 0 /\ WarningsIn[last] = 0
        /\ last.event \in Terminal /\ last.accepted = accepted[s]
    <3>1. last \in [event : {"finished", "cancelled"}, accepted : Nat]
      BY <1>1 DEF Terminal
    <3>2. last \in Event
      BY <3>1 DEF Event
    <3> QED
      BY <3>1, <3>2 DEF ItemsIn, WarningsIn, Terminal
  <2>2. /\ chunk \in Seq(Event)
        /\ \A i \in 1 .. Len(chunk) : chunk[i].event = "batch"
        /\ \/ batch[s] = 0 /\ chunk = <<>>
           \/ \E e \in Event : /\ chunk = <<e>> /\ e.event = "batch"
                               /\ ItemsIn[e] = batch[s] /\ WarningsIn[e] = 0
    <3>1. CASE batch[s] = 0
      BY <3>1 DEF Flushed
    <3>2. CASE batch[s] # 0
      <4> DEFINE e == [event |-> "batch", items |-> batch[s]]
      <4>1. batch[s] \in 1 .. BatchSize
        BY <1>1, <3>2
      <4>2. e \in [event : {"batch"}, items : 1 .. BatchSize]
        BY <4>1
      <4>3. e \in Event /\ e.event = "batch" /\ ItemsIn[e] = batch[s] /\ WarningsIn[e] = 0
        BY <4>2 DEF Event, ItemsIn, WarningsIn
      <4>4. chunk = <<e>>
        BY <3>2 DEF Flushed
      <4> HIDE DEF e, chunk
      <4>5. <<e>> \in Seq(Event) /\ Len(<<e>>) = 1 /\ <<e>>[1] = e
        BY <4>3
      <4> QED
        BY <4>3, <4>4, <4>5
    <3> QED
      BY <3>1, <3>2
  <2>3. channel' = [channel EXCEPT ![s] = ch \o (chunk \o <<last>>)]
    BY <1>5 DEF Emit
  <2>4. /\ command' = [command EXCEPT ![s] = "returned"]
        /\ result' = [result EXCEPT ![s] = "ok"]
    BY <1>5 DEF Returns
  <2>5. ch \in Seq(Event)
    BY <1>1
  <2> HIDE DEF last, chunk, ch
  <2>6. <<last>> \in Seq(Event) /\ Len(<<last>>) = 1 /\ <<last>>[1] = last
    BY <2>1
  <2> DEFINE events == chunk \o <<last>>
             mid    == ch \o chunk
  <2>7. events \in Seq(Event) /\ mid \in Seq(Event)
    BY <2>2, <2>5, <2>6, Emitting
  <2>8. ch \o events = mid \o <<last>> /\ ch \o events \in Seq(Event)
    <3>1. ch \o events = mid \o <<last>>
      BY <2>2, <2>5, <2>6, ConcatAssociative
    <3> QED
      BY <2>5, <2>7, <3>1, Emitting
  <2>9. \A i \in 1 .. Len(events) : events[i].event \in Terminal => i = Len(events)
    <3> SUFFICES ASSUME NEW i \in 1 .. Len(events), events[i].event \in Terminal
                 PROVE  i = Len(events)
      OBVIOUS
    <3>1. Len(events) = Len(chunk) + 1 /\ Len(chunk) \in Nat
      BY <2>2, <2>6, Emitting
    <3>2. CASE i \in 1 .. Len(chunk)
      <4>1. events[i].event = "batch"
        BY <2>2, <2>6, <3>2, Emitting
      <4> QED
        BY <4>1 DEF Terminal
    <3>3. CASE i \notin 1 .. Len(chunk)
      BY <3>1, <3>3
    <3> QED
      BY <3>2, <3>3
  <2> HIDE DEF events, mid
  <2>10. channel' \in [Session -> Seq(Event)] /\ channel'[s] = mid \o <<last>>
    BY <1>1, <2>3, <2>8 DEF events
  <2>11. /\ command'[s] = "returned" /\ \A t \in Session : t # s => command'[t] = command[t]
         /\ command' \in [Session -> {"none", "invoked", "registered", "begun",
                                      "walking", "returned", "answered"}]
         /\ result' \in [Session -> ErrorCode \cup {"none", "ok"}]
    BY <1>1, <2>4 DEF BackendTypeOK
  <2>12. BackendTypeOK'
    BY <1>1, <1>2, <1>3, <2>10, <2>11 DEF BackendTypeOK
  <2>13. UNCHANGED <<current, status, receivedItems, warningCount, summary, error, replies>>
    BY DEF controllerVars, stateVars
  <2>14. ASSUME s = current, isActive(status)
         PROVE  Ledger'
    <3>1. PICK items \in Nat, warnings \in Nat : Accounts(s, items, warnings)
      BY <2>14, ConstantTypes DEF IInv, Ledger
    <3>2. items + batch[s] = accepted[s] /\ accepted[s] + warnings = walked[s]
      BY <1>2, <3>1 DEF Accounts, AtWork
    <3>3. /\ AddsUp(ch, ItemsIn, receivedItems, items)
          /\ AddsUp(ch, WarningsIn, warningCount, warnings)
      BY <3>1 DEF Accounts, ch
    <3>4. /\ AddsUp(mid, ItemsIn, receivedItems, accepted[s])
          /\ AddsUp(mid, WarningsIn, warningCount, warnings)
      <4>1. CASE batch[s] = 0 /\ chunk = <<>>
        <5>1. mid = ch
          BY <2>5, <4>1 DEF mid
        <5>2. items = accepted[s]
          BY <1>1, <3>2, <4>1
        <5> QED
          BY <3>3, <5>1, <5>2
      <4>2. ASSUME NEW e \in Event, chunk = <<e>>, ItemsIn[e] = batch[s], WarningsIn[e] = 0
            PROVE  /\ AddsUp(mid, ItemsIn, receivedItems, accepted[s])
                   /\ AddsUp(mid, WarningsIn, warningCount, warnings)
        <5>1. /\ AddsUp(mid, ItemsIn, receivedItems, items + ItemsIn[e])
              /\ AddsUp(mid, WarningsIn, warningCount, warnings + WarningsIn[e])
          BY <2>5, <3>3, <4>2, AccountsOfOneMore DEF mid
        <5>2. items + ItemsIn[e] = accepted[s] /\ warnings + WarningsIn[e] = warnings
          BY <3>2, <4>2
        <5> QED
          BY <5>1, <5>2
      <4> QED
        BY <2>2, <4>1, <4>2
    <3>5. /\ AddsUp(channel'[s], ItemsIn, receivedItems, accepted[s] + ItemsIn[last])
          /\ AddsUp(channel'[s], WarningsIn, warningCount, warnings + WarningsIn[last])
      BY <2>1, <2>7, <2>10, <3>4, AccountsOfOneMore
    <3>6. accepted[s] + ItemsIn[last] = accepted[s] /\ warnings + WarningsIn[last] = warnings
      BY <1>1, <2>1
    <3>7. accepted[s] + warnings <= MaxEntries[s]
      BY <1>1, <3>2
    <3>8. ASSUME NEW i \in 1 .. Len(channel'[s]), channel'[s][i].event \in Terminal
          PROVE  channel'[s][i].accepted = accepted[s]
      <4>1. channel'[s] = ch \o events /\ i \in 1 .. Len(ch \o events)
        BY <2>8, <2>10
      <4>2. i \notin 1 .. Len(ch)
        <5> SUFFICES ASSUME i \in 1 .. Len(ch) PROVE FALSE
          OBVIOUS
        <5>1. ch[i].event \in Terminal
          BY <2>5, <2>7, <3>8, <4>1, Emitting
        <5> QED
          BY <1>2, <5>1, NoTerminalYet DEF ch, AtWork
      <4>3. i - Len(ch) \in 1 .. Len(events) /\ channel'[s][i] = events[i - Len(ch)]
        BY <2>5, <2>7, <4>1, <4>2, Emitting
      <4>4. channel'[s][i] = events[Len(events)]
        BY <2>9, <3>8, <4>3
      <4>5. events[Len(events)] = last
        BY <2>2, <2>6, Emitting DEF events
      <4> QED
        BY <2>1, <4>4, <4>5
    <3>9. Accounts(s, accepted[s], warnings)'
      BY <1>2, <2>11, <2>13, <3>5, <3>6, <3>7, <3>8 DEF Accounts, AtWork
    <3> QED
      BY <1>1, <1>2, <2>13, <2>14, <3>9 DEF Ledger
  <2>15. s = current => Ledger'
    BY <2>13, <2>14 DEF Ledger
  <2>16. channel' = [channel EXCEPT ![s] = channel[s] \o events]
    BY <2>3 DEF events, ch
  <2> QED
    BY <1>2, <1>3, <2>7, <2>9, <2>11, <2>12, <2>15, <2>16, SendingStep
<1> QED
  BY <1>4, <1>5 DEF ScanEnds

LEMMA BackendStep ==
  ASSUME IInv, NEW s \in Session, Backend(s)
  PROVE  IInv'
<1>1. UNCHANGED controllerVars
  BY DEF Backend
<1>2. CASE Register(s)
  BY <1>1, <1>2, RegisterStep
<1>3. CASE BeginSession(s)
  BY <1>1, <1>3, BeginSessionStep
<1>4. CASE ScanStarts(s)
  BY <1>1, <1>4, ScanStartsStep
<1>5. CASE WalkUnreadable(s)
  BY <1>1, <1>5, WalkUnreadableStep
<1>6. CASE WalkMedia(s)
  BY <1>1, <1>6, WalkMediaStep
<1>7. CASE WalkFinished(s) \/ WalkCancelled(s)
  <2>1. PICK terminal \in Terminal : ScanEnds(s, terminal)
    BY <1>7 DEF WalkFinished, WalkCancelled, Terminal
  <2> QED
    BY <1>1, <2>1, ScanEndsStep
<1>8. CASE Conclude(s)
  BY <1>1, <1>8, ConcludeStep
<1> QED
  BY <1>2, <1>3, <1>4, <1>5, <1>6, <1>7, <1>8 DEF Backend, StartScanStep

LEMMA StutterStep ==
  ASSUME IInv, UNCHANGED vars
  PROVE  IInv'
<1> USE DEF vars, backendVars, wireVars, walkVars, stateVars
<1>1. TypeOK' /\ WireInv'
  BY DEF IInv, TypeOK, BackendTypeOK, WireInv, Stages, EndsLast
<1>2. ShownActive' /\ CompleteAtTerminal' /\ SupersededScanStops'
  BY DEF IInv, ShownActive, CompleteAtTerminal, SupersededScanStops
<1>3. Ledger'
  BY LedgerFrame DEF IInv
<1> QED
  BY <1>1, <1>2, <1>3 DEF IInv

-----------------------------------------------------------------------------
(* The types, the stages of every start_scan, the accounts of the current  *)
(* scan and the two properties below hold together in every behaviour.     *)
THEOREM Invariance == Safe => []IInv
<1>1. IInv /\ [Next]_vars => IInv'
  <2> SUFFICES ASSUME IInv, [Next]_vars PROVE IInv'
    OBVIOUS
  <2>1. CASE openSource
    BY <2>1, OpenSourceStep
  <2>2. CASE cancelCurrent
    BY <2>2, CancelCurrentStep
  <2>3. CASE \E c \in cancels : CancelRuns(c)
    BY <2>3, CancelRunsStep
  <2>4. CASE \E reply \in replies : CancelReply(reply)
    BY <2>4, CancelReplyStep
  <2>5. CASE \E s \in Session : handleEvent(s)
    BY <2>5, HandleEventStep
  <2>6. CASE \E s \in Session : scanSettles(s)
    BY <2>6, ScanSettlesStep
  <2>7. CASE \E s \in Session : Backend(s)
    BY <2>7, BackendStep
  <2>8. CASE UNCHANGED vars
    BY <2>8, StutterStep
  <2> QED
    BY <2>1, <2>2, <2>3, <2>4, <2>5, <2>6, <2>7, <2>8 DEF Next
<1> QED
  BY <1>1, InitIInv, PTL DEF Safe

(* Every variable keeps its type; what the screen counts for the current   *)
(* session never exceeds the entries its walk can meet.                    *)
THEOREM TypeCorrect == Safe => []TypeOK
<1>1. IInv => TypeOK
  BY DEF IInv
<1> QED
  BY <1>1, Invariance, PTL

(* A session shown finished or cancelled has every item its scan accepted: *)
(* handleEvent and scan_task together lose and count twice nothing,        *)
(* wherever the walk is stopped.                                           *)
THEOREM CompleteAtTerminalHolds == Safe => []CompleteAtTerminal
<1>1. IInv => CompleteAtTerminal
  BY DEF IInv
<1> QED
  BY <1>1, Invariance, PTL

(* A scan still walking for a superseded session has been or will be told  *)
(* to stop, in whatever order cancel_scan and start_scan ran.              *)
THEOREM SupersededScanStopsHolds == Safe => []SupersededScanStops
<1>1. IInv => SupersededScanStops
  BY DEF IInv
<1> QED
  BY <1>1, Invariance, PTL
===============================================================================
