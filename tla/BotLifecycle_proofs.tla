------------------------- MODULE BotLifecycle_proofs -------------------------
(***************************************************************************)
(* Proofs about BotLifecycle, for every number of updates, signals and     *)
(* processes and every capacity of the channel: the inductive invariant    *)
(* IInv, the safety properties that follow from it, and that no update     *)
(* which Telegram keeps is left behind.                                    *)
(***************************************************************************)
EXTENDS BotLifecycle, TLAPS

Stages == {"no", "stopping", "wait", "close", "release", "done"}

(* What the process has received and not yet handled, or has handled.      *)
Handling == IF current = 0 THEN 0 ELSE 1
Received == Len(handled) + Handling + Len(channel)

(* NoGap, piece by piece.                                                  *)
Contiguous ==
  /\ \A i \in 1 .. Len(handled) : handled[i] = offset - Received + i - 1
  /\ current # 0 => current = offset - Len(channel) - 1
  /\ \A i \in 1 .. Len(channel) : channel[i] = offset - Len(channel) + i - 1

(* What was polled follows what was received: the next poll asks for the   *)
(* update after it, and Telegram has not forgotten more than that.         *)
BatchFollows ==
  /\ \A i \in 1 .. Len(batch) : batch[i] = batch[1] + i - 1 /\ batch[i] <= sent
  /\ Received > 0 => forgotten < offset
  /\ batch # <<>> => forgotten < batch[1]
  /\ Received > 0 /\ batch # <<>> => batch[1] = offset
  /\ offset <= sent + 1

(* A handler runs in the loop, and the loop does not outlive the wait of   *)
(* Stop, nor begin after it, without leaving a trace in late.              *)
LoopIsWaitedFor ==
  /\ current # 0 => loop = "running"
  /\ closed => \E l \in Listeners : stop[l] \in {"release", "done"}
  /\ \A l \in Listeners : stop[l] # "no" => cancelled
  /\ \A l \in Listeners : stop[l] \in {"close", "release", "done"} =>
       loop # "running" \/ late # {}

(* The Stop of the handler releases Start, and only then main listens:     *)
(* whoever finds the library stopped is the second one.                    *)
MainStopsSecond ==
  /\ receiver \in {"stopped", "last", "ended"} => stop["handler"] \notin {"no", "stopping"}
  /\ released <=> stop["handler"] = "done"
  /\ main \in {"returned", "waiting"} => released
  /\ notified["main"] = 1 \/ stop["main"] # "no" => released
  /\ main = "panicked" => released

IInv == TypeOK /\ Contiguous /\ BatchFollows /\ LoopIsWaitedFor /\ MainStopsSecond

USE BoundsAssumption DEF BoundsAssumption

-----------------------------------------------------------------------------
LEMMA MaxOfTwo ==
  ASSUME NEW a \in Int, NEW b \in Int
  PROVE  Max({a, b}) = IF a >= b THEN a ELSE b
  <1>1. PICK m \in {a, b} : \A y \in {a, b} : m >= y
    <2>1. CASE a >= b
      BY <2>1
    <2>2. CASE ~ (a >= b)
      BY <2>2
    <2>3. QED BY <2>1, <2>2
  <1>2. Max({a, b}) \in {a, b} /\ \A y \in {a, b} : Max({a, b}) >= y
    BY <1>1 DEF Max
  <1>3. QED BY <1>2

LEMMA ConcatOfThree ==
  ASSUME NEW S, NEW p \in Seq(S), NEW q \in Seq(S), NEW r \in Seq(S)
  PROVE  /\ Len(p \o q \o r) = Len(p) + Len(q) + Len(r)
         /\ \A i \in 1 .. Len(p \o q \o r) : (p \o q \o r)[i] =
              IF i <= Len(p) THEN p[i]
              ELSE IF i <= Len(p) + Len(q) THEN q[i - Len(p)]
              ELSE r[i - Len(p) - Len(q)]
  <1>1. /\ p \o q \in Seq(S) /\ Len(p \o q) = Len(p) + Len(q)
        /\ \A i \in 1 .. Len(p \o q) : (p \o q)[i] =
             IF i <= Len(p) THEN p[i] ELSE q[i - Len(p)]
    OBVIOUS
  <1>2. PICK t \in Seq(S) : t = p \o q
    BY <1>1
  <1>3. /\ Len(t \o r) = Len(t) + Len(r)
        /\ \A i \in 1 .. Len(t \o r) : (t \o r)[i] =
             IF i <= Len(t) THEN t[i] ELSE r[i - Len(t)]
    OBVIOUS
  <1>4. QED BY <1>1, <1>2, <1>3

(* The queues of TypeOK, by name.                                          *)
LEMMA Queues ==
  ASSUME IInv
  PROVE  /\ batch \in Seq(1 .. MaxUpdates) /\ channel \in Seq(1 .. MaxUpdates)
         /\ handled \in Seq(1 .. MaxUpdates)
         /\ Len(batch) \in Nat /\ Len(channel) \in Nat /\ Len(handled) \in Nat
         /\ offset \in Nat /\ sent \in Nat /\ forgotten \in Nat /\ current \in Nat
         /\ Handling \in 0 .. 1 /\ Received \in Nat
  BY DEF IInv, TypeOK, Handling, Received

LEMMA FlowStays ==
  ASSUME IInv, UNCHANGED <<offset, batch, channel, current, handled>>,
         sent' >= sent, sent' \in Nat, UNCHANGED forgotten
  PROVE  Contiguous' /\ BatchFollows'
  <1>1. UNCHANGED <<Handling, Received>>
    BY DEF Handling, Received
  <1>2. Contiguous'
    BY <1>1 DEF IInv, Contiguous
  <1>3. \A i \in 1 .. Len(batch) : batch[i] = batch[1] + i - 1 /\ batch[i] <= sent'
    <2>1. sent \in Nat
      BY Queues
    <2>2. ASSUME NEW i \in 1 .. Len(batch)
          PROVE  batch[i] = batch[1] + i - 1 /\ batch[i] <= sent'
      <3>1. batch[i] \in Nat
        BY Queues
      <3>2. batch[i] = batch[1] + i - 1 /\ batch[i] <= sent
        BY DEF IInv, BatchFollows
      <3>3. QED BY <2>1, <3>1, <3>2
    <2>3. QED BY <2>2
  <1>4. offset <= sent' + 1
    BY Queues DEF IInv, BatchFollows
  <1>5. BatchFollows'
    BY <1>1, <1>3, <1>4 DEF IInv, BatchFollows
  <1>6. QED BY <1>2, <1>5

LEMMA InitIInv == Init => IInv
  <1> SUFFICES ASSUME Init PROVE IInv
    OBVIOUS
  <1>1. TypeOK
    <2>1. /\ sent \in 0 .. MaxUpdates /\ forgotten \in 0 .. sent
          /\ offset \in 0 .. MaxUpdates + 1
          /\ signals \in 0 .. MaxSignals /\ life \in 1 .. MaxLives
          /\ batch \in Seq(1 .. MaxUpdates) /\ channel \in Seq(1 .. MaxUpdates)
          /\ handled \in Seq(1 .. MaxUpdates) /\ Len(channel) <= Buffer
      BY DEF Init
    <2>2. {cancelled, closed, released} \subseteq BOOLEAN
      BY Zenon DEF Init
    <2>3. QED BY <2>1, <2>2 DEF Init, TypeOK
  <1>2. Contiguous /\ BatchFollows
    BY DEF Init, Contiguous, BatchFollows, Received, Handling
  <1>3. LoopIsWaitedFor /\ MainStopsSecond
    BY DEF Init, LoopIsWaitedFor, MainStopsSecond, Listeners
  <1>4. QED BY <1>1, <1>2, <1>3 DEF IInv

(* Steps outside the flow of updates.                                      *)
LEMMA StutterInv == ASSUME IInv, UNCHANGED vars PROVE IInv'
  BY DEF vars, outside, shutdown, updates, IInv, TypeOK, Contiguous, BatchFollows,
     LoopIsWaitedFor, MainStopsSecond, Received, Handling

LEMMA RestartInv == ASSUME IInv, Restart PROVE IInv'
  <1>1. TypeOK'
    <2>1. /\ offset' \in 0 .. MaxUpdates + 1 /\ life' \in 1 .. MaxLives
          /\ batch' \in Seq(1 .. MaxUpdates) /\ channel' \in Seq(1 .. MaxUpdates)
          /\ handled' \in Seq(1 .. MaxUpdates) /\ Len(channel') <= Buffer
      BY DEF Restart, IInv, TypeOK
    <2>2. {cancelled', closed', released'} \subseteq BOOLEAN
      BY Zenon DEF Restart
    <2>3. QED BY <2>1, <2>2 DEF Restart, IInv, TypeOK
  <1>2. Contiguous' /\ BatchFollows'
    BY DEF Restart, Contiguous, BatchFollows, Received, Handling, IInv, TypeOK
  <1>3. LoopIsWaitedFor' /\ MainStopsSecond'
    BY DEF Restart, LoopIsWaitedFor, MainStopsSecond, Listeners
  <1>4. QED BY <1>1, <1>2, <1>3 DEF IInv

LEMMA OutsideInv == ASSUME IInv, Send \/ Signal \/ Crash PROVE IInv'
  <1> USE DEF outside, shutdown, updates
  <1>1. TypeOK'
    <2>1. CASE Send
      BY <2>1 DEF Send, IInv, TypeOK
    <2>2. CASE Signal
      BY <2>2 DEF Signal, IInv, TypeOK, Listeners
    <2>3. CASE Crash
      BY <2>3 DEF Crash, IInv, TypeOK
    <2>4. QED BY <2>1, <2>2, <2>3
  <1>2. Contiguous' /\ BatchFollows'
    BY FlowStays, Queues DEF Send, Signal, Crash, IInv
  <1>3. LoopIsWaitedFor'
    BY DEF Send, Signal, Crash, IInv, LoopIsWaitedFor
  <1>4. MainStopsSecond'
    BY DEF Send, Signal, Crash, IInv, MainStopsSecond, Listening, Listeners, TypeOK
  <1>5. QED BY <1>1, <1>2, <1>3, <1>4 DEF IInv

LEMMA StartsInv == ASSUME IInv, Starts PROVE IInv'
  <1> USE DEF outside, shutdown, updates, Starts, MainMoves
  <1>1. TypeOK'
    <2>1. CASE Listen \/ StartReturns \/ MainListens
      BY <2>1 DEF Listen, StartReturns, MainListens, IInv, TypeOK
    <2>2. CASE Subscribe
      BY <2>2 DEF Subscribe, IInv, TypeOK
    <2>3. CASE StartLoop
      BY <2>3 DEF StartLoop, IInv, TypeOK
    <2>4. QED BY <2>1, <2>2, <2>3
  <1>2. Contiguous' /\ BatchFollows'
    BY FlowStays, Queues DEF Listen, Subscribe, StartLoop, StartReturns, MainListens, IInv
  <1>3. LoopIsWaitedFor'
    <2>1. CASE StartLoop
      BY <2>1 DEF StartLoop, IInv, LoopIsWaitedFor, Listeners
    <2>2. CASE ~ StartLoop
      BY <2>2 DEF Listen, Subscribe, StartReturns, MainListens, IInv, LoopIsWaitedFor
    <2>3. QED BY <2>1, <2>2
  <1>4. MainStopsSecond'
    BY DEF Listen, Subscribe, StartLoop, StartReturns, MainListens, IInv, MainStopsSecond
  <1>5. QED BY <1>1, <1>2, <1>3, <1>4 DEF IInv

LEMMA StopsInv == ASSUME IInv, NEW l \in Listeners, Stops(l) PROVE IInv'
  <1> USE DEF outside, shutdown, updates, Stops, Moves
  <1>1. /\ stop \in [Listeners -> Stages] /\ notified \in [Listeners -> 0 .. 1]
        /\ l = "handler" \/ l = "main"
    BY DEF IInv, TypeOK, Stages, Listeners
  <1>2. /\ stop' \in [Listeners -> Stages] /\ notified' \in [Listeners -> 0 .. 1]
        /\ \A k \in Listeners \ {l} : stop'[k] = stop[k]
    BY <1>1 DEF Cancel, StopReceiving, GoroutinesDone, WaitTimesOut, CloseConnections,
       Release, Stages
  <1>3. TypeOK'
    <2>1. CASE Cancel(l) \/ StopReceiving(l)
      BY <1>2, <2>1 DEF Cancel, StopReceiving, IInv, TypeOK, Stages
    <2>2. CASE GoroutinesDone(l) \/ WaitTimesOut(l)
      BY <1>2, <2>2 DEF GoroutinesDone, WaitTimesOut, IInv, TypeOK, Stages
    <2>3. CASE CloseConnections(l) \/ Release(l)
      BY <1>2, <2>3 DEF CloseConnections, Release, IInv, TypeOK, Stages
    <2>4. QED BY <2>1, <2>2, <2>3
  <1>4. Contiguous' /\ BatchFollows'
    BY FlowStays, Queues DEF Cancel, StopReceiving, GoroutinesDone, WaitTimesOut,
       CloseConnections, Release, IInv
  <1>5. LoopIsWaitedFor'
    <2>1. CASE Cancel(l) \/ StopReceiving(l)
      BY <1>1, <1>2, <2>1 DEF Cancel, StopReceiving, IInv, LoopIsWaitedFor
    <2>2. CASE GoroutinesDone(l) \/ WaitTimesOut(l)
      BY <1>1, <1>2, <2>2 DEF GoroutinesDone, WaitTimesOut, IInv, LoopIsWaitedFor
    <2>3. CASE CloseConnections(l) \/ Release(l)
      BY <1>1, <1>2, <2>3 DEF CloseConnections, Release, IInv, LoopIsWaitedFor
    <2>4. QED BY <2>1, <2>2, <2>3
  <1>6. MainStopsSecond'
    <2>1. CASE Cancel(l)
      BY <1>1, <1>2, <2>1 DEF Cancel, IInv, MainStopsSecond, Listeners
    <2>2. CASE StopReceiving(l) /\ receiver \in {"off", "polling"}
      BY <1>1, <1>2, <2>2 DEF StopReceiving, IInv, MainStopsSecond, Listeners
    <2>3. CASE StopReceiving(l) /\ receiver \notin {"off", "polling"}
      <3>1. receiver \in {"stopped", "last", "ended"}
        BY <2>3 DEF IInv, TypeOK
      <3>2. l = "main" /\ released
        BY <1>1, <2>3, <3>1 DEF StopReceiving, IInv, MainStopsSecond
      <3>3. QED
        BY <2>3, <3>2 DEF StopReceiving, IInv, MainStopsSecond, Listeners
    <2>4. CASE GoroutinesDone(l) \/ WaitTimesOut(l)
      BY <1>1, <1>2, <2>4 DEF GoroutinesDone, WaitTimesOut, IInv, MainStopsSecond, Listeners
    <2>5. CASE CloseConnections(l) \/ Release(l)
      BY <1>1, <1>2, <2>5 DEF CloseConnections, Release, IInv, MainStopsSecond, Listeners
    <2>6. QED BY <2>1, <2>2, <2>3, <2>4, <2>5
  <1>7. QED BY <1>3, <1>4, <1>5, <1>6 DEF IInv

(* The flow of updates.                                                    *)
LEMMA PollInv == ASSUME IInv, NEW n \in 0 .. MaxUpdates, Poll(n) PROVE IInv'
  <1> DEFINE first == Max({forgotten + 1, offset})
  <1>1. /\ first = (IF forgotten + 1 >= offset THEN forgotten + 1 ELSE offset)
        /\ first \in Nat /\ first >= 1
    BY MaxOfTwo, Queues
  <1>2. /\ first + n <= sent + 1 /\ forgotten' = first - 1 /\ batch = <<>>
        /\ batch' = [i \in 1 .. n |-> first + i - 1]
        /\ receiver \in {"polling", "stopped"}
        /\ receiver' = IF receiver = "stopped" THEN "last" ELSE receiver
        /\ UNCHANGED <<sent, signals, life, main, shutdown, offset, channel, loop,
                       current, handled>>
    BY DEF Poll
  <1> HIDE DEF first
  <1>3. /\ batch' \in Seq(1 .. MaxUpdates) /\ Len(batch') = n
        /\ \A i \in 1 .. n : batch'[i] = first + i - 1 /\ batch'[i] \in 1 .. sent
    BY <1>1, <1>2 DEF IInv, TypeOK
  <1>4. TypeOK'
    BY <1>1, <1>2, <1>3 DEF IInv, TypeOK, shutdown
  <1>5. UNCHANGED <<Handling, Received>>
    BY <1>2 DEF Handling, Received
  <1>6. Contiguous'
    BY <1>2, <1>5 DEF IInv, Contiguous
  <1>7. BatchFollows'
    <2>1. Received > 0 => first = offset
      BY <1>1, Queues DEF IInv, BatchFollows
    <2>2. batch' # <<>> => n > 0
      BY <1>2, <1>3
    <2>3. \A i \in 1 .. Len(batch') : batch'[i] = batch'[1] + i - 1 /\ batch'[i] <= sent'
      BY <1>1, <1>2, <1>3
    <2>4. batch' # <<>> => batch'[1] = first
      BY <1>1, <1>3, <2>2
    <2>5. Received > 0 => forgotten' < offset
      BY <1>1, <1>2, <2>1
    <2>6. QED
      BY <1>1, <1>2, <1>5, <2>1, <2>3, <2>4, <2>5 DEF IInv, BatchFollows
  <1>8. LoopIsWaitedFor' /\ MainStopsSecond'
    BY <1>2 DEF IInv, LoopIsWaitedFor, MainStopsSecond, shutdown
  <1>9. QED BY <1>4, <1>6, <1>7, <1>8 DEF IInv

LEMMA PushInv == ASSUME IInv, Push PROVE IInv'
  <1>1. /\ batch # <<>> /\ Len(channel) < Buffer
        /\ channel' = Append(channel, Head(batch)) /\ batch' = Tail(batch)
        /\ offset' = Head(batch) + 1
        /\ UNCHANGED <<outside, main, shutdown, receiver, loop, current, handled>>
    BY DEF Push
  <1>2. /\ Len(batch) \in Nat /\ Len(channel) \in Nat /\ Len(handled) \in Nat
        /\ offset \in Nat /\ sent \in Nat /\ forgotten \in Nat
        /\ Handling \in 0 .. 1 /\ Received \in Nat
        /\ Received = Len(handled) + Handling + Len(channel)
    BY Queues DEF Received
  <1>3. /\ Len(batch) > 0 /\ Head(batch) = batch[1] /\ batch[1] \in 1 .. MaxUpdates
        /\ batch' \in Seq(1 .. MaxUpdates) /\ Len(batch') = Len(batch) - 1
        /\ \A i \in 1 .. Len(batch) - 1 : batch'[i] = batch[i + 1]
    BY <1>1, Queues
  <1>4. /\ channel' \in Seq(1 .. MaxUpdates) /\ Len(channel') = Len(channel) + 1
        /\ \A i \in 1 .. Len(channel) : channel'[i] = channel[i]
        /\ channel'[Len(channel) + 1] = batch[1]
    BY <1>1, <1>3, Queues
  <1>5. /\ batch[1] <= sent
        /\ \A i \in 1 .. Len(batch) : batch[i] = batch[1] + i - 1 /\ batch[i] <= sent
    BY <1>2, <1>3 DEF IInv, BatchFollows
  <1>6. offset' = batch[1] + 1 /\ offset' \in 0 .. MaxUpdates + 1 /\ Len(channel') <= Buffer
    BY <1>1, <1>2, <1>3, <1>4
  <1>7. TypeOK'
    BY <1>1, <1>3, <1>4, <1>6 DEF IInv, TypeOK, outside, shutdown
  <1>8. Handling' = Handling /\ Received' = Received + 1
    <2>1. Handling' = Handling /\ Len(handled') = Len(handled)
      BY <1>1 DEF Handling
    <2>2. QED BY <1>2, <1>4, <2>1 DEF Received
  <1>9. Received > 0 => offset' = offset + 1
    BY <1>1, <1>6 DEF IInv, BatchFollows
  <1>10. Contiguous'
    <2>1. CASE Received = 0
      <3>1. Len(handled) = 0 /\ Len(channel) = 0 /\ Handling = 0
        BY <1>2, <2>1
      <3>2. current = 0
        BY <3>1 DEF Handling
      <3>3. QED BY <1>1, <1>3, <1>4, <1>6, <3>1, <3>2 DEF Contiguous
    <2>2. CASE Received > 0
      <3>1. offset' = offset + 1 /\ batch[1] = offset
        BY <1>1, <1>9, <2>2 DEF IInv, BatchFollows
      <3> USE DEF IInv, Contiguous
      <3>2. \A i \in 1 .. Len(handled') : handled'[i] = offset' - Received' + i - 1
        <4>1. \A i \in 1 .. Len(handled) : handled[i] = offset - Received + i - 1
          OBVIOUS
        <4>2. offset' - Received' = offset - Received /\ handled' = handled
          BY <1>1, <1>2, <1>8, <3>1
        <4>3. QED BY <4>1, <4>2
      <3>3. current' # 0 => current' = offset' - Len(channel') - 1
        <4>1. current # 0 => current = offset - Len(channel) - 1
          OBVIOUS
        <4>2. offset' - Len(channel') = offset - Len(channel)
          BY <1>2, <1>4, <3>1
        <4>3. current' = current
          BY <1>1
        <4>4. QED BY <1>2, <1>4, <3>1, <4>1, <4>2, <4>3
      <3>4. \A i \in 1 .. Len(channel') : channel'[i] = offset' - Len(channel') + i - 1
        <4>1. \A i \in 1 .. Len(channel) : channel[i] = offset - Len(channel) + i - 1
          OBVIOUS
        <4>2. offset' - Len(channel') = offset - Len(channel)
          BY <1>2, <1>4, <3>1
        <4>3. ASSUME NEW i \in 1 .. Len(channel')
              PROVE  channel'[i] = offset' - Len(channel') + i - 1
          <5>1. CASE i \in 1 .. Len(channel)
            BY <1>4, <4>1, <4>2, <5>1
          <5>2. CASE i = Len(channel) + 1
            BY <1>2, <1>4, <3>1, <5>2
          <5>3. QED BY <1>2, <1>4, <5>1, <5>2
        <4>4. QED BY <4>3
      <3>5. QED BY <3>2, <3>3, <3>4 DEF Contiguous
    <2>3. QED BY <1>2, <2>1, <2>2
  <1>11. BatchFollows'
    <2>1. ASSUME NEW i \in 1 .. Len(batch')
          PROVE  batch'[i] = batch[1] + i /\ batch'[i] <= sent
      <3>1. i \in 1 .. Len(batch) - 1 /\ i + 1 \in 1 .. Len(batch)
        BY <1>2, <1>3
      <3>2. batch'[i] = batch[i + 1]
        BY <1>3, <3>1
      <3>3. batch[i + 1] = batch[1] + (i + 1) - 1 /\ batch[i + 1] <= sent
        BY <1>5, <3>1
      <3>4. QED BY <1>2, <1>3, <3>1, <3>2, <3>3
    <2>2. forgotten < batch[1]
      BY <1>1 DEF IInv, BatchFollows
    <2>3. batch' # <<>> => batch'[1] = offset'
      <3>1. batch' # <<>> => Len(batch') > 0
        BY <1>3
      <3>2. QED BY <1>2, <1>3, <1>6, <2>1, <3>1
    <2>4. sent' = sent /\ forgotten' = forgotten
      BY <1>1 DEF outside
    <2>5. forgotten' < offset' /\ offset' <= sent' + 1
      BY <1>2, <1>3, <1>5, <1>6, <2>2, <2>4
    <2>6. ASSUME NEW i \in 1 .. Len(batch')
          PROVE  batch'[i] = batch'[1] + i - 1 /\ batch'[i] <= sent'
      <3>1. 1 \in 1 .. Len(batch') /\ i \in Nat
        BY <1>2, <1>3
      <3>2. batch'[1] = batch[1] + 1 /\ batch'[i] = batch[1] + i
        BY <2>1, <3>1
      <3>3. QED BY <1>3, <2>1, <2>4, <3>1, <3>2
    <2>7. QED
      BY <1>2, <1>3, <1>6, <2>3, <2>4, <2>5, <2>6, <2>2 DEF BatchFollows
  <1>12. LoopIsWaitedFor' /\ MainStopsSecond'
    BY <1>1 DEF IInv, LoopIsWaitedFor, MainStopsSecond, shutdown
  <1>13. QED BY <1>7, <1>10, <1>11, <1>12 DEF IInv

LEMMA TakeUpdateInv == ASSUME IInv, TakeUpdate PROVE IInv'
  <1>1. /\ loop = "running" /\ current = 0 /\ channel # <<>>
        /\ current' = Head(channel) /\ channel' = Tail(channel)
        /\ UNCHANGED <<outside, main, shutdown, receiver, offset, batch, loop, handled>>
    BY DEF TakeUpdate
  <1>2. /\ Len(channel) > 0 /\ Head(channel) = channel[1] /\ channel[1] \in 1 .. MaxUpdates
        /\ channel' \in Seq(1 .. MaxUpdates) /\ Len(channel') = Len(channel) - 1
        /\ \A i \in 1 .. Len(channel) - 1 : channel'[i] = channel[i + 1]
    BY <1>1, Queues
  <1>3. TypeOK'
    BY <1>1, <1>2 DEF IInv, TypeOK, outside, shutdown
  <1>4. Received' = Received
    BY <1>1, <1>2, Queues DEF Handling, Received, IInv
  <1>5. Contiguous'
    <2>1. Len(channel) \in Nat /\ offset \in Nat
      BY Queues
    <2>2. current' = offset' - Len(channel') - 1
      BY <1>1, <1>2, <2>1 DEF IInv, Contiguous
    <2>3. \A i \in 1 .. Len(channel') : channel'[i] = offset' - Len(channel') + i - 1
      BY <1>1, <1>2, <2>1 DEF IInv, Contiguous
    <2>4. \A i \in 1 .. Len(handled') : handled'[i] = offset' - Received' + i - 1
      BY <1>1, <1>4 DEF IInv, Contiguous
    <2>5. QED BY <2>2, <2>3, <2>4 DEF Contiguous
  <1>6. BatchFollows'
    BY <1>1, <1>4 DEF IInv, BatchFollows, outside
  <1>7. LoopIsWaitedFor' /\ MainStopsSecond'
    BY <1>1 DEF IInv, LoopIsWaitedFor, MainStopsSecond, shutdown
  <1>8. QED BY <1>3, <1>5, <1>6, <1>7 DEF IInv

LEMMA HandleUpdateInv == ASSUME IInv, HandleUpdate PROVE IInv'
  <1>1. /\ current # 0 /\ handled' = Append(handled, current) /\ current' = 0
        /\ UNCHANGED <<outside, main, shutdown, receiver, offset, batch, channel, loop>>
    BY DEF HandleUpdate
  <1>2. /\ current \in 1 .. MaxUpdates
        /\ handled' \in Seq(1 .. MaxUpdates) /\ Len(handled') = Len(handled) + 1
        /\ \A i \in 1 .. Len(handled) : handled'[i] = handled[i]
        /\ handled'[Len(handled) + 1] = current
    <2>1. current \in 1 .. MaxUpdates
      BY <1>1 DEF IInv, TypeOK
    <2>2. QED BY <1>1, <2>1, Queues
  <1>3. TypeOK'
    BY <1>1, <1>2 DEF IInv, TypeOK, outside, shutdown
  <1>4. Received' = Received /\ Received = Len(handled) + 1 + Len(channel)
    BY <1>1, <1>2, Queues DEF Handling, Received, IInv
  <1>5. Contiguous'
    <2>1. Len(channel) \in Nat /\ Len(handled) \in Nat /\ offset \in Nat
      BY Queues
    <2>2. current = offset - Len(channel) - 1
      BY <1>1 DEF IInv, Contiguous
    <2>3. \A i \in 1 .. Len(handled') : handled'[i] = offset' - Received' + i - 1
      BY <1>1, <1>2, <1>4, <2>1, <2>2 DEF IInv, Contiguous
    <2>4. QED BY <1>1, <2>3 DEF IInv, Contiguous
  <1>6. BatchFollows'
    BY <1>1, <1>4 DEF IInv, BatchFollows, outside
  <1>7. LoopIsWaitedFor' /\ MainStopsSecond'
    BY <1>1 DEF IInv, LoopIsWaitedFor, MainStopsSecond, shutdown
  <1>8. QED BY <1>3, <1>5, <1>6, <1>7 DEF IInv

LEMMA EndsInv == ASSUME IInv, ReceiverEnds \/ LoopEnds PROVE IInv'
  <1> USE DEF ReceiverEnds, LoopEnds, outside, shutdown
  <1>1. TypeOK'
    BY DEF IInv, TypeOK
  <1>2. Contiguous' /\ BatchFollows'
    BY FlowStays, Queues
  <1>3. LoopIsWaitedFor' /\ MainStopsSecond'
    BY DEF IInv, LoopIsWaitedFor, MainStopsSecond
  <1>4. QED BY <1>1, <1>2, <1>3 DEF IInv

LEMMA NextIInv == ASSUME IInv, [Next]_vars PROVE IInv'
  <1>1. ASSUME NEW l \in Listeners, Stops(l) PROVE IInv'
    BY <1>1, StopsInv
  <1>2. CASE Receives \/ Handles
    BY <1>2, PollInv, PushInv, TakeUpdateInv, HandleUpdateInv, EndsInv DEF Receives, Handles
  <1>3. QED
    BY <1>1, <1>2, StutterInv, RestartInv, OutsideInv, StartsInv DEF Next

(* IInv is an invariant: where the updates are, and how far the process    *)
(* has started or stopped.                                                 *)
THEOREM Invariance == Spec => []IInv
  BY InitIInv, NextIInv, PTL DEF Spec

(* Every queue, position and flag of the process has its type; the channel *)
(* holds at most its capacity (GetUpdatesChan).                            *)
THEOREM TypeCorrect == Spec => []TypeOK
  <1>1. IInv => TypeOK
    BY DEF IInv
  <1>2. QED BY <1>1, Invariance, PTL

(* The updates that a process has received are consecutive and none is     *)
(* skipped, doubled or overtaken on the way through the channel and the    *)
(* loop, for every capacity and whatever panics or stops (handleUpdates,   *)
(* bot.go:313).                                                            *)
THEOREM UpdatesWithoutGap == Spec => []NoGap
  <1>1. ASSUME IInv PROVE NoGap
    <2> DEFINE cur == IF current = 0 THEN <<>> ELSE <<current>>
               received == handled \o cur \o channel
               n == Len(received)
    <2>1. /\ Len(channel) \in Nat /\ Len(handled) \in Nat /\ offset \in Nat
          /\ Handling \in 0 .. 1 /\ Received \in Nat
          /\ Received = Len(handled) + Handling + Len(channel)
          /\ handled \in Seq(1 .. MaxUpdates) /\ channel \in Seq(1 .. MaxUpdates)
      BY <1>1, Queues DEF Received
    <2>2. current \in 0 .. MaxUpdates /\ (current # 0 <=> Handling = 1)
      BY <1>1 DEF IInv, TypeOK, Handling
    <2>3. /\ cur \in Seq(1 .. MaxUpdates) /\ Len(cur) = Handling
          /\ current # 0 => cur[1] = current
      <3>1. CASE current = 0
        BY <3>1 DEF Handling
      <3>2. CASE current # 0
        BY <2>2, <3>2 DEF Handling
      <3>3. QED BY <3>1, <3>2
    <2> HIDE DEF cur
    <2>4. /\ n = Received
          /\ \A i \in 1 .. n : received[i] =
               IF i <= Len(handled) THEN handled[i]
               ELSE IF i <= Len(handled) + Handling THEN cur[i - Len(handled)]
               ELSE channel[i - Len(handled) - Handling]
      <3> DEFINE S == 1 .. MaxUpdates
      <3>1. handled \in Seq(S) /\ cur \in Seq(S) /\ channel \in Seq(S)
        BY <2>1, <2>3
      <3> HIDE DEF S
      <3>2. /\ n = Len(handled) + Len(cur) + Len(channel)
            /\ \A i \in 1 .. n : received[i] =
                 IF i <= Len(handled) THEN handled[i]
                 ELSE IF i <= Len(handled) + Len(cur) THEN cur[i - Len(handled)]
                 ELSE channel[i - Len(handled) - Len(cur)]
        BY ConcatOfThree, <3>1
      <3>3. QED BY <2>1, <2>3, <3>2
    <2> HIDE DEF received, n
    <2>5. /\ \A i \in 1 .. Len(handled) : handled[i] = offset - Received + i - 1
          /\ current # 0 => current = offset - Len(channel) - 1
          /\ \A i \in 1 .. Len(channel) : channel[i] = offset - Len(channel) + i - 1
      BY <1>1 DEF IInv, Contiguous
    <2>6. ASSUME NEW i \in 1 .. n PROVE received[i] = offset - n + i - 1
      <3>1. CASE i <= Len(handled)
        BY <2>1, <2>4, <2>5, <2>6, <3>1
      <3>2. CASE i > Len(handled) /\ i <= Len(handled) + Handling
        <4>1. Handling = 1 /\ i = Len(handled) + 1 /\ current # 0
          BY <2>1, <2>2, <2>4, <2>6, <3>2
        <4>2. received[i] = cur[1]
          BY <2>1, <2>4, <2>6, <4>1
        <4>3. QED BY <2>1, <2>3, <2>4, <2>5, <4>1, <4>2
      <3>3. CASE i > Len(handled) + Handling
        <4>1. PICK k : k = i - Len(handled) - Handling
          OBVIOUS
        <4>2. k \in 1 .. Len(channel) /\ received[i] = channel[k]
          BY <2>1, <2>4, <2>6, <3>3, <4>1
        <4>3. QED BY <2>1, <2>4, <2>5, <4>1, <4>2
      <3>4. QED BY <2>1, <2>4, <2>6, <3>1, <3>2, <3>3
    <2>7. QED BY <2>6 DEF NoGap, n, received, cur
  <1>2. QED BY <1>1, Invariance, PTL

(* An update is handled with closed connections only when the handler      *)
(* outlived the wait of Stop or the loop began after the cancellation      *)
(* (Stop, bot.go:278).                                                     *)
THEOREM ClosedWhenIdle == Spec => []ClosedOnlyWhenIdle
  <1>1. IInv => ClosedOnlyWhenIdle
    BY DEF IInv, LoopIsWaitedFor, ClosedOnlyWhenIdle
  <1>2. QED BY <1>1, Invariance, PTL

(* A second Stop panics only after the first one is complete, whichever    *)
(* signals come when (setupGracefulShutdown, and main in cmd/bot).         *)
THEOREM PanicAfterStop == Spec => []PanicsOnlyAfterStop
  <1>1. IInv => PanicsOnlyAfterStop
    BY DEF IInv, MainStopsSecond, PanicsOnlyAfterStop
  <1>2. QED BY <1>1, Invariance, PTL
-----------------------------------------------------------------------------
(* What UpdatesHandled rests on, fairness aside: an update that Telegram   *)
(* keeps is still to be polled, or on its way to the loop, which runs.     *)

(* Telegram forgets an update only after the process has received it: the  *)
(* first that was received was the first kept at that time.                *)
NoneForgotten ==
  /\ Received = 0 => offset = 0
  /\ Received > 0 => offset - Received <= forgotten + 1
  /\ Received = 0 /\ batch # <<>> => batch[1] <= forgotten + 1

(* The library and the loop go on until Stop has cancelled the context.    *)
GoesOn ==
  /\ receiver \in {"stopped", "last", "ended"} => cancelled
  /\ main \in {"subscribed", "serving"} /\ ~ cancelled => receiver = "polling"
  /\ Serving /\ ~ cancelled => loop = "running"

KeptInv == NoneForgotten /\ GoesOn

(* While the bot serves and nobody stops it, the library polls, the loop   *)
(* runs, and an update that Telegram keeps lies ahead of the next poll     *)
(* that may return it, in the channel, in the handler, or is handled       *)
(* already (startTelegramHandler, handleUpdates).                          *)
UpdatesKept ==
  Serving /\ ~ cancelled =>
    /\ receiver = "polling" /\ loop = "running"
    /\ \A u \in forgotten + 1 .. sent :
         \/ offset <= u \/ u = current
         \/ \E i \in 1 .. Len(handled) : handled[i] = u
         \/ \E i \in 1 .. Len(channel) : channel[i] = u

LEMMA KeptFlow ==
  ASSUME IInv, NoneForgotten, UNCHANGED <<offset, batch, forgotten, Received>>
  PROVE  NoneForgotten'
  BY DEF NoneForgotten

LEMMA ReceivedStays ==
  ASSUME UNCHANGED <<channel, current, handled>>
  PROVE  UNCHANGED Received
  BY DEF Received, Handling

LEMMA InitKept == Init => KeptInv
  BY DEF Init, KeptInv, NoneForgotten, GoesOn, Serving, Received, Handling

LEMMA RestartKept == ASSUME Restart PROVE KeptInv'
  BY DEF Restart, KeptInv, NoneForgotten, GoesOn, Serving, Received, Handling

LEMMA OutsideKept ==
  ASSUME IInv, KeptInv, Send \/ Signal \/ Crash \/ UNCHANGED vars
  PROVE  KeptInv'
  <1> USE DEF Send, Signal, Crash, vars, outside, shutdown, updates
  <1>1. NoneForgotten'
    BY ReceivedStays, KeptFlow DEF KeptInv
  <1>2. GoesOn'
    BY DEF KeptInv, GoesOn, Serving
  <1>3. QED BY <1>1, <1>2 DEF KeptInv

LEMMA StartsKept == ASSUME IInv, KeptInv, Starts PROVE KeptInv'
  <1> USE DEF outside, shutdown, updates, Starts, MainMoves
  <1>1. NoneForgotten'
    BY ReceivedStays, KeptFlow
       DEF KeptInv, Listen, Subscribe, StartLoop, StartReturns, MainListens
  <1>2. GoesOn'
    BY DEF KeptInv, GoesOn, Serving, Listen, Subscribe, StartLoop, StartReturns,
       MainListens, IInv, TypeOK
  <1>3. QED BY <1>1, <1>2 DEF KeptInv

LEMMA StopsKept == ASSUME IInv, KeptInv, NEW l \in Listeners, Stops(l) PROVE KeptInv'
  <1> USE DEF outside, shutdown, updates, Stops, Moves
  <1>1. NoneForgotten'
    BY ReceivedStays, KeptFlow
       DEF KeptInv, Cancel, StopReceiving, GoroutinesDone, WaitTimesOut,
       CloseConnections, Release
  <1>2. GoesOn'
    <2>1. CASE Cancel(l)
      BY <2>1 DEF Cancel, KeptInv, GoesOn
    <2>2. CASE StopReceiving(l)
      BY <2>2 DEF StopReceiving, KeptInv, GoesOn, IInv, LoopIsWaitedFor
    <2>3. CASE GoroutinesDone(l) \/ WaitTimesOut(l) \/ CloseConnections(l) \/ Release(l)
      BY <2>3 DEF GoroutinesDone, WaitTimesOut, CloseConnections, Release, KeptInv,
         GoesOn, Serving
    <2>4. QED BY <2>1, <2>2, <2>3
  <1>3. QED BY <1>1, <1>2 DEF KeptInv

LEMMA PollKept == ASSUME IInv, KeptInv, NEW n \in 0 .. MaxUpdates, Poll(n) PROVE KeptInv'
  <1> DEFINE first == Max({forgotten + 1, offset})
  <1>1. first \in Nat /\ first >= forgotten + 1 /\ first >= offset
    <2>1. forgotten \in Nat /\ offset \in Nat
      BY Queues
    <2>2. first = IF forgotten + 1 >= offset THEN forgotten + 1 ELSE offset
      BY <2>1, MaxOfTwo
    <2> HIDE DEF first
    <2>3. QED BY <2>1, <2>2
  <1>2. /\ forgotten' = first - 1
        /\ batch' = [i \in 1 .. n |-> first + i - 1]
        /\ receiver \in {"polling", "stopped"}
        /\ receiver' = IF receiver = "stopped" THEN "last" ELSE receiver
        /\ UNCHANGED <<main, shutdown, offset, channel, loop, current, handled>>
    BY DEF Poll
  <1> HIDE DEF first
  <1>3. UNCHANGED Received
    BY <1>2, ReceivedStays
  <1>4. batch' # <<>> => batch'[1] = first
    BY <1>1, <1>2
  <1>5. NoneForgotten'
    BY <1>1, <1>2, <1>3, <1>4, Queues DEF KeptInv, NoneForgotten
  <1>6. GoesOn'
    BY <1>2 DEF KeptInv, GoesOn, Serving, shutdown
  <1>7. QED BY <1>5, <1>6 DEF KeptInv

LEMMA PushKept == ASSUME IInv, KeptInv, Push PROVE KeptInv'
  <1>1. /\ batch # <<>> /\ channel' = Append(channel, Head(batch))
        /\ offset' = Head(batch) + 1
        /\ UNCHANGED <<outside, main, shutdown, receiver, loop, current, handled>>
    BY DEF Push
  <1>2. Head(batch) = batch[1] /\ batch[1] \in Nat
    BY <1>1, Queues
  <1>3. Received' = Received + 1
    <2>1. Handling' = Handling /\ Len(handled') = Len(handled)
      BY <1>1 DEF Handling
    <2>2. Len(channel') = Len(channel) + 1
      BY <1>1, <1>2, Queues
    <2>3. Len(handled) \in Nat /\ Len(channel) \in Nat /\ Handling \in 0 .. 1
      BY Queues
    <2>4. QED BY <2>1, <2>2, <2>3 DEF Received
  <1>4. Received > 0 => batch[1] = offset
    BY <1>1 DEF IInv, BatchFollows
  <1>5. NoneForgotten'
    <2>1. offset \in Nat /\ forgotten \in Nat /\ Received \in Nat
      BY Queues
    <2>2. forgotten' = forgotten /\ offset' = batch[1] + 1
      BY <1>1, <1>2 DEF outside
    <2>3. Received > 0 => offset - Received <= forgotten + 1
      BY DEF KeptInv, NoneForgotten
    <2>4. Received = 0 => batch[1] <= forgotten + 1
      BY <1>1 DEF KeptInv, NoneForgotten
    <2>5. offset' - Received' <= forgotten' + 1
      BY <1>2, <1>3, <1>4, <2>1, <2>2, <2>3, <2>4
    <2>6. QED BY <1>3, <2>1, <2>5 DEF NoneForgotten
  <1>6. GoesOn'
    BY <1>1 DEF KeptInv, GoesOn, Serving, shutdown
  <1>7. QED BY <1>5, <1>6 DEF KeptInv

LEMMA LoopKept ==
  ASSUME IInv, KeptInv, TakeUpdate \/ HandleUpdate \/ LoopEnds \/ ReceiverEnds
  PROVE  KeptInv'
  <1>1. UNCHANGED <<main, shutdown, offset, batch, outside>>
    BY DEF TakeUpdate, HandleUpdate, LoopEnds, ReceiverEnds
  <1>2. UNCHANGED Received
    <2>1. CASE TakeUpdate
      BY <2>1, Queues DEF TakeUpdate, Received, Handling, IInv, TypeOK
    <2>2. CASE HandleUpdate
      BY <2>2, Queues DEF HandleUpdate, Received, Handling, IInv, TypeOK
    <2>3. CASE LoopEnds \/ ReceiverEnds
      BY <2>3, ReceivedStays DEF LoopEnds, ReceiverEnds
    <2>4. QED BY <2>1, <2>2, <2>3
  <1>3. NoneForgotten'
    BY <1>1, <1>2, KeptFlow DEF KeptInv, outside
  <1>4. GoesOn'
    BY <1>1 DEF TakeUpdate, HandleUpdate, LoopEnds, ReceiverEnds, KeptInv, GoesOn,
       Serving, shutdown
  <1>5. QED BY <1>3, <1>4 DEF KeptInv

LEMMA NextKept == ASSUME IInv, KeptInv, [Next]_vars PROVE KeptInv'
  <1>1. CASE Receives \/ Handles
    BY <1>1, PollKept, PushKept, LoopKept DEF Receives, Handles
  <1>2. QED
    BY <1>1, OutsideKept, RestartKept, StartsKept, StopsKept DEF Next

(* What was received goes back, without a gap, to before what Telegram     *)
(* still keeps.                                                            *)
LEMMA KeptIsReceived == ASSUME IInv, KeptInv PROVE UpdatesKept
  <1>1. ASSUME NEW u \in forgotten + 1 .. sent, u < offset
        PROVE  \/ u = current
               \/ \E i \in 1 .. Len(handled) : handled[i] = u
               \/ \E i \in 1 .. Len(channel) : channel[i] = u
    <2>1. /\ Len(channel) \in Nat /\ Len(handled) \in Nat /\ Handling \in 0 .. 1
          /\ offset \in Nat /\ forgotten \in Nat /\ Received \in Nat /\ u \in Nat
          /\ Received = Len(handled) + Handling + Len(channel)
      BY Queues DEF Received
    <2>2. offset - Received <= u
      BY <1>1, <2>1 DEF KeptInv, NoneForgotten
    <2>3. CASE u < offset - Received + Len(handled)
      <3>1. PICK i \in 1 .. Len(handled) : u = offset - Received + i - 1
        <4>1. u - (offset - Received) + 1 \in 1 .. Len(handled)
          BY <2>1, <2>2, <2>3
        <4>2. u = offset - Received + (u - (offset - Received) + 1) - 1
          BY <2>1
        <4>3. QED BY <4>1, <4>2
      <3>2. handled[i] = u
        BY <3>1 DEF IInv, Contiguous
      <3>3. QED BY <3>2
    <2>4. CASE u >= offset - Len(channel)
      <3>1. PICK i \in 1 .. Len(channel) : u = offset - Len(channel) + i - 1
        BY <1>1, <2>1, <2>4
      <3>2. channel[i] = u
        BY <3>1 DEF IInv, Contiguous
      <3>3. QED BY <3>2
    <2>5. CASE u >= offset - Received + Len(handled) /\ u < offset - Len(channel)
      <3>1. Handling = 1 /\ u = offset - Len(channel) - 1
        BY <2>1, <2>5
      <3>2. QED BY <3>1 DEF Handling, IInv, Contiguous
    <2>6. QED BY <2>1, <2>3, <2>4, <2>5
  <1>2. \A u \in forgotten + 1 .. sent : u < offset \/ offset <= u
    BY Queues
  <1>3. QED BY <1>1, <1>2 DEF UpdatesKept, KeptInv, GoesOn, Serving

(* A bot that serves never leaves an update behind that Telegram keeps,    *)
(* for every capacity of the channel and whatever panics: it is on its way *)
(* to a loop that runs.                                                    *)
THEOREM KeptUpdatesWait == Spec => []UpdatesKept
  <1>1. Spec => []KeptInv
    BY InitKept, NextKept, Invariance, PTL DEF Spec
  <1>2. QED BY <1>1, KeptIsReceived, Invariance, PTL
=============================================================================
