------------------------ MODULE PubSubCommands_proofs ------------------------
(***************************************************************************)
(* Proofs about PubSubCommands, for every set of calls and every number of *)
(* lives and faults: the inductive invariant IInv, the safety properties   *)
(* that it contains, and the refinement of CommandRPC.                     *)
(***************************************************************************)
EXTENDS PubSubCommands, TLAPS

(* An attempt has the response channel it subscribed to, and no other.     *)
EmptyUntilSubscribed ==
  \A c \in Calls :
    /\ state[c] \in {"idle", "streams", "fallback"} => inbox[c] = {}
    /\ answer[c] # 0 => state[c] = "done"

(* A command that the agent has, or has executed, was published.           *)
Published(cmd) ==
  \/ cmd[2] < attempt[cmd[1]]
  \/ /\ cmd[2] = attempt[cmd[1]]
     /\ state[cmd[1]] \in {"unconfirmed", "waiting", "done", "failed"}

IdleIsFirst == \A c \in Calls : state[c] = "idle" => attempt[c] = 1

OnlyPublished ==
  /\ \A i \in 1 .. Len(queue) : Published(queue[i])
  /\ \A i \in 1 .. Len(runs) : Published(runs[i])

(* Two copies of a command, in the queue or executed, are a repetition.    *)
QueuedOnce ==
  /\ \A i, j \in 1 .. Len(queue) : queue[i] = queue[j] /\ i # j => queue[i] \in repeated
  /\ \A i \in 1 .. Len(queue), j \in 1 .. Len(runs) :
       queue[i] = runs[j] => queue[i] \in repeated

(* The agent answers what it has just executed, and may be started again.  *)
AgentKnows ==
  /\ agentPc = "executed" => Len(runs) > 0
  /\ agentPc = "down" => life < MaxLives

IInv == /\ TypeOK /\ EmptyUntilSubscribed /\ IdleIsFirst /\ OnlyPublished
        /\ QueuedOnce /\ AgentKnows
        /\ OwnAnswer /\ AtMostOnce /\ NoLostReply

USE ConstantsAssumption DEF ConstantsAssumption

-----------------------------------------------------------------------------
(* Sequences and attempts.                                                 *)

(* A message more at the end of a queue or of the history.                 *)
LEMMA AppendFacts ==
  ASSUME NEW S, NEW s \in Seq(S), NEW e \in S
  PROVE  /\ Append(s, e) \in Seq(S)
         /\ Len(Append(s, e)) = Len(s) + 1
         /\ \A i \in 1 .. Len(s) : Append(s, e)[i] = s[i]
         /\ Append(s, e)[Len(s) + 1] = e
  OBVIOUS

(* The first message is taken: the others move up by one.                  *)
LEMMA TailFacts ==
  ASSUME NEW S, NEW s \in Seq(S), s # <<>>
  PROVE  /\ Len(s) > 0 /\ Head(s) = s[1] /\ Head(s) \in S
         /\ Tail(s) \in Seq(S)
         /\ Len(Tail(s)) = Len(s) - 1
         /\ \A i \in 1 .. Len(Tail(s)) : Tail(s)[i] = s[i + 1]
  OBVIOUS

LEMMA CommandFacts ==
  ASSUME TypeOK, NEW c \in Calls
  PROVE  /\ CommandOf(c) \in Command
         /\ CommandOf(c)[1] = c /\ CommandOf(c)[2] = attempt[c]
  BY DEF TypeOK, CommandOf, Command

(* What a failed attempt changes: the call alone, which goes on to its     *)
(* second attempt or has failed.                                           *)
LEMMA AttemptFailsFacts ==
  ASSUME TypeOK, NEW c \in Calls, AttemptFails(c)
  PROVE  /\ state' \in [Calls -> CallStates] /\ attempt' \in [Calls -> {1, 2}]
         /\ expired' \in [Calls -> BOOLEAN]
         /\ \A d \in Calls : d # c => /\ state'[d] = state[d] /\ attempt'[d] = attempt[d]
                                      /\ inbox'[d] = inbox[d]
         /\ inbox' \in [Calls -> SUBSET (1 .. Len(runs))]
         /\ \/ /\ state'[c] = "fallback" /\ attempt[c] = 1 /\ attempt'[c] = 2
               /\ inbox'[c] = {}
            \/ /\ state'[c] = "failed" /\ attempt'[c] = attempt[c]
               /\ inbox'[c] = inbox[c]
  BY DEF AttemptFails, Move, TypeOK, CallStates

-----------------------------------------------------------------------------
(* Types.                                                                  *)

LEMMA DeliveredType ==
  ASSUME TypeOK, NEW c \in Calls, Delivered(c) \/ Dropped(c)
  PROVE  queue' \in Seq(Command) /\ lost' \in SUBSET Command
  <1>1. CommandOf(c) \in Command /\ queue \in Seq(Command) /\ lost \in SUBSET Command
    BY CommandFacts DEF TypeOK
  <1>2. Append(queue, CommandOf(c)) \in Seq(Command)
    BY <1>1, AppendFacts
  <1>3. QED BY <1>1, <1>2 DEF Delivered, Dropped

LEMMA FaultType == ASSUME TypeOK, Fault \/ NoFault PROVE faults' \in 0 .. MaxFaults
  BY DEF TypeOK, Fault, NoFault

LEMMA BotTypeOK == ASSUME TypeOK, NEW c \in Calls, Bot(c) PROVE TypeOK'
  <1> USE DEF TypeOK, CallStates, botVars, agentVars
  <1>1. CASE Call(c) BY <1>1 DEF Call, Move
  <1>2. CASE StreamsFails(c) BY <1>2, FaultType DEF StreamsFails, Move
  <1>3. CASE StreamsTimeout(c) BY <1>3 DEF StreamsTimeout, Move
  <1>4. CASE Subscribe(c) BY <1>4 DEF Subscribe, Move
  <1>5. CASE SubscribeFails(c)
    BY <1>5, FaultType, AttemptFailsFacts DEF SubscribeFails
  <1>6. CASE Publish(c)
    BY <1>6, FaultType, DeliveredType, CommandFacts DEF Publish, Publishes, Move
  <1>7. CASE PublishUnconfirmed(c)
    BY <1>7, FaultType, DeliveredType, CommandFacts DEF PublishUnconfirmed, Publishes, Move
  <1>8. CASE PublishFails(c) BY <1>8, FaultType, AttemptFailsFacts DEF PublishFails
  <1>9. CASE Receive(c) BY <1>9 DEF Receive, Move
  <1>10. CASE Reject(c) BY <1>10 DEF Reject
  <1>11. CASE Expire(c) BY <1>11 DEF Expire
  <1>12. CASE TimeoutWaiting(c) \/ ReceiveError(c)
    BY <1>12, AttemptFailsFacts DEF TimeoutWaiting, ReceiveError
  <1>13. QED
    BY <1>1, <1>2, <1>3, <1>4, <1>5, <1>6, <1>7, <1>8, <1>9, <1>10, <1>11, <1>12 DEF Bot

LEMMA AgentTypeOK == ASSUME TypeOK, AgentKnows, Agent PROVE TypeOK'
  <1> USE DEF TypeOK, botVars, callVars
  <1>1. ASSUME queue # <<>>, runs' = Append(runs, Head(queue)), UNCHANGED <<inbox, answer>>
        PROVE  /\ runs' \in Seq(Command) /\ Head(queue) \in Command
               /\ inbox' \in [Calls -> SUBSET (1 .. Len(runs'))]
               /\ answer' \in [Calls -> 0 .. Len(runs')]
               /\ Tail(queue) \in Seq(Command)
    <2>1. /\ runs' \in Seq(Command) /\ Len(runs') = Len(runs) + 1
          /\ Head(queue) \in Command /\ Tail(queue) \in Seq(Command)
      BY <1>1, AppendFacts, TailFacts
    <2>2. QED BY <1>1, <2>1
  <1>2. CASE Execute BY <1>1, <1>2 DEF Execute
  <1>3. CASE HandlerPanics BY <1>1, <1>3, FaultType DEF HandlerPanics
  <1>4. ASSUME agentPc = "executed"
        PROVE  Len(runs) \in 1 .. Len(runs) /\ runs[Len(runs)] \in Command
    BY <1>4 DEF AgentKnows
  <1>5. CASE SendResponse BY <1>4, <1>5 DEF SendResponse
  <1>6. CASE SendResponseFails BY <1>4, <1>6, FaultType DEF SendResponseFails
  <1>7. CASE AgentStops
    <2>1. {queue[i] : i \in 1 .. Len(queue)} \subseteq Command
      OBVIOUS
    <2>2. lost' \in SUBSET Command
      BY <1>4, <1>7, <2>1 DEF AgentStops
    <2>3. QED BY <1>7, <2>2 DEF AgentStops
  <1>8. CASE AgentStarts BY <1>8 DEF AgentStarts, AgentKnows
  <1>9. QED BY <1>2, <1>3, <1>5, <1>6, <1>7, <1>8 DEF Agent

LEMMA NextTypeOK == TypeOK /\ AgentKnows /\ [Next]_vars => TypeOK'
  <1> SUFFICES ASSUME TypeOK, AgentKnows, [Next]_vars PROVE TypeOK'
    OBVIOUS
  <1>1. CASE BotStops
    BY <1>1, FaultType DEF BotStops, TypeOK, callVars, agentVars
  <1>2. CASE BotRestart
    BY <1>2, FaultType DEF BotRestart, TypeOK, CallStates, agentVars
  <1>3. CASE Finished \/ UNCHANGED vars
    BY <1>3 DEF Finished, vars, TypeOK, botVars, callVars, agentVars
  <1>4. QED BY <1>1, <1>2, <1>3, BotTypeOK, AgentTypeOK DEF Next

-----------------------------------------------------------------------------
(* The steps of a call that do not publish: the agent, the queue and the   *)
(* history stay as they are, and so do the other calls.                    *)

Quiet(c) ==
  \/ Call(c) \/ StreamsFails(c) \/ StreamsTimeout(c) \/ Subscribe(c) \/ SubscribeFails(c)
  \/ PublishFails(c) \/ Receive(c) \/ ReceiveError(c) \/ Reject(c) \/ Expire(c)
  \/ TimeoutWaiting(c)

LEMMA QuietFrame ==
  ASSUME IInv, NEW c \in Calls, Quiet(c)
  PROVE  /\ UNCHANGED <<agentVars, lost, repeated>>
         /\ \A d \in Calls \ {c} : /\ state'[d] = state[d] /\ attempt'[d] = attempt[d]
                                   /\ inbox'[d] = inbox[d] /\ answer'[d] = answer[d]
  <1> USE DEF IInv, TypeOK, CallStates
  <1>1. CASE Call(c) BY <1>1 DEF Call, Move
  <1>2. CASE StreamsFails(c) BY <1>2 DEF StreamsFails, Move
  <1>3. CASE StreamsTimeout(c) BY <1>3 DEF StreamsTimeout, Move
  <1>4. CASE Subscribe(c) BY <1>4 DEF Subscribe, Move
  <1>5. CASE SubscribeFails(c) BY <1>5, AttemptFailsFacts DEF SubscribeFails
  <1>6. CASE PublishFails(c) BY <1>6, AttemptFailsFacts DEF PublishFails
  <1>7. CASE Receive(c) BY <1>7 DEF Receive, Move
  <1>8. CASE Reject(c) BY <1>8 DEF Reject
  <1>9. CASE Expire(c) BY <1>9 DEF Expire
  <1>10. CASE TimeoutWaiting(c) \/ ReceiveError(c)
    BY <1>10, AttemptFailsFacts DEF TimeoutWaiting, ReceiveError
  <1>11. QED
    BY <1>1, <1>2, <1>3, <1>4, <1>5, <1>6, <1>7, <1>8, <1>9, <1>10 DEF Quiet

(* What is published stays so, and the response channel belongs to the     *)
(* attempt: a new attempt begins with an empty one.                        *)
LEMMA QuietFacts ==
  ASSUME IInv, NEW c \in Calls, Quiet(c)
  PROVE  /\ \/ attempt'[c] = attempt[c]
            \/ attempt'[c] > attempt[c] /\ inbox'[c] = {}
         /\ \/ attempt'[c] > attempt[c]
            \/ state[c] \in {"unconfirmed", "waiting", "done", "failed"} =>
                 state'[c] \in {"unconfirmed", "waiting", "done", "failed"}
         /\ state'[c] = "idle" => state[c] = "idle" /\ attempt'[c] = attempt[c]
         /\ state'[c] \in {"idle", "streams", "fallback"} => inbox'[c] = {}
         /\ inbox'[c] \subseteq inbox[c]
         /\ state'[c] = "waiting" => state[c] = "waiting" /\ attempt'[c] = attempt[c]
         /\ state'[c] = "waiting" /\ attempt[c] = 1 => inbox'[c] = inbox[c]
         /\ \/ answer'[c] = answer[c] /\ (state[c] = "done" => state'[c] = "done")
            \/ answer'[c] \in inbox[c] /\ attempt'[c] = attempt[c] /\ state'[c] = "done"
  <1> USE DEF IInv, TypeOK, CallStates, EmptyUntilSubscribed
  <1>1. CASE Call(c) BY <1>1 DEF Call, Move, IdleIsFirst
  <1>2. CASE StreamsFails(c) BY <1>2 DEF StreamsFails, Move
  <1>3. CASE StreamsTimeout(c) BY <1>3 DEF StreamsTimeout, Move
  <1>4. CASE Subscribe(c) BY <1>4 DEF Subscribe, Move
  <1>5. CASE SubscribeFails(c) BY <1>5, AttemptFailsFacts DEF SubscribeFails
  <1>6. CASE PublishFails(c) BY <1>6, AttemptFailsFacts DEF PublishFails
  <1>7. CASE Receive(c) BY <1>7 DEF Receive, Move
  <1>8. CASE Reject(c) BY <1>8 DEF Reject, Accepts
  <1>9. CASE Expire(c) BY <1>9 DEF Expire
  <1>10. CASE TimeoutWaiting(c) \/ ReceiveError(c)
    BY <1>10, AttemptFailsFacts DEF TimeoutWaiting, ReceiveError
  <1>11. QED
    BY <1>1, <1>2, <1>3, <1>4, <1>5, <1>6, <1>7, <1>8, <1>9, <1>10 DEF Quiet

(* A call that is done takes no step any more.                             *)
LEMMA DoneStays == ASSUME NEW c \in Calls, Quiet(c), state[c] = "done" PROVE FALSE
  BY DEF Quiet, Call, StreamsFails, StreamsTimeout, Subscribe, SubscribeFails, PublishFails,
         Receive, ReceiveError, Reject, Expire, TimeoutWaiting

LEMMA QuietInv == ASSUME IInv, NEW c \in Calls, Quiet(c), TypeOK' PROVE IInv'
  <1>1. /\ UNCHANGED <<agentVars, lost, repeated>>
        /\ \A d \in Calls \ {c} : /\ state'[d] = state[d] /\ attempt'[d] = attempt[d]
                                  /\ inbox'[d] = inbox[d] /\ answer'[d] = answer[d]
    BY QuietFrame
  <1> USE DEF IInv, agentVars
  <1>2. EmptyUntilSubscribed' /\ IdleIsFirst'
    BY <1>1, QuietFacts DEF EmptyUntilSubscribed, IdleIsFirst
  <1>3. ASSUME NEW cmd \in Command, Published(cmd) PROVE Published(cmd)'
    <2>1. cmd[1] \in Calls /\ cmd[2] \in {1, 2}
      BY DEF Command
    <2>2. attempt[cmd[1]] \in {1, 2} /\ attempt'[cmd[1]] \in {1, 2}
      BY <2>1 DEF TypeOK
    <2>3. CASE cmd[1] = c BY <1>3, <2>1, <2>2, <2>3, QuietFacts DEF Published
    <2>4. CASE cmd[1] # c BY <1>1, <1>3, <2>1, <2>4 DEF Published
    <2>5. QED BY <2>3, <2>4
  <1>4. OnlyPublished'
    <2>1. /\ \A i \in 1 .. Len(queue) : queue[i] \in Command
          /\ \A i \in 1 .. Len(runs) : runs[i] \in Command
      BY DEF TypeOK
    <2>2. QED BY <1>1, <1>3, <2>1 DEF OnlyPublished
  <1>5. QueuedOnce' /\ AgentKnows' /\ AtMostOnce'
    BY <1>1 DEF QueuedOnce, AgentKnows, AtMostOnce
  <1>6. OwnAnswer'
    <2> SUFFICES ASSUME NEW d \in Calls, NEW i \in inbox'[d] \cup ({answer'[d]} \ {0})
                 PROVE  runs[i] = CommandOf(d)'
      BY <1>1 DEF OwnAnswer
    <2>1. CASE d # c
      BY <1>1, <2>1 DEF OwnAnswer, CommandOf
    <2>2. CASE d = c /\ attempt'[c] = attempt[c]
      BY <2>2, QuietFacts DEF OwnAnswer, CommandOf
    <2>3. CASE d = c /\ attempt'[c] # attempt[c]
      <3>1. inbox'[c] = {} /\ answer'[c] = answer[c]
        BY <2>3, QuietFacts
      <3>2. answer[c] # 0 /\ state[c] = "done"
        BY <2>3, <3>1 DEF EmptyUntilSubscribed
      <3>3. QED BY <2>3, <3>2, DoneStays
    <2>4. QED BY <2>1, <2>2, <2>3
  <1>7. NoLostReply'
    <2> SUFFICES ASSUME NEW d \in Calls, state'[d] = "waiting", Accepts(d)'
                 PROVE  (InHands(CommandOf(d)) \/ inbox[d] # {} \/ CommandOf(d) \in lost)'
      BY DEF NoLostReply
    <2>1. attempt'[d] = attempt[d] /\ state[d] = "waiting" /\ inbox'[d] = inbox[d] /\ Accepts(d)
      BY <1>1, QuietFacts DEF Accepts
    <2>2. QED BY <1>1, <2>1 DEF NoLostReply, InHands, CommandOf
  <1>8. QED BY <1>2, <1>4, <1>5, <1>6, <1>7

-----------------------------------------------------------------------------
(* Publishing: the command is new, or it is a repetition.                  *)

LEMMA PublishFacts ==
  ASSUME IInv, NEW c \in Calls, Publish(c) \/ PublishUnconfirmed(c)
  PROVE  /\ UNCHANGED <<attempt, inbox, answer, runs, agentPc, life>>
         /\ state[c] \in {"subscribed", "unconfirmed"}
         /\ state'[c] \in {"waiting", "unconfirmed"}
         /\ \A d \in Calls \ {c} : state'[d] = state[d]
         /\ repeated \subseteq repeated'
         /\ state[c] = "unconfirmed" => CommandOf(c) \in repeated'
         /\ \/ queue' = Append(queue, CommandOf(c)) /\ lost' = lost
            \/ queue' = queue /\ lost' = lost \cup {CommandOf(c)}
  BY DEF IInv, TypeOK, CallStates, Publish, PublishUnconfirmed, Publishes, Delivered,
         Dropped, Move

LEMMA PublishInv ==
  ASSUME IInv, NEW c \in Calls, Publish(c) \/ PublishUnconfirmed(c), TypeOK'
  PROVE  IInv'
  <1> USE DEF IInv
  <1>1. EmptyUntilSubscribed' /\ IdleIsFirst' /\ AgentKnows'
    BY PublishFacts DEF EmptyUntilSubscribed, IdleIsFirst, AgentKnows
  <1>2. OwnAnswer' /\ AtMostOnce'
    BY PublishFacts DEF OwnAnswer, AtMostOnce, CommandOf
  <1>3. CommandOf(c) \in Command /\ CommandOf(c)[1] = c /\ CommandOf(c)[2] = attempt[c]
    BY CommandFacts
  <1>4. /\ queue \in Seq(Command) /\ runs \in Seq(Command)
        /\ \A i \in 1 .. Len(queue) : queue[i] \in Command
        /\ \A i \in 1 .. Len(runs) : runs[i] \in Command
    BY DEF TypeOK
  <1>5. /\ Len(queue') \in {Len(queue), Len(queue) + 1}
        /\ \A i \in 1 .. Len(queue) : queue'[i] = queue[i]
        /\ Len(queue') = Len(queue) + 1 => queue'[Len(queue) + 1] = CommandOf(c)
    BY <1>3, <1>4, PublishFacts, AppendFacts
  <1>7. Published(CommandOf(c))'
    BY <1>3, PublishFacts DEF Published, CommandOf
  <1>8. OnlyPublished'
    <2>1. \A i \in 1 .. Len(queue') : Published(queue[i])'
      <3> TAKE i \in 1 .. Len(queue')
      <3>1. CASE i \in 1 .. Len(queue)
        <4>1. queue'[i] = queue[i] /\ queue[i] \in Command /\ Published(queue[i])
          BY <1>4, <1>5, <3>1 DEF OnlyPublished
        <4>2. QED BY <4>1, PublishFacts DEF Published, Command
      <3>2. CASE i = Len(queue) + 1
        BY <1>5, <1>7, <3>2, PublishFacts DEF CommandOf
      <3>3. QED BY <1>4, <1>5, <3>1, <3>2
    <2>2. \A i \in 1 .. Len(runs') : Published(runs[i])'
      BY <1>4, PublishFacts DEF OnlyPublished, Published, Command
    <2>3. QED BY <2>1, <2>2 DEF OnlyPublished
  <1>9. CommandOf(c) \notin repeated' =>
          /\ \A i \in 1 .. Len(queue) : queue[i] # CommandOf(c)
          /\ \A i \in 1 .. Len(runs) : runs[i] # CommandOf(c)
    <2> SUFFICES ASSUME CommandOf(c) \notin repeated'
                 PROVE  ~ Published(CommandOf(c))
      BY DEF OnlyPublished
    <2>1. state[c] = "subscribed"
      BY PublishFacts
    <2>2. attempt[c] \in {1, 2}
      BY DEF TypeOK
    <2>3. QED BY <1>3, <2>1, <2>2 DEF Published
  <1>10. QueuedOnce'
    <2>1. ASSUME NEW i \in 1 .. Len(queue'), NEW j \in 1 .. Len(queue'),
                 queue'[i] = queue'[j], i # j
          PROVE  queue'[i] \in repeated'
      <3>1. CASE i \in 1 .. Len(queue) /\ j \in 1 .. Len(queue)
        BY <1>5, <2>1, <3>1, PublishFacts DEF QueuedOnce
      <3>2. CASE i = Len(queue) + 1 /\ j \in 1 .. Len(queue)
        BY <1>5, <1>9, <2>1, <3>2
      <3>3. CASE j = Len(queue) + 1 /\ i \in 1 .. Len(queue)
        BY <1>5, <1>9, <2>1, <3>3
      <3>4. QED BY <1>4, <1>5, <2>1, <3>1, <3>2, <3>3
    <2>2. ASSUME NEW i \in 1 .. Len(queue'), NEW j \in 1 .. Len(runs'), queue'[i] = runs'[j]
          PROVE  queue'[i] \in repeated'
      <3>1. CASE i \in 1 .. Len(queue)
        BY <1>5, <2>2, <3>1, PublishFacts DEF QueuedOnce
      <3>2. CASE i = Len(queue) + 1
        BY <1>5, <1>9, <2>2, <3>2, PublishFacts
      <3>3. QED BY <1>4, <1>5, <3>1, <3>2
    <2>3. QED BY <2>1, <2>2 DEF QueuedOnce
  <1>11. NoLostReply'
    <2> SUFFICES ASSUME NEW d \in Calls, state'[d] = "waiting", Accepts(d)'
                 PROVE  (InHands(CommandOf(d)) \/ inbox[d] # {} \/ CommandOf(d) \in lost)'
      BY DEF NoLostReply
    <2>1. CommandOf(d)' = CommandOf(d)
      BY PublishFacts DEF CommandOf
    <2>2. CASE d # c
      <3>1. InHands(CommandOf(d)) \/ inbox[d] # {} \/ CommandOf(d) \in lost
        BY <2>2, PublishFacts DEF NoLostReply, Accepts
      <3>2. CASE InHands(CommandOf(d))
        BY <1>4, <1>5, <2>1, <3>2, PublishFacts DEF InHands
      <3>3. CASE inbox[d] # {} \/ CommandOf(d) \in lost
        BY <2>1, <3>3, PublishFacts
      <3>4. QED BY <3>1, <3>2, <3>3
    <2>3. CASE d = c
      BY <1>4, <1>5, <2>1, <2>3, PublishFacts, AppendFacts, <1>3 DEF InHands
    <2>4. QED BY <2>2, <2>3
  <1>12. QED BY <1>1, <1>2, <1>8, <1>10, <1>11

-----------------------------------------------------------------------------
(* The bot as a whole stops or restarts.                                   *)

LEMMA BotStopsInv == ASSUME IInv, BotStops, TypeOK' PROVE IInv'
  <1>1. UNCHANGED <<state, attempt, inbox, answer, queue, agentPc, life, runs, lost, repeated>>
    BY DEF BotStops, callVars, agentVars
  <1> USE DEF IInv
  <1>2. /\ EmptyUntilSubscribed' /\ IdleIsFirst' /\ OnlyPublished'
        /\ QueuedOnce' /\ AgentKnows'
    BY <1>1 DEF EmptyUntilSubscribed, IdleIsFirst, OnlyPublished, Published, QueuedOnce, AgentKnows
  <1>3. OwnAnswer' /\ AtMostOnce' /\ NoLostReply'
    BY <1>1 DEF OwnAnswer, AtMostOnce, NoLostReply, InHands, CommandOf, Accepts
  <1>4. QED BY <1>2, <1>3

LEMMA BotRestartInv == ASSUME IInv, BotRestart, TypeOK' PROVE IInv'
  <1>1. /\ UNCHANGED <<attempt, inbox, answer, queue, agentPc, life, runs, lost, repeated>>
        /\ \A c \in Calls : state'[c] = IF state[c] \in {"idle", "done"} THEN state[c] ELSE "failed"
    BY DEF BotRestart, agentVars
  <1> USE DEF IInv
  <1>2. EmptyUntilSubscribed' /\ IdleIsFirst' /\ QueuedOnce' /\ AgentKnows'
    BY <1>1 DEF EmptyUntilSubscribed, IdleIsFirst, QueuedOnce, AgentKnows
  <1>3. OwnAnswer' /\ AtMostOnce' /\ NoLostReply'
    BY <1>1 DEF OwnAnswer, AtMostOnce, NoLostReply, CommandOf
  <1>4. ASSUME NEW cmd \in Command, Published(cmd) PROVE Published(cmd)'
    BY <1>1, <1>4 DEF Published, Command
  <1>5. OnlyPublished'
    <2>1. /\ \A i \in 1 .. Len(queue) : queue[i] \in Command
          /\ \A i \in 1 .. Len(runs) : runs[i] \in Command
      BY DEF TypeOK
    <2>2. QED BY <1>1, <1>4, <2>1 DEF OnlyPublished
  <1>6. QED BY <1>2, <1>3, <1>5

-----------------------------------------------------------------------------
(* The agent.                                                              *)

(* The first command of the queue is executed.                             *)
Takes ==
  /\ queue # <<>> /\ agentPc = "idle"
  /\ runs' = Append(runs, Head(queue)) /\ queue' = Tail(queue)
  /\ UNCHANGED <<state, attempt, inbox, answer, life, repeated>>
  /\ lost \subseteq lost'
  /\ \/ agentPc' = "executed"
     \/ agentPc' = "idle" /\ Head(queue) \in lost'

LEMMA TakesFacts ==
  ASSUME TypeOK, Takes
  PROVE  /\ Len(queue) \in Nat \ {0} /\ Len(queue') = Len(queue) - 1
         /\ \A i \in 1 .. Len(queue') : queue'[i] = queue[i + 1] /\ i + 1 \in 1 .. Len(queue)
         /\ Len(runs) \in Nat /\ Len(runs') = Len(runs) + 1
         /\ \A i \in 1 .. Len(runs) : runs'[i] = runs[i]
         /\ runs'[Len(runs) + 1] = queue[1] /\ Head(queue) = queue[1]
         /\ 1 \in 1 .. Len(queue)
  <1>1. queue \in Seq(Command) /\ runs \in Seq(Command) /\ queue # <<>>
    BY DEF TypeOK, Takes
  <1>2. Head(queue) \in Command
    BY <1>1, TailFacts
  <1>3. QED BY <1>1, <1>2, TailFacts, AppendFacts DEF Takes

LEMMA TakesInv == ASSUME IInv, Takes, TypeOK' PROVE IInv'
  <1> USE DEF IInv
  <1>1. UNCHANGED <<state, attempt, inbox, answer, life, repeated>>
    BY DEF Takes
  <1>2. EmptyUntilSubscribed' /\ IdleIsFirst' /\ AgentKnows'
    BY <1>1, TakesFacts DEF EmptyUntilSubscribed, IdleIsFirst, AgentKnows, Takes
  <1>3. OwnAnswer'
    <2>1. \A c \in Calls : inbox[c] \cup ({answer[c]} \ {0}) \subseteq 1 .. Len(runs)
      BY DEF TypeOK
    <2>2. QED BY <1>1, <2>1, TakesFacts DEF OwnAnswer, CommandOf
  <1>4. OnlyPublished'
    <2>1. \A i \in 1 .. Len(queue') : Published(queue[i])'
      BY <1>1, TakesFacts DEF OnlyPublished, Published
    <2>2. \A i \in 1 .. Len(runs') : Published(runs[i])'
      <3> TAKE i \in 1 .. Len(runs')
      <3>1. CASE i \in 1 .. Len(runs)
        BY <1>1, <3>1, TakesFacts DEF OnlyPublished, Published
      <3>2. CASE i = Len(runs) + 1
        BY <1>1, <3>2, TakesFacts DEF OnlyPublished, Published
      <3>3. QED BY <3>1, <3>2, TakesFacts
    <2>3. QED BY <2>1, <2>2 DEF OnlyPublished
  <1>5. QueuedOnce'
    <2>1. ASSUME NEW i \in 1 .. Len(queue'), NEW j \in 1 .. Len(queue'),
                 queue'[i] = queue'[j], i # j
          PROVE  queue'[i] \in repeated'
      BY <1>1, <2>1, TakesFacts DEF QueuedOnce
    <2>2. ASSUME NEW i \in 1 .. Len(queue'), NEW j \in 1 .. Len(runs'), queue'[i] = runs'[j]
          PROVE  queue'[i] \in repeated'
      <3>1. CASE j \in 1 .. Len(runs)
        BY <1>1, <2>2, <3>1, TakesFacts DEF QueuedOnce
      <3>2. CASE j = Len(runs) + 1
        BY <1>1, <2>2, <3>2, TakesFacts DEF QueuedOnce
      <3>3. QED BY <3>1, <3>2, TakesFacts
    <2>3. QED BY <2>1, <2>2 DEF QueuedOnce
  <1>6. AtMostOnce'
    <2> SUFFICES ASSUME NEW i \in 1 .. Len(runs'), NEW j \in 1 .. Len(runs'),
                        runs'[i] = runs'[j], i # j
                 PROVE  runs'[i] \in repeated'
      BY DEF AtMostOnce
    <2>1. CASE i \in 1 .. Len(runs) /\ j \in 1 .. Len(runs)
      BY <1>1, <2>1, TakesFacts DEF AtMostOnce
    <2>2. CASE i = Len(runs) + 1 /\ j \in 1 .. Len(runs)
      BY <1>1, <2>2, TakesFacts DEF QueuedOnce
    <2>3. CASE j = Len(runs) + 1 /\ i \in 1 .. Len(runs)
      BY <1>1, <2>3, TakesFacts DEF QueuedOnce
    <2>4. QED BY <2>1, <2>2, <2>3, TakesFacts
  <1>7. NoLostReply'
    <2> SUFFICES ASSUME NEW c \in Calls, state'[c] = "waiting", Accepts(c)'
                 PROVE  (InHands(CommandOf(c)) \/ inbox[c] # {} \/ CommandOf(c) \in lost)'
      BY DEF NoLostReply
    <2>1. InHands(CommandOf(c)) \/ inbox[c] # {} \/ CommandOf(c) \in lost
      BY <1>1 DEF NoLostReply, Accepts
    <2>2. CommandOf(c)' = CommandOf(c)
      BY <1>1 DEF CommandOf
    <2>3. CASE inbox[c] # {} \/ CommandOf(c) \in lost
      BY <1>1, <2>2, <2>3 DEF Takes
    <2>4. CASE InHands(CommandOf(c))
      <3>1. PICK i \in 1 .. Len(queue) : queue[i] = CommandOf(c)
        BY <2>4 DEF InHands, Takes
      <3>2. CASE i = 1
        BY <2>2, <3>1, <3>2, TakesFacts DEF InHands, Takes
      <3>3. CASE i # 1
        <4>1. i - 1 \in 1 .. Len(queue') /\ queue'[i - 1] = CommandOf(c)
          BY <3>1, <3>3, TakesFacts
        <4>2. QED BY <2>2, <4>1 DEF InHands
      <3>4. QED BY <3>2, <3>3
    <2>5. QED BY <2>1, <2>3, <2>4
  <1>8. QED BY <1>2, <1>3, <1>4, <1>5, <1>6, <1>7

LEMMA SendResponseInv == ASSUME IInv, SendResponse, TypeOK' PROVE IInv'
  <1> USE DEF IInv
  <1>1. UNCHANGED <<state, attempt, answer, queue, life, runs, lost, repeated>>
    BY DEF SendResponse
  <1>2. \A c \in Calls :
          inbox'[c] = IF Subscribed(c, runs[Len(runs)]) THEN inbox[c] \cup {Len(runs)}
                      ELSE inbox[c]
    BY DEF SendResponse
  <1>3. EmptyUntilSubscribed' /\ IdleIsFirst' /\ OnlyPublished'
    BY <1>1, <1>2 DEF EmptyUntilSubscribed, IdleIsFirst, OnlyPublished, Published, Subscribed
  <1>4. QueuedOnce' /\ AtMostOnce' /\ AgentKnows'
    BY <1>1 DEF QueuedOnce, AtMostOnce, AgentKnows, SendResponse
  <1>5. OwnAnswer'
    BY <1>1, <1>2 DEF OwnAnswer, Subscribed, CommandOf
  <1>6. NoLostReply'
    <2> SUFFICES ASSUME NEW c \in Calls, state'[c] = "waiting", Accepts(c)'
                 PROVE  (InHands(CommandOf(c)) \/ inbox[c] # {} \/ CommandOf(c) \in lost)'
      BY DEF NoLostReply
    <2>1. InHands(CommandOf(c)) \/ inbox[c] # {} \/ CommandOf(c) \in lost
      BY <1>1 DEF NoLostReply, Accepts
    <2>2. CommandOf(c)' = CommandOf(c)
      BY <1>1 DEF CommandOf
    <2>3. CASE inbox[c] # {} \/ CommandOf(c) \in lost
      BY <1>1, <1>2, <2>2, <2>3
    <2>4. CASE runs[Len(runs)] = CommandOf(c)
      BY <1>1, <1>2, <2>4 DEF Subscribed
    <2>5. CASE \E i \in 1 .. Len(queue) : queue[i] = CommandOf(c)
      BY <1>1, <2>2, <2>5 DEF InHands
    <2>6. QED BY <2>1, <2>3, <2>4, <2>5 DEF InHands
  <1>7. QED BY <1>3, <1>4, <1>5, <1>6

(* What the agent has when it stops, and what it cannot send, is lost.     *)
LEMMA LosesInv ==
  ASSUME IInv, SendResponseFails \/ AgentStops \/ AgentStarts, TypeOK'
  PROVE  IInv'
  <1> USE DEF IInv
  <1>1. UNCHANGED <<state, attempt, inbox, answer, runs, repeated>>
    BY DEF SendResponseFails, AgentStops, AgentStarts, callVars
  <1>2. queue' = queue \/ queue' = <<>>
    BY DEF SendResponseFails, AgentStops, AgentStarts
  <1>3. EmptyUntilSubscribed' /\ IdleIsFirst'
    BY <1>1 DEF EmptyUntilSubscribed, IdleIsFirst
  <1>4. OnlyPublished' /\ QueuedOnce'
    BY <1>1, <1>2 DEF OnlyPublished, Published, QueuedOnce
  <1>5. OwnAnswer' /\ AtMostOnce'
    BY <1>1 DEF OwnAnswer, AtMostOnce, CommandOf
  <1>6. AgentKnows'
    BY <1>1 DEF AgentKnows, SendResponseFails, AgentStops, AgentStarts
  <1>7. NoLostReply'
    <2> SUFFICES ASSUME NEW c \in Calls, state'[c] = "waiting", Accepts(c)'
                 PROVE  (InHands(CommandOf(c)) \/ inbox[c] # {} \/ CommandOf(c) \in lost)'
      BY DEF NoLostReply
    <2>1. InHands(CommandOf(c)) \/ inbox[c] # {} \/ CommandOf(c) \in lost
      BY <1>1 DEF NoLostReply, Accepts
    <2>2. CommandOf(c)' = CommandOf(c)
      BY <1>1 DEF CommandOf
    <2>3. CASE SendResponseFails
      BY <1>1, <2>1, <2>2, <2>3 DEF SendResponseFails, InHands
    <2>4. CASE AgentStops
      BY <1>1, <2>1, <2>2, <2>4 DEF AgentStops, InHands
    <2>5. CASE AgentStarts
      BY <1>1, <2>1, <2>2, <2>5 DEF AgentStarts, InHands
    <2>6. QED BY <2>3, <2>4, <2>5
  <1>8. QED BY <1>3, <1>4, <1>5, <1>6, <1>7

-----------------------------------------------------------------------------
(* The inductive invariant, and what it contains.                          *)

LEMMA InitIInv == Init => IInv
  <1> SUFFICES ASSUME Init PROVE IInv
    OBVIOUS
  <1> USE DEF Init
  <1>1. TypeOK
    <2>1. /\ queue \in Seq(Command) /\ runs \in Seq(Command)
          /\ faults \in 0 .. MaxFaults /\ life \in 1 .. MaxLives
      OBVIOUS
    <2>2. /\ inbox \in [Calls -> SUBSET (1 .. Len(runs))]
          /\ answer \in [Calls -> 0 .. Len(runs)]
      OBVIOUS
    <2>3. QED BY <2>1, <2>2 DEF TypeOK, CallStates
  <1>2. EmptyUntilSubscribed /\ IdleIsFirst /\ OnlyPublished /\ QueuedOnce /\ AgentKnows
    BY DEF EmptyUntilSubscribed, IdleIsFirst, OnlyPublished, QueuedOnce, AgentKnows
  <1>3. OwnAnswer /\ AtMostOnce /\ NoLostReply
    BY DEF OwnAnswer, AtMostOnce, NoLostReply
  <1>4. QED BY <1>1, <1>2, <1>3 DEF IInv

LEMMA NextIInv == IInv /\ [Next]_vars => IInv'
  <1> SUFFICES ASSUME IInv, [Next]_vars PROVE IInv'
    OBVIOUS
  <1>1. TypeOK'
    BY NextTypeOK DEF IInv
  <1>2. ASSUME NEW c \in Calls, Bot(c) PROVE IInv'
    BY <1>1, <1>2, QuietInv, PublishInv DEF Bot, Quiet
  <1>3. CASE Execute \/ HandlerPanics
    <2>1. Takes
      BY <1>3 DEF Execute, HandlerPanics, Takes, callVars
    <2>2. QED BY <1>1, <2>1, TakesInv
  <1>4. CASE Agent
    BY <1>1, <1>3, <1>4, SendResponseInv, LosesInv DEF Agent
  <1>5. CASE Finished \/ UNCHANGED vars
    <2>1. UNCHANGED <<state, attempt, inbox, answer, queue, agentPc, life, runs, lost, repeated>>
      BY <1>5 DEF Finished, vars, callVars, agentVars
    <2> USE DEF IInv
    <2>2. /\ EmptyUntilSubscribed' /\ IdleIsFirst' /\ OnlyPublished' /\ QueuedOnce'
          /\ AgentKnows'
      BY <2>1 DEF EmptyUntilSubscribed, IdleIsFirst, OnlyPublished, Published, QueuedOnce,
                  AgentKnows
    <2>3. OwnAnswer' /\ AtMostOnce' /\ NoLostReply'
      BY <2>1 DEF OwnAnswer, AtMostOnce, NoLostReply, InHands, CommandOf, Accepts
    <2>4. QED BY <1>1, <2>2, <2>3
  <1>6. QED BY <1>1, <1>2, <1>4, <1>5, BotStopsInv, BotRestartInv DEF Next

(* Reachable states satisfy the inductive invariant.                       *)
THEOREM Invariance == Spec => []IInv
  BY InitIInv, NextIInv, PTL DEF Spec

(* The types of all variables (PubSubCommands).                            *)
THEOREM TypeCorrect == Spec => []TypeOK
  BY Invariance, PTL DEF IInv

(* Whatever is lost, repeated or restarted, and whenever it expires, a     *)
(* call is answered with the response to the command of its own current    *)
(* attempt (sendCommandViaPubSub, api.go:50).                              *)
THEOREM AnswersAreOwn == Spec => []OwnAnswer
  BY Invariance, PTL DEF IInv

(* No interleaving of callers, deadlines, restarts and fallbacks executes  *)
(* a command twice that the Redis client published once (handleCommands,   *)
(* agent.go:232).                                                          *)
THEOREM ExecutedAtMostOnce == Spec => []AtMostOnce
  BY Invariance, PTL DEF IInv

(* No response to a waiting call slips through between its subscription    *)
(* and its wait (sendCommandViaPubSub, api.go:50).                         *)
THEOREM RepliesAreNotLost == Spec => []NoLostReply
  BY Invariance, PTL DEF IInv

-----------------------------------------------------------------------------
(* The refinement of CommandRPC.                                           *)

(* At first no call has begun, and nothing has been sent.                  *)
LEMMA InitRefines == Init => RPC!Init
  BY DEF Init, RPC!Init, CallStatus, IssuedCalls, ExecutedCalls

(* What a quiet step is to the callers: nothing, or the begin or the end   *)
(* of one call.                                                            *)
LEMMA QuietRefines ==
  ASSUME IInv, NEW c \in Calls, Quiet(c)
  PROVE  [RPC!Next]_RPC!rpcVars
  <1>1. UNCHANGED <<queue, runs, lost>> /\ \A d \in Calls \ {c} : state'[d] = state[d]
    BY QuietFrame DEF agentVars
  <1>2. IssuedCalls' = IssuedCalls /\ ExecutedCalls' = ExecutedCalls
    BY <1>1 DEF IssuedCalls, ExecutedCalls
  <1>3. state \in [Calls -> CallStates]
    BY DEF IInv, TypeOK
  <1>4. CASE CallStatus'[c] = CallStatus[c]
    BY <1>1, <1>2, <1>4 DEF CallStatus, RPC!rpcVars
  <1>5. CASE Call(c)
    <2>1. CallStatus' = [CallStatus EXCEPT ![c] = "pending"] /\ CallStatus[c] = "idle"
      BY <1>1, <1>3, <1>5 DEF Call, Move, CallStatus
    <2>2. RPC!Issue(c)
      BY <1>2, <2>1 DEF RPC!Issue
    <2>3. QED BY <2>2 DEF RPC!Next
  <1>6. CASE Receive(c)
    <2>1. CallStatus' = [CallStatus EXCEPT ![c] = "answered"] /\ CallStatus[c] = "pending"
      BY <1>1, <1>3, <1>6 DEF Receive, Move, CallStatus
    <2>2. PICK i \in inbox[c] : TRUE
      BY <1>6 DEF Receive
    <2>3. i \in 1 .. Len(runs) /\ runs[i][1] = c
      BY <2>2 DEF IInv, TypeOK, OwnAnswer, CommandOf
    <2>4. RPC!Answer(c)
      BY <1>2, <2>1, <2>3 DEF RPC!Answer, ExecutedCalls
    <2>5. QED BY <2>4 DEF RPC!Next
  <1>7. CASE AttemptFails(c) /\ state[c] \notin {"idle", "done", "failed"}
    <2>1. CASE state'[c] = "failed"
      <3>1. /\ CallStatus' = [d \in Calls |-> IF d \in {c} THEN "failed" ELSE CallStatus[d]]
            /\ CallStatus[c] = "pending"
        BY <1>1, <1>3, <1>7, <2>1 DEF CallStatus, CallStates
      <3>2. RPC!Fail({c})
        BY <1>2, <3>1 DEF RPC!Fail
      <3>3. QED BY <3>2 DEF RPC!Next
    <2>2. CASE state'[c] = "fallback"
      BY <1>4, <1>7, <2>2, <1>3 DEF CallStatus
    <2>3. QED BY <1>7, <2>1, <2>2, AttemptFailsFacts DEF IInv
  <1>8. CASE \/ StreamsFails(c) \/ StreamsTimeout(c) \/ Subscribe(c) \/ Reject(c) \/ Expire(c)
    BY <1>3, <1>4, <1>8
       DEF StreamsFails, StreamsTimeout, Subscribe, Reject, Expire, Move, CallStatus
  <1>9. CASE SubscribeFails(c) \/ PublishFails(c) \/ TimeoutWaiting(c) \/ ReceiveError(c)
    BY <1>7, <1>9 DEF SubscribeFails, PublishFails, TimeoutWaiting, ReceiveError
  <1>10. QED BY <1>5, <1>6, <1>8, <1>9 DEF Quiet

LEMMA PublishRefines ==
  ASSUME IInv, NEW c \in Calls, Publish(c) \/ PublishUnconfirmed(c)
  PROVE  RPC!Send(c)
  <1>1. state \in [Calls -> CallStates] /\ queue \in Seq(Command)
        /\ CommandOf(c) \in Command /\ CommandOf(c)[1] = c
    BY CommandFacts DEF IInv, TypeOK
  <1>2. CallStatus' = CallStatus /\ CallStatus[c] = "pending"
    BY <1>1, PublishFacts DEF CallStatus, CallStates
  <1>3. ExecutedCalls' = ExecutedCalls
    BY PublishFacts DEF ExecutedCalls
  <1>4. {queue'[i][1] : i \in 1 .. Len(queue')} \cup {cmd[1] : cmd \in lost'}
          = {queue[i][1] : i \in 1 .. Len(queue)} \cup {cmd[1] : cmd \in lost} \cup {c}
    <2>1. CASE queue' = Append(queue, CommandOf(c)) /\ lost' = lost
      <3>1. /\ Len(queue) \in Nat /\ Len(queue') = Len(queue) + 1
            /\ \A i \in 1 .. Len(queue) : queue'[i] = queue[i]
            /\ queue'[Len(queue) + 1] = CommandOf(c)
        BY <1>1, <2>1, AppendFacts
      <3>2. {queue'[i][1] : i \in 1 .. Len(queue')}
              = {queue[i][1] : i \in 1 .. Len(queue)} \cup {c}
        BY <1>1, <3>1
      <3>3. QED BY <2>1, <3>2
    <2>2. CASE queue' = queue /\ lost' = lost \cup {CommandOf(c)}
      BY <1>1, <2>2
    <2>3. QED BY <2>1, <2>2, PublishFacts
  <1>5. IssuedCalls' = IssuedCalls \cup {c}
    BY <1>3, <1>4 DEF IssuedCalls
  <1>6. QED BY <1>2, <1>3, <1>5 DEF RPC!Send

(* An execution: the command moves from the queue to the history.          *)
LEMMA TakesRefines ==
  ASSUME IInv, Execute \/ HandlerPanics
  PROVE  \E r \in Calls : RPC!Execute(r)
  <1>1. Takes /\ (lost' = lost \/ lost' = lost \cup {Head(queue)})
    BY DEF Execute, HandlerPanics, Takes, callVars
  <1>2. TypeOK
    BY DEF IInv
  <1>3. queue[1] \in Command
    BY <1>1, <1>2, TakesFacts DEF TypeOK
  <1>4. ExecutedCalls' = ExecutedCalls \cup {queue[1][1]}
    <2>1. /\ Len(runs) \in Nat /\ Len(runs') = Len(runs) + 1
          /\ \A i \in 1 .. Len(runs) : runs'[i] = runs[i]
          /\ runs'[Len(runs) + 1] = queue[1]
      BY <1>1, <1>2, TakesFacts
    <2>2. QED BY <2>1 DEF ExecutedCalls
  <1>5. {queue[i][1] : i \in 1 .. Len(queue)}
          = {queue'[i][1] : i \in 1 .. Len(queue')} \cup {queue[1][1]}
    <2>1. \A i \in 1 .. Len(queue) :
            i = 1 \/ (i - 1 \in 1 .. Len(queue') /\ queue'[i - 1] = queue[i])
      BY <1>1, <1>2, TakesFacts
    <2>2. /\ \A i \in 1 .. Len(queue') : queue'[i] = queue[i + 1] /\ i + 1 \in 1 .. Len(queue)
          /\ 1 \in 1 .. Len(queue)
      BY <1>1, <1>2, TakesFacts
    <2>3. ASSUME NEW i \in 1 .. Len(queue)
          PROVE  \/ queue[i][1] = queue[1][1]
                 \/ \E j \in 1 .. Len(queue') : queue[i][1] = queue'[j][1]
      BY <2>1
    <2>4. {queue[i][1] : i \in 1 .. Len(queue)}
            \subseteq {queue'[i][1] : i \in 1 .. Len(queue')} \cup {queue[1][1]}
      BY <2>3
    <2>5. {queue'[i][1] : i \in 1 .. Len(queue')} \cup {queue[1][1]}
            \subseteq {queue[i][1] : i \in 1 .. Len(queue)}
      BY <2>2
    <2>6. QED BY <2>4, <2>5
  <1>6. IssuedCalls' = IssuedCalls /\ queue[1][1] \in IssuedCalls
    <2>1. {cmd[1] : cmd \in lost'} \subseteq {cmd[1] : cmd \in lost} \cup {queue[1][1]}
      BY <1>1, <1>2, TakesFacts
    <2>2. {cmd[1] : cmd \in lost} \subseteq {cmd[1] : cmd \in lost'}
      BY <1>1
    <2>3. QED BY <1>4, <1>5, <2>1, <2>2 DEF IssuedCalls
  <1>7. CallStatus' = CallStatus
    BY <1>1 DEF Takes, CallStatus
  <1>8. RPC!Execute(queue[1][1])
    BY <1>4, <1>6, <1>7 DEF RPC!Execute
  <1>9. QED BY <1>3, <1>8 DEF Command

LEMMA LosesRefines ==
  ASSUME IInv, SendResponseFails \/ AgentStops \/ AgentStarts
  PROVE  UNCHANGED RPC!rpcVars
  <1>1. UNCHANGED <<state, runs>>
    BY DEF SendResponseFails, AgentStops, AgentStarts, callVars
  <1>2. agentPc = "executed" => Len(runs) \in 1 .. Len(runs)
    BY DEF IInv, AgentKnows, TypeOK
  <1>3. ExecutedCalls' = ExecutedCalls
    BY <1>1 DEF ExecutedCalls
  <1>4. CASE SendResponseFails
    <2>1. {cmd[1] : cmd \in lost'} = {cmd[1] : cmd \in lost} \cup {runs[Len(runs)][1]}
      BY <1>4 DEF SendResponseFails
    <2>2. runs[Len(runs)][1] \in ExecutedCalls
      BY <1>2, <1>4 DEF SendResponseFails, ExecutedCalls
    <2>3. queue' = queue
      BY <1>4 DEF SendResponseFails
    <2>4. QED BY <1>1, <1>3, <2>1, <2>2, <2>3 DEF RPC!rpcVars, IssuedCalls, CallStatus
  <1>5. CASE AgentStops
    <2> DEFINE owed == IF agentPc = "executed" THEN {runs[Len(runs)]} ELSE {}
    <2>1. {cmd[1] : cmd \in owed} \subseteq ExecutedCalls
      BY <1>2 DEF ExecutedCalls
    <2>2. lost' = lost \cup {queue[i] : i \in 1 .. Len(queue)} \cup owed /\ queue' = <<>>
      BY <1>5 DEF AgentStops
    <2> HIDE DEF owed
    <2>3. {cmd[1] : cmd \in lost'} = {cmd[1] : cmd \in lost}
            \cup {queue[i][1] : i \in 1 .. Len(queue)} \cup {cmd[1] : cmd \in owed}
      BY <2>2
    <2>4. {queue'[i][1] : i \in 1 .. Len(queue')} = {}
      BY <2>2
    <2>5. IssuedCalls' = IssuedCalls
      BY <1>3, <2>1, <2>3, <2>4 DEF IssuedCalls
    <2>6. QED BY <1>1, <1>3, <2>5 DEF RPC!rpcVars, CallStatus
  <1>6. CASE AgentStarts
    BY <1>1, <1>6 DEF AgentStarts, RPC!rpcVars, IssuedCalls, ExecutedCalls, CallStatus
  <1>7. QED BY <1>4, <1>5, <1>6

LEMMA RestartRefines ==
  ASSUME IInv, BotRestart
  PROVE  \E S \in SUBSET Calls : RPC!Fail(S)
  <1> DEFINE S == {c \in Calls : state[c] \notin {"idle", "done", "failed"}}
  <1>1. state \in [Calls -> CallStates]
    BY DEF IInv, TypeOK
  <1>2. /\ \A c \in S : CallStatus[c] = "pending"
        /\ CallStatus' = [c \in Calls |-> IF c \in S THEN "failed" ELSE CallStatus[c]]
    BY <1>1 DEF BotRestart, CallStatus, CallStates
  <1>3. IssuedCalls' = IssuedCalls /\ ExecutedCalls' = ExecutedCalls
    BY DEF BotRestart, agentVars, IssuedCalls, ExecutedCalls
  <1>4. RPC!Fail(S)
    BY <1>2, <1>3 DEF RPC!Fail
  <1>5. QED BY <1>4

LEMMA StepRefines == IInv /\ [Next]_vars => [RPC!Next]_RPC!rpcVars
  <1> SUFFICES ASSUME IInv, [Next]_vars PROVE [RPC!Next]_RPC!rpcVars
    OBVIOUS
  <1>1. ASSUME NEW c \in Calls, Bot(c) PROVE [RPC!Next]_RPC!rpcVars
    BY <1>1, QuietRefines, PublishRefines DEF Bot, Quiet, RPC!Next
  <1>2. CASE BotRestart
    BY <1>2, RestartRefines DEF RPC!Next
  <1>3. CASE Execute \/ HandlerPanics
    BY <1>3, TakesRefines DEF RPC!Next
  <1>4. CASE SendResponseFails \/ AgentStops \/ AgentStarts
    BY <1>4, LosesRefines
  <1>5. CASE SendResponse \/ BotStops \/ Finished \/ UNCHANGED vars
    <2>1. UNCHANGED <<state, queue, runs, lost>>
      BY <1>5 DEF SendResponse, BotStops, Finished, vars, callVars, agentVars
    <2>2. QED BY <2>1 DEF RPC!rpcVars, CallStatus, IssuedCalls, ExecutedCalls
  <1>6. QED BY <1>1, <1>2, <1>3, <1>4, <1>5 DEF Next, Agent

(* The path over Pub/Sub keeps the promise of CommandRPC as the path over  *)
(* Streams does, for every number of callers, failures and restarts        *)
(* (sendCommandAndParse, api_helpers.go).                                  *)
THEOREM Refinement == Spec => ImplementsRPC
  BY InitRefines, StepRefines, Invariance, PTL DEF Spec, ImplementsRPC, RPC!Spec
=============================================================================
