--------------------------- MODULE PubSubCommands ---------------------------
(***************************************************************************)
(* The path of a command over Redis Pub/Sub, between the callers of one    *)
(* bot and an agent in Pub/Sub mode (no API.BaseURL in its configuration): *)
(*                                                                         *)
(*   sendCommandAndParse -> sendCommandViaStreams -> sendCommandViaPubSub  *)
(*   getContainers -> the above, then getContainersViaPubSub               *)
(*     SUBSCRIBE resp:KEY:ID, PUBLISH cmd:KEY, wait for one message        *)
(*   Agent.handleCommands                                                  *)
(*     SUBSCRIBE cmd:KEY, processCommand, PUBLISH resp:KEY:ID              *)
(*                                                                         *)
(* Redis keeps nothing: a message published while nobody is subscribed is  *)
(* gone.  A bot with a Streams client first sends over Streams, which this *)
(* agent does not read.  A call makes at most two attempts, each with a    *)
(* command ID of its own; the second is getContainersViaPubSub.            *)
(***************************************************************************)
EXTENDS Naturals, Sequences

CONSTANTS
  Calls,             \* the calls of the bot
  ContainerCalls,    \* those of getContainers
  Prompt,            \* TRUE: no deadline passes while anything can still happen
  MaxLives,          \* bound: how often the agent process is started
  MaxFaults          \* bound: lost messages, Redis errors, panics, stops and
                     \* restarts of the bot

ASSUME ConstantsAssumption ==
  /\ ContainerCalls \subseteq Calls
  /\ Prompt \in BOOLEAN
  /\ MaxLives \in Nat \ {0}
  /\ MaxFaults \in Nat

VARIABLES
  streamsClient,     \* the bot has a Streams client
  stopping,          \* Stop has cancelled b.ctx, the parent of every context
  state,             \* where the call is
  attempt,           \* which attempt it is on
  expired,           \* the deadline of this attempt has passed
  inbox,             \* the runs answered on the attempt's response channel
  answer,            \* the run whose response the call returned, 0 for none
  queue,             \* commands delivered to the agent's subscription
  agentPc,           \* where handleCommands is
  life,              \* how often the agent process was started
  runs,              \* history: every execution, by call and attempt
  lost,              \* history: commands whose execution or answer was lost
  repeated,          \* history: commands whose PUBLISH the client repeated
  faults             \* faults so far

callVars == <<state, attempt, expired, inbox, answer>>
agentVars == <<queue, agentPc, life, runs>>
botVars == <<streamsClient, stopping>>
vars == <<botVars, callVars, agentVars, lost, repeated, faults>>

Command == Calls \X {1, 2}
CallStates == {"idle", "streams", "fallback", "subscribed", "unconfirmed",
               "waiting", "done", "failed"}

TypeOK ==
  /\ {streamsClient, stopping} \subseteq BOOLEAN
  /\ state \in [Calls -> CallStates]
  /\ attempt \in [Calls -> {1, 2}]
  /\ expired \in [Calls -> BOOLEAN]
  /\ inbox \in [Calls -> SUBSET (1 .. Len(runs))]
  /\ answer \in [Calls -> 0 .. Len(runs)]
  /\ queue \in Seq(Command)
  /\ agentPc \in {"down", "idle", "executed"}
  /\ life \in 1 .. MaxLives
  /\ runs \in Seq(Command)
  /\ lost \in SUBSET Command
  /\ repeated \in SUBSET Command
  /\ faults \in 0 .. MaxFaults

(* streams.NewClient may fail when the bot starts: "will use Pub/Sub".     *)
Init ==
  /\ streamsClient \in BOOLEAN /\ stopping = FALSE
  /\ state = [c \in Calls |-> "idle"]
  /\ attempt = [c \in Calls |-> 1]
  /\ expired = [c \in Calls |-> FALSE]
  /\ inbox = [c \in Calls |-> {}]
  /\ answer = [c \in Calls |-> 0]
  /\ queue = <<>> /\ agentPc = "idle" /\ life = 1
  /\ runs = <<>> /\ lost = {} /\ repeated = {}
  /\ faults = 0

Fault == faults < MaxFaults /\ faults' = faults + 1
NoFault == UNCHANGED faults

CommandOf(c) == <<c, attempt[c]>>

(* The context of the attempt is done: that of sendCommandAndParse in the  *)
(* first, b.ctx in the second, which waits for a timer of its own.         *)
ContextDone(c) == expired[c] \/ stopping
WaitOver(c) == expired[c] \/ (stopping /\ attempt[c] = 1)

Move(c, to) == state' = [state EXCEPT ![c] = to]

-----------------------------------------------------------------------------
(* The bot.                                                                *)

Call(c) ==
  /\ state[c] = "idle"
  /\ Move(c, IF streamsClient THEN "streams" ELSE "fallback")
  /\ attempt' = [attempt EXCEPT ![c] =
                   IF c \in ContainerCalls /\ ~ streamsClient THEN 2 ELSE 1]
  /\ UNCHANGED <<botVars, expired, inbox, answer, agentVars, lost, repeated, faults>>

(* XADD fails: the fallback starts with the rest of the deadline.          *)
StreamsFails(c) ==
  /\ state[c] = "streams"
  /\ Fault
  /\ Move(c, "fallback")
  /\ UNCHANGED <<botVars, attempt, expired, inbox, answer, agentVars, lost, repeated>>

(* waitForResponse has polled until its context was done.                  *)
StreamsTimeout(c) ==
  /\ state[c] = "streams" /\ ContextDone(c)
  /\ Move(c, "fallback")
  /\ UNCHANGED <<botVars, attempt, expired, inbox, answer, agentVars, lost, repeated, faults>>

(* A failed attempt ends the call, or leads getContainers to its own       *)
(* Pub/Sub request, which has a new command ID and a deadline of its own.  *)
AttemptFails_NoLimit(c) ==   \* mutant: every failed attempt is repeated
  IF c \in ContainerCalls
    THEN /\ Move(c, "fallback")
         /\ attempt' = [attempt EXCEPT ![c] = @ + 1]
         /\ expired' = [expired EXCEPT ![c] = FALSE]
         /\ inbox' = [inbox EXCEPT ![c] = {}]
    ELSE /\ Move(c, "failed")
         /\ UNCHANGED <<attempt, expired, inbox>>
AttemptFails(c) ==
  IF c \in ContainerCalls /\ attempt[c] = 1
    THEN /\ Move(c, "fallback")
         /\ attempt' = [attempt EXCEPT ![c] = 2]
         /\ expired' = [expired EXCEPT ![c] = FALSE]
         /\ inbox' = [inbox EXCEPT ![c] = {}]
    ELSE /\ Move(c, "failed")
         /\ UNCHANGED <<attempt, expired, inbox>>

(* Subscribe waits for Redis to confirm the subscription.                  *)
Subscribe(c) ==
  /\ state[c] = "fallback" /\ ~ ContextDone(c)
  /\ Move(c, "subscribed")
  /\ UNCHANGED <<botVars, attempt, expired, inbox, answer, agentVars, lost, repeated, faults>>

(* With a context that is already done, Subscribe fails at once.           *)
SubscribeFails(c) ==
  /\ state[c] = "fallback"
  /\ (ContextDone(c) /\ NoFault) \/ Fault
  /\ AttemptFails(c)
  /\ UNCHANGED <<botVars, answer, agentVars, lost, repeated>>

(* PUBLISH cmd:KEY reaches the agent's subscription, if there is one.      *)
Delivered(c) ==
  IF agentPc # "down"
    THEN queue' = Append(queue, CommandOf(c)) /\ UNCHANGED lost
    ELSE lost' = lost \cup {CommandOf(c)} /\ UNCHANGED queue

(* The message is dropped on its way to the agent.                         *)
Dropped(c) == lost' = lost \cup {CommandOf(c)} /\ UNCHANGED queue

(* The Redis client repeats a PUBLISH whose reply was lost (its default;   *)
(* the configurations set no MaxRetries).                                  *)
Publishes(c) ==
  /\ state[c] \in {"subscribed", "unconfirmed"} /\ ~ ContextDone(c)
  /\ repeated' = IF state[c] = "unconfirmed" THEN repeated \cup {CommandOf(c)} ELSE repeated

Publish(c) ==
  /\ Publishes(c)
  /\ (Delivered(c) /\ NoFault) \/ (Dropped(c) /\ Fault)
  /\ Move(c, "waiting")
  /\ UNCHANGED <<botVars, attempt, expired, inbox, answer, agentPc, life, runs>>

(* Redis has the message, but its reply to the bot is lost.                *)
PublishUnconfirmed(c) ==
  /\ Publishes(c)
  /\ Fault /\ Delivered(c)
  /\ Move(c, "unconfirmed")
  /\ UNCHANGED <<botVars, attempt, expired, inbox, answer, agentPc, life, runs>>

(* Publish returns an error: of the deadline, of Redis, or because the     *)
(* outage that lost the first reply outlasted the repetitions.             *)
PublishFails_Retries(c) ==   \* mutant: an unconfirmed message is published again
  /\ state[c] = "unconfirmed"
  /\ Move(c, "subscribed")
  /\ UNCHANGED <<botVars, attempt, expired, inbox, answer, agentVars, lost, repeated, faults>>
PublishFails(c) ==
  /\ \/ state[c] = "unconfirmed" /\ NoFault
     \/ state[c] = "subscribed" /\ ((ContextDone(c) /\ NoFault) \/ Fault)
  /\ AttemptFails(c)
  /\ UNCHANGED <<botVars, answer, agentVars, lost, repeated>>

(* getContainersViaPubSub accepts a response whose ID is that of its own   *)
(* command.  handleGetContainers answers with a message of a new ID.       *)
Accepts(c) == attempt[c] = 1

Receive(c) ==
  /\ state[c] = "waiting" /\ Accepts(c)
  /\ \E i \in inbox[c] : answer' = [answer EXCEPT ![c] = i]
  /\ Move(c, "done")
  /\ UNCHANGED <<botVars, attempt, expired, inbox, agentVars, lost, repeated, faults>>

(* An error response, or one of another type, is an answer as well, but    *)
(* not a list of containers: getContainers makes its second attempt.       *)
ReceiveError(c) ==
  /\ state[c] = "waiting" /\ Accepts(c) /\ c \in ContainerCalls
  /\ inbox[c] # {}
  /\ AttemptFails(c)
  /\ UNCHANGED <<botVars, answer, agentVars, lost, repeated, faults>>

(* "Response ID mismatch, waiting for correct response".                   *)
Reject(c) ==
  /\ state[c] = "waiting" /\ ~ Accepts(c)
  /\ \E i \in inbox[c] : inbox' = [inbox EXCEPT ![c] = @ \ {i}]
  /\ UNCHANGED <<botVars, state, attempt, expired, answer, agentVars, lost, repeated, faults>>

(* What may still answer the attempt without any deadline passing.         *)
InFlight(c) ==
  \/ state[c] \in {"fallback", "subscribed", "unconfirmed"}
  \/ state[c] = "waiting" /\ (inbox[c] # {} \/ queue # <<>> \/ agentPc # "idle")

(* The deadline of the attempt: the context of sendCommandAndParse for the *)
(* first, the timer of getContainersViaPubSub for the second.              *)
Expire_NoTimer(c) ==   \* mutant: getContainersViaPubSub waits without a timer
  /\ ~ expired[c] /\ attempt[c] = 1
  /\ state[c] \notin {"idle", "done", "failed"}
  /\ expired' = [expired EXCEPT ![c] = TRUE]
  /\ UNCHANGED <<botVars, state, attempt, inbox, answer, agentVars, lost, repeated, faults>>
Expire(c) ==
  /\ ~ expired[c]
  /\ \/ attempt[c] = 1 /\ state[c] \notin {"idle", "done", "failed"}
     \/ state[c] = "waiting"
  /\ Prompt => ~ InFlight(c)
  /\ expired' = [expired EXCEPT ![c] = TRUE]
  /\ UNCHANGED <<botVars, state, attempt, inbox, answer, agentVars, lost, repeated, faults>>

TimeoutWaiting_NoError(c) ==   \* mutant: an empty response without an error
  /\ state[c] = "waiting" /\ expired[c]
  /\ Move(c, "done")
  /\ UNCHANGED <<botVars, attempt, expired, inbox, answer, agentVars, lost, repeated, faults>>
TimeoutWaiting(c) ==
  /\ state[c] = "waiting" /\ WaitOver(c)
  /\ AttemptFails(c)
  /\ UNCHANGED <<botVars, answer, agentVars, lost, repeated, faults>>

(* Bot.Stop cancels b.ctx and waits for the handler, whose call goes on.   *)
(* The channel of a call's subscription is closed then, and receiving from *)
(* it returns nil at once, for ever: parsing nil fails, and the call goes  *)
(* round its loop until it selects its context or its timer.               *)
BotStops ==
  /\ ~ stopping /\ stopping' = TRUE
  /\ Fault
  /\ UNCHANGED <<streamsClient, callVars, agentVars, lost, repeated>>

(* The bot process restarts: its calls are gone.                           *)
BotRestart ==
  /\ Fault
  /\ stopping' = FALSE
  /\ state' = [c \in Calls |-> IF state[c] \in {"idle", "done"} THEN state[c] ELSE "failed"]
  /\ UNCHANGED <<streamsClient, attempt, expired, inbox, answer, agentVars, lost, repeated>>

-----------------------------------------------------------------------------
(* The agent: handleCommands and processCommand.                           *)

(* A command of the subscription is executed.                              *)
Execute ==
  /\ agentPc = "idle" /\ queue # <<>>
  /\ runs' = Append(runs, Head(queue))
  /\ queue' = Tail(queue)
  /\ agentPc' = "executed"
  /\ UNCHANGED <<botVars, callVars, life, lost, repeated, faults>>

(* The handler panics: the reply goes to resp:KEY, without a subscriber.   *)
HandlerPanics ==
  /\ agentPc = "idle" /\ queue # <<>>
  /\ Fault
  /\ runs' = Append(runs, Head(queue))
  /\ queue' = Tail(queue)
  /\ lost' = lost \cup {Head(queue)}
  /\ UNCHANGED <<botVars, callVars, agentPc, life, repeated>>

(* The response channel carries the command's ID: only the attempt that    *)
(* sent this command is subscribed to it.                                  *)
Subscribed_Any(c, cmd) == state[c] \in {"subscribed", "waiting"}   \* mutant: resp:KEY
Subscribed(c, cmd) ==
  state[c] \in {"subscribed", "unconfirmed", "waiting"} /\ cmd = CommandOf(c)

SendResponse_Unconfirmed ==   \* mutant: Subscribe does not wait for Redis
  /\ agentPc = "executed" /\ agentPc' = "idle"
  /\ UNCHANGED <<botVars, callVars, queue, life, runs, lost, repeated, faults>>
SendResponse ==
  /\ agentPc = "executed"
  /\ inbox' = [c \in Calls |-> IF Subscribed(c, runs[Len(runs)])
                                 THEN inbox[c] \cup {Len(runs)} ELSE inbox[c]]
  /\ agentPc' = "idle"
  /\ UNCHANGED <<botVars, state, attempt, expired, answer, queue, life, runs, lost, repeated, faults>>

(* Redis fails, or the goroutine of the subscription, whose context is     *)
(* done, has closed the channel instead of passing the response on.        *)
SendResponseFails ==
  /\ agentPc = "executed"
  /\ \/ Fault
     \/ NoFault /\ \E c \in Calls : Subscribed(c, runs[Len(runs)]) /\ ContextDone(c)
  /\ lost' = lost \cup {runs[Len(runs)]}
  /\ agentPc' = "idle"
  /\ UNCHANGED <<botVars, callVars, queue, life, runs, repeated>>

(* The process ends, and with it the subscription and all it has received. *)
AgentStops ==
  /\ agentPc # "down" /\ life < MaxLives
  /\ lost' = lost \cup {queue[i] : i \in 1 .. Len(queue)}
               \cup (IF agentPc = "executed" THEN {runs[Len(runs)]} ELSE {})
  /\ queue' = <<>>
  /\ agentPc' = "down"
  /\ UNCHANGED <<botVars, callVars, life, runs, repeated, faults>>

AgentStarts ==
  /\ agentPc = "down"
  /\ agentPc' = "idle" /\ life' = life + 1
  /\ UNCHANGED <<botVars, callVars, queue, runs, lost, repeated, faults>>

-----------------------------------------------------------------------------
Bot(c) ==
  \/ Call(c) \/ StreamsFails(c) \/ StreamsTimeout(c)
  \/ Subscribe(c) \/ SubscribeFails(c) \/ Publish(c) \/ PublishUnconfirmed(c)
  \/ PublishFails(c) \/ Receive(c) \/ ReceiveError(c) \/ Reject(c)
  \/ Expire(c) \/ TimeoutWaiting(c)

Agent ==
  \/ Execute \/ HandlerPanics \/ SendResponse \/ SendResponseFails
  \/ AgentStops \/ AgentStarts

(* Every call has ended and the agent is idle: nothing is left to do.      *)
Finished ==
  /\ \A c \in Calls : state[c] \in {"done", "failed"}
  /\ UNCHANGED vars

Next == (\E c \in Calls : Bot(c)) \/ BotStops \/ BotRestart \/ Agent \/ Finished

Spec == Init /\ [][Next]_vars

(* The goroutines of the bot and of the agent run, deadlines pass, systemd *)
(* restarts the agent.  Nothing makes a user call, and no fault happens.   *)
Fairness ==
  /\ \A c \in Calls :
       /\ WF_vars(StreamsTimeout(c)) /\ WF_vars(Expire(c))
       /\ WF_vars(Subscribe(c) \/ SubscribeFails(c))
       /\ WF_vars(Publish(c) \/ PublishFails(c))
       /\ WF_vars(Receive(c) \/ ReceiveError(c) \/ Reject(c)) /\ WF_vars(TimeoutWaiting(c))
  /\ WF_vars(Execute) /\ WF_vars(SendResponse) /\ WF_vars(AgentStarts)

FairSpec == Spec /\ Fairness

-----------------------------------------------------------------------------
(* Properties.                                                             *)

(* A response is that of an execution of the command of this call's        *)
(* current attempt, never of another call or of the call's first attempt:  *)
(* the response channel carries the command ID.                            *)
OwnAnswer ==
  \A c \in Calls : \A i \in inbox[c] \cup ({answer[c]} \ {0}) : runs[i] = CommandOf(c)

(* A command is executed twice only if the Redis client repeated its       *)
(* PUBLISH: a restart of the agent, a deadline or the fallback from        *)
(* Streams never does it (Streams re-executes the backlog on a restart).   *)
AtMostOnce ==
  \A i, j \in 1 .. Len(runs) : runs[i] = runs[j] /\ i # j => runs[i] \in repeated

(* While a call waits for the first response to its command, that command  *)
(* is with the agent, its response is in the call's channel, or a message  *)
(* was lost to a failure, or came when the call's context was done: since  *)
(* the bot subscribes before it publishes, no response slips through       *)
(* between the two.                                                        *)
InHands(cmd) ==
  \/ \E i \in 1 .. Len(queue) : queue[i] = cmd
  \/ agentPc = "executed" /\ runs[Len(runs)] = cmd

NoLostReply ==
  \A c \in Calls :
    state[c] = "waiting" /\ Accepts(c) =>
      InHands(CommandOf(c)) \/ inbox[c] # {} \/ CommandOf(c) \in lost

(* The refinement mapping to CommandRPC.                                   *)
CallStatus ==
  [c \in Calls |->
     IF state[c] \in {"idle", "failed"} THEN state[c]
     ELSE IF state[c] = "done" THEN "answered" ELSE "pending"]
ExecutedCalls == {runs[i][1] : i \in 1 .. Len(runs)}
IssuedCalls ==
  {queue[i][1] : i \in 1 .. Len(queue)} \cup {cmd[1] : cmd \in lost} \cup ExecutedCalls

RPC == INSTANCE CommandRPC WITH
  Requests <- Calls, status <- CallStatus, issued <- IssuedCalls, executed <- ExecutedCalls

(* Pub/Sub keeps the promise that Streams keeps: a call is answered after  *)
(* an execution of a command it sent, ends once, and only what callers     *)
(* sent is executed.                                                       *)
ImplementsRPC == RPC!Spec

(* Every call ends, although Redis may drop its command or its response,   *)
(* and Stop may close the channel it waits on.                             *)
CallsEnd == RPC!EveryCallEnds

-----------------------------------------------------------------------------
(* What comments say and the code does not do.                             *)

(* internal/bot/bot.go, streams_api.go and internal/agent/agent.go call    *)
(* Pub/Sub the fallback of Streams.  Stated for an agent that listens to   *)
(* Pub/Sub and stays up, a Redis that never fails, and deadlines that pass *)
(* only when nothing else is left to happen: a call that falls back is     *)
(* answered.                                                               *)
FallbackServes ==
  \A c \in Calls : state[c] = "fallback" /\ attempt[c] = 1 ~> state[c] = "done"
=============================================================================
