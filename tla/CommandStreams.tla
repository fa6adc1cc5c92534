--------------------------- MODULE CommandStreams ---------------------------
(***************************************************************************)
(* The path of a command over Redis Streams, between one agent and the     *)
(* concurrent callers of one bot:                                          *)
(*                                                                         *)
(*   sendCommandAndParse -> sendCommandViaStreams -> BotAdapter.SendCommand*)
(*     XADD stream:cmd:KEY, then poll stream:resp:KEY for the command ID   *)
(*   Agent.handleCommandsViaStreams                                        *)
(*     XREAD stream:cmd:KEY through the bot's HTTP proxy, processCommand,  *)
(*     XADD stream:resp:KEY with the command ID                            *)
(*                                                                         *)
(* A stream is the sequence of all entries ever added; an entry's ID is    *)
(* its position.  The command stream also has the number of entries that   *)
(* MAXLEN has trimmed off its head.  The response stream has none: it is   *)
(* written by the HTTP proxy, which sets no MAXLEN.                        *)
(***************************************************************************)
EXTENDS Naturals, Sequences

CONSTANTS
  Requests,          \* calls of sendCommandViaStreams, each a fresh command ID
  ReadCount,         \* COUNT of every XREAD (10 in the code)
  StreamMaxLength,   \* MAXLEN of the bot's own XADD (1000 in the code)
  MaxLives,          \* bound: how often the agent process is started
  MaxFaults          \* bound: lost HTTP replies, Redis errors, panics, bot restarts

ASSUME ConstantsAssumption ==
  /\ ReadCount \in Nat \ {0}
  /\ StreamMaxLength \in Nat \ {0}
  /\ MaxLives \in Nat \ {0}
  /\ MaxFaults \in Nat

VARIABLES
  (* Redis *)
  cmdLog,            \* stream:cmd:KEY, the command IDs in order of XADD
  cmdTrim,           \* how many of them MAXLEN has removed
  respLog,           \* stream:resp:KEY, command_id and the run that answered
  (* the bot: one entry per call *)
  state,             \* where the call is
  cursor,            \* lastID of waitForResponse
  expired,           \* the call's context deadline has passed
  answer,            \* the run whose response the call returned, 0 for none
  (* the agent *)
  agentPc,           \* where handleCommandsViaStreams is
  firstRead,         \* its local of that name
  lo, hi,            \* the entries of the current batch still to process: lo..hi
  life,              \* how often the process was started
  (* history and bounds *)
  runs,              \* every execution of a command: its ID, its entry, the life
  faults             \* faults so far

redisVars == <<cmdLog, cmdTrim, respLog>>
botVars == <<state, cursor, expired, answer>>
agentVars == <<agentPc, firstRead, lo, hi, life>>
vars == <<redisVars, botVars, agentVars, runs, faults>>

CallStates == {"idle", "sending", "waiting", "fallback", "done", "failed"}
AgentStates == {"down", "idle", "blocked", "replied", "working", "executed"}

Run == [cmd : Requests, pos : Nat, life : Nat]
Response == [cmd : Requests, run : Nat]

TypeOK ==
  /\ cmdLog \in Seq(Requests)
  /\ cmdTrim \in 0 .. Len(cmdLog)
  /\ respLog \in Seq(Response)
  /\ state \in [Requests -> CallStates]
  /\ cursor \in [Requests -> Nat]
  /\ expired \in [Requests -> BOOLEAN]
  /\ answer \in [Requests -> Nat]
  /\ agentPc \in AgentStates
  /\ firstRead \in BOOLEAN
  /\ lo \in Nat \ {0}
  /\ hi \in Nat
  /\ life \in 1 .. MaxLives
  /\ runs \in Seq(Run)
  /\ faults \in 0 .. MaxFaults

Init ==
  /\ cmdLog = <<>> /\ cmdTrim = 0 /\ respLog = <<>>
  /\ state = [r \in Requests |-> "idle"]
  /\ cursor = [r \in Requests |-> 0]
  /\ expired = [r \in Requests |-> FALSE]
  /\ answer = [r \in Requests |-> 0]
  /\ agentPc = "idle" /\ firstRead = TRUE
  /\ lo = 1 /\ hi = 0
  /\ life = 1
  /\ runs = <<>>
  /\ faults = 0

Fault == faults < MaxFaults /\ faults' = faults + 1
NoFault == UNCHANGED faults

-----------------------------------------------------------------------------
(* Redis.                                                                  *)

Least(a, b) == IF a < b THEN a ELSE b

(* The last entry that XREAD COUNT ReadCount returns after entry id.       *)
XReadEnd(log, id) == Least(id + ReadCount, Len(log))

(* How far XADD with MAXLEN ~ may trim: not at all, or any prefix that     *)
(* leaves at least StreamMaxLength entries.                                *)
Trims_MaxLenTooMany(last) == {cmdTrim, cmdTrim + StreamMaxLength}   \* mutant
Trims(last) == {t \in cmdTrim .. last : t = cmdTrim \/ t + StreamMaxLength <= last}

(* XADD to the command stream: the command is appended, the stream may be  *)
(* trimmed, and a reader blocked on it is served the new entry at once.    *)
XAddCommand(r) ==
  LET last == Len(cmdLog) + 1 IN
  /\ cmdLog' = Append(cmdLog, r)
  /\ cmdTrim' \in Trims(last)
  /\ IF agentPc = "blocked"
       THEN agentPc' = "replied" /\ lo' = last /\ hi' = last
       ELSE UNCHANGED <<agentPc, lo, hi>>

-----------------------------------------------------------------------------
(* The bot: BotAdapter.SendCommand and waitForResponse, and the fallback   *)
(* of sendCommandViaStreams.                                               *)

Sending(r) == state[r] \in {"idle", "sending"}

SendCommand(r) ==
  /\ Sending(r)
  /\ XAddCommand(r)
  /\ state' = [state EXCEPT ![r] = "waiting"]
  /\ NoFault
  /\ UNCHANGED <<respLog, cursor, expired, answer, firstRead, life, runs>>

(* Redis adds the entry, but its reply is lost: go-redis repeats the XADD, *)
(* and the stream has the command twice.                                   *)
SendCommandRepeats(r) ==
  /\ Sending(r)
  /\ XAddCommand(r)
  /\ state' = [state EXCEPT ![r] = "sending"]
  /\ Fault
  /\ UNCHANGED <<respLog, cursor, expired, answer, firstRead, life, runs>>

(* AddMessage returns an error, with or without the entry being added, or  *)
(* because the deadline has passed: the call goes on with Pub/Sub.         *)
SendCommandError(r) ==
  /\ Sending(r)
  /\ XAddCommand(r) \/ UNCHANGED <<cmdLog, cmdTrim, agentPc, lo, hi>>
  /\ state' = [state EXCEPT ![r] = "fallback"]
  /\ Fault \/ (expired[r] /\ NoFault)
  /\ UNCHANGED <<respLog, cursor, expired, answer, firstRead, life, runs>>

(* The entries the next tick's XREAD returns to call r: those after lastID.*)
Window_SkipsOne(r) == cursor[r] + 2 .. XReadEnd(respLog, cursor[r])   \* mutant
Window(r) == cursor[r] + 1 .. XReadEnd(respLog, cursor[r])

(* The response is for this call's command.                                *)
Mine_Any(p, r) == TRUE   \* mutant
Mine(p, r) == respLog[p].cmd = r

Polling(r) == state[r] = "waiting" /\ ~ expired[r]

(* A tick whose batch holds a response with the call's command_id: the     *)
(* first such response is returned.                                        *)
PollHit(r) ==
  /\ Polling(r)
  /\ \E p \in Window(r) :
       /\ Mine(p, r)
       /\ \A q \in Window(r) : q < p => ~ Mine(q, r)
       /\ cursor' = [cursor EXCEPT ![r] = p]
       /\ answer' = [answer EXCEPT ![r] = respLog[p].run]
  /\ state' = [state EXCEPT ![r] = "done"]
  /\ UNCHANGED <<redisVars, expired, agentVars, runs, faults>>

(* A tick whose batch holds none: the batch is left behind.                *)
PollMiss(r) ==
  /\ Polling(r)
  /\ \A p \in Window(r) : ~ Mine(p, r)
  /\ cursor' = [cursor EXCEPT ![r] = XReadEnd(respLog, @)]
  /\ UNCHANGED <<redisVars, state, expired, answer, agentVars, runs, faults>>

(* The deadline of the context made by sendCommandAndParse passes.         *)
Expire_FallbackOnly(r) ==   \* mutant: waitForResponse has no deadline
  /\ state[r] = "fallback" /\ ~ expired[r]
  /\ expired' = [expired EXCEPT ![r] = TRUE]
  /\ UNCHANGED <<redisVars, state, cursor, answer, agentVars, runs, faults>>
Expire(r) ==
  /\ state[r] \in {"sending", "waiting", "fallback"} /\ ~ expired[r]
  /\ expired' = [expired EXCEPT ![r] = TRUE]
  /\ UNCHANGED <<redisVars, state, cursor, answer, agentVars, runs, faults>>

(* waitForResponse returns "timeout waiting for response".                 *)
Timeout_NoError(r) ==   \* mutant: the timeout is returned without an error
  /\ state[r] = "waiting" /\ expired[r]
  /\ state' = [state EXCEPT ![r] = "done"]
  /\ UNCHANGED <<redisVars, cursor, expired, answer, agentVars, runs, faults>>
Timeout(r) ==
  /\ state[r] = "waiting" /\ expired[r]
  /\ state' = [state EXCEPT ![r] = "fallback"]
  /\ UNCHANGED <<redisVars, cursor, expired, answer, agentVars, runs, faults>>

(* sendCommandViaPubSub: an agent that reads Streams is not subscribed to  *)
(* cmd:KEY, so the fallback ends in an error or in the deadline.           *)
FallbackEnds(r) ==
  /\ state[r] = "fallback"
  /\ state' = [state EXCEPT ![r] = "failed"]
  /\ UNCHANGED <<redisVars, cursor, expired, answer, agentVars, runs, faults>>

(* The bot process restarts: its calls are gone, and so is the read that   *)
(* the agent had pending in the bot's HTTP proxy.                          *)
BotRestart ==
  /\ Fault
  /\ state' = [r \in Requests |->
                 IF state[r] \in {"idle", "done"} THEN state[r] ELSE "failed"]
  /\ IF agentPc \in {"blocked", "replied"}
       THEN agentPc' = "idle" /\ lo' = 1 /\ hi' = 0
       ELSE UNCHANGED <<agentPc, lo, hi>>
  /\ UNCHANGED <<redisVars, cursor, expired, answer, firstRead, life, runs>>

-----------------------------------------------------------------------------
(* The agent: handleCommandsViaStreams and processCommand.                 *)

(* The loop's XREAD reaches Redis.  The first one reads from "0", the      *)
(* others from "$": whatever is in the stream by then is not returned.     *)
ReadMessages ==
  LET id == IF firstRead THEN cmdTrim ELSE Len(cmdLog) IN
  /\ agentPc = "idle"
  /\ IF id < Len(cmdLog)
       THEN agentPc' = "replied" /\ lo' = id + 1 /\ hi' = XReadEnd(cmdLog, id)
       ELSE agentPc' = "blocked" /\ UNCHANGED <<lo, hi>>
  /\ UNCHANGED <<redisVars, botVars, firstRead, life, runs, faults>>

(* BLOCK 5 s is over and nothing came: an empty reply.                     *)
BlockEnds ==
  /\ agentPc = "blocked"
  /\ agentPc' = "replied" /\ lo' = 1 /\ hi' = 0
  /\ UNCHANGED <<redisVars, botVars, firstRead, life, runs, faults>>

ReplyArrives_KeepsFirst ==   \* mutant: firstRead is never cleared
  /\ agentPc = "replied"
  /\ agentPc' = IF lo <= hi THEN "working" ELSE "idle"
  /\ UNCHANGED <<redisVars, botVars, firstRead, lo, hi, life, runs, faults>>
ReplyArrives ==
  /\ agentPc = "replied"
  /\ firstRead' = FALSE
  /\ agentPc' = IF lo <= hi THEN "working" ELSE "idle"
  /\ UNCHANGED <<redisVars, botVars, lo, hi, life, runs, faults>>

(* The read fails on its way, at Redis or back: sleep a second and retry.  *)
ReadFails ==
  /\ agentPc \in {"blocked", "replied"}
  /\ Fault
  /\ agentPc' = "idle" /\ lo' = 1 /\ hi' = 0
  /\ UNCHANGED <<redisVars, botVars, firstRead, life, runs>>

ThisRun == [cmd |-> cmdLog[lo], pos |-> lo, life |-> life]

(* On to the next entry of the batch, or to the next read.                 *)
NextCommand_DropsBatch ==   \* mutant: return instead of continue
  agentPc' = "idle" /\ lo' = 1 /\ hi' = 0
NextCommand ==
  IF lo < hi
    THEN agentPc' = "working" /\ lo' = lo + 1 /\ UNCHANGED hi
    ELSE agentPc' = "idle" /\ lo' = 1 /\ hi' = 0

(* The command's handler has run and produced a response.                  *)
Execute ==
  /\ agentPc = "working"
  /\ runs' = Append(runs, ThisRun)
  /\ agentPc' = "executed"
  /\ UNCHANGED <<redisVars, botVars, firstRead, lo, hi, life, faults>>

(* The handler panics: the reply goes to the channel resp:KEY, which has   *)
(* no subscriber, and nothing is added to the response stream.             *)
HandlerPanics ==
  /\ agentPc = "working"
  /\ Fault
  /\ runs' = Append(runs, ThisRun)
  /\ NextCommand
  /\ UNCHANGED <<redisVars, botVars, firstRead, life>>

(* sendResponseToCommand: XADD stream:resp:KEY, by the HTTP proxy.         *)
SendResponse_Keeps ==   \* mutant: a response that failed is kept and sent later
  /\ agentPc = "executed"
  /\ \E i \in 1 .. Len(runs) :
       respLog' = Append(respLog, [cmd |-> runs[i].cmd, run |-> i])
  /\ NextCommand
  /\ UNCHANGED <<cmdLog, cmdTrim, botVars, firstRead, life, runs, faults>>
SendResponse ==
  /\ agentPc = "executed"
  /\ respLog' = Append(respLog, [cmd |-> cmdLog[lo], run |-> Len(runs)])
  /\ NextCommand
  /\ UNCHANGED <<cmdLog, cmdTrim, botVars, firstRead, life, runs, faults>>

(* Redis adds the response, but its reply to the proxy is lost: go-redis   *)
(* repeats the XADD.                                                       *)
SendResponseRepeats ==
  /\ agentPc = "executed"
  /\ Fault
  /\ respLog' = Append(respLog, [cmd |-> cmdLog[lo], run |-> Len(runs)])
  /\ UNCHANGED <<cmdLog, cmdTrim, botVars, agentVars, runs>>

(* The XADD does not happen: the error is logged and the response is gone. *)
SendResponseFails ==
  /\ agentPc = "executed"
  /\ Fault
  /\ NextCommand
  /\ UNCHANGED <<redisVars, botVars, firstRead, life, runs>>

(* The process dies, or is stopped by the restart that ends an update.     *)
AgentStops ==
  /\ agentPc # "down" /\ life < MaxLives
  /\ agentPc' = "down" /\ lo' = 1 /\ hi' = 0
  /\ UNCHANGED <<redisVars, botVars, firstRead, life, runs, faults>>

(* systemd starts it again, with the locals of the loop as new.            *)
AgentStarts ==
  /\ agentPc = "down"
  /\ agentPc' = "idle"
  /\ firstRead' = TRUE
  /\ life' = life + 1
  /\ UNCHANGED <<redisVars, botVars, lo, hi, runs, faults>>

-----------------------------------------------------------------------------
Bot(r) ==
  \/ SendCommand(r) \/ SendCommandRepeats(r) \/ SendCommandError(r)
  \/ PollHit(r) \/ PollMiss(r)
  \/ Expire(r) \/ Timeout(r) \/ FallbackEnds(r)

Agent ==
  \/ ReadMessages \/ BlockEnds \/ ReplyArrives \/ ReadFails
  \/ Execute \/ HandlerPanics
  \/ SendResponse \/ SendResponseRepeats \/ SendResponseFails
  \/ AgentStops \/ AgentStarts

Next == (\E r \in Requests : Bot(r)) \/ BotRestart \/ Agent

Spec == Init /\ [][Next]_vars

(* Time passes, so deadlines and blocking reads end; the loops of the bot  *)
(* and of the agent keep running; systemd restarts the agent.  Nothing     *)
(* makes a user send a command, and no fault has to happen.                *)
Fairness ==
  /\ \A r \in Requests :
       /\ WF_vars(state[r] = "sending" /\ SendCommand(r))
       /\ WF_vars(Expire(r)) /\ WF_vars(Timeout(r)) /\ WF_vars(FallbackEnds(r))
       /\ WF_vars(PollHit(r) \/ PollMiss(r))
  /\ WF_vars(ReadMessages) /\ WF_vars(BlockEnds) /\ WF_vars(ReplyArrives)
  /\ WF_vars(Execute) /\ WF_vars(SendResponse)
  /\ WF_vars(AgentStarts)

FairSpec == Spec /\ Fairness

-----------------------------------------------------------------------------
(* Properties.                                                             *)

Executed(r) == \E i \in 1 .. Len(runs) : runs[i].cmd = r

(* A call that returns a response returns the response of an execution of  *)
(* the command it issued itself, however many calls share the two streams  *)
(* and however often the agent restarted in between (the command_id check  *)
(* of waitForResponse, the command_id that sendResponseToCommand writes).  *)
OwnAnswer ==
  \A r \in Requests : state[r] = "done" =>
    /\ answer[r] \in 1 .. Len(runs)
    /\ runs[answer[r]].cmd = r

(* A waiting call has never read past a response to its command: lastID    *)
(* moves over foreign responses only, so whatever answers the call is      *)
(* still ahead of it.                                                      *)
NoMissedAnswer ==
  \A r \in Requests : state[r] = "waiting" =>
    \A p \in 1 .. Len(respLog) : respLog[p].cmd = r => p > cursor[r]

(* One run of the agent process executes the commands in stream order and  *)
(* none of them twice: the batch is processed one by one, and "0" is read  *)
(* successfully only once per process.                                     *)
InOrderPerLife ==
  \A i, j \in 1 .. Len(runs) :
    i < j /\ runs[i].life = runs[j].life => runs[i].pos < runs[j].pos

(* In the stream the responses come in the order of the executions: an     *)
(* XADD is not tried again once a later command has been answered, across  *)
(* faults, repeated XADDs and restarts.                                    *)
AnswersInRunOrder ==
  \A p, q \in 1 .. Len(respLog) : p < q => respLog[p].run <= respLog[q].run

(* The refinement mapping to CommandRPC: a call that sends, polls or falls *)
(* back is pending; what is issued and executed is read off the histories. *)
CallStatus ==
  [r \in Requests |->
     IF state[r] \in {"sending", "waiting", "fallback"} THEN "pending"
     ELSE IF state[r] = "done" THEN "answered" ELSE state[r]]
IssuedCalls == {cmdLog[p] : p \in 1 .. Len(cmdLog)}
ExecutedCalls == {runs[i].cmd : i \in 1 .. Len(runs)}

RPC == INSTANCE CommandRPC WITH
  status <- CallStatus, issued <- IssuedCalls, executed <- ExecutedCalls

(* Safety: a call is answered after an execution of its own command, ends  *)
(* once, and only commands that callers issued are executed.               *)
ImplementsRPC == RPC!Spec

(* Liveness: every call ends, although the response may never come and the *)
(* fallback waits for an agent that does not listen.                       *)
CallsEnd == RPC!EveryCallEnds

(* A command in a batch that the agent has received is executed, unless    *)
(* the process goes down first: no command of a batch is dropped, whatever *)
(* happens to the ones before it (panic, failed response).                 *)
Received(r) == agentPc = "working" /\ \E p \in lo .. hi : cmdLog[p] = r

ReceivedIsExecuted ==
  \A r \in Requests : Received(r) ~> (Executed(r) \/ agentPc = "down")

-----------------------------------------------------------------------------
(* The inductive invariant: what each part of the system relies on.        *)

(* The batch the agent has in hand lies in the command stream.             *)
BatchInStream ==
  /\ agentPc \in {"replied", "working", "executed"} => hi <= Len(cmdLog)
  /\ agentPc \in {"working", "executed"} => lo <= hi /\ ~ firstRead

(* A process that went down may start again within the bound.              *)
RestartLeft == agentPc = "down" => life < MaxLives

(* Every execution is of an entry of the command stream, in this life or   *)
(* an earlier one.                                                         *)
RunsOfEntries ==
  \A i \in 1 .. Len(runs) :
    /\ runs[i].pos \in 1 .. Len(cmdLog)
    /\ runs[i].cmd = cmdLog[runs[i].pos]
    /\ runs[i].life <= life

(* Between the handler's return and the XADD of its response, the last     *)
(* execution is the one of the entry in hand.                              *)
ResponseOwed ==
  agentPc = "executed" =>
    /\ Len(runs) > 0
    /\ runs[Len(runs)].cmd = cmdLog[lo]

(* Every response is of an execution of the command it names.              *)
ResponsesOfRuns ==
  \A p \in 1 .. Len(respLog) :
    /\ respLog[p].run \in 1 .. Len(runs)
    /\ runs[respLog[p].run].cmd = respLog[p].cmd

(* In this life, everything executed lies before the batch in hand, and    *)
(* nothing has been executed before the first read has succeeded.          *)
RunsBeforeBatch ==
  \A i \in 1 .. Len(runs) : runs[i].life = life =>
    /\ agentPc \in {"replied", "working"} /\ lo <= hi => runs[i].pos < lo
    /\ agentPc = "executed" => runs[i].pos <= lo
    /\ agentPc # "down" => ~ firstRead

CursorInStream == \A r \in Requests : cursor[r] <= Len(respLog)

(* A call that is not waiting yet has read nothing: what has answered it   *)
(* already, should its first XADD have been repeated, lies ahead.          *)
NothingReadYet == \A r \in Requests : Sending(r) => cursor[r] = 0

IInv ==
  /\ TypeOK
  /\ BatchInStream /\ RestartLeft /\ RunsOfEntries /\ ResponseOwed
  /\ ResponsesOfRuns /\ RunsBeforeBatch /\ CursorInStream /\ NothingReadYet
  /\ OwnAnswer /\ NoMissedAnswer /\ InOrderPerLife /\ AnswersInRunOrder

-----------------------------------------------------------------------------
(* What docs and comments say and the code does not do.                    *)

(* docs/ARCHITECTURE.md, request-response flow, step 5: the agent polls    *)
(* and receives the command.  Stated for an agent that stays up and a      *)
(* broker that never fails (MaxLives = 1, MaxFaults = 0).                  *)
EveryCommandReceived ==
  \A r \in Requests : (\E p \in 1 .. Len(cmdLog) : cmdLog[p] = r) ~> Executed(r)
=============================================================================
