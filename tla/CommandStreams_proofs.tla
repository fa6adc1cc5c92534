------------------------ MODULE CommandStreams_proofs ------------------------
(***************************************************************************)
(* Proofs about CommandStreams, for every set of calls and every value of  *)
(* the constants: the inductive invariant IInv, the safety properties it   *)
(* contains, that no entry of a batch is dropped, and the refinement of    *)
(* CommandRPC.                                                             *)
(***************************************************************************)
EXTENDS CommandStreams, TLAPS

USE ConstantsAssumption DEF ConstantsAssumption

(* What an XADD does to a stream: one entry more, the others as they were. *)
LEMMA AppendFacts ==
  ASSUME NEW S, NEW s \in Seq(S), NEW e \in S
  PROVE  /\ Append(s, e) \in Seq(S)
         /\ Len(Append(s, e)) = Len(s) + 1
         /\ \A i \in 1 .. Len(s) : Append(s, e)[i] = s[i]
         /\ Append(s, e)[Len(s) + 1] = e
  OBVIOUS

(* The components of an execution.                                         *)
LEMMA RunFacts ==
  TypeOK => \A i \in 1 .. Len(runs) :
              /\ runs[i].cmd \in Requests
              /\ runs[i].pos \in Nat
              /\ runs[i].life \in Nat
  <1> SUFFICES ASSUME TypeOK, NEW i \in 1 .. Len(runs)
               PROVE  /\ runs[i].cmd \in Requests
                      /\ runs[i].pos \in Nat
                      /\ runs[i].life \in Nat
    OBVIOUS
  <1>1. runs[i] \in Run
    BY DEF TypeOK
  <1>2. QED BY <1>1 DEF Run

(* XREAD never returns entries beyond the end of the stream.               *)
LEMMA XReadEndFacts ==
  ASSUME NEW S, NEW log \in Seq(S), NEW id \in Nat, id <= Len(log)
  PROVE  /\ XReadEnd(log, id) \in Nat
         /\ id <= XReadEnd(log, id)
         /\ XReadEnd(log, id) <= Len(log)
         /\ id < Len(log) => id + 1 <= XReadEnd(log, id)
  BY DEF XReadEnd, Least

(* The type invariant is preserved where indices stay within the streams.  *)
LEMMA InitTypeOK == Init => TypeOK
  BY DEF Init, TypeOK, CallStates, AgentStates, Run, Response

LEMMA NextTypeOK ==
  TypeOK /\ BatchInStream /\ RestartLeft /\ CursorInStream /\ [Next]_vars => TypeOK'
  <1> SUFFICES ASSUME TypeOK, BatchInStream, RestartLeft, CursorInStream, [Next]_vars
               PROVE  TypeOK'
    OBVIOUS
  <1> USE DEF TypeOK, CallStates, AgentStates
  <1>15. ASSUME NextCommand
         PROVE  agentPc' \in AgentStates /\ lo' \in Nat \ {0} /\ hi' \in Nat
    BY <1>15 DEF NextCommand
  <1>1. ASSUME NEW r \in Requests, XAddCommand(r)
        PROVE  /\ cmdLog' \in Seq(Requests) /\ cmdTrim' \in 0 .. Len(cmdLog')
               /\ agentPc' \in AgentStates /\ lo' \in Nat \ {0} /\ hi' \in Nat
    BY <1>1, AppendFacts DEF XAddCommand, Trims
  <1>2. ASSUME NEW r \in Requests, SendCommand(r) PROVE TypeOK'
    BY <1>2, <1>1 DEF SendCommand, NoFault
  <1>3. ASSUME NEW r \in Requests, SendCommandError(r) PROVE TypeOK'
    <2>1. faults' \in 0 .. MaxFaults
      BY <1>3 DEF SendCommandError, Fault, NoFault
    <2>2. QED BY <1>3, <1>1, <2>1 DEF SendCommandError
  <1>17. ASSUME NEW r \in Requests, SendCommandRepeats(r) PROVE TypeOK'
    BY <1>17, <1>1 DEF SendCommandRepeats, Fault
  <1>4. ASSUME NEW r \in Requests, PollHit(r) PROVE TypeOK'
    <2>1. PICK p \in Window(r) : /\ cursor' = [cursor EXCEPT ![r] = p]
                                 /\ answer' = [answer EXCEPT ![r] = respLog[p].run]
      BY <1>4 DEF PollHit, Mine
    <2>2. p \in 1 .. Len(respLog)
      BY XReadEndFacts DEF Window, CursorInStream
    <2>3. respLog[p].run \in Nat
      <3>1. respLog[p] \in Response
        BY <2>2
      <3>2. QED BY <3>1 DEF Response
    <2>4. QED BY <1>4, <2>1, <2>2, <2>3 DEF PollHit, redisVars, agentVars
  <1>5. ASSUME NEW r \in Requests, PollMiss(r) PROVE TypeOK'
    <2>1. XReadEnd(respLog, cursor[r]) \in Nat
      BY XReadEndFacts DEF CursorInStream
    <2>2. QED BY <1>5, <2>1 DEF PollMiss, redisVars, agentVars
  <1>6. ASSUME NEW r \in Requests, Expire(r) \/ Timeout(r) \/ FallbackEnds(r) PROVE TypeOK'
    BY <1>6 DEF Expire, Timeout, FallbackEnds, redisVars, agentVars
  <1>7. CASE BotRestart
    BY <1>7 DEF BotRestart, Fault, redisVars
  <1>8. CASE ReadMessages
    <2>1. XReadEnd(cmdLog, IF firstRead THEN cmdTrim ELSE Len(cmdLog)) \in Nat
      BY XReadEndFacts
    <2>2. QED BY SMTT(30), <1>8, <2>1 DEF ReadMessages, redisVars, botVars
  <1>9. CASE BlockEnds \/ ReplyArrives \/ ReadFails \/ SendResponseFails
    <2>1. CASE BlockEnds
      BY <2>1 DEF BlockEnds, redisVars, botVars
    <2>2. CASE ReplyArrives
      BY <2>2 DEF ReplyArrives, redisVars, botVars
    <2>3. CASE ReadFails
      BY <2>3 DEF ReadFails, Fault, redisVars, botVars
    <2>4. CASE SendResponseFails
      BY <2>4, <1>15 DEF SendResponseFails, Fault, redisVars, botVars
    <2>5. QED BY <1>9, <2>1, <2>2, <2>3, <2>4
  <1>10. ASSUME agentPc \in {"working", "executed"}
         PROVE  lo \in 1 .. Len(cmdLog) /\ cmdLog[lo] \in Requests
    BY <1>10 DEF BatchInStream
  <1>11. CASE Execute \/ HandlerPanics
    <2>1. ThisRun \in Run
      BY <1>10, <1>11 DEF ThisRun, Run, Execute, HandlerPanics
    <2>2. Append(runs, ThisRun) \in Seq(Run)
      BY <2>1, AppendFacts
    <2>3. CASE Execute
      BY <2>2, <2>3 DEF Execute, redisVars, botVars
    <2>4. CASE HandlerPanics
      BY <2>2, <2>4, <1>15 DEF HandlerPanics, Fault, redisVars, botVars
    <2>5. QED BY <1>11, <2>3, <2>4
  <1>12. CASE SendResponse \/ SendResponseRepeats
    <2>1. [cmd |-> cmdLog[lo], run |-> Len(runs)] \in Response
      BY <1>10, <1>12 DEF SendResponse, SendResponseRepeats, Response
    <2>2. Append(respLog, [cmd |-> cmdLog[lo], run |-> Len(runs)]) \in Seq(Response)
      BY <2>1, AppendFacts
    <2>3. CASE SendResponse
      BY <2>3, <1>15, <2>2 DEF SendResponse, botVars
    <2>4. CASE SendResponseRepeats
      BY <2>4, <2>2 DEF SendResponseRepeats, Fault, botVars, agentVars
    <2>5. QED BY <1>12, <2>3, <2>4
  <1>13. CASE AgentStops \/ AgentStarts
    <2>1. CASE AgentStops
      BY <2>1 DEF AgentStops, redisVars, botVars
    <2>2. CASE AgentStarts
      BY <2>2 DEF AgentStarts, RestartLeft, redisVars, botVars
    <2>3. QED BY <1>13, <2>1, <2>2
  <1>14. CASE UNCHANGED vars
    BY <1>14 DEF vars, redisVars, botVars, agentVars
  <1>16. QED
    BY <1>2, <1>3, <1>4, <1>5, <1>6, <1>7, <1>8, <1>9, <1>11, <1>12, <1>13, <1>14, <1>17
       DEF Next, Bot, Agent

-----------------------------------------------------------------------------
(* The inductive step, one lemma per part of the system that moves.        *)

(* XADD to the command stream, with the new entry served to a blocked      *)
(* agent: entries keep their positions, so nothing said of them changes.   *)
LEMMA XAddCommandStep ==
  ASSUME IInv, NEW r \in Requests, XAddCommand(r),
         UNCHANGED <<respLog, firstRead, life, runs>>
  PROVE  /\ BatchInStream' /\ RestartLeft' /\ RunsOfEntries' /\ ResponseOwed'
         /\ ResponsesOfRuns' /\ RunsBeforeBatch' /\ InOrderPerLife' /\ AnswersInRunOrder'
  <1> USE DEF IInv
  <1>1. /\ Len(cmdLog') = Len(cmdLog) + 1
        /\ Len(cmdLog) \in Nat
        /\ \A p \in 1 .. Len(cmdLog) : cmdLog'[p] = cmdLog[p]
    BY AppendFacts DEF XAddCommand, Trims, TypeOK
  <1>2. \/ UNCHANGED <<agentPc, lo, hi>>
        \/ /\ agentPc = "blocked" /\ agentPc' = "replied"
           /\ lo' = Len(cmdLog) + 1 /\ hi' = Len(cmdLog) + 1
    BY DEF XAddCommand, Trims
  <1>3. BatchInStream'
    BY <1>1, <1>2 DEF BatchInStream, TypeOK
  <1>4. RestartLeft'
    BY <1>2 DEF RestartLeft
  <1>5. RunsOfEntries'
    BY <1>1 DEF RunsOfEntries
  <1>6. ResponseOwed'
    <2>1. agentPc' = "executed" => UNCHANGED <<agentPc, lo>> /\ lo \in 1 .. Len(cmdLog)
      BY <1>2 DEF BatchInStream, TypeOK
    <2>2. QED BY <1>1, <2>1 DEF ResponseOwed
  <1>7. ResponsesOfRuns' /\ InOrderPerLife' /\ AnswersInRunOrder'
    BY DEF ResponsesOfRuns, InOrderPerLife, AnswersInRunOrder
  <1>8. RunsBeforeBatch'
    <2>1. CASE UNCHANGED <<agentPc, lo, hi>>
      BY <2>1 DEF RunsBeforeBatch
    <2>2. CASE agentPc = "blocked" /\ agentPc' = "replied" /\ lo' = Len(cmdLog) + 1
      <3>1. \A i \in 1 .. Len(runs) : runs[i].pos < lo'
        BY <1>1, <2>2 DEF RunsOfEntries
      <3>2. QED BY <2>2, <3>1 DEF RunsBeforeBatch
    <2>3. QED BY <1>2, <2>1, <2>2
  <1>9. QED BY <1>3, <1>4, <1>5, <1>6, <1>7, <1>8

(* A call sends: it has read nothing yet.                                  *)
LEMMA SendStep ==
  ASSUME IInv, TypeOK', NEW r \in Requests,
         SendCommand(r) \/ SendCommandRepeats(r) \/ SendCommandError(r)
  PROVE  IInv'
  <1> USE DEF IInv
  <1>1. /\ Sending(r)
        /\ \E s \in {"sending", "waiting", "fallback"} : state' = [state EXCEPT ![r] = s]
        /\ UNCHANGED <<respLog, cursor, answer, firstRead, life, runs>>
    BY DEF SendCommand, SendCommandRepeats, SendCommandError
  <1>2. \/ XAddCommand(r)
        \/ UNCHANGED <<cmdLog, agentPc, lo, hi>>
    BY DEF SendCommand, SendCommandRepeats, SendCommandError
  <1>3. /\ BatchInStream' /\ RestartLeft' /\ RunsOfEntries' /\ ResponseOwed'
        /\ ResponsesOfRuns' /\ RunsBeforeBatch' /\ InOrderPerLife' /\ AnswersInRunOrder'
    <2>1. CASE XAddCommand(r)
      BY <2>1, <1>1, XAddCommandStep
    <2>2. CASE UNCHANGED <<cmdLog, agentPc, lo, hi>>
      BY <2>2, <1>1 DEF BatchInStream, RestartLeft, RunsOfEntries, ResponseOwed,
           ResponsesOfRuns, RunsBeforeBatch, InOrderPerLife, AnswersInRunOrder
    <2>3. QED BY <1>2, <2>1, <2>2
  <1>4. CursorInStream'
    BY <1>1 DEF CursorInStream
  <1>5. NothingReadYet'
    BY <1>1 DEF NothingReadYet, Sending, TypeOK
  <1>6. OwnAnswer'
    BY <1>1 DEF OwnAnswer, TypeOK
  <1>7. NoMissedAnswer'
    <2>1. cursor[r] = 0
      BY <1>1 DEF NothingReadYet
    <2>2. \A s \in Requests : state'[s] = "waiting" => s = r \/ state[s] = "waiting"
      BY <1>1 DEF TypeOK
    <2>3. QED BY <1>1, <2>1, <2>2 DEF NoMissedAnswer
  <1>8. QED BY <1>3, <1>4, <1>5, <1>6, <1>7

(* A tick of waitForResponse: what it leaves behind is not for this call,  *)
(* and what it returns names this call.                                    *)
LEMMA PollStep ==
  ASSUME IInv, TypeOK', NEW r \in Requests, PollHit(r) \/ PollMiss(r)
  PROVE  IInv'
  <1> USE DEF IInv
  <1>1. /\ UNCHANGED <<cmdLog, respLog, agentPc, lo, hi, firstRead, life, runs>>
        /\ state[r] = "waiting"
    BY DEF PollHit, PollMiss, Polling, redisVars, agentVars
  <1>2. /\ BatchInStream' /\ RestartLeft' /\ RunsOfEntries' /\ ResponseOwed'
        /\ ResponsesOfRuns' /\ RunsBeforeBatch' /\ InOrderPerLife' /\ AnswersInRunOrder'
    BY <1>1 DEF BatchInStream, RestartLeft, RunsOfEntries, ResponseOwed,
         ResponsesOfRuns, RunsBeforeBatch, InOrderPerLife, AnswersInRunOrder
  <1>3. /\ cursor[r] \in Nat /\ cursor[r] <= Len(respLog) /\ Len(respLog) \in Nat
        /\ XReadEnd(respLog, cursor[r]) \in Nat
        /\ cursor[r] <= XReadEnd(respLog, cursor[r])
        /\ XReadEnd(respLog, cursor[r]) <= Len(respLog)
    <2> HIDE DEF IInv
    <2>1. respLog \in Seq(Response) /\ cursor[r] \in Nat
      BY DEF IInv, TypeOK
    <2>2. cursor[r] <= Len(respLog) /\ Len(respLog) \in Nat
      BY <2>1 DEF IInv, CursorInStream
    <2>3. QED BY <2>1, <2>2, XReadEndFacts
  <1>4. CASE PollHit(r)
    <2>1. PICK p \in Window(r) : /\ respLog[p].cmd = r
                                 /\ cursor' = [cursor EXCEPT ![r] = p]
                                 /\ answer' = [answer EXCEPT ![r] = respLog[p].run]
      BY <1>4 DEF PollHit, Mine
    <2>2. p \in 1 .. Len(respLog)
      BY <1>3 DEF Window
    <2>3. state' = [state EXCEPT ![r] = "done"]
      BY <1>4 DEF PollHit, Mine
    <2>4. CursorInStream'
      BY <1>1, <2>1, <2>2 DEF CursorInStream, TypeOK
    <2>5. NothingReadYet' /\ NoMissedAnswer'
      BY <1>1, <2>1, <2>3 DEF NothingReadYet, Sending, NoMissedAnswer, TypeOK
    <2>6. OwnAnswer'
      BY <1>1, <2>1, <2>2, <2>3 DEF OwnAnswer, ResponsesOfRuns, TypeOK
    <2>7. QED BY <1>2, <2>4, <2>5, <2>6
  <1>5. CASE PollMiss(r)
    <2>1. /\ cursor' = [cursor EXCEPT ![r] = XReadEnd(respLog, cursor[r])]
          /\ \A p \in Window(r) : respLog[p].cmd # r
          /\ UNCHANGED <<state, answer>>
      BY <1>5 DEF PollMiss, Mine
    <2>2. CursorInStream'
      BY <1>1, <1>3, <2>1 DEF CursorInStream, TypeOK
    <2>3. NothingReadYet' /\ OwnAnswer'
      BY <1>1, <2>1 DEF NothingReadYet, Sending, OwnAnswer, TypeOK
    <2>4. NoMissedAnswer'
      <3>1. \A p \in 1 .. Len(respLog) :
              respLog[p].cmd = r => p > XReadEnd(respLog, cursor[r])
        BY <1>1, <1>3, <2>1 DEF Window, NoMissedAnswer
      <3>2. QED BY <1>1, <2>1, <3>1 DEF NoMissedAnswer, TypeOK
    <2>5. QED BY <1>2, <2>2, <2>3, <2>4
  <1>6. QED BY <1>4, <1>5

(* Deadlines, the fallback and a restart of the bot: no call starts to     *)
(* wait and none is answered; the agent loses at most its pending read.    *)
LEMMA BotOtherStep ==
  ASSUME IInv, TypeOK',
         \/ \E r \in Requests : Expire(r) \/ Timeout(r) \/ FallbackEnds(r)
         \/ BotRestart
  PROVE  IInv'
  <1> USE DEF IInv
  <1>1. /\ UNCHANGED <<cmdLog, respLog, cursor, answer, firstRead, life, runs>>
        /\ \A q \in Requests : state'[q] = state[q] \/ state'[q] \in {"fallback", "failed"}
        /\ \/ UNCHANGED <<agentPc, lo, hi>>
           \/ agentPc' = "idle" /\ agentPc # "down"
    <2>1. CASE BotRestart
      BY <2>1 DEF BotRestart, redisVars
    <2>2. ASSUME NEW r \in Requests, Expire(r) \/ Timeout(r) \/ FallbackEnds(r)
          PROVE  <1>1!:
      BY <2>2 DEF Expire, Timeout, FallbackEnds, redisVars, agentVars, TypeOK
    <2>3. QED BY <2>1, <2>2
  <1>2. BatchInStream' /\ RestartLeft' /\ ResponseOwed' /\ RunsBeforeBatch'
    BY <1>1 DEF BatchInStream, RestartLeft, ResponseOwed, RunsBeforeBatch
  <1>3. /\ RunsOfEntries' /\ ResponsesOfRuns' /\ CursorInStream'
        /\ InOrderPerLife' /\ AnswersInRunOrder'
    BY <1>1 DEF RunsOfEntries, ResponsesOfRuns, CursorInStream, InOrderPerLife,
         AnswersInRunOrder
  <1>4. NothingReadYet' /\ OwnAnswer' /\ NoMissedAnswer'
    BY <1>1 DEF NothingReadYet, Sending, OwnAnswer, NoMissedAnswer
  <1>5. QED BY <1>2, <1>3, <1>4

(* The read of the command stream and the life of the process: nothing is  *)
(* executed or answered; a batch starts after everything executed so far.  *)
LEMMA ReadStep ==
  ASSUME IInv, TypeOK',
         ReadMessages \/ BlockEnds \/ ReplyArrives \/ ReadFails \/ AgentStops \/ AgentStarts
  PROVE  IInv'
  <1> USE DEF IInv
  <1>1. UNCHANGED <<cmdLog, respLog, state, cursor, answer, runs>>
    BY DEF ReadMessages, BlockEnds, ReplyArrives, ReadFails, AgentStops, AgentStarts,
         redisVars, botVars
  <1>2. /\ ResponsesOfRuns' /\ CursorInStream' /\ NothingReadYet' /\ OwnAnswer'
        /\ NoMissedAnswer' /\ InOrderPerLife' /\ AnswersInRunOrder'
    BY <1>1 DEF ResponsesOfRuns, CursorInStream, NothingReadYet, Sending, OwnAnswer,
         NoMissedAnswer, InOrderPerLife, AnswersInRunOrder
  <1>3. CASE ReadMessages
    <2>1. life' = life /\ firstRead' = firstRead /\ agentPc = "idle"
      BY <1>3 DEF ReadMessages
    <2>2. \/ /\ agentPc' = "replied" /\ hi' <= Len(cmdLog)
             /\ firstRead \/ lo' = Len(cmdLog) + 1
          \/ agentPc' = "blocked"
      <3>1. \A id \in Nat : id <= Len(cmdLog) => XReadEnd(cmdLog, id) <= Len(cmdLog)
        BY XReadEndFacts DEF TypeOK
      <3>2. QED BY <1>3, <3>1 DEF ReadMessages, TypeOK
    <2>3. BatchInStream' /\ RestartLeft' /\ RunsOfEntries' /\ ResponseOwed'
      BY <1>1, <2>1, <2>2 DEF BatchInStream, RestartLeft, RunsOfEntries, ResponseOwed
    <2>4. RunsBeforeBatch'
      <3>1. \A i \in 1 .. Len(runs) : runs[i].life = life =>
              ~ firstRead /\ runs[i].pos \in 1 .. Len(cmdLog)
        BY <2>1 DEF RunsBeforeBatch, RunsOfEntries
      <3>2. \A i \in 1 .. Len(runs) : runs[i].life = life =>
              agentPc' = "blocked" \/ (agentPc' = "replied" /\ runs[i].pos < lo')
        BY <2>2, <3>1
      <3>3. QED BY <1>1, <2>1, <2>2, <3>1, <3>2 DEF RunsBeforeBatch
    <2>5. QED BY <1>2, <2>3, <2>4
  <1>4. CASE BlockEnds
    <2>1. /\ agentPc = "blocked" /\ agentPc' = "replied" /\ lo' = 1 /\ hi' = 0
          /\ life' = life /\ firstRead' = firstRead
      BY <1>4 DEF BlockEnds
    <2>2. QED BY <1>1, <1>2, <2>1 DEF BatchInStream, RestartLeft, RunsOfEntries,
               ResponseOwed, RunsBeforeBatch, TypeOK
  <1>5. CASE ReplyArrives
    <2>1. /\ agentPc = "replied" /\ firstRead' = FALSE
          /\ agentPc' = IF lo <= hi THEN "working" ELSE "idle"
          /\ UNCHANGED <<lo, hi, life>>
      BY <1>5 DEF ReplyArrives
    <2>2. BatchInStream' /\ RestartLeft' /\ RunsOfEntries' /\ ResponseOwed'
      BY <1>1, <2>1 DEF BatchInStream, RestartLeft, RunsOfEntries, ResponseOwed
    <2>3. RunsBeforeBatch'
      BY <1>1, <2>1 DEF RunsBeforeBatch
    <2>4. QED BY <1>2, <2>2, <2>3
  <1>6. CASE ReadFails
    <2>1. /\ agentPc \in {"blocked", "replied"} /\ agentPc' = "idle"
          /\ life' = life /\ firstRead' = firstRead
      BY <1>6 DEF ReadFails
    <2>2. QED BY <1>1, <1>2, <2>1 DEF BatchInStream, RestartLeft, RunsOfEntries,
               ResponseOwed, RunsBeforeBatch
  <1>7. CASE AgentStops
    <2>1. agentPc' = "down" /\ life < MaxLives /\ life' = life
      BY <1>7 DEF AgentStops
    <2>2. QED BY <1>1, <1>2, <2>1 DEF BatchInStream, RestartLeft, RunsOfEntries,
               ResponseOwed, RunsBeforeBatch
  <1>8. CASE AgentStarts
    <2>1. agentPc' = "idle" /\ life' = life + 1
      BY <1>8 DEF AgentStarts
    <2>2. \A i \in 1 .. Len(runs) : runs[i].life # life' /\ runs[i].life <= life'
      <3>1. life \in Nat
        BY DEF TypeOK
      <3>2. QED BY <2>1, <3>1, RunFacts DEF RunsOfEntries
    <2>3. QED BY <1>1, <1>2, <2>1, <2>2 DEF BatchInStream, RestartLeft, RunsOfEntries,
               ResponseOwed, RunsBeforeBatch
  <1>9. QED BY <1>3, <1>4, <1>5, <1>6, <1>7, <1>8

(* The entry in hand and the record of its execution.                      *)
LEMMA InHand ==
  ASSUME TypeOK, BatchInStream, agentPc \in {"working", "executed"}
  PROVE  /\ lo \in 1 .. Len(cmdLog) /\ lo <= hi /\ hi <= Len(cmdLog) /\ ~ firstRead
         /\ cmdLog[lo] \in Requests
         /\ ThisRun \in Run
         /\ ThisRun.cmd = cmdLog[lo] /\ ThisRun.pos = lo /\ ThisRun.life = life
  <1>1. lo \in 1 .. Len(cmdLog) /\ lo <= hi /\ hi <= Len(cmdLog) /\ ~ firstRead
    BY DEF TypeOK, BatchInStream
  <1>2. cmdLog[lo] \in Requests
    BY <1>1 DEF TypeOK
  <1>3. QED BY <1>1, <1>2 DEF ThisRun, Run, TypeOK

(* A handler runs: one execution more, of the entry in hand, which comes   *)
(* after every entry executed in this life.                                *)
LEMMA RunStep ==
  ASSUME IInv, TypeOK', Execute \/ HandlerPanics
  PROVE  IInv'
  <1> USE DEF IInv
  <1>1. /\ agentPc = "working" /\ runs' = Append(runs, ThisRun)
        /\ UNCHANGED <<cmdLog, respLog, state, cursor, answer, firstRead, life>>
    BY DEF Execute, HandlerPanics, redisVars, botVars
  <1>2. \/ agentPc' = "executed" /\ UNCHANGED <<lo, hi>>
        \/ agentPc' = "working" /\ lo < hi /\ lo' = lo + 1 /\ hi' = hi
        \/ agentPc' = "idle"
    BY DEF Execute, HandlerPanics, NextCommand
  <1>3. /\ lo \in 1 .. Len(cmdLog) /\ lo <= hi /\ hi \in Nat /\ hi <= Len(cmdLog)
        /\ Len(cmdLog) \in Nat /\ ~ firstRead
        /\ ThisRun \in Run
        /\ ThisRun.cmd = cmdLog[lo] /\ ThisRun.pos = lo /\ ThisRun.life = life
    <2>1. hi \in Nat /\ Len(cmdLog) \in Nat
      BY DEF TypeOK
    <2>2. QED BY <1>1, <2>1, InHand
  <1>4. /\ Len(runs') = Len(runs) + 1 /\ Len(runs) \in Nat
        /\ \A i \in 1 .. Len(runs) : runs'[i] = runs[i]
        /\ runs'[Len(runs) + 1] = ThisRun
    <2>1. runs \in Seq(Run)
      BY DEF TypeOK
    <2>2. QED BY <1>1, <1>3, <2>1, AppendFacts
  <1>5. \A i \in 1 .. Len(runs') : i = Len(runs) + 1 \/ i \in 1 .. Len(runs)
    BY <1>4
  <1>6. \A i \in 1 .. Len(runs) : runs[i].life = life => runs[i].pos < lo
    BY <1>1, <1>3 DEF RunsBeforeBatch
  <1>7. BatchInStream' /\ RestartLeft'
    BY <1>1, <1>2, <1>3 DEF BatchInStream, RestartLeft
  <1>8. RunsOfEntries'
    <2>1. life \in Nat
      BY DEF TypeOK
    <2>2. QED BY <1>1, <1>3, <1>4, <1>5, <2>1 DEF RunsOfEntries
  <1>9. ResponsesOfRuns'
    BY <1>1, <1>4 DEF ResponsesOfRuns
  <1>10. ResponseOwed'
    BY <1>1, <1>2, <1>3, <1>4 DEF ResponseOwed, ResponsesOfRuns
  <1>11. RunsBeforeBatch'
    <2>1. \A i \in 1 .. Len(runs') : runs'[i].life = life => runs'[i].pos <= lo
      BY <1>3, <1>4, <1>5, <1>6, RunFacts
    <2>2. \A i \in 1 .. Len(runs') : runs'[i].pos \in Nat
      BY SMTT(30), <1>3, <1>4, <1>5, RunFacts
    <2>3. QED BY SMTT(30), <1>1, <1>2, <1>3, <2>1, <2>2 DEF RunsBeforeBatch
  <1>12. OwnAnswer'
    BY <1>1, <1>4 DEF OwnAnswer
  <1>13. InOrderPerLife'
    BY <1>3, <1>4, <1>5, <1>6 DEF InOrderPerLife
  <1>14. CursorInStream' /\ NothingReadYet' /\ NoMissedAnswer' /\ AnswersInRunOrder'
    BY <1>1 DEF CursorInStream, NothingReadYet, Sending, NoMissedAnswer, AnswersInRunOrder
  <1>15. QED
    BY <1>7, <1>8, <1>9, <1>10, <1>11, <1>12, <1>13, <1>14

(* The execution in hand is answered, once or again, or its answer is      *)
(* lost; when that is settled the agent turns to the next entry.           *)
LEMMA RespondStep ==
  ASSUME IInv, TypeOK', SendResponse \/ SendResponseRepeats \/ SendResponseFails
  PROVE  IInv'
  <1> USE DEF IInv
  <1>1. /\ agentPc = "executed"
        /\ UNCHANGED <<cmdLog, state, cursor, answer, firstRead, life, runs>>
    BY DEF SendResponse, SendResponseRepeats, SendResponseFails, redisVars, botVars, agentVars
  <1>2. \/ agentPc' = "working" /\ lo < hi /\ lo' = lo + 1 /\ hi' = hi
        \/ agentPc' = "idle"
        \/ UNCHANGED <<agentPc, lo, hi>>
    BY DEF SendResponse, SendResponseRepeats, SendResponseFails, NextCommand, agentVars
  <1>3. /\ lo \in 1 .. Len(cmdLog) /\ lo <= hi /\ hi \in Nat /\ hi <= Len(cmdLog)
        /\ Len(cmdLog) \in Nat /\ ~ firstRead /\ cmdLog[lo] \in Requests
    BY SMTT(30), <1>1, InHand DEF TypeOK
  <1>4. /\ BatchInStream' /\ RestartLeft' /\ RunsOfEntries' /\ ResponseOwed'
        /\ NothingReadYet' /\ OwnAnswer' /\ InOrderPerLife'
    BY <1>1, <1>2, <1>3 DEF BatchInStream, RestartLeft, RunsOfEntries, ResponseOwed,
         NothingReadYet, Sending, OwnAnswer, InOrderPerLife
  <1>5. RunsBeforeBatch'
    <2>1. \A i \in 1 .. Len(runs) : runs[i].life = life => runs[i].pos <= lo
      BY <1>1 DEF RunsBeforeBatch
    <2>2. QED BY <1>1, <1>2, <1>3, <2>1, RunFacts DEF RunsBeforeBatch
  <1>6. CASE respLog' = respLog
    BY <1>1, <1>4, <1>5, <1>6 DEF ResponsesOfRuns, CursorInStream, NoMissedAnswer,
         AnswersInRunOrder
  <1>7. CASE respLog' = Append(respLog, [cmd |-> cmdLog[lo], run |-> Len(runs)])
    <2>1. /\ Len(respLog') = Len(respLog) + 1 /\ Len(respLog) \in Nat
          /\ \A p \in 1 .. Len(respLog) : respLog'[p] = respLog[p]
          /\ respLog'[Len(respLog) + 1] = [cmd |-> cmdLog[lo], run |-> Len(runs)]
      <3>1. respLog \in Seq(Response) /\ Len(runs) \in Nat
        BY DEF TypeOK
      <3>2. [cmd |-> cmdLog[lo], run |-> Len(runs)] \in Response
        BY <1>3, <3>1 DEF Response
      <3>3. QED BY <1>7, <3>1, <3>2, AppendFacts
    <2>2. \A p \in 1 .. Len(respLog') : p = Len(respLog) + 1 \/ p \in 1 .. Len(respLog)
      BY <2>1
    <2>3. /\ Len(runs) > 0 /\ runs[Len(runs)].cmd = cmdLog[lo] /\ Len(runs) \in Nat
          /\ \A p \in 1 .. Len(respLog) : respLog[p].run \in 1 .. Len(runs)
      <3>1. Len(runs) \in Nat
        BY DEF TypeOK
      <3>2. QED BY <1>1, <3>1 DEF ResponseOwed, ResponsesOfRuns
    <2>4. ResponsesOfRuns'
      BY <1>1, <2>1, <2>2, <2>3 DEF ResponsesOfRuns
    <2>5. AnswersInRunOrder'
      BY <2>1, <2>2, <2>3 DEF AnswersInRunOrder
    <2>6. CursorInStream'
      BY <1>1, <2>1 DEF CursorInStream, TypeOK
    <2>7. NoMissedAnswer'
      <3>1. \A r \in Requests : cursor[r] \in Nat /\ cursor[r] <= Len(respLog)
        BY DEF CursorInStream, TypeOK
      <3>2. QED BY <1>1, <2>1, <2>2, <3>1 DEF NoMissedAnswer
    <2>8. QED BY <1>4, <1>5, <2>4, <2>5, <2>6, <2>7
  <1>8. QED BY <1>6, <1>7 DEF SendResponse, SendResponseRepeats, SendResponseFails, redisVars

-----------------------------------------------------------------------------
LEMMA InitIInv == Init => IInv
  <1>1. ASSUME Init PROVE IInv
    BY <1>1, InitTypeOK DEF Init, IInv, BatchInStream, RestartLeft, RunsOfEntries,
         ResponseOwed, ResponsesOfRuns, RunsBeforeBatch, CursorInStream, NothingReadYet, Sending,
         OwnAnswer, NoMissedAnswer, InOrderPerLife, AnswersInRunOrder
  <1>2. QED BY <1>1

LEMMA NextIInv == IInv /\ [Next]_vars => IInv'
  <1> SUFFICES ASSUME IInv, [Next]_vars PROVE IInv'
    OBVIOUS
  <1>1. TypeOK'
    BY NextTypeOK DEF IInv
  <1>2. CASE \E r \in Requests :
               SendCommand(r) \/ SendCommandRepeats(r) \/ SendCommandError(r)
    BY <1>1, <1>2, SendStep
  <1>3. CASE \E r \in Requests : PollHit(r) \/ PollMiss(r)
    BY <1>1, <1>3, PollStep
  <1>4. CASE \/ \E r \in Requests : Expire(r) \/ Timeout(r) \/ FallbackEnds(r)
             \/ BotRestart
    BY <1>1, <1>4, BotOtherStep
  <1>5. CASE \/ ReadMessages \/ BlockEnds \/ ReplyArrives \/ ReadFails
             \/ AgentStops \/ AgentStarts
    BY <1>1, <1>5, ReadStep
  <1>6. CASE Execute \/ HandlerPanics
    BY <1>1, <1>6, RunStep
  <1>7. CASE SendResponse \/ SendResponseRepeats \/ SendResponseFails
    BY <1>1, <1>7, RespondStep
  <1>8. CASE UNCHANGED vars
    BY <1>8 DEF vars, redisVars, botVars, agentVars, IInv, TypeOK, BatchInStream, RestartLeft,
         RunsOfEntries, ResponseOwed, ResponsesOfRuns, RunsBeforeBatch, CursorInStream,
         NothingReadYet, Sending, OwnAnswer, NoMissedAnswer, InOrderPerLife, AnswersInRunOrder
  <1>9. QED
    BY <1>2, <1>3, <1>4, <1>5, <1>6, <1>7, <1>8 DEF Next, Bot, Agent

(* IInv holds in every reachable state, whatever the number of calls, the  *)
(* batch size, the trimming, and the number of restarts and faults.        *)
THEOREM Invariance == Spec => []IInv
  BY InitIInv, NextIInv, PTL DEF Spec

(* Every variable keeps its type: in particular no read position leaves    *)
(* its stream and the agent is never started beyond the bound.             *)
THEOREM TypeCorrect == Spec => []TypeOK
  <1>1. IInv => TypeOK
    BY DEF IInv
  <1>2. QED BY <1>1, Invariance, PTL

(* A call that returns a response returns one of its own command, for any  *)
(* number of concurrent calls and any interleaving with restarts.          *)
THEOREM AnswersAreOwn == Spec => []OwnAnswer
  <1>1. IInv => OwnAnswer
    BY DEF IInv
  <1>2. QED BY <1>1, Invariance, PTL

(* A waiting call never reads past its response.                           *)
THEOREM AnswersAreNotMissed == Spec => []NoMissedAnswer
  <1>1. IInv => NoMissedAnswer
    BY DEF IInv
  <1>2. QED BY <1>1, Invariance, PTL

(* One life of the agent executes the stream in order, nothing twice.      *)
THEOREM ExecutionsInOrder == Spec => []InOrderPerLife
  <1>1. IInv => InOrderPerLife
    BY DEF IInv
  <1>2. QED BY <1>1, Invariance, PTL

(* Responses are added in the order of the executions.                     *)
THEOREM ResponsesInOrder == Spec => []AnswersInRunOrder
  <1>1. IInv => AnswersInRunOrder
    BY DEF IInv
  <1>2. QED BY <1>1, Invariance, PTL

-----------------------------------------------------------------------------
(* What ReceivedIsExecuted rests on, fairness aside: an entry leaves the   *)
(* batch in hand only by its execution.                                    *)

InBatch(p) == agentPc \in {"working", "executed"} /\ p \in lo .. hi
RunNow(p) == \E i \in 1 .. Len(runs) : runs[i].pos = p /\ runs[i].life = life

(* The entry in hand, once executed, has run in this life.                 *)
HandIsRun == agentPc = "executed" => RunNow(lo)

(* An entry that the agent has received stays in its batch until this life *)
(* has executed it, or the process goes down (handleCommandsViaStreams).   *)
BatchIsExecuted ==
  [][\A p \in Nat : InBatch(p) => InBatch(p)' \/ RunNow(p)' \/ agentPc' = "down"]_vars

(* A step that neither ends nor replaces the batch.                        *)
LEMMA BatchStays ==
  ASSUME IInv, HandIsRun, UNCHANGED <<runs, life>>,
         UNCHANGED <<agentPc, lo, hi>> \/
           (agentPc \notin {"working", "executed"} /\ agentPc' # "executed")
  PROVE  /\ HandIsRun'
         /\ \A p \in Nat : InBatch(p) => InBatch(p)'
  BY DEF HandIsRun, RunNow, InBatch

(* An execution of the entry in hand.                                      *)
LEMMA HandRuns ==
  ASSUME IInv, agentPc = "working", runs' = Append(runs, ThisRun), life' = life,
         NEW p, p = lo
  PROVE  RunNow(p)'
  <1>1. runs \in Seq(Run) /\ ThisRun \in Run /\ ThisRun.pos = lo /\ ThisRun.life = life
    BY InHand DEF IInv, TypeOK
  <1>2. /\ Len(runs') = Len(runs) + 1 /\ Len(runs) \in Nat
        /\ runs'[Len(runs) + 1] = ThisRun
    BY <1>1, AppendFacts
  <1>3. QED BY <1>1, <1>2 DEF RunNow

(* On to the next entry: only the one in hand leaves the batch.            *)
LEMMA NextCommandLeaves ==
  ASSUME TypeOK, NextCommand, NEW p \in lo .. hi, p # lo
  PROVE  InBatch(p)'
  BY DEF TypeOK, NextCommand, InBatch

LEMMA AgentExecutes ==
  ASSUME IInv, HandIsRun, Agent
  PROVE  /\ HandIsRun'
         /\ \A p \in Nat : InBatch(p) => InBatch(p)' \/ RunNow(p)' \/ agentPc' = "down"
  <1>1. CASE ReadMessages \/ BlockEnds \/ ReplyArrives \/ ReadFails
    BY <1>1, BatchStays DEF ReadMessages, BlockEnds, ReplyArrives, ReadFails
  <1>2. CASE Execute
    <2>1. agentPc = "working" /\ runs' = Append(runs, ThisRun) /\ agentPc' = "executed"
          /\ UNCHANGED <<lo, hi, life>>
      BY <1>2 DEF Execute
    <2>2. RunNow(lo)'
      BY <2>1, HandRuns DEF RunNow
    <2>3. QED BY <2>1, <2>2 DEF HandIsRun, InBatch
  <1>3. CASE HandlerPanics
    <2>1. agentPc = "working" /\ runs' = Append(runs, ThisRun) /\ life' = life /\ NextCommand
      BY <1>3 DEF HandlerPanics
    <2>2. HandIsRun'
      BY <2>1 DEF NextCommand, HandIsRun
    <2>3. QED BY <2>1, <2>2, HandRuns, NextCommandLeaves DEF InBatch, IInv
  <1>4. CASE SendResponse \/ SendResponseFails
    <2>1. agentPc = "executed" /\ UNCHANGED <<runs, life>> /\ NextCommand
      BY <1>4 DEF SendResponse, SendResponseFails
    <2>2. HandIsRun'
      BY <2>1 DEF NextCommand, HandIsRun
    <2>3. ASSUME NEW p \in Nat, p = lo PROVE RunNow(p)'
      BY <2>1, <2>3 DEF HandIsRun, RunNow
    <2>4. QED BY <2>1, <2>2, <2>3, NextCommandLeaves DEF InBatch, IInv
  <1>5. CASE SendResponseRepeats
    BY <1>5, BatchStays DEF SendResponseRepeats, agentVars
  <1>6. CASE AgentStops \/ AgentStarts
    BY <1>6 DEF AgentStops, AgentStarts, HandIsRun, InBatch
  <1>7. QED BY <1>1, <1>2, <1>3, <1>4, <1>5, <1>6 DEF Agent

LEMMA StepExecutes ==
  ASSUME IInv, HandIsRun, [Next]_vars
  PROVE  /\ HandIsRun'
         /\ \A p \in Nat : InBatch(p) => InBatch(p)' \/ RunNow(p)' \/ agentPc' = "down"
  <1>1. ASSUME NEW r \in Requests, Bot(r)
        PROVE  /\ UNCHANGED <<runs, life>>
               /\ \/ UNCHANGED <<agentPc, lo, hi>>
                  \/ agentPc \notin {"working", "executed"} /\ agentPc' # "executed"
    BY <1>1 DEF Bot, SendCommand, SendCommandRepeats, SendCommandError, XAddCommand,
       PollHit, PollMiss, Expire, Timeout, FallbackEnds, agentVars
  <1>2. CASE \E r \in Requests : Bot(r)
    BY <1>1, <1>2, BatchStays
  <1>3. CASE BotRestart
    BY <1>3, BatchStays DEF BotRestart
  <1>4. CASE UNCHANGED vars
    BY <1>4, BatchStays DEF vars, agentVars
  <1>5. QED BY <1>2, <1>3, <1>4, AgentExecutes DEF Next

(* No command of a batch that the agent has received is dropped: whatever  *)
(* happens to the ones before it (a panic, a failed response), it leaves   *)
(* the batch executed, or the process goes down.                           *)
THEOREM BatchesAreExecuted == Spec => BatchIsExecuted
  <1>1. Init => HandIsRun
    BY DEF Init, HandIsRun
  <1>2. QED BY <1>1, StepExecutes, Invariance, PTL DEF Spec, BatchIsExecuted

-----------------------------------------------------------------------------
(* The refinement.                                                         *)

LEMMA InitRefines == Init => RPC!Init
  BY DEF Init, RPC!Init, CallStatus, IssuedCalls, ExecutedCalls

(* A stream that grows by one entry: the mapped set grows by that entry.   *)
LEMMA IssuedGrows ==
  ASSUME TypeOK, NEW r \in Requests, cmdLog' = Append(cmdLog, r)
  PROVE  IssuedCalls' = IssuedCalls \cup {r}
  <1>1. cmdLog \in Seq(Requests)
    BY DEF TypeOK
  <1>2. /\ Len(cmdLog') = Len(cmdLog) + 1 /\ Len(cmdLog) \in Nat
        /\ \A p \in 1 .. Len(cmdLog) : cmdLog'[p] = cmdLog[p]
        /\ cmdLog'[Len(cmdLog) + 1] = r
    BY <1>1, AppendFacts
  <1>3. \A p \in 1 .. Len(cmdLog') : p = Len(cmdLog) + 1 \/ p \in 1 .. Len(cmdLog)
    BY <1>2
  <1>4. QED BY <1>2, <1>3 DEF IssuedCalls

LEMMA ExecutedGrows ==
  ASSUME TypeOK, BatchInStream, agentPc = "working", runs' = Append(runs, ThisRun)
  PROVE  ExecutedCalls' = ExecutedCalls \cup {cmdLog[lo]}
  <1>1. runs \in Seq(Run) /\ ThisRun \in Run /\ ThisRun.cmd = cmdLog[lo]
    BY InHand DEF TypeOK
  <1>2. /\ Len(runs') = Len(runs) + 1 /\ Len(runs) \in Nat
        /\ \A i \in 1 .. Len(runs) : runs'[i] = runs[i]
        /\ runs'[Len(runs) + 1] = ThisRun
    BY <1>1, AppendFacts
  <1>3. \A i \in 1 .. Len(runs') : i = Len(runs) + 1 \/ i \in 1 .. Len(runs)
    BY <1>2
  <1>4. QED BY <1>1, <1>2, <1>3 DEF ExecutedCalls

LEMMA StepRefines == IInv /\ IInv' /\ [Next]_vars => [RPC!Next]_RPC!rpcVars
  <1> SUFFICES ASSUME IInv, IInv', [Next]_vars
               PROVE  [RPC!Next]_RPC!rpcVars
    OBVIOUS
  <1> USE DEF RPC!rpcVars
  <1>t. TypeOK /\ TypeOK' /\ BatchInStream
    BY DEF IInv
  <1>1. ASSUME NEW r \in Requests,
               SendCommand(r) \/ SendCommandRepeats(r) \/ SendCommandError(r)
        PROVE  RPC!Issue(r) \/ RPC!Send(r) \/ UNCHANGED RPC!rpcVars
    <2>1. /\ state[r] \in {"idle", "sending"}
          /\ \E s \in {"sending", "waiting", "fallback"} : state' = [state EXCEPT ![r] = s]
          /\ UNCHANGED runs
      BY <1>1 DEF SendCommand, SendCommandRepeats, SendCommandError, Sending
    <2>2. cmdLog' = Append(cmdLog, r) \/ cmdLog' = cmdLog
      BY <1>1 DEF SendCommand, SendCommandRepeats, SendCommandError, XAddCommand
    <2>3. IssuedCalls' \in {IssuedCalls, IssuedCalls \cup {r}}
      <3>1. CASE cmdLog' = Append(cmdLog, r)
        BY <1>t, <3>1, IssuedGrows
      <3>2. CASE cmdLog' = cmdLog
        BY <3>2 DEF IssuedCalls
      <3>3. QED BY <2>2, <3>1, <3>2
    <2>4. ExecutedCalls' = ExecutedCalls
      BY <2>1 DEF ExecutedCalls
    <2>5. CASE state[r] = "idle"
      <3>1. CallStatus[r] = "idle" /\ CallStatus' = [CallStatus EXCEPT ![r] = "pending"]
        BY <1>t, <2>1, <2>5 DEF CallStatus, TypeOK
      <3>2. QED BY <2>3, <2>4, <3>1 DEF RPC!Issue
    <2>6. CASE state[r] = "sending"
      <3>1. CallStatus[r] = "pending" /\ CallStatus' = CallStatus
        BY <1>t, <2>1, <2>6 DEF CallStatus, TypeOK
      <3>2. QED BY <2>3, <2>4, <3>1 DEF RPC!Send
    <2>7. QED BY <2>1, <2>5, <2>6
  <1>2. ASSUME NEW r \in Requests, PollHit(r)
        PROVE  RPC!Answer(r)
    <2>1. /\ state[r] = "waiting" /\ state' = [state EXCEPT ![r] = "done"]
          /\ UNCHANGED <<cmdLog, runs>>
      BY <1>2 DEF PollHit, Polling, redisVars
    <2>2. state'[r] = "done"
      BY <1>t, <2>1 DEF TypeOK
    <2>3. r \in ExecutedCalls
      BY <2>1, <2>2 DEF IInv, OwnAnswer, ExecutedCalls
    <2>4. CallStatus[r] = "pending" /\ CallStatus' = [CallStatus EXCEPT ![r] = "answered"]
      BY <1>t, <2>1 DEF CallStatus, TypeOK
    <2>5. IssuedCalls' = IssuedCalls /\ ExecutedCalls' = ExecutedCalls
      BY <2>1 DEF IssuedCalls, ExecutedCalls
    <2>6. QED BY <2>3, <2>4, <2>5 DEF RPC!Answer
  <1>3. ASSUME UNCHANGED <<cmdLog, state, runs>>
        PROVE  UNCHANGED RPC!rpcVars
    BY <1>3 DEF CallStatus, IssuedCalls, ExecutedCalls
  <1>4. ASSUME NEW r \in Requests, PollMiss(r) \/ Expire(r)
        PROVE  UNCHANGED RPC!rpcVars
    BY <1>3, <1>4 DEF PollMiss, Expire, redisVars
  <1>5. ASSUME NEW r \in Requests, Timeout(r)
        PROVE  UNCHANGED RPC!rpcVars
    <2>1. /\ state[r] = "waiting" /\ state' = [state EXCEPT ![r] = "fallback"]
          /\ UNCHANGED <<cmdLog, runs>>
      BY <1>5 DEF Timeout, redisVars
    <2>2. CallStatus' = CallStatus
      BY <1>t, <2>1 DEF CallStatus, TypeOK
    <2>3. QED BY <2>1, <2>2 DEF IssuedCalls, ExecutedCalls
  <1>6. ASSUME NEW S \in SUBSET Requests,
               \A r \in S : state[r] \in {"sending", "waiting", "fallback"},
               state' = [r \in Requests |-> IF r \in S THEN "failed" ELSE state[r]],
               UNCHANGED <<cmdLog, runs>>
        PROVE  RPC!Fail(S)
    <2>1. \A r \in S : CallStatus[r] = "pending"
      BY <1>t, <1>6 DEF CallStatus, TypeOK
    <2>2. CallStatus' = [r \in Requests |-> IF r \in S THEN "failed" ELSE CallStatus[r]]
      BY <1>t, <1>6 DEF CallStatus, TypeOK
    <2>3. QED BY <1>6, <2>1, <2>2 DEF RPC!Fail, IssuedCalls, ExecutedCalls
  <1>7. ASSUME NEW r \in Requests, FallbackEnds(r)
        PROVE  RPC!Fail({r})
    <2>1. /\ state[r] = "fallback" /\ UNCHANGED <<cmdLog, runs>>
          /\ state' = [q \in Requests |-> IF q \in {r} THEN "failed" ELSE state[q]]
      BY <1>t, <1>7 DEF FallbackEnds, redisVars, TypeOK
    <2>2. QED BY <1>6, <2>1
  <1>8. ASSUME BotRestart
        PROVE  \E S \in SUBSET Requests : RPC!Fail(S)
    <2> DEFINE S == {r \in Requests : state[r] \in {"sending", "waiting", "fallback"}}
    <2>1. /\ UNCHANGED <<cmdLog, runs>>
          /\ state' = [r \in Requests |-> IF r \in S THEN "failed" ELSE state[r]]
      BY <1>t, <1>8 DEF BotRestart, redisVars, TypeOK, CallStates
    <2>2. S \in SUBSET Requests /\ \A r \in S : state[r] \in {"sending", "waiting", "fallback"}
      OBVIOUS
    <2> HIDE DEF S
    <2>3. RPC!Fail(S)
      BY <1>6, <2>1, <2>2
    <2>4. QED BY <2>2, <2>3
  <1>9. ASSUME Execute \/ HandlerPanics
        PROVE  \E r \in Requests : RPC!Execute(r)
    <2>1. /\ agentPc = "working" /\ runs' = Append(runs, ThisRun)
          /\ UNCHANGED <<cmdLog, state>>
      BY <1>9 DEF Execute, HandlerPanics, redisVars, botVars
    <2>2. cmdLog[lo] \in Requests /\ cmdLog[lo] \in IssuedCalls
      BY <1>t, <2>1, InHand DEF IssuedCalls
    <2>3. ExecutedCalls' = ExecutedCalls \cup {cmdLog[lo]}
      BY <1>t, <2>1, ExecutedGrows
    <2>4. CallStatus' = CallStatus /\ IssuedCalls' = IssuedCalls
      BY <2>1 DEF CallStatus, IssuedCalls
    <2>5. QED BY <2>2, <2>3, <2>4 DEF RPC!Execute
  <1>10. ASSUME \/ ReadMessages \/ BlockEnds \/ ReplyArrives \/ ReadFails
                \/ SendResponse \/ SendResponseRepeats \/ SendResponseFails
                \/ AgentStops \/ AgentStarts \/ UNCHANGED vars
         PROVE  UNCHANGED RPC!rpcVars
    BY <1>3, <1>10 DEF ReadMessages, BlockEnds, ReplyArrives, ReadFails, SendResponse,
       SendResponseRepeats, SendResponseFails, AgentStops, AgentStarts, vars, redisVars,
       botVars
  <1>11. QED
    BY <1>1, <1>2, <1>4, <1>5, <1>7, <1>8, <1>9, <1>10 DEF RPC!Next, Next, Bot, Agent

(* The command path over Redis Streams implements CommandRPC: every step   *)
(* of the bot, the broker and the agent is a step of that promise or one   *)
(* it does not see.                                                        *)
THEOREM Refinement == Spec => ImplementsRPC
  BY InitRefines, StepRefines, Invariance, PTL DEF Spec, ImplementsRPC, RPC!Spec
=============================================================================
