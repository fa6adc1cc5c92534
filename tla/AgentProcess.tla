---------------------------- MODULE AgentProcess ----------------------------
(***************************************************************************)
(* The agent's process as a whole, with Kafka: the command loop, the       *)
(* collector, the goroutines of updates and of publishing, the signal that *)
(* ends them, and systemd, which starts the installed binary again.        *)
(* Composes AgentUpdate and AgentMetrics: an update ends the process that  *)
(* it runs in, a crash of the process ends an update in the middle, and a  *)
(* new process executes the commands of its predecessor again.             *)
(*                                                                         *)
(* The command path itself is CommandStreams.  Here a read returns what it *)
(* returns there: all of the stream at first, then some last part of it.   *)
(***************************************************************************)
EXTENDS AgentUpdate, AgentMetrics, Sequences, FiniteSets

CONSTANTS
  MaxWork,           \* bound: commands and rounds of the collector, in all
  MaxLives           \* bound: processes that are started one after another

ASSUME ProcessAssumption ==
  /\ IsFiniteSet(Commands) /\ Commands = 1 .. Cardinality(Commands)
  /\ MaxWork \in Nat /\ MaxLives \in Nat \ {0}

VARIABLES
  stream,            \* the kinds of the commands in the stream
  life,              \* which process this is
  main,              \* where main is: Stop begins with "stopping"
  firstRead,         \* the command loop's local of that name
  inbox,             \* the commands of its batch that are left
  current,           \* the command whose reading is under way, or 0
  collecting,        \* the collector's goroutine runs
  rounds             \* rounds the collector has begun, in all lives

processVars == <<stream, life, main, firstRead, inbox, current, collecting, rounds>>
vars == <<updateVars, metricsVars, processVars>>

Up == main \in {"serving", "stopping", "closing"}
Cancelled == main \in {"stopping", "closing"}    \* a.ctx is done

TypeOK ==
  /\ UpdateTypeOK /\ MetricsTypeOK
  /\ stream \in Seq({"update", "net"}) /\ Len(stream) <= Cardinality(Commands)
  /\ life \in 1 .. MaxLives
  /\ main \in {"serving", "stopping", "closing", "stopped", "dead"}
  /\ firstRead \in BOOLEAN
  /\ inbox \in Seq(Commands) /\ current \in Commands \cup {0}
  /\ collecting \in BOOLEAN /\ rounds \in 0 .. MaxWork
  /\ Len(stream) + rounds <= MaxWork

Init ==
  /\ UpdateInit /\ MetricsInit
  /\ stream = <<>> /\ life = 1 /\ main = "serving"
  /\ firstRead = TRUE /\ inbox = <<>> /\ current = 0
  /\ collecting = TRUE /\ rounds = 0

-----------------------------------------------------------------------------
(* systemd starts the agent: Restart=always, and systemctl restart.  A     *)
(* damaged binary does not start, however often systemd tries.             *)
Start ==
  /\ ~ Up /\ life < MaxLives
  /\ file["opt"] # Damaged
  /\ life' = life + 1 /\ main' = "serving"
  /\ firstRead' = TRUE /\ inbox' = <<>> /\ current' = 0
  /\ collecting' = TRUE
  /\ MetricsStart
  /\ UNCHANGED <<updateVars, stream, rounds>>

Gone(how) ==
  /\ main' = how
  /\ UpdatesDie
  /\ UNCHANGED <<metricsVars, stream, life, firstRead, inbox, current, collecting, rounds>>

(* The process is killed, or Go ends it because of prevNetStats.           *)
Killed == Up /\ Gone("dead")
DiesOfRace == Up /\ MapRace /\ Gone("dead")

(* SIGTERM wakes main up, and Stop cancels the context.  A second signal   *)
(* stays in the buffer of sigChan.                                         *)
Signalled ==
  /\ main' = IF main = "serving" THEN "stopping" ELSE main
  /\ UNCHANGED <<metricsVars, stream, life, firstRead, inbox, current, collecting, rounds>>

(* systemctl restart: by the operator, and by an update that is done.      *)
OperatorRestarts == main = "serving" /\ Signalled /\ UNCHANGED updateVars
RestartAgent(c) ==
  /\ Up /\ RestartRequested(c)
  /\ Signalled \/ UNCHANGED <<metricsVars, processVars>>

(* Stop closes the publisher ...                                           *)
StopCloses_WaitsForUpdates ==   \* mutant: Stop waits for the updates to end
  /\ main = "stopping" /\ main' = "closing"
  /\ \A c \in Commands : step[c] = "idle"
  /\ CloseWriter
  /\ UNCHANGED <<updateVars, stream, life, firstRead, inbox, current, collecting, rounds>>
StopCloses ==
  /\ main = "stopping" /\ main' = "closing"
  /\ CloseWriter
  /\ UNCHANGED <<updateVars, stream, life, firstRead, inbox, current, collecting, rounds>>

(* ... and returns when that is done; the process ends with main.          *)
StopReturns == main = "closing" /\ WriterClosed /\ Gone("stopped")

-----------------------------------------------------------------------------
(* The command loop.                                                       *)

(* The bot adds a command.                                                 *)
Issue(kind) ==
  /\ Len(stream) < Cardinality(Commands) /\ Len(stream) + rounds < MaxWork
  /\ stream' = Append(stream, kind)
  /\ UNCHANGED <<updateVars, metricsVars, life, main, firstRead, inbox, current,
                 collecting, rounds>>

(* One read: the first of a life returns the whole stream.                 *)
ReadCommands ==
  LET n == Len(stream) IN
  /\ main = "serving" /\ inbox = <<>> /\ reader["loop"].step = "idle"
  /\ firstRead
  /\ inbox' = [i \in 1 .. n |-> i] /\ firstRead' = FALSE
  /\ UNCHANGED <<updateVars, metricsVars, stream, life, main, current, collecting, rounds>>

(* Later reads return what is added while they block.                      *)
Receive(kind) ==
  /\ main = "serving" /\ inbox = <<>> /\ reader["loop"].step = "idle"
  /\ ~ firstRead
  /\ Len(stream) < Cardinality(Commands) /\ Len(stream) + rounds < MaxWork
  /\ stream' = Append(stream, kind)
  /\ inbox' = <<Len(stream')>>
  /\ UNCHANGED <<updateVars, metricsVars, life, main, firstRead, current, collecting,
                 rounds>>

(* processCommand of the next command of the batch, cancelled or not.  It  *)
(* may come to an error response, which is not published: the payload of   *)
(* an update is invalid, or cat fails.                                     *)
TakeCommand(c) ==
  /\ Up /\ inbox # <<>> /\ c = Head(inbox) /\ reader["loop"].step = "idle"
  /\ inbox' = Tail(inbox)
  /\ \/ /\ stream[c] = "update" /\ StartUpdate(c)
        /\ UNCHANGED <<metricsVars, current>>
     \/ /\ stream[c] = "net" /\ ReadCounter("loop") /\ current' = c
        /\ UNCHANGED updateVars
     \/ UNCHANGED <<updateVars, metricsVars, current>>
  /\ UNCHANGED <<stream, life, main, firstRead, collecting, rounds>>

(* The handler has returned, and the response is sent and published.       *)
CommandDone ==
  /\ Up /\ PublishResponse(current)
  /\ current' = 0
  /\ UNCHANGED <<updateVars, stream, life, main, firstRead, inbox, collecting, rounds>>

-----------------------------------------------------------------------------
(* The collector: a round at once, and then with every tick.  When a.ctx   *)
(* is done and the tick is due as well, select picks either.               *)
Tick ==
  /\ Up /\ collecting
  /\ Len(stream) + rounds < MaxWork
  /\ rounds' = rounds + 1
  /\ ReadCounter("collector")
  /\ UNCHANGED <<updateVars, stream, life, main, firstRead, inbox, current, collecting>>

CollectorEnds ==
  /\ Up /\ Cancelled /\ collecting /\ reader["collector"].step = "idle"
  /\ collecting' = FALSE
  /\ UNCHANGED <<updateVars, metricsVars, stream, life, main, firstRead, inbox, current,
                 rounds>>

Measures ==
  /\ Up
  /\ \/ \E g \in Readers : Compare(g) \/ Store(g)
     \/ PublishMetrics(Cancelled) \/ MetricsPublished(Cancelled)
     \/ \E c \in publishing : BeginWrite(c)
     \/ \E w \in writes : WriteEnds(w)
  /\ UNCHANGED <<updateVars, processVars>>

Updates ==
  /\ Up
  /\ \E c \in Commands : UpdateMoves(c)
  /\ UNCHANGED <<metricsVars, processVars>>

-----------------------------------------------------------------------------
Stops == StopCloses \/ StopReturns
Loop == \/ ReadCommands \/ CommandDone
        \/ \E c \in Commands : TakeCommand(c)
        \/ \E kind \in {"update", "net"} : Issue(kind) \/ Receive(kind)

Next ==
  \/ Start \/ Killed \/ DiesOfRace \/ OperatorRestarts
  \/ \E c \in Commands : RestartAgent(c)
  \/ Stops \/ Loop \/ Tick \/ CollectorEnds \/ Measures \/ Updates
  \/ Release /\ UNCHANGED <<metricsVars, processVars>>

Spec == Init /\ [][Next]_vars

(* systemd keeps starting the agent, main runs, and writes to Kafka end by *)
(* their timeouts.                                                         *)
WriteEnd == Up /\ (\E w \in writes : WriteEnds(w)) /\ UNCHANGED <<updateVars, processVars>>
FairSpec == Spec /\ WF_vars(Start) /\ WF_vars(Stops) /\ WF_vars(WriteEnd)

-----------------------------------------------------------------------------
(* An agent that was signalled, was killed or has crashed serves again,    *)
(* whatever its goroutines were doing, unless the binary is broken.        *)
ComesBack ==
  main # "serving" ~> main = "serving" \/ file["opt"] = Damaged \/ life = MaxLives
=============================================================================
