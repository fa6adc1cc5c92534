---------------------------- MODULE BotLifecycle ----------------------------
(***************************************************************************)
(* The bot's process: main and Start, the loop that handles Telegram's     *)
(* updates, and the two listeners for SIGINT and SIGTERM that may each     *)
(* call Stop (setupGracefulShutdown in bot.go, and main in cmd/bot).       *)
(*                                                                         *)
(* Telegram and its library are external: a goroutine of the library polls *)
(* for updates and sends them to a buffered channel.  A poll tells         *)
(* Telegram to forget the updates below its offset.  The Go runtime stops  *)
(* a process that gets a signal it has no listener for, and drops a signal *)
(* for a listener whose buffer is full.                                    *)
(***************************************************************************)
EXTENDS Integers, Sequences, FiniteSetsExt

CONSTANTS
  MaxUpdates,        \* bound: updates that users cause
  Buffer,            \* the capacity of the updates channel
  MaxSignals,        \* bound: signals sent to the bot
  MaxLives           \* bound: processes that are started one after another

ASSUME BoundsAssumption ==
  /\ MaxUpdates \in Nat /\ MaxSignals \in Nat
  /\ Buffer \in Nat \ {0} /\ MaxLives \in Nat \ {0}

Listeners == {"handler", "main"}   \* each of them calls Stop once

VARIABLES
  \* outside the process
  sent,              \* updates 1 .. sent exist
  forgotten,         \* Telegram keeps the updates above this one only
  signals,           \* signals sent so far
  life,              \* which process this is
  \* the process
  main,              \* where main is, Start included
  notified,          \* sigChan of a listener holds a signal
  stop,              \* how far each call of Stop has come
  cancelled,         \* b.ctx is done
  closed,            \* Redis and the database are closed
  released,          \* b.shutdown is closed
  late,              \* history: "wait": Stop did not wait for the loop any longer;
                     \* "loop": the loop began after Stop had cancelled
  \* the way of the updates
  receiver,          \* the library's goroutine
  offset,            \* the first update its next poll asks for
  batch, channel,    \* polled, and waiting for handleUpdates
  loop, current,     \* handleUpdates, and the update it handles (or 0)
  handled            \* the updates this process has handled

outside == <<sent, forgotten, signals, life>>
shutdown == <<notified, stop, cancelled, closed, released, late>>
updates == <<receiver, offset, batch, channel, loop, current, handled>>
vars == <<outside, main, shutdown, updates>>

Up == main \notin {"panicked", "dead"}
Serving == main = "serving"

TypeOK ==
  /\ forgotten \in 0 .. sent /\ sent \in 0 .. MaxUpdates
  /\ signals \in 0 .. MaxSignals /\ life \in 1 .. MaxLives
  /\ main \in {"starting", "listening", "subscribed", "serving", "returned",
               "waiting", "panicked", "dead"}
  /\ notified \in [Listeners -> 0 .. 1]
  /\ stop \in [Listeners -> {"no", "stopping", "wait", "close", "release", "done"}]
  /\ {cancelled, closed, released} \subseteq BOOLEAN
  /\ late \subseteq {"wait", "loop"}
  /\ receiver \in {"off", "polling", "stopped", "last", "ended"}
  /\ offset \in 0 .. MaxUpdates + 1
  /\ \A q \in {batch, channel, handled} : q \in Seq(1 .. MaxUpdates)
  /\ Len(channel) <= Buffer
  /\ loop \in {"off", "running", "ended"} /\ current \in 0 .. MaxUpdates

-----------------------------------------------------------------------------
(* NewFromConfig: a process with open connections and nothing received.    *)

Init ==
  /\ sent = 0 /\ forgotten = 0 /\ signals = 0 /\ life = 1
  /\ main = "starting"
  /\ notified = [l \in Listeners |-> 0] /\ stop = [l \in Listeners |-> "no"]
  /\ cancelled = FALSE /\ closed = FALSE /\ released = FALSE /\ late = {}
  /\ receiver = "off" /\ offset = 0 /\ batch = <<>> /\ channel = <<>>
  /\ loop = "off" /\ current = 0 /\ handled = <<>>

(* The supervisor starts the process again (restart: unless-stopped).      *)
Restart ==
  /\ ~Up /\ life < MaxLives
  /\ life' = life + 1 /\ main' = "starting"
  /\ notified' = [l \in Listeners |-> 0] /\ stop' = [l \in Listeners |-> "no"]
  /\ cancelled' = FALSE /\ closed' = FALSE /\ released' = FALSE /\ late' = {}
  /\ receiver' = "off" /\ offset' = 0 /\ batch' = <<>> /\ channel' = <<>>
  /\ loop' = "off" /\ current' = 0 /\ handled' = <<>>
  /\ UNCHANGED <<sent, forgotten, signals>>

(* The process is killed, or logger.Fatal ends it while it starts.         *)
Crash ==
  /\ Up
  /\ main' = "dead"
  /\ UNCHANGED <<outside, shutdown, updates>>

-----------------------------------------------------------------------------
(* main and Start.                                                         *)

MainMoves(from, to) == main = from /\ main' = to

(* InitSchema is done, and setupGracefulShutdown listens for signals.      *)
Listen ==
  /\ MainMoves("starting", "listening")
  /\ UNCHANGED <<outside, shutdown, updates>>

(* startTelegramHandler: GetUpdatesChan starts the library's goroutine,    *)
(* with NewUpdate(0) ...                                                   *)
Subscribe ==
  /\ MainMoves("listening", "subscribed")
  /\ receiver' = IF receiver = "ended" THEN "ended" ELSE "polling"
  /\ UNCHANGED <<outside, shutdown, offset, batch, channel, loop, current, handled>>

(* ... and then wg.Add(1) and handleUpdates.                               *)
StartLoop ==
  /\ MainMoves("subscribed", "serving")
  /\ loop' = "running"
  /\ late' = IF cancelled THEN late \cup {"loop"} ELSE late
  /\ UNCHANGED <<outside, notified, stop, cancelled, closed, released,
                 receiver, offset, batch, channel, current, handled>>

(* Start returns when b.shutdown is closed ...                             *)
StartReturns_AtOnce ==   \* mutant: Start does not wait for b.shutdown
  /\ MainMoves("serving", "returned")
  /\ UNCHANGED <<outside, shutdown, updates>>
StartReturns ==
  /\ MainMoves("serving", "returned")
  /\ released
  /\ UNCHANGED <<outside, shutdown, updates>>

(* ... and main then listens for a signal of its own.                      *)
MainListens ==
  /\ MainMoves("returned", "waiting")
  /\ UNCHANGED <<outside, shutdown, updates>>

Listening(l) ==
  IF l = "main" THEN main = "waiting" ELSE Up /\ main # "starting"

(* A signal to the process.                                                *)
Signal ==
  /\ Up /\ signals < MaxSignals
  /\ signals' = signals + 1
  /\ IF \E l \in Listeners : Listening(l)
     THEN /\ notified' = [l \in Listeners |-> IF Listening(l) THEN 1 ELSE notified[l]]
          /\ UNCHANGED main
     ELSE main' = "dead" /\ UNCHANGED notified
  /\ UNCHANGED <<sent, forgotten, life, stop, cancelled, closed, released, late,
                 updates>>

-----------------------------------------------------------------------------
(* Stop, as called by listener l.                                          *)

Moves(l, from, to) == Up /\ stop[l] = from /\ stop' = [stop EXCEPT ![l] = to]

(* The listener has read its signal (once: neither of them is a loop), and *)
(* Stop cancels the context.                                               *)
Cancel(l) ==
  /\ Moves(l, "no", "stopping")
  /\ notified[l] = 1 /\ notified' = [notified EXCEPT ![l] = 0]
  /\ cancelled' = TRUE
  /\ UNCHANGED <<outside, main, closed, released, late, updates>>

(* StopReceivingUpdates: the library makes no poll after the one under way.*)
(* It closes a channel of its own for that: the second call panics.  main  *)
(* comes here only after the other listener, so its Stop goes no further.  *)
StopReceiving(l) ==
  \/ /\ Moves(l, "stopping", "wait")
     /\ receiver \in {"off", "polling"}
     /\ receiver' = IF receiver = "off" THEN "ended" ELSE "stopped"
     /\ UNCHANGED <<outside, main, notified, cancelled, closed, released, late,
                    offset, batch, channel, loop, current, handled>>
  \/ /\ Up /\ stop[l] = "stopping"
     /\ receiver \notin {"off", "polling"}
     /\ main' = "panicked"
     /\ UNCHANGED <<outside, shutdown, updates>>

(* wg.Wait returns at once when handleUpdates has not started.             *)
GoroutinesDone_NoWait(l) ==   \* mutant: does not wait for b.wg
  /\ Moves(l, "wait", "close")
  /\ UNCHANGED <<outside, main, notified, cancelled, closed, released, late, updates>>
GoroutinesDone(l) ==
  /\ Moves(l, "wait", "close")
  /\ loop # "running"
  /\ UNCHANGED <<outside, main, notified, cancelled, closed, released, late, updates>>

(* The 30 seconds are over first.                                          *)
WaitTimesOut_Never(l) == FALSE /\ UNCHANGED vars   \* mutant: waits for b.wg only
WaitTimesOut(l) ==
  /\ Moves(l, "wait", "close")
  /\ loop = "running"
  /\ late' = late \cup {"wait"}
  /\ UNCHANGED <<outside, main, notified, cancelled, closed, released, updates>>

(* Redis and then the database; an error of either is only logged.         *)
CloseConnections(l) ==
  /\ Moves(l, "close", "release")
  /\ closed' = TRUE
  /\ UNCHANGED <<outside, main, notified, cancelled, released, late, updates>>

(* close(b.shutdown), once: a second Stop has panicked before it.          *)
Release(l) ==
  /\ Moves(l, "release", "done")
  /\ released' = TRUE
  /\ UNCHANGED <<outside, main, notified, cancelled, closed, late, updates>>

-----------------------------------------------------------------------------
(* The updates.                                                            *)

(* A user writes a message or presses a button.                            *)
Send ==
  /\ sent < MaxUpdates
  /\ sent' = sent + 1
  /\ UNCHANGED <<forgotten, signals, life, main, shutdown, updates>>

(* One poll.  Telegram forgets what is below the offset, and the answer,   *)
(* if it arrives, has the first n of the updates that are left.  The poll  *)
(* under way when the library is told to stop is the last one.             *)
Poll(n) ==
  /\ Up /\ receiver \in {"polling", "stopped"} /\ batch = <<>>
  /\ receiver' = IF receiver = "stopped" THEN "last" ELSE receiver
  /\ LET first == Max({forgotten + 1, offset})
     IN /\ first + n <= sent + 1
        /\ forgotten' = first - 1
        /\ batch' = [i \in 1 .. n |-> first + i - 1]
  /\ UNCHANGED <<sent, signals, life, main, shutdown, offset, channel, loop, current,
                 handled>>

(* The library's goroutine sends one update to the channel, and waits when *)
(* it is full.                                                             *)
Push_Unbounded ==   \* mutant: the channel has no capacity
  /\ Up /\ batch # <<>>
  /\ channel' = Append(channel, Head(batch)) /\ batch' = Tail(batch)
  /\ offset' = Head(batch) + 1
  /\ UNCHANGED <<outside, main, shutdown, receiver, loop, current, handled>>
Push ==
  /\ Up /\ batch # <<>> /\ Len(channel) < Buffer
  /\ channel' = Append(channel, Head(batch)) /\ batch' = Tail(batch)
  /\ offset' = Head(batch) + 1
  /\ UNCHANGED <<outside, main, shutdown, receiver, loop, current, handled>>

(* It was told to stop: it closes the channel.                             *)
ReceiverEnds ==
  /\ Up /\ receiver \in {"stopped", "last"} /\ batch = <<>>
  /\ receiver' = "ended"
  /\ UNCHANGED <<outside, main, shutdown, offset, batch, channel, loop, current, handled>>

(* handleUpdates takes the next update, although b.ctx may be done too:    *)
(* select picks either case.                                               *)
TakeUpdate_Drops ==   \* mutant: an update is skipped when others wait behind it
  /\ Up /\ loop = "running" /\ current = 0 /\ channel # <<>>
  /\ current' = channel[Len(channel)] /\ channel' = <<>>
  /\ UNCHANGED <<outside, main, shutdown, receiver, offset, batch, loop, handled>>
TakeUpdate ==
  /\ Up /\ loop = "running" /\ current = 0 /\ channel # <<>>
  /\ current' = Head(channel) /\ channel' = Tail(channel)
  /\ UNCHANGED <<outside, main, shutdown, receiver, offset, batch, loop, handled>>

(* processUpdate is done with it, and has recovered if the handler         *)
(* panicked.                                                               *)
HandleUpdate_Panics ==   \* mutant: recovers outside the loop, which then ends
  /\ Up /\ current # 0
  /\ handled' = Append(handled, current) /\ current' = 0
  /\ loop' \in {"running", "ended"}
  /\ UNCHANGED <<outside, main, shutdown, receiver, offset, batch, channel>>
HandleUpdate ==
  /\ Up /\ current # 0
  /\ handled' = Append(handled, current) /\ current' = 0
  /\ UNCHANGED <<outside, main, shutdown, receiver, offset, batch, channel, loop>>

(* handleUpdates ends: b.ctx is done, or the channel is closed and empty.  *)
LoopEnds ==
  /\ Up /\ loop = "running" /\ current = 0
  /\ cancelled \/ (receiver = "ended" /\ channel = <<>>)
  /\ loop' = "ended"
  /\ UNCHANGED <<outside, main, shutdown, receiver, offset, batch, channel,
                 current, handled>>

-----------------------------------------------------------------------------
Stops(l) == \/ Cancel(l) \/ StopReceiving(l) \/ GoroutinesDone(l)
            \/ WaitTimesOut(l) \/ CloseConnections(l) \/ Release(l)
Starts == Listen \/ Subscribe \/ StartLoop \/ StartReturns \/ MainListens
Receives == (\E n \in 0 .. MaxUpdates : Poll(n)) \/ Push \/ ReceiverEnds
Handles == TakeUpdate \/ HandleUpdate \/ LoopEnds

Next == \/ Send \/ Signal \/ Crash \/ Restart
        \/ Starts \/ Receives \/ Handles
        \/ \E l \in Listeners : Stops(l)

Spec == Init /\ [][Next]_vars

(* Goroutines run, the timer of Stop expires, and a poll that has updates  *)
(* to return succeeds in the end.  Nothing says that a handler returns: it *)
(* calls Telegram without a deadline.                                      *)
Fairness ==
  /\ WF_vars(Starts)
  /\ WF_vars(\E n \in 1 .. MaxUpdates : Poll(n))
  /\ WF_vars(Push) /\ WF_vars(ReceiverEnds)
  /\ WF_vars(TakeUpdate) /\ WF_vars(LoopEnds)
  /\ \A l \in Listeners : WF_vars(Stops(l))

FairSpec == Spec /\ Fairness

-----------------------------------------------------------------------------
(* The updates a process has received are those below its offset; they are *)
(* in its channel, in its handler or handled, each of them once, in the    *)
(* order they were sent, whatever panics or stops: the loop handles one    *)
(* update at a time (handleUpdates, bot.go:313).                           *)
NoGap ==
  LET received == handled \o (IF current = 0 THEN <<>> ELSE <<current>>) \o channel
      n == Len(received)
  IN \A i \in 1 .. n : received[i] = offset - n + i - 1

(* No update is handled without Redis and the database, unless the handler *)
(* outlives the 30 seconds of Stop, or handleUpdates is started after the  *)
(* context was cancelled: wg.Wait does not know of it then (bot.go:278).   *)
ClosedOnlyWhenIdle == closed /\ current # 0 => late # {}

(* When a second Stop panics (in the library's close, bot.go:275), the one *)
(* of setupGracefulShutdown is complete: main calls its own only after     *)
(* Start has returned.                                                     *)
PanicsOnlyAfterStop == main = "panicked" => stop["handler"] = "done"

(* A Stop that began ends, although the handler of an update hangs:        *)
(* Start returns (bot.go:224), or the process is gone.                     *)
StopEnds ==
  \A l \in Listeners : stop[l] # "no" ~> (stop[l] = "done" \/ ~Up)

(* While the bot serves, every update Telegram keeps is handled, panics    *)
(* included, if handlers return: unless the process is stopped or dies.    *)
HandlersReturn == []<>(current = 0)
UpdatesHandled ==
  HandlersReturn =>
    \A u \in 1 .. MaxUpdates :
      (Serving /\ forgotten < u /\ u <= sent)
        ~> (\E i \in 1 .. Len(handled) : handled[i] = u) \/ cancelled \/ ~Up

(* "setupGracefulShutdown sets up graceful shutdown handling" (bot.go:252):*)
(* a process that handles a signal ends.                                   *)
SignalEndsProcess == stop["handler"] # "no" ~> ~Up
=============================================================================
