---------------------------- MODULE AgentMetrics ----------------------------
(***************************************************************************)
(* The network speed and the Kafka publisher of an agent with Kafka.  Two  *)
(* goroutines read the counters of the interfaces: the command loop for a  *)
(* get_network_info command, and the collector every 30 seconds.  Each     *)
(* compares them with the previous reading, which both keep in one map of  *)
(* the SystemMonitor, without a lock.  Both publish their results.         *)
(*                                                                         *)
(* External: the kernel, whose counter of 64 bits has CounterValues values *)
(* here, and kafka-go, whose Close waits for the writes under way and lets *)
(* later ones fail, and whose WriteMessages gives up a write, which goes   *)
(* on, when its context is done.  AgentProcess says when a goroutine runs. *)
(***************************************************************************)
EXTENDS Integers

CONSTANTS
  CounterValues,     \* how many values a counter has: 2^64 in the code
  MaxTraffic,        \* bound: what an interface receives, in all
  MaxResets          \* bound: how often its counter starts from 0 again

ASSUME CounterAssumption ==
  /\ CounterValues \in Nat /\ MaxTraffic \in Nat /\ MaxResets \in Nat
  /\ MaxTraffic < CounterValues

Readers == {"loop", "collector"}
Other(g) == CHOOSE o \in Readers : o # g
Collector == 0       \* among the writes

VARIABLES
  traffic,           \* what the interface has received, and when it was reset
  prev,              \* prevNetStats: the reading the next one is compared with
  reader,            \* the call of GetNetworkInfo of each goroutine
  last,              \* history: the reading that was finished last
  publishing,        \* commands whose goroutine has not begun to write
  writes,            \* WriteMessages under way: a command's number, or Collector
  writer             \* the state of the Kafka writer

metricsVars == <<traffic, prev, reader, last, publishing, writes, writer>>

(* A reading: all that was received until then, how much of that before    *)
(* the last reset, and which reset that was.  The code sees its value only.*)
Reading == [total : 0 .. MaxTraffic, base : 0 .. MaxTraffic, resets : 0 .. MaxResets]
NoReading == [total |-> 0, base |-> 0, resets |-> -1]
Minus(a, b) == (a - b) % CounterValues     \* of two uint64
Value(r) == Minus(r.total, r.base)

(* delta: what the speed is computed from, -1 without a previous reading;  *)
(* truth: what was received since the last reading, -1 if unknown.         *)
(* alone: the other goroutine made no reading in the meantime.             *)
NoCall == [step |-> "idle", at |-> NoReading, delta |-> -1, truth |-> -1,
           alone |-> TRUE]
Reads(g) == reader[g].step \in {"read", "storing"}

MetricsTypeOK ==
  /\ traffic \in Reading
  /\ {prev, last} \subseteq Reading \cup {NoReading}
  /\ reader \in [Readers -> [step : {"idle", "read", "storing", "publish", "sending"},
                             at : Reading \cup {NoReading},
                             delta : -1 .. CounterValues - 1,
                             truth : -1 .. MaxTraffic, alone : BOOLEAN]]
  /\ publishing \subseteq Nat /\ writes \subseteq Nat
  /\ writer \in {"open", "closed"}

MetricsInit ==
  /\ traffic = [total |-> 0, base |-> 0, resets |-> 0]
  /\ prev = NoReading /\ last = NoReading
  /\ reader = [g \in Readers |-> NoCall]
  /\ publishing = {} /\ writes = {} /\ writer = "open"

(* New, in a new process: an empty map and an open writer.                 *)
MetricsStart ==
  /\ prev' = NoReading /\ last' = NoReading
  /\ reader' = [g \in Readers |-> NoCall]
  /\ publishing' = {} /\ writes' = {} /\ writer' = "open"
  /\ UNCHANGED traffic

-----------------------------------------------------------------------------
(* GetNetworkInfo.                                                         *)

(* cat /proc/net/dev, after some traffic or a reset of the interface.      *)
ReadCounter(g) ==
  /\ reader[g].step = "idle"
  /\ \/ \E n \in {0, 1} : traffic' = [traffic EXCEPT !.total = @ + n]
     \/ traffic' = [traffic EXCEPT !.base = traffic.total, !.resets = @ + 1]
  /\ traffic' \in Reading
  /\ reader' = [h \in Readers |->
       IF h = g THEN [NoCall EXCEPT !.step = "read", !.at = traffic',
                                    !.alone = ~ Reads(Other(g))]
       ELSE IF Reads(h) THEN [reader[h] EXCEPT !.alone = FALSE] ELSE reader[h]]
  /\ UNCHANGED <<prev, last, publishing, writes, writer>>

(* The map is read, and the write to it begins.                            *)
Compare_AfterStore(g) ==   \* mutant: the map is written before it is read
  /\ reader[g].step = "read"
  /\ reader' = [reader EXCEPT ![g].step = "storing",
       ![g].delta = IF prev = NoReading THEN -1 ELSE 0]
  /\ UNCHANGED <<traffic, prev, last, publishing, writes, writer>>
Compare(g) ==
  /\ reader[g].step = "read"
  /\ reader' = [reader EXCEPT ![g].step = "storing",
       ![g].delta = IF prev = NoReading THEN -1
                    ELSE Minus(Value(reader[g].at), Value(prev))]
  /\ UNCHANGED <<traffic, prev, last, publishing, writes, writer>>

(* The write to the map ends.                                              *)
Finished(g) ==
  /\ reader[g].step = "storing"
  /\ last' = reader[g].at
  /\ reader' = [reader EXCEPT ![g].step = "publish",
       ![g].truth = IF reader[g].alone /\ last.resets = reader[g].at.resets
                    THEN reader[g].at.total - last.total ELSE -1]
  /\ UNCHANGED <<traffic, publishing, writes, writer>>
Store(g) ==
  /\ Finished(g)
  /\ prev' = reader[g].at

(* Go ends a process in which it notices that a map is accessed while it   *)
(* is written; it need not notice.                                         *)
MapRace == \E g \in Readers : /\ reader[g].step = "read"
                              /\ reader[Other(g)].step = "storing"

-----------------------------------------------------------------------------
(* Publishing.  A write that fails is logged.                              *)

Publishes(w) == writes' = IF writer = "open" THEN writes \cup {w} ELSE writes

(* publishMetricToKafka begins a goroutine, which writes with a context of *)
(* its own, as soon as it runs, be the writer closed by then.              *)
PublishResponse(c) ==
  /\ reader["loop"].step = "publish"
  /\ reader' = [reader EXCEPT !["loop"] = NoCall]
  /\ publishing' = publishing \cup {c}
  /\ UNCHANGED <<traffic, prev, last, writes, writer>>
BeginWrite(c) ==
  /\ c \in publishing
  /\ publishing' = publishing \ {c}
  /\ Publishes(c)
  /\ UNCHANGED <<traffic, prev, reader, last, writer>>

(* collectAndSendMetrics: one metric after another, each waiting for Kafka *)
(* or for its error, with the agent's context.                             *)
PublishMetrics(cancelled) ==
  /\ reader["collector"].step = "publish"
  /\ reader' = [reader EXCEPT !["collector"] = [NoCall EXCEPT !.step = "sending"]]
  /\ Publishes(Collector) \/ (cancelled /\ UNCHANGED writes)
  /\ UNCHANGED <<traffic, prev, last, publishing, writer>>
MetricsPublished(cancelled) ==
  /\ reader["collector"].step = "sending"
  /\ cancelled \/ Collector \notin writes
  /\ reader' = [reader EXCEPT !["collector"] = NoCall]
  /\ UNCHANGED <<traffic, prev, last, publishing, writes, writer>>

(* Kafka has acknowledged a write, or its attempts are used up.            *)
WriteEnds(w) ==
  /\ w \in writes
  /\ writes' = writes \ {w}
  /\ UNCHANGED <<traffic, prev, reader, last, publishing, writer>>

(* Producer.Close begins, and ends when no write is under way.             *)
CloseWriter ==
  /\ writer' = "closed"
  /\ UNCHANGED <<traffic, prev, reader, last, publishing, writes>>
WriterClosed == writer = "closed" /\ writes = {}

-----------------------------------------------------------------------------
(* A reading that the other goroutine does not disturb, and no reset of    *)
(* the interface, shows what has been received since the reading before    *)
(* it, whichever goroutine made that one (GetNetworkInfo, system.go:341).  *)
(* Otherwise the difference may be that of another interval, or wrap.      *)
SpeedIsTraffic ==
  \A g \in Readers :
    LET r == reader[g] IN
    r.step = "publish" /\ r.truth # -1 => r.delta = r.truth
=============================================================================
