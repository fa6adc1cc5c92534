------------------------ MODULE AgentMetrics_proofs ------------------------
(***************************************************************************)
(* Proofs about the readings of the network counters in AgentProcess, for  *)
(* counters of every size, any traffic and any number of resets: the       *)
(* inductive invariant MetricsInv and SpeedIsTraffic.                      *)
(*                                                                         *)
(* A speed is right because of three facts: the map holds what was read    *)
(* last, a reading that nobody disturbs compares with that, and of two     *)
(* readings between the same resets the later one is not the smaller one.  *)
(***************************************************************************)
EXTENDS AgentProcess, TLAPS, FiniteSetTheorems

Call == [step : {"idle", "read", "storing", "publish", "sending"},
         at : Reading \cup {NoReading}, delta : -1 .. CounterValues - 1,
         truth : -1 .. MaxTraffic, alone : BOOLEAN]

MapIsLast == prev = last

(* A reading is not ahead of the interface, and of the readings between    *)
(* two resets each has the same base.                                      *)
Readings == {traffic, prev} \cup {reader[g].at : g \in Readers}
Past(r) == r.base <= r.total /\ r.total <= traffic.total /\ r.resets <= traffic.resets
ReadingsArePast == \A r \in Readings : Past(r)
SameBase == \A r, s \in Readings : r.resets = s.resets => r.base = s.base

ReadsSomething == \A g \in Readers : Reads(g) => reader[g].at \in Reading
NotBothAlone == \A g, h \in Readers : g # h /\ Reads(g) /\ Reads(h) => ~ reader[g].alone

(* What a reading that nobody has disturbed knows of the map.              *)
LaterThanMap ==
  \A g \in Readers :
    Reads(g) /\ reader[g].alone => prev.total <= reader[g].at.total
ComparedWithMap ==
  \A g \in Readers :
    reader[g].step = "storing" /\ reader[g].alone /\ prev # NoReading =>
      reader[g].delta = Minus(Value(reader[g].at), Value(prev))

ReadingInv == /\ MapIsLast /\ ReadingsArePast /\ SameBase /\ ReadsSomething
              /\ NotBothAlone /\ LaterThanMap /\ ComparedWithMap /\ SpeedIsTraffic

ProcessTypeOK ==
  /\ stream \in Seq({"update", "net"}) /\ Len(stream) <= Cardinality(Commands)
  /\ life \in 1 .. MaxLives
  /\ main \in {"serving", "stopping", "closing", "stopped", "dead"}
  /\ firstRead \in BOOLEAN
  /\ inbox \in Seq(Commands) /\ current \in Commands \cup {0}
  /\ collecting \in BOOLEAN /\ rounds \in 0 .. MaxWork
  /\ Len(stream) + rounds <= MaxWork

MetricsInv == MetricsTypeOK /\ ReadingInv

-----------------------------------------------------------------------------
(* The arithmetic of the counters, and records of calls.                   *)

LEMMA OtherReader == /\ Other("loop") = "collector" /\ Other("collector") = "loop"
                     /\ \A g \in Readers : Other(g) \in Readers /\ Other(g) # g
                     /\ \A g, h \in Readers : h # g => h = Other(g)
  BY DEF Other, Readers

(* The difference of two counters is a counter, and no more than that if   *)
(* the smaller one is taken from the larger one.                           *)
LEMMA MinusIsCounter ==
  ASSUME NEW a \in Int, NEW b \in Int
  PROVE  Minus(a, b) \in 0 .. CounterValues - 1
  BY CounterAssumption DEF CounterAssumption, Minus
LEMMA MinusOfSmaller ==
  ASSUME NEW a \in 0 .. MaxTraffic, NEW b \in 0 .. a
  PROVE  Minus(a, b) = a - b
  <1>1. a - b \in 0 .. CounterValues - 1
    BY CounterAssumption DEF CounterAssumption
  <1>2. ASSUME NEW m \in Nat, NEW x \in 0 .. m - 1 PROVE x % m = x
    OBVIOUS
  <1>3. QED BY <1>1, <1>2, CounterAssumption DEF CounterAssumption, Minus

(* Two readings between the same resets.                                   *)
LEMMA DifferenceIsTraffic ==
  ASSUME NEW r \in Reading, NEW s \in Reading, r.base <= r.total, s.base = r.base,
         r.total <= s.total
  PROVE  Minus(Value(s), Value(r)) = s.total - r.total
  <1>1. /\ r.total \in 0 .. MaxTraffic /\ r.base \in 0 .. MaxTraffic
        /\ s.total \in 0 .. MaxTraffic /\ s.base \in 0 .. MaxTraffic
    BY DEF Reading
  <1> USE CounterAssumption DEF CounterAssumption
  <1>2. Value(r) = r.total - r.base /\ Value(s) = s.total - s.base
    BY <1>1, MinusOfSmaller DEF Value
  <1>3. /\ s.total - s.base \in 0 .. MaxTraffic
        /\ r.total - r.base \in 0 .. s.total - s.base
    BY <1>1
  <1>4. Minus(s.total - s.base, r.total - r.base) = (s.total - s.base) - (r.total - r.base)
    BY <1>3, MinusOfSmaller
  <1>5. QED BY <1>1, <1>2, <1>4

LEMMA NoCallFacts ==
  /\ NoCall \in Call /\ NoCall.step = "idle" /\ NoCall.at = NoReading /\ NoCall.alone
  /\ NoReading.total = 0 /\ NoReading.base = 0 /\ NoReading.resets = -1
  /\ NoReading \notin Reading
  BY CounterAssumption DEF CounterAssumption, NoCall, Call, NoReading, Reading

LEMMA TypeIsCalls == MetricsTypeOK => reader \in [Readers -> Call]
  BY DEF MetricsTypeOK, Call

-----------------------------------------------------------------------------
(* Each step of the readings keeps MetricsInv.                             *)

LEMMA InitMetricsInv ==
  ASSUME MetricsInit
  PROVE  MetricsInv
  <1> USE DEF MetricsInit
  <1>1. traffic \in Reading
    BY CounterAssumption DEF CounterAssumption, Reading
  <1>2. \A g \in Readers : reader[g] = NoCall
    OBVIOUS
  <1>3. MetricsTypeOK
    BY <1>1, NoCallFacts DEF MetricsTypeOK, Call
  <1>4. ReadingInv
    BY <1>2, NoCallFacts DEF ReadingInv, MapIsLast, ReadingsArePast, Past, Readings,
       SameBase, ReadsSomething, NotBothAlone, LaterThanMap, ComparedWithMap,
       SpeedIsTraffic, Reads
  <1>5. QED BY <1>3, <1>4 DEF MetricsInv

(* A new process knows no reading.                                         *)
LEMMA MetricsStartInv ==
  ASSUME MetricsInv, MetricsStart
  PROVE  MetricsInv'
  <1> USE DEF MetricsStart, MetricsInv
  <1>1. traffic \in Reading /\ Past(traffic)
    BY DEF MetricsTypeOK, ReadingInv, ReadingsArePast, Readings
  <1>2. \A g \in Readers : reader'[g] = NoCall
    OBVIOUS
  <1>3. MetricsTypeOK'
    BY <1>1, NoCallFacts DEF MetricsTypeOK, Call
  <1>4. 0 <= traffic.total /\ -1 # traffic.resets /\ -1 <= traffic.resets
    BY <1>1, CounterAssumption DEF CounterAssumption, Reading
  <1>5. Readings' = {traffic, NoReading}
    BY <1>2, NoCallFacts DEF Readings, Readers
  <1>6. ReadingInv'
    BY <1>1, <1>2, <1>4, <1>5, NoCallFacts DEF ReadingInv, MapIsLast, ReadingsArePast,
       Past, SameBase, ReadsSomething, NotBothAlone, LaterThanMap, ComparedWithMap,
       SpeedIsTraffic, Reads
  <1>7. QED BY <1>3, <1>6

(* The kernel counts on, or the interface is reset.                        *)
LEMMA CountedFacts ==
  ASSUME NEW t \in Reading, NEW n \in {0, 1}, NEW u \in Reading,
         \/ u = [t EXCEPT !.total = @ + n]
         \/ u = [t EXCEPT !.base = t.total, !.resets = @ + 1],
         t.base <= t.total
  PROVE  /\ u.base <= u.total /\ t.total <= u.total
         /\ t.resets <= u.resets
         /\ u.resets = t.resets => u.base = t.base
  <1> USE CounterAssumption DEF CounterAssumption, Reading
  <1>1. CASE u = [t EXCEPT !.total = @ + n]
    <2>1. u.total = t.total + n /\ u.base = t.base /\ u.resets = t.resets
      BY <1>1
    <2>2. QED BY <2>1
  <1>2. CASE u = [t EXCEPT !.base = t.total, !.resets = @ + 1]
    <2>1. u.total = t.total /\ u.base = t.total /\ u.resets = t.resets + 1
      BY <1>2
    <2>2. QED BY <2>1
  <1>3. QED BY <1>1, <1>2

LEMMA ReadCounterInv ==
  ASSUME MetricsInv, NEW g \in Readers, ReadCounter(g)
  PROVE  MetricsInv'
  <1> USE DEF MetricsInv
  <1> DEFINE begun == [NoCall EXCEPT !.step = "read", !.at = traffic',
                                     !.alone = ~ Reads(Other(g))]
  <1>1. /\ traffic \in Reading /\ traffic' \in Reading /\ Past(traffic)
        /\ prev \in Reading \cup {NoReading}
        /\ reader \in [Readers -> Call]
    BY TypeIsCalls DEF MetricsTypeOK, ReadCounter, ReadingInv, ReadingsArePast, Readings
  <1>2. /\ traffic'.base <= traffic'.total /\ traffic.total <= traffic'.total
        /\ traffic.resets <= traffic'.resets
        /\ traffic'.resets = traffic.resets => traffic'.base = traffic.base
    BY <1>1, CountedFacts DEF ReadCounter, Past
  <1>3. /\ begun \in Call /\ begun.step = "read" /\ begun.at = traffic'
        /\ begun.alone = ~ Reads(Other(g))
    BY <1>1, CounterAssumption, NoCallFacts DEF CounterAssumption, NoCall, Call
  <1>4. /\ reader'[g] = begun
        /\ \A h \in Readers : h # g =>
             /\ reader'[h] \in Call
             /\ reader'[h].step = reader[h].step /\ reader'[h].at = reader[h].at
             /\ reader'[h].delta = reader[h].delta /\ reader'[h].truth = reader[h].truth
             /\ reader'[h].alone => reader[h].alone
             /\ Reads(h) => ~ reader'[h].alone
    <2>1. reader'[g] = begun
      BY DEF ReadCounter
    <2>2. ASSUME NEW h \in Readers, h # g
          PROVE  reader'[h] = IF Reads(h) THEN [reader[h] EXCEPT !.alone = FALSE] ELSE reader[h]
      BY <2>2 DEF ReadCounter
    <2>3. ASSUME NEW r \in Call, NEW q, q = [r EXCEPT !.alone = FALSE]
          PROVE  /\ q \in Call /\ q.step = r.step /\ q.at = r.at /\ q.delta = r.delta
                 /\ q.truth = r.truth /\ ~ q.alone
      BY <2>3 DEF Call
    <2>4. QED BY <1>1, <2>1, <2>2, <2>3
  <1> HIDE DEF begun
  <1>5. prev' = prev /\ last' = last /\ publishing' = publishing /\ writes' = writes /\ writer' = writer
    BY DEF ReadCounter
  <1>6. reader' \in [Readers -> Call]
    BY <1>3, <1>4 DEF ReadCounter
  <1>7. MetricsTypeOK'
    BY <1>1, <1>5, <1>6 DEF MetricsTypeOK, Call
  <1>8. \A r \in Readings' : r \in Readings \/ r = traffic'
    BY <1>3, <1>4, <1>5 DEF Readings
  <1>9. Readings \subseteq Reading \cup {NoReading}
    BY <1>1 DEF Readings, Call
  <1>10. \A r \in Readings : Past(r) /\ (r.resets = traffic.resets => r.base = traffic.base)
    BY DEF ReadingInv, ReadingsArePast, SameBase, Readings
  <1>11. /\ traffic.total \in Int /\ traffic'.total \in Int
         /\ traffic.resets \in Int /\ traffic'.resets \in Int
         /\ \A r \in Readings : r.total \in Int /\ r.resets \in Int
    BY <1>1, <1>9, NoCallFacts, CounterAssumption DEF CounterAssumption, Reading
  <1>12. ReadingsArePast'
    BY <1>2, <1>8, <1>10, <1>11 DEF ReadingsArePast, Past
  <1>13. \A r \in Readings : r.resets = traffic'.resets => r.base = traffic'.base
    BY <1>2, <1>10, <1>11 DEF Past
  <1>14. SameBase'
    BY <1>8, <1>13 DEF SameBase, ReadingInv
  <1>15. /\ ~ Reads(g) /\ Reads(g)'
         /\ \A h \in Readers : h # g => (Reads(h)' <=> Reads(h))
    BY <1>3, <1>4 DEF Reads, ReadCounter
  <1>16. ReadsSomething' /\ NotBothAlone'
    <2>1. ReadsSomething'
      BY <1>1, <1>3, <1>4, <1>15 DEF ReadsSomething, ReadingInv
    <2>2. ASSUME NEW h \in Readers, h # g, Reads(h)
          PROVE  ~ reader'[h].alone /\ ~ reader'[g].alone
      BY <1>3, <1>4, <2>2, OtherReader
    <2>3. \A h, k \in Readers : h # k => h = g \/ k = g
      BY DEF Readers
    <2>4. NotBothAlone'
      BY <1>15, <2>2, <2>3 DEF NotBothAlone
    <2>5. QED BY <2>1, <2>4
  <1>17. prev.total <= traffic'.total
    BY <1>2, <1>10, <1>11 DEF Past, Readings
  <1>18. LaterThanMap'
    BY <1>3, <1>4, <1>5, <1>15, <1>17 DEF LaterThanMap, ReadingInv
  <1>19. ComparedWithMap' /\ SpeedIsTraffic' /\ MapIsLast'
    BY <1>3, <1>4, <1>5, <1>15
       DEF ComparedWithMap, SpeedIsTraffic, MapIsLast, ReadingInv, Reads
  <1>20. QED BY <1>7, <1>12, <1>14, <1>16, <1>18, <1>19 DEF ReadingInv

LEMMA CompareInv ==
  ASSUME MetricsInv, NEW g \in Readers, Compare(g)
  PROVE  MetricsInv'
  <1> USE DEF MetricsInv
  <1> DEFINE diff == IF prev = NoReading THEN -1
                     ELSE Minus(Value(reader[g].at), Value(prev))
  <1>1. /\ reader \in [Readers -> Call] /\ prev \in Reading \cup {NoReading}
        /\ traffic' = traffic /\ prev' = prev /\ last' = last
        /\ publishing' = publishing /\ writes' = writes /\ writer' = writer
    BY TypeIsCalls DEF MetricsTypeOK, Compare
  <1>2. diff \in -1 .. CounterValues - 1
    <2>1. \A r \in Reading \cup {NoReading} : Value(r) \in Int
      <3>1. \A r \in Reading \cup {NoReading} : r.total \in Int /\ r.base \in Int
        BY NoCallFacts, CounterAssumption DEF CounterAssumption, Reading
      <3>2. ASSUME NEW r \in Reading \cup {NoReading} PROVE Value(r) \in Int
        <4>1. Minus(r.total, r.base) \in 0 .. CounterValues - 1
          BY <3>1, MinusIsCounter
        <4>2. QED BY <4>1, CounterAssumption DEF CounterAssumption, Value
      <3>3. QED BY <3>2
    <2>2. reader[g].at \in Reading \cup {NoReading}
      BY <1>1 DEF Call
    <2>3. Minus(Value(reader[g].at), Value(prev)) \in 0 .. CounterValues - 1
      BY <1>1, <2>1, <2>2, MinusIsCounter
    <2>4. QED BY <2>3, CounterAssumption DEF CounterAssumption
  <1>3. reader' = [reader EXCEPT ![g] = [reader[g] EXCEPT !.step = "storing", !.delta = diff]]
    BY <1>1 DEF Compare
  <1> HIDE DEF diff
  <1>4. /\ reader'[g] \in Call /\ reader'[g].step = "storing"
        /\ reader'[g].at = reader[g].at /\ reader'[g].delta = diff
        /\ reader'[g].truth = reader[g].truth /\ reader'[g].alone = reader[g].alone
        /\ \A h \in Readers : h # g => reader'[h] = reader[h]
    BY <1>1, <1>2, <1>3 DEF Call
  <1>5. MetricsTypeOK'
    BY <1>1, <1>3, <1>4 DEF MetricsTypeOK, Call
  <1>6. Readings' = Readings
    BY <1>1, <1>4 DEF Readings
  <1>7. \A h \in Readers : /\ (Reads(h)' <=> Reads(h))
                           /\ reader'[h].at = reader[h].at
                           /\ reader'[h].alone = reader[h].alone
    <2>1. Reads(g) /\ Reads(g)'
      BY <1>4 DEF Reads, Compare
    <2>2. \A h \in Readers : h # g => (Reads(h)' <=> Reads(h))
      BY <1>4 DEF Reads
    <2>3. QED BY <1>4, <2>1, <2>2
  <1>8. MapIsLast' /\ ReadingsArePast' /\ SameBase'
    BY <1>1, <1>6 DEF MapIsLast, ReadingsArePast, Past, SameBase, ReadingInv
  <1>9. ReadsSomething' /\ NotBothAlone' /\ LaterThanMap'
    BY <1>1, <1>7 DEF ReadsSomething, NotBothAlone, LaterThanMap, ReadingInv
  <1>10. ComparedWithMap' /\ SpeedIsTraffic'
    BY <1>1, <1>4 DEF ComparedWithMap, SpeedIsTraffic, ReadingInv, diff, Minus, Value
  <1>11. QED BY <1>5, <1>8, <1>9, <1>10 DEF ReadingInv

LEMMA StoreInv ==
  ASSUME MetricsInv, NEW g \in Readers, Store(g)
  PROVE  MetricsInv'
  <1> USE DEF MetricsInv
  <1> DEFINE true == IF reader[g].alone /\ last.resets = reader[g].at.resets
                     THEN reader[g].at.total - last.total ELSE -1
  <1>1. /\ reader \in [Readers -> Call] /\ prev \in Reading \cup {NoReading}
        /\ traffic \in Reading /\ last = prev
        /\ traffic' = traffic /\ prev' = reader[g].at /\ last' = reader[g].at
        /\ publishing' = publishing /\ writes' = writes /\ writer' = writer /\ reader[g].step = "storing"
    BY TypeIsCalls DEF MetricsTypeOK, Store, Finished, ReadingInv, MapIsLast
  <1>2. reader[g].at \in Reading /\ Reads(g)
    BY <1>1 DEF Reads, ReadingInv, ReadsSomething
  <1>3. ASSUME true # -1
        PROVE  true \in 0 .. MaxTraffic /\ reader[g].delta = true
    <2>1. /\ reader[g].alone /\ prev.resets = reader[g].at.resets
          /\ true = reader[g].at.total - prev.total
      BY <1>1, <1>3
    <2>2. prev \in Reading
      BY <1>1, <1>2, <2>1, NoCallFacts, CounterAssumption DEF CounterAssumption, Reading
    <2>3. prev.total <= reader[g].at.total
      BY <1>2, <2>1 DEF ReadingInv, LaterThanMap
    <2>4. prev.base <= prev.total /\ reader[g].at.base = prev.base
      BY <2>1 DEF ReadingInv, ReadingsArePast, Past, SameBase, Readings
    <2>5. reader[g].delta = Minus(Value(reader[g].at), Value(prev))
      BY <1>1, <2>1, <2>2, NoCallFacts DEF ReadingInv, ComparedWithMap
    <2>6. true \in 0 .. MaxTraffic
      BY <1>2, <2>1, <2>2, <2>3, CounterAssumption DEF CounterAssumption, Reading
    <2>7. QED
      BY <1>2, <2>1, <2>2, <2>3, <2>4, <2>5, <2>6, DifferenceIsTraffic
  <1>4. reader' = [reader EXCEPT ![g] = [reader[g] EXCEPT !.step = "publish", !.truth = true]]
    BY <1>1 DEF Store, Finished
  <1>5. true \in -1 .. MaxTraffic
    BY <1>3, CounterAssumption DEF CounterAssumption
  <1> HIDE DEF true
  <1>6. /\ reader'[g] \in Call /\ reader'[g].step = "publish"
        /\ reader'[g].at = reader[g].at /\ reader'[g].delta = reader[g].delta
        /\ reader'[g].truth = true
        /\ \A h \in Readers : h # g => reader'[h] = reader[h]
    BY <1>1, <1>4, <1>5 DEF Call
  <1>7. MetricsTypeOK'
    BY <1>1, <1>2, <1>4, <1>6 DEF MetricsTypeOK, Call
  <1>8. Readings' \subseteq Readings
    BY <1>1, <1>6 DEF Readings
  <1>9. MapIsLast' /\ ReadingsArePast' /\ SameBase'
    BY <1>1, <1>8 DEF MapIsLast, ReadingsArePast, Past, SameBase, ReadingInv
  <1>10. ~ Reads(g)' /\ \A h \in Readers : h # g => /\ (Reads(h)' <=> Reads(h))
                                                     /\ Reads(h) => ~ reader[h].alone
    BY <1>2, <1>6 DEF Reads, ReadingInv, NotBothAlone
  <1>11. ReadsSomething' /\ NotBothAlone' /\ LaterThanMap'
    <2>1. ASSUME NEW h \in Readers, Reads(h)'
          PROVE  h # g /\ Reads(h) /\ ~ reader'[h].alone /\ reader'[h] = reader[h]
      BY <1>6, <1>10, <2>1 DEF Reads
    <2>2. ReadsSomething'
      BY <2>1 DEF ReadsSomething, ReadingInv
    <2>3. NotBothAlone' /\ LaterThanMap'
      BY <2>1 DEF NotBothAlone, LaterThanMap
    <2>4. QED BY <2>2, <2>3
  <1>12. ComparedWithMap'
    BY <1>6, <1>10 DEF ComparedWithMap, Reads
  <1>13. SpeedIsTraffic'
    BY <1>3, <1>6 DEF SpeedIsTraffic, ReadingInv
  <1>14. QED BY <1>7, <1>9, <1>11, <1>12, <1>13 DEF ReadingInv

LEMMA PublishedInv ==
  ASSUME MetricsInv, NEW g \in Readers, NEW call \in {NoCall, [NoCall EXCEPT !.step = "sending"]},
         reader' = [reader EXCEPT ![g] = call],
         UNCHANGED <<traffic, prev, last, writer>>,
         publishing' \subseteq Nat, writes' \subseteq Nat
  PROVE  MetricsInv'
  <1> USE DEF MetricsInv
  <1>1. /\ reader \in [Readers -> Call] /\ traffic \in Reading
        /\ traffic' = traffic /\ prev' = prev /\ last' = last /\ writer' = writer
    BY TypeIsCalls DEF MetricsTypeOK
  <1>2. call \in Call /\ call.step \in {"idle", "sending"} /\ call.at = NoReading
    <2>1. ASSUME NEW r \in Call, NEW q, q = [r EXCEPT !.step = "sending"]
          PROVE  q \in Call /\ q.step = "sending" /\ q.at = r.at
      BY <2>1 DEF Call
    <2>2. QED BY <2>1, NoCallFacts
  <1>3. reader'[g] = call /\ \A h \in Readers : h # g => reader'[h] = reader[h]
    BY <1>1
  <1>4. MetricsTypeOK'
    BY <1>1, <1>2 DEF MetricsTypeOK, Call
  <1>5. \A r \in Readings' : r \in Readings \/ r = NoReading
    BY <1>1, <1>2, <1>3 DEF Readings
  <1>6. \A r \in Readings : r \in Reading \cup {NoReading}
    BY <1>1 DEF Readings, Call, MetricsTypeOK
  <1>7. Past(NoReading)
    BY <1>1, NoCallFacts, CounterAssumption DEF CounterAssumption, Past, Reading
  <1>8. \A r \in Readings : r.resets = -1 => r.base = 0
    BY <1>6, NoCallFacts, CounterAssumption DEF CounterAssumption, Reading
  <1>9. MapIsLast' /\ ReadingsArePast'
    BY <1>1, <1>5, <1>7 DEF MapIsLast, ReadingsArePast, Past, ReadingInv
  <1>10. SameBase'
    BY <1>5, <1>8, NoCallFacts DEF SameBase, ReadingInv
  <1>11. ASSUME NEW h \in Readers, reader'[h].step \in {"read", "storing", "publish"}
         PROVE  reader'[h] = reader[h]
    BY <1>2, <1>3, <1>11
  <1>12. ReadsSomething' /\ NotBothAlone'
    BY <1>11 DEF ReadsSomething, NotBothAlone, Reads, ReadingInv
  <1>13. LaterThanMap' /\ ComparedWithMap' /\ SpeedIsTraffic'
    BY <1>1, <1>11
       DEF LaterThanMap, ComparedWithMap, SpeedIsTraffic, Reads, ReadingInv
  <1>14. QED BY <1>4, <1>9, <1>10, <1>12, <1>13 DEF ReadingInv

(* Only the writes to Kafka, or nothing of the readings, changes.          *)
LEMMA WritesInv ==
  ASSUME MetricsInv, UNCHANGED <<traffic, prev, reader, last>>,
         publishing' \subseteq Nat, writes' \subseteq Nat, writer' \in {"open", "closed"}
  PROVE  MetricsInv'
  <1>1. MetricsTypeOK'
    BY DEF MetricsInv, MetricsTypeOK
  <1>2. ReadingInv'
    BY DEF MetricsInv, ReadingInv, MapIsLast, ReadingsArePast, Past, Readings, SameBase,
       ReadsSomething, NotBothAlone, LaterThanMap, ComparedWithMap, SpeedIsTraffic, Reads
  <1>3. QED BY <1>1, <1>2 DEF MetricsInv

LEMMA PublishInv ==
  ASSUME MetricsInv, NEW c \in Nat, NEW cancelled,
         \/ PublishResponse(c) \/ PublishMetrics(cancelled) \/ MetricsPublished(cancelled)
  PROVE  MetricsInv'
  <1>1. publishing \subseteq Nat /\ writes \subseteq Nat
    BY DEF MetricsInv, MetricsTypeOK
  <1>2. CASE PublishResponse(c)
    BY <1>1, <1>2, PublishedInv DEF PublishResponse, Readers
  <1>3. CASE PublishMetrics(cancelled)
    BY <1>1, <1>3, PublishedInv DEF PublishMetrics, Publishes, Collector, Readers
  <1>4. CASE MetricsPublished(cancelled)
    BY <1>1, <1>4, PublishedInv DEF MetricsPublished, Readers
  <1>5. QED BY <1>2, <1>3, <1>4

-----------------------------------------------------------------------------
(* The process.                                                            *)

LEMMA CommandsAreNumbers ==
  /\ Cardinality(Commands) \in Nat /\ Commands = 1 .. Cardinality(Commands)
  /\ Commands \subseteq Nat
  BY FS_CardinalityType, ProcessAssumption DEF ProcessAssumption

ReadersInv == MetricsInv /\ ProcessTypeOK

LEMMA ProcessInit == Init => ReadersInv
  <1> SUFFICES ASSUME Init PROVE ReadersInv
    OBVIOUS
  <1>1. MetricsInv
    BY InitMetricsInv DEF Init
  <1>2. ProcessTypeOK
    BY CommandsAreNumbers, ProcessAssumption DEF ProcessAssumption, Init, ProcessTypeOK
  <1>3. QED BY <1>1, <1>2 DEF ReadersInv

(* The readings in each step of the agent.                                 *)
LEMMA NextMetricsInv == ReadersInv /\ [Next]_vars => MetricsInv'
  <1> SUFFICES ASSUME MetricsInv, ProcessTypeOK, [Next]_vars PROVE MetricsInv'
    BY DEF ReadersInv
  <1>1. ASSUME UNCHANGED metricsVars PROVE MetricsInv'
    BY <1>1, WritesInv DEF metricsVars, MetricsInv, MetricsTypeOK
  <1>2. CASE Start
    BY <1>2, MetricsStartInv DEF Start
  <1>3. CASE Killed \/ DiesOfRace \/ OperatorRestarts
    BY <1>1, <1>3 DEF Killed, DiesOfRace, OperatorRestarts, Gone, Signalled
  <1>4. ASSUME NEW c \in Commands, RestartAgent(c) PROVE MetricsInv'
    BY <1>1, <1>4 DEF RestartAgent, Signalled
  <1>5. CASE Stops
    <2>1. CASE StopCloses
      BY <2>1, WritesInv DEF StopCloses, CloseWriter, MetricsInv, MetricsTypeOK
    <2>2. CASE StopReturns
      BY <1>1, <2>2 DEF StopReturns, Gone
    <2>3. QED BY <1>5, <2>1, <2>2 DEF Stops
  <1>6. CASE Loop
    <2>1. CASE ReadCommands \/ \E kind \in {"update", "net"} : Issue(kind) \/ Receive(kind)
      BY <1>1, <2>1 DEF ReadCommands, Issue, Receive
    <2>2. CASE CommandDone
      <3>1. current \in Nat
        BY CommandsAreNumbers DEF ProcessTypeOK
      <3>2. QED BY <2>2, <3>1, PublishInv DEF CommandDone
    <2>3. ASSUME NEW c \in Commands, TakeCommand(c) PROVE MetricsInv'
      <3>1. UNCHANGED metricsVars \/ ReadCounter("loop")
        BY <2>3 DEF TakeCommand
      <3>2. QED BY <1>1, <3>1, ReadCounterInv DEF Readers
    <2>4. QED BY <1>6, <2>1, <2>2, <2>3 DEF Loop
  <1>7. CASE Tick
    BY <1>7, ReadCounterInv DEF Tick, Readers
  <1>8. CASE CollectorEnds
    BY <1>1, <1>8 DEF CollectorEnds
  <1>9. CASE Measures
    <2>1. ASSUME NEW g \in Readers, Compare(g) \/ Store(g) PROVE MetricsInv'
      BY <2>1, CompareInv, StoreInv
    <2>2. CASE PublishMetrics(Cancelled) \/ MetricsPublished(Cancelled)
      BY <2>2, PublishInv
    <2>3. ASSUME NEW w \in writes, WriteEnds(w) PROVE MetricsInv'
      BY <2>3, WritesInv DEF WriteEnds, MetricsInv, MetricsTypeOK
    <2>4. ASSUME NEW c \in publishing, BeginWrite(c) PROVE MetricsInv'
      BY <2>4, WritesInv DEF BeginWrite, Publishes, MetricsInv, MetricsTypeOK
    <2>5. QED BY <1>9, <2>1, <2>2, <2>3, <2>4 DEF Measures
  <1>10. CASE Updates \/ (Release /\ UNCHANGED <<metricsVars, processVars>>)
    BY <1>1, <1>10 DEF Updates
  <1>11. CASE UNCHANGED vars
    BY <1>1, <1>11 DEF vars
  <1>12. QED
    BY <1>2, <1>3, <1>4, <1>5, <1>6, <1>7, <1>8, <1>9, <1>10, <1>11 DEF Next

(* The rest of the process in each step of the agent.                      *)
LEMMA NextProcessTypeOK == ReadersInv /\ [Next]_vars => ProcessTypeOK'
  <1> SUFFICES ASSUME ProcessTypeOK, [Next]_vars PROVE ProcessTypeOK'
    BY DEF ReadersInv
  <1> USE ProcessAssumption, CommandsAreNumbers DEF ProcessAssumption, ProcessTypeOK
  <1>1. CASE Start
    BY <1>1 DEF Start
  <1>2. CASE Killed \/ DiesOfRace \/ OperatorRestarts
    BY <1>2 DEF Killed, DiesOfRace, OperatorRestarts, Gone, Signalled
  <1>3. ASSUME NEW c \in Commands, RestartAgent(c) PROVE ProcessTypeOK'
    BY <1>3 DEF RestartAgent, Signalled, processVars
  <1>4. CASE Stops
    BY <1>4 DEF Stops, StopCloses, StopReturns, Gone
  <1>5. CASE Loop
    <2>1. CASE ReadCommands
      <3>1. [i \in 1 .. Len(stream) |-> i] \in Seq(Commands)
        OBVIOUS
      <3>2. QED BY <2>1, <3>1 DEF ReadCommands
    <2>2. CASE CommandDone
      BY <2>2 DEF CommandDone
    <2>3. ASSUME NEW c \in Commands, TakeCommand(c) PROVE ProcessTypeOK'
      <3>1. Tail(inbox) \in Seq(Commands)
        BY <2>3 DEF TakeCommand
      <3>2. current' \in {current, c}
        BY <2>3 DEF TakeCommand
      <3>3. QED BY <2>3, <3>1, <3>2 DEF TakeCommand
    <2>4. ASSUME NEW kind \in {"update", "net"}, Issue(kind) PROVE ProcessTypeOK'
      BY <2>4 DEF Issue
    <2>5. ASSUME NEW kind \in {"update", "net"}, Receive(kind) PROVE ProcessTypeOK'
      <3>1. /\ stream' \in Seq({"update", "net"}) /\ Len(stream') = Len(stream) + 1
            /\ Len(stream') \in Commands
        BY <2>5 DEF Receive
      <3>2. <<Len(stream')>> \in Seq(Commands)
        BY <3>1
      <3>3. QED BY <2>5, <3>1, <3>2 DEF Receive
    <2>6. QED BY <1>5, <2>1, <2>2, <2>3, <2>4, <2>5 DEF Loop
  <1>6. CASE Tick
    BY <1>6 DEF Tick
  <1>7. CASE CollectorEnds
    BY <1>7 DEF CollectorEnds
  <1>8. CASE Measures \/ Updates \/ (Release /\ UNCHANGED <<metricsVars, processVars>>)
    BY <1>8 DEF Measures, Updates, processVars
  <1>9. CASE UNCHANGED vars
    BY <1>9 DEF vars, processVars
  <1>10. QED
    BY <1>1, <1>2, <1>3, <1>4, <1>5, <1>6, <1>7, <1>8, <1>9 DEF Next

-----------------------------------------------------------------------------
(* MetricsInv holds in every state, and the process keeps its types.       *)
THEOREM MetricsInvariance == Spec => []ReadersInv
  <1>1. ReadersInv /\ [Next]_vars => ReadersInv'
    BY NextMetricsInv, NextProcessTypeOK DEF ReadersInv
  <1>2. QED BY ProcessInit, <1>1, PTL DEF Spec

(* For counters of every size: a reading that the other goroutine does not *)
(* disturb, and no reset of the interface, shows the traffic since the     *)
(* reading before it, whichever goroutine made that one.                   *)
THEOREM SpeedsAreTraffic == Spec => []SpeedIsTraffic
  <1>1. ReadersInv => SpeedIsTraffic
    BY DEF ReadersInv, MetricsInv, ReadingInv
  <1>2. QED BY <1>1, MetricsInvariance, PTL

(* Readings, speeds, writes and the process keep their types: a speed is   *)
(* never the difference of anything but two counters.                      *)
THEOREM MetricsTypeCorrect == Spec => [](MetricsTypeOK /\ ProcessTypeOK)
  <1>1. ReadersInv => MetricsTypeOK /\ ProcessTypeOK
    BY DEF ReadersInv, MetricsInv
  <1>2. QED BY <1>1, MetricsInvariance, PTL
=============================================================================
