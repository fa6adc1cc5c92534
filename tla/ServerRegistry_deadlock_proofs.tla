-------------------- MODULE ServerRegistry_deadlock_proofs --------------------
(***************************************************************************)
(* Which transactions can wait for each other in a circle, for any number  *)
(* of instances, users and keys.  Transactions that have inserted or       *)
(* updated a server wait for nobody: the link they insert is new, and the  *)
(* server they insert it for cannot be deleted before they end.  So a      *)
(* circle consists of removals.  Each of them waits for one that has       *)
(* deleted links, unless that one has deleted the server without having    *)
(* had a link; and of two removals that delete the same server only one    *)
(* has deleted links.                                                      *)
(***************************************************************************)
EXTENDS ServerRegistry_proofs

(* A row of servers is updated by one transaction at a time.               *)
UpdatedByConnecting ==
  \A i \in Instances : txn[i].updated # {} =>
    txn[i].connecting /\ txn[i].step \in {"exists", "link", "commit"}
UpdatedOnce ==
  \A i \in Instances : \A j \in Others(i) : txn[i].updated \cap txn[j].updated = {}
(* ... and not deleted by another one.                                     *)
UpdatedStays ==
  \A i \in Instances : \A j \in Others(i) : \A s \in txn[j].oldServers :
    s.id \notin txn[i].updated

(* The server that a transaction of /add goes on with is a row it has      *)
(* inserted, a row it has updated, or gone.                                *)
FoundIsUpdated ==
  \A i \in Instances :
    txn[i].connecting /\ txn[i].step \in {"exists", "link", "commit"}
      /\ txn[i].newServers = {} =>
        \A s \in servers : s.id = txn[i].found => s.id \in txn[i].updated

LinkIsNew == \A i \in Instances : txn[i].step = "link" => MyLink(i) \notin links

(* Of the removals that have counted nobody, one has deleted the last      *)
(* links of the server.                                                    *)
Removing(i) == txn[i].step \in {"delete", "check"}
OneHasUnlinked ==
  \A i \in Instances : \A j \in Others(i) :
    Removing(i) /\ Removing(j) /\ txn[i].key = txn[j].key =>
      txn[i].oldLinks = {} \/ txn[j].oldLinks = {}

WaitInv ==
  /\ UpdatedByConnecting /\ UpdatedOnce /\ UpdatedStays /\ FoundIsUpdated
  /\ LinkIsNew /\ OneHasUnlinked

-----------------------------------------------------------------------------
(* Inserting a link waits for nobody.                                      *)

(* No other transaction has inserted the link j is about to insert: both   *)
(* would have updated its server.                                          *)
LEMMA NobodyElsesLink ==
  ASSUME IInv, WaitInv, NEW i \in Instances, NEW j \in Others(i), txn[j].step = "link"
  PROVE  MyLink(j) \notin txn[i].newLinks
  <1> SUFFICES ASSUME MyLink(j) \in txn[i].newLinks PROVE FALSE
    OBVIOUS
  <1>1. MyLink(j) = MyLink(i) /\ txn[i].connecting /\ txn[i].step = "commit"
    BY DEF IInv, Shape, ShapeOf
  <1>2. MyLink(i).id = txn[i].found /\ MyLink(j).id = txn[j].found
    BY DEF MyLink
  <1>3. j \in Instances /\ txn[j].connecting /\ i \in Others(j)
    BY DEF IInv, Shape, ShapeOf, Linking, Others
  <1>4. PICK s \in Servers(i) : s.id = txn[j].found
    BY <1>1, <1>2 DEF IInv, LinksInv, LinkedServerStays
  <1>5. s \in servers
    <2>1. s \notin txn[i].newServers
      BY <1>3, <1>4 DEF IInv, KeysInv, FoundIsMine, Linking
    <2>2. QED BY <1>4, <2>1 DEF Servers
  <1>6. txn[i].newServers = {} /\ txn[j].newServers = {}
    <2>1. \A t \in txn[i].newServers : t.id = txn[j].found
      BY <1>1, <1>2 DEF IInv, Shape, ShapeOf
    <2>2. \A t \in txn[j].newServers : t.id = txn[j].found
      BY <1>3 DEF IInv, Shape, ShapeOf
    <2>3. QED BY <1>3, <1>4, <1>5, <2>1, <2>2 DEF IInv, RowsInv, FreshRows
  <1>7. txn[j].found \in txn[i].updated /\ txn[j].found \in txn[j].updated
    BY <1>1, <1>2, <1>3, <1>4, <1>5, <1>6 DEF WaitInv, FoundIsUpdated
  <1>8. QED BY <1>7 DEF WaitInv, UpdatedOnce

LEMMA LinkWaitsForNobody ==
  ASSUME IInv, WaitInv, NEW i \in Instances, txn[i].step = "link", NEW j \in Others(i)
  PROVE  ~ WaitsFor(i, j)
  <1>1. j \in Instances /\ i \in Others(j)
    BY DEF Others
  <1>2. MyLink(i) \notin txn[j].newLinks
    BY <1>1, NobodyElsesLink
  <1>3. MyLink(i) \notin txn[j].oldLinks
    BY <1>1 DEF IInv, RowsInv, DeletedOnce, WaitInv, LinkIsNew
  <1>4. ASSUME NEW s \in Servers(i), s.id = txn[i].found, s \in txn[j].oldServers
        PROVE  FALSE
    <2>1. s \in servers
      BY <1>1, <1>4 DEF IInv, RowsInv, DeletedOnce
    <2>2. txn[i].newServers = {}
      <3>1. \A t \in txn[i].newServers : t.id = s.id
        BY <1>4 DEF IInv, Shape, ShapeOf
      <3>2. QED BY <2>1, <3>1 DEF IInv, RowsInv, FreshRows
    <2>3. s.id \in txn[i].updated
      BY <1>4, <2>1, <2>2 DEF WaitInv, FoundIsUpdated, IInv, Shape, ShapeOf, Linking
    <2>4. QED BY <1>4, <2>3 DEF WaitInv, UpdatedStays
  <1>5. QED BY <1>2, <1>3, <1>4 DEF WaitsFor, Deleting

-----------------------------------------------------------------------------
(* The circles.                                                            *)

LEMMA WaitingWrites ==
  ASSUME IInv, WaitInv, NEW S \in SUBSET Instances, Circle(S), NEW i \in S
  PROVE  /\ txn[i].step \in {"insert", "update", "unlink", "delete", "check"}
         /\ txn[i].newServers = {} /\ txn[i].updated = {} /\ txn[i].newLinks = {}
         /\ txn[i].oldServers # {} => txn[i].step = "check"
         /\ txn[i].oldLinks # {} => Removing(i)
  <1>1. PICK j \in S \ {i} : WaitsFor(i, j)
    BY DEF Circle
  <1>2. txn[i].step # "link"
    BY <1>1, LinkWaitsForNobody DEF Others
  <1>3. txn[i].step \in {"insert", "update", "unlink", "delete", "check"}
    BY <1>1, <1>2 DEF WaitsFor
  <1>4. ShapeOf(i)
    BY DEF IInv, Shape
  <1>5. QED BY <1>3, <1>4 DEF ShapeOf, Linking, WaitInv, UpdatedByConnecting, Removing

(* Whoever waits in a circle in which each removal had links waits for a   *)
(* removal that had links; one that removes a server itself waits for      *)
(* another that removes the same.                                          *)
LEMMA WaitsForUnlinked ==
  ASSUME IInv, WaitInv, NEW S \in SUBSET Instances, Circle(S),
         \A h \in S : txn[h].step = "check" => txn[h].oldLinks # {},
         NEW i \in S
  PROVE  \E j \in S \ {i} :
           /\ Removing(j) /\ txn[j].oldLinks # {}
           /\ Removing(i) => txn[i].key = txn[j].key
  <1>1. PICK j \in S \ {i} : WaitsFor(i, j)
    BY DEF Circle
  <1>2. /\ txn[j].newServers = {} /\ txn[j].updated = {} /\ txn[j].newLinks = {}
        /\ txn[j].oldServers # {} => txn[j].step = "check"
        /\ txn[j].oldLinks # {} => Removing(j)
    BY WaitingWrites
  <1>3. txn[i].step \in {"insert", "update", "unlink", "delete", "check"}
    BY WaitingWrites
  <1>4. ShapeOf(i) /\ ShapeOf(j) /\ j \in Instances
    BY DEF IInv, Shape
  <1>5. CASE txn[i].step \in {"insert", "update", "delete"}
    <2>1. PICK s \in ServersOf(i) : s \in txn[j].oldServers
      BY <1>1, <1>2, <1>5 DEF WaitsFor, Deleting, Updating, Referencing
    <2>2. s.key = txn[i].key /\ s.key = txn[j].key
      BY <1>4, <2>1 DEF ServersOf, ShapeOf
    <2>3. txn[j].step = "check" /\ txn[j].oldLinks # {}
      BY <1>2, <2>1
    <2>4. QED BY <2>2, <2>3 DEF Removing
  <1>6. CASE txn[i].step = "unlink"
    BY <1>1, <1>2, <1>6 DEF WaitsFor, Removing
  <1>7. CASE txn[i].step = "check"
    <2>1. PICK s \in txn[i].oldServers, l \in txn[j].oldLinks : l.id = s.id
      BY <1>1, <1>7 DEF WaitsFor, Unlinking
    <2>2. s.key = txn[i].key /\ s \in servers
      BY <1>4, <2>1 DEF ShapeOf, IInv, RowsInv, DeletedOnce
    <2>3. s.key = txn[j].key
      BY <1>4, <2>1, <2>2 DEF IInv, LinksInv, UnlinkedIsMine
    <2>4. QED BY <1>2, <2>1, <2>2, <2>3
  <1>8. QED BY <1>3, <1>5, <1>6, <1>7

LEMMA CirclesAreLinkless ==
  ASSUME IInv, WaitInv, NEW S \in SUBSET Instances, Circle(S)
  PROVE  \E i \in S : txn[i].step = "check" /\ txn[i].oldLinks = {}
  <1> SUFFICES ASSUME \A h \in S : txn[h].step = "check" => txn[h].oldLinks # {}
               PROVE  FALSE
    OBVIOUS
  <1>1. PICK h \in S : TRUE
    BY DEF Circle
  <1>2. PICK i \in S : Removing(i) /\ txn[i].oldLinks # {}
    BY <1>1, WaitsForUnlinked
  <1>3. PICK j \in S \ {i} :
               Removing(j) /\ txn[j].oldLinks # {} /\ txn[i].key = txn[j].key
    BY <1>2, WaitsForUnlinked
  <1>4. j \in Others(i)
    BY DEF Others
  <1>5. QED BY <1>2, <1>3, <1>4 DEF WaitInv, OneHasUnlinked

LEMMA WaitsEnd == IInv /\ WaitInv => OnlyLinklessRemovalsDeadlock
  BY CirclesAreLinkless DEF OnlyLinklessRemovalsDeadlock
-----------------------------------------------------------------------------
(* WaitInv is kept.                                                        *)

(* What WaitInv asks of i beside the others as they are.                   *)
Patient(i) ==
  /\ txn[i].updated # {} => txn[i].connecting /\ txn[i].step \in {"exists", "link", "commit"}
  /\ txn[i].connecting /\ txn[i].step \in {"exists", "link", "commit"}
       /\ txn[i].newServers = {} =>
         \A s \in servers : s.id = txn[i].found => s.id \in txn[i].updated
  /\ txn[i].step = "link" => MyLink(i) \notin links

LEMMA PatientAll == WaitInv => \A i \in Instances : Patient(i)
  BY DEF WaitInv, Patient, UpdatedByConnecting, FoundIsUpdated, LinkIsNew

(* No other transaction has updated or deleted a server that i has.        *)
Apart(i) ==
  \A j \in Others(i) :
    /\ txn[i].updated \cap txn[j].updated = {}
    /\ \A s \in txn[j].oldServers : s.id \notin txn[i].updated
    /\ \A s \in txn[i].oldServers : s.id \notin txn[j].updated

LEMMA ApartAll == WaitInv => \A i \in Instances : Apart(i)
  BY DEF WaitInv, UpdatedOnce, UpdatedStays, Apart, Others

(* A statement of i, which writes to no table.                             *)
LEMMA WithinWait ==
  ASSUME IInv, WaitInv, NEW i \in Instances, Within(i), Patient(i)', Apart(i)',
         Removing(i)' =>
           \A j \in Others(i) : Removing(j) /\ txn[j].key = txn'[i].key =>
             txn'[i].oldLinks = {} \/ txn[j].oldLinks = {}
  PROVE  WaitInv'
  <1>1. UNCHANGED tables /\ \A j \in Others(i) : txn'[j] = txn[j]
    BY WithinOthers DEF Within, IInv
  <1>2. \A j \in Others(i) : Patient(j)'
    BY <1>1, PatientAll DEF Patient, MyLink, tables, Others
  <1>3. UpdatedByConnecting' /\ FoundIsUpdated' /\ LinkIsNew'
    BY <1>2 DEF Patient, UpdatedByConnecting, FoundIsUpdated, LinkIsNew, Others
  <1>4. UpdatedOnce' /\ UpdatedStays'
    BY <1>1 DEF WaitInv, UpdatedOnce, UpdatedStays, Apart, Others
  <1>5. OneHasUnlinked'
    BY <1>1 DEF WaitInv, OneHasUnlinked, Removing, Others
  <1>6. QED BY <1>3, <1>4, <1>5 DEF WaitInv

LEMMA ClosesWait ==
  ASSUME IInv, WaitInv, NEW i \in Instances, Closes(i)
  PROVE  WaitInv'
  <1>1. /\ Within(i) /\ txn'[i].updated = {} /\ ~ txn'[i].connecting
        /\ txn'[i].step = "none" /\ txn'[i].oldServers = {}
    BY ClosedFacts DEF Closes
  <1>2. QED BY <1>1, WithinWait DEF Patient, Apart, Removing

(* A statement that locks no server and does not lead to a deletion.       *)
LEMMA SameUpdatesWait ==
  ASSUME IInv, WaitInv, NEW i \in Instances, Within(i), Patient(i)', ~ Removing(i)',
         txn'[i].updated = txn[i].updated, txn'[i].oldServers = txn[i].oldServers
  PROVE  WaitInv'
  <1>1. \A j \in Others(i) : txn'[j] = txn[j]
    BY WithinOthers DEF IInv
  <1>2. Apart(i)'
    BY <1>1, ApartAll DEF Apart
  <1>3. QED BY <1>2, WithinWait

LEMMA CheckKeyWait == ASSUME IInv, WaitInv, NEW i \in Instances, CheckKey(i) PROVE WaitInv'
  <1>1. TxnType /\ UNCHANGED tables /\ txn[i].step = "key" /\ Patient(i)
    BY PatientAll DEF IInv, CheckKey
  <1>2. CASE Goto(i, "find")
    <2>1. /\ Within(i) /\ txn'[i].step = "find"
          /\ txn'[i].updated = txn[i].updated /\ txn'[i].oldServers = txn[i].oldServers
      BY <1>1, <1>2, StepFacts DEF Steps, KeepsServers, SameServers
    <2>2. QED BY <1>1, <2>1, SameUpdatesWait DEF Patient, Removing
  <1>3. CASE txn' = [txn EXCEPT ![i] = Closed]
    BY <1>1, <1>3, CloseFacts, ClosesWait
  <1>4. QED BY <1>2, <1>3 DEF CheckKey

LEMMA FindServerWait == ASSUME IInv, WaitInv, NEW i \in Instances, FindServer(i) PROVE WaitInv'
  <1>1. TxnType /\ UNCHANGED tables /\ txn[i].step = "find" /\ Patient(i)
    BY PatientAll DEF IInv, FindServer
  <1>2. CASE Goto(i, "insert")
    <2>1. /\ Within(i) /\ txn'[i].step = "insert"
          /\ txn'[i].updated = txn[i].updated /\ txn'[i].oldServers = txn[i].oldServers
      BY <1>1, <1>2, StepFacts DEF Steps, KeepsServers, SameServers
    <2>2. QED BY <1>1, <2>1, SameUpdatesWait DEF Patient, Removing
  <1>3. CASE \E t \in ServersOf(i) :
               txn' = [txn EXCEPT ![i].step = "update", ![i].found = t.id]
    <2>1. PICK t \in ServersOf(i) :
                 txn' = [txn EXCEPT ![i].step = "update", ![i].found = t.id]
      BY <1>3
    <2>2. t \in Server
      BY DEF ServersOf, Servers, IInv, TypeOK
    <2>3. /\ Within(i) /\ txn'[i].step = "update"
          /\ txn'[i].updated = txn[i].updated /\ txn'[i].oldServers = txn[i].oldServers
      BY <1>1, <2>1, <2>2, FindServerFacts DEF KeepsServers, SameServers
    <2>4. QED BY <1>1, <2>3, SameUpdatesWait DEF Patient, Removing
  <1>4. QED BY <1>2, <1>3 DEF FindServer

LEMMA InsertServerWait ==
  ASSUME IInv, WaitInv, NEW i \in Instances, InsertServer(i)
  PROVE  WaitInv'
  <1>1. TxnType /\ UNCHANGED tables /\ txn[i].step = "insert" /\ Patient(i)
    BY PatientAll DEF IInv, InsertServer
  <1>2. CASE txn' = [txn EXCEPT ![i] = Closed]
    BY <1>1, <1>2, CloseFacts, ClosesWait
  <1>3. CASE \E id \in Unused :
               txn' = [txn EXCEPT ![i].step = "exists", ![i].found = id,
                         ![i].newServers = {[id |-> id, key |-> txn[i].key]}]
    <2>1. PICK id \in Unused :
               txn' = [txn EXCEPT ![i].step = "exists", ![i].found = id,
                         ![i].newServers = {[id |-> id, key |-> txn[i].key]}]
      BY <1>3
    <2>2. id \in Ids
      BY DEF Unused
    <2>3. /\ Within(i) /\ txn'[i].step = "exists" /\ txn'[i].newServers # {}
          /\ txn'[i].updated = txn[i].updated /\ txn'[i].oldServers = txn[i].oldServers
      BY <1>1, <2>1, <2>2, InsertServerFacts
    <2>4. QED BY <1>1, <2>3, SameUpdatesWait DEF Patient, Removing
  <1>4. QED BY <1>2, <1>3 DEF InsertServer

LEMMA UpdateServerWait ==
  ASSUME IInv, WaitInv, NEW i \in Instances, UpdateServer(i)
  PROVE  WaitInv'
  <1>1. TxnType /\ UNCHANGED tables /\ txn[i].step = "update" /\ Granted(i)
    BY DEF IInv, UpdateServer
  <1>2. txn[i].connecting /\ txn[i].newServers = {} /\ txn[i].oldServers = {}
    BY <1>1 DEF IInv, Shape, ShapeOf
  <1> DEFINE ids == {s.id : s \in ServersOf(i)}
  <1>3. ids \in SUBSET Ids
    BY <1>2 DEF ServersOf, Servers, IInv, TypeOK, Server
  <1>4. \A j \in Others(i) : /\ ids \cap txn[j].updated = {}
                            /\ \A s \in txn[j].oldServers : s.id \notin ids
    <2>1. ASSUME NEW j \in Others(i) PROVE ids \cap txn[j].updated = {}
      BY <1>1 DEF Granted, WaitsFor, Updating
    <2>2. ASSUME NEW j \in Others(i), NEW s \in txn[j].oldServers, NEW t \in ServersOf(i),
                 s.id = t.id
          PROVE  FALSE
      <3>1. s \in servers /\ t \in servers
        BY <1>2, <2>2 DEF IInv, RowsInv, DeletedOnce, Others, ServersOf, Servers
      <3>2. s = t
        BY <2>2, <3>1 DEF IInv, RowsInv, UniqueIds
      <3>3. QED BY <1>1, <2>2, <3>2 DEF Granted, WaitsFor, Deleting
    <2>3. QED BY <2>1, <2>2
  <1>5. \A s \in servers : s.id = txn[i].found => s.id \in ids
    <2>1. \A s \in servers : s.id = txn[i].found => s.key = txn[i].key
      BY <1>1, <1>2 DEF IInv, KeysInv, FoundIsMine, Linking
    <2>2. QED BY <1>2, <2>1 DEF ServersOf, Servers
  <1>6. txn' = [txn EXCEPT ![i].step = "exists", ![i].updated = ids]
    BY DEF UpdateServer
  <1> HIDE DEF ids
  <1>7. /\ Within(i) /\ Keeps(i) /\ txn'[i].step = "exists" /\ txn'[i].updated = ids
        /\ txn'[i].found = txn[i].found /\ txn'[i].oldServers = {}
    BY <1>1, <1>2, <1>3, <1>6, UpdateServerFacts DEF KeepsServers, SameServers
  <1>8. Patient(i)'
    BY <1>1, <1>2, <1>5, <1>7 DEF Patient, Keeps, SameWho, tables
  <1>9. \A j \in Others(i) : txn'[j] = txn[j]
    BY <1>1, <1>7, WithinOthers
  <1>10. Apart(i)'
    BY <1>4, <1>7, <1>9 DEF Apart
  <1>11. QED BY <1>7, <1>8, <1>10, WithinWait DEF Removing

LEMMA LinkExistsWait == ASSUME IInv, WaitInv, NEW i \in Instances, LinkExists(i) PROVE WaitInv'
  <1>1. TxnType /\ UNCHANGED tables /\ txn[i].step = "exists" /\ Patient(i)
    BY PatientAll DEF IInv, LinkExists
  <1>2. PICK step \in {"commit", "link"} :
          Goto(i, step) /\ (step = "link" => MyLink(i) \notin Links(i))
    BY DEF LinkExists
  <1>3. /\ Within(i) /\ Keeps(i) /\ KeepsServers(i) /\ txn'[i].step = step
        /\ txn'[i].found = txn[i].found /\ txn'[i].updated = txn[i].updated
    BY <1>1, <1>2, StepFacts DEF Steps
  <1>4. txn[i].connecting /\ txn[i].oldLinks = {}
    BY <1>1 DEF IInv, Shape, ShapeOf
  <1>5. MyLink(i)' = MyLink(i) /\ links \subseteq Links(i)
    BY <1>3, <1>4 DEF MyLink, Keeps, SameWho, Links
  <1>6. Patient(i)'
    BY <1>1, <1>2, <1>3, <1>4, <1>5
       DEF Patient, Keeps, SameWho, KeepsServers, SameServers, tables
  <1>7. QED BY <1>2, <1>3, <1>6, SameUpdatesWait DEF Removing, KeepsServers, SameServers

LEMMA InsertLinkWait == ASSUME IInv, WaitInv, NEW i \in Instances, InsertLink(i) PROVE WaitInv'
  <1>1. TxnType /\ UNCHANGED tables /\ txn[i].step = "link" /\ Patient(i)
    BY PatientAll DEF IInv, InsertLink
  <1>2. CASE txn' = [txn EXCEPT ![i] = Closed]
    BY <1>1, <1>2, CloseFacts, ClosesWait
  <1>3. CASE txn' = [txn EXCEPT ![i].step = "commit", ![i].newLinks = {MyLink(i)}]
    <2>1. /\ Within(i) /\ Keeps(i) /\ KeepsServers(i) /\ txn'[i].step = "commit"
          /\ txn'[i].found = txn[i].found /\ txn'[i].updated = txn[i].updated
      BY <1>1, <1>3, InsertLinkFacts
    <2>2. Patient(i)'
      BY <1>1, <2>1 DEF Patient, Keeps, SameWho, KeepsServers, SameServers, tables
    <2>3. QED BY <2>1, <2>2, SameUpdatesWait DEF Removing, KeepsServers, SameServers
  <1>4. QED BY <1>2, <1>3 DEF InsertLink

LEMMA UnlinkWait == ASSUME IInv, WaitInv, NEW i \in Instances, Unlink(i) PROVE WaitInv'
  <1>1. /\ TxnType /\ UNCHANGED tables /\ txn[i].step = "unlink" /\ Patient(i)
        /\ txn' = [txn EXCEPT ![i].step = "count", ![i].oldLinks = MyLinks(i)]
    BY PatientAll DEF IInv, Unlink
  <1>2. MyLinks(i) \in LinkSets
    BY DEF MyLinks, LinksOf, Links, LinkSets, IInv, TypeOK
  <1>3. /\ Within(i) /\ txn'[i].step = "count"
        /\ txn'[i].updated = txn[i].updated /\ txn'[i].oldServers = txn[i].oldServers
    BY <1>1, <1>2, UnlinkFacts DEF KeepsServers, SameServers
  <1>4. QED BY <1>1, <1>3, SameUpdatesWait DEF Patient, Removing

(* Nobody is linked to the server any more: whoever else is about to       *)
(* delete it has deleted no link.                                          *)
LEMMA CountUsersWait == ASSUME IInv, WaitInv, NEW i \in Instances, CountUsers(i) PROVE WaitInv'
  <1>1. TxnType /\ UNCHANGED tables /\ txn[i].step = "count" /\ Patient(i)
    BY PatientAll DEF IInv, CountUsers
  <1>2. txn[i].oldServers = {}
    BY <1>1 DEF IInv, Shape, ShapeOf
  <1>3. CASE Goto(i, "commit")
    <2>1. /\ Within(i) /\ Keeps(i) /\ txn'[i].step = "commit"
          /\ txn'[i].updated = txn[i].updated /\ txn'[i].oldServers = txn[i].oldServers
      BY <1>1, <1>3, StepFacts DEF Steps, KeepsServers, SameServers
    <2>2. ~ txn[i].connecting
      BY <1>1 DEF IInv, Shape, ShapeOf, Linking
    <2>3. QED BY <1>1, <2>1, <2>2, SameUpdatesWait DEF Patient, Keeps, SameWho, Removing
  <1>4. CASE LinksOf(i) = {} /\ Goto(i, "delete")
    <2>1. /\ Within(i) /\ Keeps(i) /\ txn'[i].step = "delete"
          /\ txn'[i].updated = txn[i].updated /\ txn'[i].oldServers = txn[i].oldServers
      BY <1>1, <1>4, StepFacts DEF Steps, KeepsServers, SameServers
    <2>2. ASSUME NEW j \in Others(i), txn[j].key = txn[i].key PROVE txn[j].oldLinks = {}
      <3> SUFFICES ASSUME NEW l \in txn[j].oldLinks PROVE FALSE
        OBVIOUS
      <3>1. l \in links /\ l \notin txn[i].oldLinks
        BY DEF IInv, RowsInv, DeletedOnce, Others
      <3>2. PICK s \in servers : s.id = l.id
        BY <3>1 DEF IInv, RowsInv, Consistent
      <3>3. s.key = txn[j].key
        BY <3>2 DEF IInv, LinksInv, UnlinkedIsMine, Others
      <3>4. s \in ServersOf(i)
        BY <1>2, <2>2, <3>2, <3>3 DEF ServersOf, Servers
      <3>5. l \in LinksOf(i)
        BY <3>1, <3>2, <3>4 DEF LinksOf, Links
      <3>6. QED BY <1>4, <3>5
    <2>3. txn'[i].key = txn[i].key
      BY <2>1 DEF Keeps, SameWho
    <2>4. Patient(i)'
      BY <1>1, <2>1 DEF Patient
    <2>5. Apart(i)'
      <3>1. \A j \in Others(i) : txn'[j] = txn[j]
        BY <1>1, <2>1, WithinOthers
      <3>2. QED BY <2>1, <3>1, ApartAll DEF Apart
    <2>6. QED BY <2>1, <2>2, <2>3, <2>4, <2>5, WithinWait
  <1>5. QED BY <1>3, <1>4 DEF CountUsers

LEMMA DeleteServerWait ==
  ASSUME IInv, WaitInv, NEW i \in Instances, DeleteServer(i)
  PROVE  WaitInv'
  <1> DEFINE gone == ServersOf(i)
  <1>1. /\ TxnType /\ UNCHANGED tables /\ txn[i].step = "delete" /\ Patient(i)
        /\ txn' = [txn EXCEPT ![i].step = "check", ![i].oldServers = gone]
    BY PatientAll DEF IInv, DeleteServer
  <1>2. gone \in ServerSets
    BY DEF ServersOf, Servers, IInv, TypeOK, ServerSets
  <1>3. \A j \in Others(i) : \A s \in gone : s.id \notin txn[j].updated
    BY DEF DeleteServer, Granted, WaitsFor, Updating
  <1> HIDE DEF gone
  <1>4. /\ Within(i) /\ Keeps(i) /\ KeepsLinks(i) /\ txn'[i].step = "check"
        /\ txn'[i].oldServers = gone /\ txn'[i].updated = txn[i].updated
    BY <1>1, <1>2, DeleteServerFacts
  <1>5. \A j \in Others(i) : txn'[j] = txn[j]
    BY <1>1, <1>4, WithinOthers
  <1>6. Apart(i)'
    BY <1>3, <1>4, <1>5, ApartAll DEF Apart
  <1>7. Patient(i)'
    BY <1>1, <1>4 DEF Patient
  <1>8. txn'[i].key = txn[i].key /\ txn'[i].oldLinks = txn[i].oldLinks
    BY <1>4 DEF Keeps, SameWho, KeepsLinks, SameLinks
  <1>9. QED BY <1>1, <1>4, <1>6, <1>7, <1>8, WithinWait DEF WaitInv, OneHasUnlinked, Removing

LEMMA CheckReferencesWait ==
  ASSUME IInv, WaitInv, NEW i \in Instances, CheckReferences(i)
  PROVE  WaitInv'
  <1>1. TxnType /\ UNCHANGED tables /\ txn[i].step = "check" /\ Patient(i)
    BY PatientAll DEF IInv, CheckReferences
  <1>2. CASE txn' = [txn EXCEPT ![i] = Closed]
    BY <1>1, <1>2, CloseFacts, ClosesWait
  <1>3. CASE Goto(i, "commit")
    <2>1. /\ Within(i) /\ Keeps(i) /\ txn'[i].step = "commit"
          /\ txn'[i].updated = txn[i].updated /\ txn'[i].oldServers = txn[i].oldServers
      BY <1>1, <1>3, StepFacts DEF Steps, KeepsServers, SameServers
    <2>2. ~ txn[i].connecting
      BY <1>1 DEF IInv, Shape, ShapeOf, Linking
    <2>3. QED BY <1>1, <2>1, <2>2, SameUpdatesWait DEF Patient, Keeps, SameWho, Removing
  <1>4. QED BY <1>2, <1>3 DEF CheckReferences

LEMMA CommitWait == ASSUME IInv, WaitInv, NEW i \in Instances, Commit(i) PROVE WaitInv'
  <1>1. /\ \A j \in Others(i) : txn'[j] = txn[j]
        /\ txn'[i].step = "none" /\ ~ txn'[i].connecting
        /\ servers' = (servers \ txn[i].oldServers) \cup txn[i].newServers
        /\ links' = (links \ txn[i].oldLinks) \cup txn[i].newLinks
    BY CommitFacts
  <1>2. txn'[i].updated = {} /\ txn'[i].oldServers = {}
    BY ClosedFacts DEF Commit, IInv, TxnType
  <1>3. ASSUME NEW j \in Others(i) PROVE Patient(j)'
    <2>1. j \in Instances /\ Patient(j) /\ txn'[j] = txn[j] /\ MyLink(j)' = MyLink(j)
      BY <1>1, PatientAll DEF Others, MyLink
    <2>2. txn[j].step = "link" => MyLink(j) \notin links'
      BY <1>1, <2>1, NobodyElsesLink DEF Patient
    <2>3. txn[j].connecting /\ txn[j].step \in Linking =>
            \A s \in txn[i].newServers : s.id # txn[j].found
      BY DEF IInv, KeysInv, FoundIsMine, Others
    <2>4. QED BY <1>1, <2>1, <2>2, <2>3 DEF Patient, Linking
  <1>4. Patient(i)'
    BY <1>1, <1>2 DEF Patient
  <1>5. UpdatedByConnecting' /\ FoundIsUpdated' /\ LinkIsNew'
    BY <1>3, <1>4 DEF Patient, UpdatedByConnecting, FoundIsUpdated, LinkIsNew, Others
  <1>6. UpdatedOnce' /\ UpdatedStays'
    BY <1>1, <1>2 DEF WaitInv, UpdatedOnce, UpdatedStays, Others
  <1>7. OneHasUnlinked'
    BY <1>1 DEF WaitInv, OneHasUnlinked, Removing, Others
  <1>8. QED BY <1>5, <1>6, <1>7 DEF WaitInv

LEMMA BeginUpdates ==
  ASSUME TxnType, NEW i \in Instances, NEW step \in Steps, NEW connecting \in BOOLEAN,
         NEW u \in Users, NEW k \in Keys, Begin(i, step, connecting, u, k)
  PROVE  /\ UNCHANGED tables /\ txn'[i].step = step
         /\ txn'[i].updated = {} /\ txn'[i].oldServers = {}
         /\ \A j \in Others(i) :
              /\ SameServers(txn'[j], txn[j]) /\ SameLinks(txn'[j], txn[j])
              /\ txn'[j].step = txn[j].step /\ txn'[j].connecting = txn[j].connecting
              /\ txn'[j].user = txn[j].user /\ txn'[j].key = txn[j].key
              /\ txn'[j].found = txn[j].found /\ txn'[j].updated = txn[j].updated
  <1>1. /\ txn'[i].step = step /\ UNCHANGED tables
        /\ txn'[i].updated = {} /\ txn'[i].oldServers = {}
    BY DEF Begin, Fresh
  <1>2. ASSUME NEW j \in Others(i)
        PROVE  /\ SameServers(txn'[j], txn[j]) /\ SameLinks(txn'[j], txn[j])
               /\ txn'[j].step = txn[j].step /\ txn'[j].connecting = txn[j].connecting
               /\ txn'[j].user = txn[j].user /\ txn'[j].key = txn[j].key
               /\ txn'[j].found = txn[j].found /\ txn'[j].updated = txn[j].updated
    <2>1. PICK t, v : t = txn[j] /\ v = txn'[j]
      OBVIOUS
    <2>2. t \in Txn /\ v = [t EXCEPT !.alone = FALSE]
      BY <2>1 DEF TxnType, Others, Begin
    <2>3. QED BY <2>1, <2>2, NotAlone
  <1>3. QED BY <1>1, <1>2

LEMMA BeginWait ==
  ASSUME IInv, WaitInv, NEW i \in Instances, NEW u \in Users, NEW k \in Keys,
         NEW step \in {"key", "unlink"}, NEW connecting \in BOOLEAN,
         Begin(i, step, connecting, u, k)
  PROVE  WaitInv'
  <1>1. step \in Steps /\ TxnType
    BY DEF Steps, IInv
  <1>2. /\ UNCHANGED tables /\ txn'[i].step = step
        /\ \A j \in Others(i) :
             /\ SameServers(txn'[j], txn[j]) /\ SameLinks(txn'[j], txn[j])
             /\ txn'[j].step = txn[j].step /\ txn'[j].connecting = txn[j].connecting
             /\ txn'[j].user = txn[j].user /\ txn'[j].key = txn[j].key
             /\ txn'[j].found = txn[j].found
    BY <1>1, BeginUpdates
  <1>3. /\ txn'[i].updated = {} /\ txn'[i].oldServers = {}
        /\ \A j \in Others(i) : txn'[j].updated = txn[j].updated
    BY <1>1, BeginUpdates
  <1>4. \A j \in Others(i) : Patient(j)'
    <2>1. \A j \in Others(i) : MyLink(j)' = MyLink(j)
      BY <1>2 DEF MyLink
    <2>2. QED BY <1>2, <1>3, <2>1, PatientAll DEF Patient, SameServers, tables, Others
  <1>5. Patient(i)'
    BY <1>2, <1>3 DEF Patient
  <1>6. UpdatedByConnecting' /\ FoundIsUpdated' /\ LinkIsNew'
    BY <1>4, <1>5 DEF Patient, UpdatedByConnecting, FoundIsUpdated, LinkIsNew, Others
  <1>7. UpdatedOnce' /\ UpdatedStays'
    BY <1>2, <1>3 DEF WaitInv, UpdatedOnce, UpdatedStays, SameServers, Others
  <1>8. OneHasUnlinked'
    BY <1>2 DEF WaitInv, OneHasUnlinked, Removing, SameLinks, Others
  <1>9. QED BY <1>6, <1>7, <1>8 DEF WaitInv

LEMMA SameRowsWait ==
  ASSUME WaitInv, UNCHANGED <<servers, links, txn>>
  PROVE  WaitInv'
  BY DEF WaitInv, UpdatedByConnecting, UpdatedOnce, UpdatedStays, FoundIsUpdated, LinkIsNew,
         OneHasUnlinked, Removing, MyLink, Others

LEMMA StatementWait ==
  ASSUME IInv, WaitInv, NEW i \in Instances, Statement(i) \/ Rollback(i)
  PROVE  WaitInv'
  <1>1. CASE Rollback(i)
    BY <1>1, CloseFacts, ClosesWait DEF Rollback, IInv
  <1>2. CASE Statement(i)
    BY <1>2, CheckKeyWait, FindServerWait, InsertServerWait, UpdateServerWait, LinkExistsWait,
       InsertLinkWait, UnlinkWait, CountUsersWait, DeleteServerWait, CheckReferencesWait,
       CommitWait DEF Statement
  <1>3. QED BY <1>1, <1>2

LEMMA InitWait == Init => WaitInv
  <1>1. Init => \A i \in Instances : txn[i] = Closed
    BY DEF Init
  <1>2. QED
    BY <1>1, ClosedFacts
       DEF WaitInv, UpdatedByConnecting, UpdatedOnce, UpdatedStays, FoundIsUpdated, LinkIsNew,
           OneHasUnlinked, Removing

LEMMA NextWait == IInv /\ WaitInv /\ [Next]_vars => WaitInv'
  <1> SUFFICES ASSUME IInv, WaitInv, [Next]_vars PROVE WaitInv'
    OBVIOUS
  <1>1. ASSUME NEW i \in Instances, NEW u \in Users, NEW k \in Keys,
               Connect(i, u, k) \/ Remove(i, u, k)
        PROVE  WaitInv'
    BY <1>1, BeginWait DEF Connect, Remove
  <1>2. ASSUME NEW i \in Instances, Statement(i) \/ Rollback(i) PROVE WaitInv'
    BY <1>2, StatementWait
  <1>3. ASSUME NEW k \in Keys, RegisterKey(k) \/ UpdateKeyConnection(k) PROVE WaitInv'
    BY <1>3, SameRowsWait DEF RegisterKey, UpdateKeyConnection
  <1>4. CASE UNCHANGED vars
    BY <1>4, SameRowsWait DEF vars, tables
  <1>5. QED BY <1>1, <1>2, <1>3, <1>4 DEF Next

(* In whatever order any number of transactions of connectServerWithName   *)
(* and removeServer lock servers, links and keys, in every circle of them  *)
(* is a removal by a user without a link that has taken the server's row:  *)
(* additions, and removals of links that exist, never deadlock alone.      *)
THEOREM DeadlocksAreLinkless == Spec => []OnlyLinklessRemovalsDeadlock
  BY InitWait, NextWait, WaitsEnd, Invariance, PTL DEF Spec
=============================================================================
