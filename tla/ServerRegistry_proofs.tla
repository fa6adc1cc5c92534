------------------------ MODULE ServerRegistry_proofs ------------------------
(***************************************************************************)
(* Proofs about ServerRegistry, for all users, keys, IDs and numbers of    *)
(* instances: the inductive invariant IInv, the safety and the action      *)
(* properties, and the refinement of Registry.                             *)
(*                                                                         *)
(* The tables are consistent because of what each open transaction has     *)
(* written, what it knows of the tables, and what the locks and unique     *)
(* keys of PostgreSQL keep the others from writing.                        *)
(***************************************************************************)
EXTENDS ServerRegistry, TLAPS

ServerSets == SUBSET Server
LinkSets == SUBSET Link
Txn == [step : Steps, connecting : BOOLEAN, user : Users, key : Keys, found : Ids,
        newServers : ServerSets, oldServers : ServerSets,
        newLinks : LinkSets, oldLinks : LinkSets,
        updated : SUBSET Ids, alone : BOOLEAN]

TxnType == txn \in [Instances -> Txn]

(* What a transaction has written when it is at a statement.               *)
Linking == {"update", "exists", "link", "commit"}

ShapeOf(i) ==
  LET t == txn[i] IN
  /\ t.connecting =>
       /\ t.step \in {"key", "find", "insert"} \cup Linking
       /\ t.oldServers = {} /\ t.oldLinks = {}
  /\ ~ t.connecting =>
       /\ t.step \in {"none", "unlink", "count", "delete", "check", "commit"}
       /\ t.newServers = {} /\ t.newLinks = {}
  /\ \A s \in t.newServers : s.id = t.found /\ s.key = t.key
  /\ t.step \in {"key", "find", "insert", "update"} => t.newServers = {}
  /\ t.step # "commit" => t.newLinks = {}
  /\ t.step \notin {"check", "commit"} => t.oldServers = {}
  /\ t.step \in {"none", "unlink"} => t.oldLinks = {}
  /\ \A l \in t.newLinks : l = MyLink(i)
  /\ \A s \in t.oldServers : s.key = t.key
  /\ \A l \in t.oldLinks : l.user = t.user

Shape == \A i \in Instances : ShapeOf(i)

KeysAreGenerated ==
  \A i \in Instances :
    txn[i].connecting /\ txn[i].step # "key" => txn[i].key \in generated

(* A new row has an ID and a key of its own.                               *)
FreshRows ==
  \A i \in Instances : \A s \in txn[i].newServers :
    /\ \A t \in servers : t.id # s.id /\ t.key # s.key
    /\ \A j \in Others(i) : \A t \in txn[j].newServers : t.id # s.id /\ t.key # s.key

UniqueIds == \A s, t \in servers : s.id = t.id => s = t

(* The ID that a transaction remembers is still that of its key, or of no  *)
(* row at all: it is not given to another key while the transaction lasts. *)
FoundIsMine ==
  \A i \in Instances : txn[i].connecting /\ txn[i].step \in Linking =>
    /\ \A s \in servers : s.id = txn[i].found => s.key = txn[i].key
    /\ \A j \in Others(i) : \A s \in txn[j].newServers : s.id # txn[i].found

(* A deleted row is still there for the others, and deleted once.          *)
DeletedOnce ==
  \A i \in Instances :
    /\ txn[i].oldServers \subseteq servers /\ txn[i].oldLinks \subseteq links
    /\ \A j \in Others(i) : /\ txn[i].oldServers \cap txn[j].oldServers = {}
                            /\ txn[i].oldLinks \cap txn[j].oldLinks = {}

(* A new link refers to a server that nobody else has deleted.             *)
LinkedServerStays ==
  \A i \in Instances : \A l \in txn[i].newLinks :
    \E s \in Servers(i) :
      /\ s.id = l.id
      /\ \A j \in Others(i) : s \notin txn[j].oldServers

(* Nobody links to a server that is being deleted, and whoever is to       *)
(* commit a deletion has unlinked everybody.                               *)
Unlinked(i) ==
  \A s \in txn[i].oldServers : \A l \in links : l.id = s.id => l \in txn[i].oldLinks
DeletedIsUnlinked ==
  \A i \in Instances :
    /\ txn[i].step = "commit" => Unlinked(i)
    /\ \A s \in txn[i].oldServers :
         \A j \in Others(i) : \A l \in txn[j].newLinks : l.id # s.id

UnlinkedIsMine ==
  \A i \in Instances : \A l \in txn[i].oldLinks : \A s \in servers :
    s.id = l.id => s.key = txn[i].key

(* A transaction that is alone finds what it has seen before.              *)
AloneKnows ==
  \A i \in Instances : Open(i) /\ txn[i].alone =>
    /\ \A j \in Others(i) : ~ Open(j)
    /\ txn[i].connecting =>
         /\ txn[i].step \in Linking => \E s \in ServersOf(i) : s.id = txn[i].found
         /\ txn[i].step = "commit" => MyLink(i) \in Links(i)
    /\ txn[i].step = "check" => ServersOf(i) = {}
    /\ ~ txn[i].connecting /\ txn[i].step = "commit" =>
         \A s \in ServersOf(i) : \E l \in Links(i) : l.id = s.id

RowsInv == Consistent /\ UniqueIds /\ FreshRows /\ DeletedOnce
LinksInv == LinkedServerStays /\ DeletedIsUnlinked /\ UnlinkedIsMine
KeysInv == OnlyGeneratedKeys /\ KeysAreGenerated /\ FoundIsMine
IInv == TypeOK /\ TxnType /\ Shape /\ RowsInv /\ LinksInv /\ KeysInv /\ AloneKnows

USE ConstantsAssumption DEF ConstantsAssumption

-----------------------------------------------------------------------------
(* Transactions as records.                                                *)

LEMMA TxnFields ==
  ASSUME NEW t \in Txn
  PROVE  /\ t.step \in Steps /\ t.connecting \in BOOLEAN /\ t.user \in Users
         /\ t.key \in Keys /\ t.found \in Ids /\ t.alone \in BOOLEAN
         /\ t.newServers \in SUBSET Server /\ t.oldServers \in SUBSET Server
         /\ t.newLinks \in SUBSET Link /\ t.oldLinks \in SUBSET Link
         /\ t.updated \in SUBSET Ids
  BY DEF Txn, ServerSets, LinkSets

LEMMA FreshFacts ==
  ASSUME NEW step \in Steps, NEW connecting \in BOOLEAN, NEW u \in Users, NEW k \in Keys,
         NEW alone \in BOOLEAN
  PROVE  LET t == Fresh(step, connecting, u, k, alone) IN
         /\ t \in Txn
         /\ t.step = step /\ t.connecting = connecting /\ t.user = u /\ t.key = k
         /\ t.newServers = {} /\ t.oldServers = {} /\ t.newLinks = {} /\ t.oldLinks = {}
         /\ t.updated = {} /\ t.alone = alone
  BY DEF Fresh, Txn, ServerSets, LinkSets

LEMMA ClosedFacts ==
  /\ Closed \in Txn /\ Closed.step = "none" /\ ~ Closed.connecting
  /\ Closed.newServers = {} /\ Closed.oldServers = {}
  /\ Closed.newLinks = {} /\ Closed.oldLinks = {} /\ Closed.updated = {}
  <1>1. /\ "none" \in Steps /\ FALSE \in BOOLEAN /\ TRUE \in BOOLEAN
        /\ (CHOOSE u \in Users : TRUE) \in Users /\ (CHOOSE k \in Keys : TRUE) \in Keys
    BY DEF Steps
  <1> DEFINE c == Fresh("none", FALSE, CHOOSE u \in Users : TRUE,
                        CHOOSE k \in Keys : TRUE, TRUE)
  <1>2. /\ c \in Txn /\ c.step = "none" /\ c.connecting = FALSE
        /\ c.newServers = {} /\ c.oldServers = {} /\ c.newLinks = {} /\ c.oldLinks = {}
        /\ c.updated = {}
    BY <1>1 DEF Fresh, Txn, ServerSets, LinkSets
  <1>3. QED BY <1>2 DEF Closed

(* The type invariant follows from the type of the transactions.           *)
LEMMA TypeFromTxn ==
  ASSUME TxnType, generated \subseteq Keys, connected \subseteq generated,
         servers \subseteq Server, links \subseteq Link
  PROVE  TypeOK
  <1>1. \A i \in Instances : txn[i] \in Txn
    BY DEF TxnType
  <1>2. QED BY <1>1, TxnFields DEF TypeOK

-----------------------------------------------------------------------------
(* What stays the same in a transaction when one field changes.            *)

SameWho(v, t) ==
  v.user = t.user /\ v.key = t.key /\ v.connecting = t.connecting /\ v.alone = t.alone
SameServers(v, t) == v.newServers = t.newServers /\ v.oldServers = t.oldServers
SameLinks(v, t) == v.newLinks = t.newLinks /\ v.oldLinks = t.oldLinks

LEMMA SetStep ==
  ASSUME NEW t \in Txn, NEW x \in Steps, NEW v, v = [t EXCEPT !.step = x]
  PROVE  /\ v \in Txn /\ v.step = x
         /\ SameWho(v, t) /\ SameServers(v, t) /\ SameLinks(v, t) /\ v.found = t.found
         /\ v.updated = t.updated
  BY DEF Txn, SameWho, SameServers, SameLinks

LEMMA SetFound ==
  ASSUME NEW t \in Txn, NEW x \in Ids, NEW v, v = [t EXCEPT !.found = x]
  PROVE  /\ v \in Txn /\ v.found = x
         /\ SameWho(v, t) /\ SameServers(v, t) /\ SameLinks(v, t) /\ v.step = t.step
         /\ v.updated = t.updated
  BY DEF Txn, SameWho, SameServers, SameLinks

LEMMA SetUpdated ==
  ASSUME NEW t \in Txn, NEW x \in SUBSET Ids, NEW v, v = [t EXCEPT !.updated = x]
  PROVE  /\ v \in Txn /\ v.updated = x
         /\ SameWho(v, t) /\ SameServers(v, t) /\ SameLinks(v, t)
         /\ v.found = t.found /\ v.step = t.step
  BY DEF Txn, SameWho, SameServers, SameLinks

LEMMA SetNewServers ==
  ASSUME NEW t \in Txn, NEW x \in ServerSets, NEW v, v = [t EXCEPT !.newServers = x]
  PROVE  /\ v \in Txn /\ v.newServers = x
         /\ SameWho(v, t) /\ SameLinks(v, t)
         /\ v.found = t.found /\ v.step = t.step /\ v.oldServers = t.oldServers
         /\ v.updated = t.updated
  BY DEF Txn, SameWho, SameServers, SameLinks

LEMMA SetOldServers ==
  ASSUME NEW t \in Txn, NEW x \in ServerSets, NEW v, v = [t EXCEPT !.oldServers = x]
  PROVE  /\ v \in Txn /\ v.oldServers = x
         /\ SameWho(v, t) /\ SameLinks(v, t)
         /\ v.found = t.found /\ v.step = t.step /\ v.newServers = t.newServers
         /\ v.updated = t.updated
  BY DEF Txn, SameWho, SameServers, SameLinks

LEMMA SetNewLinks ==
  ASSUME NEW t \in Txn, NEW x \in LinkSets, NEW v, v = [t EXCEPT !.newLinks = x]
  PROVE  /\ v \in Txn /\ v.newLinks = x
         /\ SameWho(v, t) /\ SameServers(v, t)
         /\ v.found = t.found /\ v.step = t.step /\ v.oldLinks = t.oldLinks
         /\ v.updated = t.updated
  BY DEF Txn, SameWho, SameServers, SameLinks

LEMMA SetOldLinks ==
  ASSUME NEW t \in Txn, NEW x \in LinkSets, NEW v, v = [t EXCEPT !.oldLinks = x]
  PROVE  /\ v \in Txn /\ v.oldLinks = x
         /\ SameWho(v, t) /\ SameServers(v, t)
         /\ v.found = t.found /\ v.step = t.step /\ v.newLinks = t.newLinks
         /\ v.updated = t.updated
  BY DEF Txn, SameWho, SameServers, SameLinks

LEMMA NotAlone ==
  ASSUME NEW t \in Txn, NEW v, v = [t EXCEPT !.alone = FALSE]
  PROVE  /\ v \in Txn /\ ~ v.alone /\ SameServers(v, t) /\ SameLinks(v, t)
         /\ v.step = t.step /\ v.connecting = t.connecting
         /\ v.user = t.user /\ v.key = t.key /\ v.found = t.found
         /\ v.updated = t.updated
  BY DEF Txn, SameServers, SameLinks

-----------------------------------------------------------------------------
(* The steps of one transaction, by what they write.                       *)

(* Nothing outside the transaction is written.                             *)
Within(i) ==
  /\ UNCHANGED tables
  /\ txn'[i] \in Txn
  /\ txn' = [txn EXCEPT ![i] = txn'[i]]

Closes(i) == Within(i) /\ txn'[i] = Closed

Keeps(i) == SameWho(txn'[i], txn[i])
KeepsServers(i) == SameServers(txn'[i], txn[i])
KeepsLinks(i) == SameLinks(txn'[i], txn[i])

LEMMA WithinOthers ==
  ASSUME TxnType, NEW i \in Instances, Within(i)
  PROVE  /\ \A j \in Others(i) : txn'[j] = txn[j]
         /\ TxnType'
  BY DEF TxnType, Within, Others

LEMMA StepFacts ==
  ASSUME TxnType, NEW i \in Instances, NEW step \in Steps, Goto(i, step), UNCHANGED tables
  PROVE  /\ Within(i) /\ Keeps(i) /\ KeepsServers(i) /\ KeepsLinks(i)
         /\ txn'[i].step = step /\ txn'[i].found = txn[i].found
         /\ txn'[i].updated = txn[i].updated
  <1>1. txn[i] \in Txn /\ txn'[i] = [txn[i] EXCEPT !.step = step]
    BY DEF TxnType, Goto
  <1>2. txn' = [txn EXCEPT ![i] = txn'[i]]
    BY DEF TxnType, Goto
  <1>3. QED BY <1>1, <1>2, SetStep DEF Within, Keeps, KeepsServers, KeepsLinks

LEMMA CloseFacts ==
  ASSUME TxnType, NEW i \in Instances, txn' = [txn EXCEPT ![i] = Closed], UNCHANGED tables
  PROVE  Closes(i)
  BY ClosedFacts DEF TxnType, Closes, Within

LEMMA FindServerFacts ==
  ASSUME TxnType, NEW i \in Instances, NEW s \in Server, UNCHANGED tables,
         txn' = [txn EXCEPT ![i].step = "update", ![i].found = s.id]
  PROVE  /\ Within(i) /\ Keeps(i)
         /\ txn'[i].step = "update" /\ txn'[i].found = s.id
         /\ KeepsServers(i) /\ KeepsLinks(i)
         /\ txn'[i].updated = txn[i].updated
  <1> DEFINE u == [txn[i] EXCEPT !.step = "update"]
  <1>1. txn[i] \in Txn /\ txn'[i] = [u EXCEPT !.found = s.id]
    BY DEF TxnType
  <1>2. txn' = [txn EXCEPT ![i] = txn'[i]]
    BY DEF TxnType
  <1>3. "update" \in Steps /\ s.id \in Ids
    BY <1>1, TxnFields DEF Steps, Server
  <1>4. /\ u \in Txn /\ SameWho(u, txn[i]) /\ SameServers(u, txn[i]) /\ SameLinks(u, txn[i])
        /\ u.step = "update" /\ u.found = txn[i].found /\ u.updated = txn[i].updated
    BY <1>1, <1>3, SetStep
  <1> HIDE DEF u
  <1>5. QED
    BY <1>1, <1>2, <1>3, <1>4, SetFound
       DEF Within, Keeps, KeepsServers, KeepsLinks, SameWho, SameServers, SameLinks

LEMMA UpdateServerFacts ==
  ASSUME TxnType, NEW i \in Instances, NEW ids \in SUBSET Ids, UNCHANGED tables,
         txn' = [txn EXCEPT ![i].step = "exists", ![i].updated = ids]
  PROVE  /\ Within(i) /\ Keeps(i)
         /\ txn'[i].step = "exists" /\ txn'[i].updated = ids
         /\ KeepsServers(i) /\ KeepsLinks(i) /\ txn'[i].found = txn[i].found
  <1> DEFINE u == [txn[i] EXCEPT !.step = "exists"]
  <1>1. txn[i] \in Txn /\ txn'[i] = [u EXCEPT !.updated = ids]
    BY DEF TxnType
  <1>2. txn' = [txn EXCEPT ![i] = txn'[i]]
    BY DEF TxnType
  <1>3. "exists" \in Steps /\ ids \in SUBSET Ids
    BY <1>1, TxnFields DEF Steps
  <1>4. /\ u \in Txn /\ SameWho(u, txn[i]) /\ SameServers(u, txn[i]) /\ SameLinks(u, txn[i])
        /\ u.step = "exists" /\ u.found = txn[i].found
    BY <1>1, <1>3, SetStep
  <1> HIDE DEF u
  <1>5. QED
    BY <1>1, <1>2, <1>3, <1>4, SetUpdated
       DEF Within, Keeps, KeepsServers, KeepsLinks, SameWho, SameServers, SameLinks

LEMMA InsertLinkFacts ==
  ASSUME TxnType, NEW i \in Instances, UNCHANGED tables,
         txn' = [txn EXCEPT ![i].step = "commit", ![i].newLinks = {MyLink(i)}]
  PROVE  /\ Within(i) /\ Keeps(i)
         /\ txn'[i].step = "commit" /\ txn'[i].newLinks = {MyLink(i)}
         /\ KeepsServers(i)
         /\ txn'[i].found = txn[i].found /\ txn'[i].oldLinks = txn[i].oldLinks
         /\ txn'[i].updated = txn[i].updated
  <1>1. PICK t, u, v, l : /\ t = txn[i] /\ v = txn'[i] /\ l = {MyLink(i)}
                          /\ u = [t EXCEPT !.step = "commit"]
    OBVIOUS
  <1>2. t \in Txn /\ v = [u EXCEPT !.newLinks = l]
    BY <1>1 DEF TxnType
  <1>3. "commit" \in Steps /\ l \in LinkSets
    BY <1>1, <1>2, TxnFields DEF Steps, Link, LinkSets, MyLink
  <1>4. /\ u \in Txn /\ SameWho(u, t) /\ SameServers(u, t) /\ SameLinks(u, t)
        /\ u.step = "commit" /\ u.found = t.found /\ u.updated = t.updated
    BY <1>1, <1>2, <1>3, SetStep
  <1>5. /\ v \in Txn /\ v.newLinks = l
        /\ SameWho(v, u) /\ SameServers(v, u) /\ v.oldLinks = u.oldLinks
        /\ v.step = u.step /\ v.found = u.found /\ v.updated = u.updated
    BY <1>2, <1>3, <1>4, SetNewLinks
  <1>6. txn' = [txn EXCEPT ![i] = txn'[i]]
    BY DEF TxnType
  <1>7. QED
    BY <1>1, <1>4, <1>5, <1>6
       DEF Within, Keeps, KeepsServers, SameWho, SameServers, SameLinks

LEMMA UnlinkFacts ==
  ASSUME TxnType, NEW i \in Instances, NEW mine \in LinkSets, UNCHANGED tables,
         txn' = [txn EXCEPT ![i].step = "count", ![i].oldLinks = mine]
  PROVE  /\ Within(i) /\ Keeps(i)
         /\ txn'[i].step = "count" /\ txn'[i].oldLinks = mine
         /\ KeepsServers(i)
         /\ txn'[i].found = txn[i].found /\ txn'[i].newLinks = txn[i].newLinks
         /\ txn'[i].updated = txn[i].updated
  <1> DEFINE u == [txn[i] EXCEPT !.step = "count"]
  <1>1. txn[i] \in Txn /\ txn'[i] = [u EXCEPT !.oldLinks = mine]
    BY DEF TxnType
  <1>2. txn' = [txn EXCEPT ![i] = txn'[i]]
    BY DEF TxnType
  <1>3. "count" \in Steps /\ mine \in LinkSets
    BY <1>1, TxnFields DEF Steps
  <1>4. /\ u \in Txn /\ SameWho(u, txn[i]) /\ SameServers(u, txn[i]) /\ SameLinks(u, txn[i])
        /\ u.step = "count" /\ u.found = txn[i].found /\ u.updated = txn[i].updated
    BY <1>1, <1>3, SetStep
  <1> HIDE DEF u
  <1>5. QED
    BY <1>1, <1>2, <1>3, <1>4, SetOldLinks
       DEF Within, Keeps, KeepsServers, KeepsLinks, SameWho, SameServers, SameLinks

LEMMA DeleteServerFacts ==
  ASSUME TxnType, NEW i \in Instances, NEW gone \in ServerSets, UNCHANGED tables,
         txn' = [txn EXCEPT ![i].step = "check", ![i].oldServers = gone]
  PROVE  /\ Within(i) /\ Keeps(i)
         /\ txn'[i].step = "check" /\ txn'[i].oldServers = gone
         /\ KeepsLinks(i) /\ txn'[i].found = txn[i].found
         /\ txn'[i].newServers = txn[i].newServers
         /\ txn'[i].updated = txn[i].updated
  <1>1. PICK t, u, v : t = txn[i] /\ v = txn'[i] /\ u = [t EXCEPT !.step = "check"]
    OBVIOUS
  <1>2. t \in Txn /\ v = [u EXCEPT !.oldServers = gone]
    BY <1>1 DEF TxnType
  <1>3. "check" \in Steps
    BY DEF Steps
  <1>4. /\ u \in Txn /\ SameWho(u, t) /\ SameServers(u, t) /\ SameLinks(u, t)
        /\ u.step = "check" /\ u.found = t.found /\ u.updated = t.updated
    BY <1>1, <1>2, <1>3, SetStep
  <1>5. /\ v \in Txn /\ v.oldServers = gone
        /\ SameWho(v, u) /\ SameLinks(v, u) /\ v.newServers = u.newServers
        /\ v.step = u.step /\ v.found = u.found /\ v.updated = u.updated
    BY <1>2, <1>4, SetOldServers
  <1>6. txn' = [txn EXCEPT ![i] = txn'[i]]
    BY DEF TxnType
  <1>7. QED
    BY <1>1, <1>4, <1>5, <1>6
       DEF Within, Keeps, KeepsLinks, SameWho, SameServers, SameLinks

LEMMA InsertServerFacts ==
  ASSUME TxnType, NEW i \in Instances, NEW id \in Ids, UNCHANGED tables,
         txn' = [txn EXCEPT ![i].step = "exists", ![i].found = id,
                            ![i].newServers = {[id |-> id, key |-> txn[i].key]}]
  PROVE  /\ Within(i) /\ Keeps(i) /\ KeepsLinks(i)
         /\ txn'[i].step = "exists" /\ txn'[i].found = id
         /\ txn'[i].newServers = {[id |-> id, key |-> txn[i].key]}
         /\ txn'[i].oldServers = txn[i].oldServers
         /\ txn'[i].updated = txn[i].updated
  <1>1. PICK t, u, v, w, rows :
          /\ t = txn[i] /\ w = txn'[i] /\ rows = {[id |-> id, key |-> t.key]}
          /\ u = [t EXCEPT !.step = "exists"] /\ v = [u EXCEPT !.found = id]
    OBVIOUS
  <1>2. t \in Txn /\ w = [v EXCEPT !.newServers = rows]
    BY <1>1 DEF TxnType
  <1>3. "exists" \in Steps /\ rows \in ServerSets
    BY <1>1, <1>2, TxnFields DEF Server, ServerSets, Steps
  <1>4. /\ u \in Txn /\ SameWho(u, t) /\ SameServers(u, t) /\ SameLinks(u, t)
        /\ u.step = "exists" /\ u.updated = t.updated
    BY <1>1, <1>2, <1>3, SetStep
  <1>5. v = [u EXCEPT !.found = id]
    BY <1>1
  <1>6. /\ v \in Txn /\ SameWho(v, u) /\ SameServers(v, u) /\ SameLinks(v, u)
        /\ v.step = "exists" /\ v.found = id /\ v.updated = u.updated
    BY <1>4, <1>5, SetFound
  <1>7. /\ w \in Txn /\ w.newServers = rows /\ SameWho(w, v) /\ SameLinks(w, v)
        /\ w.found = v.found /\ w.step = v.step /\ w.oldServers = v.oldServers
        /\ w.updated = v.updated
    BY <1>2, <1>3, <1>6, SetNewServers
  <1>8. txn' = [txn EXCEPT ![i] = txn'[i]]
    BY DEF TxnType
  <1>9. txn'[i].updated = txn[i].updated
    BY <1>1, <1>4, <1>6, <1>7
  <1>10. QED
    BY <1>1, <1>4, <1>6, <1>7, <1>8, <1>9
       DEF Within, Keeps, KeepsLinks, SameWho, SameServers, SameLinks

LEMMA BeginFacts ==
  ASSUME TxnType, NEW i \in Instances, NEW step \in Steps, NEW connecting \in BOOLEAN,
         NEW u \in Users, NEW k \in Keys, Begin(i, step, connecting, u, k)
  PROVE  /\ UNCHANGED tables /\ TxnType' /\ ~ Open(i)
         /\ txn'[i].step = step /\ txn'[i].connecting = connecting
         /\ txn'[i].user = u /\ txn'[i].key = k
         /\ txn'[i].newServers = {} /\ txn'[i].oldServers = {}
         /\ txn'[i].newLinks = {} /\ txn'[i].oldLinks = {}
         /\ txn'[i].alone = (\A j \in Others(i) : ~ Open(j))
         /\ \A j \in Others(i) :
              /\ SameServers(txn'[j], txn[j]) /\ SameLinks(txn'[j], txn[j])
              /\ txn'[j].step = txn[j].step /\ txn'[j].connecting = txn[j].connecting
              /\ txn'[j].user = txn[j].user /\ txn'[j].key = txn[j].key
              /\ txn'[j].found = txn[j].found /\ ~ txn'[j].alone
  <1>1. PICK alone \in BOOLEAN : alone = (\A j \in Others(i) : ~ Open(j))
    OBVIOUS
  <1>2. /\ txn'[i] = Fresh(step, connecting, u, k, alone)
        /\ \A j \in Others(i) : txn'[j] = [txn[j] EXCEPT !.alone = FALSE]
        /\ txn' = [j \in Instances |-> txn'[j]]
        /\ UNCHANGED tables /\ ~ Open(i)
    BY <1>1 DEF Begin, Others
  <1>3. /\ txn'[i] \in Txn
        /\ txn'[i].step = step /\ txn'[i].connecting = connecting
        /\ txn'[i].user = u /\ txn'[i].key = k
        /\ txn'[i].newServers = {} /\ txn'[i].oldServers = {}
        /\ txn'[i].newLinks = {} /\ txn'[i].oldLinks = {} /\ txn'[i].alone = alone
    BY <1>2, FreshFacts
  <1>4. ASSUME NEW j \in Others(i)
        PROVE  /\ txn'[j] \in Txn /\ ~ txn'[j].alone
               /\ SameServers(txn'[j], txn[j]) /\ SameLinks(txn'[j], txn[j])
               /\ txn'[j].step = txn[j].step /\ txn'[j].connecting = txn[j].connecting
               /\ txn'[j].user = txn[j].user /\ txn'[j].key = txn[j].key
               /\ txn'[j].found = txn[j].found
    <2>1. PICK t, v : t = txn[j] /\ v = txn'[j]
      OBVIOUS
    <2>2. t \in Txn /\ v = [t EXCEPT !.alone = FALSE]
      BY <1>2, <2>1 DEF TxnType, Others
    <2>3. QED BY <2>1, <2>2, NotAlone
  <1>5. TxnType'
    BY <1>2, <1>3, <1>4 DEF TxnType, Others
  <1>6. QED BY <1>1, <1>2, <1>3, <1>4, <1>5

-----------------------------------------------------------------------------
(* Steps that write nothing: reads, decisions, the end of a transaction.   *)

WritesNothing(i) ==
  /\ Within(i)
  /\ Closes(i) \/ (Keeps(i) /\ KeepsServers(i) /\ KeepsLinks(i))

LEMMA WritesNothingFacts ==
  ASSUME IInv, NEW i \in Instances, WritesNothing(i)
  PROVE  /\ UNCHANGED tables /\ TypeOK' /\ TxnType'
         /\ \A j \in Others(i) : txn'[j] = txn[j]
         /\ \A j \in Instances :
              /\ txn'[j].newServers \subseteq txn[j].newServers
              /\ txn'[j].oldServers \subseteq txn[j].oldServers
              /\ txn'[j].newLinks \subseteq txn[j].newLinks
              /\ \/ txn'[j].oldServers = {} /\ txn'[j].oldLinks = {}
                 \/ txn'[j].oldServers = txn[j].oldServers /\ txn'[j].oldLinks = txn[j].oldLinks
              /\ txn'[j].newLinks # {} => txn'[j].newServers = txn[j].newServers
              /\ txn'[j].oldLinks # {} => txn'[j].key = txn[j].key
  <1>1. /\ UNCHANGED tables /\ TxnType'
        /\ \A j \in Others(i) : txn'[j] = txn[j]
    BY WithinOthers DEF WritesNothing, Within, IInv
  <1>2. TypeOK'
    <2>1. (TxnType /\ generated \subseteq Keys /\ connected \subseteq generated
             /\ servers \subseteq Server /\ links \subseteq Link)'
      BY <1>1 DEF IInv, TypeOK, tables
    <2>2. QED BY <2>1, TypeFromTxn, PTL
  <1>3. QED
    BY <1>1, <1>2, ClosedFacts
       DEF WritesNothing, Closes, KeepsServers, KeepsLinks, Keeps, SameServers, SameLinks,
           SameWho, Others

LEMMA WritesNothingInv ==
  ASSUME IInv, NEW i \in Instances, WritesNothing(i),
         txn'[i].step = "commit" => Unlinked(i)
  PROVE  TypeOK' /\ TxnType' /\ RowsInv' /\ LinksInv' /\ OnlyGeneratedKeys'
  <1>1. TypeOK' /\ TxnType'
    BY WritesNothingFacts
  <1> USE DEF IInv, tables, Others
  <1>2. Consistent' /\ UniqueIds' /\ OnlyGeneratedKeys'
    BY WritesNothingFacts DEF RowsInv, KeysInv, Consistent, UniqueIds, OnlyGeneratedKeys
  <1>3. FreshRows'
    BY WritesNothingFacts DEF RowsInv, FreshRows
  <1>4. DeletedOnce'
    BY WritesNothingFacts DEF RowsInv, DeletedOnce
  <1>5. LinkedServerStays'
    BY WritesNothingFacts DEF LinksInv, LinkedServerStays, Servers
  <1>6. DeletedIsUnlinked'
    BY WritesNothingFacts DEF LinksInv, DeletedIsUnlinked, Unlinked
  <1>7. UnlinkedIsMine'
    BY WritesNothingFacts DEF LinksInv, UnlinkedIsMine
  <1>8. QED BY <1>1, <1>2, <1>3, <1>4, <1>5, <1>6, <1>7 DEF RowsInv, LinksInv

(* Beside an open transaction no other is alone.                           *)
LEMMA NobodyElseIsAlone ==
  ASSUME IInv, NEW i \in Instances, Open(i), NEW j \in Others(i), Open(j)
  PROVE  ~ txn[j].alone
  BY DEF IInv, AloneKnows, Others

LEMMA NobodyIsBeside ==
  ASSUME IInv, NEW i \in Instances, Open(i), txn[i].alone, NEW j \in Others(i)
  PROVE  ~ Open(j)
  BY DEF IInv, AloneKnows

LEMMA AloneFinds ==
  ASSUME IInv, NEW i \in Instances, txn[i].alone, txn[i].connecting, txn[i].step \in Linking
  PROVE  \E s \in ServersOf(i) : s.id = txn[i].found
  <1>1. Open(i)
    BY DEF Open, Linking
  <1>2. QED BY <1>1 DEF IInv, AloneKnows

LEMMA ClosesInv == ASSUME IInv, NEW i \in Instances, Open(i), Closes(i) PROVE IInv'
  <1>1. WritesNothing(i)
    BY DEF Closes, WritesNothing
  <1>2. /\ txn'[i].step = "none" /\ ~ txn'[i].connecting
        /\ txn'[i].newServers = {} /\ txn'[i].oldServers = {}
        /\ txn'[i].newLinks = {} /\ txn'[i].oldLinks = {}
    BY ClosedFacts DEF Closes
  <1>3. UNCHANGED tables /\ \A j \in Others(i) : txn'[j] = txn[j]
    BY <1>1, WritesNothingFacts
  <1> USE DEF IInv, tables, Others
  <1>4. Shape'
    BY <1>2, <1>3 DEF Shape, ShapeOf, MyLink
  <1>5. KeysAreGenerated'
    BY <1>2, <1>3 DEF KeysInv, KeysAreGenerated
  <1>6. FoundIsMine'
    BY <1>2, <1>3 DEF KeysInv, FoundIsMine
  <1>7. AloneKnows'
    BY <1>2, <1>3, NobodyElseIsAlone DEF AloneKnows, Open
  <1>8. QED BY <1>1, <1>2, <1>4, <1>5, <1>6, <1>7, WritesNothingInv DEF KeysInv

(* A statement that reads, and one that changes the name of the server:    *)
(* the transaction goes on, knowing more.                                  *)
Reads(i) == Within(i) /\ Keeps(i) /\ KeepsServers(i) /\ KeepsLinks(i)

LEMMA ReadsInv ==
  ASSUME IInv, NEW i \in Instances, Open(i), Reads(i),
         (* the statement is followed by one of its own kind of transaction *)
         txn[i].connecting => txn'[i].step \in {"find", "insert"} \cup Linking,
         ~ txn[i].connecting => txn'[i].step \in {"count", "delete", "commit"},
         txn'[i].step \in {"find", "insert", "update"} => txn[i].newServers = {},
         txn[i].step \notin {"check", "commit"},
         (* the key was looked up *)
         txn[i].connecting => txn[i].key \in generated,
         (* the server is the one it was, or was found just now *)
         txn'[i].step \in Linking /\ txn[i].connecting =>
           \/ txn[i].step \in Linking /\ txn'[i].found = txn[i].found
           \/ txn[i].newServers = {} /\ \E s \in ServersOf(i) : s.id = txn'[i].found,
         (* what a commit will have to show *)
         txn'[i].step = "commit" /\ txn[i].connecting => MyLink(i)' \in Links(i),
         txn'[i].step = "commit" /\ ~ txn[i].connecting => LinksOf(i) # {}
  PROVE  IInv'
  <1>1. WritesNothing(i)
    BY DEF Reads, WritesNothing
  <1>2. UNCHANGED tables /\ \A j \in Others(i) : txn'[j] = txn[j]
    BY <1>1, WritesNothingFacts
  <1>3. /\ txn'[i].user = txn[i].user /\ txn'[i].key = txn[i].key
        /\ txn'[i].connecting = txn[i].connecting /\ txn'[i].alone = txn[i].alone
        /\ txn'[i].newServers = txn[i].newServers /\ txn'[i].oldServers = txn[i].oldServers
        /\ txn'[i].newLinks = txn[i].newLinks /\ txn'[i].oldLinks = txn[i].oldLinks
    BY DEF Reads, Keeps, KeepsServers, KeepsLinks, SameWho, SameServers, SameLinks
  <1>4. txn[i].newLinks = {} /\ txn[i].oldServers = {}
    BY DEF IInv, Shape, ShapeOf
  <1> USE DEF IInv, tables, Others
  <1>5. Shape'
    BY <1>2, <1>3, <1>4 DEF Shape, ShapeOf, MyLink, Linking
  <1>6. KeysAreGenerated'
    BY <1>2, <1>3 DEF KeysInv, KeysAreGenerated
  <1>7. FoundIsMine'
    BY <1>2, <1>3 DEF KeysInv, FoundIsMine, RowsInv, UniqueIds, FreshRows, ServersOf, Servers
  <1>8. AloneKnows'
    <2>1. txn'[i].step # "check"
      BY DEF Linking
    <2>2. QED BY <1>2, <1>3, <1>4, <2>1, NobodyElseIsAlone
         DEF AloneKnows, Open, ServersOf, Servers, LinksOf, Links, RowsInv, Consistent,
             Shape, ShapeOf
  <1>9. Unlinked(i)
    BY <1>4 DEF Unlinked
  <1>10. QED BY <1>1, <1>5, <1>6, <1>7, <1>8, <1>9, WritesNothingInv DEF KeysInv

LEMMA CheckKeyInv == ASSUME IInv, NEW i \in Instances, CheckKey(i) PROVE IInv'
  <1>1. TxnType /\ Open(i) /\ UNCHANGED tables
    BY DEF IInv, CheckKey, Open
  <1>2. CASE txn[i].key \in generated /\ Goto(i, "find")
    <2>1. /\ Reads(i) /\ txn'[i].step = "find" /\ txn'[i].found = txn[i].found
      BY <1>1, <1>2, StepFacts DEF Reads, Steps
    <2>2. txn[i].step = "key" /\ txn[i].connecting /\ txn[i].newServers = {}
      BY DEF CheckKey, IInv, Shape, ShapeOf
    <2>3. QED BY <1>1, <1>2, <2>1, <2>2, ReadsInv DEF Linking
  <1>3. CASE txn' = [txn EXCEPT ![i] = Closed]
    BY <1>1, <1>3, CloseFacts, ClosesInv
  <1>4. QED BY <1>2, <1>3 DEF CheckKey

LEMMA FindServerInv == ASSUME IInv, NEW i \in Instances, FindServer(i) PROVE IInv'
  <1>1. TxnType /\ Open(i) /\ UNCHANGED tables /\ txn[i].step = "find"
    BY DEF IInv, FindServer, Open
  <1>2. txn[i].connecting /\ txn[i].newServers = {} /\ txn[i].key \in generated
    BY <1>1 DEF IInv, Shape, ShapeOf, KeysInv, KeysAreGenerated, Linking
  <1>3. CASE Goto(i, "insert")
    <2>1. /\ Reads(i) /\ txn'[i].step = "insert" /\ txn'[i].found = txn[i].found
      BY <1>1, <1>3, StepFacts DEF Reads, Steps
    <2>2. QED BY <1>1, <1>2, <2>1, ReadsInv DEF Linking
  <1>4. CASE \E t \in ServersOf(i) :
               txn' = [txn EXCEPT ![i].step = "update", ![i].found = t.id]
    <2>1. PICK t \in ServersOf(i) :
                 txn' = [txn EXCEPT ![i].step = "update", ![i].found = t.id]
      BY <1>4
    <2>2. t \in Server
      BY <1>2 DEF ServersOf, Servers, IInv, TypeOK
    <2>3. /\ Reads(i) /\ txn'[i].step = "update" /\ txn'[i].found = t.id
      BY <1>1, <2>1, <2>2, FindServerFacts DEF Reads
    <2>4. QED BY <1>1, <1>2, <2>1, <2>3, ReadsInv DEF Linking
  <1>5. QED BY <1>3, <1>4 DEF FindServer

LEMMA UpdateServerInv == ASSUME IInv, NEW i \in Instances, UpdateServer(i) PROVE IInv'
  <1>1. TxnType /\ Open(i) /\ UNCHANGED tables /\ txn[i].step = "update"
    BY DEF IInv, UpdateServer, Open
  <1>2. txn[i].connecting /\ txn[i].newServers = {} /\ txn[i].key \in generated
    BY <1>1 DEF IInv, Shape, ShapeOf, KeysInv, KeysAreGenerated, Linking
  <1> DEFINE ids == {s.id : s \in ServersOf(i)}
  <1>3. ids \in SUBSET Ids
    BY <1>2 DEF ServersOf, Servers, IInv, TypeOK, Server
  <1>4. txn' = [txn EXCEPT ![i].step = "exists", ![i].updated = ids]
    BY DEF UpdateServer
  <1> HIDE DEF ids
  <1>5. Reads(i) /\ txn'[i].step = "exists" /\ txn'[i].found = txn[i].found
    BY <1>1, <1>3, <1>4, UpdateServerFacts DEF Reads
  <1>6. QED BY <1>1, <1>2, <1>5, ReadsInv DEF Linking

LEMMA LinkExistsInv == ASSUME IInv, NEW i \in Instances, LinkExists(i) PROVE IInv'
  <1>1. TxnType /\ Open(i) /\ UNCHANGED tables /\ txn[i].step = "exists"
    BY DEF IInv, LinkExists, Open
  <1>2. txn[i].connecting /\ txn[i].key \in generated
    BY <1>1 DEF IInv, Shape, ShapeOf, KeysInv, KeysAreGenerated, Linking
  <1>3. PICK step \in {"commit", "link"} :
          Goto(i, step) /\ (step = "commit" => MyLink(i) \in Links(i))
    BY DEF LinkExists
  <1>4. Reads(i) /\ txn'[i].step = step /\ txn'[i].found = txn[i].found
    BY <1>1, <1>3, StepFacts DEF Reads, Steps
  <1>5. MyLink(i)' = MyLink(i)
    BY <1>4 DEF MyLink, Reads, Keeps, SameWho
  <1>6. QED BY <1>1, <1>2, <1>3, <1>4, <1>5, ReadsInv DEF Linking

LEMMA CountUsersInv == ASSUME IInv, NEW i \in Instances, CountUsers(i) PROVE IInv'
  <1>1. TxnType /\ Open(i) /\ UNCHANGED tables /\ txn[i].step = "count"
    BY DEF IInv, CountUsers, Open
  <1>2. ~ txn[i].connecting
    BY <1>1 DEF IInv, Shape, ShapeOf, Linking
  <1>3. PICK step \in {"commit", "delete"} :
          Goto(i, step) /\ (step = "commit" => LinksOf(i) # {})
    BY DEF CountUsers
  <1>4. Reads(i) /\ txn'[i].step = step
    BY <1>1, <1>3, StepFacts DEF Reads, Steps
  <1>5. QED BY <1>1, <1>2, <1>3, <1>4, ReadsInv DEF Linking

(* Within a transaction everything outside of it stays as it is.           *)
LEMMA WithinTypes ==
  ASSUME IInv, NEW i \in Instances, Within(i)
  PROVE  /\ TypeOK' /\ TxnType' /\ \A j \in Others(i) : txn'[j] = txn[j]
         /\ generated' = generated /\ servers' = servers /\ links' = links
         /\ Consistent' /\ UniqueIds' /\ OnlyGeneratedKeys'
  <1>1. UNCHANGED tables /\ TxnType' /\ \A j \in Others(i) : txn'[j] = txn[j]
    BY WithinOthers DEF Within, IInv
  <1>2. (TxnType /\ generated \subseteq Keys /\ connected \subseteq generated
             /\ servers \subseteq Server /\ links \subseteq Link)'
    BY <1>1 DEF IInv, TypeOK, tables
  <1>3. TypeOK'
    BY <1>2, TypeFromTxn, PTL
  <1>4. Consistent' /\ UniqueIds' /\ OnlyGeneratedKeys'
    BY <1>1 DEF IInv, RowsInv, KeysInv, Consistent, UniqueIds, OnlyGeneratedKeys, tables
  <1>5. QED BY <1>1, <1>3, <1>4 DEF tables

(* What a statement that waits for nobody may rely on.                     *)
LEMMA GrantedFacts ==
  ASSUME NEW i \in Instances, Granted(i), NEW j \in Others(i)
  PROVE  /\ txn[i].step = "insert" => \A s \in txn[j].newServers : s.key # txn[i].key
         /\ txn[i].step = "link" =>
              \A s \in Servers(i) : s.id = txn[i].found => s \notin txn[j].oldServers
         /\ txn[i].step = "unlink" => MyLinks(i) \cap txn[j].oldLinks = {}
         /\ txn[i].step = "delete" =>
              \A s \in ServersOf(i) :
                s \notin txn[j].oldServers /\ \A l \in txn[j].newLinks : l.id # s.id
  BY DEF Granted, WaitsFor, Deleting, Referencing

(* INSERT INTO servers.                                                    *)
LEMMA InsertServerInv == ASSUME IInv, NEW i \in Instances, InsertServer(i) PROVE IInv'
  <1>1. /\ TxnType /\ Open(i) /\ UNCHANGED tables /\ txn[i].step = "insert"
        /\ \A j \in Others(i) : \A s \in txn[j].newServers : s.key # txn[i].key
    BY GrantedFacts DEF IInv, InsertServer, Open
  <1>2. CASE txn' = [txn EXCEPT ![i] = Closed]
    BY <1>1, <1>2, CloseFacts, ClosesInv
  <1>3. CASE /\ ServersOf(i) = {}
             /\ \E id \in Unused :
                  txn' = [txn EXCEPT ![i].step = "exists", ![i].found = id,
                            ![i].newServers = {[id |-> id, key |-> txn[i].key]}]
    <2>1. PICK id \in Unused :
                  txn' = [txn EXCEPT ![i].step = "exists", ![i].found = id,
                            ![i].newServers = {[id |-> id, key |-> txn[i].key]}]
      BY <1>3
    <2>2. /\ id \in Ids
          /\ \A s \in servers : s.id # id
          /\ \A l \in links : l.id # id
          /\ \A j \in Instances : Open(j) => /\ txn[j].found # id
                                             /\ \A s \in txn[j].newServers : s.id # id
      BY DEF Unused
    <2>3. /\ Within(i) /\ Keeps(i) /\ KeepsLinks(i)
          /\ txn'[i].step = "exists" /\ txn'[i].found = id
          /\ txn'[i].newServers = {[id |-> id, key |-> txn[i].key]}
          /\ txn'[i].oldServers = txn[i].oldServers
      BY <1>1, <2>1, <2>2, InsertServerFacts
    <2>4. /\ txn'[i].user = txn[i].user /\ txn'[i].key = txn[i].key
          /\ txn'[i].connecting = txn[i].connecting /\ txn'[i].alone = txn[i].alone
          /\ txn'[i].newLinks = txn[i].newLinks /\ txn'[i].oldLinks = txn[i].oldLinks
      BY <2>3 DEF Keeps, KeepsLinks, SameWho, SameLinks
    <2>5. /\ txn[i].connecting /\ txn[i].key \in generated /\ txn[i].newServers = {}
          /\ txn[i].oldServers = {} /\ txn[i].oldLinks = {} /\ txn[i].newLinks = {}
      BY <1>1 DEF IInv, Shape, ShapeOf, KeysInv, KeysAreGenerated, Linking
    <2>6. /\ TypeOK' /\ TxnType' /\ \A j \in Others(i) : txn'[j] = txn[j]
          /\ generated' = generated /\ servers' = servers /\ links' = links
          /\ Consistent' /\ UniqueIds' /\ OnlyGeneratedKeys'
      BY <2>3, WithinTypes
    <2>7. \A j \in Instances : txn[j].newServers # {} => Open(j)
      BY DEF IInv, Shape, ShapeOf, Open, Linking
    <2>15. PICK row : /\ row.id = id /\ row.key = txn[i].key /\ row \in Server
                      /\ txn'[i].newServers = {row}
      <3> DEFINE row == [id |-> id, key |-> txn[i].key]
      <3>1. txn[i].key \in Keys
        BY <1>1, TxnFields DEF TxnType
      <3>2. row.id = id /\ row.key = txn[i].key /\ row \in Server
        BY <2>2, <3>1 DEF Server
      <3>3. txn'[i].newServers = {row}
        BY <2>3
      <3>4. QED BY <3>2, <3>3
    <2> USE DEF IInv, Others
    <2>8. Shape'
      <3>1. ShapeOf(i)'
        BY <2>3, <2>4, <2>5, <2>15 DEF ShapeOf, Linking
      <3>2. \A j \in Others(i) : ShapeOf(j)'
        BY <2>6 DEF Shape, ShapeOf, MyLink
      <3>3. QED BY <3>1, <3>2 DEF Shape
    <2>9. KeysAreGenerated' /\ DeletedOnce' /\ DeletedIsUnlinked' /\ UnlinkedIsMine'
      BY <2>3, <2>4, <2>5, <2>6
         DEF KeysInv, KeysAreGenerated, RowsInv, DeletedOnce, LinksInv, DeletedIsUnlinked,
             Unlinked, UnlinkedIsMine
    <2>10. FreshRows'
      <3>1. \A t \in servers : t.id # row.id /\ t.key # row.key
        BY <1>3, <2>2, <2>5, <2>15 DEF ServersOf, Servers
      <3>2. \A j \in Others(i) : \A t \in txn[j].newServers : t.id # row.id /\ t.key # row.key
        BY <1>1, <2>2, <2>7, <2>15
      <3>3. QED BY <2>6, <2>15, <3>1, <3>2 DEF RowsInv, FreshRows
    <2>11. FoundIsMine'
      BY <2>2, <2>3, <2>4, <2>6, <2>7, <1>1 DEF KeysInv, FoundIsMine, Open, Linking
    <2>12. LinkedServerStays'
      BY <2>3, <2>4, <2>5, <2>6 DEF LinksInv, LinkedServerStays, Servers
    <2>13. AloneKnows'
      <3>1. \E s \in ServersOf(i)' : s.id = txn'[i].found
        BY <2>3, <2>4, <2>15 DEF ServersOf, Servers
      <3>2. QED
        BY <1>1, <2>3, <2>4, <2>5, <2>6, <3>1, NobodyElseIsAlone DEF AloneKnows, Open,
           ServersOf, Servers, Links, MyLink
    <2>14. QED
      BY <2>6, <2>8, <2>9, <2>10, <2>11, <2>12, <2>13 DEF RowsInv, LinksInv, KeysInv
  <1>4. QED BY <1>2, <1>3 DEF InsertServer

(* INSERT INTO user_servers: the server is there, and nobody deletes it.   *)
LEMMA InsertLinkInv == ASSUME IInv, NEW i \in Instances, InsertLink(i) PROVE IInv'
  <1>1. /\ TxnType /\ Open(i) /\ UNCHANGED tables /\ txn[i].step = "link"
        /\ \A j \in Others(i) : \A s \in Servers(i) :
             s.id = txn[i].found => s \notin txn[j].oldServers
    BY GrantedFacts DEF IInv, InsertLink, Open
  <1>2. CASE txn' = [txn EXCEPT ![i] = Closed]
    BY <1>1, <1>2, CloseFacts, ClosesInv
  <1>3. CASE /\ \E s \in Servers(i) : s.id = txn[i].found
             /\ txn' = [txn EXCEPT ![i].step = "commit", ![i].newLinks = {MyLink(i)}]
    <2>1. /\ Within(i) /\ Keeps(i)
          /\ txn'[i].step = "commit" /\ txn'[i].newLinks = {MyLink(i)}
          /\ KeepsServers(i) /\ txn'[i].found = txn[i].found
          /\ txn'[i].oldLinks = txn[i].oldLinks
      BY <1>1, <1>3, InsertLinkFacts
    <2>2. /\ txn'[i].user = txn[i].user /\ txn'[i].key = txn[i].key
          /\ txn'[i].connecting = txn[i].connecting /\ txn'[i].alone = txn[i].alone
          /\ txn'[i].newServers = txn[i].newServers /\ txn'[i].oldServers = txn[i].oldServers
      BY <2>1 DEF Keeps, KeepsServers, SameWho, SameServers
    <2>3. /\ txn[i].connecting /\ txn[i].oldServers = {} /\ txn[i].oldLinks = {}
      BY <1>1 DEF IInv, Shape, ShapeOf, Linking
    <2>4. /\ TypeOK' /\ TxnType' /\ \A j \in Others(i) : txn'[j] = txn[j]
          /\ generated' = generated /\ servers' = servers /\ links' = links
          /\ Consistent' /\ UniqueIds' /\ OnlyGeneratedKeys'
      BY <2>1, WithinTypes
    <2>5. PICK link : /\ link = MyLink(i) /\ txn'[i].newLinks = {link}
                      /\ link.id = txn[i].found
      <3>1. MyLink(i).id = txn[i].found
        BY DEF MyLink
      <3>2. QED BY <2>1, <3>1
    <2>6. MyLink(i)' = link
      BY <2>1, <2>2, <2>5 DEF MyLink
    <2> USE DEF IInv, Others
    <2>7. Shape'
      <3>1. ShapeOf(i)'
        BY <1>1, <2>1, <2>2, <2>3, <2>5, <2>6 DEF Shape, ShapeOf, Linking
      <3>2. \A j \in Others(i) : ShapeOf(j)'
        BY <2>4 DEF Shape, ShapeOf, MyLink
      <3>3. QED BY <3>1, <3>2 DEF Shape
    <2>8. KeysAreGenerated' /\ FreshRows' /\ DeletedOnce' /\ UnlinkedIsMine'
      BY <1>1, <2>1, <2>2, <2>4
         DEF KeysInv, KeysAreGenerated, RowsInv, FreshRows, DeletedOnce, LinksInv,
             UnlinkedIsMine
    <2>9. FoundIsMine'
      BY <1>1, <2>1, <2>2, <2>4 DEF KeysInv, FoundIsMine, Linking
    <2>10. LinkedServerStays'
      <3>1. PICK s \in Servers(i) : s.id = txn[i].found
        BY <1>3
      <3>2. \A j \in Others(i) : s \notin txn[j].oldServers
        BY <1>1, <3>1
      <3>3. Servers(i)' = Servers(i) /\ \A j \in Others(i) : Servers(j)' = Servers(j)
        BY <2>2, <2>4 DEF Servers
      <3>4. QED
        BY <2>2, <2>4, <2>5, <3>1, <3>2, <3>3 DEF LinksInv, LinkedServerStays
    <2>11. DeletedIsUnlinked'
      <3>1. ASSUME NEW j \in Others(i), NEW s \in txn[j].oldServers PROVE link.id # s.id
        <4>1. s \in Servers(i)
          BY <2>3, <3>1 DEF RowsInv, DeletedOnce, Servers
        <4>2. QED BY <1>1, <2>5, <3>1, <4>1
      <3>2. QED
        BY <2>2, <2>3, <2>4, <2>5, <3>1 DEF LinksInv, DeletedIsUnlinked, Unlinked
    <2>12. AloneKnows'
      <3>1. ServersOf(i)' = ServersOf(i)
        BY <2>2, <2>4 DEF ServersOf, Servers
      <3>2. MyLink(i)' \in Links(i)'
        BY <2>5, <2>6 DEF Links
      <3>3. txn'[i].alone =>
              /\ \A j \in Others(i) : ~ Open(j)'
              /\ \E s \in ServersOf(i)' : s.id = txn'[i].found
        <4>1. ASSUME txn[i].alone
              PROVE  /\ \A j \in Others(i) : ~ Open(j)
                     /\ \E s \in ServersOf(i) : s.id = txn[i].found
          BY <1>1, <2>3, <4>1, NobodyIsBeside, AloneFinds DEF Linking
        <4>2. QED BY <2>1, <2>2, <2>4, <3>1, <4>1 DEF Open
      <3>4. \A j \in Others(i) : Open(j)' => ~ txn'[j].alone
        BY <1>1, <2>4, NobodyElseIsAlone DEF Open
      <3>5. txn'[i].connecting /\ txn'[i].step # "check"
        BY <2>1, <2>2, <2>3
      <3>6. QED BY <3>2, <3>3, <3>4, <3>5 DEF AloneKnows
    <2>13. QED
      BY <2>4, <2>7, <2>8, <2>9, <2>10, <2>11, <2>12 DEF RowsInv, LinksInv, KeysInv
  <1>4. QED BY <1>2, <1>3 DEF InsertLink

(* DELETE FROM user_servers.                                               *)
LEMMA UnlinkInv == ASSUME IInv, NEW i \in Instances, Unlink(i) PROVE IInv'
  <1> DEFINE mine == MyLinks(i)
  <1>1. /\ TxnType /\ Open(i) /\ UNCHANGED tables /\ txn[i].step = "unlink"
        /\ \A j \in Others(i) : mine \cap txn[j].oldLinks = {}
        /\ txn' = [txn EXCEPT ![i].step = "count", ![i].oldLinks = mine]
    BY GrantedFacts DEF IInv, Unlink, Open
  <1>2. /\ ~ txn[i].connecting /\ txn[i].newServers = {} /\ txn[i].newLinks = {}
        /\ txn[i].oldServers = {} /\ txn[i].oldLinks = {}
    BY <1>1 DEF IInv, Shape, ShapeOf, Linking
  <1>3. /\ mine \subseteq links /\ mine \in LinkSets
        /\ \A l \in mine : l.user = txn[i].user
        /\ \A l \in mine : \E s \in servers : s.key = txn[i].key /\ l.id = s.id
    BY <1>2 DEF MyLinks, LinksOf, ServersOf, Links, Servers, IInv, TypeOK, LinkSets
  <1> HIDE DEF mine
  <1>4. /\ Within(i) /\ Keeps(i) /\ KeepsServers(i) /\ txn'[i].found = txn[i].found
        /\ txn'[i].step = "count" /\ txn'[i].oldLinks = mine
        /\ txn'[i].newLinks = txn[i].newLinks
    BY <1>1, <1>3, UnlinkFacts
  <1>5. /\ txn'[i].user = txn[i].user /\ txn'[i].key = txn[i].key
        /\ txn'[i].connecting = txn[i].connecting /\ txn'[i].alone = txn[i].alone
        /\ txn'[i].newServers = txn[i].newServers /\ txn'[i].oldServers = txn[i].oldServers
    BY <1>4 DEF Keeps, KeepsServers, SameWho, SameServers
  <1>6. /\ TypeOK' /\ TxnType' /\ \A j \in Others(i) : txn'[j] = txn[j]
        /\ generated' = generated /\ servers' = servers /\ links' = links
        /\ Consistent' /\ UniqueIds' /\ OnlyGeneratedKeys'
    BY <1>4, WithinTypes
  <1> USE DEF IInv, Others
  <1>7. Shape'
    <2>1. ShapeOf(i)'
      BY <1>2, <1>3, <1>4, <1>5 DEF Shape, ShapeOf, Linking
    <2>2. \A j \in Others(i) : ShapeOf(j)'
      BY <1>6 DEF Shape, ShapeOf, MyLink
    <2>3. QED BY <2>1, <2>2 DEF Shape
  <1>8. KeysAreGenerated' /\ FreshRows' /\ FoundIsMine'
    BY <1>2, <1>5, <1>6 DEF KeysInv, KeysAreGenerated, RowsInv, FreshRows, FoundIsMine
  <1>9. DeletedOnce'
    <2>1. \A j \in Others(i) : /\ txn'[i].oldLinks \cap txn'[j].oldLinks = {}
                              /\ txn'[i].oldServers \cap txn'[j].oldServers = {}
      BY <1>1, <1>2, <1>4, <1>5, <1>6
    <2>2. txn'[i].oldServers \subseteq servers' /\ txn'[i].oldLinks \subseteq links'
      BY <1>2, <1>3, <1>4, <1>5, <1>6
    <2>3. \A j \in Others(i) :
            /\ txn'[j].oldServers \subseteq servers' /\ txn'[j].oldLinks \subseteq links'
            /\ \A o \in Others(j) \ {i} : /\ txn'[j].oldServers \cap txn'[o].oldServers = {}
                                         /\ txn'[j].oldLinks \cap txn'[o].oldLinks = {}
      BY <1>6 DEF RowsInv, DeletedOnce
    <2>4. QED BY <2>1, <2>2, <2>3 DEF DeletedOnce
  <1>10. LinkedServerStays' /\ DeletedIsUnlinked'
    BY <1>2, <1>4, <1>5, <1>6
       DEF LinksInv, LinkedServerStays, Servers, DeletedIsUnlinked, Unlinked
  <1>11. UnlinkedIsMine'
    BY <1>3, <1>4, <1>5, <1>6 DEF LinksInv, UnlinkedIsMine, RowsInv, UniqueIds
  <1>12. AloneKnows'
    <2>1. txn'[i].alone => \A j \in Others(i) : ~ Open(j)'
      <3>1. ASSUME txn[i].alone PROVE \A j \in Others(i) : ~ Open(j)
        BY <1>1, <3>1, NobodyIsBeside
      <3>2. QED BY <1>5, <1>6, <3>1 DEF Open
    <2>2. \A j \in Others(i) : Open(j)' => ~ txn'[j].alone
      BY <1>1, <1>6, NobodyElseIsAlone DEF Open
    <2>3. ~ txn'[i].connecting /\ txn'[i].step \notin {"check", "commit"}
      BY <1>2, <1>4, <1>5
    <2>4. QED BY <2>1, <2>2, <2>3 DEF AloneKnows
  <1>13. QED
    BY <1>6, <1>7, <1>8, <1>9, <1>10, <1>11, <1>12 DEF RowsInv, LinksInv, KeysInv

(* DELETE FROM servers.                                                    *)
LEMMA DeleteServerInv == ASSUME IInv, NEW i \in Instances, DeleteServer(i) PROVE IInv'
  <1> DEFINE gone == ServersOf(i)
  <1>1. /\ TxnType /\ Open(i) /\ UNCHANGED tables /\ txn[i].step = "delete"
        /\ txn' = [txn EXCEPT ![i].step = "check", ![i].oldServers = gone]
    BY DEF IInv, DeleteServer, Open
  <1>2. \A s \in gone : \A j \in Others(i) :
            s \notin txn[j].oldServers /\ \A l \in txn[j].newLinks : l.id # s.id
    BY GrantedFacts DEF DeleteServer
  <1>3. /\ ~ txn[i].connecting /\ txn[i].newServers = {} /\ txn[i].newLinks = {}
        /\ txn[i].oldServers = {}
    BY <1>1 DEF IInv, Shape, ShapeOf, Linking
  <1>4. /\ gone \subseteq servers /\ gone \in ServerSets
        /\ \A s \in gone : s.key = txn[i].key
        /\ \A s \in servers : s.key = txn[i].key => s \in gone
    BY <1>3 DEF ServersOf, Servers, IInv, TypeOK, ServerSets
  <1> HIDE DEF gone
  <1>5. /\ Within(i) /\ Keeps(i) /\ KeepsLinks(i) /\ txn'[i].found = txn[i].found
        /\ txn'[i].step = "check" /\ txn'[i].oldServers = gone
        /\ txn'[i].newServers = txn[i].newServers
    BY <1>1, <1>4, DeleteServerFacts
  <1>6. /\ txn'[i].user = txn[i].user /\ txn'[i].key = txn[i].key
        /\ txn'[i].connecting = txn[i].connecting /\ txn'[i].alone = txn[i].alone
        /\ txn'[i].newLinks = txn[i].newLinks /\ txn'[i].oldLinks = txn[i].oldLinks
    BY <1>5 DEF Keeps, KeepsLinks, SameWho, SameLinks
  <1>7. /\ TypeOK' /\ TxnType' /\ \A j \in Others(i) : txn'[j] = txn[j]
        /\ generated' = generated /\ servers' = servers /\ links' = links
        /\ Consistent' /\ UniqueIds' /\ OnlyGeneratedKeys'
    BY <1>5, WithinTypes
  <1> USE DEF IInv, Others
  <1>8. Shape'
    <2>1. ShapeOf(i)'
      BY <1>1, <1>3, <1>4, <1>5, <1>6 DEF Shape, ShapeOf, Linking
    <2>2. \A j \in Others(i) : ShapeOf(j)'
      BY <1>7 DEF Shape, ShapeOf, MyLink
    <2>3. QED BY <2>1, <2>2 DEF Shape
  <1>9. KeysAreGenerated' /\ FreshRows' /\ FoundIsMine' /\ UnlinkedIsMine'
    BY <1>3, <1>5, <1>6, <1>7
       DEF KeysInv, KeysAreGenerated, RowsInv, FreshRows, FoundIsMine, LinksInv,
           UnlinkedIsMine
  <1>10. DeletedOnce'
    BY <1>2, <1>4, <1>5, <1>6, <1>7 DEF RowsInv, DeletedOnce
  <1>11. LinkedServerStays'
    BY <1>2, <1>3, <1>5, <1>6, <1>7 DEF LinksInv, LinkedServerStays, Servers
  <1>12. DeletedIsUnlinked'
    BY <1>2, <1>3, <1>5, <1>6, <1>7 DEF LinksInv, DeletedIsUnlinked, Unlinked
  <1>13. AloneKnows'
    <2>1. ServersOf(i)' = {}
      BY <1>3, <1>4, <1>5, <1>6, <1>7 DEF ServersOf, Servers
    <2>2. Open(i)
      BY <1>1
    <2>3. QED
      BY <1>3, <1>5, <1>6, <1>7, <2>1, <2>2, NobodyElseIsAlone DEF AloneKnows, Open
  <1>14. QED
    BY <1>7, <1>8, <1>9, <1>10, <1>11, <1>12, <1>13 DEF RowsInv, LinksInv, KeysInv

(* The check of the foreign key after it.                                  *)
LEMMA CheckReferencesInv ==
  ASSUME IInv, NEW i \in Instances, CheckReferences(i)
  PROVE  IInv'
  <1>1. TxnType /\ Open(i) /\ UNCHANGED tables /\ txn[i].step = "check"
    BY DEF IInv, CheckReferences, Open
  <1>2. CASE txn' = [txn EXCEPT ![i] = Closed]
    BY <1>1, <1>2, CloseFacts, ClosesInv
  <1>3. CASE /\ \A s \in txn[i].oldServers, l \in Links(i) : l.id # s.id
             /\ Goto(i, "commit")
    <2>1. Reads(i) /\ txn'[i].step = "commit"
      BY <1>1, <1>3, StepFacts DEF Reads, Steps
    <2>2. WritesNothing(i) /\ UNCHANGED tables /\ \A j \in Others(i) : txn'[j] = txn[j]
      BY <2>1, WritesNothingFacts DEF Reads, WritesNothing
    <2>3. /\ txn'[i].user = txn[i].user /\ txn'[i].key = txn[i].key
          /\ txn'[i].connecting = txn[i].connecting /\ txn'[i].alone = txn[i].alone
          /\ txn'[i].newServers = txn[i].newServers /\ txn'[i].oldServers = txn[i].oldServers
          /\ txn'[i].newLinks = txn[i].newLinks /\ txn'[i].oldLinks = txn[i].oldLinks
      BY <2>1 DEF Reads, Keeps, KeepsServers, KeepsLinks, SameWho, SameServers, SameLinks
    <2>4. ~ txn[i].connecting /\ txn[i].newLinks = {}
      BY <1>1 DEF IInv, Shape, ShapeOf, Linking
    <2>5. Unlinked(i)
      BY <1>3, <2>4 DEF Unlinked, Links
    <2> USE DEF IInv, tables, Others
    <2>6. Shape'
      BY <1>1, <2>1, <2>2, <2>3, <2>4 DEF Shape, ShapeOf, MyLink, Linking
    <2>7. KeysAreGenerated' /\ FoundIsMine'
      BY <2>2, <2>3, <2>4 DEF KeysInv, KeysAreGenerated, FoundIsMine
    <2>8. AloneKnows'
      BY <1>1, <2>1, <2>2, <2>3, <2>4, NobodyElseIsAlone
         DEF AloneKnows, Open, ServersOf, Servers
    <2>9. QED BY <2>2, <2>5, <2>6, <2>7, <2>8, WritesNothingInv DEF KeysInv
  <1>4. QED BY <1>2, <1>3 DEF CheckReferences
-----------------------------------------------------------------------------
(* The end and the beginning of a transaction.                             *)

(* What a commit adds to the tables or takes from them.                    *)
LEMMA CommitFacts ==
  ASSUME IInv, NEW i \in Instances, Commit(i)
  PROVE  /\ Open(i) /\ TxnType' /\ generated' = generated
         /\ \A j \in Others(i) : txn'[j] = txn[j]
         /\ txn'[i].step = "none" /\ ~ txn'[i].connecting
         /\ txn'[i].newServers = {} /\ txn'[i].oldServers = {}
         /\ txn'[i].newLinks = {} /\ txn'[i].oldLinks = {}
         /\ servers' = (servers \ txn[i].oldServers) \cup txn[i].newServers
         /\ links' = (links \ txn[i].oldLinks) \cup txn[i].newLinks
         /\ txn[i].newServers \subseteq Server /\ txn[i].newLinks \subseteq Link
         /\ \/ /\ txn[i].connecting /\ txn[i].key \in generated
               /\ txn[i].oldServers = {} /\ txn[i].oldLinks = {}
            \/ /\ ~ txn[i].connecting
               /\ txn[i].newServers = {} /\ txn[i].newLinks = {}
  <1>1. /\ TxnType /\ txn' = [txn EXCEPT ![i] = Closed] /\ generated' = generated
        /\ servers' = Servers(i) /\ links' = Links(i) /\ txn[i].step = "commit"
    BY DEF IInv, Commit
  <1>2. /\ TxnType' /\ txn'[i] = Closed /\ \A j \in Others(i) : txn'[j] = txn[j]
    BY <1>1, ClosedFacts DEF TxnType, Others
  <1>3. /\ txn[i].newServers \subseteq Server /\ txn[i].newLinks \subseteq Link
    BY DEF IInv, TypeOK
  <1>4. \/ /\ txn[i].connecting /\ txn[i].key \in generated
           /\ txn[i].oldServers = {} /\ txn[i].oldLinks = {}
        \/ /\ ~ txn[i].connecting
           /\ txn[i].newServers = {} /\ txn[i].newLinks = {}
    BY <1>1 DEF IInv, Shape, ShapeOf, KeysInv, KeysAreGenerated
  <1>5. QED BY <1>1, <1>2, <1>3, <1>4, ClosedFacts DEF Open, Servers, Links

LEMMA CommitTypes == ASSUME IInv, NEW i \in Instances, Commit(i) PROVE TypeOK'
  <1>1. TxnType'
    BY CommitFacts
  <1>2. generated' \subseteq Keys /\ servers' \subseteq Server /\ links' \subseteq Link
    BY CommitFacts DEF IInv, TypeOK
  <1>3. \A s \in txn[i].newServers : s.key \in generated
    BY CommitFacts DEF IInv, Shape, ShapeOf
  <1>4. connected' \subseteq generated'
    BY <1>3, CommitFacts DEF Commit, IInv, TypeOK
  <1>5. (TxnType /\ generated \subseteq Keys /\ connected \subseteq generated
             /\ servers \subseteq Server /\ links \subseteq Link)'
    BY <1>1, <1>2, <1>4
  <1>6. QED BY <1>5, TypeFromTxn, PTL

LEMMA CommitRows == ASSUME IInv, NEW i \in Instances, Commit(i) PROVE RowsInv'
  <1> USE CommitFacts DEF IInv, Others, RowsInv, LinksInv
  <1>1. \A s, t \in txn[i].newServers : s = t
    BY DEF Server, Shape, ShapeOf
  <1>2. (\A s, t \in servers : s.key = t.key => s = t)'
    BY <1>1 DEF Consistent, FreshRows
  <1>3. UniqueIds'
    BY <1>1 DEF UniqueIds, FreshRows
  <1>4. ASSUME NEW l \in links' PROVE \E s \in servers' : s.id = l.id
    <2>1. CASE l \in txn[i].newLinks
      BY <2>1 DEF LinkedServerStays, Servers
    <2>2. CASE l \in links \ txn[i].oldLinks
      <3>1. PICK s \in servers : s.id = l.id
        BY <2>2 DEF Consistent
      <3>2. s \notin txn[i].oldServers
        BY <2>2, <3>1 DEF Commit, DeletedIsUnlinked, Unlinked
      <3>3. QED BY <3>1, <3>2
    <2>3. QED BY <2>1, <2>2
  <1>5. Consistent'
    BY <1>2, <1>4 DEF Consistent
  <1>6. FreshRows'
    <2>1. \A j \in Others(i) : \A s \in txn[j].newServers :
            \A t \in servers' : t.id # s.id /\ t.key # s.key
      BY DEF FreshRows
    <2>2. \A j \in Others(i) : \A s \in txn[j].newServers :
            \A o \in Others(j) : \A t \in txn'[o].newServers : t.id # s.id /\ t.key # s.key
      BY DEF FreshRows
    <2>3. QED BY <2>1, <2>2 DEF FreshRows
  <1>7. DeletedOnce'
    <2>1. \A j \in Others(i) : /\ txn[j].oldServers \subseteq servers'
                              /\ txn[j].oldLinks \subseteq links'
      BY DEF DeletedOnce
    <2>2. \A j \in Others(i) : \A o \in Others(j) :
            /\ txn[j].oldServers \cap txn'[o].oldServers = {}
            /\ txn[j].oldLinks \cap txn'[o].oldLinks = {}
      BY DEF DeletedOnce
    <2>3. QED BY <2>1, <2>2 DEF DeletedOnce
  <1>8. QED BY <1>3, <1>5, <1>6, <1>7

LEMMA CommitLinks == ASSUME IInv, NEW i \in Instances, Commit(i) PROVE LinksInv'
  <1> USE CommitFacts DEF IInv, Others, LinksInv
  <1>1. LinkedServerStays'
    <2>1. ASSUME NEW j \in Others(i), NEW l \in txn[j].newLinks
          PROVE  \E s \in Servers(j)' : /\ s.id = l.id
                                        /\ \A o \in Others(j) : s \notin txn'[o].oldServers
      <3>1. PICK s \in Servers(j) : /\ s.id = l.id
                                    /\ \A o \in Others(j) : s \notin txn[o].oldServers
        BY <2>1 DEF LinkedServerStays
      <3>2. s \in Servers(j)'
        BY <3>1 DEF Servers
      <3>3. \A o \in Others(j) : s \notin txn'[o].oldServers
        BY <3>1
      <3>4. QED BY <3>1, <3>2, <3>3
    <2>2. QED BY <2>1 DEF LinkedServerStays
  <1>2. DeletedIsUnlinked'
    <2>1. \A j \in Others(i) : txn[j].step = "commit" => Unlinked(j)'
      BY DEF DeletedIsUnlinked, Unlinked
    <2>2. \A j \in Others(i) : \A s \in txn[j].oldServers :
            \A o \in Others(j) : \A l \in txn'[o].newLinks : l.id # s.id
      BY DEF DeletedIsUnlinked
    <2>3. QED BY <2>1, <2>2 DEF DeletedIsUnlinked
  <1>3. UnlinkedIsMine'
    <2>1. \A j \in Others(i) : \A l \in txn[j].oldLinks : \E s \in servers : s.id = l.id
      BY DEF RowsInv, DeletedOnce, Consistent
    <2>2. \A s \in txn[i].newServers : \A t \in servers : t.id # s.id
      BY DEF RowsInv, FreshRows
    <2>3. QED BY <2>1, <2>2 DEF UnlinkedIsMine
  <1>4. QED BY <1>1, <1>2, <1>3

LEMMA CommitKeys == ASSUME IInv, NEW i \in Instances, Commit(i) PROVE KeysInv'
  <1> USE CommitFacts DEF IInv, Others, KeysInv
  <1>1. OnlyGeneratedKeys'
    BY DEF OnlyGeneratedKeys, Shape, ShapeOf
  <1>2. KeysAreGenerated'
    BY DEF KeysAreGenerated
  <1>3. FoundIsMine'
    BY DEF FoundIsMine
  <1>4. QED BY <1>1, <1>2, <1>3

LEMMA CommitInv == ASSUME IInv, NEW i \in Instances, Commit(i) PROVE IInv'
  <1>1. Shape'
    BY CommitFacts DEF IInv, Shape, ShapeOf, MyLink, Others
  <1>2. AloneKnows'
    BY CommitFacts, NobodyElseIsAlone DEF AloneKnows, Open, Others
  <1>3. QED
    BY <1>1, <1>2, CommitFacts, CommitTypes, CommitRows, CommitLinks, CommitKeys DEF IInv

(* BEGIN: the others are no longer alone.                                  *)
LEMMA BeginInv ==
  ASSUME IInv, NEW i \in Instances, NEW u \in Users, NEW k \in Keys,
         NEW step \in {"key", "unlink"}, NEW connecting \in BOOLEAN,
         connecting <=> step = "key",
         Begin(i, step, connecting, u, k)
  PROVE  IInv'
  <1>1. step \in Steps /\ TxnType
    BY DEF Steps, IInv
  <1>2. /\ UNCHANGED tables /\ TxnType' /\ ~ Open(i)
        /\ txn'[i].step = step /\ txn'[i].connecting = connecting
        /\ txn'[i].newServers = {} /\ txn'[i].oldServers = {}
        /\ txn'[i].newLinks = {} /\ txn'[i].oldLinks = {}
        /\ txn'[i].alone = (\A j \in Others(i) : ~ Open(j))
        /\ \A j \in Others(i) :
             /\ SameServers(txn'[j], txn[j]) /\ SameLinks(txn'[j], txn[j])
             /\ txn'[j].step = txn[j].step /\ txn'[j].connecting = txn[j].connecting
             /\ txn'[j].user = txn[j].user /\ txn'[j].key = txn[j].key
             /\ txn'[j].found = txn[j].found /\ ~ txn'[j].alone
    BY <1>1, BeginFacts
  <1>3. (TxnType /\ generated \subseteq Keys /\ connected \subseteq generated
             /\ servers \subseteq Server /\ links \subseteq Link)'
    BY <1>2 DEF IInv, TypeOK, tables
  <1>4. TypeOK'
    BY <1>3, TypeFromTxn, PTL
  <1> USE <1>2 DEF IInv, tables, Others, SameServers, SameLinks
  <1>5. Shape'
    <2>1. ShapeOf(i)'
      BY DEF ShapeOf, Linking
    <2>2. \A j \in Others(i) : ShapeOf(j)'
      BY DEF Shape, ShapeOf, MyLink
    <2>3. QED BY <2>1, <2>2 DEF Shape
  <1>6. RowsInv'
    <2>1. Consistent' /\ UniqueIds' /\ FreshRows'
      BY DEF RowsInv, Consistent, UniqueIds, FreshRows
    <2>2. DeletedOnce'
      BY DEF RowsInv, DeletedOnce
    <2>3. QED BY <2>1, <2>2 DEF RowsInv
  <1>7. LinksInv'
    BY DEF LinksInv, LinkedServerStays, DeletedIsUnlinked, Unlinked, UnlinkedIsMine, Servers
  <1>8. KeysInv'
    BY DEF KeysInv, OnlyGeneratedKeys, KeysAreGenerated, FoundIsMine, Linking
  <1>9. AloneKnows'
    <2>1. txn'[i].alone => \A j \in Others(i) : ~ Open(j)'
      BY DEF Open
    <2>2. txn'[i].step \notin Linking
      BY DEF Linking
    <2>3. txn'[i].step # "commit"
      OBVIOUS
    <2>4. QED BY <2>1, <2>2, <2>3 DEF AloneKnows
  <1>10. QED BY <1>4, <1>5, <1>6, <1>7, <1>8, <1>9

(* The HTTP handlers, and steps that change nothing.                       *)
LEMMA KeysGrowInv ==
  ASSUME IInv, UNCHANGED <<servers, links, txn>>, generated \subseteq generated',
         generated' \subseteq Keys, connected' \subseteq generated'
  PROVE  IInv'
  <1> USE DEF IInv
  <1>1. TypeOK' /\ TxnType' /\ Shape'
    BY DEF TypeOK, TxnType, Shape, ShapeOf, MyLink
  <1>2. RowsInv'
    BY DEF RowsInv, Consistent, UniqueIds, FreshRows, DeletedOnce
  <1>3. LinksInv'
    BY DEF LinksInv, LinkedServerStays, DeletedIsUnlinked, Unlinked, UnlinkedIsMine, Servers
  <1>4. KeysInv'
    BY DEF KeysInv, OnlyGeneratedKeys, KeysAreGenerated, FoundIsMine
  <1>5. AloneKnows'
    BY DEF AloneKnows, Open, ServersOf, Servers, Links, MyLink
  <1>6. QED BY <1>1, <1>2, <1>3, <1>4, <1>5

LEMMA RegisterKeyInv == ASSUME IInv, NEW k \in Keys, RegisterKey(k) PROVE IInv'
  BY KeysGrowInv DEF RegisterKey, IInv, TypeOK

LEMMA UpdateKeyConnectionInv == ASSUME IInv, NEW k \in Keys, UpdateKeyConnection(k) PROVE IInv'
  BY KeysGrowInv DEF UpdateKeyConnection, IInv, TypeOK

LEMMA StutterInv == ASSUME IInv, UNCHANGED vars PROVE IInv'
  BY KeysGrowInv DEF vars, tables, IInv, TypeOK

LEMMA InitIInv == Init => IInv
  <1> SUFFICES ASSUME Init PROVE IInv
    OBVIOUS
  <1>1. \A i \in Instances : txn[i] = Closed
    BY DEF Init
  <1>2. TxnType
    BY ClosedFacts DEF Init, TxnType
  <1>3. TypeOK
    BY <1>2, TypeFromTxn DEF Init
  <1>4. Shape /\ RowsInv /\ LinksInv /\ KeysInv /\ AloneKnows
    BY <1>1, ClosedFacts
       DEF Init, Shape, ShapeOf, RowsInv, Consistent, UniqueIds, FreshRows, DeletedOnce,
           LinksInv, LinkedServerStays, DeletedIsUnlinked, Unlinked, UnlinkedIsMine, KeysInv,
           OnlyGeneratedKeys, KeysAreGenerated, FoundIsMine, AloneKnows, Open
  <1>5. QED BY <1>2, <1>3, <1>4 DEF IInv

LEMMA RollbackInv == ASSUME IInv, NEW i \in Instances, Rollback(i) PROVE IInv'
  BY CloseFacts, ClosesInv DEF Rollback, IInv

LEMMA StatementInv == ASSUME IInv, NEW i \in Instances, Statement(i) PROVE IInv'
  BY CheckKeyInv, FindServerInv, InsertServerInv, UpdateServerInv, LinkExistsInv,
     InsertLinkInv, UnlinkInv, CountUsersInv, DeleteServerInv, CheckReferencesInv, CommitInv DEF Statement

LEMMA NextIInv == ASSUME IInv, [Next]_vars PROVE IInv'
  <1>1. ASSUME NEW i \in Instances, NEW u \in Users, NEW k \in Keys, Connect(i, u, k)
        PROVE  IInv'
    BY <1>1, BeginInv DEF Connect
  <1>2. ASSUME NEW i \in Instances, NEW u \in Users, NEW k \in Keys, Remove(i, u, k)
        PROVE  IInv'
    BY <1>2, BeginInv DEF Remove
  <1>3. ASSUME NEW i \in Instances, Statement(i) \/ Rollback(i) PROVE IInv'
    BY <1>3, StatementInv, RollbackInv
  <1>4. ASSUME NEW k \in Keys, RegisterKey(k) \/ UpdateKeyConnection(k) PROVE IInv'
    BY <1>4, RegisterKeyInv, UpdateKeyConnectionInv
  <1>5. QED BY <1>1, <1>2, <1>3, <1>4, StutterInv DEF Next

(* IInv is an invariant: what the transactions of all instances write and  *)
(* know, at every statement, fits the tables.                              *)
THEOREM Invariance == Spec => []IInv
  <1>1. Init => IInv
    BY InitIInv
  <1>2. IInv /\ [Next]_vars => IInv'
    BY NextIInv
  <1>3. QED BY <1>1, <1>2, PTL DEF Spec
(* Every table holds rows, every transaction is at a statement.            *)
THEOREM TypeCorrect == Spec => []TypeOK
  <1>1. IInv => TypeOK
    BY DEF IInv
  <1>2. QED BY <1>1, Invariance, PTL

(* Whichever transactions insert, delete and fail side by side, a key has  *)
(* one row and a link has its server: the checks of connectServerWithName  *)
(* and removeServer, the locks and the unique keys are enough together.    *)
THEOREM TablesConsistent == Spec => []Consistent
  <1>1. IInv => Consistent
    BY DEF IInv, RowsInv
  <1>2. QED BY <1>1, Invariance, PTL

(* Only keys in generated_keys become servers (connectServerWithName).     *)
THEOREM KeysAreKnown == Spec => []OnlyGeneratedKeys
  <1>1. IInv => OnlyGeneratedKeys
    BY DEF IInv, KeysInv
  <1>2. QED BY <1>1, Invariance, PTL

-----------------------------------------------------------------------------
(* What a commit does to the rows of others.                               *)

(* A commit of removeServer takes from the tables only links of its own    *)
(* user, and only servers nobody is linked to; one of                      *)
(* connectServerWithName takes nothing.                                    *)
THEOREM OthersKeepRows == Spec => OthersKeepTheirs
  <1>1. ASSUME IInv, NEW i \in Instances, Commit(i)
        PROVE  /\ \A l \in links \ links' : l.user = txn[i].user /\ ~ txn[i].connecting
               /\ \A s \in servers \ servers' : \A l \in links' : l.id # s.id
    <2>1. \A l \in links \ links' : l \in txn[i].oldLinks
      BY <1>1, CommitFacts
    <2>2. \A l \in links \ links' : l.user = txn[i].user /\ ~ txn[i].connecting
      BY <1>1, <2>1, CommitFacts DEF IInv, Shape, ShapeOf
    <2>3. ASSUME NEW s \in servers \ servers' PROVE \A l \in links' : l.id # s.id
      <3>1. s \in txn[i].oldServers /\ links' = links \ txn[i].oldLinks
        BY <1>1, <2>3, CommitFacts
      <3>2. QED BY <1>1, <3>1 DEF Commit, IInv, LinksInv, DeletedIsUnlinked, Unlinked
    <2>4. QED BY <2>2, <2>3
  <1>2. IInv /\ [Next]_vars =>
          [\A i \in Instances : Commit(i) =>
             /\ \A l \in links \ links' : l.user = txn[i].user /\ ~ txn[i].connecting
             /\ \A s \in servers \ servers' : \A l \in links' : l.id # s.id]_vars
    BY <1>1
  <1>3. QED BY <1>2, Invariance, PTL DEF Spec, OthersKeepTheirs

(* A transaction of removeServer or connectServerWithName that no other    *)
(* was open beside leaves no server of its key without a user.             *)
THEOREM NoOrphanAlone == Spec => AloneLeavesNoOrphan
  <1>1. ASSUME IInv, NEW i \in Instances, Commit(i), txn[i].alone,
               NEW s \in servers', s.key = txn[i].key
        PROVE  \E l \in links' : l.id = s.id
    <2>1. /\ servers' = Servers(i) /\ links' = Links(i) /\ s \in ServersOf(i)
          /\ Open(i) /\ txn[i].step = "commit"
      BY <1>1 DEF Commit, ServersOf, Open
    <2>2. CASE txn[i].connecting
      <3>1. PICK t \in ServersOf(i) : t.id = txn[i].found
        BY <1>1, <2>1, <2>2, AloneFinds DEF Linking
      <3>2. Consistent'
        BY <1>1, CommitRows DEF RowsInv
      <3>3. t = s
        BY <1>1, <2>1, <3>1, <3>2 DEF Consistent, ServersOf
      <3>4. MyLink(i) \in Links(i) /\ MyLink(i).id = txn[i].found
        BY <1>1, <2>1, <2>2 DEF IInv, AloneKnows, MyLink
      <3>5. QED BY <2>1, <3>1, <3>3, <3>4
    <2>3. CASE ~ txn[i].connecting
      BY <1>1, <2>1, <2>3 DEF IInv, AloneKnows
    <2>4. QED BY <2>2, <2>3
  <1>2. IInv /\ [Next]_vars =>
          [\A i \in Instances : Commit(i) /\ txn[i].alone =>
             \A s \in servers' : s.key = txn[i].key => \E l \in links' : l.id = s.id]_vars
    BY <1>1
  <1>3. QED BY <1>2, Invariance, PTL DEF Spec, AloneLeavesNoOrphan

(* A transaction of connectServerWithName that no other was open beside    *)
(* has, when it commits, linked its user to the server of its key.         *)
THEOREM ConnectedAlone == Spec => AloneConnects
  <1>1. ASSUME IInv, NEW i \in Instances, Commit(i), txn[i].alone, txn[i].connecting
        PROVE  \E s \in servers' : s.key = txn[i].key
                                   /\ [user |-> txn[i].user, id |-> s.id] \in links'
    <2>1. servers' = Servers(i) /\ links' = Links(i) /\ Open(i) /\ txn[i].step = "commit"
      BY <1>1 DEF Commit, Open
    <2>2. PICK t \in ServersOf(i) : t.id = txn[i].found
      BY <1>1, <2>1, AloneFinds DEF Linking
    <2>3. t \in servers' /\ t.key = txn[i].key
      BY <2>1, <2>2 DEF ServersOf
    <2>4. MyLink(i) \in links'
      BY <1>1, <2>1 DEF IInv, AloneKnows
    <2>5. [user |-> txn[i].user, id |-> t.id] = MyLink(i)
      BY <2>2 DEF MyLink
    <2>6. QED BY <2>3, <2>4, <2>5
  <1>2. IInv /\ [Next]_vars =>
          [\A i \in Instances : Commit(i) /\ txn[i].alone /\ txn[i].connecting =>
             \E s \in servers' : s.key = txn[i].key
                                 /\ [user |-> txn[i].user, id |-> s.id] \in links']_vars
    BY <1>1
  <1>3. QED BY <1>2, Invariance, PTL DEF Spec, AloneConnects

-----------------------------------------------------------------------------
(* The transactions implement Registry.                                    *)

(* u is linked to the server of k.                                         *)
Linked(u, k) == \E t \in servers : t.key = k /\ [user |-> u, id |-> t.id] \in links

LEMMA MembersAreLinked ==
  /\ Members \subseteq Users \X Keys
  /\ \A u \in Users, k \in Keys : <<u, k>> \in Members <=> Linked(u, k)
  BY DEF Members, Linked

LEMMA MembersAreLinkedNext ==
  /\ Members' \subseteq Users \X Keys
  /\ \A u \in Users, k \in Keys : <<u, k>> \in Members' <=> Linked(u, k)'
  BY DEF Members, Linked

LEMMA CommitConnects ==
  ASSUME IInv, NEW i \in Instances, Commit(i), txn[i].connecting
  PROVE  \/ Members' = Members
         \/ Members' = Members \cup {<<txn[i].user, txn[i].key>>}
  <1>1. /\ servers' = servers \cup txn[i].newServers
        /\ links' = links \cup txn[i].newLinks
        /\ txn[i].step = "commit"
    BY CommitFacts DEF Commit
  <1>2. ASSUME NEW u \in Users, NEW k \in Keys, Linked(u, k) PROVE Linked(u, k)'
    BY <1>1, <1>2 DEF Linked
  <1>3. ASSUME NEW u \in Users, NEW k \in Keys, Linked(u, k)', ~ Linked(u, k)
        PROVE  u = txn[i].user /\ k = txn[i].key
    <2>1. PICK t \in servers' : t.key = k /\ [user |-> u, id |-> t.id] \in links'
      BY <1>3 DEF Linked
    <2>2. PICK l : l = [user |-> u, id |-> t.id] /\ l.user = u /\ l.id = t.id
      <3> DEFINE m == [user |-> u, id |-> t.id]
      <3>1. m.user = u /\ m.id = t.id
        OBVIOUS
      <3>2. QED BY <3>1
    <2>3. l \in links \/ l \in txn[i].newLinks
      BY <1>1, <2>1, <2>2
    <2>4. CASE l \in links
      <3>1. PICK s \in servers : s.id = t.id
        BY <2>2, <2>4 DEF IInv, RowsInv, Consistent
      <3>2. t \in servers
        BY <1>1, <2>1, <3>1 DEF IInv, RowsInv, FreshRows
      <3>3. QED BY <1>3, <2>1, <2>2, <2>4, <3>2 DEF Linked
    <2>5. CASE l \in txn[i].newLinks
      <3>1. l = MyLink(i)
        BY <2>5 DEF IInv, Shape, ShapeOf
      <3>2. l.user = txn[i].user /\ l.id = txn[i].found
        BY <3>1 DEF MyLink
      <3>3. t.key = txn[i].key
        <4>1. CASE t \in servers
          BY <1>1, <2>2, <3>2, <4>1 DEF IInv, KeysInv, FoundIsMine, Linking
        <4>2. CASE t \in txn[i].newServers
          BY <4>2 DEF IInv, Shape, ShapeOf
        <4>3. QED BY <1>1, <2>1, <4>1, <4>2
      <3>4. QED BY <2>1, <2>2, <3>2, <3>3
    <2>6. QED BY <2>3, <2>4, <2>5
  <1>4. QED BY <1>2, <1>3, MembersAreLinked, MembersAreLinkedNext

LEMMA CommitDisconnects ==
  ASSUME IInv, NEW i \in Instances, Commit(i), ~ txn[i].connecting
  PROVE  \/ Members' = Members
         \/ Members' = Members \ {<<txn[i].user, txn[i].key>>}
  <1>1. servers' = servers \ txn[i].oldServers /\ links' = links \ txn[i].oldLinks
    BY CommitFacts
  <1>2. ASSUME NEW u \in Users, NEW k \in Keys, Linked(u, k)' PROVE Linked(u, k)
    BY <1>1, <1>2 DEF Linked
  <1>3. ASSUME NEW u \in Users, NEW k \in Keys, Linked(u, k), ~ Linked(u, k)'
        PROVE  u = txn[i].user /\ k = txn[i].key
    <2>1. PICK t \in servers : t.key = k /\ [user |-> u, id |-> t.id] \in links
      BY <1>3 DEF Linked
    <2>2. PICK l : l = [user |-> u, id |-> t.id] /\ l.user = u /\ l.id = t.id
      <3> DEFINE m == [user |-> u, id |-> t.id]
      <3>1. m.user = u /\ m.id = t.id
        OBVIOUS
      <3>2. QED BY <3>1
    <2>3. l \in txn[i].oldLinks
      <3>1. CASE t \in txn[i].oldServers
        BY <2>1, <2>2, <3>1 DEF Commit, IInv, LinksInv, DeletedIsUnlinked, Unlinked
      <3>2. CASE t \notin txn[i].oldServers
        BY <1>1, <1>3, <2>1, <2>2, <3>2 DEF Linked
      <3>3. QED BY <3>1, <3>2
    <2>4. l.user = txn[i].user
      BY <2>3 DEF IInv, Shape, ShapeOf
    <2>5. t.key = txn[i].key
      BY <2>1, <2>2, <2>3 DEF IInv, LinksInv, UnlinkedIsMine
    <2>6. QED BY <2>1, <2>2, <2>4, <2>5
  <1>4. QED BY <1>2, <1>3, MembersAreLinked, MembersAreLinkedNext

LEMMA CommitRefines ==
  ASSUME IInv, NEW i \in Instances, Commit(i)
  PROVE  [Reg!Next]_Reg!registryVars
  <1>1. txn[i].user \in Users /\ txn[i].key \in Keys /\ generated' = generated
    BY CommitFacts DEF IInv, TypeOK
  <1>2. CASE txn[i].connecting
    <2>1. txn[i].key \in generated
      BY <1>2, CommitFacts
    <2>2. QED
      BY <1>1, <1>2, <2>1, CommitConnects DEF Reg!Next, Reg!Connect, Reg!registryVars
  <1>3. CASE ~ txn[i].connecting
    BY <1>1, <1>3, CommitDisconnects DEF Reg!Next, Reg!Disconnect, Reg!registryVars
  <1>4. QED BY <1>2, <1>3

LEMMA TablesUnchanged ==
  ASSUME UNCHANGED <<generated, servers, links>>
  PROVE  [Reg!Next]_Reg!registryVars
  BY DEF Reg!registryVars, Members

LEMMA InitRefines == Init => Reg!Init
  <1>1. Init => Members = {}
    BY DEF Init, Members
  <1>2. QED BY <1>1 DEF Init, Reg!Init

LEMMA StepRefines == IInv /\ [Next]_vars => [Reg!Next]_Reg!registryVars
  <1> SUFFICES ASSUME IInv, [Next]_vars PROVE [Reg!Next]_Reg!registryVars
    OBVIOUS
  <1>1. ASSUME NEW i \in Instances, Commit(i) PROVE [Reg!Next]_Reg!registryVars
    BY <1>1, CommitRefines
  <1>2. ASSUME NEW i \in Instances, Statement(i), ~ Commit(i) PROVE UNCHANGED tables
    BY <1>2 DEF Statement, CheckKey, FindServer, InsertServer, UpdateServer, LinkExists,
       InsertLink, Unlink, CountUsers, DeleteServer, CheckReferences, Goto
  <1>3. ASSUME NEW i \in Instances, Rollback(i) PROVE UNCHANGED tables
    BY <1>3 DEF Rollback
  <1>4. ASSUME NEW i \in Instances, NEW u \in Users, NEW k \in Keys,
               Connect(i, u, k) \/ Remove(i, u, k)
        PROVE  UNCHANGED tables
    BY <1>4 DEF Connect, Remove, Begin
  <1>5. ASSUME NEW k \in Keys, RegisterKey(k) PROVE [Reg!Next]_Reg!registryVars
    <2>1. Members' = Members
      BY <1>5 DEF RegisterKey, Members
    <2>2. QED BY <1>5, <2>1 DEF RegisterKey, Reg!Next, Reg!Register
  <1>6. ASSUME NEW k \in Keys, UpdateKeyConnection(k)
        PROVE  UNCHANGED <<generated, servers, links>>
    BY <1>6 DEF UpdateKeyConnection
  <1>7. QED
    BY <1>1, <1>2, <1>3, <1>4, <1>5, <1>6, TablesUnchanged DEF Next, vars, tables

(* Whatever transactions run side by side and wherever they fail, what the *)
(* tables say of users and keys changes by one whole registration,         *)
(* connection or disconnection at a time (connectServerWithName,           *)
(* removeServer, handleRegisterKey).                                       *)
THEOREM Refinement == Spec => ImplementsRegistry
  BY InitRefines, StepRefines, Invariance, PTL DEF Spec, ImplementsRegistry, Reg!Spec
=============================================================================
