--------------------------- MODULE ServerRegistry ---------------------------
(***************************************************************************)
(* The registry of servers in PostgreSQL (internal/bot/database.go), used  *)
(* by the instances of the bot.  An instance handles the updates of        *)
(* Telegram one after another, so it runs one transaction at a time:       *)
(* connectServerWithName or removeServer; the HTTP handlers of key         *)
(* registration run beside it.                                             *)
(*                                                                         *)
(* Every SQL statement is one step, at READ COMMITTED, the isolation level *)
(* of db.Begin(): a statement sees what was committed before it began and  *)
(* what its own transaction wrote.  A statement waits for another          *)
(* transaction where PostgreSQL makes it wait: for the lock of a row, for  *)
(* an uncommitted row of the same unique key, for a foreign key.           *)
(***************************************************************************)
EXTENDS FiniteSets

CONSTANTS
  Users, Keys,       \* Telegram users and server keys
  Instances,         \* instances of the bot
  Ids                \* server IDs (UUIDs): enough that an unused one exists

ASSUME ConstantsAssumption == Users # {} /\ Keys # {} /\ Ids # {}

VARIABLES
  generated,         \* generated_keys: the keys in it
  connected,         \* those of status 'connected'
  servers,           \* servers: id and secret_key of each row
  links,             \* user_servers: user_id and server_id of each row
  txn                \* the open transaction of each instance

tables == <<generated, connected, servers, links>>
vars == <<tables, txn>>

Server == [id : Ids, key : Keys]
Link == [user : Users, id : Ids]
Steps == {"none", "key", "find", "insert", "update", "exists", "link",
          "unlink", "count", "delete", "check", "commit"}

TypeOK ==
  /\ generated \subseteq Keys
  /\ connected \subseteq generated
  /\ servers \subseteq Server
  /\ links \subseteq Link
  /\ \A i \in Instances :
       /\ txn[i].step \in Steps
       /\ txn[i].user \in Users /\ txn[i].key \in Keys
       /\ txn[i].found \in Ids
       /\ txn[i].newServers \subseteq Server /\ txn[i].newLinks \subseteq Link
       /\ txn[i].oldServers \subseteq Server /\ txn[i].oldLinks \subseteq Link
       /\ txn[i].updated \subseteq Ids
       /\ txn[i].connecting \in BOOLEAN /\ txn[i].alone \in BOOLEAN

(* A transaction that has written nothing.  "found" is the local serverID; *)
(* "alone" is history: no other transaction was open at the same time.     *)
Fresh(step, connecting, u, k, alone) ==
  [step |-> step, connecting |-> connecting, user |-> u, key |-> k,
   found |-> CHOOSE id \in Ids : TRUE,
   newServers |-> {}, oldServers |-> {}, newLinks |-> {}, oldLinks |-> {},
   updated |-> {}, alone |-> alone]

Closed == Fresh("none", FALSE, CHOOSE u \in Users : TRUE, CHOOSE k \in Keys : TRUE, TRUE)

Init ==
  /\ generated = {} /\ connected = {}
  /\ servers = {} /\ links = {}
  /\ txn = [i \in Instances |-> Closed]

-----------------------------------------------------------------------------
(* PostgreSQL.                                                             *)

Open(i) == txn[i].step # "none"
Others(i) == Instances \ {i}

(* What a statement of i's transaction sees.                               *)
Servers(i) == (servers \ txn[i].oldServers) \cup txn[i].newServers
Links(i) == (links \ txn[i].oldLinks) \cup txn[i].newLinks
ServersOf(i) == {s \in Servers(i) : s.key = txn[i].key}
LinksOf(i) == {l \in Links(i) : \E s \in ServersOf(i) : l.id = s.id}

MyLink(i) == [user |-> txn[i].user, id |-> txn[i].found]
MyLinks(i) == {l \in LinksOf(i) : l.user = txn[i].user}

(* What j has done to row s, and holds until it ends: deleted it, updated  *)
(* it, inserted a reference to it (FOR KEY SHARE), deleted one.            *)
Deleting(j, s) == s \in txn[j].oldServers
Updating(j, s) == s.id \in txn[j].updated
Referencing(j, s) == \E l \in txn[j].newLinks : l.id = s.id
Unlinking(j, s) == \E l \in txn[j].oldLinks : l.id = s.id

(* The next statement of i waits until j ends: an INSERT for a row of the  *)
(* same unique key and for a deleted row it refers to, an UPDATE and a     *)
(* DELETE for whoever has locked the row, and the check of the foreign key *)
(* after a DELETE for whoever has deleted a reference and may still put it *)
(* back; by then i holds the row.                                          *)
WaitsFor(i, j) ==
  \/ /\ txn[i].step = "insert"
     /\ \/ \E s \in txn[j].newServers : s.key = txn[i].key
        \/ \E s \in ServersOf(i) : Deleting(j, s)
  \/ /\ txn[i].step = "update"
     /\ \E s \in ServersOf(i) : Deleting(j, s) \/ Updating(j, s)
  \/ /\ txn[i].step = "link"
     /\ \/ MyLink(i) \in txn[j].newLinks \cup txn[j].oldLinks
        \/ \E s \in Servers(i) : s.id = txn[i].found /\ Deleting(j, s)
  \/ /\ txn[i].step = "unlink"
     /\ MyLinks(i) \cap txn[j].oldLinks # {}
  \/ /\ txn[i].step = "delete"
     /\ \E s \in ServersOf(i) : Deleting(j, s) \/ Updating(j, s) \/ Referencing(j, s)
  \/ /\ txn[i].step = "check"
     /\ \E s \in txn[i].oldServers : Unlinking(j, s)
Granted(i) == \A j \in Others(i) : ~ WaitsFor(i, j)

Unused ==
  Ids \ ({s.id : s \in servers} \cup {l.id : l \in links}
         \cup UNION {{txn[i].found} \cup {s.id : s \in txn[i].newServers} :
                       i \in {j \in Instances : Open(j)}})

Goto(i, step) == txn' = [txn EXCEPT ![i].step = step]

Begin(i, step, connecting, u, k) ==
  /\ ~ Open(i)
  /\ txn' = [j \in Instances |->
       IF j = i
         THEN Fresh(step, connecting, u, k, \A o \in Others(i) : ~ Open(o))
         ELSE [txn[j] EXCEPT !.alone = FALSE]]
  /\ UNCHANGED tables

(* An error of any statement: the deferred Rollback.  The same when the    *)
(* bot or its connection dies.                                             *)
Rollback(i) ==
  /\ Open(i)
  /\ txn' = [txn EXCEPT ![i] = Closed]
  /\ UNCHANGED tables

(* Each of S waits for another of S: a deadlock.  PostgreSQL aborts one    *)
(* transaction of a smallest such set.                                     *)
Circle(S) == S # {} /\ \A i \in S : \E j \in S \ {i} : WaitsFor(i, j)
DeadlockVictim ==
  \E S \in SUBSET Instances :
    /\ Circle(S) /\ \A T \in SUBSET S : Circle(T) => T = S
    /\ \E i \in S : Rollback(i)

Commit(i) ==
  /\ txn[i].step = "commit"
  /\ servers' = Servers(i)
  /\ links' = Links(i)
  /\ connected' = connected \cup {s.key : s \in txn[i].newServers}
  /\ txn' = [txn EXCEPT ![i] = Closed]
  /\ UNCHANGED generated

-----------------------------------------------------------------------------
(* connectServerWithName: /add.                                            *)

Connect(i, u, k) == Begin(i, "key", TRUE, u, k)

(* SELECT EXISTS ... FROM generated_keys.                                  *)
CheckKey_Skips(i) ==   \* mutant: the key is not looked up
  /\ txn[i].step = "key"
  /\ Goto(i, "find")
  /\ UNCHANGED tables
CheckKey_LeavesOpen(i) ==   \* mutant: an unknown key returns without Rollback
  /\ txn[i].step = "key" /\ txn[i].key \in generated
  /\ Goto(i, "find")
  /\ UNCHANGED tables
CheckKey(i) ==
  /\ txn[i].step = "key"
  /\ IF txn[i].key \in generated
       THEN Goto(i, "find") ELSE txn' = [txn EXCEPT ![i] = Closed]
  /\ UNCHANGED tables

(* SELECT id FROM servers.                                                 *)
FindServer(i) ==
  /\ txn[i].step = "find"
  /\ IF ServersOf(i) = {}
       THEN Goto(i, "insert")
       ELSE \E s \in ServersOf(i) :
              txn' = [txn EXCEPT ![i].step = "update", ![i].found = s.id]
  /\ UNCHANGED tables

(* INSERT INTO servers, then UPDATE generated_keys: the status is written  *)
(* with the commit.  A row of the same key committed since: unique error.  *)
InsertServer(i) ==
  /\ txn[i].step = "insert" /\ Granted(i)
  /\ IF ServersOf(i) = {}
       THEN \E id \in Unused :
              txn' = [txn EXCEPT ![i].step = "exists", ![i].found = id,
                        ![i].newServers = {[id |-> id, key |-> txn[i].key]}]
       ELSE txn' = [txn EXCEPT ![i] = Closed]
  /\ UNCHANGED tables

(* UPDATE servers SET name: after a delete it finds no row.                *)
UpdateServer(i) ==
  /\ txn[i].step = "update" /\ Granted(i)
  /\ txn' = [txn EXCEPT ![i].step = "exists", ![i].updated = {s.id : s \in ServersOf(i)}]
  /\ UNCHANGED tables

(* SELECT EXISTS ... FROM user_servers.                                    *)
LinkExists_AnyUser(i) ==   \* mutant: the condition on user_id is missing
  /\ txn[i].step = "exists"
  /\ Goto(i, IF \E l \in Links(i) : l.id = txn[i].found THEN "commit" ELSE "link")
  /\ UNCHANGED tables
LinkExists_Skips(i) ==   \* mutant: the link is inserted without a look first
  /\ txn[i].step = "exists"
  /\ Goto(i, "link")
  /\ UNCHANGED tables
LinkExists(i) ==
  /\ txn[i].step = "exists"
  /\ Goto(i, IF MyLink(i) \in Links(i) THEN "commit" ELSE "link")
  /\ UNCHANGED tables

(* INSERT INTO user_servers: the primary key and the foreign key.          *)
InsertLink_NoReference(i) ==   \* mutant: server_id does not reference servers
  /\ txn[i].step = "link"
  /\ \A j \in Others(i) : MyLink(i) \notin txn[j].newLinks
  /\ txn' = [txn EXCEPT ![i].step = "commit", ![i].newLinks = {MyLink(i)}]
  /\ UNCHANGED tables
InsertLink(i) ==
  /\ txn[i].step = "link" /\ Granted(i)
  /\ IF MyLink(i) \notin Links(i) /\ \E s \in Servers(i) : s.id = txn[i].found
       THEN txn' = [txn EXCEPT ![i].step = "commit", ![i].newLinks = {MyLink(i)}]
       ELSE txn' = [txn EXCEPT ![i] = Closed]
  /\ UNCHANGED tables

-----------------------------------------------------------------------------
(* removeServer: /remove_server and the button of the remove menu.         *)

Remove(i, u, k) == Begin(i, "unlink", FALSE, u, k)

(* DELETE FROM user_servers WHERE user_id AND server_id.                   *)
Unlink_AllUsers(i) ==   \* mutant: the condition on user_id is missing
  /\ txn[i].step = "unlink"
  /\ txn' = [txn EXCEPT ![i].step = "count", ![i].oldLinks = LinksOf(i)]
  /\ UNCHANGED tables
Unlink(i) ==
  /\ txn[i].step = "unlink" /\ Granted(i)
  /\ txn' = [txn EXCEPT ![i].step = "count", ![i].oldLinks = MyLinks(i)]
  /\ UNCHANGED tables

(* SELECT COUNT of the links left; 0: delete the server.                   *)
CountUsers_One(i) ==   \* mutant: the count is taken as if before the delete
  /\ txn[i].step = "count"
  /\ Goto(i, IF Cardinality(LinksOf(i)) = 1 THEN "delete" ELSE "commit")
  /\ UNCHANGED tables
CountUsers(i) ==
  /\ txn[i].step = "count"
  /\ Goto(i, IF LinksOf(i) = {} THEN "delete" ELSE "commit")
  /\ UNCHANGED tables

(* DELETE FROM servers takes the row, if it is there; then the foreign key *)
(* of user_servers is checked (NO ACTION): a row still referred to is an   *)
(* error.                                                                  *)
DeleteServer(i) ==
  /\ txn[i].step = "delete" /\ Granted(i)
  /\ txn' = [txn EXCEPT ![i].step = "check", ![i].oldServers = ServersOf(i)]
  /\ UNCHANGED tables

CheckReferences(i) ==
  /\ txn[i].step = "check" /\ Granted(i)
  /\ IF \E s \in txn[i].oldServers, l \in Links(i) : l.id = s.id
       THEN txn' = [txn EXCEPT ![i] = Closed] ELSE Goto(i, "commit")
  /\ UNCHANGED tables

-----------------------------------------------------------------------------
(* handleRegisterKey: two statements, each on its own; the second only if  *)
(* the request has agent information and the first succeeded.              *)

RegisterKey(k) ==
  /\ generated' = generated \cup {k}
  /\ UNCHANGED <<connected, servers, links, txn>>

UpdateKeyConnection_Upserts(k) ==   \* mutant: a key that is not recorded is added
  /\ connected' = connected \cup {k}
  /\ UNCHANGED <<generated, servers, links, txn>>
UpdateKeyConnection(k) ==
  /\ connected' = connected \cup ({k} \cap generated)
  /\ UNCHANGED <<generated, servers, links, txn>>

-----------------------------------------------------------------------------
Statement(i) ==
  \/ CheckKey(i) \/ FindServer(i) \/ InsertServer(i) \/ UpdateServer(i)
  \/ LinkExists(i) \/ InsertLink(i)
  \/ Unlink(i) \/ CountUsers(i) \/ DeleteServer(i) \/ CheckReferences(i)
  \/ Commit(i)

Next ==
  \/ \E i \in Instances :
       \/ \E u \in Users, k \in Keys : Connect(i, u, k) \/ Remove(i, u, k)
       \/ Statement(i) \/ Rollback(i)
  \/ \E k \in Keys : RegisterKey(k) \/ UpdateKeyConnection(k)

Spec == Init /\ [][Next]_vars

(* A statement that waits is queued by PostgreSQL: it is not overtaken for *)
(* ever by transactions that came later, hence strong fairness.  Whoever   *)
(* waits longer than deadlock_timeout looks for a circle.                  *)
FairSpec ==
  /\ Spec
  /\ \A i \in Instances : SF_vars(Statement(i))
  /\ WF_vars(DeadlockVictim)

-----------------------------------------------------------------------------
(* Properties.                                                             *)

(* One row of servers per key, and no link to a server that is gone,       *)
(* whichever transactions insert, delete and fail side by side.            *)
Consistent ==
  /\ \A s, t \in servers : s.key = t.key => s = t
  /\ \A l \in links : \E s \in servers : s.id = l.id

(* Only keys that an agent installation registered become servers.         *)
OnlyGeneratedKeys == \A s \in servers : s.key \in generated

(* removeServer takes nothing from another user: a commit removes only     *)
(* links of the user it runs for, and no server anybody is linked to.      *)
OthersKeepTheirs ==
  [][\A i \in Instances : Commit(i) =>
       /\ \A l \in links \ links' : l.user = txn[i].user /\ ~ txn[i].connecting
       /\ \A s \in servers \ servers' : \A l \in links' : l.id # s.id]_vars

(* The comment in removeServer: "If no other users, delete server          *)
(* completely".  A transaction that ran alone leaves no server of its key  *)
(* without a user.                                                         *)
AloneLeavesNoOrphan ==
  [][\A i \in Instances : Commit(i) /\ txn[i].alone =>
       \A s \in servers' : s.key = txn[i].key => \E l \in links' : l.id = s.id]_vars

(* A /add that is confirmed to the user and ran alone has connected him.   *)
AloneConnects ==
  [][\A i \in Instances : Commit(i) /\ txn[i].alone /\ txn[i].connecting =>
       \E s \in servers' : s.key = txn[i].key
                           /\ [user |-> txn[i].user, id |-> s.id] \in links']_vars

(* The order in which the statements lock links, servers and keys makes    *)
(* PostgreSQL abort a transaction as a deadlock victim in one case only:   *)
(* in every circle is a removal by a user who had no link to take away.    *)
(* It has counted nobody, deletes the server and waits for the removal of  *)
(* the last link, which wants to delete the server too.                    *)
OnlyLinklessRemovalsDeadlock ==
  \A S \in SUBSET Instances :
    Circle(S) => \E i \in S : txn[i].step = "check" /\ txn[i].oldLinks = {}

(* Every transaction that is begun ends, however long it has to wait and   *)
(* whoever it waits for in a circle.                                       *)
TransactionsEnd == \A i \in Instances : Open(i) ~> ~ Open(i)

(* What the transactions of all instances do to the tables together is one *)
(* operation of Registry after the other: none shows half of its work,     *)
(* works on two servers at once, or connects a user to an unknown key      *)
(* (database.go:196, 272).                                                 *)
Members == {m \in Users \X Keys :
              \E t \in servers : t.key = m[2] /\ [user |-> m[1], id |-> t.id] \in links}
Reg == INSTANCE Registry WITH registered <- generated, members <- Members
ImplementsRegistry == Reg!Spec

-----------------------------------------------------------------------------
(* What comments and docs say and the code does not do.                    *)

(* The same comment, with instances of the bot side by side, which         *)
(* docs/ARCHITECTURE.md allows: no server is ever left without a user.     *)
NoOrphan == \A s \in servers : \E l \in links : l.id = s.id
=============================================================================
