----------------------------- MODULE ServerMenu -----------------------------
(***************************************************************************)
(* Which server a user's request acts on.  The bot shows a user's servers  *)
(* as a numbered list or as buttons; the callback data of a button holds a *)
(* number, not a server, and the list is read again from the database when *)
(* the button is pressed (callback_router.go and the callback handlers).   *)
(*                                                                         *)
(* handleUpdates takes one update at a time.  Presses wait in its channel; *)
(* a message stays in the chat, with its buttons, until a handler edits    *)
(* it.  The text of a command does not depend on the chat, so a command is *)
(* one step here, taken when it reaches the head of the channel.           *)
(***************************************************************************)
EXTENDS Naturals, Sequences, FiniteSets, Functions

CONSTANTS
  Users, Servers,
  MaxMessages,       \* bound: messages with buttons in one chat
  MaxPresses         \* bound: presses that wait for the bot

ASSUME BoundsAssumption == MaxMessages \in Nat /\ MaxPresses \in Nat

VARIABLES
  created,           \* the rows of servers, newest first
  linked,            \* user_servers: the servers of each user
  chat,              \* the messages with buttons that each user sees
  presses,           \* callback queries that are not handled yet
  act                \* what the last step did to a server, or Nothing

vars == <<created, linked, chat, presses, act>>

ServerLists == {l \in Seq(Servers) : IsInjective(l)}

(* ORDER BY: the members of S on the list, in the order of the list.       *)
Precedes(list, s, t) ==
  \E i, j \in DOMAIN list : i < j /\ list[i] = s /\ list[j] = t
InOrder(list, S) ==
  LET rows == Range(list) \cap S IN
  {l \in [1 .. Cardinality(rows) -> rows] :
     /\ Range(l) = rows
     /\ \A i, j \in DOMAIN l : i < j => Precedes(list, l[i], l[j])}
Selection(list, S) == CHOOSE l \in InOrder(list, S) : TRUE

Kinds == {"select", "manage", "empty", "remove", "info", "containers",
          "pick", "templates", "plain"}
Names == {"select", "info", "add", "server_remove", "remove_server", "back",
          "container_action", "container", "template", "cancel"}
NoServer == <<>>     \* what a button that names no server means
Messages == [kind : Kinds, shown : ServerLists]
Message(kind, shown) == [kind |-> kind, shown |-> shown]
Plain == Message("plain", <<>>)
Nothing == [by |-> "nobody"]

TypeOK ==
  /\ created \in ServerLists
  /\ linked \in [Users -> SUBSET Servers]
  /\ chat \in [Users -> Seq(Messages)]
  /\ \A u \in Users : Len(chat[u]) <= MaxMessages
  /\ presses \in Seq([user : Users, message : Nat \ {0}, shown : ServerLists,
                      button : [name : Names, number : Nat,
                                meant : Servers \cup {NoServer}]])
  /\ Len(presses) <= MaxPresses

(* getUserServers and getUserServersWithInfo: ORDER BY created_at DESC.    *)
ServersOf_All(u) == created   \* mutant: no WHERE us.user_id
ServersOf(u) == Selection(created, linked[u])

Init ==
  /\ created = <<>>
  /\ linked = [u \in Users |-> {}]
  /\ chat = [u \in Users |-> <<>>]
  /\ presses = <<>> /\ act = Nothing

-----------------------------------------------------------------------------
(* The registry, with one transaction at a time (see ServerRegistry).      *)

Connect_Inserts(u, s) ==   \* mutant: inserts without looking for the key first
  /\ linked' = [linked EXCEPT ![u] = @ \cup {s}]
  /\ created' = <<s>> \o created
Connect_Newest(u, s) ==   \* mutant: a server that is connected again is listed first
  /\ linked' = [linked EXCEPT ![u] = @ \cup {s}]
  /\ created' = <<s>> \o Selection(created, Servers \ {s})
Connect(u, s) ==
  /\ linked' = [linked EXCEPT ![u] = @ \cup {s}]
  /\ created' = IF \E i \in DOMAIN created : created[i] = s
                  THEN created ELSE <<s>> \o created

RemoveServer_FromAll(u, s) ==   \* mutant: the row of a shared server is deleted
  /\ linked' = [v \in Users |-> linked[v] \ {s}]
  /\ created' = Selection(created, Servers \ {s})
RemoveServer(u, s) ==
  /\ linked' = [linked EXCEPT ![u] = @ \ {s}]
  /\ created' = IF \E v \in Users \ {u} : s \in linked[v]
                  THEN created ELSE Selection(created, Servers \ {s})

SameRegistry == UNCHANGED <<created, linked>>

(* u asked for the server "meant", seen in the list "shown", by a button   *)
(* or in a text; the bot acts on "server".                                 *)
ActOn(u, by, server, meant, shown) ==
  act' = [by |-> by, user |-> u, own |-> server \in linked[u],
          hit |-> server = meant, unchanged |-> shown = ServersOf(u)]
NoAct == act' = Nothing

-----------------------------------------------------------------------------
(* Commands.                                                               *)

Show(u, message) ==
  /\ Len(chat[u]) < MaxMessages
  /\ chat' = [chat EXCEPT ![u] = Append(@, message)]
  /\ UNCHANGED <<created, linked, presses>>

(* /add; a server that the user has already is only renamed.               *)
Add(u, s) ==
  /\ Connect(u, s)
  /\ act' = [by |-> "text", user |-> u, own |-> TRUE, hit |-> TRUE, unchanged |-> TRUE]
  /\ UNCHANGED <<chat, presses>>

(* /servers.                                                               *)
ShowServers(u) ==
  /\ Show(u, IF ServersOf(u) = <<>> THEN Message("empty", <<>>)
             ELSE Message("manage", ServersOf(u)))
  /\ NoAct

(* A command without a number, for a user of several servers.              *)
ShowSelection(u) ==
  /\ Len(ServersOf(u)) > 1
  /\ Show(u, Message("select", ServersOf(u)))
  /\ NoAct

(* getServerFromCommand: the numbers it takes; without one, the server of  *)
(* a user who has only one is number 1.                                    *)
Numbers(u) == 1 .. Len(ServersOf(u))

(* A command that uses its number: /temp, /memory, /rename_server.         *)
ByNumber(u) ==
  /\ \E n \in Numbers(u) :
       ActOn(u, "text", ServersOf(u)[n], ServersOf(u)[n], ServersOf(u))
  /\ SameRegistry /\ UNCHANGED <<chat, presses>>

(* /update and /status look at the number and use the first server.        *)
NumberIgnored(u) ==
  /\ \E n \in Numbers(u) :
       ActOn(u, "text", ServersOf(u)[1], ServersOf(u)[n], ServersOf(u))
  /\ SameRegistry /\ UNCHANGED <<chat, presses>>

(* /disk, /uptime, /processes and /network take no number.                 *)
FirstServer(u) ==
  /\ ServersOf(u) # <<>>
  /\ ActOn(u, "text", ServersOf(u)[1], ServersOf(u)[1], ServersOf(u))
  /\ SameRegistry /\ UNCHANGED <<chat, presses>>

(* /containers: the list of one server, with a button for each action.     *)
ShowContainers(u) ==
  /\ \E n \in Numbers(u) : Show(u, Message("containers", <<ServersOf(u)[n]>>))
  /\ NoAct

(* /remove_server.                                                         *)
RemoveByNumber(u) ==
  /\ \E n \in Numbers(u) :
       /\ RemoveServer(u, ServersOf(u)[n])
       /\ ActOn(u, "text", ServersOf(u)[n], ServersOf(u)[n], ServersOf(u))
  /\ UNCHANGED <<chat, presses>>

-----------------------------------------------------------------------------
(* Buttons.  The number in the callback data counts from 1 for a selection *)
(* and from 0 for a removal.                                               *)

Button(name, number, meant) == [name |-> name, number |-> number, meant |-> meant]
Buttons(m) ==
  LET shown == DOMAIN m.shown IN
  CASE m.kind = "select" -> {Button("select", n, m.shown[n]) : n \in shown}
    [] m.kind = "manage" -> {Button(b, 0, NoServer) : b \in {"info", "add", "server_remove"}}
    [] m.kind = "empty" -> {Button("add", 0, NoServer)}
    [] m.kind = "remove" -> {Button("remove_server", n - 1, m.shown[n]) : n \in shown}
                              \cup {Button("back", 0, NoServer)}
    [] m.kind = "info" -> {Button("back", 0, NoServer)}
    [] m.kind = "containers" -> {Button("container_action", 0, NoServer)}
    [] m.kind = "pick" -> {Button("container", 0, m.shown[1]), Button("cancel", 0, NoServer)}
    [] m.kind = "templates" -> {Button("template", 0, m.shown[1]), Button("cancel", 0, NoServer)}
    [] m.kind = "plain" -> {}

(* A press, also a second one of the same button.                          *)
Press(u) ==
  /\ Len(presses) < MaxPresses
  /\ \E m \in 1 .. Len(chat[u]) : \E b \in Buttons(chat[u][m]) :
       presses' = Append(presses, [user |-> u, message |-> m, button |-> b,
                                   shown |-> chat[u][m].shown])
  /\ NoAct /\ UNCHANGED <<created, linked, chat>>

(* handleCallbackQuery takes the first press, if it is one of button b.    *)
Query == Head(presses)
Pressed(b) ==
  /\ presses # <<>>
  /\ Query.button.name = b
  /\ presses' = Tail(presses)
Mine == ServersOf(Query.user)

(* The message is edited; if Telegram refuses, it keeps its buttons.       *)
Edit(message) ==
  \/ chat' = [chat EXCEPT ![Query.user][Query.message] = message]
  \/ UNCHANGED chat

ActOnPressed(server) ==
  ActOn(Query.user, "button", server, Query.button.meant, Query.shown)

(* selectServer, then the command; the answer is a new message.            *)
SelectPressed_Unshifted ==   \* mutant: servers[num] in selectServer
  /\ Pressed("select")
  /\ IF Query.button.number < Len(Mine)
       THEN ActOnPressed(Mine[Query.button.number + 1]) ELSE NoAct
  /\ SameRegistry /\ UNCHANGED chat
SelectPressed ==
  /\ Pressed("select")
  /\ IF Query.button.number <= Len(Mine)
       THEN ActOnPressed(Mine[Query.button.number]) ELSE NoAct
  /\ SameRegistry /\ UNCHANGED chat

(* The text on adding a server.                                            *)
AddPressed ==
  /\ Pressed("add")
  /\ Edit(Message("info", <<>>))
  /\ NoAct /\ SameRegistry

(* The status and the rename text, which list the servers.                 *)
InfoPressed ==
  /\ Pressed("info")
  /\ Edit(IF Mine = <<>> THEN Plain ELSE Message("info", <<>>))
  /\ NoAct /\ SameRegistry

BackPressed ==
  /\ Pressed("back")
  /\ Edit(IF Mine = <<>> THEN Message("empty", <<>>) ELSE Message("manage", Mine))
  /\ NoAct /\ SameRegistry

RemoveMenuPressed ==
  /\ Pressed("server_remove")
  /\ Edit(IF Mine = <<>> THEN Plain ELSE Message("remove", Mine))
  /\ NoAct /\ SameRegistry

(* handleRemoveServerConfirm.                                              *)
RemoveConfirmed ==
  /\ Pressed("remove_server")
  /\ Query.button.number < Len(Mine)
  /\ RemoveServer(Query.user, Mine[Query.button.number + 1])
  /\ ActOnPressed(Mine[Query.button.number + 1])
  /\ Edit(Message("info", <<>>))

(* The number is no longer in the list, or the transaction fails.          *)
RemoveRefused ==
  /\ Pressed("remove_server")
  /\ Edit(Plain)
  /\ NoAct /\ SameRegistry

(* handleContainerCreateTemplates.                                         *)
Templates == Message("templates", Mine)

(* handleContainerActionSelection: the containers of the first server.     *)
ContainerActionPressed ==
  /\ Pressed("container_action")
  /\ IF Mine = <<>> THEN UNCHANGED chat
     ELSE Edit(Message("pick", Mine)) \/ Edit(Templates) \/ Edit(Plain)
  /\ NoAct /\ SameRegistry

OnFirstServer ==
  /\ IF Mine = <<>> THEN UNCHANGED chat /\ NoAct
     ELSE Edit(Plain) /\ ActOnPressed(Mine[1])
  /\ SameRegistry

(* handleContainerActionCallback and handleContainerAction.                *)
ContainerPressed == Pressed("container") /\ OnFirstServer

(* handleTemplateSelection and createContainerFromTemplate.                *)
TemplatePressed == Pressed("template") /\ OnFirstServer

(* validateContainerAction refuses the name of the container.              *)
ContainerRefused ==
  /\ Pressed("container") /\ Mine # <<>>
  /\ Edit(Plain)
  /\ NoAct /\ SameRegistry

CancelPressed ==
  /\ Pressed("cancel")
  /\ Edit(Plain)
  /\ NoAct /\ SameRegistry

-----------------------------------------------------------------------------
HandleMessage(u) ==
  \/ \E s \in Servers : Add(u, s)
  \/ ShowServers(u) \/ ShowSelection(u) \/ ByNumber(u)
  \/ NumberIgnored(u) \/ FirstServer(u)
  \/ ShowContainers(u) \/ RemoveByNumber(u)

HandleCallbackQuery ==
  \/ SelectPressed \/ AddPressed \/ InfoPressed \/ BackPressed \/ RemoveMenuPressed
  \/ RemoveConfirmed \/ RemoveRefused \/ ContainerActionPressed
  \/ ContainerPressed \/ TemplatePressed \/ ContainerRefused \/ CancelPressed

Next == (\E u \in Users : HandleMessage(u) \/ Press(u)) \/ HandleCallbackQuery

Spec == Init /\ [][Next]_vars

-----------------------------------------------------------------------------
(* Properties.                                                             *)

(* Whatever is pressed and however late, the bot acts only on a server of  *)
(* the user who pressed.                                                   *)
OwnServersOnly == act # Nothing => act.own

(* If the user's list is what it was when the buttons were shown, the bot  *)
(* acts on the server the button named: the two ways to number the buttons *)
(* agree with the two ways to read the numbers.                            *)
UnchangedListHits ==
  act # Nothing /\ act.by = "button" /\ act.unchanged => act.hit

(* No user's numbers move because of what another user does, although they *)
(* share servers, names and rows: only an own /add or removal moves them.  *)
OthersKeepMyNumbers ==
  [][\A u \in Users : ServersOf(u)' # ServersOf(u) => act' # Nothing /\ act'.user = u]_vars

(* Whatever is typed or pressed, in a chat as stale as can be, an update   *)
(* does one operation of Registry or none: it connects a user to one       *)
(* server, or disconnects a user from one server.                          *)
Reg == INSTANCE Registry WITH
         Keys <- Servers, registered <- Servers,
         members <- {m \in Users \X Servers : m[2] \in linked[m[1]]}
ImplementsRegistry == Reg!Spec

-----------------------------------------------------------------------------
(* What comments say and the code does not do.                             *)

(* callback_router.go: "Execute command with selected server".  The bot    *)
(* acts on the server that the pressed button named.                       *)
ButtonHitsItsServer ==
  act # Nothing /\ act.by = "button" => act.hit
=============================================================================
