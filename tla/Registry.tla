------------------------------- MODULE Registry -------------------------------
(***************************************************************************)
(* What the registry of servers promises to the rest of the bot            *)
(* (internal/bot/database.go): agents register keys, and /add and          *)
(* /remove_server connect one user to one registered server, or disconnect *)
(* one user from one server, in one step each and without a trace on       *)
(* anybody else.  It says nothing about rows, IDs, transactions or lists:  *)
(* ServerRegistry shows that the statements of concurrent transactions     *)
(* come down to these steps, ServerMenu that commands and buttons do.      *)
(***************************************************************************)

CONSTANTS Users, Keys

VARIABLES
  registered,        \* the keys that an installation has registered
  members            \* who is connected to what

registryVars == <<registered, members>>

Init ==
  /\ registered \subseteq Keys
  /\ members = {}

Register(k) ==
  /\ registered' = registered \cup {k}
  /\ UNCHANGED members

Connect(u, k) ==
  /\ k \in registered
  /\ members' = members \cup {<<u, k>>}
  /\ UNCHANGED registered

Disconnect(u, k) ==
  /\ members' = members \ {<<u, k>>}
  /\ UNCHANGED registered

Next ==
  \/ \E k \in Keys : Register(k)
  \/ \E u \in Users, k \in Keys : Connect(u, k) \/ Disconnect(u, k)

Spec == Init /\ [][Next]_registryVars
=============================================================================
