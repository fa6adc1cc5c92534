----------------------------- MODULE CommandRPC -----------------------------
(***************************************************************************)
(* What the command path of ServerEye promises to the code that calls      *)
(* sendCommandViaStreams (internal/bot/streams_api.go): a call is issued,  *)
(* stays pending, and ends exactly once, either answered or failed.  It is *)
(* answered only when the agent has executed the command that this very    *)
(* call issued, and only issued commands are ever executed.  The promise   *)
(* is deliberately silent about how often a command runs, about whether a  *)
(* failed call's command runs, and about losing commands: the transports   *)
(* guarantee none of these.                                                *)
(***************************************************************************)

CONSTANT Requests    \* the calls; each one has a fresh command ID

VARIABLES
  status,            \* how far each call has got
  issued,            \* the calls whose command reached the broker
  executed           \* the calls whose command the agent has executed

rpcVars == <<status, issued, executed>>

Statuses == {"idle", "pending", "answered", "failed"}

Init ==
  /\ status = [r \in Requests |-> "idle"]
  /\ issued = {}
  /\ executed = {}

(* A call starts; over Streams its command is sent in the same step.       *)
Issue(r) ==
  /\ status[r] = "idle"
  /\ status' = [status EXCEPT ![r] = "pending"]
  /\ issued' \in {issued, issued \cup {r}}
  /\ UNCHANGED executed

(* Over Pub/Sub the command of a call is sent later, or never.             *)
Send(r) ==
  /\ status[r] = "pending"
  /\ issued' = issued \cup {r}
  /\ UNCHANGED <<status, executed>>

Execute(r) ==
  /\ r \in issued
  /\ executed' = executed \cup {r}
  /\ UNCHANGED <<status, issued>>

Answer(r) ==
  /\ status[r] = "pending"
  /\ r \in executed
  /\ status' = [status EXCEPT ![r] = "answered"]
  /\ UNCHANGED <<issued, executed>>

(* Several calls fail together when the bot that runs them goes down.      *)
Fail(S) ==
  /\ \A r \in S : status[r] = "pending"
  /\ status' = [r \in Requests |-> IF r \in S THEN "failed" ELSE status[r]]
  /\ UNCHANGED <<issued, executed>>

Next ==
  \/ \E r \in Requests : Issue(r) \/ Send(r) \/ Execute(r) \/ Answer(r)
  \/ \E S \in SUBSET Requests : Fail(S)

Spec == Init /\ [][Next]_rpcVars

(* A pending call does not stay pending: every call carries a deadline.    *)
EveryCallEnds ==
  \A r \in Requests : status[r] = "pending" ~> status[r] \in {"answered", "failed"}

=============================================================================
