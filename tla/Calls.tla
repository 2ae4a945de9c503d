------------------------------- MODULE Calls -------------------------------
(***************************************************************************)
(* What a caller of TachyonClient::request is promised                     *)
(* (tauri-plugin-coilbox-multiplayer/src/tachyon_rpc.rs), whatever queue,  *)
(* timers and task are behind it: every call ends, once, in an outcome     *)
(* that is true of what became of its request.                             *)
(***************************************************************************)
CONSTANTS
  Call,       \* requests, one for each time a caller asks
  CommandOf   \* the command of each

VARIABLES
  call,    \* "idle", "waiting" or the outcome the caller was given
  sent,    \* requests the socket was given
  ended    \* the connection is over

vars == <<call, sent, ended>>

Outcomes == {"answered", "unsupported", "timedOut", "notSent", "closed"}

TypeOK ==
  /\ call \in [Call -> {"idle", "waiting"} \cup Outcomes]
  /\ sent \subseteq Call
  /\ ended \in BOOLEAN

Init ==
  /\ call = [c \in Call |-> "idle"]
  /\ sent = {}
  /\ ended = FALSE

Becomes(c, what) == call' = [call EXCEPT ![c] = what] /\ UNCHANGED <<sent, ended>>

Ask(c) == call[c] = "idle" /\ Becomes(c, "waiting")

\* The server has said before that it has not built the command.
AskInVain(c) ==
  /\ call[c] = "idle"
  /\ \E d \in sent : CommandOf[d] = CommandOf[c]
  /\ Becomes(c, "unsupported")

\* A request goes out at most once, and never after its caller has gone.
Send(c) ==
  /\ call[c] = "waiting"
  /\ c \notin sent
  /\ ~ended
  /\ sent' = sent \cup {c}
  /\ UNCHANGED <<call, ended>>

\* An answer comes only of a request that went out; one that is said not to
\* have been sent did not and will not reach the server.
Tell(c, outcome) ==
  /\ call[c] = "waiting"
  /\ outcome \in {"answered", "unsupported"} => c \in sent
  /\ outcome = "notSent" => c \notin sent
  /\ outcome = "closed" => ended
  /\ Becomes(c, outcome)

End == ended' = TRUE /\ UNCHANGED <<call, sent>>

Next ==
  \/ \E c \in Call : Ask(c) \/ AskInVain(c) \/ Send(c) \/ \E outcome \in Outcomes : Tell(c, outcome)
  \/ End

Spec == Init /\ [][Next]_vars
=============================================================================
