----------------------------- MODULE FourStates -----------------------------
(***************************************************************************)
(* What the rule of coilbox-relay-agent/src/stopping.rs comes to, the four *)
(* states that its head tabulates: what Coilbox, the players and the       *)
(* machine do, and when the relay agent may stop, whatever pipe, flags,    *)
(* tasks and relay it has to get there.  The engine is the one Coilbox     *)
(* named last, from the moment that it is named; the agent hears of that,  *)
(* and of what else Coilbox says, later.                                   *)
(***************************************************************************)
CONSTANTS
  Pid,    \* engine processes Coilbox may launch
  NoPid   \* no engine named yet

VARIABLES
  coilbox,      \* "there" or "gone": whether it can still speak to the agent
  said,         \* what has been said to end it: "stop", "over", "note"
  named,        \* the engine Coilbox named last
  engineState,  \* the processes themselves
  heard,        \* a player has ever been heard
  quiet,        \* nothing has been carried for IDLE_TIMEOUT
  revoked,      \* the TURN server has withdrawn a credential
  agent         \* "keeps" running, "stops", or has "gone" or been "refused"

vars == <<coilbox, said, named, engineState, heard, quiet, revoked, agent>>

Init ==
  /\ coilbox = "there"
  /\ said = {}
  /\ named = NoPid
  /\ engineState = [p \in Pid |-> "unborn"]
  /\ heard = FALSE
  /\ quiet = FALSE
  /\ revoked = FALSE
  /\ agent = "keeps"

Runs == agent \in {"keeps", "stops"}

-----------------------------------------------------------------------------
(* Coilbox.  "Stop" and "over" are its last words.                         *)

Says(word) ==
  /\ Runs /\ coilbox = "there"
  /\ said' = said \cup {word}
  /\ coilbox' = "gone"
  /\ UNCHANGED <<named, engineState, heard, quiet, revoked, agent>>

Closes ==
  /\ coilbox = "there"
  /\ coilbox' = "gone"
  /\ UNCHANGED <<said, named, engineState, heard, quiet, revoked, agent>>

LeavesNote ==
  /\ Runs /\ coilbox = "gone"
  /\ said' = said \cup {"note"}
  /\ UNCHANGED <<coilbox, named, engineState, heard, quiet, revoked, agent>>

Names(pid) ==
  /\ Runs /\ coilbox = "there"
  /\ engineState[pid] = "running"
  /\ named' = pid
  /\ UNCHANGED <<coilbox, said, engineState, heard, quiet, revoked, agent>>

-----------------------------------------------------------------------------
(* The machine, the players and the relay.                                 *)

Starts(pid) ==
  /\ coilbox = "there"
  /\ \A p \in Pid : engineState[p] # "running"
  /\ engineState[pid] = "unborn"
  /\ engineState' = [engineState EXCEPT ![pid] = "running"]
  /\ UNCHANGED <<coilbox, said, named, heard, quiet, revoked, agent>>

Exits(pid) ==
  /\ engineState[pid] = "running"
  /\ engineState' = [engineState EXCEPT ![pid] = "exited"]
  /\ UNCHANGED <<coilbox, said, named, heard, quiet, revoked, agent>>

Carries ==
  /\ Runs
  /\ quiet' = FALSE
  /\ heard' \in {heard, TRUE}
  /\ UNCHANGED <<coilbox, said, named, engineState, revoked, agent>>

FallsQuiet ==
  /\ Runs
  /\ quiet' = TRUE
  /\ UNCHANGED <<coilbox, said, named, engineState, heard, revoked, agent>>

Revokes ==
  /\ revoked' = TRUE
  /\ UNCHANGED <<coilbox, said, named, engineState, heard, quiet, agent>>

-----------------------------------------------------------------------------
(* The agent.  While Coilbox is there, Coilbox decides.  Once it has gone, *)
(* or has said that the battle is over, the agent does, on the engine, on  *)
(* its traffic, and at once if no player was ever heard and somebody said  *)
(* that there is nothing more to come.                                     *)

NothingToProtect == said \cap {"over", "note"} # {} /\ ~heard
NamedGone == named # NoPid /\ engineState[named] # "running"

Reason ==
  \/ "stop" \in said
  \/ coilbox = "gone" /\ (NothingToProtect \/ NamedGone \/ quiet)

Becomes(what) ==
  agent' = what /\ UNCHANGED <<coilbox, said, named, engineState, heard, quiet, revoked>>

Stops == agent = "keeps" /\ Reason /\ Becomes("stops")
Goes == agent = "stops" /\ Becomes("gone")
GivesUp == Runs /\ revoked /\ Becomes("refused")

Next ==
  \/ \E word \in {"stop", "over"} : Says(word)
  \/ Closes \/ LeavesNote
  \/ \E pid \in Pid : Names(pid) \/ Starts(pid) \/ Exits(pid)
  \/ Carries \/ FallsQuiet \/ Revokes
  \/ Stops \/ Goes \/ GivesUp

Spec == Init /\ [][Next]_vars

-----------------------------------------------------------------------------
(* A game that players are in, whose engine is the one Coilbox named last, *)
(* and that has carried anything lately, is never what an agent stops on   *)
(* that Coilbox did not tell to: not when the battle is left, not when     *)
(* Coilbox closes, and not on an earlier game's engine.                    *)
PlayedGameKept ==
  [][agent = "keeps" /\ agent' = "stops" =>
       \/ "stop" \in said
       \/ ~ /\ heard
            /\ named # NoPid /\ engineState[named] = "running"
            /\ ~quiet]_vars
=============================================================================
