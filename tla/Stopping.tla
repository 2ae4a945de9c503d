------------------------------ MODULE Stopping ------------------------------
(***************************************************************************)
(* When the relay agent stops (coilbox-relay-agent/src/stopping.rs).       *)
(*                                                                         *)
(* The agent knows seven things about whether it is still needed.  They    *)
(* are written by the control pipe's reader, by the forwarding loop and by *)
(* the note reader, and read once a second by the stop rule.  This module  *)
(* is those seven, the writes to them and the rule; RelayAgent puts the    *)
(* writers around it.                                                      *)
(***************************************************************************)
EXTENDS Naturals

CONSTANTS
  Pid,         \* engine processes Coilbox may launch
  NoPid,       \* no engine named yet (0 in the code)
  IdleTimeout  \* IDLE_TIMEOUT, in ticks

ASSUME StoppingAssumption ==
  /\ NoPid \notin Pid
  /\ IdleTimeout \in Nat \ {0}

VARIABLES
  asked,         \* Coilbox asked the agent to stop
  coilboxGone,   \* the control pipe reached its end
  battleOver,    \* Coilbox said the lobby battle has ended
  askedInANote,  \* a later Coilbox left a note asking the agent to stop
  heardAPlayer,  \* a datagram has arrived through the relay
  engine,        \* the engine Coilbox named last
  idle,          \* ticks since the relay carried a datagram, up to IdleTimeout
  engineState    \* the processes themselves: what the operating system knows

flags == <<asked, coilboxGone, battleOver, askedInANote, heardAPlayer, engine>>
stoppingVars == <<asked, coilboxGone, battleOver, askedInANote, heardAPlayer,
                  engine, idle, engineState>>

StoppingTypeOK ==
  /\ asked \in BOOLEAN
  /\ coilboxGone \in BOOLEAN
  /\ battleOver \in BOOLEAN
  /\ askedInANote \in BOOLEAN
  /\ heardAPlayer \in BOOLEAN
  /\ engine \in Pid \cup {NoPid}
  /\ idle \in 0..IdleTimeout
  /\ engineState \in [Pid -> {"unborn", "running", "exited"}]

StoppingInit ==
  /\ asked = FALSE
  /\ coilboxGone = FALSE
  /\ battleOver = FALSE
  /\ askedInANote = FALSE
  /\ heardAPlayer = FALSE
  /\ engine = NoPid
  /\ idle = 0
  /\ engineState = [p \in Pid |-> "unborn"]

-----------------------------------------------------------------------------
(* The writes.                                                             *)

CoilboxAsked ==
  asked' = TRUE /\ UNCHANGED <<coilboxGone, battleOver, askedInANote, heardAPlayer,
                               engine, idle, engineState>>

CoilboxHasGone ==
  coilboxGone' = TRUE /\ UNCHANGED <<asked, battleOver, askedInANote, heardAPlayer,
                                     engine, idle, engineState>>

BattleIsOver ==
  battleOver' = TRUE /\ UNCHANGED <<asked, coilboxGone, askedInANote, heardAPlayer,
                                    engine, idle, engineState>>

CoilboxLeftANote ==
  askedInANote' = TRUE /\ UNCHANGED <<asked, coilboxGone, battleOver, heardAPlayer,
                                      engine, idle, engineState>>

EngineIs(pid) ==
  engine' = pid /\ UNCHANGED <<asked, coilboxGone, battleOver, askedInANote,
                               heardAPlayer, idle, engineState>>

(* Counted::send_to: a datagram went out, the agent's own probes included. *)
CarriedOut ==
  idle' = 0 /\ UNCHANGED <<flags, engineState>>

(* Counted::recv_from: one arrived, so somebody is playing.                *)
CarriedIn ==
  /\ idle' = 0
  /\ heardAPlayer' = TRUE
  /\ UNCHANGED <<asked, coilboxGone, battleOver, askedInANote, engine, engineState>>

(* The world: the clock, and engines coming and going.                     *)
TimePasses ==
  /\ idle' = IF idle < IdleTimeout THEN idle + 1 ELSE idle
  /\ UNCHANGED <<flags, engineState>>

EngineStarts(pid) ==
  /\ engineState[pid] = "unborn"
  /\ engineState' = [engineState EXCEPT ![pid] = "running"]
  /\ UNCHANGED <<flags, idle>>

EngineExits(pid) ==
  /\ engineState[pid] = "running"
  /\ engineState' = [engineState EXCEPT ![pid] = "exited"]
  /\ UNCHANGED <<flags, idle>>

-----------------------------------------------------------------------------
(* Stopping::reason.                                                       *)

(* Coilbox can no longer say whether anybody is playing.                   *)
LetGo == coilboxGone \/ battleOver

EngineGone == engine # NoPid /\ engineState[engine] # "running"

(* As if leaving the battle were the end of the game.                      *)
NoLongerNeededIfOver == asked \/ battleOver

(* As if the backstop ran while Coilbox is there, and as if nothing did.   *)
NoLongerNeededIfQuiet ==
  \/ asked
  \/ battleOver /\ ~heardAPlayer
  \/ LetGo /\ ((askedInANote /\ ~heardAPlayer) \/ EngineGone)
  \/ idle >= IdleTimeout

NoLongerNeededIfGone ==
  \/ asked
  \/ battleOver /\ ~heardAPlayer
  \/ LetGo /\ ((askedInANote /\ ~heardAPlayer) \/ EngineGone)

(* Some reason to stop holds.  Which one is named first matters only to    *)
(* the log line.                                                           *)
NoLongerNeeded ==
  \/ asked
  \/ battleOver /\ ~heardAPlayer
  \/ LetGo /\ \/ askedInANote /\ ~heardAPlayer
              \/ EngineGone
              \/ idle >= IdleTimeout
=============================================================================
