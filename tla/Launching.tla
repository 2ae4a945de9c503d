----------------------------- MODULE Launching -----------------------------
(***************************************************************************)
(* Starting a game: src/play/PlayProvider.tsx over                         *)
(* tauri-plugin-coilbox-play/src/lib.rs.                                   *)
(*                                                                         *)
(* The page keeps which run is current and how far it has got, in refs     *)
(* that its callbacks read at once.  A press of launch waits several times *)
(* (for the runs Rust has up, for the engine's folder, for the engine to   *)
(* end), and anything may happen meanwhile: another press, a cancel, a     *)
(* reload of the page, which forgets all of it.  Rust looks for a live     *)
(* engine, prepares, and only then spawns and registers one.  Calls,       *)
(* answers and the `started` event travel on their own and in any order.   *)
(***************************************************************************)
EXTENDS Naturals

CONSTANTS
  Run,         \* presses of launch, each with the run id it will take
  NoRun,
  MaxReloads   \* bound: reloads of the page

\* Who asks play_status beside the presses: the page as it mounts, and the
\* timer that watches an adopted run.
Mount == "mount"
Poll == "poll"
Asker == Run \cup {Mount, Poll}

ASSUME LaunchingAssumption ==
  /\ NoRun \notin Run
  /\ Mount \notin Run /\ Poll \notin Run
  /\ MaxReloads \in Nat

VARIABLES
  phase,     \* phaseRef: "idle", "starting" or "running"
  active,    \* activeRunIdRef
  adopted,   \* adoptedRunId
  press,     \* where each press has got to; "lost" to a reload
  held,      \* the run a press found running
  ask,       \* each asker's call of play_status: "no", "asked", "answered"
  told,      \* the live runs it was answered
  pollFor,   \* the adopted run the timer last asked for
  command,   \* each run's launch command in Rust, its engine included
  started,   \* `started` events on their way to the page
  settled,   \* launch answers on their way to the page
  cancels,   \* play_cancel calls on their way to Rust
  gaveUp,    \* history: runs the player has cancelled
  lost,      \* history: runs whose launch a reload forgot before the spawn
  reloads

pageVars == <<phase, active, adopted, press, held, pollFor>>
askVars == <<ask, told>>
wireVars == <<started, settled, cancels>>
historyVars == <<gaveUp, lost, reloads>>
vars == <<pageVars, askVars, command, wireVars, historyVars>>

\* "up" and "down" are in the registry, with the process alive or gone;
\* "taken" was removed from it and killed by play_cancel.
Live(r) == command[r] = "up"
Registered(r) == command[r] \in {"up", "down"}
LiveRuns == {r \in Run : Live(r)}

TypeOK ==
  /\ phase \in {"idle", "starting", "running"}
  /\ active \in Run \cup {NoRun}
  /\ adopted \in Run \cup {NoRun}
  /\ press \in [Run -> {"none", "guarding", "looking", "checking", "launched", "over", "lost"}]
  /\ held \in [Run -> Run \cup {NoRun}]
  /\ ask \in [Asker -> {"no", "asked", "answered"}]
  /\ told \in [Asker -> SUBSET Run]
  /\ pollFor \in Run \cup {NoRun}
  /\ command \in [Run -> {"none", "invoked", "checked", "up", "down", "taken", "over"}]
  /\ started \subseteq Run /\ settled \subseteq Run /\ cancels \subseteq Run
  /\ gaveUp \subseteq Run /\ lost \subseteq Run
  /\ reloads \in 0 .. MaxReloads

Init ==
  /\ phase = "idle" /\ active = NoRun /\ adopted = NoRun
  /\ press = [r \in Run |-> "none"]
  /\ held = [r \in Run |-> NoRun]
  /\ ask = [q \in Asker |-> IF q = Mount THEN "asked" ELSE "no"]
  /\ told = [q \in Asker |-> {}]
  /\ pollFor = NoRun
  /\ command = [r \in Run |-> "none"]
  /\ started = {} /\ settled = {} /\ cancels = {}
  /\ gaveUp = {} /\ lost = {} /\ reloads = 0
-----------------------------------------------------------------------------
(* play_status. *)

Asks(q) ==
  /\ ask' = [ask EXCEPT ![q] = "asked"]
  /\ UNCHANGED told

\* The page has taken q's answer.
Heard(q) ==
  /\ ask[q] = "answered"
  /\ ask' = [ask EXCEPT ![q] = "no"]
  /\ told' = [told EXCEPT ![q] = {}]

StatusRead(q) ==
  /\ ask[q] = "asked"
  /\ ask' = [ask EXCEPT ![q] = "answered"]
  /\ told' = [told EXCEPT ![q] = LiveRuns]
  /\ UNCHANGED <<pageVars, command, wireVars, historyVars>>
-----------------------------------------------------------------------------
(* The page. *)

ClearRun ==
  /\ phase' = "idle"
  /\ active' = NoRun
  /\ adopted' = NoRun

\* As it would be if an engine that was found were not watched.
AdoptUnwatched(r) ==
  /\ phase' = "running"
  /\ active' = r
  /\ adopted' = NoRun

Adopt(r) ==
  /\ phase' = "running"
  /\ active' = r
  /\ adopted' = r

At(r, where) == press' = [press EXCEPT ![r] = where]

\* The part of start() after the guard: the run becomes the current one and
\* the page asks whether an engine it does not know of is up.
Begin(r) ==
  /\ phase' = "starting"
  /\ active' = r
  /\ adopted' = NoRun
  /\ At(r, "looking")

\* With a run on the badge, ask whether its engine is really there.
Guards(r) ==
  /\ phase = "running"
  /\ At(r, "guarding")
  /\ held' = [held EXCEPT ![r] = active]
  /\ Asks(r)
  /\ UNCHANGED <<phase, active, adopted>>

\* As it would be if a launch on its way did not stop another press.
PressAnyway(r) ==
  /\ press[r] = "none"
  /\ Guards(r) \/ (phase # "running" /\ Begin(r) /\ Asks(r) /\ UNCHANGED held)
  /\ UNCHANGED <<pollFor, command, wireVars, historyVars>>

\* launch().
Press(r) ==
  /\ press[r] = "none"
  /\ \/ Guards(r)
     \/ /\ phase = "starting"
        /\ At(r, "over")
        /\ UNCHANGED <<phase, active, adopted, held, askVars>>
     \/ /\ phase = "idle"
        /\ Begin(r)
        /\ Asks(r)
        /\ UNCHANGED held
  /\ UNCHANGED <<pollFor, command, wireVars, historyVars>>

\* The badge has no engine: clear it, and go on as if it had not been there.
BadgeIsStale(r) == held[r] \notin told[r] /\ active = held[r]

Guarded(r) ==
  /\ press[r] = "guarding"
  /\ ask[r] = "answered"
  /\ IF BadgeIsStale(r) \/ phase = "idle"
     THEN /\ Begin(r)
          /\ ask' = [ask EXCEPT ![r] = "asked"]
          /\ told' = [told EXCEPT ![r] = {}]
     ELSE /\ At(r, "over")
          /\ Heard(r)
          /\ UNCHANGED <<phase, active, adopted>>
  /\ held' = [held EXCEPT ![r] = NoRun]
  /\ UNCHANGED <<pollFor, command, wireVars, historyVars>>

\* An engine found up is taken on instead; otherwise the launch goes on,
\* whether or not the player has given it up.
Looked(r) ==
  /\ press[r] = "looking"
  /\ Heard(r)
  /\ IF told[r] # {} /\ active = r
     THEN /\ \E found \in told[r] : Adopt(found)
          /\ At(r, "over")
     ELSE At(r, "checking") /\ UNCHANGED <<phase, active, adopted>>
  /\ UNCHANGED <<held, pollFor, command, wireVars, historyVars>>

\* The engine's folder is there and the launch is still wanted.
Launch(r) ==
  /\ press[r] = "checking"
  /\ active = r
  /\ At(r, "launched")
  /\ command' = [command EXCEPT ![r] = "invoked"]
  /\ UNCHANGED <<phase, active, adopted, held, pollFor, askVars, wireVars, historyVars>>

GivenUp(r) ==
  /\ press[r] = "checking"
  /\ active # r
  /\ At(r, "over")
  /\ UNCHANGED <<phase, active, adopted, held, pollFor, askVars, command, wireVars, historyVars>>

EngineMissing(r) ==
  /\ press[r] = "checking"
  /\ At(r, "over")
  /\ IF active = r THEN ClearRun ELSE UNCHANGED <<phase, active, adopted>>
  /\ UNCHANGED <<held, pollFor, askVars, command, wireVars, historyVars>>

\* As it would be if the event did not look whose run is current.
StartedRegardless(r) ==
  /\ r \in started
  /\ started' = started \ {r}
  /\ phase' = IF press[r] = "lost" THEN phase ELSE "running"
  /\ UNCHANGED <<active, adopted, press, held, pollFor, askVars, command, settled, cancels, historyVars>>

\* The `started` event: the engine of a launch that was given up is killed.
StartedArrives(r) ==
  /\ r \in started
  /\ started' = started \ {r}
  /\ IF press[r] = "lost" THEN UNCHANGED <<phase, cancels>>
     ELSE IF active # r THEN cancels' = cancels \cup {r} /\ UNCHANGED phase
     ELSE phase' = "running" /\ UNCHANGED cancels
  /\ UNCHANGED <<active, adopted, press, held, pollFor, askVars, command, settled, historyVars>>

\* As it would be if the promise did not look whose run is current.
SettlesRegardless(r) ==
  /\ r \in settled
  /\ settled' = settled \ {r}
  /\ IF press[r] = "launched" THEN At(r, "over") /\ ClearRun
     ELSE UNCHANGED <<phase, active, adopted, press>>
  /\ UNCHANGED <<held, pollFor, askVars, command, started, cancels, historyVars>>

\* The launch promise settles, with an outcome or an error.
Settles(r) ==
  /\ r \in settled
  /\ settled' = settled \ {r}
  /\ IF press[r] = "launched"
     THEN /\ At(r, "over")
          /\ IF active = r THEN ClearRun ELSE UNCHANGED <<phase, active, adopted>>
     ELSE UNCHANGED <<phase, active, adopted, press>>
  /\ UNCHANGED <<held, pollFor, askVars, command, started, cancels, historyVars>>

\* cancel().
Cancel ==
  /\ active # NoRun
  /\ ClearRun
  /\ cancels' = cancels \cup {active}
  /\ gaveUp' = gaveUp \cup {active}
  /\ UNCHANGED <<press, held, pollFor, askVars, command, started, settled, lost, reloads>>

\* A page that has just mounted takes on an engine it finds, unless a launch
\* has begun meanwhile.
Mounted ==
  /\ Heard(Mount)
  /\ IF phase = "idle" /\ told[Mount] # {}
     THEN \E found \in told[Mount] : Adopt(found)
     ELSE UNCHANGED <<phase, active, adopted>>
  /\ UNCHANGED <<press, held, pollFor, command, wireVars, historyVars>>

\* Every ASK_EVERY_MS, about the run that was adopted.
PollAsks ==
  /\ adopted # NoRun
  /\ ask[Poll] = "no"
  /\ Asks(Poll)
  /\ pollFor' = adopted
  /\ UNCHANGED <<phase, active, adopted, press, held, command, wireVars, historyVars>>

PollAnswered ==
  /\ Heard(Poll)
  /\ pollFor' = NoRun
  /\ IF pollFor \notin told[Poll] /\ active = pollFor
     THEN ClearRun
     ELSE UNCHANGED <<phase, active, adopted>>
  /\ UNCHANGED <<press, held, command, wireVars, historyVars>>

InFlight(r) == command[r] \in {"invoked", "checked"}

\* The webview reloads: refs, promises and channels go with the old page.
Reload ==
  /\ reloads < MaxReloads
  /\ reloads' = reloads + 1
  /\ ClearRun
  /\ press' = [r \in Run |-> IF press[r] \in {"none", "over"} THEN press[r] ELSE "lost"]
  /\ held' = [r \in Run |-> NoRun]
  /\ pollFor' = NoRun
  /\ ask' = [q \in Asker |-> IF q = Mount THEN "asked" ELSE "no"]
  /\ told' = [q \in Asker |-> {}]
  /\ started' = {} /\ settled' = {}
  /\ lost' = lost \cup {r \in Run : InFlight(r)}
  /\ UNCHANGED <<command, cancels, gaveUp>>
-----------------------------------------------------------------------------
(* Rust. *)

Command(r, where) == command' = [command EXCEPT ![r] = where]
RustAlone == UNCHANGED <<pageVars, askVars, historyVars>>

Refused(r) ==
  /\ Command(r, "over")
  /\ settled' = settled \cup {r}
  /\ UNCHANGED <<started, cancels>>

\* play_launch up to the task that spawns: one game at a time.
LooksForLive(r) ==
  /\ command[r] = "invoked"
  /\ IF LiveRuns # {} THEN Refused(r) ELSE Command(r, "checked") /\ UNCHANGED wireVars
  /\ RustAlone

\* The script is written and the engine spawned and registered; or not.
Spawns(r) ==
  /\ command[r] = "checked"
  /\ \/ /\ Command(r, "up")
        /\ started' = started \cup {r}
        /\ UNCHANGED <<settled, cancels>>
     \/ Refused(r)
  /\ RustAlone

EngineExits(r) ==
  /\ command[r] = "up"
  /\ Command(r, "down")
  /\ UNCHANGED wireVars
  /\ RustAlone

\* The poll loop finds the engine gone, or its entry taken.
PollLoop(r) ==
  /\ command[r] \in {"down", "taken"}
  /\ Command(r, "over")
  /\ settled' = settled \cup {r}
  /\ UNCHANGED <<started, cancels>>
  /\ RustAlone

\* play_cancel.
CancelArrives(r) ==
  /\ r \in cancels
  /\ cancels' = cancels \ {r}
  /\ IF Registered(r) THEN Command(r, "taken") ELSE UNCHANGED command
  /\ UNCHANGED <<started, settled>>
  /\ RustAlone

Next ==
  \/ \E q \in Asker : StatusRead(q)
  \/ \E r \in Run :
       \/ Press(r) \/ Guarded(r) \/ Looked(r)
       \/ Launch(r) \/ GivenUp(r) \/ EngineMissing(r)
       \/ StartedArrives(r) \/ Settles(r)
       \/ LooksForLive(r) \/ Spawns(r) \/ EngineExits(r) \/ PollLoop(r)
       \/ CancelArrives(r)
  \/ Cancel \/ Mounted \/ PollAsks \/ PollAnswered \/ Reload

\* Calls and answers arrive, callbacks run and the timer ticks.  Nobody has to
\* press or cancel anything, and no engine has to exit.
Fairness ==
  /\ \A q \in Asker : WF_vars(StatusRead(q))
  /\ WF_vars(Mounted) /\ WF_vars(PollAsks) /\ WF_vars(PollAnswered)
  /\ \A r \in Run :
       /\ WF_vars(Guarded(r)) /\ WF_vars(Looked(r))
       /\ WF_vars(Launch(r) \/ GivenUp(r) \/ EngineMissing(r))
       /\ WF_vars(StartedArrives(r)) /\ WF_vars(Settles(r))
       /\ WF_vars(LooksForLive(r)) /\ WF_vars(Spawns(r))
       /\ WF_vars(PollLoop(r)) /\ WF_vars(CancelArrives(r))

Spec == Init /\ [][Next]_vars /\ Fairness
-----------------------------------------------------------------------------
(* Properties. *)

\* Two engines are up together only while one of them is of a launch the
\* player gave up, or of one that a reload forgot on its way to the spawn.
OneGameWanted ==
  \A r, s \in LiveRuns : r = s \/ {r, s} \cap (gaveUp \cup lost) # {}

\* The badge, the run it is about and the press that made it agree.
BadgeHasItsRun ==
  /\ phase = "idle" <=> active = NoRun
  /\ adopted # NoRun => active = adopted /\ phase = "running"
  /\ phase = "starting" => press[active] \in {"looking", "checking", "launched"}

\* A game that is up and on the badge leaves it only when the player cancels
\* or the page reloads: no late answer, to a press, a poll or another launch,
\* takes it off.
LiveBadgeKept ==
  [][ (active \in LiveRuns /\ active \in LiveRuns')
        => active' = active \/ Cancel \/ Reload ]_vars

\* The badge does not outlive its engine for ever.
BadgeIsCleared ==
  \A r \in Run : (active = r /\ command[r] = "over") ~> (active # r)

\* An engine that comes up off the badge, because the player gave its launch
\* up, is killed: only a page that reloads leaves one running with nobody the
\* wiser.
NoEngineUnwatched ==
  \A r \in Run : Live(r) ~> (~Live(r) \/ active = r \/ press[r] = "lost")

\* usePlay: "True while an engine process is up (app-wide, only one at a
\* time)".
OneEngineUp == \A r, s \in LiveRuns : r = s
=============================================================================
