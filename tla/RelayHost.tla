----------------------------- MODULE RelayHost -----------------------------
(***************************************************************************)
(* Coilbox's own end of a battle hosted through a relay (relay_host.rs,    *)
(* relay_agent.rs, conn.rs and lib.rs of the multiplayer plugin).          *)
(*                                                                         *)
(* Four kinds of thread meet in one slot, the relay a connection hosts     *)
(* through: the hosting form's command, which starts an agent, advertises  *)
(* the battle and waits for the lobby; the connection's read loop; the     *)
(* thread that reads what an agent says; and one waiting thread for every  *)
(* move of the battle.  The lobby and the agents are the environment.      *)
(***************************************************************************)
EXTENDS Naturals, Sequences

CONSTANTS
  MaxAttempts,  \* bound: times the host presses Host
  MaxRelays,    \* bound: relays opened, by all agents together
  MaxSaid,      \* bound: events of an agent not read yet
  Player,       \* players who may join
  LobbyDoes     \* what this lobby makes of MOVERELAYEDHOST

ASSUME RelayHostAssumption ==
  /\ MaxAttempts \in Nat \ {0}
  /\ MaxRelays \in Nat
  /\ MaxSaid \in Nat
  /\ LobbyDoes \subseteq {"moves", "refuses", "rejects", "silent"}
  /\ LobbyDoes # {}

\* An attempt starts at most one agent, and the battle it opens is known by its number.
Attempts == 1..MaxAttempts

VARIABLES
  connected,  \* the lobby connection is in the registry
  try,        \* the hosting command: where it is, which attempt, the relay it was given
  slot,       \* the relay a battle is hosted through (HostedRelay), if any
  answer,     \* the lobby's last answer about a battle, until somebody has seen it
  refused,    \* the lobby has refused the relay's address (RefusedRelayAddress)
  toLobby,    \* lines queued for the lobby
  fromLobby,  \* lines of the lobby not read yet
  room,       \* the lobby's room of ours: whose battle, at which address, who has joined
  agent,      \* the agents: the process, and what Coilbox knows of it
  relays,     \* relays opened so far
  waits,      \* threads waiting for the answer to a move
  shown,      \* what the host has last been told of the relay
  knows,      \* the host has been told of a refused move, and of no move since
  spoken,     \* the players each agent was asked to let through
  missed      \* what was lost on each attempt's battle before it was in the slot

lobbyVars == <<toLobby, fromLobby, room>>
answerVars == <<answer, refused>>
hostVars == <<shown, knows>>
vars == <<connected, try, slot, answerVars, lobbyVars, agent, relays, waits,
          hostVars, spoken, missed>>

NoHost == [a |-> 0, relayed |-> 0, sent |-> 0, answered |-> FALSE, told |-> FALSE]
NoRoom == [a |-> 0, at |-> 0, joined |-> {}]
Unborn == [is |-> "unborn", at |-> 0, said |-> << >>, down |-> FALSE, moving |-> 0,
           told |-> "nothing"]

\* A line to the lobby, and one from it; n numbers a move, at is an address.
Line(kind, a, n, at) == [kind |-> kind, a |-> a, n |-> n, at |-> at]
Reply(kind, a, n) == [kind |-> kind, a |-> a, n |-> n]
ClientIp(p) == [kind |-> "clientIp", who |-> p]

Addresses == 0..MaxRelays
Tries == [phase : {"idle", "asking", "allocating", "opened", "confirming"},
          n : 0..MaxAttempts, at : Addresses]
Hosts == [a : 0..MaxAttempts, relayed : Addresses, sent : Nat, answered : BOOLEAN,
          told : BOOLEAN]
Rooms == [a : 0..MaxAttempts, at : Addresses, joined : SUBSET Player]
LobbyLines == [kind : {"open", "leave", "move"}, a : 0..MaxAttempts, n : Nat, at : Addresses]
Replies ==
  [kind : {"opened", "refused", "addressRefused", "moved", "moveRefused", "moveRejected"},
   a : 0..MaxAttempts, n : Nat]
  \cup [kind : {"clientIp"}, who : Player]
Misses == {"event", "answer", "joiner", "leave"}
Events == [kind : {"relayOpen", "relayDown", "stopping"}, at : Addresses]
Agents ==
  [is : {"unborn", "starting", "open", "down", "gone"}, at : Addresses, said : Seq(Events),
   down : BOOLEAN, moving : Nat, told : {"nothing", "stop", "over", "dropped"}]

TypeOK ==
  /\ connected \in BOOLEAN
  /\ try \in Tries
  /\ slot \in Hosts
  /\ answer \in {"seen", "opened", "refused"}
  /\ refused \in BOOLEAN
  /\ toLobby \in Seq(LobbyLines)
  /\ fromLobby \in Seq(Replies)
  /\ room \in Rooms
  /\ agent \in [Attempts -> Agents]
  /\ relays \in Addresses
  /\ waits \in SUBSET [a : Attempts, n : Nat]
  /\ shown \in {"up", "down", "stopped"}
  /\ knows \in BOOLEAN
  /\ spoken \in [Attempts -> SUBSET Player]
  /\ missed \in [Attempts -> SUBSET Misses]

Init ==
  /\ connected = TRUE
  /\ try = [phase |-> "idle", n |-> 0, at |-> 0]
  /\ slot = NoHost
  /\ answer = "seen"
  /\ refused = FALSE
  /\ toLobby = << >>
  /\ fromLobby = << >>
  /\ room = NoRoom
  /\ agent = [a \in Attempts |-> Unborn]
  /\ relays = 0
  /\ waits = {}
  /\ shown = "up"
  /\ knows = FALSE
  /\ spoken = [a \in Attempts |-> {}]
  /\ missed = [a \in Attempts |-> {}]

\* The slot holds a relay: this connection hosts a battle through one.
Hosting == slot.a # 0

\* What the hosting command is doing for attempt a.
Trying(a, phases) == try.n = a /\ try.phase \in phases

\* Bookkeeping that no step of the code depends on: the relay of attempt a was not in the
\* slot yet when this came, and nothing makes up for it.
Miss(a, what) == missed' = [missed EXCEPT ![a] = @ \cup {what}]

-----------------------------------------------------------------------------
(* The hosting form: open_battle, allocate, advertise.                     *)

\* Stops the agent instead, for a battle that may go on.
ReleaseStopping ==
  /\ slot' = NoHost
  /\ agent' = [a \in Attempts |->
                 IF a = slot.a THEN [agent[a] EXCEPT !.told = "stop"] ELSE agent[a]]

\* Tells the agent and leaves the relay in the slot.
ReleaseLeaving ==
  /\ slot' = slot
  /\ agent' = [a \in Attempts |->
                 IF a = slot.a THEN [agent[a] EXCEPT !.told = "over"] ELSE agent[a]]

\* The relay is taken out of the slot and its agent told the battle is over.
Release ==
  /\ slot' = NoHost
  /\ agent' = [a \in Attempts |->
                 IF a = slot.a THEN [agent[a] EXCEPT !.told = "over"] ELSE agent[a]]

\* Fails the attempt and leaves its agent to find out.
GiveUpQuietly ==
  /\ try' = [try EXCEPT !.phase = "idle"]
  /\ agent' = agent

\* The agent of this attempt is told to stop, and the attempt has failed.
GiveUp ==
  /\ try' = [try EXCEPT !.phase = "idle"]
  /\ agent' = [agent EXCEPT ![try.n].told = "stop"]

\* Host is pressed, perhaps over a battle that is open already.
HostOpens ==
  /\ connected
  /\ try.phase = "idle"
  /\ try.n < MaxAttempts
  /\ try' = [phase |-> "asking", n |-> try.n + 1, at |-> 0]
  /\ Release
  /\ UNCHANGED <<connected, answerVars, lobbyVars, relays, waits, hostVars, spoken, missed>>

\* No credential, no sidecar, or an agent that is relaying already.
NotStarted ==
  /\ try.phase = "asking"
  /\ try' = [try EXCEPT !.phase = "idle"]
  /\ UNCHANGED <<connected, slot, answerVars, lobbyVars, agent, relays, waits,
                 hostVars, spoken, missed>>

\* An agent is started, which no run file of a living one prevents.
Spawn ==
  /\ try.phase = "asking"
  /\ connected
  /\ \A a \in Attempts : agent[a].is \in {"unborn", "gone"} /\ agent[a].said = << >>
  /\ try' = [try EXCEPT !.phase = "allocating"]
  /\ agent' = [agent EXCEPT ![try.n].is = "starting"]
  /\ UNCHANGED <<connected, slot, answerVars, lobbyVars, relays, waits, hostVars, spoken, missed>>

\* Nothing has been heard of the agent for as long as ALLOCATION_PATIENCE.
AllocationTimesOut ==
  /\ try.phase = "allocating"
  /\ GiveUp
  /\ UNCHANGED <<connected, slot, answerVars, lobbyVars, relays, waits, hostVars, spoken, missed>>

\* The lines are queued, with the answers to earlier attempts marked seen.
Advertise ==
  /\ try.phase = "opened"
  /\ connected
  /\ try' = [try EXCEPT !.phase = "confirming"]
  /\ answer' = "seen"
  /\ refused' = FALSE
  /\ toLobby' = Append(toLobby, Line("open", try.n, 0, try.at))
  /\ UNCHANGED <<connected, slot, fromLobby, room, agent, relays, waits, hostVars, spoken, missed>>

\* The connection went while the allocation was being opened.
NobodyToTell ==
  /\ try.phase = "opened"
  /\ ~connected
  /\ GiveUp
  /\ UNCHANGED <<connected, slot, answerVars, lobbyVars, relays, waits, hostVars, spoken, missed>>

\* The lobby has a battle at the relay's address: the relay goes in the slot, if the
\* connection is still there to have one.
BattleOpened ==
  /\ try.phase = "confirming"
  /\ answer = "opened"
  /\ ~refused
  /\ try' = [try EXCEPT !.phase = "idle"]
  /\ answer' = "seen"
  /\ IF connected
     THEN /\ slot' = [NoHost EXCEPT !.a = try.n, !.relayed = try.at]
          /\ shown' = "up"
          /\ knows' = FALSE
          /\ agent' = agent
     ELSE /\ agent' = [agent EXCEPT ![try.n].told = "dropped"]
          /\ UNCHANGED <<slot, hostVars>>
  /\ UNCHANGED <<connected, refused, lobbyVars, relays, waits, spoken, missed>>

\* The room was opened at this machine's own address, and is closed again.
NotRelayed ==
  /\ try.phase = "confirming"
  /\ answer = "opened"
  /\ refused
  /\ GiveUp
  /\ answer' = "seen"
  /\ toLobby' = IF connected THEN Append(toLobby, Line("leave", try.n, 0, 0)) ELSE toLobby
  /\ UNCHANGED <<connected, slot, refused, fromLobby, room, relays, waits, hostVars, spoken, missed>>

\* The lobby has still to read of this attempt's battle, or its answer has to be read.
StillToBeSaid ==
  \/ \E i \in 1..Len(toLobby) : toLobby[i].kind = "open"
  \/ \E i \in 1..Len(fromLobby) : fromLobby[i].kind \in {"opened", "refused"}

\* Waits for a lobby that has said nothing for as long as it takes.
NotOpenedPatiently ==
  /\ try.phase = "confirming"
  /\ answer = "refused" \/ (answer = "seen" /\ ~connected)
  /\ GiveUp
  /\ answer' = "seen"
  /\ UNCHANGED <<connected, slot, refused, lobbyVars, relays, waits, hostVars, spoken, missed>>

\* The lobby refused the battle, the connection ended, or READY_TIMEOUT has passed.
NotOpened ==
  /\ try.phase = "confirming"
  /\ answer \in {"refused", "seen"}
  /\ GiveUp
  /\ answer' = "seen"
  /\ IF answer = "seen" /\ StillToBeSaid THEN Miss(try.n, "answer") ELSE missed' = missed
  /\ UNCHANGED <<connected, slot, refused, lobbyVars, relays, waits, hostVars, spoken>>

-----------------------------------------------------------------------------
(* The agents, as far as Coilbox can tell.                                 *)

Says(a, is, at, kind) ==
  /\ Len(agent[a].said) < MaxSaid
  /\ agent' = [agent EXCEPT ![a].is = is, ![a].at = at,
                            ![a].said = Append(@, [kind |-> kind, at |-> at])]

\* A relay is opened or rebuilt, at a new address or where it was.
AgentOpens(a) ==
  /\ agent[a].is \in {"starting", "down"}
  /\ relays < MaxRelays
  /\ relays' = relays + 1
  /\ \E at \in {relays + 1, agent[a].at} \ {0} : Says(a, "open", at, "relayOpen")
  /\ UNCHANGED <<connected, try, slot, answerVars, lobbyVars, waits, hostVars, spoken, missed>>

\* A relay is lost, or another attempt to open one has failed.
AgentHasNone(a) ==
  /\ agent[a].is \in {"starting", "open", "down"}
  /\ Says(a, "down", agent[a].at, "relayDown")
  /\ UNCHANGED <<connected, try, slot, answerVars, lobbyVars, relays, waits, hostVars,
                 spoken, missed>>

\* The agent exits, or dies.
AgentStops(a) ==
  /\ agent[a].is \in {"starting", "open", "down"}
  /\ Says(a, "gone", agent[a].at, "stopping")
  /\ UNCHANGED <<connected, try, slot, answerVars, lobbyVars, relays, waits, hostVars,
                 spoken, missed>>

-----------------------------------------------------------------------------
(* The thread that reads an agent's events: listening, rebuilt_at.         *)

\* Readvertises only once, leaving a second rebuild to the first move.
MovesOnce(event) ==
  event.kind = "relayOpen" /\ Hosting /\ slot.relayed # event.at /\ slot.sent = 0

\* The relay has opened somewhere other than where the battle in the slot is.
Moves(event) == event.kind = "relayOpen" /\ Hosting /\ slot.relayed # event.at

\* A relay rebuilt somewhere else moves the battle in the slot.
Readvertise(a) ==
  /\ agent[a].said # << >>
  /\ agent[a].moving = 0
  /\ LET event == Head(agent[a].said) IN
       /\ Moves(event)
       /\ slot' = [slot EXCEPT !.relayed = event.at, !.sent = @ + 1, !.answered = FALSE]
       /\ agent' = [agent EXCEPT ![a].moving = slot.sent + 1]
  /\ UNCHANGED <<connected, try, answerVars, lobbyVars, relays, waits, hostVars, spoken, missed>>

\* The line that says so is queued and a thread waits for its answer, if there is a
\* connection to queue it on.
QueueMove(a) ==
  IF agent[a].moving # 0 /\ connected
  THEN /\ toLobby' = Append(toLobby, Line("move", a, agent[a].moving, Head(agent[a].said).at))
       /\ waits' = waits \cup {[a |-> a, n |-> agent[a].moving]}
  ELSE UNCHANGED <<toLobby, waits>>

\* Says nothing of a relay that is back somewhere else, which has been readvertised.
TellTheHostUnlessMoved(a, event) ==
  shown' = IF ~Hosting THEN shown
           ELSE CASE event.kind = "stopping" -> "stopped"
                  [] event.kind = "relayDown" /\ ~agent[a].down -> "down"
                  [] event.kind = "relayOpen" /\ agent[a].down /\ agent[a].moving = 0 -> "up"
                  [] OTHER -> shown

\* The host of a battle is told when its relay goes, comes back, or stops for good.
TellTheHost(a, event) ==
  shown' = IF ~Hosting THEN shown
           ELSE CASE event.kind = "stopping" -> "stopped"
                  [] event.kind = "relayDown" /\ ~agent[a].down -> "down"
                  [] event.kind = "relayOpen" /\ agent[a].down -> "up"
                  [] OTHER -> shown

\* The hosting form waits for the first thing the agent says, and an agent with no relay
\* to offer is told to stop.
Hear(a, event) ==
  LET waiting == Trying(a, {"allocating"})
      opened == event.kind = "relayOpen"
      told == IF waiting /\ ~opened THEN "stop" ELSE agent[a].told
      down == (event.kind = "relayDown" \/ agent[a].down) /\ ~opened
  IN /\ try' = IF ~waiting THEN try
               ELSE IF opened THEN [try EXCEPT !.phase = "opened", !.at = event.at]
               ELSE [try EXCEPT !.phase = "idle"]
     /\ missed' = [missed EXCEPT ![a] =
                     IF Trying(a, {"opened", "confirming"}) THEN @ \cup {"event"}
                     ELSE IF opened THEN @ \ {"event"} ELSE @]
     /\ agent' = [agent EXCEPT ![a].said = Tail(@), ![a].moving = 0, ![a].told = told,
                               ![a].down = down]

\* The rest of the listener, for an event that moves nothing or whose move is on the slot.
ReadEvent(a) ==
  /\ agent[a].said # << >>
  /\ LET event == Head(agent[a].said) IN
       /\ agent[a].moving # 0 \/ ~Moves(event)
       /\ TellTheHost(a, event)
       /\ Hear(a, event)
  /\ QueueMove(a)
  /\ UNCHANGED <<connected, slot, answerVars, fromLobby, room, relays, knows, spoken>>

\* A move's patience has run out.  The thread has the slot and a number, no more.
MoveUnanswered(w) ==
  /\ waits' = waits \ {w}
  /\ slot' = IF Hosting /\ slot.sent = w.n /\ ~slot.answered
             THEN [slot EXCEPT !.told = TRUE] ELSE slot
  /\ UNCHANGED <<connected, try, answerVars, lobbyVars, agent, relays, hostVars, spoken, missed>>

-----------------------------------------------------------------------------
(* The lobby.                                                              *)

\* It opens the battle, opens it at the host's own address, refuses it, or says nothing.
LobbyOpens(line) ==
  \/ /\ room' = [a |-> line.a, at |-> line.at, joined |-> {}]
     /\ fromLobby' = Append(fromLobby, Reply("opened", line.a, 0))
  \/ /\ room' = [a |-> line.a, at |-> 0, joined |-> {}]
     /\ fromLobby' = fromLobby \o <<Reply("addressRefused", line.a, 0),
                                    Reply("opened", line.a, 0)>>
  \/ /\ room' = room
     /\ fromLobby' \in {fromLobby,
                        Append(fromLobby, Reply("refused", line.a, 0)),
                        fromLobby \o <<Reply("addressRefused", line.a, 0),
                                       Reply("refused", line.a, 0)>>}

LobbyMoves(line) ==
  \/ /\ "moves" \in LobbyDoes
     /\ room.a # 0
     /\ room' = [room EXCEPT !.at = line.at]
     /\ fromLobby' = Append(fromLobby, Reply("moved", line.a, line.n))
  \/ /\ "refuses" \in LobbyDoes \/ ("moves" \in LobbyDoes /\ room.a = 0)
     /\ room' = room
     /\ fromLobby' = Append(fromLobby, Reply("moveRefused", line.a, line.n))
  \/ /\ "rejects" \in LobbyDoes
     /\ room' = room
     /\ fromLobby' = Append(fromLobby, Reply("moveRejected", line.a, line.n))
  \/ /\ "silent" \in LobbyDoes
     /\ UNCHANGED <<room, fromLobby>>

LobbyReads ==
  /\ toLobby # << >>
  /\ toLobby' = Tail(toLobby)
  /\ LET line == Head(toLobby) IN
       \/ line.kind = "open" /\ LobbyOpens(line)
       \/ line.kind = "move" /\ LobbyMoves(line)
       \/ line.kind = "leave" /\ room' = NoRoom /\ UNCHANGED fromLobby
  /\ UNCHANGED <<connected, try, slot, answerVars, agent, relays, waits, hostVars, spoken, missed>>

\* A player joins the room, whose address the lobby tells the host.
PlayerJoins(p) ==
  /\ room.a # 0
  /\ p \notin room.joined
  /\ room' = [room EXCEPT !.joined = @ \cup {p}]
  /\ fromLobby' = Append(fromLobby, ClientIp(p))
  /\ UNCHANGED <<connected, try, slot, answerVars, toLobby, agent, relays, waits, hostVars,
                 spoken, missed>>

-----------------------------------------------------------------------------
(* The connection: its read loop, leaving the battle, its end.             *)

ReadOpenAnswer(line) ==
  /\ line.kind \in {"opened", "refused"}
  /\ answer' = line.kind
  /\ UNCHANGED <<slot, refused, knows, spoken, missed>>

ReadAddressRefused(line) ==
  /\ line.kind = "addressRefused"
  /\ refused' = TRUE
  /\ UNCHANGED <<slot, answer, knows, spoken, missed>>

\* Either answer to a move ends the wait; the host is shown a refusal.
ReadMoveAnswer(line) ==
  /\ line.kind \in {"moved", "moveRefused"}
  /\ slot' = [slot EXCEPT !.answered = Hosting]
  /\ knows' = (line.kind = "moveRefused")
  /\ UNCHANGED <<answerVars, spoken, missed>>

\* Ends the wait without a word to the host.
ReadMoveRejectedUnsaid(line) ==
  /\ line.kind = "moveRejected"
  /\ slot' = [slot EXCEPT !.answered = Hosting]
  /\ UNCHANGED <<answerVars, knows, spoken, missed>>

\* The lobby will not run the line at all, which only an outstanding move can be about.
ReadMoveRejected(line) ==
  /\ line.kind = "moveRejected"
  /\ slot' = IF Hosting /\ slot.sent # 0 /\ ~slot.answered /\ ~slot.told
             THEN [slot EXCEPT !.answered = TRUE, !.told = TRUE] ELSE slot
  /\ UNCHANGED <<answerVars, knows, spoken, missed>>

MissedJoiner ==
  IF try.phase = "confirming" THEN Miss(try.n, "joiner") ELSE missed' = missed

\* Asks only an agent whose relay is up.
LetJoinerThroughWhileUp(line) ==
  /\ line.kind = "clientIp"
  /\ spoken' = [a \in Attempts |->
                  IF a = slot.a /\ shown = "up" THEN spoken[a] \cup {line.who} ELSE spoken[a]]
  /\ MissedJoiner
  /\ UNCHANGED <<slot, answerVars, knows>>

\* The player is vouched for to the agent in the slot, if there is one.
LetJoinerThrough(line) ==
  /\ line.kind = "clientIp"
  /\ spoken' = [a \in Attempts |->
                  IF a = slot.a THEN spoken[a] \cup {line.who} ELSE spoken[a]]
  /\ MissedJoiner
  /\ UNCHANGED <<slot, answerVars, knows>>

ReadLine ==
  /\ connected
  /\ fromLobby # << >>
  /\ fromLobby' = Tail(fromLobby)
  /\ LET line == Head(fromLobby) IN
       \/ ReadOpenAnswer(line)
       \/ ReadAddressRefused(line)
       \/ ReadMoveAnswer(line)
       \/ ReadMoveRejected(line)
       \/ LetJoinerThrough(line)
  /\ UNCHANGED <<connected, try, toLobby, room, agent, relays, waits, shown>>

\* The host leaves the room, which closes it.
HostLeaves ==
  /\ connected
  /\ room.a # 0
  /\ \A i \in 1..Len(toLobby) : toLobby[i].kind # "leave"
  /\ Release
  /\ toLobby' = Append(toLobby, Line("leave", room.a, 0, 0))
  /\ IF try.phase = "confirming" THEN Miss(try.n, "leave") ELSE missed' = missed
  /\ UNCHANGED <<connected, try, answerVars, fromLobby, room, relays, waits, hostVars,
                 spoken>>

\* The connection ends, and the lobby closes the battle with it.
ConnectionEnds ==
  /\ connected
  /\ connected' = FALSE
  /\ Release
  /\ toLobby' = << >>
  /\ fromLobby' = << >>
  /\ room' = NoRoom
  /\ UNCHANGED <<try, answerVars, relays, waits, hostVars, spoken, missed>>

Form ==
  \/ NotStarted \/ Spawn \/ AllocationTimesOut \/ Advertise \/ NobodyToTell
  \/ BattleOpened \/ NotRelayed \/ NotOpened

Next ==
  \/ HostOpens \/ Form \/ HostLeaves \/ ConnectionEnds
  \/ ReadLine \/ LobbyReads
  \/ \E p \in Player : PlayerJoins(p)
  \/ \E w \in waits : MoveUnanswered(w)
  \/ \E a \in Attempts : AgentOpens(a) \/ AgentHasNone(a) \/ AgentStops(a)
                         \/ Readvertise(a) \/ ReadEvent(a)

Spec == Init /\ [][Next]_vars

\* Threads of Coilbox's own are scheduled and its timers run out.  Nothing is asked of
\* the lobby, the agents or the host.
FairSpec ==
  /\ Spec
  /\ WF_vars(Form)
  /\ WF_vars(ReadLine)
  /\ \A a \in Attempts : WF_vars(Readvertise(a) \/ ReadEvent(a))
  /\ \A w \in [a : Attempts, n : 1..MaxRelays] : WF_vars(w \in waits /\ MoveUnanswered(w))

-----------------------------------------------------------------------------
(* What Coilbox promises.                                                  *)

\* Nothing is going on between the form, the connection and the lobby.
Quiet == try.phase = "idle" /\ toLobby = << >> /\ fromLobby = << >>

\* Everything agent a has said has been read and acted on.
Heard(a) == agent[a].said = << >>

\* An agent Coilbox has started and said nothing to is in the hands of an attempt or in
\* the slot, and one let go without a word had lost its connection: none is left holding
\* the relay server's bandwidth for nobody (allocate, waiting_on, advertise, release).
AgentsAccountedFor ==
  \A a \in Attempts : agent[a].is # "unborn" =>
    /\ agent[a].told = "nothing" =>
         slot.a = a \/ Trying(a, {"allocating", "opened", "confirming"})
    /\ agent[a].told = "dropped" => ~connected

\* Where each agent is accounted for: not started before its attempt, in the hands of the
\* attempt that started it, or in the slot of a connection that is still there.
InHand ==
  /\ try.phase # "idle" => try.n # 0 /\ ~Hosting
  /\ try.phase = "asking" => agent[try.n].is = "unborn"
  /\ try.phase \in {"allocating", "opened", "confirming"} =>
       agent[try.n].is # "unborn" /\ agent[try.n].told = "nothing"
  /\ Hosting => /\ connected
                /\ slot.a <= try.n
                /\ agent[slot.a].is # "unborn"
                /\ agent[slot.a].told = "nothing"
  /\ \A a \in Attempts : a > try.n => agent[a].is = "unborn"
  /\ \A a \in Attempts : agent[a].is = "unborn" => agent[a].told = "nothing"

\* Every attempt so far waited until its lobby had answered, if it was going to.
OnTime == \A a \in Attempts : "answer" \notin missed[a]

\* A stop is only ever said to a relay carrying no battle: never the one in the slot nor,
\* once everything has been read, the one of the room the lobby has, unless the lobby was
\* given up on before it answered (RelayAgent::stop, and who calls it).
StopMeansNoBattle ==
  /\ Hosting => agent[slot.a].told = "nothing"
  /\ OnTime /\ Quiet /\ room.a # 0 => agent[room.a].told # "stop"

\* A battle that has ended leaves the slot empty, unless the host left it before it was in
\* the slot or the lobby's answer was to an earlier attempt (MoveWatch, release).
SlotHoldsABattle ==
  OnTime /\ Quiet /\ Hosting => room.a = slot.a \/ "leave" \in missed[slot.a]

\* The address Coilbox holds for a battle is where its relay is, unless the relay moved
\* before the battle was in the slot and has not opened again since (RelayHost::relayed,
\* readvertise).
HostKnowsItsRelay ==
  Hosting /\ Heard(slot.a) /\ agent[slot.a].is = "open" =>
    slot.relayed = agent[slot.a].at \/ "event" \in missed[slot.a]

\* What the host of a battle is shown of its relay when Coilbox has heard everything.
ShownAsItIs ==
  Hosting /\ Heard(slot.a) =>
    shown = CASE agent[slot.a].is = "open" -> "up"
              [] agent[slot.a].is = "gone" -> "stopped"
              [] OTHER -> "down"

\* A host is told when the relay of their battle goes, comes back and stops for good,
\* except for what it did before the battle was in the slot (listening, tell_the_host).
OutagesAreTold == ShownAsItIs \/ "event" \in missed[slot.a]

\* Player p of the battle in the slot has been vouched for to its agent, or the line
\* naming them is still to be read.
SpokenFor(p) ==
  \/ p \in spoken[slot.a]
  \/ \E i \in 1..Len(fromLobby) : fromLobby[i] = ClientIp(p)

\* Every player in the room of a relayed battle has been vouched for to its agent, unless
\* they joined before the battle was in the slot (let_joiner_through).
JoinersSpokenFor ==
  Hosting /\ room.a = slot.a =>
    \/ \A p \in room.joined : SpokenFor(p)
    \/ "joiner" \in missed[slot.a]

\* The lobby still has to read the latest move of the battle, or its answer has to be read.
MoveOnItsWay ==
  \/ agent[slot.a].moving # 0
  \/ \E i \in 1..Len(toLobby) :
       toLobby[i].kind = "move" /\ toLobby[i].a = slot.a /\ toLobby[i].n = slot.sent
  \/ \E i \in 1..Len(fromLobby) :
       /\ fromLobby[i].kind \in {"moved", "moveRefused", "moveRejected"}
       /\ fromLobby[i].a = slot.a
       /\ fromLobby[i].n = slot.sent

\* A battle advertised anywhere but where Coilbox has its relay has a move on its way, a
\* wait that will speak up, or a host who has been told (readvertise, MoveWatch,
\* warn_if_unanswered).
UnreachableIsNoticed ==
  OnTime /\ Hosting /\ room.a = slot.a /\ room.at # slot.relayed =>
    \/ MoveOnItsWay
    \/ ~slot.answered /\ [a |-> slot.a, n |-> slot.sent] \in waits
    \/ slot.told
    \/ knows

\* The host is warned of a battle that cannot be reached when the lobby rejects its move
\* or the move's own patience has run out (move_unanswered, MOVE_ANSWER_PATIENCE).
WarnedWhenDue ==
  [][slot'.a = slot.a /\ slot'.told /\ ~slot.told =>
       slot'.answered \/ [a |-> slot.a, n |-> slot.sent] \in waits \ waits']_vars

\* The hosting form is always answered, whatever the lobby and the agent do (the patience
\* allocate, waiting_on and confirmed are given).
AttemptsEnd == (try.phase # "idle") ~> (try.phase = "idle")

-----------------------------------------------------------------------------
(* What the comments say and the code does not do.                         *)

\* A battle is said to be over when the lobby no longer has it (RelayAgent::battle_over,
\* forget_relay).
OverMeansOver == Quiet /\ room.a # 0 => agent[room.a].told # "over"

\* A move counts as answered when the lobby has answered that move (MoveWatch::answered).
AnsweredMeansThisMove == Hosting /\ slot.answered => ~MoveOnItsWay

\* A stop is "only for a relay that is provably carrying nothing" (RelayAgent::stop).
NoBattleStopped == Quiet /\ room.a # 0 => agent[room.a].told # "stop"

\* "A battle that has ended leaves an empty HostedRelay" (MoveWatch).
EndedLeavesEmpty == Quiet /\ Hosting => room.a = slot.a

\* "Nothing is held against the connection until the lobby has said the battle exists, so
\* there is no battle to move" (listening): the address in the slot is always right.
AlwaysWhereTheRelayIs ==
  Hosting /\ Heard(slot.a) /\ agent[slot.a].is = "open" => slot.relayed = agent[slot.a].at

\* "Only a host who took the direct route" has no agent for a joiner
\* (let_joiner_through): every player of a relayed battle is spoken for.
EveryJoinerSpokenFor ==
  Hosting /\ room.a = slot.a => \A p \in room.joined : SpokenFor(p)
=============================================================================
