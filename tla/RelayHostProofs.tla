-------------------------- MODULE RelayHostProofs --------------------------
(***************************************************************************)
(* Proofs about RelayHost, for any number of attempts, relays and players, *)
(* whatever the lobby makes of a move.                                     *)
(*                                                                         *)
(* Each section states an inductive invariant and draws the properties     *)
(* from it that it was made for; each rests on the ones before: where the  *)
(* agents are (InHand), what they say (WordsInv), who has joined           *)
(* (JoinInv), what was asked and answered (Conversation), what the battle  *)
(* looks like when it comes to the slot (MovesFirst, OpenedInPlace), and   *)
(* what is still being said of a battle that has moved (Told, Settled).    *)
(***************************************************************************)
EXTENDS RelayHost, SequenceTheorems, TLAPS

\* Queues keep their types.
LEMMA LinesAppend ==
  ASSUME toLobby \in Seq(LobbyLines), NEW line \in LobbyLines
  PROVE  Append(toLobby, line) \in Seq(LobbyLines)
BY AppendProperties

LEMMA LinesHead ==
  ASSUME toLobby \in Seq(LobbyLines), toLobby # << >>
  PROVE  Head(toLobby) \in LobbyLines /\ Tail(toLobby) \in Seq(LobbyLines)
BY HeadTailProperties

LEMMA RepliesAppend ==
  ASSUME fromLobby \in Seq(Replies), NEW r \in Replies
  PROVE  Append(fromLobby, r) \in Seq(Replies)
BY AppendProperties

LEMMA RepliesAppendTwo ==
  ASSUME fromLobby \in Seq(Replies), NEW r \in Replies, NEW s \in Replies
  PROVE  fromLobby \o <<r, s>> \in Seq(Replies)
<1>1. <<r, s>> \in Seq(Replies)
  OBVIOUS
<1>. QED
  BY <1>1, ConcatProperties

LEMMA RepliesHead ==
  ASSUME fromLobby \in Seq(Replies), fromLobby # << >>
  PROVE  Head(fromLobby) \in Replies /\ Tail(fromLobby) \in Seq(Replies)
BY HeadTailProperties

LEMMA EventsHead ==
  ASSUME agent \in [Attempts -> Agents], NEW a \in Attempts, agent[a].said # << >>
  PROVE  /\ Head(agent[a].said) \in Events
         /\ Tail(agent[a].said) \in Seq(Events)
<1>1. agent[a].said \in Seq(Events)
  BY DEF Agents
<1>. QED
  BY <1>1, HeadTailProperties

LEMMA EventsAppend ==
  ASSUME agent \in [Attempts -> Agents], NEW a \in Attempts, NEW e \in Events
  PROVE  Append(agent[a].said, e) \in Seq(Events)
<1>1. agent[a].said \in Seq(Events)
  BY DEF Agents
<1>. QED
  BY <1>1, AppendProperties

\* The bookkeeping keeps its type.
LEMMA MissKept ==
  ASSUME missed \in [Attempts -> SUBSET Misses], NEW a, NEW what \in Misses, Miss(a, what)
  PROVE  missed' \in [Attempts -> SUBSET Misses]
BY DEF Miss

-----------------------------------------------------------------------------
(* Every variable keeps its type.                                          *)
THEOREM TypeCorrect == Spec => []TypeOK
<1>1. Init => TypeOK
  <2> SUFFICES ASSUME Init PROVE TypeOK
    OBVIOUS
  <2>1. << >> \in Seq(Events) /\ << >> \in Seq(LobbyLines) /\ << >> \in Seq(Replies)
    BY EmptySeq
  <2>2. Unborn \in Agents
    BY <2>1, RelayHostAssumption DEF Unborn, Agents, Addresses
  <2>3. try \in Tries /\ slot \in Hosts /\ room \in Rooms /\ relays \in Addresses
    BY RelayHostAssumption DEF Init, Tries, Hosts, Rooms, NoHost, NoRoom, Addresses
  <2>4. connected \in BOOLEAN /\ refused \in BOOLEAN /\ knows \in BOOLEAN
    BY DEF Init
  <2>. QED
    BY <2>1, <2>2, <2>3, <2>4 DEF Init, TypeOK
<1>2. TypeOK /\ [Next]_vars => TypeOK'
  <2> SUFFICES ASSUME TypeOK, [Next]_vars PROVE TypeOK'
    OBVIOUS
  <2> USE DEF TypeOK
  <2>1. CASE UNCHANGED vars
    BY <2>1 DEF vars, answerVars, lobbyVars, hostVars
  <2>2. ASSUME Release PROVE slot' \in Hosts /\ agent' \in [Attempts -> Agents]
    <3>1. NoHost \in Hosts
      BY RelayHostAssumption DEF NoHost, Hosts, Addresses
    <3>2. \A a \in Attempts : [agent[a] EXCEPT !.told = "over"] \in Agents
      BY DEF Agents
    <3>. QED
      BY <2>2, <3>1, <3>2 DEF Release
  <2>3. ASSUME GiveUp PROVE try' \in Tries /\ agent' \in [Attempts -> Agents]
    <3>1. [try EXCEPT !.phase = "idle"] \in Tries
      BY DEF Tries
    <3>2. \A a \in Attempts : [agent[a] EXCEPT !.told = "stop"] \in Agents
      BY DEF Agents
    <3>. QED
      BY <2>3, <3>1, <3>2 DEF GiveUp
  <2>4. CASE HostOpens
    <3>1. try' \in Tries
      BY <2>4, RelayHostAssumption DEF HostOpens, Tries, Addresses
    <3>. QED
      BY <2>4, <2>2, <3>1 DEF HostOpens, answerVars, lobbyVars, hostVars
  <2>5. CASE HostLeaves
    <3>1. Line("leave", room.a, 0, 0) \in LobbyLines
      BY RelayHostAssumption DEF Line, LobbyLines, Rooms, Addresses
    <3>2. toLobby' \in Seq(LobbyLines)
      BY <2>5, <3>1, LinesAppend DEF HostLeaves
    <3>3. missed' \in [Attempts -> SUBSET Misses]
      BY <2>5, MissKept DEF HostLeaves, Misses
    <3>. QED
      BY <2>5, <2>2, <3>2, <3>3 DEF HostLeaves, answerVars, hostVars
  <2>6. CASE ConnectionEnds
    <3>1. << >> \in Seq(LobbyLines) /\ << >> \in Seq(Replies)
      BY EmptySeq
    <3>2. NoRoom \in Rooms
      BY RelayHostAssumption DEF NoRoom, Rooms, Addresses
    <3>3. connected' \in BOOLEAN
      BY <2>6 DEF ConnectionEnds
    <3>. QED
      BY <2>6, <2>2, <3>1, <3>2, <3>3 DEF ConnectionEnds, answerVars, hostVars
  <2>7. CASE Form
    <3> USE DEF answerVars, lobbyVars, hostVars
    <3>1. CASE NotStarted
      <4>1. try' \in Tries
        BY <3>1 DEF NotStarted, Tries
      <4>. QED
        BY <3>1, <4>1 DEF NotStarted
    <3>2. CASE Spawn
      <4>1. try' \in Tries
        BY <3>2 DEF Spawn, Tries
      <4>2. \A a \in Attempts : [agent[a] EXCEPT !.is = "starting"] \in Agents
        BY DEF Agents
      <4>. QED
        BY <3>2, <4>1, <4>2 DEF Spawn
    <3>3. CASE AllocationTimesOut
      BY <3>3, <2>3 DEF AllocationTimesOut
    <3>4. CASE Advertise
      <4>1. try' \in Tries
        BY <3>4 DEF Advertise, Tries
      <4>2. Line("open", try.n, 0, try.at) \in LobbyLines
        BY DEF Line, LobbyLines, Tries
      <4>3. toLobby' \in Seq(LobbyLines)
        BY <3>4, <4>2, LinesAppend DEF Advertise
      <4>4. answer' \in {"seen", "opened", "refused"} /\ refused' \in BOOLEAN
        BY <3>4 DEF Advertise
      <4>. QED
        BY <3>4, <4>1, <4>3, <4>4 DEF Advertise
    <3>5. CASE NobodyToTell
      BY <3>5, <2>3 DEF NobodyToTell
    <3>6. CASE BattleOpened
      <4>1. try' \in Tries
        BY <3>6 DEF BattleOpened, Tries
      <4>2. [NoHost EXCEPT !.a = try.n, !.relayed = try.at] \in Hosts
        BY DEF NoHost, Hosts, Tries
      <4>3. \A a \in Attempts : [agent[a] EXCEPT !.told = "dropped"] \in Agents
        BY DEF Agents
      <4>4. slot' \in Hosts /\ agent' \in [Attempts -> Agents]
        BY <3>6, <4>2, <4>3 DEF BattleOpened
      <4>5. /\ shown' \in {"up", "down", "stopped"} /\ knows' \in BOOLEAN
            /\ answer' \in {"seen", "opened", "refused"}
        BY <3>6 DEF BattleOpened
      <4>. QED
        BY <3>6, <4>1, <4>4, <4>5 DEF BattleOpened
    <3>7. CASE NotRelayed
      <4>1. Line("leave", try.n, 0, 0) \in LobbyLines
        BY RelayHostAssumption DEF Line, LobbyLines, Tries, Addresses
      <4>2. toLobby' \in Seq(LobbyLines)
        BY <3>7, <4>1, LinesAppend DEF NotRelayed
      <4>. QED
        BY <3>7, <2>3, <4>2 DEF NotRelayed
    <3>8. CASE NotOpened
      <4>1. missed' \in [Attempts -> SUBSET Misses]
        BY <3>8, MissKept DEF NotOpened, Misses
      <4>. QED
        BY <3>8, <2>3, <4>1 DEF NotOpened
    <3>. QED
      BY <2>7, <3>1, <3>2, <3>3, <3>4, <3>5, <3>6, <3>7, <3>8 DEF Form
  <2>8. CASE ReadLine
    <3>1. Head(fromLobby) \in Replies /\ fromLobby' \in Seq(Replies)
      BY <2>8, RepliesHead DEF ReadLine
    <3> DEFINE line == Head(fromLobby)
    <3>2. CASE ReadOpenAnswer(line)
      BY <2>8, <3>1, <3>2 DEF ReadLine, ReadOpenAnswer, answerVars, hostVars
    <3>3. CASE ReadAddressRefused(line)
      <4>1. refused' \in BOOLEAN
        BY <3>3 DEF ReadAddressRefused
      <4>. QED
        BY <2>8, <3>1, <3>3, <4>1 DEF ReadLine, ReadAddressRefused
    <3>4. CASE ReadMoveAnswer(line)
      <4>1. Hosting \in BOOLEAN
        BY DEF Hosting
      <4>2. slot' \in Hosts
        BY <3>4, <4>1 DEF ReadMoveAnswer, Hosts
      <4>3. knows' \in BOOLEAN
        BY <3>4 DEF ReadMoveAnswer
      <4>. QED
        BY <2>8, <3>1, <3>4, <4>2, <4>3 DEF ReadLine, ReadMoveAnswer, answerVars
    <3>5. CASE ReadMoveRejected(line)
      <4>1. [slot EXCEPT !.answered = TRUE, !.told = TRUE] \in Hosts
        BY DEF Hosts
      <4>2. slot' \in Hosts
        BY <3>5, <4>1 DEF ReadMoveRejected
      <4>. QED
        BY <2>8, <3>1, <3>5, <4>2 DEF ReadLine, ReadMoveRejected, answerVars
    <3>6. CASE LetJoinerThrough(line)
      <4>1. line.who \in Player
        BY <3>1, <3>6 DEF LetJoinerThrough, Replies
      <4>2. spoken' \in [Attempts -> SUBSET Player]
        BY <3>6, <4>1 DEF LetJoinerThrough
      <4>3. missed' \in [Attempts -> SUBSET Misses]
        BY <3>6, MissKept DEF LetJoinerThrough, MissedJoiner, Misses
      <4>. QED
        BY <2>8, <3>1, <3>6, <4>2, <4>3 DEF ReadLine, LetJoinerThrough, answerVars
    <3>. QED
      BY <2>8, <3>2, <3>3, <3>4, <3>5, <3>6 DEF ReadLine
  <2>9. CASE LobbyReads
    <3>1. Head(toLobby) \in LobbyLines /\ toLobby' \in Seq(LobbyLines)
      BY <2>9, LinesHead DEF LobbyReads
    <3> DEFINE line == Head(toLobby)
    <3>2. line.a \in 0..MaxAttempts /\ line.n \in Nat /\ line.at \in Addresses
      BY <3>1 DEF LobbyLines
    <3>3. \A kind \in {"opened", "refused", "addressRefused"} :
            Reply(kind, line.a, 0) \in Replies
      BY <3>2 DEF Reply, Replies
    <3>4. \A kind \in {"moved", "moveRefused", "moveRejected"} :
            Reply(kind, line.a, line.n) \in Replies
      BY <3>2 DEF Reply, Replies
    <3>5. room' \in Rooms /\ fromLobby' \in Seq(Replies)
      <4>1. CASE LobbyOpens(line)
        <5>1. /\ [a |-> line.a, at |-> line.at, joined |-> {}] \in Rooms
              /\ [a |-> line.a, at |-> 0, joined |-> {}] \in Rooms
          BY <3>2, RelayHostAssumption DEF Rooms, Addresses
        <5>2. /\ Append(fromLobby, Reply("opened", line.a, 0)) \in Seq(Replies)
              /\ Append(fromLobby, Reply("refused", line.a, 0)) \in Seq(Replies)
          BY <3>3, RepliesAppend
        <5>3. /\ fromLobby \o <<Reply("addressRefused", line.a, 0),
                                Reply("opened", line.a, 0)>> \in Seq(Replies)
              /\ fromLobby \o <<Reply("addressRefused", line.a, 0),
                                Reply("refused", line.a, 0)>> \in Seq(Replies)
          BY <3>3, RepliesAppendTwo
        <5>. QED
          BY <4>1, <5>1, <5>2, <5>3 DEF LobbyOpens
      <4>2. CASE LobbyMoves(line)
        <5>1. [room EXCEPT !.at = line.at] \in Rooms
          BY <3>2 DEF Rooms
        <5>2. \A kind \in {"moved", "moveRefused", "moveRejected"} :
                Append(fromLobby, Reply(kind, line.a, line.n)) \in Seq(Replies)
          BY <3>4, RepliesAppend
        <5>. QED
          BY <4>2, <5>1, <5>2 DEF LobbyMoves
      <4>3. CASE line.kind = "leave" /\ room' = NoRoom /\ UNCHANGED fromLobby
        BY <4>3, RelayHostAssumption DEF NoRoom, Rooms, Addresses
      <4>. QED
        BY <2>9, <4>1, <4>2, <4>3 DEF LobbyReads
    <3>. QED
      BY <2>9, <3>1, <3>5 DEF LobbyReads, answerVars, hostVars
  <2>10. ASSUME NEW p \in Player, PlayerJoins(p) PROVE TypeOK'
    <3>1. room' \in Rooms
      BY <2>10 DEF PlayerJoins, Rooms
    <3>2. ClientIp(p) \in Replies
      BY DEF ClientIp, Replies
    <3>3. fromLobby' \in Seq(Replies)
      BY <2>10, <3>2, RepliesAppend DEF PlayerJoins
    <3>. QED
      BY <2>10, <3>1, <3>3 DEF PlayerJoins, answerVars, hostVars
  <2>11. ASSUME NEW w \in waits, MoveUnanswered(w) PROVE TypeOK'
    <3>1. [slot EXCEPT !.told = TRUE] \in Hosts
      BY DEF Hosts
    <3>2. slot' \in Hosts
      BY <2>11, <3>1 DEF MoveUnanswered
    <3>. QED
      BY <2>11, <3>2 DEF MoveUnanswered, answerVars, lobbyVars, hostVars
  <2>12. ASSUME NEW a \in Attempts, NEW is \in {"open", "down", "gone"}, NEW at \in Addresses,
                NEW kind \in {"relayOpen", "relayDown", "stopping"}, Says(a, is, at, kind)
         PROVE  agent' \in [Attempts -> Agents]
    <3>1. [kind |-> kind, at |-> at] \in Events
      BY DEF Events
    <3>2. Append(agent[a].said, [kind |-> kind, at |-> at]) \in Seq(Events)
      BY <3>1, EventsAppend
    <3>3. [agent[a] EXCEPT !.is = is, !.at = at,
                           !.said = Append(@, [kind |-> kind, at |-> at])] \in Agents
      BY <3>2 DEF Agents
    <3>. QED
      BY <2>12, <3>3 DEF Says
  <2>13. ASSUME NEW a \in Attempts, AgentOpens(a) PROVE TypeOK'
    <3>1. relays' \in Addresses
      BY <2>13, RelayHostAssumption DEF AgentOpens, Addresses
    <3>2. PICK at \in {relays + 1, agent[a].at} \ {0} : Says(a, "open", at, "relayOpen")
      BY <2>13 DEF AgentOpens
    <3>3. at \in Addresses
      <4>1. relays + 1 \in Addresses
        BY <2>13, RelayHostAssumption DEF AgentOpens, Addresses
      <4>. QED
        BY <3>2, <4>1 DEF Agents
    <3>. QED
      BY <2>12, <2>13, <3>1, <3>2, <3>3 DEF AgentOpens, answerVars, lobbyVars, hostVars
  <2>14. ASSUME NEW a \in Attempts, AgentHasNone(a) \/ AgentStops(a) PROVE TypeOK'
    <3>1. agent[a].at \in Addresses
      BY DEF Agents
    <3>. QED
      BY <2>12, <2>14, <3>1 DEF AgentHasNone, AgentStops, answerVars, lobbyVars, hostVars
  <2>15. ASSUME NEW a \in Attempts, Readvertise(a) PROVE TypeOK'
    <3> DEFINE event == Head(agent[a].said)
    <3>1. event \in Events
      BY <2>15, EventsHead DEF Readvertise
    <3>2. slot.sent + 1 \in Nat
      BY DEF Hosts
    <3>3. \A n \in Nat : [agent[a] EXCEPT !.moving = n] \in Agents
      BY DEF Agents
    <3>4. \A n \in Nat, at \in Addresses :
            [slot EXCEPT !.relayed = at, !.sent = n, !.answered = FALSE] \in Hosts
      BY DEF Hosts
    <3>5. event.at \in Addresses
      BY <3>1 DEF Events
    <3>6. slot' \in Hosts /\ agent' \in [Attempts -> Agents]
      BY <2>15, <3>2, <3>3, <3>4, <3>5 DEF Readvertise
    <3>. QED
      BY <2>15, <3>6 DEF Readvertise, answerVars, lobbyVars, hostVars
  <2>16. ASSUME NEW a \in Attempts, ReadEvent(a) PROVE TypeOK'
    <3> DEFINE event == Head(agent[a].said)
    <3>1. event \in Events /\ Tail(agent[a].said) \in Seq(Events)
      BY <2>16, EventsHead DEF ReadEvent
    <3>2. toLobby' \in Seq(LobbyLines) /\ waits' \in SUBSET [a : Attempts, n : Nat]
      <4>1. agent[a].moving \in Nat
        BY DEF Agents
      <4>2. Line("move", a, agent[a].moving, event.at) \in LobbyLines
        BY <3>1, <4>1, RelayHostAssumption DEF Line, LobbyLines, Events, Attempts
      <4>3. Append(toLobby, Line("move", a, agent[a].moving, event.at)) \in Seq(LobbyLines)
        BY <4>2, LinesAppend
      <4>4. [a |-> a, n |-> agent[a].moving] \in [a : Attempts, n : Nat]
        BY <4>1
      <4>. QED
        BY <2>16, <4>3, <4>4 DEF ReadEvent, QueueMove
    <3>3. shown' \in {"up", "down", "stopped"}
      BY <2>16 DEF ReadEvent, TellTheHost
    <3>4. try' \in Tries
      <4>1. /\ [try EXCEPT !.phase = "opened", !.at = event.at] \in Tries
            /\ [try EXCEPT !.phase = "idle"] \in Tries
        BY <3>1 DEF Tries, Events
      <4>. QED
        BY <2>16, <4>1 DEF ReadEvent, Hear
    <3>5. agent' \in [Attempts -> Agents]
      <4> DEFINE opened == event.kind = "relayOpen"
                 told == IF Trying(a, {"allocating"}) /\ ~opened THEN "stop" ELSE agent[a].told
                 down == (event.kind = "relayDown" \/ agent[a].down) /\ ~opened
      <4>1. told \in {"nothing", "stop", "over", "dropped"} /\ down \in BOOLEAN
        BY DEF Agents
      <4> HIDE DEF told, down
      <4>2. [agent[a] EXCEPT !.said = Tail(@), !.moving = 0, !.told = told, !.down = down]
              \in Agents
        BY <3>1, <4>1 DEF Agents
      <4>3. agent' = [agent EXCEPT ![a].said = Tail(@), ![a].moving = 0, ![a].told = told,
                                   ![a].down = down]
        BY <2>16 DEF ReadEvent, Hear, told, down
      <4>. QED
        BY <4>2, <4>3
    <3>6. missed' \in [Attempts -> SUBSET Misses]
      BY <2>16 DEF ReadEvent, Hear, Misses
    <3>. QED
      BY <2>16, <3>2, <3>3, <3>4, <3>5, <3>6 DEF ReadEvent, answerVars
  <2>. QED
    BY <2>1, <2>4, <2>5, <2>6, <2>7, <2>8, <2>9, <2>10, <2>11, <2>13, <2>14, <2>15, <2>16
    DEF Next
<1>. QED
  BY <1>1, <1>2, PTL DEF Spec

-----------------------------------------------------------------------------
(* No agent is left holding a relay for nobody.                            *)

\* What Release does to the agents, slot by slot.
LEMMA Released ==
  ASSUME TypeOK, InHand, Release
  PROVE  /\ slot'.a = 0
         /\ \A a \in Attempts : agent'[a].is = agent[a].is
         /\ \A a \in Attempts : a = slot.a => agent'[a].told = "over"
         /\ \A a \in Attempts : a # slot.a => agent'[a].told = agent[a].told
BY DEF TypeOK, Agents, Release, NoHost

\* What GiveUp does to the agent of the attempt and to no other.
LEMMA GivenUp ==
  ASSUME TypeOK, InHand, GiveUp
  PROVE  /\ try'.phase = "idle" /\ try'.n = try.n
         /\ \A a \in Attempts : agent'[a].is = agent[a].is
         /\ \A a \in Attempts : a = try.n => agent'[a].told = "stop"
         /\ \A a \in Attempts : a # try.n => agent'[a].told = agent[a].told
BY DEF TypeOK, Agents, Tries, GiveUp

\* An attempt under way has a number, and so has the relay of a battle.
LEMMA Numbers ==
  ASSUME TypeOK
  PROVE  /\ try.n \in 0..MaxAttempts /\ slot.a \in 0..MaxAttempts
         /\ try.n # 0 => try.n \in Attempts
         /\ slot.a # 0 => slot.a \in Attempts
BY RelayHostAssumption DEF TypeOK, Tries, Hosts, Attempts

\* A step that starts, tells and hosts nothing keeps everything where it was.
LEMMA NothingMoved ==
  ASSUME TypeOK, InHand, AgentsAccountedFor, connected' = connected, try' = try,
         slot'.a = slot.a,
         \A a \in Attempts : (agent'[a].is = "unborn") = (agent[a].is = "unborn"),
         \A a \in Attempts : agent'[a].told = agent[a].told
  PROVE  InHand' /\ AgentsAccountedFor'
<1>1. InHand'
  BY Numbers DEF InHand, Hosting
<1>2. AgentsAccountedFor'
  BY DEF AgentsAccountedFor, Trying
<1>. QED
  BY <1>1, <1>2

\* The attempt has failed and its agent been told so; nothing else has moved.
LEMMA AttemptGivenUp ==
  ASSUME TypeOK, InHand, AgentsAccountedFor, GiveUp, connected' = connected, slot' = slot,
         try.phase \in {"allocating", "opened", "confirming"}
  PROVE  InHand' /\ AgentsAccountedFor'
<1>1. try.n \in Attempts /\ ~Hosting
  BY Numbers DEF InHand
<1>2. InHand'
  <2>1. ~Hosting'
    BY <1>1 DEF Hosting
  <2>2. \A a \in Attempts : a > try'.n => agent'[a].is = "unborn"
    BY GivenUp DEF InHand
  <2>3. \A a \in Attempts : agent'[a].is = "unborn" => agent'[a].told = "nothing"
    BY GivenUp DEF InHand
  <2>. QED
    BY <2>1, <2>2, <2>3, GivenUp DEF InHand
<1>3. AgentsAccountedFor'
  BY GivenUp, <1>1 DEF AgentsAccountedFor, Trying, Hosting
<1>. QED
  BY <1>2, <1>3

\* The relay leaves the slot and its agent is told.
LEMMA SlotReleased ==
  ASSUME TypeOK, InHand, AgentsAccountedFor, Release, try' = try,
         connected' = connected \/ connected' = FALSE
  PROVE  InHand' /\ AgentsAccountedFor'
<1>1. ~Hosting'
  BY Released DEF Hosting
<1>2. try.phase # "idle" => try.n \in Attempts /\ slot.a # try.n
  BY Numbers DEF InHand, Hosting
<1>3. InHand'
  <2>1. \A a \in Attempts : a > try'.n => agent'[a].is = "unborn"
    BY Released DEF InHand
  <2>2. \A a \in Attempts : agent'[a].is = "unborn" => agent'[a].told = "nothing"
    BY Released, RelayHostAssumption DEF InHand, Hosting, Attempts
  <2>3. try'.phase # "idle" => /\ agent'[try.n].is = agent[try.n].is
                              /\ agent'[try.n].told = agent[try.n].told
    BY <1>2, Released
  <2>4. try.phase \in {"idle", "asking", "allocating", "opened", "confirming"}
    BY DEF TypeOK, Tries
  <2>. QED
    BY <1>1, <2>1, <2>2, <2>3, <2>4 DEF InHand
<1>4. AgentsAccountedFor'
  BY Released, <1>2 DEF AgentsAccountedFor, Trying
<1>. QED
  BY <1>3, <1>4

\* A started agent is where its attempt or its battle is, and both at once nowhere; an
\* agent in either place has been told nothing (allocate, advertise, remember_relay,
\* release).
THEOREM AgentsInHand == Spec => [](InHand /\ AgentsAccountedFor)
<1> DEFINE Inv == InHand /\ AgentsAccountedFor
<1>1. Init => Inv
  BY RelayHostAssumption
  DEF Init, InHand, AgentsAccountedFor, Hosting, NoHost, Unborn, Attempts
<1>2. TypeOK /\ TypeOK' /\ Inv /\ [Next]_vars => Inv'
  <2> SUFFICES ASSUME TypeOK, TypeOK', InHand, AgentsAccountedFor, [Next]_vars
               PROVE  InHand' /\ AgentsAccountedFor'
    OBVIOUS
  <2>1. CASE UNCHANGED vars
    BY <2>1, NothingMoved DEF vars
  <2>2. CASE HostOpens
    <3>1. /\ try.phase = "idle" /\ try.n < MaxAttempts /\ try'.phase = "asking"
          /\ try'.n = try.n + 1 /\ connected' = connected /\ Release
      BY <2>2 DEF HostOpens
    <3>2. try.n \in 0..MaxAttempts /\ try'.n \in Attempts /\ try'.n > try.n
      BY <3>1, Numbers, RelayHostAssumption DEF Attempts
    <3>3. ~Hosting'
      BY <3>1, Released DEF Hosting
    <3>4. slot.a # try'.n
      BY <3>2, Numbers, RelayHostAssumption DEF InHand, Hosting
    <3>5. agent'[try'.n].is = "unborn"
      BY <3>1, <3>2, Released DEF InHand
    <3>6. \A a \in Attempts : a > try'.n => agent'[a].is = "unborn"
      BY <3>1, <3>2, Released, RelayHostAssumption DEF InHand, Attempts
    <3>7. \A a \in Attempts : agent'[a].is = "unborn" => agent'[a].told = "nothing"
      BY <3>1, Released, RelayHostAssumption DEF InHand, Hosting, Attempts
    <3>8. InHand'
      BY <3>1, <3>2, <3>3, <3>5, <3>6, <3>7, RelayHostAssumption DEF InHand, Attempts
    <3>9. AgentsAccountedFor'
      BY <3>1, Released DEF AgentsAccountedFor, Trying
    <3>. QED
      BY <3>8, <3>9
  <2>3. CASE HostLeaves
    BY <2>3, SlotReleased DEF HostLeaves
  <2>4. CASE ConnectionEnds
    BY <2>4, SlotReleased DEF ConnectionEnds
  <2>5. CASE Form
    <3>1. CASE NotStarted
      <4>1. /\ try.phase = "asking" /\ try'.phase = "idle" /\ try'.n = try.n
            /\ UNCHANGED <<connected, slot, agent>>
        BY <3>1 DEF NotStarted, TypeOK, Tries
      <4>2. InHand'
        BY <4>1 DEF InHand, Hosting
      <4>3. AgentsAccountedFor'
        BY <4>1 DEF AgentsAccountedFor, Trying
      <4>. QED
        BY <4>2, <4>3
    <3>2. CASE Spawn
      <4>1. /\ try.phase = "asking" /\ try'.phase = "allocating" /\ try'.n = try.n
            /\ UNCHANGED <<connected, slot>>
        BY <3>2 DEF Spawn, TypeOK, Tries
      <4>2. try.n \in Attempts /\ ~Hosting
        BY <4>1, Numbers DEF InHand
      <4>3. /\ agent'[try.n].is = "starting" /\ agent'[try.n].told = agent[try.n].told
            /\ \A a \in Attempts : a # try.n => agent'[a] = agent[a]
        BY <3>2, <4>2 DEF Spawn, TypeOK, Agents
      <4>4. agent[try.n].told = "nothing"
        BY <4>1, <4>2 DEF InHand
      <4>5. try.n \in 0..MaxAttempts
        BY Numbers
      <4>6. \A a \in Attempts : a > try'.n => agent'[a].is = "unborn"
        BY <4>1, <4>3, <4>5, RelayHostAssumption DEF InHand, Attempts
      <4>7. \A a \in Attempts : agent'[a].is = "unborn" => agent'[a].told = "nothing"
        BY <4>3 DEF InHand
      <4>8. InHand'
        BY <4>1, <4>2, <4>3, <4>4, <4>6, <4>7 DEF InHand, Hosting
      <4>9. AgentsAccountedFor'
        BY <4>1, <4>2, <4>3, <4>4 DEF AgentsAccountedFor, Trying, Hosting
      <4>. QED
        BY <4>8, <4>9
    <3>3. CASE AllocationTimesOut
      BY <3>3, AttemptGivenUp DEF AllocationTimesOut
    <3>4. CASE Advertise
      <4>1. /\ try.phase = "opened" /\ try'.phase = "confirming" /\ try'.n = try.n
            /\ UNCHANGED <<connected, slot, agent>>
        BY <3>4 DEF Advertise, TypeOK, Tries
      <4>2. InHand'
        BY <4>1 DEF InHand, Hosting
      <4>3. AgentsAccountedFor'
        BY <4>1 DEF AgentsAccountedFor, Trying
      <4>. QED
        BY <4>2, <4>3
    <3>5. CASE NobodyToTell
      BY <3>5, AttemptGivenUp DEF NobodyToTell
    <3>6. CASE BattleOpened
      <4>1. /\ try.phase = "confirming" /\ try'.phase = "idle" /\ try'.n = try.n
            /\ connected' = connected
        BY <3>6 DEF BattleOpened, TypeOK, Tries
      <4>2. try.n \in Attempts /\ ~Hosting
        BY <4>1, Numbers DEF InHand
      <4>3. agent[try.n].is # "unborn" /\ agent[try.n].told = "nothing"
        BY <4>1 DEF InHand
      <4>4. CASE connected
        <5>1. slot'.a = try.n /\ agent' = agent
          BY <3>6, <4>4 DEF BattleOpened, NoHost
        <5>2. InHand'
          BY <4>1, <4>2, <4>3, <4>4, <5>1, Numbers, RelayHostAssumption
          DEF InHand, Hosting, Attempts
        <5>3. AgentsAccountedFor'
          BY <4>1, <4>2, <5>1 DEF AgentsAccountedFor, Trying, Hosting, Attempts
        <5>. QED
          BY <5>2, <5>3
      <4>5. CASE ~connected
        <5>1. /\ slot' = slot /\ agent'[try.n].told = "dropped"
              /\ agent'[try.n].is = agent[try.n].is
              /\ \A a \in Attempts : a # try.n => agent'[a] = agent[a]
          <6>1. slot' = slot /\ agent' = [agent EXCEPT ![try.n].told = "dropped"]
            BY <3>6, <4>5 DEF BattleOpened
          <6>. QED
            BY <6>1, <4>2 DEF TypeOK, Agents
        <5>2. \A a \in Attempts : a > try'.n => agent'[a].is = "unborn"
          BY <4>1, <5>1 DEF InHand
        <5>3. \A a \in Attempts : agent'[a].is = "unborn" => agent'[a].told = "nothing"
          BY <4>3, <5>1 DEF InHand
        <5>4. InHand'
          BY <4>1, <4>2, <5>1, <5>2, <5>3 DEF InHand, Hosting
        <5>5. AgentsAccountedFor'
          BY <4>1, <4>2, <4>5, <5>1 DEF AgentsAccountedFor, Trying, Hosting
        <5>. QED
          BY <5>4, <5>5
      <4>. QED
        BY <4>4, <4>5
    <3>7. CASE NotRelayed
      BY <3>7, AttemptGivenUp DEF NotRelayed
    <3>8. CASE NotOpened
      BY <3>8, AttemptGivenUp DEF NotOpened
    <3>. QED
      BY <2>5, <3>1, <3>2, <3>3, <3>4, <3>5, <3>6, <3>7, <3>8 DEF Form
  <2>6. CASE ReadLine
    <3>1. connected' = connected /\ try' = try /\ agent' = agent
      BY <2>6 DEF ReadLine
    <3>2. slot'.a = slot.a
      BY <2>6 DEF ReadLine, ReadOpenAnswer, ReadAddressRefused, ReadMoveAnswer,
                  ReadMoveRejected, LetJoinerThrough, TypeOK, Hosts
    <3>. QED
      BY <3>1, <3>2, NothingMoved
  <2>7. CASE LobbyReads
    BY <2>7, NothingMoved DEF LobbyReads
  <2>8. ASSUME NEW p \in Player, PlayerJoins(p) PROVE InHand' /\ AgentsAccountedFor'
    BY <2>8, NothingMoved DEF PlayerJoins
  <2>9. ASSUME NEW w \in waits, MoveUnanswered(w) PROVE InHand' /\ AgentsAccountedFor'
    <3>1. slot'.a = slot.a
      BY <2>9 DEF MoveUnanswered, TypeOK, Hosts
    <3>. QED
      BY <2>9, <3>1, NothingMoved DEF MoveUnanswered
  <2>10. ASSUME NEW a \in Attempts, AgentOpens(a) \/ AgentHasNone(a) \/ AgentStops(a)
         PROVE  InHand' /\ AgentsAccountedFor'
    <3>1. /\ connected' = connected /\ try' = try /\ slot' = slot
          /\ agent[a].is # "unborn"
          /\ \E is \in {"open", "down", "gone"} : \E at, kind : Says(a, is, at, kind)
      BY <2>10 DEF AgentOpens, AgentHasNone, AgentStops
    <3>2. \A b \in Attempts : /\ agent'[b].told = agent[b].told
                              /\ (agent'[b].is = "unborn") = (agent[b].is = "unborn")
      BY <3>1 DEF Says, TypeOK, Agents
    <3>. QED
      BY <3>1, <3>2, NothingMoved
  <2>11. ASSUME NEW a \in Attempts, Readvertise(a) PROVE InHand' /\ AgentsAccountedFor'
    <3>1. /\ slot'.a = slot.a
          /\ \A b \in Attempts : agent'[b].told = agent[b].told /\ agent'[b].is = agent[b].is
      BY <2>11 DEF Readvertise, TypeOK, Hosts, Agents
    <3>. QED
      BY <2>11, <3>1, NothingMoved DEF Readvertise
  <2>12. ASSUME NEW a \in Attempts, ReadEvent(a) PROVE InHand' /\ AgentsAccountedFor'
    <3> DEFINE opened == Head(agent[a].said).kind = "relayOpen"
               waiting == Trying(a, {"allocating"})
    <3>1. connected' = connected /\ slot' = slot
      BY <2>12 DEF ReadEvent
    <3>2. /\ \A b \in Attempts : agent'[b].is = agent[b].is
          /\ \A b \in Attempts : b # a => agent'[b].told = agent[b].told
          /\ agent'[a].told = IF waiting /\ ~opened THEN "stop" ELSE agent[a].told
      BY <2>12 DEF ReadEvent, Hear, TypeOK, Agents
    <3>3. CASE ~waiting
      <4>1. try' = try
        BY <2>12, <3>3 DEF ReadEvent, Hear
      <4>. QED
        BY <3>1, <3>2, <3>3, <4>1, NothingMoved
    <3>4. CASE waiting
      <4>1. try.phase = "allocating" /\ try.n = a /\ ~Hosting
        BY <3>4 DEF Trying, InHand
      <4>2. agent[a].is # "unborn" /\ agent[a].told = "nothing"
        BY <4>1 DEF InHand
      <4>3. try'.n = a /\ try'.phase = IF opened THEN "opened" ELSE "idle"
        BY <2>12, <3>4, <4>1 DEF ReadEvent, Hear, TypeOK, Tries
      <4>4. ~Hosting'
        BY <3>1, <4>1 DEF Hosting
      <4>5. \A b \in Attempts : b > try'.n => agent'[b].is = "unborn"
        BY <3>2, <4>1, <4>3 DEF InHand
      <4>6. \A b \in Attempts : agent'[b].is = "unborn" => agent'[b].told = "nothing"
        BY <3>2, <4>2 DEF InHand
      <4>7. a # 0
        BY DEF Attempts
      <4>8. InHand'
        BY <3>2, <4>2, <4>3, <4>4, <4>5, <4>6, <4>7 DEF InHand
      <4>9. AgentsAccountedFor'
        BY <3>1, <3>2, <4>1, <4>3, <4>7 DEF AgentsAccountedFor, Trying, Hosting
      <4>. QED
        BY <4>8, <4>9
    <3>. QED
      BY <3>3, <3>4
  <2>. QED
    BY <2>1, <2>2, <2>3, <2>4, <2>5, <2>6, <2>7, <2>8, <2>9, <2>10, <2>11, <2>12 DEF Next
<1>. QED
  BY <1>1, <1>2, TypeCorrect, PTL DEF Spec

\* Every agent that was started is in the hands of an attempt, in the slot, or has been
\* told, whatever the lobby, the agents and the host do (allocate, advertise, release).
THEOREM Accounted == Spec => []AgentsAccountedFor
BY AgentsInHand, PTL

-----------------------------------------------------------------------------
(* Queues: what is in one, in which order, and what is last.               *)

\* One element of a kind of K; one of K with one of L somewhere behind it.
Has(s, K) == \E i \in 1..Len(s) : s[i].kind \in K
Ahead(s, K, L) == \E i, j \in 1..Len(s) : i < j /\ s[i].kind \in K /\ s[j].kind \in L

\* All elements of a kind of K are in E; the last of them is.
AllIn(s, K, E) == \A i \in 1..Len(s) : s[i].kind \in K => s[i] \in E
Ends(s, K, E) ==
  \E i \in 1..Len(s) :
    /\ s[i].kind \in K /\ s[i] \in E
    /\ \A j \in 1..Len(s) : j > i => s[j].kind \notin K

\* The element itself.
Holds(s, e) == \E i \in 1..Len(s) : s[i] = e

\* What is in a queue after one more has been put in it, position by position.
LEMMA Appended ==
  ASSUME NEW S, NEW s \in Seq(S), NEW e \in S
  PROVE  /\ Append(s, e) \in Seq(S)
         /\ Len(s) \in Nat
         /\ Len(Append(s, e)) = Len(s) + 1
         /\ Append(s, e)[Len(s) + 1] = e
         /\ \A i \in 1..Len(s) : Append(s, e)[i] = s[i]
BY AppendProperties

\* What is in one after its first has been taken.
LEMMA HeadTaken ==
  ASSUME NEW S, NEW s \in Seq(S), s # << >>
  PROVE  /\ Tail(s) \in Seq(S)
         /\ Head(s) = s[1]
         /\ Len(s) \in Nat \ {0}
         /\ Len(Tail(s)) = Len(s) - 1
         /\ \A i \in 1..Len(s) : i # 1 => i - 1 \in 1..Len(Tail(s)) /\ Tail(s)[i - 1] = s[i]
         /\ \A i \in 1..Len(Tail(s)) : i + 1 \in 1..Len(s) /\ Tail(s)[i] = s[i + 1]
BY HeadTailProperties, EmptySeq

\* What becomes of each of the above when one more is put in, or the first is taken.
LEMMA HasAppend ==
  ASSUME NEW S, NEW s \in Seq(S), NEW e \in S, NEW K
  PROVE  Has(Append(s, e), K) <=> Has(s, K) \/ e.kind \in K
BY Appended DEF Has

LEMMA HasTail ==
  ASSUME NEW S, NEW s \in Seq(S), s # << >>, NEW K
  PROVE  Has(s, K) <=> Head(s).kind \in K \/ Has(Tail(s), K)
BY HeadTaken DEF Has

LEMMA HoldsAppend ==
  ASSUME NEW S, NEW s \in Seq(S), NEW e \in S, NEW x
  PROVE  Holds(Append(s, e), x) <=> Holds(s, x) \/ e = x
BY Appended DEF Holds

LEMMA HoldsTail ==
  ASSUME NEW S, NEW s \in Seq(S), s # << >>, NEW x
  PROVE  Holds(s, x) <=> Head(s) = x \/ Holds(Tail(s), x)
<1>1. Holds(s, x) => Head(s) = x \/ Holds(Tail(s), x)
  BY HeadTaken DEF Holds
<1>2. Head(s) = x => Holds(s, x)
  <2>1. 1 \in 1..Len(s) /\ s[1] = Head(s)
    BY HeadTaken
  <2>. QED
    BY <2>1 DEF Holds
<1>3. Holds(Tail(s), x) => Holds(s, x)
  BY HeadTaken DEF Holds
<1>. QED
  BY <1>1, <1>2, <1>3

LEMMA AheadAppend ==
  ASSUME NEW S, NEW s \in Seq(S), NEW e \in S, NEW K, NEW L
  PROVE  Ahead(Append(s, e), K, L) <=> Ahead(s, K, L) \/ (Has(s, K) /\ e.kind \in L)
BY Appended DEF Has, Ahead

LEMMA AheadTail ==
  ASSUME NEW S, NEW s \in Seq(S), s # << >>, NEW K, NEW L
  PROVE  Ahead(s, K, L) <=> Ahead(Tail(s), K, L) \/ (Head(s).kind \in K /\ Has(Tail(s), L))
<1>1. ASSUME Ahead(s, K, L)
      PROVE  Ahead(Tail(s), K, L) \/ (Head(s).kind \in K /\ Has(Tail(s), L))
  <2>1. PICK i \in 1..Len(s), j \in 1..Len(s) : i < j /\ s[i].kind \in K /\ s[j].kind \in L
    BY <1>1 DEF Ahead
  <2>2. j - 1 \in 1..Len(Tail(s)) /\ Tail(s)[j - 1].kind \in L
    BY <2>1, HeadTaken
  <2>3. CASE i = 1
    BY <2>1, <2>2, <2>3, HeadTaken DEF Has
  <2>4. CASE i # 1
    <3>1. i - 1 \in 1..Len(Tail(s)) /\ Tail(s)[i - 1].kind \in K /\ i - 1 < j - 1
      BY <2>1, <2>4, HeadTaken
    <3>. QED
      BY <3>1, <2>2 DEF Ahead
  <2>. QED
    BY <2>3, <2>4
<1>2. ASSUME Ahead(Tail(s), K, L) PROVE Ahead(s, K, L)
  <2>1. PICK i \in 1..Len(Tail(s)), j \in 1..Len(Tail(s)) :
               i < j /\ Tail(s)[i].kind \in K /\ Tail(s)[j].kind \in L
    BY <1>2 DEF Ahead
  <2>2. /\ i + 1 \in 1..Len(s) /\ j + 1 \in 1..Len(s) /\ i + 1 < j + 1
        /\ s[i + 1].kind \in K /\ s[j + 1].kind \in L
    BY <2>1, HeadTaken
  <2>. QED
    BY <2>2 DEF Ahead
<1>3. ASSUME Head(s).kind \in K, Has(Tail(s), L) PROVE Ahead(s, K, L)
  <2>1. PICK j \in 1..Len(Tail(s)) : Tail(s)[j].kind \in L
    BY <1>3 DEF Has
  <2>2. /\ 1 \in 1..Len(s) /\ j + 1 \in 1..Len(s) /\ 1 < j + 1
        /\ s[1].kind \in K /\ s[j + 1].kind \in L
    BY <1>3, <2>1, HeadTaken
  <2>. QED
    BY <2>2 DEF Ahead
<1>. QED
  BY <1>1, <1>2, <1>3

LEMMA AllInAppend ==
  ASSUME NEW S, NEW s \in Seq(S), NEW e \in S, NEW K, NEW E
  PROVE  AllIn(Append(s, e), K, E) <=> AllIn(s, K, E) /\ (e.kind \in K => e \in E)
BY Appended DEF AllIn

LEMMA AllInTail ==
  ASSUME NEW S, NEW s \in Seq(S), s # << >>, NEW K, NEW E
  PROVE  AllIn(s, K, E) <=> AllIn(Tail(s), K, E) /\ (Head(s).kind \in K => Head(s) \in E)
BY HeadTaken DEF AllIn

LEMMA EndsAppend ==
  ASSUME NEW S, NEW s \in Seq(S), NEW e \in S, NEW K, NEW E
  PROVE  Ends(Append(s, e), K, E) <=> IF e.kind \in K THEN e \in E ELSE Ends(s, K, E)
BY Appended DEF Ends

LEMMA EndsTail ==
  ASSUME NEW S, NEW s \in Seq(S), s # << >>, NEW K, NEW E
  PROVE  Ends(s, K, E) <=> IF Has(Tail(s), K) THEN Ends(Tail(s), K, E)
                           ELSE Head(s).kind \in K /\ Head(s) \in E
<1>1. ASSUME Ends(s, K, E), Has(Tail(s), K) PROVE Ends(Tail(s), K, E)
  <2>1. PICK i \in 1..Len(s) : /\ s[i].kind \in K /\ s[i] \in E
                               /\ \A j \in 1..Len(s) : j > i => s[j].kind \notin K
    BY <1>1 DEF Ends
  <2>2. i # 1
    BY <1>1, <2>1, HeadTaken DEF Has
  <2>3. /\ i - 1 \in 1..Len(Tail(s))
        /\ Tail(s)[i - 1].kind \in K /\ Tail(s)[i - 1] \in E
    BY <2>1, <2>2, HeadTaken
  <2>4. ASSUME NEW j \in 1..Len(Tail(s)), j > i - 1 PROVE Tail(s)[j].kind \notin K
    BY <2>1, <2>4, HeadTaken
  <2>. QED
    BY <2>3, <2>4 DEF Ends
<1>2. ASSUME Ends(s, K, E), ~Has(Tail(s), K) PROVE Head(s).kind \in K /\ Head(s) \in E
  BY <1>2, HeadTaken DEF Ends, Has
<1>3. ASSUME Ends(Tail(s), K, E) PROVE Ends(s, K, E)
  <2>1. PICK i \in 1..Len(Tail(s)) :
               /\ Tail(s)[i].kind \in K /\ Tail(s)[i] \in E
               /\ \A j \in 1..Len(Tail(s)) : j > i => Tail(s)[j].kind \notin K
    BY <1>3 DEF Ends
  <2>2. i + 1 \in 1..Len(s) /\ s[i + 1].kind \in K /\ s[i + 1] \in E
    BY <2>1, HeadTaken
  <2>3. ASSUME NEW j \in 1..Len(s), j > i + 1 PROVE s[j].kind \notin K
    <3>1. j - 1 \in 1..Len(Tail(s)) /\ j - 1 > i /\ Tail(s)[j - 1] = s[j]
      BY <2>3, HeadTaken
    <3>. QED
      BY <2>1, <3>1
  <2>. QED
    BY <2>2, <2>3 DEF Ends
<1>4. ASSUME ~Has(Tail(s), K), Head(s).kind \in K, Head(s) \in E PROVE Ends(s, K, E)
  <2>1. 1 \in 1..Len(s) /\ s[1].kind \in K /\ s[1] \in E
    BY <1>4, HeadTaken
  <2>2. ASSUME NEW j \in 1..Len(s), j > 1 PROVE s[j].kind \notin K
    <3>1. j - 1 \in 1..Len(Tail(s)) /\ Tail(s)[j - 1] = s[j]
      BY <2>2, HeadTaken
    <3>. QED
      BY <1>4, <3>1 DEF Has
  <2>3. \E i \in 1..Len(s) : /\ s[i].kind \in K /\ s[i] \in E
                             /\ \A j \in 1..Len(s) : j > i => s[j].kind \notin K
    BY <2>1, <2>2
  <2>. QED
    BY <2>3 DEF Ends
<1>. QED
  BY <1>1, <1>2, <1>3, <1>4

\* Two at once are one after the other.
LEMMA AppendTwo ==
  ASSUME NEW S, NEW s \in Seq(S), NEW e \in S, NEW f \in S
  PROVE  s \o <<e, f>> = Append(Append(s, e), f)
OBVIOUS

-----------------------------------------------------------------------------
(* What the agents say, and what is known of it.                           *)

\* The last event of an agent not read yet is of what it is now, and of where.
LastWord(a) ==
  agent[a].said # << >> =>
    LET last == agent[a].said[Len(agent[a].said)] IN
      /\ last.at = agent[a].at
      /\ last.kind = "relayOpen" <=> agent[a].is = "open"
      /\ last.kind = "relayDown" <=> agent[a].is = "down"
      /\ last.kind = "stopping" <=> agent[a].is = "gone"

\* An agent that says it stops has nothing to say after that.
StopsLast(a) ==
  \A i \in 1..Len(agent[a].said) :
    agent[a].said[i].kind = "stopping" => i = Len(agent[a].said)

\* What every agent has said agrees with what it is.
AgentWords ==
  \A a \in Attempts :
    /\ agent[a].is \in {"unborn", "starting"} => Heard(a) /\ ~agent[a].down
    /\ LastWord(a)
    /\ StopsLast(a)
    /\ Heard(a) => /\ agent[a].moving = 0
                   /\ agent[a].is = "open" => ~agent[a].down
                   /\ agent[a].is = "down" => agent[a].down

\* Once an attempt has an agent, every other one has exited and been read to the end.
OneAgent ==
  /\ Hosting => slot.a = try.n
  /\ \A a, b \in Attempts :
       a = try.n /\ b # a /\ agent[a].is # "unborn" =>
         agent[b].is \in {"unborn", "gone"} /\ Heard(b)

\* The agent of an attempt under way has moved no battle, and the attempt has its address.
TryWords ==
  \A a \in Attempts : try.n = a /\ try.phase # "idle" =>
    /\ agent[a].moving = 0
    /\ try.phase \in {"opened", "confirming"} =>
         /\ agent[a].is \notin {"unborn", "starting"}
         /\ "event" \notin missed[a] =>
              /\ ~agent[a].down
              /\ Heard(a) => agent[a].is = "open" /\ agent[a].at = try.at

\* The host is shown what the agent of the battle has been heard to be, and where.
SlotWords ==
  \A a \in Attempts : slot.a = a =>
    /\ agent[a].is \notin {"unborn", "starting"}
    /\ agent[a].moving # 0 => /\ slot.relayed = Head(agent[a].said).at
                              /\ agent[a].moving = slot.sent
    /\ shown = "stopped" => agent[a].is = "gone" /\ Heard(a)
    /\ shown = "down" => agent[a].down
    /\ "event" \notin missed[a] =>
         /\ agent[a].down => shown \in {"down", "stopped"}
         /\ Heard(a) /\ agent[a].is = "gone" => shown = "stopped"
         /\ Heard(a) /\ agent[a].is = "open" => slot.relayed = agent[a].at

\* The inductive invariant about what agents say.
WordsInv == AgentWords /\ OneAgent /\ TryWords /\ SlotWords

\* The agent with something to say is the one of the battle in the slot.
LEMMA OnlyOneSpeaks ==
  ASSUME TypeOK, InHand, WordsInv, Hosting, NEW a \in Attempts, ~Heard(a)
  PROVE  a = slot.a /\ a = try.n /\ try.phase = "idle"
<1>1. try.n \in Attempts /\ slot.a = try.n /\ try.phase = "idle"
  BY Numbers DEF InHand, WordsInv, OneAgent, Hosting
<1>2. agent[try.n].is # "unborn"
  BY <1>1 DEF WordsInv, SlotWords
<1>. QED
  BY <1>1, <1>2 DEF WordsInv, OneAgent

\* What the hosting command may do while no agent says or is asked anything.
TryGoesOn ==
  \/ try' = try
  \/ try'.phase = "idle" /\ try'.n = try.n
  \/ /\ try.phase = "opened" /\ try'.phase = "confirming"
     /\ try'.n = try.n /\ try'.at = try.at
  \/ /\ try'.phase = "asking" /\ try'.n > try.n
     /\ slot'.a = 0

\* Nothing that leaves the agents' words and the host's picture of them alone disturbs them.
LEMMA WordsKept ==
  ASSUME TypeOK, TypeOK', InHand, WordsInv, TryGoesOn, shown' = shown,
         slot'.a = 0 \/ (slot'.a = slot.a /\ slot'.relayed = slot.relayed
                         /\ slot'.sent = slot.sent),
         \A a \in Attempts :
           /\ agent'[a].is = agent[a].is /\ agent'[a].at = agent[a].at
           /\ agent'[a].said = agent[a].said /\ agent'[a].down = agent[a].down
           /\ agent'[a].moving = agent[a].moving
           /\ "event" \in missed'[a] <=> "event" \in missed[a]
  PROVE  WordsInv'
<1>1. AgentWords'
  BY DEF WordsInv, AgentWords, LastWord, StopsLast, Heard
<1>2. OneAgent'
  <2>1. CASE try'.n = try.n
    <3>1. Hosting' => slot'.a = try'.n
      BY <2>1 DEF WordsInv, OneAgent, Hosting
    <3>. QED
      BY <2>1, <3>1 DEF WordsInv, OneAgent, Heard
  <2>2. CASE try'.n > try.n /\ slot'.a = 0
    BY <2>2 DEF InHand, OneAgent, Hosting
  <2>. QED
    BY <2>1, <2>2 DEF TryGoesOn
<1>3. TryWords'
  <2>1. CASE try'.phase = "asking" /\ try'.n > try.n
    BY <2>1 DEF InHand, WordsInv, AgentWords, TryWords
  <2>2. CASE ~(try'.phase = "asking" /\ try'.n > try.n)
    BY <2>2 DEF TryGoesOn, WordsInv, TryWords, Heard
  <2>. QED
    BY <2>1, <2>2
<1>4. SlotWords'
  BY RelayHostAssumption DEF WordsInv, SlotWords, Heard, Attempts
<1>. QED
  BY <1>1, <1>2, <1>3, <1>4 DEF WordsInv

\* One more event of an agent that is not yet gone.
LEMMA WordsSaid ==
  ASSUME TypeOK, InHand, WordsInv, NEW a \in Attempts,
         AgentOpens(a) \/ AgentHasNone(a) \/ AgentStops(a)
  PROVE  WordsInv'
<1> USE DEF WordsInv
<1>1. PICK is \in {"open", "down", "gone"}, at \in Addresses,
           kind \in {"relayOpen", "relayDown", "stopping"} :
        /\ Says(a, is, at, kind)
        /\ kind = "relayOpen" <=> is = "open"
        /\ kind = "relayDown" <=> is = "down"
        /\ kind = "stopping" <=> is = "gone"
  <2>1. CASE AgentOpens(a)
    <3>1. PICK at \in {relays + 1, agent[a].at} \ {0} : Says(a, "open", at, "relayOpen")
      BY <2>1 DEF AgentOpens
    <3>2. at \in Addresses
      BY <2>1, <3>1, RelayHostAssumption DEF AgentOpens, TypeOK, Agents, Addresses
    <3>. QED
      BY <3>1, <3>2
  <2>2. CASE AgentHasNone(a) \/ AgentStops(a)
    <3>1. agent[a].at \in Addresses
      BY DEF TypeOK, Agents
    <3>. QED
      BY <2>2, <3>1 DEF AgentHasNone, AgentStops
  <2>. QED
    BY <2>1, <2>2
<1>2. /\ agent[a].is \in {"starting", "open", "down"}
      /\ UNCHANGED <<try, slot, shown, missed>>
  BY DEF AgentOpens, AgentHasNone, AgentStops, hostVars
<1> DEFINE event == [kind |-> kind, at |-> at]
<1>3. /\ agent'[a].is = is /\ agent'[a].at = at
      /\ agent'[a].said = Append(agent[a].said, event)
      /\ agent'[a].down = agent[a].down /\ agent'[a].moving = agent[a].moving
      /\ \A b \in Attempts : b # a => agent'[b] = agent[b]
  BY <1>1 DEF Says, TypeOK, Agents
<1>4. agent[a].said \in Seq(Events) /\ event \in Events
  BY DEF TypeOK, Agents, Events
<1>5. /\ agent'[a].said # << >>
      /\ Len(agent'[a].said) = Len(agent[a].said) + 1
      /\ Len(agent[a].said) \in Nat
      /\ agent'[a].said[Len(agent[a].said) + 1] = event
      /\ \A i \in 1..Len(agent[a].said) : agent'[a].said[i] = agent[a].said[i]
      /\ agent[a].said # << >> => Head(agent'[a].said) = Head(agent[a].said)
  BY <1>3, <1>4, Appended, AppendProperties, HeadTailAppend
<1>6. \A i \in 1..Len(agent[a].said) : agent[a].said[i].kind # "stopping"
  BY <1>2, <1>4, EmptySeq DEF AgentWords, LastWord, StopsLast
<1>7. AgentWords'
  <2>1. LastWord(a)'
    BY <1>1, <1>3, <1>5 DEF LastWord
  <2>2. StopsLast(a)'
    BY <1>5, <1>6 DEF StopsLast
  <2>3. ~Heard(a)'
    BY <1>5 DEF Heard
  <2>4. ASSUME NEW b \in Attempts, b # a
        PROVE  LastWord(b)' /\ StopsLast(b)' /\ (Heard(b)' <=> Heard(b))
    BY <1>3, <2>4 DEF AgentWords, LastWord, StopsLast, Heard
  <2>. QED
    BY <1>3, <2>1, <2>2, <2>3, <2>4 DEF AgentWords
<1>8. OneAgent'
  BY <1>2, <1>3 DEF OneAgent, Heard, Hosting
<1>9. TryWords'
  BY <1>2, <1>3, <1>5 DEF TryWords, Heard
<1>10. SlotWords'
  BY <1>2, <1>3, <1>5 DEF SlotWords, AgentWords, Heard
<1>. QED
  BY <1>7, <1>8, <1>9, <1>10

\* A move put on the slot is where the event it is about says.
LEMMA WordsMoved ==
  ASSUME TypeOK, InHand, WordsInv, NEW a \in Attempts, Readvertise(a)
  PROVE  WordsInv'
<1> USE DEF WordsInv
<1> DEFINE event == Head(agent[a].said)
<1>1. Hosting /\ ~Heard(a) /\ UNCHANGED <<try, shown, missed>>
  BY DEF Readvertise, Moves, Heard, hostVars
<1>2. a = slot.a /\ a = try.n /\ try.phase = "idle"
  BY <1>1, OnlyOneSpeaks
<1>3. /\ agent'[a].is = agent[a].is /\ agent'[a].at = agent[a].at
      /\ agent'[a].said = agent[a].said /\ agent'[a].down = agent[a].down
      /\ agent'[a].moving = slot.sent + 1
      /\ \A b \in Attempts : b # a => agent'[b] = agent[b]
  BY DEF Readvertise, TypeOK, Agents
<1>4. slot'.a = slot.a /\ slot'.relayed = event.at /\ slot'.sent = slot.sent + 1
  BY DEF Readvertise, TypeOK, Hosts
<1>5. AgentWords'
  <2>1. ASSUME NEW b \in Attempts
        PROVE  LastWord(b)' /\ StopsLast(b)' /\ (Heard(b)' <=> Heard(b))
    BY <1>3 DEF AgentWords, LastWord, StopsLast, Heard
  <2>. QED
    BY <1>1, <1>3, <2>1 DEF AgentWords
<1>6. OneAgent'
  BY <1>1, <1>3, <1>4 DEF OneAgent, Heard, Hosting
<1>7. TryWords'
  BY <1>1, <1>2, <1>3 DEF TryWords, Heard
<1>8. SlotWords'
  BY <1>1, <1>2, <1>3, <1>4 DEF SlotWords, Heard
<1>. QED
  BY <1>5, <1>6, <1>7, <1>8

\* What reading the first event of an agent leaves: the rest of its words, and the state of
\* the agent if there are none.
LEMMA EventRead ==
  ASSUME TypeOK, AgentWords, NEW a \in Attempts, ReadEvent(a)
  PROVE  LET event == Head(agent[a].said) IN
         /\ agent'[a].is = agent[a].is /\ agent'[a].at = agent[a].at
         /\ agent'[a].moving = 0 /\ agent[a].is \notin {"unborn", "starting"}
         /\ agent'[a].down <=> (event.kind = "relayDown" \/ agent[a].down)
                                 /\ event.kind # "relayOpen"
         /\ \A b \in Attempts : b # a => agent'[b] = agent[b]
         /\ event.kind \in {"relayOpen", "relayDown", "stopping"}
         /\ event.kind = "stopping" => Heard(a)'
         /\ Heard(a)' => /\ event.at = agent[a].at
                         /\ event.kind = "relayOpen" <=> agent[a].is = "open"
                         /\ event.kind = "relayDown" <=> agent[a].is = "down"
                         /\ event.kind = "stopping" <=> agent[a].is = "gone"
         /\ LastWord(a)' /\ StopsLast(a)'
<1> DEFINE event == Head(agent[a].said)
           s == agent[a].said
<1>1. s \in Seq(Events) /\ s # << >>
  BY DEF ReadEvent, TypeOK, Agents
<1>2. /\ agent'[a].is = agent[a].is /\ agent'[a].at = agent[a].at
      /\ agent'[a].moving = 0 /\ agent'[a].said = Tail(s)
      /\ agent'[a].down <=> (event.kind = "relayDown" \/ agent[a].down)
                              /\ event.kind # "relayOpen"
      /\ \A b \in Attempts : b # a => agent'[b] = agent[b]
  BY DEF ReadEvent, Hear, TypeOK, Agents
<1>3. agent[a].is \notin {"unborn", "starting"}
  BY <1>1 DEF AgentWords, Heard
<1>4. event \in Events
  BY <1>1, HeadTailProperties
<1>5. /\ Tail(s) \in Seq(Events) /\ event = s[1]
      /\ Len(s) \in Nat \ {0} /\ Len(Tail(s)) = Len(s) - 1
      /\ \A i \in 1..Len(Tail(s)) : i + 1 \in 1..Len(s) /\ Tail(s)[i] = s[i + 1]
  BY <1>1, HeadTaken
<1>6. Tail(s) = << >> <=> Len(s) = 1
  <2>1. Tail(s) = << >> => Len(Tail(s)) = 0
    BY EmptySeq
  <2>2. Tail(s) # << >> => Len(Tail(s)) \in Nat \ {0}
    BY <1>5, EmptySeq
  <2>. QED
    BY <1>5, <2>1, <2>2
<1>7. event.kind = "stopping" => Heard(a)'
  <2>1. 1 \in 1..Len(s)
    BY <1>5
  <2>2. event.kind = "stopping" => Len(s) = 1
    BY <1>5, <2>1 DEF AgentWords, StopsLast
  <2>. QED
    BY <1>2, <1>6, <2>2 DEF Heard
<1>8. Heard(a)' => /\ event.at = agent[a].at
                   /\ event.kind = "relayOpen" <=> agent[a].is = "open"
                   /\ event.kind = "relayDown" <=> agent[a].is = "down"
                   /\ event.kind = "stopping" <=> agent[a].is = "gone"
  <2>1. Heard(a)' => event = s[Len(s)]
    BY <1>2, <1>5, <1>6 DEF Heard
  <2>. QED
    BY <1>1, <2>1 DEF AgentWords, LastWord
<1>9. LastWord(a)'
  <2>1. SUFFICES ASSUME Tail(s) # << >>
                 PROVE  LET last == Tail(s)[Len(Tail(s))] IN
                          /\ last.at = agent[a].at
                          /\ last.kind = "relayOpen" <=> agent[a].is = "open"
                          /\ last.kind = "relayDown" <=> agent[a].is = "down"
                          /\ last.kind = "stopping" <=> agent[a].is = "gone"
    BY <1>2 DEF LastWord
  <2>2. Len(Tail(s)) \in 1..Len(Tail(s))
    BY <2>1, <1>5, EmptySeq
  <2>3. Tail(s)[Len(Tail(s))] = s[Len(s)]
    BY <2>2, <1>5
  <2>. QED
    BY <2>3, <1>1 DEF AgentWords, LastWord
<1>10. StopsLast(a)'
  BY <1>2, <1>5 DEF AgentWords, StopsLast
<1>. QED
  BY <1>2, <1>3, <1>4, <1>7, <1>8, <1>9, <1>10 DEF Events

\* An event heard, and the host told.
LEMMA WordsHeard ==
  ASSUME TypeOK, InHand, WordsInv, NEW a \in Attempts, ReadEvent(a)
  PROVE  WordsInv'
<1> USE DEF WordsInv
<1> DEFINE event == Head(agent[a].said)
           opened == event.kind = "relayOpen"
           waiting == Trying(a, {"allocating"})
           early == Trying(a, {"opened", "confirming"})
<1>1. ~Heard(a) /\ slot' = slot /\ (agent[a].moving # 0 \/ ~Moves(event))
  BY DEF ReadEvent, Heard
<1>2. /\ try'.n = try.n
      /\ waiting /\ opened => try'.phase = "opened" /\ try'.at = event.at
      /\ waiting /\ ~opened => try'.phase = "idle"
      /\ ~waiting => try' = try
  BY DEF ReadEvent, Hear, TypeOK, Tries
<1>3. /\ early => "event" \in missed'[a]
      /\ ~early /\ ~opened => missed'[a] = missed[a]
      /\ \A b \in Attempts : b # a => missed'[b] = missed[b]
  BY DEF ReadEvent, Hear, TypeOK
<1>4. AgentWords'
  <2>1. ASSUME NEW b \in Attempts, b # a
        PROVE  agent'[b] = agent[b] /\ LastWord(b)' /\ StopsLast(b)' /\ (Heard(b)' <=> Heard(b))
    BY <2>1, EventRead DEF AgentWords, LastWord, StopsLast, Heard
  <2>. QED
    BY <2>1, EventRead DEF AgentWords
<1>5. OneAgent'
  <2>1. Hosting' => slot'.a = try'.n
    BY <1>1, <1>2 DEF OneAgent, Hosting
  <2>. QED
    BY <1>1, <1>2, <2>1, EventRead DEF OneAgent, Heard
<1>6. TryWords'
  <2> SUFFICES ASSUME NEW b \in Attempts, try'.n = b, try'.phase # "idle"
               PROVE  /\ agent'[b].moving = 0
                      /\ try'.phase \in {"opened", "confirming"} =>
                           /\ agent'[b].is \notin {"unborn", "starting"}
                           /\ "event" \notin missed'[b] =>
                                /\ ~agent'[b].down
                                /\ Heard(b)' => agent'[b].is = "open" /\ agent'[b].at = try'.at
    BY DEF TryWords
  <2>1. CASE b # a
    BY <2>1, <1>2, <1>3, EventRead DEF TryWords, Heard, Trying
  <2>2. CASE b = a /\ waiting
    BY <2>2, <1>2, EventRead
  <2>3. CASE b = a /\ ~waiting
    BY <2>3, <1>2, <1>3, EventRead DEF Trying
  <2>. QED
    BY <2>1, <2>2, <2>3
<1>7. SlotWords'
  <2> SUFFICES ASSUME NEW b \in Attempts, slot.a = b
               PROVE  /\ agent'[b].is \notin {"unborn", "starting"}
                      /\ agent'[b].moving # 0 => /\ slot.relayed = Head(agent'[b].said).at
                                                 /\ agent'[b].moving = slot.sent
                      /\ shown' = "stopped" => agent'[b].is = "gone" /\ Heard(b)'
                      /\ shown' = "down" => agent'[b].down
                      /\ "event" \notin missed'[b] =>
                           /\ agent'[b].down => shown' \in {"down", "stopped"}
                           /\ Heard(b)' /\ agent'[b].is = "gone" => shown' = "stopped"
                           /\ Heard(b)' /\ agent'[b].is = "open" => slot.relayed = agent'[b].at
    BY <1>1 DEF SlotWords
  <2>1. Hosting
    BY DEF Hosting, Attempts
  <2>2. b = a /\ ~early
    BY <1>1, <2>1, OnlyOneSpeaks DEF Trying
  <2>3. shown' = CASE event.kind = "stopping" -> "stopped"
                   [] event.kind = "relayDown" /\ ~agent[a].down -> "down"
                   [] event.kind = "relayOpen" /\ agent[a].down -> "up"
                   [] OTHER -> shown
    BY <2>1 DEF ReadEvent, TellTheHost
  <2>4. shown # "stopped"
    BY <1>1, <2>2 DEF SlotWords
  <2>5. opened => slot.relayed = event.at
    BY <1>1, <2>1, <2>2 DEF SlotWords, Moves
  <2>6. shown' = "stopped" => agent'[a].is = "gone" /\ Heard(a)'
    BY <2>3, <2>4, EventRead
  <2>7. shown' = "down" => agent'[a].down
    BY <2>2, <2>3, EventRead DEF SlotWords
  <2>8. ASSUME "event" \notin missed'[a]
        PROVE  /\ agent'[a].down => shown' \in {"down", "stopped"}
               /\ Heard(a)' /\ agent'[a].is = "gone" => shown' = "stopped"
               /\ Heard(a)' /\ agent'[a].is = "open" => slot.relayed = agent'[a].at
    BY <1>3, <2>2, <2>3, <2>5, <2>8, EventRead DEF SlotWords
  <2>. QED
    BY <2>2, <2>6, <2>7, <2>8, EventRead
<1>. QED
  BY <1>4, <1>5, <1>6, <1>7

\* The number of an agent's attempt keeps the "event" it missed whatever else it misses.
LEMMA OtherMiss ==
  ASSUME TypeOK, NEW b, NEW what \in Misses \ {"event"}, Miss(b, what) \/ missed' = missed
  PROVE  \A a \in Attempts : "event" \in missed'[a] <=> "event" \in missed[a]
BY DEF TypeOK, Miss

\* What telling agents something leaves alone.
OnlyTold ==
  \A a \in Attempts :
    /\ agent'[a].is = agent[a].is /\ agent'[a].at = agent[a].at
    /\ agent'[a].said = agent[a].said /\ agent'[a].down = agent[a].down
    /\ agent'[a].moving = agent[a].moving

\* Letting a relay go and giving an attempt up tell an agent something, and no more.
LEMMA TellingOnly ==
  ASSUME TypeOK, Release \/ GiveUp \/ agent' = agent
  PROVE  OnlyTold
<1>1. CASE Release
  BY <1>1 DEF TypeOK, Agents, Release, OnlyTold
<1>2. CASE GiveUp
  BY <1>2 DEF TypeOK, Agents, GiveUp, OnlyTold
<1>3. CASE agent' = agent
  BY <1>3 DEF OnlyTold
<1>. QED
  BY <1>1, <1>2, <1>3

\* An attempt given up has ended.
LEMMA TryGivenUp ==
  ASSUME TypeOK, GiveUp
  PROVE  TryGoesOn
BY DEF TypeOK, Tries, GiveUp, TryGoesOn

\* The events of the agents and what Coilbox makes of them (listening, tell_the_host,
\* readvertise, rebuilt_at): each agent's words end in what it is, only one agent has words
\* left, and the host's picture of the relay in the slot follows from the words read.
THEOREM WordsFollowed == Spec => []WordsInv
<1>1. Init => WordsInv
  <2> SUFFICES ASSUME Init PROVE WordsInv
    OBVIOUS
  <2>1. \A a \in Attempts : agent[a] = Unborn
    BY DEF Init
  <2>2. /\ AgentWords
    <3>1. \A a \in Attempts : agent[a].said = << >> /\ Len(agent[a].said) = 0
      BY <2>1, EmptySeq DEF Unborn
    <3>. QED
      BY <2>1, <3>1 DEF Unborn, AgentWords, LastWord, StopsLast, Heard
  <2>3. OneAgent /\ TryWords /\ SlotWords
    BY <2>1, RelayHostAssumption
    DEF Init, Unborn, NoHost, OneAgent, TryWords, SlotWords, Hosting, Attempts
  <2>. QED
    BY <2>2, <2>3 DEF WordsInv
<1>2. TypeOK /\ TypeOK' /\ InHand /\ InHand' /\ WordsInv /\ [Next]_vars => WordsInv'
  <2> SUFFICES ASSUME TypeOK, TypeOK', InHand, InHand', WordsInv, [Next]_vars
               PROVE  WordsInv'
    OBVIOUS
  <2>1. CASE UNCHANGED vars
    BY <2>1, WordsKept DEF vars, hostVars, TryGoesOn
  <2>2. CASE HostOpens
    <3>1. /\ shown' = shown /\ slot'.a = 0 /\ missed' = missed
          /\ try'.phase = "asking" /\ try'.n > try.n
      BY <2>2, Numbers DEF HostOpens, Release, NoHost, hostVars
    <3>2. OnlyTold
      BY <2>2, TellingOnly DEF HostOpens
    <3>. QED
      BY <3>1, <3>2, WordsKept DEF TryGoesOn, OnlyTold
  <2>3. CASE HostLeaves
    <3>1. shown' = shown /\ slot'.a = 0 /\ try' = try
      BY <2>3 DEF HostLeaves, Release, NoHost, hostVars
    <3>2. OnlyTold
      BY <2>3, TellingOnly DEF HostLeaves
    <3>3. \A a \in Attempts : "event" \in missed'[a] <=> "event" \in missed[a]
      BY <2>3, OtherMiss DEF HostLeaves, Misses
    <3>. QED
      BY <3>1, <3>2, <3>3, WordsKept DEF TryGoesOn, OnlyTold
  <2>4. CASE ConnectionEnds
    <3>1. shown' = shown /\ slot'.a = 0 /\ try' = try /\ missed' = missed
      BY <2>4 DEF ConnectionEnds, Release, NoHost, hostVars
    <3>2. OnlyTold
      BY <2>4, TellingOnly DEF ConnectionEnds
    <3>. QED
      BY <3>1, <3>2, WordsKept DEF TryGoesOn, OnlyTold
  <2>5. CASE Form
    <3>1. CASE NotStarted \/ Advertise
      <4>1. shown' = shown /\ slot' = slot /\ missed' = missed /\ agent' = agent
        BY <3>1 DEF NotStarted, Advertise, hostVars
      <4>2. TryGoesOn
        BY <3>1 DEF NotStarted, Advertise, TryGoesOn, TypeOK, Tries
      <4>. QED
        BY <4>1, <4>2, WordsKept
    <3>2. CASE Spawn
      <4>1. /\ try.phase = "asking" /\ try'.phase = "allocating" /\ try'.n = try.n
            /\ UNCHANGED <<slot, shown, missed>>
            /\ \A a \in Attempts : agent[a].is \in {"unborn", "gone"} /\ agent[a].said = << >>
        BY <3>2 DEF Spawn, TypeOK, Tries, hostVars
      <4>2. try.n \in Attempts /\ ~Hosting /\ agent[try.n].is = "unborn"
        BY <4>1, Numbers DEF InHand
      <4>3. /\ agent'[try.n].is = "starting"
            /\ agent'[try.n].said = agent[try.n].said
            /\ agent'[try.n].down = agent[try.n].down
            /\ agent'[try.n].moving = agent[try.n].moving
            /\ \A a \in Attempts : a # try.n => agent'[a] = agent[a]
        BY <3>2, <4>2 DEF Spawn, TypeOK, Agents
      <4>4. AgentWords'
        <5>1. \A a \in Attempts : agent'[a].said = << >> /\ Len(agent'[a].said) = 0
          BY <4>1, <4>3, EmptySeq
        <5>2. \A a \in Attempts : LastWord(a)' /\ StopsLast(a)'
          BY <5>1 DEF LastWord, StopsLast
        <5>. QED
          BY <4>1, <4>2, <4>3, <5>1, <5>2 DEF WordsInv, AgentWords, Heard
      <4>5. OneAgent'
        BY <4>1, <4>2, <4>3 DEF OneAgent, Heard, Hosting
      <4>6. TryWords'
        BY <4>1, <4>2, <4>3 DEF WordsInv, AgentWords, TryWords, Heard
      <4>7. SlotWords'
        BY <4>1, <4>2 DEF SlotWords, Hosting, Attempts
      <4>. QED
        BY <4>4, <4>5, <4>6, <4>7 DEF WordsInv
    <3>3. CASE AllocationTimesOut \/ NobodyToTell \/ NotRelayed \/ NotOpened
      <4>1. GiveUp /\ shown' = shown /\ slot' = slot
        BY <3>3 DEF AllocationTimesOut, NobodyToTell, NotRelayed, NotOpened, hostVars
      <4>2. \A a \in Attempts : "event" \in missed'[a] <=> "event" \in missed[a]
        BY <3>3, OtherMiss
        DEF AllocationTimesOut, NobodyToTell, NotRelayed, NotOpened, Misses
      <4>. QED
        BY <4>1, <4>2, TellingOnly, TryGivenUp, WordsKept DEF OnlyTold
    <3>4. CASE BattleOpened
      <4>1. /\ try.phase = "confirming" /\ try'.phase = "idle" /\ try'.n = try.n
            /\ missed' = missed
        BY <3>4 DEF BattleOpened, TypeOK, Tries
      <4>2. try.n \in Attempts /\ ~Hosting
        BY <4>1, Numbers DEF InHand
      <4>3. CASE connected
        <5>1. /\ slot'.a = try.n /\ slot'.relayed = try.at /\ slot'.sent = 0
              /\ shown' = "up" /\ agent' = agent
          BY <3>4, <4>3 DEF BattleOpened, NoHost
        <5>2. AgentWords' /\ OneAgent' /\ TryWords'
          BY <4>1, <5>1
          DEF WordsInv, AgentWords, OneAgent, TryWords, LastWord, StopsLast, Heard
        <5>3. SlotWords'
          BY <4>1, <4>2, <5>1 DEF WordsInv, TryWords, SlotWords, Heard
        <5>. QED
          BY <5>2, <5>3 DEF WordsInv
      <4>4. CASE ~connected
        <5>1. shown' = shown /\ slot' = slot /\ agent' = [agent EXCEPT ![try.n].told = "dropped"]
          BY <3>4, <4>4 DEF BattleOpened, hostVars
        <5>2. OnlyTold
          BY <5>1 DEF OnlyTold, TypeOK, Agents
        <5>. QED
          BY <4>1, <5>1, <5>2, WordsKept DEF TryGoesOn, OnlyTold
      <4>. QED
        BY <4>3, <4>4
    <3>. QED
      BY <2>5, <3>1, <3>2, <3>3, <3>4 DEF Form
  <2>6. CASE ReadLine
    <3>1. try' = try /\ agent' = agent /\ shown' = shown
      BY <2>6 DEF ReadLine
    <3>2. slot'.a = slot.a /\ slot'.relayed = slot.relayed /\ slot'.sent = slot.sent
      BY <2>6 DEF ReadLine, ReadOpenAnswer, ReadAddressRefused, ReadMoveAnswer,
                  ReadMoveRejected, LetJoinerThrough, TypeOK, Hosts
    <3>3. \A a \in Attempts : "event" \in missed'[a] <=> "event" \in missed[a]
      BY <2>6, OtherMiss
      DEF ReadLine, ReadOpenAnswer, ReadAddressRefused, ReadMoveAnswer,
          ReadMoveRejected, LetJoinerThrough, MissedJoiner, Misses
    <3>. QED
      BY <3>1, <3>2, <3>3, WordsKept DEF TryGoesOn
  <2>7. CASE LobbyReads \/ \E p \in Player : PlayerJoins(p)
    BY <2>7, WordsKept DEF LobbyReads, PlayerJoins, TryGoesOn, hostVars
  <2>8. CASE \E w \in waits : MoveUnanswered(w)
    <3>1. /\ slot'.a = slot.a /\ slot'.relayed = slot.relayed /\ slot'.sent = slot.sent
          /\ UNCHANGED <<try, agent, shown, missed>>
      BY <2>8 DEF MoveUnanswered, TypeOK, Hosts, hostVars
    <3>. QED
      BY <3>1, WordsKept DEF TryGoesOn
  <2>9. ASSUME NEW a \in Attempts, AgentOpens(a) \/ AgentHasNone(a) \/ AgentStops(a)
        PROVE  WordsInv'
    BY <2>9, WordsSaid
  <2>10. ASSUME NEW a \in Attempts, Readvertise(a) PROVE WordsInv'
    BY <2>10, WordsMoved
  <2>11. ASSUME NEW a \in Attempts, ReadEvent(a) PROVE WordsInv'
    BY <2>11, WordsHeard
  <2>. QED
    BY <2>1, <2>2, <2>3, <2>4, <2>5, <2>6, <2>7, <2>8, <2>9, <2>10, <2>11 DEF Next
<1>. QED
  BY <1>1, <1>2, TypeCorrect, AgentsInHand, PTL DEF Spec

\* The address Coilbox holds is the relay's (RelayHost::relayed, readvertise).
THEOREM RelayKnown == Spec => []HostKnowsItsRelay
<1>1. TypeOK /\ WordsInv => HostKnowsItsRelay
  BY Numbers DEF WordsInv, SlotWords, HostKnowsItsRelay, Hosting
<1>. QED
  BY <1>1, WordsFollowed, TypeCorrect, PTL

\* A host is shown what their relay is (listening, tell_the_host).
THEOREM OutagesTold == Spec => []OutagesAreTold
<1>1. TypeOK /\ WordsInv => OutagesAreTold
  <2> SUFFICES ASSUME TypeOK, WordsInv, Hosting, Heard(slot.a), "event" \notin missed[slot.a]
               PROVE  shown = CASE agent[slot.a].is = "open" -> "up"
                                [] agent[slot.a].is = "gone" -> "stopped"
                                [] OTHER -> "down"
    BY DEF OutagesAreTold, ShownAsItIs
  <2> DEFINE a == slot.a
  <2>1. a \in Attempts
    BY Numbers DEF Hosting
  <2>2. agent[a].is \in {"open", "down", "gone"} /\ shown \in {"up", "down", "stopped"}
    BY <2>1 DEF WordsInv, SlotWords, TypeOK, Agents
  <2>3. /\ agent[a].is = "open" => ~agent[a].down
        /\ agent[a].is = "down" => agent[a].down
    BY <2>1 DEF WordsInv, AgentWords
  <2>4. /\ shown = "stopped" => agent[a].is = "gone"
        /\ shown = "down" => agent[a].down
        /\ agent[a].down => shown \in {"down", "stopped"}
        /\ agent[a].is = "gone" => shown = "stopped"
    BY <2>1 DEF WordsInv, SlotWords
  <2>. QED
    BY <2>2, <2>3, <2>4
<1>. QED
  BY <1>1, WordsFollowed, TypeCorrect, PTL

-----------------------------------------------------------------------------
(* Who is in the room, and who has been vouched for.                       *)

\* Nothing is left of a connection that has ended.
NothingAfterTheEnd == ~connected => toLobby = << >> /\ fromLobby = << >> /\ room = NoRoom

\* The battle of attempt a can have been asked for: the attempt has got that far.
AskedFor(a) == a <= try.n /\ (a = try.n => try.phase \in {"idle", "confirming"})

\* No room is of a battle not asked for yet.
RoomAskedFor == room.a # 0 => AskedFor(room.a)
\* Nor is a line to open one.
LinesAskedFor == AllIn(toLobby, {"open"}, {line \in LobbyLines : AskedFor(line.a)})

\* As JoinersSpokenFor, from the moment the lobby may have the battle.
JoinersHeard ==
  \A a \in Attempts :
    room.a = a /\ (slot.a = a \/ Trying(a, {"confirming"})) =>
      \/ \A p \in room.joined : p \in spoken[a] \/ Holds(fromLobby, ClientIp(p))
      \/ "joiner" \in missed[a]

\* The inductive invariant about joiners.
JoinInv == NothingAfterTheEnd /\ RoomAskedFor /\ LinesAskedFor /\ JoinersHeard

\* The hosting command goes on, without asking for a battle before it may.
AskingGoesOn == \A a \in 0..MaxAttempts : AskedFor(a) => AskedFor(a)'

\* What the hosting command does in order never unasks for a battle.
LEMMA Asking ==
  ASSUME TypeOK, TypeOK',
         \/ try'.n = try.n /\ (try'.phase \in {"idle", "confirming"} \/ try'.phase = try.phase
                               \/ try.phase \notin {"idle", "confirming"})
         \/ try'.n = try.n + 1 /\ try'.phase = "asking"
  PROVE  AskingGoesOn
BY DEF TypeOK, Tries, AskingGoesOn, AskedFor

\* Lines that open nothing may be queued meanwhile.
LEMMA LinesStay ==
  ASSUME TypeOK, TypeOK', LinesAskedFor, AskingGoesOn,
         \/ toLobby' = toLobby
         \/ \E line \in LobbyLines : line.kind # "open" /\ toLobby' = Append(toLobby, line)
  PROVE  LinesAskedFor'
<1> DEFINE E == {line \in LobbyLines : AskedFor(line.a)}
           F == {line \in LobbyLines : AskedFor(line.a)'}
<1>1. E \subseteq F
  BY DEF LobbyLines, AskingGoesOn
<1>2. AllIn(toLobby, {"open"}, F)
  BY <1>1 DEF LinesAskedFor, AllIn
<1>3. toLobby \in Seq(LobbyLines)
  BY DEF TypeOK
<1>4. AllIn(toLobby', {"open"}, F)
  <2>1. ASSUME NEW line \in LobbyLines, line.kind # "open"
        PROVE  AllIn(Append(toLobby, line), {"open"}, F)
    BY <1>2, <1>3, <2>1, AllInAppend
  <2>. QED
    BY <1>2, <2>1
<1>. QED
  BY <1>4 DEF LinesAskedFor

\* No step of the hosting form or of an agent makes a joiner less heard of.
LEMMA JoinKept ==
  ASSUME TypeOK, TypeOK', JoinInv, AskingGoesOn,
         UNCHANGED <<connected, fromLobby, room, spoken>>,
         \A a \in Attempts : "joiner" \in missed[a] => "joiner" \in missed'[a],
         (connected /\ LinesAskedFor') \/ toLobby' = toLobby,
         \A a \in Attempts :
           room.a = a /\ (slot'.a = a \/ Trying(a, {"confirming"})')
             => slot.a = a \/ Trying(a, {"confirming"})
  PROVE  JoinInv'
<1>1. NothingAfterTheEnd'
  BY DEF JoinInv, NothingAfterTheEnd
<1>2. RoomAskedFor'
  BY DEF JoinInv, RoomAskedFor, AskingGoesOn, TypeOK, Rooms
<1>3. LinesAskedFor'
  BY LinesStay DEF JoinInv
<1>4. JoinersHeard'
  BY DEF JoinInv, JoinersHeard
<1>. QED
  BY <1>1, <1>2, <1>3, <1>4 DEF JoinInv

\* A player of the room in question is vouched for when their line is read, or missed.
LEMMA JoinRead ==
  ASSUME TypeOK, TypeOK', InHand, JoinInv, ReadLine
  PROVE  JoinInv'
<1> DEFINE line == Head(fromLobby)
<1>1. /\ connected /\ fromLobby # << >> /\ fromLobby' = Tail(fromLobby)
      /\ UNCHANGED <<connected, try, toLobby, room>>
  BY DEF ReadLine
<1>2. slot'.a = slot.a
  BY DEF ReadLine, ReadOpenAnswer, ReadAddressRefused, ReadMoveAnswer,
         ReadMoveRejected, LetJoinerThrough, TypeOK, Hosts
<1>3. NothingAfterTheEnd' /\ RoomAskedFor'
  BY <1>1 DEF JoinInv, NothingAfterTheEnd, RoomAskedFor, AskedFor
<1>4. LinesAskedFor'
  BY <1>1 DEF JoinInv, LinesAskedFor, AskedFor
<1>5. JoinersHeard'
  <2> SUFFICES ASSUME NEW a \in Attempts, room.a = a,
                      slot.a = a \/ Trying(a, {"confirming"}), "joiner" \notin missed'[a],
                      NEW p \in room.joined
               PROVE  p \in spoken'[a] \/ Holds(Tail(fromLobby), ClientIp(p))
    BY <1>1, <1>2 DEF JoinersHeard, Trying
  <2>1. "joiner" \notin missed[a] /\ spoken[a] \subseteq spoken'[a]
    BY DEF ReadLine, ReadOpenAnswer, ReadAddressRefused, ReadMoveAnswer, ReadMoveRejected,
           LetJoinerThrough, MissedJoiner, Miss, TypeOK
  <2>2. p \in spoken[a] \/ Holds(fromLobby, ClientIp(p))
    BY <2>1 DEF JoinInv, JoinersHeard
  <2>3. fromLobby \in Seq(Replies)
    BY DEF TypeOK
  <2>4. p \in spoken[a] \/ line = ClientIp(p) \/ Holds(Tail(fromLobby), ClientIp(p))
    BY <1>1, <2>2, <2>3, HoldsTail
  <2>5. ASSUME line = ClientIp(p) PROVE p \in spoken'[a]
    <3>1. line.kind = "clientIp" /\ line.who = p
      BY <2>5 DEF ClientIp
    <3>2. LetJoinerThrough(line)
      BY <3>1 DEF ReadLine, ReadOpenAnswer, ReadAddressRefused, ReadMoveAnswer,
                  ReadMoveRejected
    <3>3. try.phase # "confirming"
      <4>1. ASSUME try.phase = "confirming" PROVE FALSE
        <5>1. try.n = a
          BY <4>1 DEF InHand, Trying, Hosting, Attempts
        <5>2. "joiner" \in missed'[a]
          BY <3>2, <4>1, <5>1 DEF LetJoinerThrough, MissedJoiner, Miss, TypeOK
        <5>. QED
          BY <5>2
      <4>. QED
        BY <4>1
    <3>4. slot.a = a
      BY <3>3 DEF Trying
    <3>. QED
      BY <3>1, <3>2, <3>4 DEF LetJoinerThrough
  <2>. QED
    BY <2>1, <2>4, <2>5
<1>. QED
  BY <1>3, <1>4, <1>5 DEF JoinInv

\* The lobby's room is always of a battle it was asked for, and starts with nobody in it.
LEMMA JoinLobby ==
  ASSUME TypeOK, TypeOK', JoinInv, LobbyReads
  PROVE  JoinInv'
<1> DEFINE line == Head(toLobby)
<1>1. /\ toLobby # << >> /\ toLobby' = Tail(toLobby)
      /\ UNCHANGED <<connected, try, slot, spoken, missed>>
  BY DEF LobbyReads
<1>2. toLobby \in Seq(LobbyLines) /\ fromLobby \in Seq(Replies) /\ line \in LobbyLines
  BY <1>1, LinesHead DEF TypeOK
<1>3. connected
  BY <1>1 DEF JoinInv, NothingAfterTheEnd
<1>4. LinesAskedFor' /\ (line.kind = "open" => AskedFor(line.a))
  BY <1>1, <1>2, AllInTail DEF JoinInv, LinesAskedFor, AskedFor
<1>5. \/ room'.a = room.a /\ room'.joined = room.joined
      \/ room'.a = 0
      \/ line.kind = "open" /\ room'.a = line.a /\ room'.joined = {}
  BY DEF LobbyReads, LobbyOpens, LobbyMoves, NoRoom, TypeOK, Rooms
<1>6. RoomAskedFor'
  BY <1>1, <1>4, <1>5 DEF JoinInv, RoomAskedFor, AskedFor
<1>7. \A p \in Player : Holds(fromLobby, ClientIp(p)) => Holds(fromLobby', ClientIp(p))
  <2>1. line.a \in 0..MaxAttempts /\ line.n \in Nat
    BY <1>2 DEF LobbyLines
  <2>2. \A kind \in {"opened", "refused", "addressRefused"} : Reply(kind, line.a, 0) \in Replies
    BY <2>1 DEF Reply, Replies
  <2>3. \A kind \in {"moved", "moveRefused", "moveRejected"} :
          Reply(kind, line.a, line.n) \in Replies
    BY <2>1 DEF Reply, Replies
  <2>4. \/ fromLobby' = fromLobby
        \/ \E r \in Replies : fromLobby' = Append(fromLobby, r)
        \/ \E r, s \in Replies : fromLobby' = Append(Append(fromLobby, r), s)
    <3>1. CASE LobbyOpens(line)
      BY <1>2, <2>2, <3>1, AppendTwo DEF LobbyOpens
    <3>2. CASE LobbyMoves(line)
      BY <2>3, <3>2 DEF LobbyMoves
    <3>. QED
      BY <3>1, <3>2 DEF LobbyReads
  <2>5. ASSUME NEW r \in Replies, NEW p \in Player, Holds(fromLobby, ClientIp(p))
        PROVE  Holds(Append(fromLobby, r), ClientIp(p))
    BY <1>2, <2>5, HoldsAppend
  <2>6. ASSUME NEW r \in Replies, NEW s \in Replies, NEW p \in Player,
               Holds(fromLobby, ClientIp(p))
        PROVE  Holds(Append(Append(fromLobby, r), s), ClientIp(p))
    <3>1. Append(fromLobby, r) \in Seq(Replies)
      BY <1>2, RepliesAppend
    <3>. QED
      BY <2>5, <2>6, <3>1, HoldsAppend
  <2>. QED
    BY <2>4, <2>5, <2>6
<1>8. JoinersHeard'
  BY <1>1, <1>5, <1>7 DEF JoinInv, JoinersHeard, Trying, Attempts, TypeOK, Rooms
<1>. QED
  BY <1>3, <1>1, <1>4, <1>6, <1>8 DEF JoinInv, NothingAfterTheEnd

\* What else an attempt misses, it goes on missing.
LEMMA JoinerMissed ==
  ASSUME TypeOK, NEW b, NEW what \in Misses, Miss(b, what) \/ missed' = missed
  PROVE  \A a \in Attempts : "joiner" \in missed[a] => "joiner" \in missed'[a]
BY DEF TypeOK, Miss

\* What hosting through a slot and asking for a battle have to do with each other: a player
\* who is in the room of the battle in the slot, or of the one being confirmed, has been
\* vouched for, is in a line still to be read, or was missed before the battle was in the
\* slot (let_joiner_through, remember_relay, HostAttempt).
THEOREM JoinersFollowed == Spec => []JoinInv
<1>1. Init => JoinInv
  <2> SUFFICES ASSUME Init PROVE JoinInv
    OBVIOUS
  <2>1. toLobby = << >> /\ Len(toLobby) = 0 /\ room.a = 0 /\ connected
    BY EmptySeq DEF Init, NoRoom
  <2>. QED
    BY <2>1
    DEF JoinInv, NothingAfterTheEnd, RoomAskedFor, LinesAskedFor, AllIn, JoinersHeard, Attempts
<1>2. TypeOK /\ TypeOK' /\ InHand /\ JoinInv /\ [Next]_vars => JoinInv'
  <2> SUFFICES ASSUME TypeOK, TypeOK', InHand, JoinInv, [Next]_vars
               PROVE  JoinInv'
    OBVIOUS
  <2>0. LinesAskedFor
    BY DEF JoinInv
  <2>1. CASE UNCHANGED vars
    <3>1. AskingGoesOn
      BY <2>1 DEF vars, AskingGoesOn, AskedFor
    <3>. QED
      BY <2>1, <3>1, JoinKept DEF vars, lobbyVars, Trying
  <2>2. CASE HostOpens
    <3>1. /\ try'.phase = "asking" /\ try'.n = try.n + 1 /\ slot'.a = 0
          /\ UNCHANGED <<connected, toLobby, fromLobby, room, spoken, missed>>
      BY <2>2 DEF HostOpens, Release, NoHost, lobbyVars
    <3>2. AskingGoesOn
      BY <3>1, Asking
    <3>. QED
      BY <3>1, <3>2, JoinKept DEF Trying, Attempts
  <2>3. CASE HostLeaves
    <3>1. /\ try' = try /\ slot'.a = 0 /\ connected
          /\ UNCHANGED <<connected, fromLobby, room, spoken>>
          /\ toLobby' = Append(toLobby, Line("leave", room.a, 0, 0))
      BY <2>3 DEF HostLeaves, Release, NoHost
    <3>2. AskingGoesOn
      BY <3>1, Asking
    <3>3. Line("leave", room.a, 0, 0) \in LobbyLines
      BY RelayHostAssumption DEF Line, LobbyLines, TypeOK, Rooms, Addresses
    <3>4. LinesAskedFor'
      BY <2>0, <3>1, <3>2, <3>3, LinesStay DEF Line
    <3>5. \A a \in Attempts : "joiner" \in missed[a] => "joiner" \in missed'[a]
      BY <2>3, JoinerMissed DEF HostLeaves, Misses
    <3>. QED
      BY <3>1, <3>2, <3>4, <3>5, JoinKept DEF Trying, Attempts
  <2>4. CASE ConnectionEnds
    <3>1. toLobby' = << >> /\ fromLobby' = << >> /\ room' = NoRoom /\ Len(toLobby') = 0
      BY <2>4, EmptySeq DEF ConnectionEnds
    <3>. QED
      BY <3>1 DEF JoinInv, NothingAfterTheEnd, RoomAskedFor, LinesAskedFor, AllIn,
                  JoinersHeard, NoRoom, Attempts
  <2>5. CASE Form
    <3>1. CASE NotStarted \/ Spawn
      <4>1. /\ try'.n = try.n /\ slot' = slot /\ try.phase = "asking"
            /\ try'.phase \in {"idle", "allocating"}
            /\ UNCHANGED <<connected, toLobby, fromLobby, room, spoken, missed>>
        BY <3>1 DEF NotStarted, Spawn, lobbyVars, TypeOK, Tries
      <4>2. AskingGoesOn
        BY <4>1, Asking
      <4>. QED
        BY <4>1, <4>2, JoinKept DEF Trying
    <3>2. CASE Advertise
      <4>1. /\ connected /\ try.phase = "opened" /\ try'.phase = "confirming"
            /\ try'.n = try.n /\ try'.at = try.at
            /\ UNCHANGED <<connected, slot, fromLobby, room, spoken, missed>>
            /\ toLobby' = Append(toLobby, Line("open", try.n, 0, try.at))
        BY <3>2 DEF Advertise, TypeOK, Tries
      <4>2. AskingGoesOn
        BY <4>1, Asking
      <4>3. Line("open", try.n, 0, try.at) \in LobbyLines
        BY DEF Line, LobbyLines, TypeOK, Tries
      <4>4. LinesAskedFor'
        <5>1. AllIn(toLobby, {"open"}, {line \in LobbyLines : AskedFor(line.a)'})
          BY <2>0, <4>2 DEF LinesAskedFor, AllIn, AskingGoesOn, LobbyLines
        <5>2. AskedFor(try.n)'
          BY <4>1 DEF AskedFor, TypeOK, Tries
        <5>3. toLobby \in Seq(LobbyLines)
          BY DEF TypeOK
        <5>. QED
          BY <4>1, <4>3, <5>1, <5>2, <5>3, AllInAppend DEF LinesAskedFor, Line
      <4>5. room.a # try.n \/ room.a = 0
        BY <4>1 DEF JoinInv, RoomAskedFor, AskedFor
      <4>. QED
        BY <4>1, <4>2, <4>4, <4>5, JoinKept DEF Trying, Attempts
    <3>3. CASE AllocationTimesOut \/ NobodyToTell \/ NotOpened \/ NotRelayed
      <4>1. /\ try'.n = try.n /\ try'.phase = "idle" /\ slot' = slot
            /\ UNCHANGED <<connected, fromLobby, room, spoken>>
        BY <3>3 DEF AllocationTimesOut, NobodyToTell, NotRelayed, NotOpened, GiveUp,
                    lobbyVars, TypeOK, Tries
      <4>2. AskingGoesOn
        BY <4>1, Asking
      <4>3. \A a \in Attempts : "joiner" \in missed[a] => "joiner" \in missed'[a]
        BY <3>3, JoinerMissed
        DEF AllocationTimesOut, NobodyToTell, NotRelayed, NotOpened, Misses
      <4>4. (connected /\ LinesAskedFor') \/ toLobby' = toLobby
        <5>1. Line("leave", try.n, 0, 0) \in LobbyLines
          BY RelayHostAssumption DEF Line, LobbyLines, TypeOK, Tries, Addresses
        <5>. QED
          BY <2>0, <3>3, <4>2, <5>1, LinesStay
          DEF AllocationTimesOut, NobodyToTell, NotRelayed, NotOpened, Line, lobbyVars
      <4>. QED
        BY <4>1, <4>2, <4>3, <4>4, JoinKept DEF Trying
    <3>4. CASE BattleOpened
      <4>1. /\ try'.n = try.n /\ try'.phase = "idle" /\ try.phase = "confirming"
            /\ slot'.a \in {slot.a, try.n}
            /\ UNCHANGED <<connected, toLobby, fromLobby, room, spoken, missed>>
        BY <3>4 DEF BattleOpened, NoHost, lobbyVars, TypeOK, Tries
      <4>2. AskingGoesOn
        BY <4>1, Asking
      <4>. QED
        BY <4>1, <4>2, JoinKept DEF Trying
    <3>. QED
      BY <2>5, <3>1, <3>2, <3>3, <3>4 DEF Form
  <2>6. CASE ReadLine
    BY <2>6, JoinRead
  <2>7. CASE LobbyReads
    BY <2>7, JoinLobby
  <2>8. ASSUME NEW p \in Player, PlayerJoins(p) PROVE JoinInv'
    <3>1. /\ room.a # 0 /\ room'.a = room.a /\ room'.joined = room.joined \cup {p}
          /\ fromLobby' = Append(fromLobby, ClientIp(p))
          /\ UNCHANGED <<connected, try, slot, toLobby, spoken, missed>>
      BY <2>8 DEF PlayerJoins, TypeOK, Rooms
    <3>2. fromLobby \in Seq(Replies) /\ ClientIp(p) \in Replies
      BY DEF TypeOK, ClientIp, Replies
    <3>3. \A q \in Player : Holds(fromLobby', ClientIp(q)) <=>
                              Holds(fromLobby, ClientIp(q)) \/ ClientIp(p) = ClientIp(q)
      BY <3>1, <3>2, HoldsAppend
    <3>4. connected
      BY <3>1 DEF JoinInv, NothingAfterTheEnd, NoRoom
    <3>5. RoomAskedFor' /\ LinesAskedFor'
      BY <3>1 DEF JoinInv, RoomAskedFor, LinesAskedFor, AskedFor
    <3>6. JoinersHeard'
      BY <3>1, <3>3 DEF JoinInv, JoinersHeard, Trying, TypeOK, Rooms
    <3>. QED
      BY <3>1, <3>4, <3>5, <3>6 DEF JoinInv, NothingAfterTheEnd
  <2>9. CASE \E w \in waits : MoveUnanswered(w)
    <3>1. /\ slot'.a = slot.a
          /\ UNCHANGED <<connected, try, toLobby, fromLobby, room, spoken, missed>>
      BY <2>9 DEF MoveUnanswered, TypeOK, Hosts, lobbyVars
    <3>2. AskingGoesOn
      BY <3>1, Asking
    <3>. QED
      BY <3>1, <3>2, JoinKept DEF Trying
  <2>10. ASSUME NEW a \in Attempts,
                AgentOpens(a) \/ AgentHasNone(a) \/ AgentStops(a) \/ Readvertise(a)
         PROVE  JoinInv'
    <3>1. /\ slot'.a = slot.a
          /\ UNCHANGED <<connected, try, toLobby, fromLobby, room, spoken, missed>>
      BY <2>10 DEF AgentOpens, AgentHasNone, AgentStops, Readvertise, TypeOK, Hosts, lobbyVars
    <3>2. AskingGoesOn
      BY <3>1, Asking
    <3>. QED
      BY <3>1, <3>2, JoinKept DEF Trying
  <2>11. ASSUME NEW a \in Attempts, ReadEvent(a) PROVE JoinInv'
    <3> DEFINE event == Head(agent[a].said)
    <3>1. /\ UNCHANGED <<connected, slot, fromLobby, room, spoken>>
          /\ try' = try \/ (/\ try'.n = try.n /\ try.phase = "allocating"
                            /\ try'.phase \in {"idle", "opened"})
          /\ \A b \in Attempts : "joiner" \in missed[b] => "joiner" \in missed'[b]
      BY <2>11 DEF ReadEvent, Hear, Trying, TypeOK, Tries
    <3>2. AskingGoesOn
      BY <3>1, Asking
    <3>3. (connected /\ LinesAskedFor') \/ toLobby' = toLobby
      <4>1. agent[a].said # << >>
        BY <2>11 DEF ReadEvent
      <4>2. event \in Events /\ agent[a].moving \in Nat
        BY <4>1, EventsHead DEF TypeOK, Agents
      <4>3. Line("move", a, agent[a].moving, event.at) \in LobbyLines
        BY <4>2, RelayHostAssumption DEF Line, LobbyLines, Events, Attempts
      <4>. QED
        BY <2>0, <2>11, <3>2, <4>3, LinesStay DEF ReadEvent, QueueMove, Line
    <3>. QED
      BY <3>1, <3>2, <3>3, JoinKept DEF Trying
  <2>. QED
    BY <2>1, <2>2, <2>3, <2>4, <2>5, <2>6, <2>7, <2>8, <2>9, <2>10, <2>11 DEF Next
<1>. QED
  BY <1>1, <1>2, TypeCorrect, AgentsInHand, PTL DEF Spec

\* Every player of a relayed battle is vouched for (let_joiner_through).
THEOREM JoinersVouchedFor == Spec => []JoinersSpokenFor
<1>1. TypeOK /\ JoinInv => JoinersSpokenFor
  BY Numbers DEF JoinInv, JoinersHeard, JoinersSpokenFor, SpokenFor, Holds, Hosting
<1>. QED
  BY <1>1, JoinersFollowed, TypeCorrect, PTL

-----------------------------------------------------------------------------
(* What was asked of the lobby, what it answered, and what it has.         *)

\* The answers to an open, and where one is: still to be asked, on its way back, read.
Verdicts == {"opened", "refused"}
Confirming == try.phase = "confirming"
Asked == Has(toLobby, {"open"})
Answered == Has(fromLobby, Verdicts)
LeaveMissed == "leave" \in missed[try.n]

\* One battle at a time is asked for, by the attempt that waits for the answer, and the
\* answer is in one place.
OneQuestion ==
  /\ Asked \/ Answered \/ answer # "seen" => Confirming
  /\ ~(Asked /\ Answered) /\ ~(Asked /\ answer # "seen") /\ ~(Answered /\ answer # "seen")
  /\ ~Ahead(toLobby, {"open"}, {"open"})
  /\ ~Ahead(fromLobby, Verdicts, Verdicts)
  /\ AllIn(toLobby, {"open"}, {Line("open", try.n, 0, try.at)})

\* The lobby has said it opened the battle.
SaidOpened == Has(fromLobby, {"opened"}) \/ answer = "opened"

\* The lobby's room is the battle it said it opened, until the host leaves it.
RoomAsSaid ==
  /\ Confirming /\ room.a = try.n => SaidOpened
  /\ Confirming /\ connected /\ SaidOpened /\ ~LeaveMissed =>
       room.a = try.n /\ ~Has(toLobby, {"leave"})
  /\ Confirming /\ ~LeaveMissed => ~Ahead(toLobby, {"open"}, {"leave"})
  /\ Hosting /\ ~LeaveMissed => room.a = slot.a /\ ~Has(toLobby, {"leave"})

\* The room of an agent told to stop is being left.
StoppedIsLeft == room.a # 0 /\ agent[room.a].told = "stop" => Has(toLobby, {"leave"})

\* The inductive invariant about what is asked and answered.
Conversation == OneQuestion /\ RoomAsSaid /\ StoppedIsLeft

\* An attempt that did not wait for an answer did not before, either.
LEMMA LateStaysLate ==
  ASSUME TypeOK, [Next]_vars, OnTime'
  PROVE  OnTime
<1>1. ASSUME NEW a \in Attempts, "answer" \in missed[a] PROVE "answer" \in missed'[a]
  <2> USE <1>1 DEF TypeOK
  <2>1. CASE UNCHANGED vars
    BY <2>1 DEF vars
  <2>2. CASE HostOpens \/ ConnectionEnds \/ LobbyReads
    BY <2>2 DEF HostOpens, ConnectionEnds, LobbyReads
  <2>3. CASE HostLeaves
    BY <2>3 DEF HostLeaves, Miss
  <2>4. CASE Form
    BY <2>4 DEF Form, NotStarted, Spawn, AllocationTimesOut, Advertise, NobodyToTell,
                BattleOpened, NotRelayed, NotOpened, Miss
  <2>5. CASE ReadLine
    BY <2>5 DEF ReadLine, ReadOpenAnswer, ReadAddressRefused, ReadMoveAnswer,
                ReadMoveRejected, LetJoinerThrough, MissedJoiner, Miss
  <2>6. CASE \/ \E p \in Player : PlayerJoins(p)
             \/ \E w \in waits : MoveUnanswered(w)
    BY <2>6 DEF PlayerJoins, MoveUnanswered
  <2>7. CASE \E b \in Attempts : AgentOpens(b) \/ AgentHasNone(b) \/ AgentStops(b)
                                 \/ Readvertise(b) \/ ReadEvent(b)
    BY <2>7 DEF AgentOpens, AgentHasNone, AgentStops, Readvertise, ReadEvent, Hear
  <2>. QED
    BY <2>1, <2>2, <2>3, <2>4, <2>5, <2>6, <2>7 DEF Next
<1>. QED
  BY <1>1 DEF OnTime

\* Nothing is ahead of what is not there.
LEMMA NothingAhead ==
  ASSUME NEW s, NEW K, NEW L, ~Has(s, K) \/ ~Has(s, L)
  PROVE  ~Ahead(s, K, L)
BY DEF Has, Ahead

\* The queues say the same of the battle asked for.
SameLines ==
  /\ \A K \in {{"open"}, {"leave"}} : Has(toLobby', K) <=> Has(toLobby, K)
  /\ \A K \in {{"open"}, {"leave"}} : Ahead(toLobby', {"open"}, K) <=> Ahead(toLobby, {"open"}, K)
  /\ \A E : AllIn(toLobby, {"open"}, E) => AllIn(toLobby', {"open"}, E)
SameAnswers ==
  /\ \A K \in {Verdicts, {"opened"}} : Has(fromLobby', K) <=> Has(fromLobby, K)
  /\ Ahead(fromLobby', Verdicts, Verdicts) <=> Ahead(fromLobby, Verdicts, Verdicts)

\* Lines about moves say nothing of the battle asked for, whoever reads or writes them.
LEMMA MovesAsideLines ==
  ASSUME TypeOK,
         \/ toLobby' = toLobby
         \/ \E line \in LobbyLines : line.kind = "move" /\ toLobby' = Append(toLobby, line)
         \/ toLobby # << >> /\ Head(toLobby).kind = "move" /\ toLobby' = Tail(toLobby)
  PROVE  SameLines
<1>1. toLobby \in Seq(LobbyLines)
  BY DEF TypeOK
<1>2. CASE toLobby' = toLobby
  BY <1>2 DEF SameLines
<1>3. ASSUME NEW line \in LobbyLines, line.kind = "move", toLobby' = Append(toLobby, line)
      PROVE  SameLines
  BY <1>1, <1>3, HasAppend, AheadAppend, AllInAppend DEF SameLines
<1>4. CASE toLobby # << >> /\ Head(toLobby).kind = "move" /\ toLobby' = Tail(toLobby)
  BY <1>1, <1>4, HasTail, AheadTail, AllInTail DEF SameLines
<1>. QED
  BY <1>2, <1>3, <1>4

\* Lines that are no verdict say nothing of it either.
LEMMA OtherAnswers ==
  ASSUME TypeOK,
         \/ fromLobby' = fromLobby
         \/ \E r \in Replies : r.kind \notin Verdicts /\ fromLobby' = Append(fromLobby, r)
         \/ /\ fromLobby # << >> /\ Head(fromLobby).kind \notin Verdicts
            /\ fromLobby' = Tail(fromLobby)
  PROVE  SameAnswers
<1>1. fromLobby \in Seq(Replies)
  BY DEF TypeOK
<1>2. CASE fromLobby' = fromLobby
  BY <1>2 DEF SameAnswers
<1>3. ASSUME NEW r \in Replies, r.kind \notin Verdicts, fromLobby' = Append(fromLobby, r)
      PROVE  SameAnswers
  BY <1>1, <1>3, HasAppend, AheadAppend DEF SameAnswers, Verdicts
<1>4. CASE /\ fromLobby # << >> /\ Head(fromLobby).kind \notin Verdicts
           /\ fromLobby' = Tail(fromLobby)
  BY <1>1, <1>4, HasTail, AheadTail DEF SameAnswers, Verdicts
<1>. QED
  BY <1>2, <1>3, <1>4

\* Nothing else in the queues, in the slot or about the agents disturbs the conversation.
LEMMA TalkKept ==
  ASSUME TypeOK, TypeOK', InHand, OneAgent, RoomAskedFor, Conversation,
         SameLines, SameAnswers, answer' = answer, connected' = connected,
         room'.a = room.a, slot'.a \in {0, slot.a},
         \/ Confirming /\ Confirming' /\ try'.n = try.n /\ try'.at = try.at
         \/ ~Confirming /\ ~Confirming' /\ (try'.n = try.n \/ slot'.a = 0),
         "leave" \in missed[try.n] => "leave" \in missed'[try.n],
         \A a \in Attempts : agent'[a].told = "stop" => agent[a].told = "stop" \/ room.a # a
  PROVE  Conversation'
<1>1. /\ Asked' <=> Asked
      /\ Answered' <=> Answered
      /\ SaidOpened' <=> SaidOpened
      /\ Has(toLobby', {"leave"}) <=> Has(toLobby, {"leave"})
      /\ Ahead(toLobby', {"open"}, {"open"}) <=> Ahead(toLobby, {"open"}, {"open"})
      /\ Ahead(toLobby', {"open"}, {"leave"}) <=> Ahead(toLobby, {"open"}, {"leave"})
      /\ Ahead(fromLobby', Verdicts, Verdicts) <=> Ahead(fromLobby, Verdicts, Verdicts)
  BY DEF SameLines, SameAnswers, Asked, Answered, SaidOpened
<1>2. OneQuestion'
  <2>1. AllIn(toLobby', {"open"}, {Line("open", try'.n, 0, try'.at)})
    <3>1. CASE Confirming
      BY <3>1 DEF Conversation, OneQuestion, SameLines
    <3>2. CASE ~Confirming
      BY <3>2, <1>1 DEF Conversation, OneQuestion, Asked, Has, AllIn
    <3>. QED
      BY <3>1, <3>2
  <2>. QED
    BY <1>1, <2>1 DEF Conversation, OneQuestion
<1>3. RoomAsSaid'
  BY <1>1 DEF Conversation, RoomAsSaid, LeaveMissed, Hosting
<1>4. StoppedIsLeft'
  <2>1. room.a # 0 => room.a \in Attempts
    BY RelayHostAssumption DEF TypeOK, Rooms, Attempts
  <2>. QED
    BY <1>1, <2>1 DEF Conversation, StoppedIsLeft
<1>. QED
  BY <1>2, <1>3, <1>4 DEF Conversation

\* The battle is asked for once everything about earlier ones has been said.
LEMMA TalkAsked ==
  ASSUME TypeOK, TypeOK', InHand, RoomAskedFor, Conversation, Advertise
  PROVE  Conversation'
<1> DEFINE line == Line("open", try.n, 0, try.at)
<1>1. /\ try.phase = "opened" /\ try'.phase = "confirming" /\ try'.n = try.n
      /\ try'.at = try.at /\ answer' = "seen" /\ toLobby' = Append(toLobby, line)
      /\ UNCHANGED <<connected, slot, fromLobby, room, agent, missed>>
  BY DEF Advertise, TypeOK, Tries
<1>2. toLobby \in Seq(LobbyLines) /\ line \in LobbyLines /\ line.kind = "open"
  BY DEF TypeOK, Tries, Line, LobbyLines
<1>3. /\ ~Has(toLobby, {"open"}) /\ ~Has(fromLobby, Verdicts) /\ ~Has(fromLobby, {"opened"})
      /\ ~Hosting /\ room.a # try.n
  BY <1>1 DEF Conversation, OneQuestion, Confirming, Asked, Answered, InHand, RoomAskedFor,
              AskedFor, Has, Verdicts
<1>4. /\ Has(toLobby', {"open"})
      /\ ~Ahead(toLobby', {"open"}, {"open"}) /\ ~Ahead(toLobby', {"open"}, {"leave"})
      /\ Has(toLobby', {"leave"}) <=> Has(toLobby, {"leave"})
  BY <1>1, <1>2, <1>3, HasAppend, AheadAppend, NothingAhead
<1>5. AllIn(toLobby', {"open"}, {line})
  <2>1. AllIn(toLobby, {"open"}, {line})
    BY <1>3 DEF AllIn, Has
  <2>. QED
    BY <1>1, <1>2, <2>1, AllInAppend
<1>6. OneQuestion'
  BY <1>1, <1>3, <1>4, <1>5
  DEF Conversation, OneQuestion, Confirming, Asked, Answered
<1>7. RoomAsSaid'
  BY <1>1, <1>3, <1>4 DEF RoomAsSaid, Confirming, SaidOpened, Hosting
<1>8. StoppedIsLeft'
  BY <1>1, <1>4 DEF Conversation, StoppedIsLeft
<1>. QED
  BY <1>6, <1>7, <1>8 DEF Conversation

\* An attempt that has had its answer, or will have none, leaves nothing to be said.
LEMMA TalkEnded ==
  ASSUME TypeOK, TypeOK', Conversation, Confirming, ~Confirming', ~Asked, ~Answered,
         answer' = "seen", try'.n = try.n, UNCHANGED <<connected, fromLobby, room>>,
         \/ toLobby' = toLobby
         \/ connected /\ toLobby' = Append(toLobby, Line("leave", try.n, 0, 0)),
         slot'.a # 0 => /\ slot'.a = try.n /\ missed' = missed /\ toLobby' = toLobby
                        /\ connected /\ answer = "opened",
         \A a \in Attempts : agent'[a].told = "stop" =>
           agent[a].told = "stop" \/ room.a # a \/ Has(toLobby', {"leave"})
  PROVE  Conversation'
<1>1. toLobby \in Seq(LobbyLines) /\ Line("leave", try.n, 0, 0) \in LobbyLines
  BY RelayHostAssumption DEF TypeOK, Tries, Line, LobbyLines, Addresses
<1>2. /\ ~Has(toLobby', {"open"})
      /\ Has(toLobby, {"leave"}) => Has(toLobby', {"leave"})
  <2>1. CASE toLobby' = toLobby
    BY <2>1 DEF Asked
  <2>2. CASE toLobby' = Append(toLobby, Line("leave", try.n, 0, 0))
    BY <1>1, <2>2, HasAppend DEF Asked, Line
  <2>. QED
    BY <2>1, <2>2
<1>3. OneQuestion'
  <2>1. AllIn(toLobby', {"open"}, {Line("open", try'.n, 0, try'.at)})
    BY <1>2 DEF Has, AllIn
  <2>. QED
    BY <1>2, <2>1, NothingAhead DEF Conversation, OneQuestion, Asked, Answered
<1>4. RoomAsSaid'
  BY DEF Conversation, RoomAsSaid, Confirming, SaidOpened, LeaveMissed, Hosting
<1>5. StoppedIsLeft'
  <2>1. room.a # 0 => room.a \in Attempts
    BY RelayHostAssumption DEF TypeOK, Rooms, Attempts
  <2>. QED
    BY <1>2, <2>1 DEF Conversation, StoppedIsLeft
<1>. QED
  BY <1>3, <1>4, <1>5 DEF Conversation

\* The host leaves: what is being confirmed has missed it, and the slot is empty.
LEMMA TalkLeft ==
  ASSUME TypeOK, TypeOK', InHand, Conversation, HostLeaves
  PROVE  Conversation'
<1> DEFINE line == Line("leave", room.a, 0, 0)
<1>1. /\ slot'.a = 0 /\ toLobby' = Append(toLobby, line)
      /\ UNCHANGED <<connected, try, answer, fromLobby, room>>
  BY DEF HostLeaves, Release, NoHost, answerVars
<1>2. toLobby \in Seq(LobbyLines) /\ line \in LobbyLines /\ line.kind = "leave"
  BY RelayHostAssumption DEF TypeOK, Rooms, Line, LobbyLines, Addresses
<1>3. /\ Has(toLobby', {"leave"})
      /\ Has(toLobby', {"open"}) <=> Has(toLobby, {"open"})
      /\ Ahead(toLobby', {"open"}, {"open"}) <=> Ahead(toLobby, {"open"}, {"open"})
      /\ \A E : AllIn(toLobby', {"open"}, E) <=> AllIn(toLobby, {"open"}, E)
  BY <1>1, <1>2, HasAppend, AheadAppend, AllInAppend
<1>4. OneQuestion'
  BY <1>1, <1>3 DEF Conversation, OneQuestion, Confirming, Asked, Answered
<1>5. RoomAsSaid'
  <2>1. Confirming => LeaveMissed'
    BY <1>1, Numbers DEF HostLeaves, Confirming, LeaveMissed, Miss, TypeOK, InHand
  <2>. QED
    BY <1>1, <2>1 DEF Conversation, RoomAsSaid, Confirming, SaidOpened, Hosting
<1>6. StoppedIsLeft'
  BY <1>3 DEF StoppedIsLeft
<1>. QED
  BY <1>4, <1>5, <1>6 DEF Conversation

\* The read loop comes to the answer, and it is the answer the attempt waits for.
LEMMA TalkAnswered ==
  ASSUME TypeOK, TypeOK', Conversation, ReadLine, ReadOpenAnswer(Head(fromLobby))
  PROVE  Conversation'
<1> DEFINE line == Head(fromLobby)
<1>1. /\ fromLobby # << >> /\ fromLobby' = Tail(fromLobby) /\ answer' = line.kind
      /\ line.kind \in Verdicts
      /\ UNCHANGED <<connected, try, slot, toLobby, room, agent, missed>>
  BY DEF ReadLine, ReadOpenAnswer, Verdicts
<1>2. fromLobby \in Seq(Replies)
  BY DEF TypeOK
<1>3. Answered /\ Confirming /\ ~Asked /\ answer = "seen"
  BY <1>1, <1>2, HasTail DEF Answered, Conversation, OneQuestion
<1>4. ~Has(fromLobby', Verdicts) /\ ~Has(fromLobby', {"opened"})
  <2>1. ~Has(fromLobby', Verdicts)
    BY <1>1, <1>2, AheadTail DEF Conversation, OneQuestion
  <2>. QED
    BY <2>1 DEF Has, Verdicts
<1>5. SaidOpened' <=> SaidOpened
  BY <1>1, <1>2, <1>3, <1>4, HasTail DEF SaidOpened, Verdicts
<1>6. OneQuestion'
  BY <1>1, <1>3, <1>4, NothingAhead
  DEF Conversation, OneQuestion, Confirming, Asked, Answered, Verdicts
<1>7. RoomAsSaid'
  BY <1>1, <1>5 DEF Conversation, RoomAsSaid, Confirming, LeaveMissed, Hosting
<1>8. StoppedIsLeft'
  BY <1>1 DEF Conversation, StoppedIsLeft
<1>. QED
  BY <1>6, <1>7, <1>8 DEF Conversation

\* The lobby reads of the battle, which is then its room, or is not.
LEMMA TalkOpened ==
  ASSUME TypeOK, TypeOK', InHand, Conversation, LobbyReads,
         Head(toLobby).kind = "open", LobbyOpens(Head(toLobby))
  PROVE  Conversation'
<1> DEFINE line == Head(toLobby)
<1>1. /\ toLobby # << >> /\ toLobby' = Tail(toLobby)
      /\ UNCHANGED <<connected, try, slot, answer, agent, missed>>
  BY DEF LobbyReads, answerVars
<1>2. toLobby \in Seq(LobbyLines) /\ fromLobby \in Seq(Replies) /\ line \in LobbyLines
  BY <1>1, LinesHead DEF TypeOK
<1>3. Asked /\ Confirming /\ ~Answered /\ answer = "seen"
  BY <1>1, <1>2, HasTail DEF Conversation, OneQuestion, Asked
<1>4. line = Line("open", try.n, 0, try.at)
  BY <1>1, <1>2, AllInTail DEF Conversation, OneQuestion
<1>5. /\ ~Has(toLobby', {"open"})
      /\ Has(toLobby', {"leave"}) <=> Has(toLobby, {"leave"})
      /\ ~LeaveMissed => ~Has(toLobby', {"leave"})
  BY <1>1, <1>2, <1>3, HasTail, AheadTail DEF Conversation, OneQuestion, RoomAsSaid
<1>6. ~SaidOpened /\ room.a # try.n
  BY <1>3 DEF Answered, SaidOpened, Has, Verdicts, Conversation, RoomAsSaid
<1>7. try.n \in Attempts /\ agent[try.n].told = "nothing" /\ ~Hosting
  BY <1>3, Numbers DEF InHand, Confirming
<1> DEFINE refused1 == Reply("addressRefused", line.a, 0)
           opened1 == Reply("opened", line.a, 0)
           no == Reply("refused", line.a, 0)
<1>8. refused1 \in Replies /\ opened1 \in Replies /\ no \in Replies
  BY <1>2 DEF LobbyLines, Reply, Replies
<1>9. ~Has(fromLobby, Verdicts) /\ ~Has(fromLobby, {"opened"})
  BY <1>3, <1>6 DEF Answered, SaidOpened
<1>10. /\ Append(fromLobby, refused1) \in Seq(Replies)
       /\ ~Has(Append(fromLobby, refused1), Verdicts)
       /\ ~Has(Append(fromLobby, refused1), {"opened"})
  BY <1>2, <1>8, <1>9, RepliesAppend, HasAppend DEF Reply, Verdicts
<1>11. ASSUME NEW s \in Seq(Replies), ~Has(s, Verdicts), ~Has(s, {"opened"})
       PROVE  /\ ~Ahead(s, Verdicts, Verdicts)
              /\ ~Ahead(Append(s, opened1), Verdicts, Verdicts)
              /\ Has(Append(s, opened1), {"opened"})
              /\ ~Ahead(Append(s, no), Verdicts, Verdicts)
              /\ ~Has(Append(s, no), {"opened"})
  BY <1>8, <1>11, NothingAhead, AheadAppend, HasAppend DEF Reply, Verdicts
<1>12. \/ /\ room'.a = try.n
          /\ Has(fromLobby', {"opened"})
          /\ ~Ahead(fromLobby', Verdicts, Verdicts)
       \/ /\ room' = room
          /\ ~Has(fromLobby', {"opened"})
          /\ ~Ahead(fromLobby', Verdicts, Verdicts)
  <2>1. line.a = try.n
    BY <1>4 DEF Line
  <2>2. /\ fromLobby \o <<refused1, opened1>> = Append(Append(fromLobby, refused1), opened1)
        /\ fromLobby \o <<refused1, no>> = Append(Append(fromLobby, refused1), no)
    BY <1>2, <1>8, AppendTwo
  <2>3. \/ /\ room'.a = try.n
           /\ fromLobby' \in {Append(fromLobby, opened1),
                              Append(Append(fromLobby, refused1), opened1)}
        \/ /\ room' = room
           /\ fromLobby' \in {fromLobby, Append(fromLobby, no),
                              Append(Append(fromLobby, refused1), no)}
    BY <2>1, <2>2 DEF LobbyOpens
  <2>4. \A s \in {fromLobby, Append(fromLobby, refused1)} :
          /\ ~Ahead(s, Verdicts, Verdicts) /\ ~Has(s, {"opened"})
          /\ ~Ahead(Append(s, opened1), Verdicts, Verdicts)
          /\ Has(Append(s, opened1), {"opened"})
          /\ ~Ahead(Append(s, no), Verdicts, Verdicts)
          /\ ~Has(Append(s, no), {"opened"})
    BY <1>2, <1>9, <1>10, <1>11
  <2>. QED
    BY <2>3, <2>4
<1>13. OneQuestion'
  <2>1. AllIn(toLobby', {"open"}, {Line("open", try'.n, 0, try'.at)})
    BY <1>5 DEF Has, AllIn
  <2>. QED
    BY <1>1, <1>3, <1>5, <1>12, <2>1, NothingAhead
    DEF OneQuestion, Confirming, Asked, Answered
<1>14. RoomAsSaid'
  BY <1>1, <1>3, <1>5, <1>6, <1>7, <1>12, NothingAhead
  DEF RoomAsSaid, Confirming, SaidOpened, LeaveMissed, Hosting
<1>15. StoppedIsLeft'
  BY <1>1, <1>5, <1>7, <1>12 DEF Conversation, StoppedIsLeft
<1>. QED
  BY <1>13, <1>14, <1>15 DEF Conversation

\* The lobby reads that the host has left: the battle was in nobody's room but this.
LEMMA TalkClosed ==
  ASSUME TypeOK, TypeOK', InHand, Conversation, LobbyReads,
         Head(toLobby).kind = "leave", room' = NoRoom, UNCHANGED fromLobby
  PROVE  Conversation'
<1>1. /\ toLobby # << >> /\ toLobby' = Tail(toLobby) /\ room'.a = 0
      /\ UNCHANGED <<connected, try, slot, answer, agent, missed, fromLobby>>
  BY DEF LobbyReads, answerVars, NoRoom
<1>2. toLobby \in Seq(LobbyLines)
  BY DEF TypeOK
<1>3. /\ Has(toLobby, {"leave"})
      /\ Has(toLobby', {"open"}) <=> Has(toLobby, {"open"})
      /\ Ahead(toLobby', {"open"}, {"open"}) <=> Ahead(toLobby, {"open"}, {"open"})
      /\ Ahead(toLobby', {"open"}, {"leave"}) <=> Ahead(toLobby, {"open"}, {"leave"})
      /\ \A E : AllIn(toLobby', {"open"}, E) <=> AllIn(toLobby, {"open"}, E)
  BY <1>1, <1>2, HasTail, AheadTail, AllInTail
<1>4. OneQuestion'
  BY <1>1, <1>3 DEF Conversation, OneQuestion, Confirming, Asked, Answered
<1>5. RoomAsSaid'
  BY <1>1, <1>3
  DEF Conversation, RoomAsSaid, Confirming, SaidOpened, LeaveMissed, Hosting, InHand
<1>6. StoppedIsLeft'
  BY <1>1 DEF StoppedIsLeft
<1>. QED
  BY <1>4, <1>5, <1>6 DEF Conversation

\* It holds as long as every attempt waits for its answer.
ConversationOnTime == OnTime => Conversation

\* The lobby is asked for one battle at a time and its room is the one it said it opened,
\* as long as every attempt waits for its answer (HostAttempt, advertise, remember_relay,
\* confirmed, release).
THEOREM ConversationFollowed == Spec => []ConversationOnTime
<1>1. Init => ConversationOnTime
  <2> SUFFICES ASSUME Init PROVE Conversation
    BY DEF ConversationOnTime
  <2>1. /\ Len(toLobby) = 0 /\ Len(fromLobby) = 0 /\ answer = "seen" /\ ~Confirming
        /\ room.a = 0 /\ ~Hosting
    BY EmptySeq DEF Init, Confirming, NoRoom, NoHost, Hosting
  <2>. QED
    BY <2>1 DEF Conversation, OneQuestion, RoomAsSaid, StoppedIsLeft, Asked, Answered,
                Has, Ahead, AllIn
<1>2. TypeOK /\ TypeOK' /\ InHand /\ WordsInv /\ JoinInv /\ ConversationOnTime /\ [Next]_vars
        => ConversationOnTime'
  <2> SUFFICES ASSUME TypeOK, TypeOK', InHand, WordsInv, JoinInv, ConversationOnTime,
                      [Next]_vars, OnTime'
               PROVE  Conversation'
    BY DEF ConversationOnTime
  <2>0. Conversation /\ RoomAskedFor /\ OneAgent /\ NothingAfterTheEnd
    BY LateStaysLate DEF ConversationOnTime, JoinInv, WordsInv
  <2>a. (toLobby' = toLobby => SameLines) /\ (fromLobby' = fromLobby => SameAnswers)
    BY MovesAsideLines, OtherAnswers
  <2>1. CASE UNCHANGED vars
    BY <2>1, <2>0, <2>a, TalkKept DEF vars, lobbyVars, answerVars, Confirming
  <2>2. CASE HostOpens
    <3>1. /\ try.phase = "idle" /\ try'.phase = "asking" /\ slot'.a = 0
          /\ UNCHANGED <<connected, answer, toLobby, fromLobby, room, missed>>
      BY <2>2 DEF HostOpens, Release, NoHost, lobbyVars, answerVars
    <3>2. \A a \in Attempts : agent'[a].told = "stop" => agent[a].told = "stop"
      BY <2>2, Released DEF HostOpens
    <3>. QED
      BY <2>0, <2>a, <3>1, <3>2, TalkKept DEF Confirming
  <2>3. CASE HostLeaves
    BY <2>3, <2>0, TalkLeft
  <2>4. CASE ConnectionEnds
    <3>1. /\ Len(toLobby') = 0 /\ Len(fromLobby') = 0 /\ ~connected' /\ room'.a = 0
          /\ slot'.a = 0 /\ UNCHANGED <<try, answer>>
      BY <2>4, EmptySeq DEF ConnectionEnds, Release, NoHost, NoRoom, answerVars
    <3>2. OneQuestion'
      BY <2>0, <3>1
      DEF Conversation, OneQuestion, Confirming, Asked, Answered, Has, Ahead, AllIn
    <3>3. RoomAsSaid' /\ StoppedIsLeft'
      BY <3>1 DEF RoomAsSaid, StoppedIsLeft, Confirming, Hosting, InHand, Has, Ahead
    <3>. QED
      BY <3>2, <3>3 DEF Conversation
  <2>5. CASE Form
    <3>1. CASE NotStarted \/ Spawn
      <4>1. /\ try'.n = try.n /\ ~Confirming /\ ~Confirming' /\ slot' = slot
            /\ UNCHANGED <<connected, answer, toLobby, fromLobby, room, missed>>
        BY <3>1 DEF NotStarted, Spawn, lobbyVars, answerVars, TypeOK, Tries, Confirming
      <4>2. \A a \in Attempts : agent'[a].told = agent[a].told
        <5>1. CASE NotStarted
          BY <5>1 DEF NotStarted
        <5>2. CASE Spawn
          <6>1. agent' = [agent EXCEPT ![try.n].is = "starting"]
            BY <5>2 DEF Spawn
          <6>. QED
            BY <6>1 DEF TypeOK, Agents
        <5>. QED
          BY <3>1, <5>1, <5>2
      <4>. QED
        BY <2>0, <2>a, <4>1, <4>2, TalkKept
    <3>2. CASE AllocationTimesOut \/ NobodyToTell
      <4>1. /\ GiveUp /\ ~Confirming /\ ~Confirming' /\ slot' = slot /\ try'.n = try.n
            /\ UNCHANGED <<connected, answer, toLobby, fromLobby, room, missed>>
        BY <3>2 DEF AllocationTimesOut, NobodyToTell, GiveUp, lobbyVars, answerVars, TypeOK,
                    Tries, Confirming
      <4>2. room.a = 0 \/ room.a # try.n
        BY <2>0, <3>2 DEF AllocationTimesOut, NobodyToTell, NothingAfterTheEnd, NoRoom,
                          RoomAskedFor, AskedFor
      <4>3. \A a \in Attempts : agent'[a].told = "stop" => agent[a].told = "stop" \/ room.a # a
        BY <4>1, <4>2, GivenUp DEF Attempts
      <4>. QED
        BY <2>0, <2>a, <4>1, <4>3, TalkKept
    <3>3. CASE Advertise
      BY <2>0, <3>3, TalkAsked
    <3>4. CASE BattleOpened
      <4>1. /\ Confirming /\ ~Confirming' /\ try'.n = try.n /\ answer = "opened"
            /\ answer' = "seen" /\ UNCHANGED <<connected, toLobby, fromLobby, room, missed>>
            /\ slot' = slot \/ (connected /\ slot'.a = try.n)
        BY <3>4 DEF BattleOpened, NoHost, lobbyVars, TypeOK, Tries, Confirming
      <4>2. ~Asked /\ ~Answered /\ slot.a = 0
        BY <2>0, <4>1 DEF Conversation, OneQuestion, InHand, Hosting, Confirming
      <4>3. \A a \in Attempts : agent'[a].told = "stop" => agent[a].told = "stop"
        <5>1. CASE connected
          BY <3>4, <5>1 DEF BattleOpened
        <5>2. CASE ~connected
          <6>1. agent' = [agent EXCEPT ![try.n].told = "dropped"]
            BY <3>4, <5>2 DEF BattleOpened
          <6>. QED
            BY <6>1 DEF TypeOK, Agents
        <5>. QED
          BY <5>1, <5>2
      <4>. QED
        BY <2>0, <4>1, <4>2, <4>3, TalkEnded
    <3>5. CASE NotRelayed
      <4>1. /\ Confirming /\ ~Confirming' /\ try'.n = try.n /\ answer = "opened" /\ GiveUp
            /\ answer' = "seen" /\ UNCHANGED <<connected, slot, fromLobby, room>>
            /\ toLobby' = IF connected THEN Append(toLobby, Line("leave", try.n, 0, 0))
                          ELSE toLobby
        BY <3>5 DEF NotRelayed, GiveUp, TypeOK, Tries, Confirming
      <4>2. ~Asked /\ ~Answered /\ slot.a = 0
        BY <2>0, <4>1 DEF Conversation, OneQuestion, InHand, Hosting, Confirming
      <4>3. \A a \in Attempts : agent'[a].told = "stop" =>
              agent[a].told = "stop" \/ room.a # a \/ Has(toLobby', {"leave"})
        <5>1. CASE connected
          <6>1. toLobby \in Seq(LobbyLines) /\ Line("leave", try.n, 0, 0) \in LobbyLines
            BY RelayHostAssumption DEF TypeOK, Tries, Line, LobbyLines, Addresses
          <6>. QED
            BY <4>1, <5>1, <6>1, HasAppend DEF Line
        <5>2. CASE ~connected
          BY <2>0, <5>2 DEF NothingAfterTheEnd, NoRoom, Attempts
        <5>. QED
          BY <5>1, <5>2
      <4>. QED
        BY <2>0, <4>1, <4>2, <4>3, TalkEnded
    <3>6. CASE NotOpened
      <4>1. /\ Confirming /\ ~Confirming' /\ try'.n = try.n /\ GiveUp
            /\ answer \in {"refused", "seen"}
            /\ answer' = "seen" /\ UNCHANGED <<connected, slot, toLobby, fromLobby, room>>
        BY <3>6 DEF NotOpened, GiveUp, lobbyVars, TypeOK, Tries, Confirming
      <4>2. try.n \in Attempts
        BY <4>1, Numbers DEF InHand, Confirming
      <4>3. ~Asked /\ ~Answered
        <5>1. CASE answer = "refused"
          BY <2>0, <5>1 DEF Conversation, OneQuestion
        <5>2. CASE answer = "seen"
          <6>1. StillToBeSaid => "answer" \in missed'[try.n]
            BY <3>6, <4>2, <5>2 DEF NotOpened, Miss, TypeOK
          <6>2. ~StillToBeSaid
            BY <4>2, <6>1 DEF OnTime
          <6>. QED
            BY <6>2 DEF StillToBeSaid, Asked, Answered, Has, Verdicts
        <5>. QED
          BY <4>1, <5>1, <5>2
      <4>4. room.a # try.n
        <5>1. ~SaidOpened
          BY <4>1, <4>3 DEF SaidOpened, Answered, Has, Verdicts
        <5>. QED
          BY <2>0, <4>1, <5>1 DEF Conversation, RoomAsSaid
      <4>5. \A a \in Attempts : agent'[a].told = "stop" => agent[a].told = "stop" \/ room.a # a
        BY <4>1, <4>4, GivenUp
      <4>6. slot.a = 0
        BY <4>1 DEF InHand, Hosting, Confirming
      <4>. QED
        BY <2>0, <4>1, <4>3, <4>5, <4>6, TalkEnded
    <3>. QED
      BY <2>5, <3>1, <3>2, <3>3, <3>4, <3>5, <3>6 DEF Form
  <2>6. CASE ReadLine
    <3> DEFINE line == Head(fromLobby)
    <3>1. CASE ReadOpenAnswer(line)
      BY <2>6, <2>0, <3>1, TalkAnswered
    <3>2. CASE ~ReadOpenAnswer(line)
      <4>1. /\ fromLobby # << >> /\ fromLobby' = Tail(fromLobby)
            /\ line.kind \notin Verdicts
            /\ UNCHANGED <<connected, try, answer, toLobby, room, agent>>
        BY <2>6, <3>2
        DEF ReadLine, ReadAddressRefused, ReadMoveAnswer, ReadMoveRejected, LetJoinerThrough,
            answerVars, Verdicts
      <4>3. slot'.a = slot.a
        BY <2>6, <3>2
        DEF ReadLine, ReadAddressRefused, ReadMoveAnswer, ReadMoveRejected, LetJoinerThrough,
            TypeOK, Hosts
      <4>4. "leave" \in missed[try.n] => "leave" \in missed'[try.n]
        BY <2>6, <3>2
        DEF ReadLine, ReadAddressRefused, ReadMoveAnswer, ReadMoveRejected, LetJoinerThrough,
            MissedJoiner, Miss, TypeOK
      <4>2. SameAnswers
        BY <4>1, OtherAnswers
      <4>. QED
        BY <2>0, <2>a, <4>1, <4>2, <4>3, <4>4, TalkKept DEF Confirming
    <3>. QED
      BY <3>1, <3>2
  <2>7. CASE LobbyReads
    <3> DEFINE line == Head(toLobby)
    <3>1. CASE line.kind = "open" /\ LobbyOpens(line)
      BY <2>7, <2>0, <3>1, TalkOpened
    <3>2. CASE line.kind = "leave" /\ room' = NoRoom /\ UNCHANGED fromLobby
      BY <2>7, <2>0, <3>2, TalkClosed
    <3>3. CASE line.kind = "move" /\ LobbyMoves(line)
      <4>1. /\ toLobby # << >> /\ toLobby' = Tail(toLobby) /\ room'.a = room.a
            /\ UNCHANGED <<connected, try, slot, answer, agent, missed>>
        BY <2>7, <3>3 DEF LobbyReads, LobbyMoves, answerVars, TypeOK, Rooms
      <4>2. SameLines
        BY <3>3, <4>1, MovesAsideLines
      <4>3. SameAnswers
        <5>1. line \in LobbyLines
          BY <4>1, LinesHead DEF TypeOK
        <5>2. \A kind \in {"moved", "moveRefused", "moveRejected"} :
                /\ Reply(kind, line.a, line.n) \in Replies
                /\ Reply(kind, line.a, line.n).kind \notin Verdicts
          BY <5>1 DEF LobbyLines, Reply, Replies, Verdicts
        <5>. QED
          BY <3>3, <5>2, OtherAnswers DEF LobbyMoves
      <4>. QED
        BY <2>0, <4>1, <4>2, <4>3, TalkKept DEF Confirming
    <3>. QED
      BY <2>7, <3>1, <3>2, <3>3 DEF LobbyReads
  <2>8. ASSUME NEW p \in Player, PlayerJoins(p) PROVE Conversation'
    <3>1. /\ room'.a = room.a /\ fromLobby' = Append(fromLobby, ClientIp(p))
          /\ UNCHANGED <<connected, try, slot, answer, toLobby, agent, missed>>
      BY <2>8 DEF PlayerJoins, answerVars, TypeOK, Rooms
    <3>2. SameAnswers
      <4>1. ClientIp(p) \in Replies /\ ClientIp(p).kind \notin Verdicts
        BY DEF ClientIp, Replies, Verdicts
      <4>. QED
        BY <3>1, <4>1, OtherAnswers
    <3>. QED
      BY <2>0, <2>a, <3>1, <3>2, TalkKept DEF Confirming
  <2>9. CASE \E w \in waits : MoveUnanswered(w)
    <3>1. /\ slot'.a = slot.a
          /\ UNCHANGED <<connected, try, answer, toLobby, fromLobby, room, agent, missed>>
      BY <2>9 DEF MoveUnanswered, TypeOK, Hosts, lobbyVars, answerVars
    <3>. QED
      BY <2>0, <2>a, <3>1, TalkKept DEF Confirming
  <2>10. ASSUME NEW a \in Attempts,
                AgentOpens(a) \/ AgentHasNone(a) \/ AgentStops(a) \/ Readvertise(a)
         PROVE  Conversation'
    <3>1. /\ slot'.a = slot.a
          /\ UNCHANGED <<connected, try, answer, toLobby, fromLobby, room, missed>>
      BY <2>10 DEF AgentOpens, AgentHasNone, AgentStops, Readvertise, TypeOK, Hosts,
                   lobbyVars, answerVars
    <3>2. \A b \in Attempts : agent'[b].told = agent[b].told
      <4>1. \/ \E is, at, kind : Says(a, is, at, kind)
            \/ Readvertise(a)
        BY <2>10 DEF AgentOpens, AgentHasNone, AgentStops
      <4>2. ASSUME NEW is, NEW at, NEW kind, Says(a, is, at, kind)
            PROVE  \A b \in Attempts : agent'[b].told = agent[b].told
        BY <4>2 DEF Says, TypeOK, Agents
      <4>3. CASE Readvertise(a)
        BY <4>3 DEF Readvertise, TypeOK, Agents
      <4>. QED
        BY <4>1, <4>2, <4>3
    <3>. QED
      BY <2>0, <2>a, <3>1, <3>2, TalkKept DEF Confirming
  <2>11. ASSUME NEW a \in Attempts, ReadEvent(a) PROVE Conversation'
    <3> DEFINE event == Head(agent[a].said)
    <3>1. /\ UNCHANGED <<connected, slot, answer, fromLobby, room>>
          /\ "leave" \in missed[try.n] => "leave" \in missed'[try.n]
          /\ try'.n = try.n
          /\ try' = try \/ (try.phase = "allocating" /\ try'.phase \in {"idle", "opened"})
      BY <2>11 DEF ReadEvent, Hear, Trying, TypeOK, Tries, answerVars
    <3>2. \A b \in Attempts : agent'[b].told = "stop" => agent[b].told = "stop" \/ room.a # b
      <4>1. /\ \A b \in Attempts : b # a => agent'[b].told = agent[b].told
            /\ agent'[a].told # agent[a].told => try.n = a /\ try.phase = "allocating"
        BY <2>11 DEF ReadEvent, Hear, Trying, TypeOK, Agents
      <4>2. try.n = a /\ try.phase = "allocating" => room.a # a
        BY <2>0 DEF RoomAskedFor, AskedFor, Attempts
      <4>. QED
        BY <4>1, <4>2
    <3>3. SameLines
      <4>1. agent[a].said # << >>
        BY <2>11 DEF ReadEvent
      <4>2. event \in Events /\ agent[a].moving \in Nat
        BY <4>1, EventsHead DEF TypeOK, Agents
      <4>3. Line("move", a, agent[a].moving, event.at) \in LobbyLines
        BY <4>2, RelayHostAssumption DEF Line, LobbyLines, Events, Attempts
      <4>. QED
        BY <2>11, <4>3, MovesAsideLines DEF ReadEvent, QueueMove, Line
    <3>. QED
      BY <2>0, <2>a, <3>1, <3>2, <3>3, TalkKept DEF Confirming
  <2>. QED
    BY <2>1, <2>2, <2>3, <2>4, <2>5, <2>6, <2>7, <2>8, <2>9, <2>10, <2>11 DEF Next
<1>. QED
  BY <1>1, <1>2, TypeCorrect, AgentsInHand, WordsFollowed, JoinersFollowed, PTL DEF Spec

\* A battle that has ended leaves the slot empty (MoveWatch, release).
THEOREM EndedBattlesLeave == Spec => []SlotHoldsABattle
<1>1. WordsInv /\ ConversationOnTime => SlotHoldsABattle
  BY DEF WordsInv, OneAgent, ConversationOnTime, Conversation, RoomAsSaid, LeaveMissed,
         SlotHoldsABattle
<1>. QED
  BY <1>1, WordsFollowed, ConversationFollowed, PTL

\* No relay with a battle on it is told to stop (RelayAgent::stop).
THEOREM OnlyEmptyRelaysStopped == Spec => []StopMeansNoBattle
<1>1. InHand /\ ConversationOnTime => StopMeansNoBattle
  <2>1. toLobby = << >> => ~Has(toLobby, {"leave"})
    BY EmptySeq DEF Has
  <2>. QED
    BY <2>1 DEF InHand, ConversationOnTime, Conversation, StoppedIsLeft, StopMeansNoBattle,
                Quiet
<1>. QED
  BY <1>1, AgentsInHand, ConversationFollowed, PTL

-----------------------------------------------------------------------------
(* Moves of the battle, and a battle that cannot be reached.               *)

\* The answers to a move.
MoveAnswers == {"moved", "moveRefused", "moveRejected"}

\* A lobby that has MOVERELAYEDHOST answers it, and one that has not rejects the line or
\* says nothing: the lobby behind a connection is one or the other.
LobbyHasMoves == LobbyDoes \subseteq {"moves", "refuses"}
LobbyHasNoMoves == LobbyDoes \subseteq {"rejects", "silent"}

\* Each kind of lobby gives its own answers.
AnswersKnown ==
  /\ LobbyHasMoves => ~Has(fromLobby, {"moveRejected"})
  /\ LobbyHasNoMoves => ~Has(fromLobby, {"moved", "moveRefused"})

\* The lobby has read every move of an earlier battle, and answered it, before it says it
\* opened the one being confirmed.
MovesFirst ==
  Confirming =>
    /\ ~Ahead(toLobby, {"open"}, {"move"})
    /\ ~Asked => ~Has(toLobby, {"move"})
    /\ ~Ahead(fromLobby, {"opened"}, MoveAnswers)
    /\ answer = "opened" => ~Has(fromLobby, MoveAnswers)

\* A battle opened anywhere but at its relay is one the address was refused of.
OpenedInPlace ==
  Confirming /\ room.a = try.n /\ room.at # try.at =>
    refused \/ Ahead(fromLobby, {"addressRefused"}, {"opened"})

\* The inductive invariant about the battle being confirmed.
PlacedOnTime == OnTime => MovesFirst /\ OpenedInPlace

\* Which answers there are follows from which lobby it is.
THEOREM AnswersFollowLobby == Spec => []AnswersKnown
<1>1. Init => AnswersKnown
  BY EmptySeq DEF Init, AnswersKnown, Has
<1>2. TypeOK /\ AnswersKnown /\ [Next]_vars => AnswersKnown'
  <2> SUFFICES ASSUME TypeOK, AnswersKnown, [Next]_vars PROVE AnswersKnown'
    OBVIOUS
  <2> DEFINE Known(s) == /\ LobbyHasMoves => ~Has(s, {"moveRejected"})
                         /\ LobbyHasNoMoves => ~Has(s, {"moved", "moveRefused"})
             Fits(r) == /\ LobbyHasMoves => r.kind # "moveRejected"
                        /\ LobbyHasNoMoves => r.kind \notin {"moved", "moveRefused"}
  <2>1. fromLobby \in Seq(Replies) /\ Known(fromLobby)
    BY DEF TypeOK, AnswersKnown
  <2>2. ASSUME NEW s \in Seq(Replies), Known(s), NEW r \in Replies, Fits(r)
        PROVE  Known(Append(s, r))
    BY <2>2, HasAppend
  <2>3. CASE fromLobby' = fromLobby
    BY <2>3, <2>1 DEF AnswersKnown
  <2>4. CASE ReadLine
    <3>1. fromLobby # << >> /\ fromLobby' = Tail(fromLobby)
      BY <2>4 DEF ReadLine
    <3>. QED
      BY <2>1, <3>1, HasTail DEF AnswersKnown
  <2>5. CASE LobbyReads
    <3> DEFINE line == Head(toLobby)
    <3>1. line \in LobbyLines
      BY <2>5, LinesHead DEF TypeOK, LobbyReads
    <3>2. /\ \A kind \in {"opened", "refused", "addressRefused"} :
               Reply(kind, line.a, 0) \in Replies /\ Fits(Reply(kind, line.a, 0))
          /\ \A kind \in MoveAnswers :
               Reply(kind, line.a, line.n) \in Replies
               /\ Reply(kind, line.a, line.n).kind = kind
      BY <3>1 DEF LobbyLines, Reply, Replies, MoveAnswers
    <3>3. CASE LobbyOpens(line)
      <4> DEFINE no == Reply("addressRefused", line.a, 0)
                 s == Append(fromLobby, no)
      <4>1. s \in Seq(Replies) /\ Known(s)
        BY <2>1, <2>2, <3>2, RepliesAppend
      <4>2. \A kind \in {"opened", "refused"} :
              fromLobby \o <<no, Reply(kind, line.a, 0)>> = Append(s, Reply(kind, line.a, 0))
        BY <2>1, <3>2, AppendTwo
      <4>3. \A kind \in {"opened", "refused"} :
              /\ Known(Append(fromLobby, Reply(kind, line.a, 0)))
              /\ Known(Append(s, Reply(kind, line.a, 0)))
        BY <2>1, <2>2, <3>2, <4>1
      <4>4. Known(fromLobby')
        BY <2>1, <3>3, <4>2, <4>3 DEF LobbyOpens
      <4>. QED
        BY <4>4 DEF AnswersKnown
    <3>4. CASE LobbyMoves(line)
      <4>1. \/ fromLobby' = fromLobby
            \/ \E kind \in MoveAnswers :
                 /\ fromLobby' = Append(fromLobby, Reply(kind, line.a, line.n))
                 /\ Fits(Reply(kind, line.a, line.n))
        BY <3>2, <3>4, RelayHostAssumption
        DEF LobbyMoves, MoveAnswers, LobbyHasMoves, LobbyHasNoMoves
      <4>2. Known(fromLobby')
        BY <2>1, <2>2, <3>2, <4>1
      <4>. QED
        BY <4>2 DEF AnswersKnown
    <3>. QED
      BY <2>3, <2>5, <3>3, <3>4 DEF LobbyReads
  <2>6. ASSUME NEW p \in Player, PlayerJoins(p) PROVE AnswersKnown'
    <3>1. fromLobby' = Append(fromLobby, ClientIp(p))
      BY <2>6 DEF PlayerJoins
    <3>2. ClientIp(p) \in Replies /\ Fits(ClientIp(p))
      BY DEF ClientIp, Replies
    <3>. QED
      BY <2>1, <2>2, <3>1, <3>2 DEF AnswersKnown
  <2>7. CASE ConnectionEnds
    BY <2>7, EmptySeq DEF ConnectionEnds, AnswersKnown, Has
  <2>8. CASE UNCHANGED vars \/ HostOpens \/ HostLeaves \/ \E w \in waits : MoveUnanswered(w)
    BY <2>3, <2>8 DEF vars, lobbyVars, HostOpens, HostLeaves, MoveUnanswered
  <2>9. CASE Form
    BY <2>3, <2>9 DEF Form, NotStarted, Spawn, AllocationTimesOut, Advertise, NobodyToTell,
                      BattleOpened, NotRelayed, NotOpened, lobbyVars
  <2>10. CASE \E a \in Attempts : AgentOpens(a) \/ AgentHasNone(a) \/ AgentStops(a)
                                  \/ Readvertise(a) \/ ReadEvent(a)
    BY <2>3, <2>10 DEF AgentOpens, AgentHasNone, AgentStops, Readvertise, ReadEvent, lobbyVars
  <2>. QED
    BY <2>4, <2>5, <2>6, <2>7, <2>8, <2>9, <2>10 DEF Next
<1>. QED
  BY <1>1, <1>2, TypeCorrect, PTL DEF Spec

\* Lines that open and move nothing, and players who join, leave the battle where it is.
LEMMA PlaceKept ==
  ASSUME TypeOK, MovesFirst, OpenedInPlace,
         Confirming' => Confirming /\ try'.n = try.n /\ try'.at = try.at,
         UNCHANGED answerVars, room'.a = room.a, room'.at = room.at,
         \/ toLobby' = toLobby
         \/ \E line \in LobbyLines : line.kind = "leave" /\ toLobby' = Append(toLobby, line),
         fromLobby' = fromLobby \/ \E p \in Player : fromLobby' = Append(fromLobby, ClientIp(p))
  PROVE  MovesFirst' /\ OpenedInPlace'
<1>1. toLobby \in Seq(LobbyLines) /\ fromLobby \in Seq(Replies)
  BY DEF TypeOK
<1>2. \A p \in Player : ClientIp(p) \in Replies /\ ClientIp(p).kind = "clientIp"
  BY DEF ClientIp, Replies
<1>3. /\ Has(toLobby', {"open"}) <=> Has(toLobby, {"open"})
      /\ Has(toLobby', {"move"}) <=> Has(toLobby, {"move"})
      /\ Ahead(toLobby', {"open"}, {"move"}) <=> Ahead(toLobby, {"open"}, {"move"})
  <2>1. ASSUME NEW line \in LobbyLines, line.kind = "leave",
               toLobby' = Append(toLobby, line)
        PROVE  /\ Has(toLobby', {"open"}) <=> Has(toLobby, {"open"})
               /\ Has(toLobby', {"move"}) <=> Has(toLobby, {"move"})
               /\ Ahead(toLobby', {"open"}, {"move"}) <=> Ahead(toLobby, {"open"}, {"move"})
    BY <1>1, <2>1, HasAppend, AheadAppend
  <2>. QED
    BY <2>1
<1>4. /\ Has(fromLobby', MoveAnswers) <=> Has(fromLobby, MoveAnswers)
      /\ Ahead(fromLobby', {"opened"}, MoveAnswers) <=> Ahead(fromLobby, {"opened"}, MoveAnswers)
      /\ Ahead(fromLobby', {"addressRefused"}, {"opened"})
           <=> Ahead(fromLobby, {"addressRefused"}, {"opened"})
  <2>1. ASSUME NEW e \in Replies, e.kind = "clientIp", fromLobby' = Append(fromLobby, e)
        PROVE  /\ Has(fromLobby', MoveAnswers) <=> Has(fromLobby, MoveAnswers)
               /\ Ahead(fromLobby', {"opened"}, MoveAnswers)
                    <=> Ahead(fromLobby, {"opened"}, MoveAnswers)
               /\ Ahead(fromLobby', {"addressRefused"}, {"opened"})
                    <=> Ahead(fromLobby, {"addressRefused"}, {"opened"})
    BY <1>1, <2>1, HasAppend, AheadAppend DEF MoveAnswers
  <2>. QED
    BY <1>2, <2>1
<1>5. MovesFirst'
  BY <1>3, <1>4 DEF MovesFirst, Asked, answerVars
<1>6. OpenedInPlace'
  BY <1>4 DEF OpenedInPlace, answerVars
<1>. QED
  BY <1>5, <1>6

\* The read loop takes the answers in the order the lobby gave them.
LEMMA PlaceRead ==
  ASSUME TypeOK, Conversation, MovesFirst, OpenedInPlace, ReadLine
  PROVE  MovesFirst' /\ OpenedInPlace'
<1> DEFINE line == Head(fromLobby)
<1>1. /\ fromLobby # << >> /\ fromLobby' = Tail(fromLobby)
      /\ UNCHANGED <<try, toLobby, room>>
      /\ answer' = (IF line.kind \in Verdicts THEN line.kind ELSE answer)
      /\ line.kind = "addressRefused" => refused'
      /\ line.kind # "addressRefused" => refused' = refused
  BY DEF ReadLine, ReadOpenAnswer, ReadAddressRefused, ReadMoveAnswer, ReadMoveRejected,
         LetJoinerThrough, answerVars, Verdicts
<1>2. fromLobby \in Seq(Replies)
  BY DEF TypeOK
<1>3. Has(fromLobby', MoveAnswers) => Has(fromLobby, MoveAnswers)
  BY <1>1, <1>2, HasTail
<1>4. /\ Ahead(fromLobby', {"opened"}, MoveAnswers) => Ahead(fromLobby, {"opened"}, MoveAnswers)
      /\ line.kind = "opened" /\ Has(fromLobby', MoveAnswers)
           => Ahead(fromLobby, {"opened"}, MoveAnswers)
      /\ line.kind # "addressRefused" /\ Ahead(fromLobby, {"addressRefused"}, {"opened"})
           => Ahead(fromLobby', {"addressRefused"}, {"opened"})
  BY <1>1, <1>2, AheadTail
<1>5. MovesFirst'
  BY <1>1, <1>3, <1>4 DEF MovesFirst, Confirming, Asked, Verdicts
<1>6. OpenedInPlace'
  BY <1>1, <1>4 DEF OpenedInPlace, Confirming
<1>. QED
  BY <1>5, <1>6

\* The lobby takes the lines in the order they were queued.
LEMMA PlaceGiven ==
  ASSUME TypeOK, InHand, Conversation, MovesFirst, OpenedInPlace, LobbyReads
  PROVE  MovesFirst' /\ OpenedInPlace'
<1> DEFINE line == Head(toLobby)
<1>1. /\ toLobby # << >> /\ toLobby' = Tail(toLobby) /\ UNCHANGED <<try, answer, refused>>
  BY DEF LobbyReads, answerVars
<1>2. toLobby \in Seq(LobbyLines) /\ fromLobby \in Seq(Replies) /\ line \in LobbyLines
  BY <1>1, LinesHead DEF TypeOK
<1>3. /\ Has(toLobby, {"open"}) <=> line.kind = "open" \/ Has(toLobby', {"open"})
      /\ Has(toLobby, {"move"}) <=> line.kind = "move" \/ Has(toLobby', {"move"})
      /\ Ahead(toLobby, {"open"}, {"move"})
           <=> \/ Ahead(toLobby', {"open"}, {"move"})
               \/ line.kind = "open" /\ Has(toLobby', {"move"})
  BY <1>1, <1>2, HasTail, AheadTail
<1> SUFFICES ASSUME Confirming
             PROVE  MovesFirst' /\ OpenedInPlace'
  BY <1>1 DEF MovesFirst, OpenedInPlace, Confirming
<1>4. try.n # 0
  BY DEF InHand, Confirming
<1>5. /\ ~Ahead(toLobby', {"open"}, {"move"})
      /\ ~Asked' => ~Has(toLobby', {"move"})
  BY <1>3 DEF MovesFirst, Asked
<1>6. Asked => /\ ~Has(fromLobby, {"opened"}) /\ answer = "seen"
               /\ room.a # try.n
  BY DEF Conversation, OneQuestion, RoomAsSaid, SaidOpened, Answered, Has, Verdicts
<1>7. CASE line.kind = "open" /\ LobbyOpens(line)
  <2> DEFINE no == Reply("addressRefused", line.a, 0)
             ok == Reply("opened", line.a, 0)
             bad == Reply("refused", line.a, 0)
  <2>1. Asked /\ line = Line("open", try.n, 0, try.at)
    <3>1. Asked
      BY <1>3, <1>7 DEF Asked
    <3>. QED
      BY <1>1, <1>2, <1>7, <3>1, AllInTail DEF Conversation, OneQuestion
  <2>2. /\ no \in Replies /\ ok \in Replies /\ bad \in Replies
        /\ no.kind = "addressRefused" /\ ok.kind = "opened" /\ bad.kind = "refused"
    BY <1>2 DEF LobbyLines, Reply, Replies
  <2> DEFINE s == Append(fromLobby, no)
  <2>3. s \in Seq(Replies) /\ Has(s, {"addressRefused"}) /\ ~Has(s, {"opened"})
    BY <1>2, <1>6, <2>1, <2>2, RepliesAppend, HasAppend
  <2>4. ASSUME NEW t \in Seq(Replies), ~Has(t, {"opened"})
        PROVE  /\ ~Ahead(t, {"opened"}, MoveAnswers)
               /\ ~Ahead(Append(t, ok), {"opened"}, MoveAnswers)
               /\ ~Ahead(Append(t, bad), {"opened"}, MoveAnswers)
    BY <2>2, <2>4, NothingAhead, AheadAppend DEF MoveAnswers
  <2>5. Ahead(Append(s, ok), {"addressRefused"}, {"opened"})
    BY <2>2, <2>3, AheadAppend
  <2>6. /\ fromLobby \o <<no, ok>> = Append(s, ok)
        /\ fromLobby \o <<no, bad>> = Append(s, bad)
    BY <1>2, <2>2, AppendTwo
  <2>7. /\ fromLobby' \in {fromLobby, Append(fromLobby, ok), Append(fromLobby, bad),
                           Append(s, ok), Append(s, bad)}
        /\ \/ room' = room
           \/ room'.at = try.at
           \/ fromLobby' = Append(s, ok)
    BY <1>7, <2>1, <2>6 DEF LobbyOpens, Line
  <2>8. ~Ahead(fromLobby', {"opened"}, MoveAnswers)
    BY <1>2, <1>6, <2>1, <2>3, <2>4, <2>7
  <2>9. MovesFirst'
    BY <1>1, <1>5, <1>6, <2>1, <2>8 DEF MovesFirst
  <2>10. OpenedInPlace'
    BY <1>1, <1>6, <2>1, <2>5, <2>7 DEF OpenedInPlace
  <2>. QED
    BY <2>9, <2>10
<1>8. CASE line.kind = "move" /\ LobbyMoves(line)
  <2>1. Asked
    BY <1>3, <1>8 DEF MovesFirst
  <2>2. room'.a = room.a
    BY <1>8 DEF LobbyMoves, TypeOK, Rooms
  <2>3. ~Has(fromLobby', {"opened"})
    <3>1. \A kind \in MoveAnswers : /\ Reply(kind, line.a, line.n) \in Replies
                                    /\ Reply(kind, line.a, line.n).kind # "opened"
      BY <1>2 DEF LobbyLines, Reply, Replies, MoveAnswers
    <3>2. \/ fromLobby' = fromLobby
          \/ \E kind \in MoveAnswers :
               fromLobby' = Append(fromLobby, Reply(kind, line.a, line.n))
      BY <1>8 DEF LobbyMoves, MoveAnswers
    <3>. QED
      BY <1>2, <1>6, <2>1, <3>1, <3>2, HasAppend
  <2>4. MovesFirst'
    BY <1>1, <1>5, <1>6, <2>1, <2>3, NothingAhead DEF MovesFirst
  <2>5. OpenedInPlace'
    BY <1>1, <1>6, <2>1, <2>2 DEF OpenedInPlace
  <2>. QED
    BY <2>4, <2>5
<1>9. CASE line.kind = "leave" /\ room' = NoRoom /\ UNCHANGED fromLobby
  <2>1. MovesFirst'
    BY <1>1, <1>5, <1>9 DEF MovesFirst
  <2>2. OpenedInPlace'
    BY <1>1, <1>4, <1>9 DEF OpenedInPlace, NoRoom
  <2>. QED
    BY <2>1, <2>2
<1>. QED
  BY <1>7, <1>8, <1>9 DEF LobbyReads

\* A battle comes to the slot where the lobby has it, with no move of an earlier one still
\* to be answered (advertise, address_refused, QueueMove's agent being the attempt's own).
THEOREM BattlePlaced == Spec => []PlacedOnTime
<1>1. Init => PlacedOnTime
  BY DEF Init, PlacedOnTime, MovesFirst, OpenedInPlace, Confirming
<1>2. TypeOK /\ TypeOK' /\ InHand /\ WordsInv /\ JoinInv /\ ConversationOnTime /\ PlacedOnTime
        /\ [Next]_vars => PlacedOnTime'
  <2> SUFFICES ASSUME TypeOK, TypeOK', InHand, WordsInv, JoinInv, ConversationOnTime,
                      PlacedOnTime, [Next]_vars, OnTime'
               PROVE  MovesFirst' /\ OpenedInPlace'
    BY DEF PlacedOnTime
  <2>0. Conversation /\ RoomAskedFor /\ MovesFirst /\ OpenedInPlace
    BY LateStaysLate DEF ConversationOnTime, JoinInv, PlacedOnTime
  <2>a. ASSUME ~Confirming' PROVE MovesFirst' /\ OpenedInPlace'
    BY <2>a DEF MovesFirst, OpenedInPlace
  <2>1. CASE UNCHANGED vars
    BY <2>1, <2>0, PlaceKept DEF vars, lobbyVars, Confirming
  <2>2. CASE HostOpens
    BY <2>2, <2>a DEF HostOpens, Confirming
  <2>3. CASE HostLeaves
    <3>1. Line("leave", room.a, 0, 0) \in LobbyLines
      BY RelayHostAssumption DEF TypeOK, Rooms, Line, LobbyLines, Addresses
    <3>. QED
      BY <2>3, <2>0, <3>1, PlaceKept DEF HostLeaves, Line, Confirming
  <2>4. CASE ConnectionEnds
    <3>1. /\ Len(toLobby') = 0 /\ Len(fromLobby') = 0 /\ room'.a = 0 /\ try' = try
      BY <2>4, EmptySeq DEF ConnectionEnds, NoRoom
    <3>2. Confirming => try.n # 0
      BY DEF Confirming, InHand
    <3>. QED
      BY <3>1, <3>2 DEF MovesFirst, OpenedInPlace, Confirming, Has, Ahead
  <2>5. CASE Form
    <3>1. CASE Advertise
      <4> DEFINE line == Line("open", try.n, 0, try.at)
      <4>1. /\ try.phase = "opened" /\ try'.n = try.n /\ answer' = "seen"
            /\ toLobby' = Append(toLobby, line) /\ UNCHANGED <<fromLobby, room>>
        BY <3>1 DEF Advertise, TypeOK, Tries
      <4>2. toLobby \in Seq(LobbyLines) /\ line \in LobbyLines /\ line.kind = "open"
        BY DEF TypeOK, Tries, Line, LobbyLines
      <4>3. ~Has(toLobby, {"open"}) /\ ~Has(fromLobby, {"opened"})
        BY <2>0, <4>1
        DEF Conversation, OneQuestion, Confirming, Asked, Answered, Has, Verdicts
      <4>4. room.a # try.n
        BY <2>0, <4>1 DEF RoomAskedFor, AskedFor, InHand
      <4>5. Has(toLobby', {"open"}) /\ ~Ahead(toLobby', {"open"}, {"move"})
        BY <4>1, <4>2, <4>3, HasAppend, AheadAppend, NothingAhead
      <4>6. ~Ahead(fromLobby', {"opened"}, MoveAnswers)
        BY <4>1, <4>3, NothingAhead
      <4>. QED
        BY <4>1, <4>4, <4>5, <4>6 DEF MovesFirst, OpenedInPlace, Asked
    <3>2. CASE ~Advertise
      <4>1. try'.phase # "confirming"
        BY <2>5, <3>2 DEF Form, NotStarted, Spawn, AllocationTimesOut, NobodyToTell,
                          BattleOpened, NotRelayed, NotOpened, GiveUp, TypeOK, Tries
      <4>. QED
        BY <2>a, <4>1 DEF Confirming
    <3>. QED
      BY <3>1, <3>2
  <2>6. CASE ReadLine
    BY <2>6, <2>0, PlaceRead
  <2>7. CASE LobbyReads
    BY <2>7, <2>0, PlaceGiven
  <2>8. ASSUME NEW p \in Player, PlayerJoins(p) PROVE MovesFirst' /\ OpenedInPlace'
    <3>1. /\ room'.a = room.a /\ room'.at = room.at
          /\ fromLobby' = Append(fromLobby, ClientIp(p))
          /\ UNCHANGED <<try, answerVars, toLobby>>
      BY <2>8 DEF PlayerJoins, TypeOK, Rooms
    <3>. QED
      BY <2>0, <3>1, PlaceKept DEF Confirming
  <2>9. CASE \E w \in waits : MoveUnanswered(w)
    BY <2>9, <2>0, PlaceKept DEF MoveUnanswered, lobbyVars, Confirming
  <2>10. ASSUME NEW a \in Attempts,
                AgentOpens(a) \/ AgentHasNone(a) \/ AgentStops(a) \/ Readvertise(a)
         PROVE  MovesFirst' /\ OpenedInPlace'
    BY <2>10, <2>0, PlaceKept
    DEF AgentOpens, AgentHasNone, AgentStops, Readvertise, lobbyVars, Confirming
  <2>11. ASSUME NEW a \in Attempts, ReadEvent(a) PROVE MovesFirst' /\ OpenedInPlace'
    <3>1. CASE Confirming
      <4>1. agent[a].moving = 0
        <5>1. agent[a].said # << >>
          BY <2>11 DEF ReadEvent
        <5>2. try.n \in Attempts /\ agent[try.n].is # "unborn"
          BY <3>1, Numbers DEF InHand, Confirming
        <5>3. a = try.n
          BY <5>1, <5>2 DEF WordsInv, OneAgent, Heard
        <5>. QED
          BY <3>1, <5>3 DEF WordsInv, TryWords, Confirming
      <4>2. try' = try /\ UNCHANGED <<answerVars, toLobby, fromLobby, room>>
        BY <2>11, <3>1, <4>1 DEF ReadEvent, Hear, Trying, Confirming, QueueMove
      <4>. QED
        BY <2>0, <4>2, PlaceKept DEF Confirming
    <3>2. CASE ~Confirming
      <4>1. ~Confirming'
        BY <2>11, <3>2 DEF ReadEvent, Hear, Confirming, TypeOK, Tries
      <4>. QED
        BY <2>a, <4>1
    <3>. QED
      BY <3>1, <3>2
  <2>. QED
    BY <2>1, <2>2, <2>3, <2>4, <2>5, <2>6, <2>7, <2>8, <2>9, <2>10, <2>11 DEF Next
<1>. QED
  BY <1>1, <1>2, TypeCorrect, AgentsInHand, WordsFollowed, JoinersFollowed,
     ConversationFollowed, PTL DEF Spec

-----------------------------------------------------------------------------
(* A battle that is not where its relay is.                                *)

\* With a lobby that does not move battles, the host of one that has moved is told so or a
\* thread is waiting to tell them.
Told ==
  LobbyHasNoMoves /\ Hosting =>
    /\ slot.answered => slot.told
    /\ slot.sent = 0 /\ room.a = slot.a => room.at = slot.relayed
    /\ ~slot.told /\ slot.sent # 0 =>
         agent[slot.a].moving # 0 \/ [a |-> slot.a, n |-> slot.sent] \in waits

\* With one that does, the last thing said of the battle's moves is of the latest one: the
\* line, or else its answer, or else the battle is in place or the host knows it is not.
InPlace == room.a = slot.a => room.at = slot.relayed
LatestLine == {Line("move", slot.a, slot.sent, slot.relayed)}
LatestReplies ==
  {Reply("moveRefused", slot.a, slot.sent)}
  \cup (IF InPlace THEN {Reply("moved", slot.a, slot.sent)} ELSE {})
Settled ==
  LobbyHasMoves /\ Hosting /\ agent[slot.a].moving = 0 =>
    IF Has(toLobby, {"move"}) THEN Ends(toLobby, {"move"}, LatestLine)
    ELSE IF Has(fromLobby, MoveAnswers) THEN Ends(fromLobby, MoveAnswers, LatestReplies)
    ELSE InPlace \/ knows

\* The inductive invariant about a battle that has moved.
FoundOnTime == OnTime => Told /\ Settled

\* More may be last than was.
LEMMA EndsWider ==
  ASSUME NEW s, NEW K, NEW E, NEW F, E \subseteq F, Ends(s, K, E)
  PROVE  Ends(s, K, F)
BY DEF Ends

\* No step that leaves the battle, its moves and what is said of them alone matters.
LEMMA FoundKept ==
  ASSUME TypeOK, Told, Settled,
         Hosting' => /\ slot' = slot /\ UNCHANGED knows
                     /\ room'.a = room.a /\ room'.at = room.at
                     /\ agent'[slot.a].moving = agent[slot.a].moving
                     /\ waits' = waits /\ toLobby' = toLobby,
         fromLobby' = fromLobby \/ \E p \in Player : fromLobby' = Append(fromLobby, ClientIp(p))
  PROVE  Told' /\ Settled'
<1> SUFFICES ASSUME Hosting' PROVE Told' /\ Settled'
  BY DEF Told, Settled
<1>1. fromLobby \in Seq(Replies)
  BY DEF TypeOK
<1>2. /\ Has(fromLobby', MoveAnswers) <=> Has(fromLobby, MoveAnswers)
      /\ \A E : Ends(fromLobby', MoveAnswers, E) <=> Ends(fromLobby, MoveAnswers, E)
  <2>1. ASSUME NEW e \in Replies, e.kind = "clientIp", fromLobby' = Append(fromLobby, e)
        PROVE  /\ Has(fromLobby', MoveAnswers) <=> Has(fromLobby, MoveAnswers)
               /\ \A E : Ends(fromLobby', MoveAnswers, E) <=> Ends(fromLobby, MoveAnswers, E)
    BY <1>1, <2>1, HasAppend, EndsAppend DEF MoveAnswers
  <2>2. \A p \in Player : ClientIp(p) \in Replies /\ ClientIp(p).kind = "clientIp"
    BY DEF ClientIp, Replies
  <2>. QED
    BY <2>1, <2>2
<1>3. /\ Hosting /\ (InPlace' <=> InPlace)
      /\ LatestLine' = LatestLine
  BY DEF Hosting, InPlace, LatestLine
<1>4. LatestReplies' = LatestReplies
  BY <1>3 DEF LatestReplies
<1>5. Told'
  BY <1>3 DEF Told
<1>6. Settled'
  BY <1>2, <1>3, <1>4 DEF Settled
<1>. QED
  BY <1>5, <1>6

\* A battle comes to the slot in place.
LEMMA FoundOpened ==
  ASSUME TypeOK, TypeOK', InHand, WordsInv, Conversation, MovesFirst, OpenedInPlace,
         BattleOpened, connected
  PROVE  Told' /\ Settled'
<1>1. /\ Confirming /\ answer = "opened" /\ ~refused
      /\ UNCHANGED <<toLobby, fromLobby, room, agent>>
  BY DEF BattleOpened, Confirming, lobbyVars
<1>2. /\ slot'.a = try.n /\ slot'.relayed = try.at /\ slot'.sent = 0
      /\ ~slot'.answered /\ ~slot'.told
  BY DEF BattleOpened, NoHost
<1>3. ~Asked /\ ~Answered /\ ~Has(toLobby, {"move"}) /\ ~Has(fromLobby, MoveAnswers)
  BY <1>1 DEF Conversation, OneQuestion, MovesFirst
<1>4. room.a = try.n => room.at = try.at
  <2>1. ~Ahead(fromLobby, {"addressRefused"}, {"opened"})
    BY <1>3 DEF Answered, Has, Ahead, Verdicts
  <2>. QED
    BY <1>1, <2>1 DEF OpenedInPlace
<1>5. Told'
  BY <1>1, <1>2, <1>4 DEF Told
<1>6. Settled'
  BY <1>1, <1>2, <1>3, <1>4 DEF Settled, InPlace
<1>. QED
  BY <1>5, <1>6

\* A move put on the slot is being said.
LEMMA FoundMoved ==
  ASSUME TypeOK, TypeOK', InHand, WordsInv, NEW a \in Attempts, Readvertise(a)
  PROVE  Told' /\ Settled'
<1>1. Hosting /\ ~Heard(a)
  BY DEF Readvertise, Moves, Heard
<1>2. a = slot.a
  BY <1>1, OnlyOneSpeaks
<1>3. slot'.a = slot.a /\ slot'.sent = slot.sent + 1 /\ ~slot'.answered
  BY DEF Readvertise, TypeOK, Hosts
<1>4. agent'[a].moving = slot.sent + 1 /\ slot.sent \in Nat
  BY DEF Readvertise, TypeOK, Agents, Hosts
<1>5. agent'[slot'.a].moving # 0 /\ slot'.sent # 0
  BY <1>2, <1>3, <1>4
<1>. QED
  BY <1>3, <1>5 DEF Told, Settled

\* The line that says a move is of the address on the slot, and a thread waits for it.
LEMMA FoundSaid ==
  ASSUME TypeOK, TypeOK', InHand, WordsInv, Told, Settled, NEW a \in Attempts, ReadEvent(a)
  PROVE  Told' /\ Settled'
<1> DEFINE at == Head(agent[a].said).at
<1>1. ~Heard(a) /\ UNCHANGED <<connected, slot, fromLobby, room, knows>>
  BY DEF ReadEvent, Heard
<1>2. agent'[a].moving = 0
  BY DEF ReadEvent, Hear, TypeOK, Agents
<1>3. Hosting => a = slot.a /\ connected
  BY <1>1, OnlyOneSpeaks DEF InHand
<1>4. CASE Hosting /\ agent[a].moving # 0
  <2> DEFINE line == Line("move", a, agent[a].moving, at)
  <2>1. at = slot.relayed /\ agent[a].moving = slot.sent
    BY <1>3, <1>4 DEF WordsInv, SlotWords
  <2>2. toLobby' = Append(toLobby, line) /\ waits' = waits \cup {[a |-> a, n |-> slot.sent]}
    BY <1>3, <1>4, <2>1 DEF ReadEvent, QueueMove
  <2>3. line \in LobbyLines /\ line.kind = "move" /\ line \in LatestLine
    <3>1. slot.a \in 0..MaxAttempts /\ slot.sent \in Nat /\ slot.relayed \in Addresses
      BY DEF TypeOK, Hosts
    <3>. QED
      BY <1>3, <1>4, <2>1, <3>1 DEF Line, LobbyLines, LatestLine
  <2>4. toLobby \in Seq(LobbyLines)
    BY DEF TypeOK
  <2>5. Has(toLobby', {"move"}) /\ Ends(toLobby', {"move"}, LatestLine)
    BY <2>2, <2>3, <2>4, HasAppend, EndsAppend
  <2>6. Told'
    BY <1>1, <1>3, <1>4, <2>2 DEF Told, Hosting
  <2>7. Settled'
    BY <1>1, <2>5 DEF Settled, LatestLine
  <2>. QED
    BY <2>6, <2>7
<1>5. CASE Hosting /\ agent[a].moving = 0
  <2>1. UNCHANGED <<toLobby, waits>>
    BY <1>5 DEF ReadEvent, QueueMove
  <2>. QED
    BY <1>1, <1>2, <1>3, <1>5, <2>1, FoundKept
<1>6. CASE ~Hosting
  BY <1>1, <1>6 DEF Told, Settled, Hosting
<1>. QED
  BY <1>4, <1>5, <1>6

\* A thread that has waited in vain tells the host of the move the battle waits for.
LEMMA FoundWarned ==
  ASSUME TypeOK, TypeOK', Told, Settled, NEW w \in waits, MoveUnanswered(w)
  PROVE  Told' /\ Settled'
<1>1. /\ waits' = waits \ {w}
      /\ UNCHANGED <<toLobby, fromLobby, room, agent, knows>>
  BY DEF MoveUnanswered, lobbyVars, hostVars
<1>2. /\ slot'.a = slot.a /\ slot'.relayed = slot.relayed /\ slot'.sent = slot.sent
      /\ slot'.answered = slot.answered
      /\ slot.told => slot'.told
      /\ Hosting /\ slot.sent = w.n /\ ~slot.answered => slot'.told
  BY DEF MoveUnanswered, TypeOK, Hosts
<1>3. Told'
  <2>1. CASE w = [a |-> slot.a, n |-> slot.sent]
    BY <1>1, <1>2, <2>1 DEF Told, Hosting
  <2>2. CASE w # [a |-> slot.a, n |-> slot.sent]
    BY <1>1, <1>2, <2>2 DEF Told, Hosting
  <2>. QED
    BY <2>1, <2>2
<1>4. (InPlace' <=> InPlace) /\ LatestLine' = LatestLine
  BY <1>1, <1>2 DEF InPlace, LatestLine
<1>5. LatestReplies' = LatestReplies
  BY <1>2, <1>4 DEF LatestReplies
<1>6. Settled'
  BY <1>1, <1>2, <1>4, <1>5 DEF Settled, Hosting
<1>. QED
  BY <1>3, <1>6

\* The answer to the latest move is the last answer read.
LEMMA FoundAnswered ==
  ASSUME TypeOK, TypeOK', Told, Settled, AnswersKnown, ReadLine
  PROVE  Told' /\ Settled'
<1> DEFINE line == Head(fromLobby)
<1>1. /\ fromLobby # << >> /\ fromLobby' = Tail(fromLobby)
      /\ UNCHANGED <<toLobby, room, agent, waits>>
      /\ slot'.a = slot.a /\ slot'.relayed = slot.relayed /\ slot'.sent = slot.sent
  BY DEF ReadLine, ReadOpenAnswer, ReadAddressRefused, ReadMoveAnswer, ReadMoveRejected,
         LetJoinerThrough, TypeOK, Hosts
<1>2. fromLobby \in Seq(Replies)
  BY DEF TypeOK
<1>3. /\ LobbyHasMoves => line.kind # "moveRejected"
      /\ LobbyHasNoMoves => line.kind \notin {"moved", "moveRefused"}
  BY <1>1, <1>2, HasTail DEF AnswersKnown
<1> SUFFICES ASSUME Hosting PROVE Told' /\ Settled'
  BY <1>1 DEF Told, Settled, Hosting
<1>4. Told'
  <2>1. LobbyHasNoMoves =>
          /\ slot'.answered => slot.answered \/ slot'.told
          /\ slot.told => slot'.told
    BY <1>3 DEF ReadLine, ReadOpenAnswer, ReadAddressRefused, ReadMoveAnswer,
                ReadMoveRejected, LetJoinerThrough, TypeOK, Hosts
  <2>. QED
    BY <1>1, <2>1 DEF Told, Hosting
<1>5. (InPlace' <=> InPlace) /\ LatestLine' = LatestLine
  BY <1>1 DEF InPlace, LatestLine
<1>6. LatestReplies' = LatestReplies
  BY <1>1, <1>5 DEF LatestReplies
<1>7. Settled'
  <2> SUFFICES ASSUME LobbyHasMoves, agent[slot.a].moving = 0, ~Has(toLobby, {"move"})
               PROVE  IF Has(fromLobby', MoveAnswers)
                      THEN Ends(fromLobby', MoveAnswers, LatestReplies)
                      ELSE InPlace \/ knows'
    BY <1>1, <1>5, <1>6 DEF Settled, Hosting
  <2>1. /\ Has(fromLobby, MoveAnswers) <=> line.kind \in MoveAnswers \/ Has(fromLobby', MoveAnswers)
        /\ Ends(fromLobby, MoveAnswers, LatestReplies) <=>
             IF Has(fromLobby', MoveAnswers) THEN Ends(fromLobby', MoveAnswers, LatestReplies)
             ELSE line.kind \in MoveAnswers /\ line \in LatestReplies
    BY <1>1, <1>2, HasTail, EndsTail
  <2>2. IF Has(fromLobby, MoveAnswers) THEN Ends(fromLobby, MoveAnswers, LatestReplies)
        ELSE InPlace \/ knows
    BY DEF Settled
  <2>3. CASE Has(fromLobby', MoveAnswers)
    BY <2>1, <2>2, <2>3
  <2>4. CASE ~Has(fromLobby', MoveAnswers) /\ line.kind \in MoveAnswers
    <3>1. line \in LatestReplies
      BY <2>1, <2>2, <2>4
    <3>2. InPlace \/ line.kind = "moveRefused"
      BY <3>1 DEF LatestReplies, Reply
    <3>3. line.kind = "moveRefused" => knows'
      BY DEF ReadLine, ReadOpenAnswer, ReadAddressRefused, ReadMoveAnswer, ReadMoveRejected,
             LetJoinerThrough
    <3>. QED
      BY <2>4, <3>2, <3>3
  <2>5. CASE ~Has(fromLobby', MoveAnswers) /\ line.kind \notin MoveAnswers
    <3>1. knows' = knows
      BY <2>5 DEF ReadLine, ReadOpenAnswer, ReadAddressRefused, ReadMoveAnswer,
                  ReadMoveRejected, LetJoinerThrough, MoveAnswers
    <3>. QED
      BY <2>1, <2>2, <2>5, <3>1
  <2>. QED
    BY <2>3, <2>4, <2>5
<1>. QED
  BY <1>4, <1>7

\* The lobby that moves battles answers the latest move by moving the battle where it is,
\* or by refusing; one it no longer has is in no wrong place.
LEMMA FoundGiven ==
  ASSUME TypeOK, TypeOK', InHand, Conversation, Told, Settled, LobbyReads
  PROVE  Told' /\ Settled'
<1> DEFINE line == Head(toLobby)
<1>1. /\ toLobby # << >> /\ toLobby' = Tail(toLobby)
      /\ UNCHANGED <<slot, agent, waits, knows>>
  BY DEF LobbyReads, hostVars
<1>2. toLobby \in Seq(LobbyLines) /\ fromLobby \in Seq(Replies) /\ line \in LobbyLines
  BY <1>1, LinesHead DEF TypeOK
<1> SUFFICES ASSUME Hosting PROVE Told' /\ Settled'
  BY <1>1 DEF Told, Settled, Hosting
<1>3. line.kind # "open"
  <2>1. ~Asked
    BY DEF Conversation, OneQuestion, Confirming, InHand
  <2>. QED
    BY <1>1, <1>2, <2>1, HasTail DEF Asked
<1>4. LatestLine' = LatestLine
  BY <1>1 DEF LatestLine
<1>5. /\ Has(toLobby, {"move"}) <=> line.kind = "move" \/ Has(toLobby', {"move"})
      /\ Ends(toLobby, {"move"}, LatestLine) <=>
           IF Has(toLobby', {"move"}) THEN Ends(toLobby', {"move"}, LatestLine)
           ELSE line.kind = "move" /\ line \in LatestLine
  BY <1>1, <1>2, HasTail, EndsTail
<1>6. CASE line.kind = "leave" /\ room' = NoRoom /\ UNCHANGED fromLobby
  <2>1. InPlace' /\ room'.a # slot.a
    BY <1>1, <1>6 DEF InPlace, NoRoom, Hosting
  <2>2. LatestReplies \subseteq LatestReplies'
    BY <1>1, <2>1 DEF LatestReplies
  <2>3. Told'
    BY <1>1, <2>1 DEF Told, Hosting
  <2>4. Settled'
    BY <1>1, <1>4, <1>5, <1>6, <2>1, <2>2, EndsWider DEF Settled, Hosting
  <2>. QED
    BY <2>3, <2>4
<1>7. CASE line.kind = "move" /\ LobbyMoves(line)
  <2>1. room'.a = room.a /\ (LobbyHasNoMoves => room' = room)
    BY <1>7 DEF LobbyMoves, TypeOK, Rooms, LobbyHasNoMoves
  <2>2. Told'
    BY <1>1, <2>1 DEF Told, Hosting
  <2>3. Settled'
    <3> SUFFICES ASSUME LobbyHasMoves, agent[slot.a].moving = 0, ~Has(toLobby', {"move"})
                 PROVE  Ends(fromLobby', MoveAnswers, LatestReplies')
      <4>1. LobbyHasMoves /\ agent[slot.a].moving = 0 /\ Has(toLobby', {"move"})
              => Ends(toLobby', {"move"}, LatestLine)
        BY <1>5 DEF Settled
      <4>2. ASSUME Ends(fromLobby', MoveAnswers, LatestReplies')
            PROVE  Has(fromLobby', MoveAnswers)
        BY <4>2 DEF Ends, Has
      <4>. QED
        BY <1>1, <1>4, <4>1, <4>2 DEF Settled, Hosting
    <3>1. line = Line("move", slot.a, slot.sent, slot.relayed)
      BY <1>5, <1>7 DEF Settled, LatestLine
    <3>2. line.a = slot.a /\ line.n = slot.sent /\ line.at = slot.relayed
      BY <3>1 DEF Line
    <3>3. \A kind \in MoveAnswers : /\ Reply(kind, line.a, line.n) \in Replies
                                    /\ Reply(kind, line.a, line.n).kind = kind
      BY <1>2 DEF LobbyLines, Reply, Replies, MoveAnswers
    <3>4. \E kind \in MoveAnswers : /\ fromLobby' = Append(fromLobby, Reply(kind, line.a, line.n))
                                    /\ Reply(kind, line.a, line.n) \in LatestReplies'
      <4>1. CASE /\ room' = [room EXCEPT !.at = line.at]
                 /\ fromLobby' = Append(fromLobby, Reply("moved", line.a, line.n))
        <5>1. InPlace'
          BY <1>1, <3>2, <4>1 DEF InPlace, TypeOK, Rooms
        <5>. QED
          BY <1>1, <3>2, <4>1, <5>1 DEF LatestReplies, MoveAnswers
      <4>2. CASE fromLobby' = Append(fromLobby, Reply("moveRefused", line.a, line.n))
        BY <1>1, <3>2, <4>2 DEF LatestReplies, MoveAnswers
      <4>. QED
        BY <1>7, <4>1, <4>2 DEF LobbyMoves, LobbyHasMoves
    <3>. QED
      BY <1>2, <3>3, <3>4, EndsAppend
  <2>. QED
    BY <2>2, <2>3
<1>. QED
  BY <1>3, <1>6, <1>7 DEF LobbyReads

\* A battle that is not where its relay is is being moved, or its host is being told
\* (readvertise, MoveWatch, warn_if_unanswered, move_unanswered).
THEOREM MovesFollowed == Spec => []FoundOnTime
<1>1. Init => FoundOnTime
  BY DEF Init, FoundOnTime, Told, Settled, Hosting, NoHost
<1>2. /\ TypeOK /\ TypeOK' /\ InHand /\ InHand' /\ WordsInv /\ JoinInv /\ ConversationOnTime
      /\ AnswersKnown /\ PlacedOnTime /\ FoundOnTime /\ [Next]_vars
      => FoundOnTime'
  <2> SUFFICES ASSUME TypeOK, TypeOK', InHand, InHand', WordsInv, JoinInv,
                      ConversationOnTime, AnswersKnown, PlacedOnTime, FoundOnTime,
                      [Next]_vars, OnTime'
               PROVE  Told' /\ Settled'
    BY DEF FoundOnTime
  <2>0. Conversation /\ MovesFirst /\ OpenedInPlace /\ Told /\ Settled
    BY LateStaysLate DEF ConversationOnTime, PlacedOnTime, FoundOnTime
  <2>a. ASSUME slot'.a = 0 PROVE Told' /\ Settled'
    BY <2>a DEF Told, Settled, Hosting
  <2>1. CASE UNCHANGED vars
    BY <2>1, <2>0, FoundKept DEF vars, lobbyVars, hostVars
  <2>2. CASE HostOpens \/ HostLeaves \/ ConnectionEnds
    BY <2>2, <2>a DEF HostOpens, HostLeaves, ConnectionEnds, Release, NoHost
  <2>3. CASE Form
    <3>1. CASE BattleOpened /\ connected
      BY <2>0, <3>1, FoundOpened
    <3>2. CASE ~(BattleOpened /\ connected)
      <4>1. slot' = slot /\ try.phase # "idle"
        BY <2>3, <3>2 DEF Form, NotStarted, Spawn, AllocationTimesOut, Advertise,
                          NobodyToTell, BattleOpened, NotRelayed, NotOpened
      <4>. QED
        BY <2>a, <4>1 DEF InHand, Hosting
    <3>. QED
      BY <3>1, <3>2
  <2>4. CASE ReadLine
    BY <2>4, <2>0, FoundAnswered
  <2>5. CASE LobbyReads
    BY <2>5, <2>0, FoundGiven
  <2>6. ASSUME NEW p \in Player, PlayerJoins(p) PROVE Told' /\ Settled'
    <3>1. /\ room'.a = room.a /\ room'.at = room.at
          /\ fromLobby' = Append(fromLobby, ClientIp(p))
          /\ UNCHANGED <<slot, knows, agent, waits, toLobby>>
      BY <2>6 DEF PlayerJoins, TypeOK, Rooms, hostVars
    <3>. QED
      BY <2>0, <3>1, FoundKept
  <2>7. ASSUME NEW w \in waits, MoveUnanswered(w) PROVE Told' /\ Settled'
    BY <2>7, <2>0, FoundWarned
  <2>8. ASSUME NEW a \in Attempts, AgentOpens(a) \/ AgentHasNone(a) \/ AgentStops(a)
        PROVE  Told' /\ Settled'
    <3>1. UNCHANGED <<slot, knows, room, waits, toLobby, fromLobby>>
      BY <2>8 DEF AgentOpens, AgentHasNone, AgentStops, lobbyVars, hostVars
    <3>2. \A b \in Attempts : agent'[b].moving = agent[b].moving
      <4>1. \E is, at, kind : Says(a, is, at, kind)
        BY <2>8 DEF AgentOpens, AgentHasNone, AgentStops
      <4>. QED
        BY <4>1 DEF Says, TypeOK, Agents
    <3>3. Hosting => slot.a \in Attempts
      BY Numbers DEF Hosting
    <3>. QED
      BY <2>0, <3>1, <3>2, <3>3, FoundKept DEF Hosting
  <2>9. ASSUME NEW a \in Attempts, Readvertise(a) PROVE Told' /\ Settled'
    BY <2>9, FoundMoved
  <2>10. ASSUME NEW a \in Attempts, ReadEvent(a) PROVE Told' /\ Settled'
    BY <2>0, <2>10, FoundSaid
  <2>. QED
    BY <2>1, <2>2, <2>3, <2>4, <2>5, <2>6, <2>7, <2>8, <2>9, <2>10 DEF Next
<1>. QED
  BY <1>1, <1>2, TypeCorrect, AgentsInHand, WordsFollowed, JoinersFollowed,
     ConversationFollowed, AnswersFollowLobby, BattlePlaced, PTL DEF Spec

\* A lobby either has the command that moves a battle or has not (LobbyDoes describes one
\* server, and MOVERELAYEDHOST is in its version or is not).
ConsistentLobby == LobbyHasMoves \/ LobbyHasNoMoves

\* A battle that cannot be reached is noticed, whatever the lobby makes of a move so long
\* as it is one kind of lobby (readvertise, MoveWatch, warn_if_unanswered).
THEOREM MovesNoticed ==
  ASSUME ConsistentLobby
  PROVE  Spec => []UnreachableIsNoticed
<1>1. FoundOnTime => UnreachableIsNoticed
  <2> SUFFICES ASSUME Told, Settled, Hosting, ~InPlace, ~MoveOnItsWay, ~slot.told, ~knows
               PROVE  ~slot.answered /\ [a |-> slot.a, n |-> slot.sent] \in waits
    BY DEF FoundOnTime, UnreachableIsNoticed, InPlace
  <2>1. agent[slot.a].moving = 0
    BY DEF MoveOnItsWay
  <2>2. CASE LobbyHasMoves
    <3>1. CASE Has(toLobby, {"move"})
      <4>1. \E i \in 1..Len(toLobby) : toLobby[i] = Line("move", slot.a, slot.sent, slot.relayed)
        BY <2>1, <2>2, <3>1 DEF Settled, LatestLine, Ends
      <4>. QED
        BY <4>1 DEF MoveOnItsWay, Line
    <3>2. CASE ~Has(toLobby, {"move"}) /\ Has(fromLobby, MoveAnswers)
      <4>1. \E i \in 1..Len(fromLobby) : fromLobby[i] = Reply("moveRefused", slot.a, slot.sent)
        BY <2>1, <2>2, <3>2 DEF Settled, LatestReplies, Ends
      <4>. QED
        BY <4>1 DEF MoveOnItsWay, Reply
    <3>. QED
      BY <2>1, <2>2, <3>1, <3>2 DEF Settled
  <2>3. CASE LobbyHasNoMoves
    BY <2>1, <2>3 DEF Told, InPlace
  <2>. QED
    BY <2>2, <2>3 DEF ConsistentLobby
<1>. QED
  BY <1>1, MovesFollowed, PTL
=============================================================================
