-------------------------------- MODULE Room --------------------------------
(***************************************************************************)
(* A room the host runs itself: RoomState of                               *)
(* coilbox-lobby-protocol/src/server/room.rs under the task of             *)
(* tauri-plugin-coilbox-direct/src/room.rs that owns it and the sockets.   *)
(*                                                                         *)
(* The task handles one request at a time, so every handler is one action. *)
(* `told` is what each client believes once it has read every line it was  *)
(* sent (LobbyView): an action changes it line by line, in the order the   *)
(* handler produces the lines.                                             *)
(***************************************************************************)
EXTENDS LobbyView, FiniteSets

CONSTANTS
  Peer,        \* connections; one that is forgotten may be used again
  Host,        \* the name with host powers
  MaxPlayers,  \* as the host opened the battle
  MaxBattles,  \* bound: battles the host opens
  MaxAsks,     \* bound: joins that wait for the host at once
  MaxVerdicts  \* bound: names kicked or refused at a time

ASSUME RoomAssumption ==
  /\ Host \in Name /\ NoName \notin Name
  /\ LastTeam \in Nat /\ NoSeat \notin Seat /\ NoBot \notin Bots
  /\ {MaxPlayers, MaxBattles, MaxAsks, MaxVerdicts} \subseteq Nat

VARIABLES
  known,    \* connections the room holds
  closing,  \* those told to close once they have written what is queued
  name,     \* what each is logged in as
  member,   \* the seat of each that is in the battle
  asked,    \* those sent REQUESTBATTLESTATUS that have not said their seat
  waiting,  \* joins of each that wait for the host
  ingame,   \* the host's in-game bit
  battle,   \* the open battle's number, or 0
  bots, options,
  opened,   \* battles there have been
  kicked,   \* names blocked for the life of the room
  refused,  \* names turned away from this battle
  kept,     \* the seat of each name whose connection ended in the battle
  approve,  \* RoomConfig::approve_joins
  told

seatVars == <<member, waiting, battle, bots, options, refused, kept>>
vars == <<known, closing, name, asked, ingame, opened, kicked, approve, told, seatVars>>

TypeOK ==
  /\ known \subseteq Peer /\ closing \subseteq known
  /\ name \in [Peer -> Name \cup {NoName}]
  /\ member \in [Peer -> Seat \cup {NoSeat}]
  /\ asked \subseteq Peer
  /\ waiting \in [Peer -> Nat]
  /\ ingame \in BOOLEAN
  /\ battle \in Nat /\ opened \in Nat
  /\ bots \in [Bot -> Bots \cup {NoBot}]
  /\ options \subseteq Option
  /\ kicked \subseteq Name /\ refused \subseteq Name
  /\ kept \in [Name -> Seat \cup {NoSeat}]
  /\ approve \in BOOLEAN

Named(p) == name[p] # NoName
IsHost(p) == name[p] = Host
InBattle(p) == member[p] # NoSeat
Members == {p \in Peer : InBattle(p)}
LoggedIn == {name[p] : p \in Peer} \ {NoName}
HostIsHere == Host \in LoggedIn

Init ==
  /\ known = {} /\ closing = {} /\ asked = {}
  /\ name = [p \in Peer |-> NoName]
  /\ member = [p \in Peer |-> NoSeat]
  /\ waiting = [p \in Peer |-> 0]
  /\ ingame = FALSE
  /\ battle = 0 /\ opened = 0
  /\ bots = NoBots /\ options = {}
  /\ kicked = {} /\ refused = {} /\ kept = Nobody
  /\ approve \in BOOLEAN
  /\ told = [p \in Peer |-> Blank]

\* Views are followed from the login to the end of the connection: the welcome
\* says again all that a connection without a name may have heard.
Heard(listeners, Hears(_)) ==
  told' = [q \in Peer |-> IF q \in listeners THEN Hears(told[q]) ELSE Blank]

Listeners == {q \in Peer : Named(q)}
Everybody(Hears(_)) == Heard(Listeners, Hears)

Except(p, Own(_), Others(_)) ==
  told' = [q \in Peer |-> IF q = p THEN Own(told[q])
                          ELSE IF Named(q) THEN Others(told[q]) ELSE Blank]
-----------------------------------------------------------------------------
(* Coming and going. *)

Accept(p) ==
  /\ p \notin known
  /\ known' = known \cup {p}
  /\ UNCHANGED <<closing, name, asked, ingame, opened, kicked, approve, told, seatVars>>

\* What a newcomer is told of the room; not who is in the battle.
Welcomed(v, n) ==
  LET greeted == [v EXCEPT !.me = n, !.ingame = IF ingame THEN {Host} ELSE {}]
  IN  IF battle = 0 THEN greeted ELSE BattleOpened(greeted, battle, Host)

Login(p, n) ==
  /\ p \in known /\ ~Named(p)
  /\ IF n \in LoggedIn \cup kicked
     THEN closing' = closing \cup {p} /\ UNCHANGED <<name, told>>
     ELSE /\ name' = [name EXCEPT ![p] = n]
          /\ Except(p, LAMBDA v : Welcomed(v, n), LAMBDA v : UserAdded(v, n))
          /\ UNCHANGED closing
  /\ UNCHANGED <<known, asked, ingame, opened, kicked, approve, seatVars>>

\* leave_battle: the battle closes with its founder.  `keeping` is what becomes
\* of the seats kept.
OutOfBattle(p, keeping) ==
  IF InBattle(p) /\ IsHost(p)
  THEN /\ member' = [q \in Peer |-> NoSeat]
       /\ waiting' = [q \in Peer |-> 0]
       /\ asked' = {}
       /\ battle' = 0 /\ bots' = NoBots /\ options' = {}
       /\ refused' = {} /\ kept' = Nobody
  ELSE /\ member' = [member EXCEPT ![p] = NoSeat]
       /\ waiting' = [waiting EXCEPT ![p] = 0]
       /\ asked' = asked \ {p}
       /\ bots' = [b \in Bot |-> IF InBattle(p) /\ bots[b] # NoBot /\ bots[b].owner = name[p]
                                 THEN NoBot ELSE bots[b]]
       /\ kept' = keeping
       /\ UNCHANGED <<battle, options, refused>>

BotsOf(n) == {b \in Bot : bots[b] # NoBot /\ bots[b].owner = n}

SeenOut(v, p) ==
  IF ~InBattle(p) THEN v
  ELSE IF IsHost(p) THEN BattleClosed(v, battle)
  ELSE MemberLeft(BotsRemoved(v, battle, BotsOf(name[p])), battle, name[p])

LeaveBattle(p) ==
  /\ Named(p) /\ (InBattle(p) \/ waiting[p] > 0)
  /\ OutOfBattle(p, kept)
  /\ Everybody(LAMBDA v : SeenOut(v, p))
  /\ UNCHANGED <<known, closing, name, ingame, opened, kicked, approve>>

\* As it would be if the member were gone before the seat is looked at.
ForgottenWithSeat(p) ==
  /\ OutOfBattle(p, kept)
  /\ known' = known \ {p}
  /\ name' = [name EXCEPT ![p] = NoName]
  /\ ingame' = (ingame /\ ~IsHost(p))
  /\ Heard(Listeners \ {p}, LAMBDA v : IF Named(p) THEN UserRemoved(SeenOut(v, p), name[p]) ELSE v)

\* RoomState::disconnect.
Forgotten(p) ==
  /\ OutOfBattle(p, IF InBattle(p) THEN [kept EXCEPT ![name[p]] = member[p]] ELSE kept)
  /\ known' = known \ {p}
  /\ name' = [name EXCEPT ![p] = NoName]
  /\ ingame' = (ingame /\ ~IsHost(p))
  /\ Heard(Listeners \ {p}, LAMBDA v : IF Named(p) THEN UserRemoved(SeenOut(v, p), name[p]) ELSE v)

\* EXIT, the socket's end, or IDLE_TIMEOUT of silence: whichever is first, and
\* the others find nothing left to do.
Gone(p) ==
  /\ p \in known
  /\ Forgotten(p)
  /\ closing' = closing \ {p}
  /\ UNCHANGED <<opened, kicked, approve>>
-----------------------------------------------------------------------------
(* The battle. *)

OpenBattle(p) ==
  /\ IsHost(p) /\ battle = 0 /\ opened < MaxBattles
  /\ opened' = opened + 1
  /\ battle' = opened'
  /\ member' = [member EXCEPT ![p] = Watching]
  /\ asked' = asked \cup {p}
  /\ Except(p, LAMBDA v : Entered(BattleOpened(v, battle', Host), battle'),
               LAMBDA v : BattleOpened(v, battle', Host))
  /\ UNCHANGED <<known, closing, name, waiting, ingame, bots, options, kicked, refused,
                 kept, approve>>

\* next_free_seat, as far as teams go.
FreeSeat ==
  LET used == {member[p].team : p \in Members}
                \cup {bots[b].team : b \in {c \in Bot : bots[c] # NoBot}}
      free == Team \ used
  IN  [plays |-> TRUE,
       team |-> IF free = {} THEN LastTeam ELSE CHOOSE t \in free : \A u \in free : t <= u]

\* JOINEDBATTLE and CLIENTBATTLESTATUS for everybody in the battle already.
RosterTold(v) ==
  IF v.battle # battle THEN v
  ELSE [v EXCEPT !.members = [n \in Name |->
          IF \E p \in Members : name[p] = n
          THEN member[CHOOSE p \in Members : name[p] = n] ELSE @[n]]]

BotsTold(v) ==
  IF v.battle # battle THEN v
  ELSE [v EXCEPT !.bots = [b \in Bot |-> IF bots[b] # NoBot THEN bots[b] ELSE @[b]]]

\* As it would be if the options were sent before the acknowledgement.
CaughtUpFirst(v) == Entered(BotsTold(RosterTold(OptionsSet(v, options))), battle)

CaughtUp(v) == BotsTold(OptionsSet(RosterTold(Entered(v, battle)), options))

\* The seat kept for them, a free one, or that of somebody come to watch.
SeatFor(p) ==
  IF kept[name[p]] # NoSeat THEN kept[name[p]] ELSE IF ingame THEN Watching ELSE FreeSeat

SeatIsSaid(p) == kept[name[p]] # NoSeat \/ ~ingame

\* admit: told about the room, seated, announced, and asked or told their seat.
Admit(p) ==
  LET seat == SeatFor(p)
      announced(v) == IF SeatIsSaid(p)
                      THEN MemberSeated(MemberJoined(v, battle, name[p]), name[p], seat)
                      ELSE MemberJoined(v, battle, name[p])
  IN  /\ member' = [member EXCEPT ![p] = seat]
      /\ kept' = [kept EXCEPT ![name[p]] = NoSeat]
      /\ asked' = IF SeatIsSaid(p) THEN asked ELSE asked \cup {p}
      /\ Except(p, LAMBDA v : announced(CaughtUp(v)), announced)

\* join_battle, for the battle that is open and with its password.
Join(p) ==
  /\ Named(p) /\ battle # 0 /\ ~InBattle(p)
  /\ name[p] \notin kicked \cup refused
  /\ Cardinality(Members) < MaxPlayers
  /\ IF approve /\ ~IsHost(p)
     THEN /\ waiting[p] + Cardinality({q \in Peer \ {p} : waiting[q] > 0}) < MaxAsks
          /\ waiting' = [waiting EXCEPT ![p] = @ + 1]
          /\ UNCHANGED <<member, kept, asked, told>>
     ELSE Admit(p) /\ UNCHANGED waiting
  /\ UNCHANGED <<known, closing, name, ingame, battle, bots, options, opened, kicked,
                 refused, approve>>

MoreVerdicts == Cardinality(kicked \cup refused) < MaxVerdicts

Answered(p) ==
  /\ HostIsHere /\ waiting[p] > 0
  /\ waiting' = [waiting EXCEPT ![p] = @ - 1]

Approve(p) ==
  /\ Answered(p)
  /\ Admit(p)
  /\ UNCHANGED <<known, closing, name, ingame, battle, bots, options, opened, kicked,
                 refused, approve>>

Refuse(p) ==
  /\ Answered(p) /\ MoreVerdicts
  /\ refused' = refused \cup {name[p]}
  /\ UNCHANGED <<known, closing, name, member, asked, ingame, battle, bots, options,
                 opened, kicked, kept, approve, told>>

\* As it would be if a kick did not take back a join that waits.
KickFromSeat(n) ==
  /\ HostIsHere /\ n # Host /\ MoreVerdicts
  /\ kicked' = kicked \cup {n}
  /\ \E p \in Peer :
       /\ name[p] = n
       /\ member' = [member EXCEPT ![p] = NoSeat]
       /\ closing' = closing \cup {p}
       /\ Everybody(LAMBDA v : SeenOut(v, p))
  /\ UNCHANGED <<known, name, asked, waiting, ingame, battle, bots, options, opened,
                 refused, kept, approve>>

\* The name is blocked whether or not anybody is here under it.
Kick(n) ==
  /\ HostIsHere /\ n # Host /\ MoreVerdicts
  /\ kicked' = kicked \cup {n}
  /\ \/ /\ n \notin LoggedIn
        /\ UNCHANGED <<closing, asked, told, seatVars>>
     \/ \E p \in Peer :
          /\ name[p] = n
          /\ OutOfBattle(p, kept)
          /\ closing' = closing \cup {p}
          /\ Everybody(LAMBDA v : SeenOut(v, p))
  /\ UNCHANGED <<known, name, ingame, opened, approve>>
-----------------------------------------------------------------------------
(* Inside. *)

\* The host's MYSTATUS; nobody else's decides anything.
HostStatus(p, up) ==
  /\ IsHost(p)
  /\ ingame' = up
  /\ Everybody(LAMBDA v : StatusTold(v, Host, up))
  /\ UNCHANGED <<known, closing, name, asked, opened, kicked, approve, seatVars>>

Reseated(p, seat) ==
  /\ member' = [member EXCEPT ![p] = seat]
  /\ Everybody(LAMBDA v : MemberSeated(v, name[p], seat))
  /\ UNCHANGED <<known, closing, name, waiting, ingame, battle, bots, options, opened,
                 kicked, refused, kept, approve>>

MyBattleStatus(p, seat) ==
  /\ InBattle(p)
  /\ Reseated(p, seat)
  /\ asked' = asked \ {p}

ForceSeat(p, seat) ==
  /\ HostIsHere /\ InBattle(p)
  /\ seat \in {[member[p] EXCEPT !.team = t] : t \in Team} \cup {[member[p] EXCEPT !.plays = FALSE]}
  /\ Reseated(p, seat)
  /\ UNCHANGED asked

BotsAre(newBots, Hears(_)) ==
  /\ bots' = newBots
  /\ Everybody(Hears)
  /\ UNCHANGED <<known, closing, name, member, asked, waiting, ingame, battle, options,
                 opened, kicked, refused, kept, approve>>

AddBot(p, b, team) ==
  /\ InBattle(p) /\ bots[b] = NoBot
  /\ LET bot == [owner |-> name[p], team |-> team]
     IN  BotsAre([bots EXCEPT ![b] = bot], LAMBDA v : BotAdded(v, battle, b, bot))

MayChange(p, b) == bots[b] # NoBot /\ Named(p) /\ (bots[b].owner = name[p] \/ IsHost(p))

UpdateBot(p, b, team) ==
  /\ MayChange(p, b)
  /\ BotsAre([bots EXCEPT ![b].team = team], LAMBDA v : BotUpdated(v, battle, b, team))

RemoveBot(p, b) ==
  /\ MayChange(p, b)
  /\ BotsAre([bots EXCEPT ![b] = NoBot], LAMBDA v : BotsRemoved(v, battle, {b}))

\* SETSCRIPTTAGS and ADDSTARTRECT; the other way, their removals.
SetOption(o) ==
  /\ HostIsHere /\ battle # 0
  /\ options' = options \cup {o}
  /\ Everybody(LAMBDA v : OptionsSet(v, {o}))
  /\ UNCHANGED <<known, closing, name, member, asked, waiting, ingame, battle, bots,
                 opened, kicked, refused, kept, approve>>

UnsetOption(o) ==
  /\ HostIsHere /\ battle # 0
  /\ options' = options \ {o}
  /\ Everybody(LAMBDA v : OptionsUnset(v, {o}))
  /\ UNCHANGED <<known, closing, name, member, asked, waiting, ingame, battle, bots,
                 opened, kicked, refused, kept, approve>>

Next ==
  \/ \E p \in Peer :
       \/ Accept(p) \/ Gone(p)
       \/ \E n \in Name : Login(p, n)
       \/ OpenBattle(p) \/ Join(p) \/ Approve(p) \/ Refuse(p) \/ LeaveBattle(p)
       \/ \E up \in BOOLEAN : HostStatus(p, up)
       \/ \E seat \in Seat : MyBattleStatus(p, seat) \/ ForceSeat(p, seat)
       \/ \E b \in Bot : RemoveBot(p, b) \/ \E team \in Team : AddBot(p, b, team) \/ UpdateBot(p, b, team)
  \/ \E n \in Name : Kick(n)
  \/ \E o \in Option : SetOption(o) \/ UnsetOption(o)

Spec == Init /\ [][Next]_vars
-----------------------------------------------------------------------------
(* Properties. *)

OneNameEach == \A p, q \in Peer : Named(p) /\ name[p] = name[q] => p = q

\* The battle is open exactly while the host is in it.
BattleHasItsHost ==
  /\ battle # 0 <=> \E p \in Peer : IsHost(p) /\ InBattle(p)
  /\ \A p \in Peer : InBattle(p) \/ waiting[p] > 0 => Named(p) /\ battle # 0

\* A kicked name is on its way out, in no battle and in nobody's prompt.
KickedIsOut ==
  \A p \in Peer : name[p] \in kicked => p \in closing /\ ~InBattle(p) /\ waiting[p] = 0

\* A seat is kept for somebody else than the host who is not in the battle.
KeptForTheAbsent ==
  \A n \in Name : kept[n] # NoSeat =>
    battle # 0 /\ n # Host /\ \A p \in Members : name[p] # n

BotsHaveOwners ==
  \A b \in Bot : bots[b] # NoBot => \E p \in Members : name[p] = bots[b].owner

\* A name is one connection, a battle lives with its host, a kick holds against
\* every way back in, seats are kept only for the absent and bots have owners.
RoomIsSound ==
  /\ OneNameEach /\ BattleHasItsHost /\ KickedIsOut /\ KeptForTheAbsent /\ BotsHaveOwners

Agrees(v, p) ==
  /\ v.me = name[p]
  /\ v.ingame = IF ingame THEN {Host} ELSE {}
  /\ v.battle = battle

\* Everybody in the battle sees who is in it, on which seat, but for those who
\* have yet to say their seat, whose bots are in and at least the options set;
\* and everybody logged in sees which battle is open and whether it has begun.
MembersSeeTheRoom ==
  \A p \in known :
    /\ Named(p) => Agrees(told[p], p)
    /\ InBattle(p) =>
         /\ told[p].current = battle
         /\ told[p].bots = bots
         /\ options \subseteq told[p].options
         /\ \A n \in Name : told[p].members[n] # NoSeat <=> \E q \in Members : name[q] = n
         /\ \A q \in Members \ asked : told[p].members[name[q]] = member[q]

\* A kept seat goes back to its owner or with the battle, and nobody's
\* connection ends in the battle without the seat being kept, unless the battle
\* ends with it.
KeptSeatsGoHome ==
  [][/\ \A n \in Name : kept[n] # NoSeat /\ kept'[n] # kept[n] =>
          \/ battle' = 0
          \/ \E p \in Peer : name[p] = n /\ member'[p] = kept[n]
     /\ \A p \in Members : p \notin known' =>
          battle' = 0 \/ kept'[name[p]] = member[p]]_vars

\* What the code does not keep: somebody turned away is not asked about again,
\* and does not get in (room.rs 60-64 and 742-744).
TurnedAwayStaysOut ==
  \A p \in Peer : name[p] \in refused => ~InBattle(p) /\ waiting[p] = 0

\* A joiner is brought up to date (room.rs 811), removals included.
BroughtUpToDate == \A p \in Members : told[p].options = options

\* A room is not fuller than it says.
NeverOverFull == Cardinality(Members) <= MaxPlayers
=============================================================================
