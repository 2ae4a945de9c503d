----------------------------- MODULE LobbyView -----------------------------
(***************************************************************************)
(* What a TASServer client makes of the lines it reads:                    *)
(* coilbox-lobby-protocol/src/reduce.rs, as far as a room of one battle    *)
(* goes.  A view is the client's LobbyState; every operator is what one    *)
(* line does to it.  Lines about options (script tags, start boxes) name   *)
(* no battle: they are filed under the one the client is in, or lost.      *)
(***************************************************************************)
EXTENDS Naturals

CONSTANTS
  Name,     \* players' names
  Bot,      \* bots' names
  Option,   \* script tags and start boxes
  LastTeam, \* the last team number, 15 on the wire
  NoName, NoSeat, NoBot

Team == 0 .. LastTeam
Seat == [plays : BOOLEAN, team : Team]
Watching == [plays |-> FALSE, team |-> 0]
Bots == [owner : Name, team : Team]

\* Battles are numbered from 1; 0 is none.
Views ==
  [me : Name \cup {NoName}, ingame : SUBSET Name, battle : Nat, members : [Name -> Seat \cup {NoSeat}],
   bots : [Bot -> Bots \cup {NoBot}], options : SUBSET Option, current : Nat]

Nobody == [n \in Name |-> NoSeat]
NoBots == [b \in Bot |-> NoBot]

\* The state of a client that has just connected.
Blank ==
  [me |-> NoName, ingame |-> {}, battle |-> 0, members |-> Nobody,
   bots |-> NoBots, options |-> {}, current |-> 0]

\* ADDUSER begins with the default status; `ingame` is who is seen in a game.
UserAdded(v, n) == [v EXCEPT !.ingame = @ \ {n}]
UserRemoved(v, n) == [v EXCEPT !.ingame = @ \ {n}]
StatusTold(v, n, ingame) == [v EXCEPT !.ingame = IF ingame THEN @ \cup {n} ELSE @ \ {n}]

\* The founder is seeded as a member; nothing else says that they are one.
BattleOpened(v, id, founder) ==
  [v EXCEPT !.battle = id, !.members = [Nobody EXCEPT ![founder] = Watching],
            !.bots = NoBots, !.options = {}]

BattleClosed(v, id) ==
  IF v.battle # id THEN v
  ELSE [v EXCEPT !.battle = 0, !.members = Nobody, !.bots = NoBots, !.options = {},
                 !.current = IF @ = id THEN 0 ELSE @]

\* JOINBATTLE and OPENBATTLE: the client's own way in.
Entered(v, id) == [v EXCEPT !.current = id]

MemberJoined(v, id, n) ==
  IF v.battle = id /\ v.members[n] = NoSeat THEN [v EXCEPT !.members[n] = Watching] ELSE v

MemberLeft(v, id, n) ==
  [v EXCEPT !.members[n] = IF v.battle = id THEN NoSeat ELSE @,
            !.current = IF v.me = n /\ @ = id THEN 0 ELSE @]

\* The status of somebody who is in no battle is lost.
MemberSeated(v, n, seat) ==
  IF v.members[n] # NoSeat THEN [v EXCEPT !.members[n] = seat] ELSE v

BotAdded(v, id, b, bot) == IF v.battle = id THEN [v EXCEPT !.bots[b] = bot] ELSE v

BotUpdated(v, id, b, team) ==
  IF v.battle = id /\ v.bots[b] # NoBot THEN [v EXCEPT !.bots[b].team = team] ELSE v

BotsRemoved(v, id, gone) ==
  IF v.battle = id THEN [v EXCEPT !.bots = [b \in Bot |-> IF b \in gone THEN NoBot ELSE @[b]]] ELSE v

InKnownBattle(v) == v.current # 0 /\ v.current = v.battle

OptionsSet(v, set) == IF InKnownBattle(v) THEN [v EXCEPT !.options = @ \cup set] ELSE v
OptionsUnset(v, set) == IF InKnownBattle(v) THEN [v EXCEPT !.options = @ \ set] ELSE v
=============================================================================
