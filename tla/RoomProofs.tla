----------------------------- MODULE RoomProofs -----------------------------
(***************************************************************************)
(* What holds of a room for any number of names, connections, bots and     *)
(* battles: its state is well formed, a name is one connection, a kick     *)
(* holds, a kept seat goes home, and every client that has read its lines  *)
(* sees the room as it is.  No handler reads what a client believes, so    *)
(* the views come last and rest on all the others.                         *)
(***************************************************************************)
EXTENDS Room, WellFoundedInduction, TLAPS

(* A nonempty set of teams has a lowest one.                               *)
LEMMA LowestTeam ==
  ASSUME NEW T \in SUBSET Team, T # {}
  PROVE  \E t \in T : \A u \in T : t <= u
<1>. DEFINE R == {ss \in Nat \X Nat : ss[1] < ss[2]}
<1>1. IsWellFoundedOn(R, Nat)
  BY NatLessThanWellFounded DEF OpToRel
<1>2. T \subseteq Nat
  BY RoomAssumption DEF Team
<1>3. PICK t \in T : \A u \in T : ~(<<u, t>> \in R)
  BY <1>1, <1>2, WFMin
<1>4. \A u \in T : t <= u
  <2> TAKE u \in T
  <2>1. <<u, t>> \in Nat \X Nat /\ ~(<<u, t>>[1] < <<u, t>>[2])
    BY <1>2, <1>3
  <2>. QED  BY <1>2, <2>1
<1>. QED  BY <1>4

(* The next free seat is a seat. *)
LEMMA FreeSeatIsASeat == FreeSeat \in Seat
<1>. DEFINE used == {member[p].team : p \in Members}
                      \cup {bots[b].team : b \in {c \in Bot : bots[c] # NoBot}}
            free == Team \ used
<1>1. CASE free = {}
  BY <1>1, RoomAssumption DEF FreeSeat, Seat, Team
<1>2. CASE free # {}
  <2>1. \E t \in free : \A u \in free : t <= u
    BY <1>2, LowestTeam
  <2>. QED  BY <1>2, <2>1 DEF FreeSeat, Seat
<1>. QED  BY <1>1, <1>2
-----------------------------------------------------------------------------
(* Only who has logged in is in the battle or waits to be, and only who is *)
(* connected has logged in.                                                *)
Grounded ==
  \A p \in Peer : /\ InBattle(p) \/ waiting[p] > 0 => Named(p)
                  /\ Named(p) => p \in known

TypeInv == TypeOK /\ Grounded

(* Whoever is let in gets a seat. *)
LEMMA SeatForIsASeat ==
  ASSUME TypeInv, NEW p \in Peer, Named(p)
  PROVE  name[p] \in Name /\ SeatFor(p) \in Seat
<1>1. FreeSeat \in Seat /\ Watching \in Seat
  BY FreeSeatIsASeat, RoomAssumption DEF Watching, Seat, Team
<1>. QED  BY <1>1 DEF TypeInv, TypeOK, Named, SeatFor

(* The room's own state is well formed, and names come before seats. *)
LEMMA TypeInvKept == Spec => []TypeInv
<1>1. Init => TypeInv
  <2> SUFFICES ASSUME Init PROVE TypeInv
    OBVIOUS
  <2>1. ingame \in BOOLEAN /\ approve \in BOOLEAN
    BY DEF Init
  <2>2. bots \in [Bot -> Bots \cup {NoBot}] /\ kept \in [Name -> Seat \cup {NoSeat}]
    BY DEF Init, NoBots, Nobody
  <2>3. known \subseteq Peer /\ closing \subseteq known /\ asked \subseteq Peer /\ options \subseteq Option
         /\ kicked \subseteq Name /\ refused \subseteq Name
    BY DEF Init
  <2>4. /\ name \in [Peer -> Name \cup {NoName}] /\ member \in [Peer -> Seat \cup {NoSeat}]
        /\ waiting \in [Peer -> Nat] /\ battle \in Nat /\ opened \in Nat
    BY DEF Init
  <2>. QED  BY <2>1, <2>2, <2>3, <2>4 DEF Init, TypeInv, TypeOK, Grounded, InBattle, Named
<1>2. TypeInv /\ [Next]_vars => TypeInv'
  <2> SUFFICES ASSUME TypeInv, [Next]_vars PROVE TypeInv'
    OBVIOUS
  <2> USE RoomAssumption DEF TypeInv, TypeOK, Grounded, InBattle, Named
  <2>1. CASE UNCHANGED vars
    BY <2>1 DEF vars, seatVars
  <2>2. ASSUME NEW p \in Peer, Accept(p) PROVE TypeInv'
    BY <2>2 DEF Accept, seatVars
  <2>3. ASSUME NEW p \in Peer, NEW n \in Name, Login(p, n) PROVE TypeInv'
    BY <2>3 DEF Login, seatVars
  <2>4. ASSUME NEW p \in Peer, LeaveBattle(p) PROVE TypeInv'
    BY <2>4 DEF LeaveBattle, OutOfBattle, NoBots, Nobody
  <2>5. ASSUME NEW p \in Peer, Gone(p) PROVE TypeInv'
    BY <2>5 DEF Gone, Forgotten, OutOfBattle, NoBots, Nobody, InBattle
  <2>6. ASSUME NEW p \in Peer, OpenBattle(p) PROVE TypeInv'
    BY <2>6 DEF OpenBattle, IsHost, Watching, Seat, Team
  <2>7. ASSUME NEW p \in Peer, Join(p) PROVE TypeInv'
    <3>1. name[p] \in Name /\ SeatFor(p) \in Seat
      BY <2>7, SeatForIsASeat DEF Join
    <3>2. CASE Admit(p) /\ UNCHANGED waiting
      BY <2>7, <3>1, <3>2 DEF Join, Admit
    <3>3. CASE UNCHANGED <<member, kept, asked>> /\ waiting' = [waiting EXCEPT ![p] = @ + 1]
      BY <2>7, <3>3 DEF Join
    <3>. QED  BY <2>7, <3>2, <3>3 DEF Join
  <2>8. ASSUME NEW p \in Peer, Approve(p) PROVE TypeInv'
    <3>1. name[p] \in Name /\ SeatFor(p) \in Seat
      BY <2>8, SeatForIsASeat DEF Approve, Answered
    <3>. QED  BY <2>8, <3>1 DEF Approve, Answered, Admit
  <2>9. ASSUME NEW p \in Peer, Refuse(p) PROVE TypeInv'
    BY <2>9 DEF Refuse, Answered
  <2>10. ASSUME NEW p \in Peer, NEW up \in BOOLEAN, HostStatus(p, up) PROVE TypeInv'
    BY <2>10 DEF HostStatus, seatVars
  <2>11. ASSUME NEW p \in Peer, NEW seat \in Seat, MyBattleStatus(p, seat) PROVE TypeInv'
    BY <2>11 DEF MyBattleStatus, Reseated, Everybody, Heard
  <2>12. ASSUME NEW p \in Peer, NEW seat \in Seat, ForceSeat(p, seat) PROVE TypeInv'
    BY <2>12 DEF ForceSeat, Reseated, Everybody, Heard
  <2>13. ASSUME NEW p \in Peer, NEW b \in Bot, RemoveBot(p, b) PROVE TypeInv'
    BY <2>13 DEF RemoveBot, BotsAre
  <2>14. ASSUME NEW p \in Peer, NEW b \in Bot, NEW team \in Team, AddBot(p, b, team) PROVE TypeInv'
    BY <2>14 DEF AddBot, BotsAre, Bots, InBattle
  <2>15. ASSUME NEW p \in Peer, NEW b \in Bot, NEW team \in Team, UpdateBot(p, b, team)
         PROVE  TypeInv'
    BY <2>15 DEF UpdateBot, MayChange, BotsAre, Bots
  <2>16. ASSUME NEW n \in Name, Kick(n) PROVE TypeInv'
    <3>1. CASE UNCHANGED <<closing, asked, told, seatVars>>
      BY <2>16, <3>1 DEF Kick, seatVars
    <3>2. ASSUME NEW p \in Peer, name[p] = n, OutOfBattle(p, kept), closing' = closing \cup {p}
          PROVE  TypeInv'
      BY <2>16, <3>2 DEF Kick, OutOfBattle, IsHost, NoBots, Nobody
    <3>. QED  BY <2>16, <3>1, <3>2 DEF Kick
  <2>17. ASSUME NEW o \in Option, SetOption(o) PROVE TypeInv'
    BY <2>17 DEF SetOption, Everybody, Heard
  <2>18. ASSUME NEW o \in Option, UnsetOption(o) PROVE TypeInv'
    BY <2>18 DEF UnsetOption, Everybody, Heard
  <2>. QED  BY <2>1, <2>2, <2>3, <2>4, <2>5, <2>6, <2>7, <2>8, <2>9, <2>10, <2>11, <2>12,
               <2>13, <2>14, <2>15, <2>16, <2>17, <2>18 DEF Next
<1>. QED  BY <1>1, <1>2, PTL DEF Spec

(* Whatever is done, the room's own state is well formed. *)
THEOREM TypeCorrect == Spec => []TypeOK
<1>1. TypeInv => TypeOK
  BY DEF TypeInv
<1>. QED  BY <1>1, TypeInvKept, PTL
-----------------------------------------------------------------------------
(* The host's own name is never blocked.                                   *)
HostIsNeverKicked == Host \notin kicked

RoomInv == RoomIsSound /\ HostIsNeverKicked

(* What a kick rests on is kept: nobody kicks the host. *)
LEMMA RoomInvKept == Spec => []RoomInv
<1>1. Init => RoomInv
  BY RoomAssumption DEF Init, RoomInv, HostIsNeverKicked, RoomIsSound, OneNameEach, BattleHasItsHost,
     KickedIsOut, KeptForTheAbsent, BotsHaveOwners, Nobody, NoBots, InBattle, Named, IsHost
<1>2. TypeInv /\ TypeInv' /\ RoomInv /\ [Next]_vars => RoomInv'
  <2> SUFFICES ASSUME TypeInv, TypeInv', RoomInv, [Next]_vars PROVE RoomInv'
    OBVIOUS
  <2> USE RoomAssumption DEF TypeInv, TypeOK, Grounded, RoomInv, HostIsNeverKicked, RoomIsSound, OneNameEach,
      BattleHasItsHost, KickedIsOut, KeptForTheAbsent, BotsHaveOwners, InBattle, Named, IsHost, Members
  <2>1. CASE UNCHANGED vars
    BY <2>1 DEF vars, seatVars
  <2>2. ASSUME NEW p \in Peer, Accept(p) PROVE RoomInv'
    BY <2>2 DEF Accept, seatVars
  <2>3. ASSUME NEW p \in Peer, NEW n \in Name, Login(p, n) PROVE RoomInv'
    BY <2>3 DEF Login, LoggedIn, seatVars
  <2>4. ASSUME NEW p \in Peer, LeaveBattle(p) PROVE RoomInv'
    BY <2>4 DEF LeaveBattle, OutOfBattle, NoBots, Nobody
  <2>5. ASSUME NEW p \in Peer, Gone(p) PROVE RoomInv'
    BY <2>5 DEF Gone, Forgotten, OutOfBattle, NoBots, Nobody
  <2>6. ASSUME NEW p \in Peer, OpenBattle(p) PROVE RoomInv'
    <3>1. /\ name[p] = Host /\ battle = 0 /\ battle' # 0
          /\ member' = [member EXCEPT ![p] = Watching] /\ Watching # NoSeat
          /\ UNCHANGED <<closing, name, waiting, bots, kicked, kept>>
      <4>1. Watching \in Seat
        BY DEF Watching, Seat, Team
      <4>. QED  BY <2>6, <4>1 DEF OpenBattle
    <3>2. \A q \in Peer : ~InBattle(q) /\ waiting[q] = 0
      BY <3>1
    <3>3. BattleHasItsHost' /\ KickedIsOut'
      BY <3>1, <3>2
    <3>4. KeptForTheAbsent'
      BY <3>1
    <3>5. OneNameEach' /\ BotsHaveOwners' /\ HostIsNeverKicked'
      BY <3>1, <3>2
    <3>. QED  BY <3>3, <3>4, <3>5
  <2>7. ASSUME NEW p \in Peer, Join(p) PROVE RoomInv'
    <3>1. CASE Admit(p) /\ UNCHANGED waiting
      BY <2>7, <3>1 DEF Join, Admit
    <3>2. CASE UNCHANGED <<member, kept, asked>> /\ waiting' = [waiting EXCEPT ![p] = @ + 1]
      BY <2>7, <3>2 DEF Join
    <3>. QED  BY <2>7, <3>1, <3>2 DEF Join
  <2>8. ASSUME NEW p \in Peer, Approve(p) PROVE RoomInv'
    <3>1. /\ member' = [member EXCEPT ![p] = SeatFor(p)] /\ SeatFor(p) # NoSeat
          /\ kept' = [kept EXCEPT ![name[p]] = NoSeat]
          /\ waiting[p] > 0 /\ waiting' = [waiting EXCEPT ![p] = @ - 1]
          /\ UNCHANGED <<closing, name, battle, bots, kicked>>
      BY <2>8, SeatForIsASeat DEF Approve, Answered, Admit
    <3>2. Named(p) /\ battle # 0 /\ name[p] \notin kicked
      BY <3>1
    <3>3. BattleHasItsHost' /\ KickedIsOut'
      BY <3>1, <3>2
    <3>4. KeptForTheAbsent'
      BY <3>1, <3>2
    <3>5. OneNameEach' /\ BotsHaveOwners' /\ HostIsNeverKicked'
      BY <3>1, <3>2
    <3>. QED  BY <3>3, <3>4, <3>5
  <2>9. ASSUME NEW p \in Peer, Refuse(p) PROVE RoomInv'
    BY <2>9 DEF Refuse, Answered
  <2>10. ASSUME NEW p \in Peer, NEW up \in BOOLEAN, HostStatus(p, up) PROVE RoomInv'
    BY <2>10 DEF HostStatus, seatVars
  <2>11. ASSUME NEW p \in Peer, NEW seat \in Seat, MyBattleStatus(p, seat) PROVE RoomInv'
    BY <2>11 DEF MyBattleStatus, Reseated
  <2>12. ASSUME NEW p \in Peer, NEW seat \in Seat, ForceSeat(p, seat) PROVE RoomInv'
    BY <2>12 DEF ForceSeat, Reseated
  <2>13. ASSUME NEW p \in Peer, NEW b \in Bot, RemoveBot(p, b) PROVE RoomInv'
    BY <2>13 DEF RemoveBot, BotsAre
  <2>14. ASSUME NEW p \in Peer, NEW b \in Bot, NEW team \in Team, AddBot(p, b, team) PROVE RoomInv'
    BY <2>14 DEF AddBot, BotsAre, Bots
  <2>15. ASSUME NEW p \in Peer, NEW b \in Bot, NEW team \in Team, UpdateBot(p, b, team)
         PROVE  RoomInv'
    BY <2>15 DEF UpdateBot, MayChange, BotsAre, Bots
  <2>16. ASSUME NEW n \in Name, Kick(n) PROVE RoomInv'
    <3>1. CASE n \notin LoggedIn /\ UNCHANGED <<closing, asked, told, seatVars>>
      BY <2>16, <3>1 DEF Kick, LoggedIn, seatVars
    <3>2. ASSUME NEW p \in Peer, name[p] = n, OutOfBattle(p, kept), closing' = closing \cup {p}
          PROVE  RoomInv'
      BY <2>16, <3>2 DEF Kick, OutOfBattle, NoBots, Nobody
    <3>. QED  BY <2>16, <3>1, <3>2 DEF Kick
  <2>17. ASSUME NEW o \in Option, SetOption(o) PROVE RoomInv'
    BY <2>17 DEF SetOption
  <2>18. ASSUME NEW o \in Option, UnsetOption(o) PROVE RoomInv'
    BY <2>18 DEF UnsetOption
  <2>. QED  BY <2>1, <2>2, <2>3, <2>4, <2>5, <2>6, <2>7, <2>8, <2>9, <2>10, <2>11, <2>12,
               <2>13, <2>14, <2>15, <2>16, <2>17, <2>18 DEF Next
<1>. QED  BY <1>1, <1>2, TypeInvKept, PTL DEF Spec

(* The room is sound: a name is one connection, a battle lives with its    *)
(* host, a kick holds, seats are kept for the absent, bots have owners.    *)
THEOREM RoomKept == Spec => []RoomIsSound
<1>1. RoomInv => RoomIsSound
  BY DEF RoomInv
<1>. QED  BY <1>1, RoomInvKept, PTL
-----------------------------------------------------------------------------
(* A kept seat goes back to its owner or with the battle, and a connection *)
(* that ends in the battle leaves its seat kept.                           *)
THEOREM SeatsGoHome == Spec => KeptSeatsGoHome
<1>. DEFINE GoesHome ==
       /\ \A n \in Name : kept[n] # NoSeat /\ kept'[n] # kept[n] =>
            \/ battle' = 0
            \/ \E p \in Peer : name[p] = n /\ member'[p] = kept[n]
       /\ \A p \in Members : p \notin known' =>
            battle' = 0 \/ kept'[name[p]] = member[p]
<1>1. TypeInv /\ RoomInv /\ [Next]_vars => [GoesHome]_vars
  <2> SUFFICES ASSUME TypeInv, RoomInv, Next PROVE GoesHome
    OBVIOUS
  <2> USE DEF TypeInv, TypeOK, Grounded, InBattle, Named, Members
  <2>1. ASSUME UNCHANGED <<known, kept>> PROVE GoesHome
    BY <2>1
  <2>2. ASSUME NEW p \in Peer, Accept(p) PROVE GoesHome
    BY <2>2 DEF Accept, seatVars
  <2>3. ASSUME NEW p \in Peer, OutOfBattle(p, kept), UNCHANGED known PROVE GoesHome
    BY <2>3 DEF OutOfBattle
  <2>4. ASSUME NEW p \in Peer, Gone(p) PROVE GoesHome
    <3>1. /\ known' = known \ {p}
          /\ battle' = 0 \/ kept' = IF InBattle(p) THEN [kept EXCEPT ![name[p]] = member[p]] ELSE kept
      BY <2>4 DEF Gone, Forgotten, OutOfBattle
    <3>2. InBattle(p) => name[p] \in Name /\ kept[name[p]] = NoSeat
      BY DEF RoomInv, RoomIsSound, KeptForTheAbsent
    <3>. QED  BY <3>1, <3>2
  <2>5. ASSUME NEW p \in Peer, Named(p), Admit(p), UNCHANGED known PROVE GoesHome
    <3>1. /\ member' = [member EXCEPT ![p] = SeatFor(p)]
          /\ kept' = [kept EXCEPT ![name[p]] = NoSeat]
      BY <2>5 DEF Admit
    <3>2. kept[name[p]] # NoSeat => SeatFor(p) = kept[name[p]]
      BY DEF SeatFor
    <3>. QED  BY <2>5, <3>1, <3>2
  <2>6. ASSUME NEW p \in Peer, LeaveBattle(p) PROVE GoesHome
    BY <2>3, <2>6 DEF LeaveBattle
  <2>7. ASSUME NEW p \in Peer, Join(p) PROVE GoesHome
    BY <2>1, <2>5, <2>7 DEF Join
  <2>8. ASSUME NEW p \in Peer, Approve(p) PROVE GoesHome
    BY <2>5, <2>8 DEF Approve, Answered
  <2>9. ASSUME NEW n \in Name, Kick(n) PROVE GoesHome
    BY <2>1, <2>3, <2>9 DEF Kick, seatVars
  <2>10. ASSUME NEW p \in Peer,
               \/ \E n \in Name : Login(p, n)
               \/ OpenBattle(p) \/ Refuse(p)
               \/ \E up \in BOOLEAN : HostStatus(p, up)
         PROVE  GoesHome
    BY <2>1, <2>10 DEF Login, OpenBattle, Refuse, HostStatus, seatVars
  <2>11. ASSUME NEW p \in Peer, NEW seat \in Seat, MyBattleStatus(p, seat) \/ ForceSeat(p, seat)
         PROVE  GoesHome
    BY <2>1, <2>11 DEF MyBattleStatus, ForceSeat, Reseated
  <2>12. ASSUME NEW p \in Peer, NEW b \in Bot,
               RemoveBot(p, b) \/ \E team \in Team : AddBot(p, b, team) \/ UpdateBot(p, b, team)
         PROVE  GoesHome
    BY <2>1, <2>12 DEF RemoveBot, AddBot, UpdateBot, BotsAre
  <2>13. ASSUME NEW o \in Option, SetOption(o) \/ UnsetOption(o) PROVE GoesHome
    BY <2>1, <2>13 DEF SetOption, UnsetOption
  <2>. QED  BY <2>2, <2>4, <2>6, <2>7, <2>8, <2>9, <2>10, <2>11, <2>12, <2>13 DEF Next
<1>. QED  BY <1>1, TypeInvKept, RoomInvKept, PTL DEF Spec, KeptSeatsGoHome
-----------------------------------------------------------------------------
(* What a line does to a view that knows of the battle it names.           *)

\* Everything of a view but who is in the battle.
OnlyMembers(w, v) ==
  /\ w.me = v.me /\ w.ingame = v.ingame /\ w.battle = v.battle
  /\ w.bots = v.bots /\ w.options = v.options /\ w.current = v.current

\* Everything of a view but the bots.
OnlyBots(w, v) ==
  /\ w.me = v.me /\ w.ingame = v.ingame /\ w.battle = v.battle
  /\ w.members = v.members /\ w.options = v.options /\ w.current = v.current

\* Everything of a view but who is in a game.
OnlyStatus(w, v) ==
  /\ w.me = v.me /\ w.battle = v.battle /\ w.members = v.members
  /\ w.bots = v.bots /\ w.options = v.options /\ w.current = v.current

\* Everything of a view but the options.
OnlyOptions(w, v) ==
  /\ w.me = v.me /\ w.ingame = v.ingame /\ w.battle = v.battle
  /\ w.members = v.members /\ w.bots = v.bots /\ w.current = v.current

(* What a client begins with is a view. *)
LEMMA BlankIs ==
  /\ Blank \in Views /\ Nobody \in [Name -> Seat \cup {NoSeat}] /\ NoBots \in [Bot -> Bots \cup {NoBot}]
  /\ Watching \in Seat
<1>1. Watching \in Seat
  BY RoomAssumption DEF Watching, Seat, Team
<1>2. Nobody \in [Name -> Seat \cup {NoSeat}] /\ NoBots \in [Bot -> Bots \cup {NoBot}]
  BY DEF Nobody, NoBots
<1>. QED
  BY <1>1, <1>2 DEF Blank, Views

(* ADDUSER, REMOVEUSER and CLIENTSTATUS change who is seen in a game. *)
LEMMA StatusSeen ==
  ASSUME NEW v \in Views, NEW n \in Name, NEW up \in BOOLEAN
  PROVE  /\ StatusTold(v, n, up) \in Views /\ OnlyStatus(StatusTold(v, n, up), v)
         /\ StatusTold(v, n, up).ingame = IF up THEN v.ingame \cup {n} ELSE v.ingame \ {n}
         /\ UserAdded(v, n) \in Views /\ OnlyStatus(UserAdded(v, n), v)
         /\ UserAdded(v, n).ingame = v.ingame \ {n}
         /\ UserRemoved(v, n) \in Views /\ OnlyStatus(UserRemoved(v, n), v)
         /\ UserRemoved(v, n).ingame = v.ingame \ {n}
BY DEF StatusTold, UserAdded, UserRemoved, Views, OnlyStatus

(* BATTLEOPENED begins a battle with its founder in it. *)
LEMMA OpeningSeen ==
  ASSUME NEW v \in Views, NEW id \in Nat
  PROVE  LET w == BattleOpened(v, id, Host)
         IN  /\ w \in Views
             /\ w.me = v.me /\ w.ingame = v.ingame /\ w.current = v.current
             /\ w.battle = id /\ w.bots = NoBots /\ w.options = {}
             /\ w.members = [Nobody EXCEPT ![Host] = Watching]
BY BlankIs, RoomAssumption DEF BattleOpened, Views

(* BATTLECLOSED takes the battle and whoever was in it. *)
LEMMA ClosingSeen ==
  ASSUME NEW v \in Views
  PROVE  LET w == BattleClosed(v, v.battle)
         IN  /\ w \in Views
             /\ w.me = v.me /\ w.ingame = v.ingame
             /\ w.battle = 0 /\ w.bots = NoBots /\ w.options = {} /\ w.members = Nobody
             /\ w.current = IF v.current = v.battle THEN 0 ELSE v.current
BY BlankIs DEF BattleClosed, Views

(* The client's own way in changes where it is. *)
LEMMA EntrySeen ==
  ASSUME NEW v \in Views, NEW id \in Nat
  PROVE  LET w == Entered(v, id)
         IN  /\ w \in Views /\ w.current = id
             /\ w.me = v.me /\ w.ingame = v.ingame /\ w.battle = v.battle
             /\ w.members = v.members /\ w.bots = v.bots /\ w.options = v.options
BY DEF Entered, Views

(* JOINEDBATTLE seats a newcomer as a spectator and leaves a member alone. *)
LEMMA JoiningSeen ==
  ASSUME NEW v \in Views, NEW n \in Name
  PROVE  LET w == MemberJoined(v, v.battle, n)
         IN  /\ w \in Views /\ OnlyMembers(w, v)
             /\ w.members = [v.members EXCEPT ![n] = IF @ = NoSeat THEN Watching ELSE @]
BY BlankIs DEF MemberJoined, Views, OnlyMembers

(* LEFTBATTLE takes a member out, and the client too when it is its own. *)
LEMMA LeavingSeen ==
  ASSUME NEW v \in Views, NEW n \in Name
  PROVE  LET w == MemberLeft(v, v.battle, n)
         IN  /\ w \in Views
             /\ w.me = v.me /\ w.ingame = v.ingame /\ w.battle = v.battle
             /\ w.bots = v.bots /\ w.options = v.options
             /\ w.members = [v.members EXCEPT ![n] = NoSeat]
             /\ w.current = IF v.me = n /\ v.current = v.battle THEN 0 ELSE v.current
BY DEF MemberLeft, Views

(* CLIENTBATTLESTATUS seats a member, and nobody else. *)
LEMMA SeatSeen ==
  ASSUME NEW v \in Views, NEW n \in Name, NEW seat \in Seat
  PROVE  LET w == MemberSeated(v, n, seat)
         IN  /\ w \in Views /\ OnlyMembers(w, v)
             /\ w.members = [v.members EXCEPT ![n] = IF @ = NoSeat THEN NoSeat ELSE seat]
BY DEF MemberSeated, Views, OnlyMembers

(* ADDBOT adds a bot. *)
LEMMA BotSeen ==
  ASSUME NEW v \in Views, NEW b \in Bot, NEW bot \in Bots
  PROVE  LET w == BotAdded(v, v.battle, b, bot)
         IN  /\ w \in Views /\ OnlyBots(w, v)
             /\ w.bots = [v.bots EXCEPT ![b] = bot]
BY DEF BotAdded, Views, OnlyBots

(* UPDATEBOT changes a bot that is there. *)
LEMMA BotTeamSeen ==
  ASSUME NEW v \in Views, NEW b \in Bot, NEW team \in Team
  PROVE  LET w == BotUpdated(v, v.battle, b, team)
         IN  /\ w \in Views /\ OnlyBots(w, v)
             /\ w.bots = [v.bots EXCEPT ![b] = IF @ = NoBot THEN NoBot ELSE [@ EXCEPT !.team = team]]
<1>1. CASE v.bots[b] = NoBot
  BY <1>1 DEF BotUpdated, Views, OnlyBots
<1>2. CASE v.bots[b] # NoBot
  <2>1. v.bots[b] \in Bots /\ [v.bots[b] EXCEPT !.team = team] \in Bots
    BY <1>2 DEF Views, Bots
  <2>2. BotUpdated(v, v.battle, b, team) = [v EXCEPT !.bots[b].team = team]
    BY <1>2 DEF BotUpdated
  <2>. QED
    BY <1>2, <2>1, <2>2 DEF Views, OnlyBots
<1>. QED
  BY <1>1, <1>2

(* REMOVEBOT takes bots away. *)
LEMMA BotsGoneSeen ==
  ASSUME NEW v \in Views, NEW gone \in SUBSET Bot
  PROVE  LET w == BotsRemoved(v, v.battle, gone)
         IN  /\ w \in Views /\ OnlyBots(w, v)
             /\ w.bots = [b \in Bot |-> IF b \in gone THEN NoBot ELSE v.bots[b]]
BY DEF BotsRemoved, Views, OnlyBots

(* Options are filed under the battle the client is in, or lost. *)
LEMMA OptionsSeen ==
  ASSUME NEW v \in Views, NEW set \in SUBSET Option
  PROVE  /\ OptionsSet(v, set) \in Views /\ OnlyOptions(OptionsSet(v, set), v)
         /\ OptionsSet(v, set).options = IF InKnownBattle(v) THEN v.options \cup set ELSE v.options
         /\ OptionsUnset(v, set) \in Views /\ OnlyOptions(OptionsUnset(v, set), v)
         /\ OptionsUnset(v, set).options = IF InKnownBattle(v) THEN v.options \ set ELSE v.options
BY DEF OptionsSet, OptionsUnset, Views, OnlyOptions
-----------------------------------------------------------------------------
(* Who is in the battle, by name. *)
Present == {name[q] : q \in Members}

\* A view shows nobody who is not in the battle, and no bot but as it is.
NoGhosts(v) ==
  /\ \A n \in Name : v.members[n] # NoSeat => n \in Present
  /\ \A b \in Bot : v.bots[b] \in {NoBot, bots[b]}

\* What a view shows from inside the battle.
SeesInside(v) ==
  /\ v.current = battle /\ v.bots = bots /\ options \subseteq v.options
  /\ \A n \in Present : v.members[n] # NoSeat
  /\ \A q \in Members \ asked : v.members[name[q]] = member[q]

SeesBattle(v, p) ==
  /\ v.battle = battle
  /\ NoGhosts(v)
  /\ IF InBattle(p) THEN SeesInside(v) ELSE v.current = 0

Sees(v, p) == v \in Views /\ Agrees(v, p) /\ SeesBattle(v, p)

\* Nothing is left over from a battle that is closed, or of a host who is gone.
NothingLeft == (ingame => HostIsHere) /\ (battle = 0 => options = {})

ViewInv ==
  /\ NothingLeft
  /\ \A p \in Peer : IF Named(p) THEN Sees(told[p], p) ELSE told[p] = Blank

RoomFacts == TypeInv /\ RoomInv

(* A member has a name of their own. *)
LEMMA OneMemberEach ==
  ASSUME RoomFacts, NEW p \in Members
  PROVE  /\ name[p] \in Name /\ member[p] \in Seat /\ Named(p)
         /\ \A q \in Peer : name[q] = name[p] => q = p
BY DEF RoomFacts, TypeInv, TypeOK, Grounded, RoomInv, RoomIsSound, OneNameEach, Members, InBattle, Named

\* The battle a joiner is let into is shown as it is, member by member.
LEMMA CatchingUp ==
  ASSUME RoomFacts, NEW v \in Views, v.battle = battle, battle # 0, NoGhosts(v)
  PROVE  /\ CaughtUp(v) \in Views
         /\ CaughtUp(v).me = v.me /\ CaughtUp(v).ingame = v.ingame
         /\ CaughtUp(v).battle = battle /\ CaughtUp(v).current = battle
         /\ CaughtUp(v).bots = bots /\ CaughtUp(v).options = v.options \cup options
         /\ \A q \in Members : CaughtUp(v).members[name[q]] = member[q]
         /\ \A n \in Name \ Present : CaughtUp(v).members[n] = NoSeat
<1>. USE RoomAssumption DEF RoomFacts, TypeInv, TypeOK
<1>. DEFINE e == Entered(v, battle)
            r == RosterTold(e)
            o == OptionsSet(r, options)
<1>1. /\ e \in Views /\ e.current = battle
      /\ e.me = v.me /\ e.ingame = v.ingame /\ e.battle = battle
      /\ e.members = v.members /\ e.bots = v.bots /\ e.options = v.options
  BY EntrySeen
<1>2. \A q \in Members : (CHOOSE p \in Members : name[p] = name[q]) = q
  BY OneMemberEach DEF Members
<1>3. /\ r \in Views /\ OnlyMembers(r, e)
      /\ \A q \in Members : r.members[name[q]] = member[q]
      /\ \A n \in Name \ Present : r.members[n] = NoSeat
  <2>. DEFINE roster == [n \in Name |->
                 IF \E p \in Members : name[p] = n
                 THEN member[CHOOSE p \in Members : name[p] = n] ELSE v.members[n]]
  <2>1. r = [e EXCEPT !.members = roster]
    BY <1>1 DEF RosterTold
  <2>2. \A q \in Members : roster[name[q]] = member[q]
    BY <1>2, OneMemberEach
  <2>3. \A n \in Name \ Present : roster[n] = NoSeat
    BY DEF Present, NoGhosts
  <2>4. roster \in [Name -> Seat \cup {NoSeat}]
    <3>1. ASSUME NEW n \in Name PROVE roster[n] \in Seat \cup {NoSeat}
      <4>1. CASE n \in Present
        BY <2>2, <4>1, OneMemberEach DEF Present
      <4>2. CASE n \notin Present
        BY <2>3, <4>2
      <4>. QED
        BY <4>1, <4>2
    <3>. QED
      BY <3>1
  <2>. HIDE DEF roster
  <2>5. /\ r.me = e.me /\ r.ingame = e.ingame /\ r.battle = e.battle
        /\ r.bots = e.bots /\ r.options = e.options /\ r.current = e.current /\ r.members = roster
    BY <2>1, <1>1 DEF Views
  <2>6. r \in Views
    BY <2>1, <2>4, <1>1 DEF Views
  <2>. QED
    BY <2>2, <2>3, <2>5, <2>6 DEF OnlyMembers
<1>4. /\ o \in Views /\ OnlyOptions(o, r) /\ o.options = v.options \cup options
  <2>1. InKnownBattle(r)
    BY <1>1, <1>3 DEF OnlyMembers, InKnownBattle
  <2>2. r.options = v.options
    BY <1>1, <1>3 DEF OnlyMembers
  <2>3. options \in SUBSET Option /\ r \in Views
    BY <1>3
  <2>. HIDE DEF r
  <2>. QED
    BY <2>1, <2>2, <2>3, OptionsSeen
<1>5. /\ CaughtUp(v) \in Views /\ OnlyBots(CaughtUp(v), o) /\ CaughtUp(v).bots = bots
  <2>. DEFINE said == [b \in Bot |-> IF bots[b] # NoBot THEN bots[b] ELSE v.bots[b]]
  <2>1. said = bots
    BY DEF NoGhosts
  <2>2. o.battle = battle /\ o.bots = v.bots
    BY <1>1, <1>3, <1>4 DEF OnlyMembers, OnlyOptions
  <2>3. CaughtUp(v) = [o EXCEPT !.bots = said]
    BY <2>2 DEF CaughtUp, BotsTold
  <2>4. CaughtUp(v) = [o EXCEPT !.bots = bots]
    BY <2>1, <2>3
  <2>. QED
    BY <1>4, <2>4 DEF Views, OnlyBots
<1>. QED
  BY <1>1, <1>3, <1>4, <1>5 DEF OnlyMembers, OnlyBots, OnlyOptions
-----------------------------------------------------------------------------
\* A view stays right while neither it nor the room changes.
LEMMA SameRoomSeen ==
  ASSUME NEW v \in Views, NEW w \in Views, NEW q \in Peer, SeesBattle(v, q), OnlyStatus(w, v),
         UNCHANGED <<name, member, asked, battle, bots, options>>
  PROVE  SeesBattle(w, q)'
BY DEF SeesBattle, OnlyStatus, NoGhosts, SeesInside, Present, Members, InBattle

\* Somebody let in is seen by everybody, themselves included.
LEMMA AdmissionSeen ==
  ASSUME RoomFacts, TypeOK', ViewInv, NEW p \in Peer, Named(p), battle # 0, Admit(p),
         UNCHANGED <<name, ingame, battle, bots, options>>
  PROVE  ViewInv'
<1>. USE DEF Named
<1>. DEFINE seat == SeatFor(p)
            before(q) == IF q = p THEN CaughtUp(told[q]) ELSE told[q]
            after(q) == IF SeatIsSaid(p)
                        THEN MemberSeated(MemberJoined(before(q), battle, name[p]), name[p], seat)
                        ELSE MemberJoined(before(q), battle, name[p])
<1>1. seat \in Seat /\ name[p] \in Name /\ NoSeat \notin Seat /\ Watching \in Seat
  BY SeatForIsASeat, BlankIs, RoomAssumption DEF RoomFacts
<1>2. /\ member' = [member EXCEPT ![p] = seat] /\ member \in [Peer -> Seat \cup {NoSeat}]
      /\ asked' = IF SeatIsSaid(p) THEN asked ELSE asked \cup {p}
  BY DEF Admit, RoomFacts, TypeInv, TypeOK
<1>3. Members' = Members \cup {p} /\ Present' = Present \cup {name[p]}
  BY <1>1, <1>2 DEF Members, InBattle, Present
<1>4. \A q \in Peer : told'[q] = IF Named(q) THEN after(q) ELSE Blank
  BY DEF Admit, Except
<1>5. ASSUME NEW q \in Peer, Named(q) PROVE Sees(told[q], q)
  BY <1>5 DEF ViewInv
<1>6. \A q \in Peer : q # p => name[q] # name[p]
  BY DEF RoomFacts, RoomInv, RoomIsSound, OneNameEach
<1>7. ASSUME NEW q \in Peer, Named(q), NEW x, x = after(q) PROVE Sees(x, q)'
  <2>. DEFINE v == told[q]
              w == before(q)
              j == MemberJoined(w, battle, name[p])
  <2>1. /\ v \in Views /\ v.me = name[q] /\ v.ingame = IF ingame THEN {Host} ELSE {}
        /\ v.battle = battle /\ NoGhosts(v)
        /\ IF InBattle(q) THEN SeesInside(v) ELSE v.current = 0
    BY <1>5, <1>7 DEF Sees, SeesBattle, Agrees
  <2>2. /\ w \in Views /\ w.me = name[q] /\ w.ingame = IF ingame THEN {Host} ELSE {}
        /\ w.battle = battle /\ NoGhosts(w)
        /\ IF q = p \/ InBattle(q) THEN SeesInside(w) ELSE w.current = 0
    <3>1. CASE q = p
      <4>1. /\ w \in Views /\ w.me = v.me /\ w.ingame = v.ingame
            /\ w.battle = battle /\ w.current = battle
            /\ w.bots = bots /\ w.options = v.options \cup options
            /\ \A r \in Members : w.members[name[r]] = member[r]
            /\ \A n \in Name \ Present : w.members[n] = NoSeat
        BY <2>1, <3>1, CatchingUp
      <4>2. \A r \in Members : member[r] \in Seat /\ name[r] \in Name
        BY OneMemberEach
      <4>3. SeesInside(w)
        BY <1>1, <4>1, <4>2 DEF SeesInside, Present
      <4>4. NoGhosts(w)
        BY <4>1 DEF NoGhosts
      <4>. QED
        BY <2>1, <3>1, <4>1, <4>3, <4>4
    <3>2. CASE q # p
      BY <2>1, <3>2
    <3>. QED
      BY <3>1, <3>2
  <2>. HIDE DEF before, seat
  <2>3. /\ j \in Views /\ OnlyMembers(j, w)
        /\ j.members = [w.members EXCEPT ![name[p]] = IF @ = NoSeat THEN Watching ELSE @]
    BY <1>1, <2>2, JoiningSeen
  <2>4. /\ x \in Views /\ OnlyMembers(x, w)
        /\ x.members =
             [w.members EXCEPT ![name[p]] = IF SeatIsSaid(p) THEN seat
                                            ELSE IF @ = NoSeat THEN Watching ELSE @]
    <3>0. x = IF SeatIsSaid(p) THEN MemberSeated(j, name[p], seat) ELSE j
      BY <1>7
    <3>1. w.members \in [Name -> Seat \cup {NoSeat}]
      BY <2>2 DEF Views
    <3>2. j.members[name[p]] # NoSeat
      BY <1>1, <2>3, <3>1
    <3>3. CASE SeatIsSaid(p)
      <4>1. /\ x \in Views /\ OnlyMembers(x, j)
            /\ x.members = [j.members EXCEPT ![name[p]] = IF @ = NoSeat THEN NoSeat ELSE seat]
        BY <1>1, <2>3, <3>0, <3>3, SeatSeen
      <4>2. x.members = [w.members EXCEPT ![name[p]] = seat]
        BY <1>1, <2>3, <3>1, <3>2, <4>1
      <4>. QED
        BY <2>3, <3>3, <4>1, <4>2 DEF OnlyMembers
    <3>4. CASE ~SeatIsSaid(p)
      BY <2>3, <3>0, <3>4
    <3>. QED
      BY <3>3, <3>4
  <2>5. w.members \in [Name -> Seat \cup {NoSeat}]
    BY <2>2 DEF Views
  <2>6. NoGhosts(x)'
    BY <1>3, <2>2, <2>4, <2>5 DEF NoGhosts, OnlyMembers
  <2>7. CASE q = p \/ InBattle(q)
    <3>1. InBattle(q)'
      BY <1>3, <2>7 DEF Members, InBattle
    <3>2. \A n \in Present' : x.members[n] # NoSeat
      BY <1>1, <1>3, <2>2, <2>4, <2>5, <2>7 DEF SeesInside, Present
    <3>3. \A r \in (Members \ asked)' : x.members[name'[r]] = member'[r]
      <4>1. ASSUME NEW r \in Members', r \notin asked' PROVE x.members[name[r]] = member'[r]
        <5>1. CASE r = p
          BY <1>1, <1>2, <1>3, <2>2, <2>4, <2>5, <2>7, <4>1, <5>1 DEF SeesInside, Members, InBattle
        <5>2. CASE r # p
          <6>1. r \in Members \ asked /\ name[r] # name[p] /\ member'[r] = member[r]
            BY <1>2, <1>3, <1>6, <4>1, <5>2 DEF Members
          <6>. QED
            BY <1>1, <2>2, <2>4, <2>5, <2>7, <6>1, OneMemberEach DEF SeesInside
        <5>. QED
          BY <5>1, <5>2
      <4>. QED
        BY <4>1
    <3>4. SeesInside(x)'
      BY <2>2, <2>4, <2>7, <3>2, <3>3 DEF SeesInside, OnlyMembers
    <3>. QED
      BY <2>2, <2>4, <2>6, <3>1, <3>4 DEF Sees, SeesBattle, Agrees, OnlyMembers
  <2>8. CASE ~(q = p \/ InBattle(q))
    <3>1. ~InBattle(q)'
      BY <1>3, <2>8 DEF Members, InBattle
    <3>. QED
      BY <2>2, <2>4, <2>6, <2>8, <3>1 DEF Sees, SeesBattle, Agrees, OnlyMembers
  <2>. QED
    BY <2>7, <2>8
<1>. HIDE DEF after
<1>8. NothingLeft'
  BY DEF ViewInv, NothingLeft, HostIsHere, LoggedIn
<1>. QED
  BY <1>4, <1>7, <1>8 DEF ViewInv
-----------------------------------------------------------------------------
\* Somebody out of the battle, or the battle closed with its host, is seen by
\* everybody who keeps their name.
LEMMA LeavingTheBattleSeen ==
  ASSUME RoomFacts, NEW p \in Peer, NEW k, Named(p), OutOfBattle(p, k),
         \A r \in Peer : r # p => name'[r] = name[r],
         NEW q \in Peer, Named(q), name'[q] = name[q], Sees(told[q], q),
         NEW x, x = SeenOut(told[q], p)
  PROVE  /\ x \in Views /\ x.me = name[q] /\ x.ingame = told[q].ingame
         /\ SeesBattle(x, q)'
<1>. DEFINE v == told[q]
<1>. USE DEF Named
<1>1. /\ v \in Views /\ v.me = name[q] /\ v.battle = battle /\ NoGhosts(v)
      /\ IF InBattle(q) THEN SeesInside(v) ELSE v.current = 0
      /\ name[p] \in Name /\ NoSeat \notin Seat
  BY RoomAssumption DEF Sees, SeesBattle, Agrees, RoomFacts, TypeInv, TypeOK
<1>2. CASE ~InBattle(p)
  <2>1. x = v /\ UNCHANGED <<member, bots, battle, options>> /\ asked' = asked \ {p}
    BY <1>2 DEF SeenOut, OutOfBattle, RoomFacts, TypeInv, TypeOK, InBattle
  <2>2. Members' = Members /\ p \notin Members
    BY <1>2, <2>1 DEF Members, InBattle
  <2>3. Present' = Present
    BY <2>2 DEF Present, Members
  <2>. QED
    BY <1>1, <2>1, <2>2, <2>3 DEF SeesBattle, NoGhosts, SeesInside, InBattle, Members
<1>3. CASE InBattle(p) /\ IsHost(p)
  <2>1. /\ x = BattleClosed(v, v.battle) /\ battle' = 0 /\ bots' = NoBots /\ options' = {}
        /\ member' = [r \in Peer |-> NoSeat]
    BY <1>1, <1>3 DEF SeenOut, OutOfBattle
  <2>2. Members' = {} /\ Present' = {} /\ ~InBattle(q)'
    BY <2>1 DEF Members, InBattle, Present
  <2>3. /\ x \in Views /\ x.me = v.me /\ x.ingame = v.ingame
        /\ x.battle = 0 /\ x.bots = NoBots /\ x.members = Nobody
        /\ x.current = IF v.current = v.battle THEN 0 ELSE v.current
    BY <1>1, <2>1, ClosingSeen
  <2>4. x.current = 0
    BY <1>1, <2>3 DEF SeesInside
  <2>. QED
    BY <1>1, <2>1, <2>2, <2>3, <2>4 DEF SeesBattle, NoGhosts, Nobody, NoBots
<1>4. CASE InBattle(p) /\ ~IsHost(p)
  <2>. DEFINE n == name[p]
              gone == BotsOf(n)
              u == BotsRemoved(v, v.battle, gone)
  <2>1. /\ x = MemberLeft(u, v.battle, n)
        /\ UNCHANGED <<battle, options>> /\ asked' = asked \ {p}
        /\ member' = [member EXCEPT ![p] = NoSeat]
        /\ bots' = [b \in Bot |-> IF b \in gone THEN NoBot ELSE bots[b]]
    BY <1>1, <1>4 DEF SeenOut, OutOfBattle, BotsOf
  <2>2. gone \subseteq Bot
    BY DEF BotsOf
  <2>3. /\ u \in Views /\ OnlyBots(u, v)
        /\ u.bots = [b \in Bot |-> IF b \in gone THEN NoBot ELSE v.bots[b]]
    BY <1>1, <2>2, BotsGoneSeen
  <2>4. /\ x \in Views /\ x.me = u.me /\ x.ingame = u.ingame /\ x.battle = u.battle
        /\ x.bots = u.bots /\ x.options = u.options
        /\ x.members = [u.members EXCEPT ![n] = NoSeat]
        /\ x.current = IF u.me = n /\ u.current = u.battle THEN 0 ELSE u.current
    <3>1. x = MemberLeft(u, u.battle, n) /\ u \in Views /\ n \in Name
      BY <1>1, <2>1, <2>3 DEF OnlyBots
    <3>. HIDE DEF u, n
    <3>. QED
      BY <3>1, LeavingSeen
  <2>. HIDE DEF gone, u
  <2>5. /\ x.me = name[q] /\ x.ingame = v.ingame /\ x.battle = battle /\ x.options = v.options
        /\ x.members = [v.members EXCEPT ![n] = NoSeat]
        /\ x.bots = [b \in Bot |-> IF b \in gone THEN NoBot ELSE v.bots[b]]
        /\ x.current = IF name[q] = n /\ v.current = battle THEN 0 ELSE v.current
        /\ v.members \in [Name -> Seat \cup {NoSeat}]
    BY <1>1, <2>3, <2>4 DEF OnlyBots, Views
  <2>6. Members' = Members \ {p} /\ (\A r \in Members' : member'[r] = member[r] /\ name'[r] = name[r])
    BY <2>1 DEF Members, InBattle, RoomFacts, TypeInv, TypeOK
  <2>7. \A r \in Peer : name[r] = n => r = p
    BY <1>4, OneMemberEach DEF Members
  <2>8. Present' = Present \ {n}
    BY <1>4, <2>6, <2>7 DEF Present, Members
  <2>9. NoGhosts(x)'
    BY <1>1, <2>1, <2>5, <2>8 DEF NoGhosts
  <2>10. CASE q = p
    <3>1. ~InBattle(q)' /\ x.current = 0
      BY <1>1, <1>4, <2>5, <2>6, <2>10 DEF Members, InBattle, SeesInside
    <3>. QED
      BY <1>1, <2>1, <2>4, <2>5, <2>9, <3>1 DEF SeesBattle
  <2>11. CASE q # p /\ InBattle(q)
    <3>1. InBattle(q)' /\ x.current = battle /\ SeesInside(v)
      BY <1>1, <2>5, <2>6, <2>7, <2>11 DEF Members, InBattle, SeesInside
    <3>2. x.bots = bots'
      BY <2>1, <2>5, <3>1 DEF SeesInside
    <3>3. \A m \in Present' : x.members[m] # NoSeat
      BY <2>5, <2>8, <3>1 DEF SeesInside
    <3>4. \A r \in (Members \ asked)' : x.members[name'[r]] = member'[r]
      <4>1. \A r \in Members' \ asked' : r \in Members \ asked /\ name[r] # n /\ name[r] \in Name
        BY <2>1, <2>6, <2>7, OneMemberEach DEF Members
      <4>. QED
        BY <2>5, <2>6, <3>1, <4>1 DEF SeesInside
    <3>5. SeesInside(x)'
      BY <2>1, <2>5, <3>1, <3>2, <3>3, <3>4 DEF SeesInside
    <3>. QED
      BY <1>1, <2>1, <2>4, <2>5, <2>9, <3>1, <3>5 DEF SeesBattle
  <2>12. CASE q # p /\ ~InBattle(q)
    <3>1. ~InBattle(q)' /\ x.current = 0
      BY <1>1, <2>5, <2>6, <2>7, <2>12 DEF Members, InBattle
    <3>. QED
      BY <1>1, <2>1, <2>4, <2>5, <2>9, <3>1 DEF SeesBattle
  <2>. QED
    BY <2>10, <2>11, <2>12
<1>. QED
  BY <1>2, <1>3, <1>4

\* With a battle closes all that was said of it.
LEMMA ClosedClean ==
  ASSUME RoomFacts, NothingLeft, NEW p \in Peer, NEW k, OutOfBattle(p, k)
  PROVE  battle' = 0 => options' = {}
BY DEF OutOfBattle, NothingLeft

(* So a departure or a kick leaves every view right. *)
LEMMA LeaveSeen ==
  ASSUME RoomFacts, ViewInv, NEW p \in Peer, Named(p), OutOfBattle(p, kept),
         Everybody(LAMBDA v : SeenOut(v, p)), UNCHANGED <<name, ingame>>
  PROVE  ViewInv'
<1>1. \A q \in Peer : told'[q] = IF Named(q) THEN SeenOut(told[q], p) ELSE Blank
  BY DEF Everybody, Heard, Listeners
<1>2. ASSUME NEW q \in Peer, Named(q), NEW x, x = SeenOut(told[q], p) PROVE Sees(x, q)'
  <2>1. Sees(told[q], q)
    BY <1>2 DEF ViewInv
  <2>2. /\ x \in Views /\ x.me = name[q] /\ x.ingame = told[q].ingame
        /\ SeesBattle(x, q)'
    BY <1>2, <2>1, LeavingTheBattleSeen
  <2>. QED
    BY <2>1, <2>2 DEF Sees, Agrees, SeesBattle
<1>3. NothingLeft'
  BY ClosedClean DEF ViewInv, NothingLeft, HostIsHere, LoggedIn
<1>. QED
  BY <1>1, <1>2, <1>3 DEF ViewInv, Named

(* So does the end of a connection, whose name goes with it. *)
LEMMA GoneSeen ==
  ASSUME RoomFacts, ViewInv, NEW p \in Peer, Gone(p)
  PROVE  ViewInv'
<1>. USE RoomAssumption DEF Named
<1>0. /\ name' = [name EXCEPT ![p] = NoName] /\ name \in [Peer -> Name \cup {NoName}]
      /\ ingame' = (ingame /\ ~IsHost(p)) /\ ingame \in BOOLEAN
  BY DEF Gone, Forgotten, RoomFacts, TypeInv, TypeOK
<1>1. \A q \in Peer : told'[q] = IF Named(q) /\ q # p
                                 THEN IF Named(p) THEN UserRemoved(SeenOut(told[q], p), name[p]) ELSE told[q]
                                 ELSE Blank
  BY DEF Gone, Forgotten, Heard, Listeners
<1>2. PICK k : OutOfBattle(p, k)
  BY DEF Gone, Forgotten
<1>3. ASSUME NEW q \in Peer, Named(q), q # p,
             NEW x, x = IF Named(p) THEN UserRemoved(SeenOut(told[q], p), name[p]) ELSE told[q]
      PROVE  Sees(x, q)'
  <2>1. Sees(told[q], q) /\ name'[q] = name[q] /\ \A r \in Peer : r # p => name'[r] = name[r]
    BY <1>0, <1>3 DEF ViewInv
  <2>2. CASE Named(p)
    <3>1. PICK y : y = SeenOut(told[q], p)
      OBVIOUS
    <3>2. y \in Views /\ y.me = name[q] /\ y.ingame = told[q].ingame /\ SeesBattle(y, q)'
      BY <1>2, <1>3, <2>1, <2>2, <3>1, LeavingTheBattleSeen
    <3>3. name[p] \in Name
      BY <1>0, <2>2
    <3>4. x \in Views /\ OnlyStatus(x, y) /\ x.ingame = y.ingame \ {name[p]}
      BY <1>3, <2>2, <3>1, <3>2, <3>3, StatusSeen
    <3>5. SeesBattle(x, q)'
      BY <3>2, <3>4 DEF OnlyStatus, SeesBattle, NoGhosts, SeesInside
    <3>6. x.ingame = IF ingame' THEN {Host} ELSE {}
      BY <1>0, <2>1, <3>2, <3>4 DEF Sees, Agrees, IsHost
    <3>. QED
      BY <2>1, <3>2, <3>4, <3>5, <3>6 DEF Sees, Agrees, OnlyStatus, SeesBattle
  <2>3. CASE ~Named(p)
    <3>1. ~InBattle(p) /\ waiting[p] = 0 /\ ~IsHost(p)
      BY <1>0, <2>3 DEF RoomFacts, TypeInv, TypeOK, Grounded, IsHost
    <3>2. x = told[q] /\ ingame' = ingame
      BY <1>0, <1>3, <2>3, <3>1
    <3>3. UNCHANGED <<member, bots, battle, options>> /\ asked' = asked \ {p}
      BY <1>2, <3>1 DEF OutOfBattle, RoomFacts, TypeInv, TypeOK, InBattle
    <3>4. Members' = Members /\ p \notin Members /\ name' = name
      BY <1>0, <2>3, <3>1, <3>3 DEF Members, InBattle
    <3>5. Present' = Present
      BY <3>4 DEF Present
    <3>6. SeesBattle(x, q)'
      BY <2>1, <3>2, <3>3, <3>4, <3>5 DEF Sees, SeesBattle, NoGhosts, SeesInside, InBattle, Members
    <3>. QED
      BY <2>1, <3>2, <3>3, <3>4, <3>6 DEF Sees, Agrees
  <2>. QED
    BY <2>2, <2>3
<1>4. NothingLeft'
  <2>1. ingame' => HostIsHere'
    BY <1>0 DEF ViewInv, NothingLeft, HostIsHere, LoggedIn, IsHost
  <2>. QED
    BY <1>2, <2>1, ClosedClean DEF ViewInv, NothingLeft
<1>. QED
  BY <1>0, <1>1, <1>3, <1>4 DEF ViewInv

\* A handler that changes neither the battle nor a view.
LEMMA SameRoomAndViews ==
  ASSUME ViewInv, UNCHANGED <<name, told, asked, ingame, member, battle, bots, options>>
  PROVE  ViewInv'
<1>1. NothingLeft'
  BY DEF ViewInv, NothingLeft, HostIsHere, LoggedIn
<1>2. ASSUME NEW q \in Peer, Named(q), NEW x, x = told[q] PROVE Sees(x, q)'
  <2>1. Sees(x, q)
    BY <1>2 DEF ViewInv
  <2>. QED
    BY <2>1 DEF Sees, Agrees, SeesBattle, NoGhosts, SeesInside, Present, Members, InBattle
<1>. QED
  BY <1>1, <1>2 DEF ViewInv, Named

(* A newcomer is told which battle there is and that its founder is in it. *)
LEMMA LoginSeen ==
  ASSUME RoomFacts, ViewInv, NEW p \in Peer, NEW n \in Name, Login(p, n)
  PROVE  ViewInv'
<1>. USE RoomAssumption DEF Named
<1>1. CASE UNCHANGED <<name, told>>
  <2>1. UNCHANGED <<name, told, asked, ingame, member, battle, bots, options>>
    BY <1>1 DEF Login, seatVars
  <2>. QED
    BY <2>1, SameRoomAndViews
<1>2. CASE ~(UNCHANGED <<name, told>>)
  <2>1. /\ ~Named(p) /\ n \notin LoggedIn /\ name' = [name EXCEPT ![p] = n]
        /\ name \in [Peer -> Name \cup {NoName}]
        /\ UNCHANGED <<asked, ingame, member, battle, bots, options>>
    BY <1>2 DEF Login, seatVars, RoomFacts, TypeInv, TypeOK
  <2>2. \A q \in Peer : told'[q] = IF q = p THEN Welcomed(told[q], n)
                                   ELSE IF Named(q) THEN UserAdded(told[q], n) ELSE Blank
    BY <1>2 DEF Login, Except
  <2>3. ~InBattle(p) /\ told[p] = Blank
    BY <2>1 DEF RoomFacts, TypeInv, Grounded, ViewInv
  <2>4. Members' = Members /\ p \notin Members /\ \A r \in Members : name'[r] = name[r]
    BY <2>1, <2>3 DEF Members, InBattle
  <2>5. Present' = Present
    BY <2>4 DEF Present
  <2>6. ASSUME NEW x, x = Welcomed(told[p], n) PROVE Sees(x, p)'
    <3>. DEFINE g == [Blank EXCEPT !.me = n, !.ingame = IF ingame THEN {Host} ELSE {}]
    <3>1. /\ g \in Views /\ g.me = n /\ g.ingame = IF ingame THEN {Host} ELSE {}
          /\ g.battle = 0 /\ g.members = Nobody /\ g.bots = NoBots /\ g.options = {} /\ g.current = 0
      BY BlankIs DEF Blank, Views
    <3>2. x = IF battle = 0 THEN g ELSE BattleOpened(g, battle, Host)
      BY <2>3, <2>6 DEF Welcomed
    <3>. HIDE DEF g
    <3>3. ~InBattle(p)' /\ name'[p] = n
      BY <2>1, <2>3 DEF InBattle
    <3>4. CASE battle = 0
      BY <2>1, <3>1, <3>2, <3>3, <3>4 DEF Sees, Agrees, SeesBattle, NoGhosts, Nobody, NoBots
    <3>5. CASE battle # 0
      <4>1. /\ x \in Views /\ x.me = n /\ x.ingame = g.ingame /\ x.current = 0
            /\ x.battle = battle /\ x.bots = NoBots /\ x.options = {}
            /\ x.members = [Nobody EXCEPT ![Host] = Watching]
        BY <3>1, <3>2, <3>5, OpeningSeen DEF RoomFacts, TypeInv, TypeOK
      <4>2. Host \in Present
        BY <3>5 DEF RoomFacts, RoomInv, RoomIsSound, BattleHasItsHost, IsHost, Present, Members
      <4>. QED
        BY <2>1, <2>5, <3>1, <3>3, <4>1, <4>2 DEF Sees, Agrees, SeesBattle, NoGhosts, Nobody, NoBots
    <3>. QED
      BY <3>4, <3>5
  <2>7. ASSUME NEW q \in Peer, q # p, Named(q), NEW x, x = UserAdded(told[q], n) PROVE Sees(x, q)'
    <3>1. Sees(told[q], q) /\ name'[q] = name[q]
      BY <2>1, <2>7 DEF ViewInv
    <3>2. x \in Views /\ OnlyStatus(x, told[q]) /\ x.ingame = told[q].ingame \ {n}
      BY <2>7, <3>1, StatusSeen DEF Sees
    <3>3. x.ingame = IF ingame THEN {Host} ELSE {}
      BY <2>1, <3>1, <3>2 DEF Sees, Agrees, ViewInv, NothingLeft, HostIsHere
    <3>4. SeesBattle(x, q)'
      BY <2>1, <2>4, <2>5, <3>1, <3>2 DEF Sees, SeesBattle, OnlyStatus, NoGhosts, SeesInside, InBattle, Members
    <3>. QED
      BY <2>1, <3>1, <3>2, <3>3, <3>4 DEF Sees, Agrees, OnlyStatus
  <2>8. NothingLeft'
    BY <2>1 DEF ViewInv, NothingLeft, HostIsHere, LoggedIn
  <2>. QED
    BY <2>1, <2>2, <2>6, <2>7, <2>8 DEF ViewInv
<1>. QED
  BY <1>1, <1>2

(* A battle just opened holds its founder and nothing of the one before. *)
LEMMA OpenSeen ==
  ASSUME RoomFacts, ViewInv, NEW p \in Peer, OpenBattle(p)
  PROVE  ViewInv'
<1>. USE RoomAssumption DEF Named
<1>1. /\ name[p] = Host /\ battle = 0 /\ battle' \in Nat \ {0}
      /\ member' = [member EXCEPT ![p] = Watching] /\ Watching \in Seat
      /\ member \in [Peer -> Seat \cup {NoSeat}] /\ asked' = asked \cup {p}
      /\ UNCHANGED <<name, ingame, bots, options>>
  BY BlankIs DEF OpenBattle, IsHost, RoomFacts, TypeInv, TypeOK
<1>2. Members = {} /\ bots = NoBots /\ options = {}
  BY <1>1 DEF RoomFacts, RoomInv, RoomIsSound, BattleHasItsHost, BotsHaveOwners, Members, InBattle,
              ViewInv, NothingLeft, TypeInv, TypeOK, NoBots
<1>3. Members' = {p}
  BY <1>1, <1>2 DEF Members, InBattle
<1>4. Present' = {Host}
  BY <1>1, <1>3 DEF Present
<1>5. \A q \in Peer : told'[q] = IF q = p THEN Entered(BattleOpened(told[q], battle', Host), battle')
                                 ELSE IF Named(q) THEN BattleOpened(told[q], battle', Host) ELSE Blank
  BY DEF OpenBattle, Except
<1>6. ASSUME NEW q \in Peer, Named(q), NEW id \in Nat, id = battle',
             NEW x, x = IF q = p THEN Entered(BattleOpened(told[q], id, Host), id)
                        ELSE BattleOpened(told[q], id, Host)
      PROVE  Sees(x, q)'
  <2>. DEFINE v == told[q]
              o == BattleOpened(v, id, Host)
  <2>1. v \in Views /\ v.me = name[q] /\ (v.ingame = IF ingame THEN {Host} ELSE {}) /\ v.current = 0
    BY <1>2, <1>6 DEF ViewInv, Sees, Agrees, SeesBattle, Members
  <2>2. /\ o \in Views /\ o.me = v.me /\ o.ingame = v.ingame /\ o.current = v.current
        /\ o.battle = id /\ o.bots = NoBots /\ o.options = {}
        /\ o.members = [Nobody EXCEPT ![Host] = Watching]
    BY <1>6, <2>1, OpeningSeen
  <2>0. x = IF q = p THEN Entered(o, id) ELSE o
    BY <1>6
  <2>. HIDE DEF o
  <2>3. /\ x \in Views /\ x.me = v.me /\ x.ingame = v.ingame
        /\ x.battle = id /\ x.bots = NoBots /\ x.options = {}
        /\ x.members = [Nobody EXCEPT ![Host] = Watching]
        /\ x.current = IF q = p THEN id ELSE 0
    <3>1. CASE q = p
      <4>1. x = Entered(o, id) /\ o \in Views /\ id \in Nat
        BY <1>6, <2>0, <2>2, <3>1
      <4>2. /\ x \in Views /\ x.current = id
            /\ x.me = o.me /\ x.ingame = o.ingame /\ x.battle = o.battle
            /\ x.members = o.members /\ x.bots = o.bots /\ x.options = o.options
        BY <4>1, EntrySeen
      <4>. QED
        BY <2>2, <3>1, <4>2
    <3>2. CASE q # p
      BY <2>0, <2>1, <2>2, <3>2
    <3>. QED
      BY <3>1, <3>2
  <2>4. NoGhosts(x)'
    BY <1>1, <1>4, <2>3 DEF NoGhosts, Nobody, NoBots
  <2>5. InBattle(q)' <=> q = p
    BY <1>3, <1>6 DEF Members, InBattle
  <2>6. CASE q = p
    <3>1. \A m \in Present' : x.members[m] # NoSeat
      BY <1>1, <1>4, <2>3 DEF Nobody
    <3>2. \A r \in (Members \ asked)' : x.members[name'[r]] = member'[r]
      BY <1>1, <1>3
    <3>3. SeesInside(x)'
      BY <1>1, <1>2, <1>6, <2>3, <2>6, <3>1, <3>2 DEF SeesInside
    <3>. QED
      BY <1>1, <1>6, <2>1, <2>3, <2>4, <2>5, <2>6, <3>3 DEF Sees, Agrees, SeesBattle
  <2>7. CASE q # p
    BY <1>1, <1>6, <2>1, <2>3, <2>4, <2>5, <2>7 DEF Sees, Agrees, SeesBattle
  <2>. QED
    BY <2>6, <2>7
<1>7. NothingLeft'
  BY <1>1 DEF ViewInv, NothingLeft, HostIsHere, LoggedIn
<1>. QED
  BY <1>1, <1>5, <1>6, <1>7 DEF ViewInv

(* The host's status reaches everybody. *)
LEMMA StatusLineSeen ==
  ASSUME RoomFacts, ViewInv, NEW p \in Peer, NEW up \in BOOLEAN, HostStatus(p, up)
  PROVE  ViewInv'
<1>. USE RoomAssumption DEF Named
<1>1. /\ name[p] = Host /\ ingame' = up
      /\ UNCHANGED <<name, asked, member, battle, bots, options>>
  BY DEF HostStatus, IsHost, seatVars
<1>2. \A q \in Peer : told'[q] = IF Named(q) THEN StatusTold(told[q], Host, up) ELSE Blank
  BY DEF HostStatus, Everybody, Heard, Listeners
<1>3. ASSUME NEW q \in Peer, Named(q), NEW x, x = StatusTold(told[q], Host, up) PROVE Sees(x, q)'
  <2>1. Sees(told[q], q)
    BY <1>3 DEF ViewInv
  <2>2. x \in Views /\ OnlyStatus(x, told[q])
        /\ x.ingame = IF up THEN told[q].ingame \cup {Host} ELSE told[q].ingame \ {Host}
    BY <1>3, <2>1, StatusSeen DEF Sees
  <2>3. SeesBattle(x, q)'
    <3>1. PICK v \in Views : v = told[q]
      BY <2>1 DEF Sees
    <3>. QED
      BY <1>1, <2>1, <2>2, <3>1, SameRoomSeen DEF Sees
  <2>4. x.ingame = IF ingame' THEN {Host} ELSE {}
    BY <1>1, <2>1, <2>2 DEF Sees, Agrees
  <2>. QED
    BY <1>1, <2>1, <2>2, <2>3, <2>4 DEF Sees, Agrees, OnlyStatus
<1>4. NothingLeft'
  BY <1>1 DEF ViewInv, NothingLeft, HostIsHere, LoggedIn
<1>. QED
  BY <1>1, <1>2, <1>3, <1>4 DEF ViewInv

(* A seat taken or forced reaches everybody who knows of the member. *)
LEMMA ReseatingSeen ==
  ASSUME RoomFacts, ViewInv, NEW p \in Peer, InBattle(p), NEW seat \in Seat, Reseated(p, seat),
         asked' \in {asked, asked \ {p}}
  PROVE  ViewInv'
<1>. USE RoomAssumption DEF Named
<1>1. /\ member' = [member EXCEPT ![p] = seat] /\ member \in [Peer -> Seat \cup {NoSeat}]
      /\ UNCHANGED <<name, ingame, battle, bots, options>>
  BY DEF Reseated, RoomFacts, TypeInv, TypeOK
<1>2. \A q \in Peer : told'[q] = IF Named(q) THEN MemberSeated(told[q], name[p], seat) ELSE Blank
  BY DEF Reseated, Everybody, Heard, Listeners
<1>3. Members' = Members /\ Present' = Present /\ p \in Members
  BY <1>1 DEF Members, InBattle, Present
<1>4. ASSUME NEW q \in Peer, Named(q), NEW x, x = MemberSeated(told[q], name[p], seat)
      PROVE  Sees(x, q)'
  <2>. DEFINE v == told[q]
  <2>1. /\ v \in Views /\ Agrees(v, q) /\ NoGhosts(v) /\ v.members \in [Name -> Seat \cup {NoSeat}]
        /\ IF InBattle(q) THEN SeesInside(v) ELSE v.current = 0
    BY <1>4 DEF ViewInv, Sees, SeesBattle, Views
  <2>2. name[p] \in Name /\ \A r \in Members : r # p => name[r] # name[p] /\ name[r] \in Name
    BY <1>3, OneMemberEach DEF Members
  <2>3. /\ x \in Views /\ OnlyMembers(x, v)
        /\ x.members = [v.members EXCEPT ![name[p]] = IF @ = NoSeat THEN NoSeat ELSE seat]
    BY <1>4, <2>1, <2>2, SeatSeen
  <2>4. NoGhosts(x)'
    BY <1>1, <1>3, <2>1, <2>2, <2>3 DEF NoGhosts, OnlyMembers
  <2>5. CASE InBattle(q)
    <3>1. \A m \in Present' : x.members[m] # NoSeat
      BY <1>1, <1>3, <2>1, <2>2, <2>3, <2>5 DEF SeesInside
    <3>2. \A r \in (Members \ asked)' : x.members[name'[r]] = member'[r]
      <4>1. ASSUME NEW r \in Members, r \notin asked' PROVE x.members[name[r]] = member'[r]
        <5>1. CASE r = p
          <6>1. v.members[name[p]] # NoSeat
            BY <1>3, <2>1, <2>5 DEF SeesInside, Present
          <6>. QED
            BY <1>1, <2>1, <2>2, <2>3, <5>1, <6>1 DEF Members
        <5>2. CASE r # p
          <6>1. r \in Members \ asked /\ member'[r] = member[r]
            BY <1>1, <4>1, <5>2 DEF Members
          <6>. QED
            BY <2>1, <2>2, <2>3, <2>5, <5>2, <6>1 DEF SeesInside
        <5>. QED
          BY <5>1, <5>2
      <4>. QED
        BY <1>1, <1>3, <4>1
    <3>3. SeesInside(x)'
      BY <1>1, <2>1, <2>3, <2>5, <3>1, <3>2 DEF SeesInside, OnlyMembers
    <3>4. InBattle(q)'
      BY <1>3, <2>5 DEF Members, InBattle
    <3>. QED
      BY <1>1, <2>1, <2>3, <2>4, <3>3, <3>4 DEF Sees, Agrees, SeesBattle, OnlyMembers
  <2>6. CASE ~InBattle(q)
    <3>1. ~InBattle(q)'
      BY <1>3, <2>6 DEF Members, InBattle
    <3>. QED
      BY <1>1, <2>1, <2>3, <2>4, <2>6, <3>1 DEF Sees, Agrees, SeesBattle, OnlyMembers
  <2>. QED
    BY <2>5, <2>6
<1>5. NothingLeft'
  BY <1>1 DEF ViewInv, NothingLeft, HostIsHere, LoggedIn
<1>. QED
  BY <1>1, <1>2, <1>4, <1>5 DEF ViewInv

\* Every view's bots follow those of the room: who sees a bot sees it as it is.
LEMMA BotsFollow ==
  ASSUME UNCHANGED <<name, ingame, member, asked, battle, options>>,
         NEW q \in Peer, Sees(told[q], q), NEW x \in Views, OnlyBots(x, told[q]),
         \A b \in Bot : x.bots[b] \in {NoBot, bots'[b]},
         told[q].bots = bots => x.bots = bots'
  PROVE  Sees(x, q)'
<1>. DEFINE v == told[q]
<1>1. Agrees(x, q)'
  BY DEF Sees, Agrees, OnlyBots
<1>2. Members' = Members /\ Present' = Present /\ (InBattle(q)' <=> InBattle(q))
  BY DEF Members, InBattle, Present
<1>3. NoGhosts(x)'
  BY <1>2 DEF Sees, SeesBattle, NoGhosts, OnlyBots
<1>4. CASE InBattle(q)
  <2>1. SeesInside(x)'
    BY <1>2, <1>4 DEF Sees, SeesBattle, SeesInside, OnlyBots
  <2>. QED
    BY <1>1, <1>2, <1>3, <1>4, <2>1 DEF Sees, SeesBattle, Agrees
<1>5. CASE ~InBattle(q)
  BY <1>1, <1>2, <1>3, <1>5 DEF Sees, SeesBattle, Agrees, OnlyBots
<1>. QED
  BY <1>4, <1>5

(* A bot added is seen by everybody. *)
LEMMA AddBotSeen ==
  ASSUME RoomFacts, ViewInv, NEW p \in Peer, NEW b \in Bot, NEW team \in Team, AddBot(p, b, team)
  PROVE  ViewInv'
<1>. USE DEF Named
<1>. DEFINE bot == [owner |-> name[p], team |-> team]
<1>1. /\ bots' = [bots EXCEPT ![b] = bot] /\ bots \in [Bot -> Bots \cup {NoBot}] /\ bot \in Bots
      /\ UNCHANGED <<name, ingame, member, asked, battle, options>>
  BY OneMemberEach DEF AddBot, BotsAre, RoomFacts, TypeInv, TypeOK, Bots, Members
<1>2. \A q \in Peer : told'[q] = IF Named(q) THEN BotAdded(told[q], battle, b, bot) ELSE Blank
  BY DEF AddBot, BotsAre, Everybody, Heard, Listeners
<1>. HIDE DEF bot
<1>3. ASSUME NEW q \in Peer, Named(q), NEW x, x = BotAdded(told[q], battle, b, bot) PROVE Sees(x, q)'
  <2>1. Sees(told[q], q)
    BY <1>3 DEF ViewInv
  <2>2. /\ told[q] \in Views /\ told[q].battle = battle
        /\ told[q].bots \in [Bot -> Bots \cup {NoBot}]
        /\ \A c \in Bot : told[q].bots[c] \in {NoBot, bots[c]}
    BY <2>1 DEF Sees, Agrees, SeesBattle, NoGhosts, Views
  <2>3. x \in Views /\ OnlyBots(x, told[q]) /\ x.bots = [told[q].bots EXCEPT ![b] = bot]
    BY <1>1, <1>3, <2>2, BotSeen
  <2>4. \A c \in Bot : x.bots[c] \in {NoBot, bots'[c]}
    BY <1>1, <2>2, <2>3
  <2>. QED
    BY <1>1, <2>1, <2>3, <2>4, BotsFollow
<1>4. NothingLeft'
  BY <1>1 DEF ViewInv, NothingLeft, HostIsHere, LoggedIn
<1>. QED
  BY <1>1, <1>2, <1>3, <1>4 DEF ViewInv

(* A bot's new team is seen by whoever sees the bot. *)
LEMMA UpdateBotSeen ==
  ASSUME RoomFacts, ViewInv, NEW p \in Peer, NEW b \in Bot, NEW team \in Team, UpdateBot(p, b, team)
  PROVE  ViewInv'
<1>. USE RoomAssumption DEF Named
<1>1. /\ bots' = [bots EXCEPT ![b].team = team] /\ bots \in [Bot -> Bots \cup {NoBot}] /\ bots[b] # NoBot
      /\ UNCHANGED <<name, ingame, member, asked, battle, options>>
  BY DEF UpdateBot, MayChange, BotsAre, RoomFacts, TypeInv, TypeOK
<1>2. \A q \in Peer : told'[q] = IF Named(q) THEN BotUpdated(told[q], battle, b, team) ELSE Blank
  BY DEF UpdateBot, BotsAre, Everybody, Heard, Listeners
<1>3. bots' = [bots EXCEPT ![b] = [bots[b] EXCEPT !.team = team]]
  BY <1>1
<1>4. ASSUME NEW q \in Peer, Named(q), NEW x, x = BotUpdated(told[q], battle, b, team) PROVE Sees(x, q)'
  <2>1. Sees(told[q], q)
    BY <1>4 DEF ViewInv
  <2>2. /\ told[q] \in Views /\ told[q].battle = battle
        /\ told[q].bots \in [Bot -> Bots \cup {NoBot}]
        /\ \A c \in Bot : told[q].bots[c] \in {NoBot, bots[c]}
    BY <2>1 DEF Sees, Agrees, SeesBattle, NoGhosts, Views
  <2>3. /\ x \in Views /\ OnlyBots(x, told[q])
        /\ x.bots = [told[q].bots EXCEPT ![b] = IF @ = NoBot THEN NoBot ELSE [@ EXCEPT !.team = team]]
    BY <1>4, <2>2, BotTeamSeen
  <2>. DEFINE now == [bots[b] EXCEPT !.team = team]
  <2>4. bots' = [bots EXCEPT ![b] = now]
    BY <1>3
  <2>5. x.bots = [told[q].bots EXCEPT ![b] = IF told[q].bots[b] = NoBot THEN NoBot ELSE now]
    BY <2>2, <2>3
  <2>. HIDE DEF now
  <2>6. \A c \in Bot : x.bots[c] \in {NoBot, bots'[c]}
    BY <1>1, <2>2, <2>4, <2>5
  <2>7. told[q].bots = bots => x.bots = bots'
    BY <1>1, <2>4, <2>5
  <2>. QED
    BY <1>1, <2>1, <2>3, <2>6, <2>7, BotsFollow
<1>5. NothingLeft'
  BY <1>1 DEF ViewInv, NothingLeft, HostIsHere, LoggedIn
<1>. QED
  BY <1>1, <1>2, <1>4, <1>5 DEF ViewInv

(* A bot removed is seen by nobody. *)
LEMMA RemoveBotSeen ==
  ASSUME RoomFacts, ViewInv, NEW p \in Peer, NEW b \in Bot, RemoveBot(p, b)
  PROVE  ViewInv'
<1>. USE DEF Named
<1>1. /\ bots' = [bots EXCEPT ![b] = NoBot] /\ bots \in [Bot -> Bots \cup {NoBot}]
      /\ UNCHANGED <<name, ingame, member, asked, battle, options>>
  BY DEF RemoveBot, BotsAre, RoomFacts, TypeInv, TypeOK
<1>2. \A q \in Peer : told'[q] = IF Named(q) THEN BotsRemoved(told[q], battle, {b}) ELSE Blank
  BY DEF RemoveBot, BotsAre, Everybody, Heard, Listeners
<1>3. ASSUME NEW q \in Peer, Named(q), NEW x, x = BotsRemoved(told[q], battle, {b}) PROVE Sees(x, q)'
  <2>1. Sees(told[q], q)
    BY <1>3 DEF ViewInv
  <2>2. /\ told[q] \in Views /\ told[q].battle = battle
        /\ told[q].bots \in [Bot -> Bots \cup {NoBot}]
        /\ \A c \in Bot : told[q].bots[c] \in {NoBot, bots[c]}
    BY <2>1 DEF Sees, Agrees, SeesBattle, NoGhosts, Views
  <2>3. /\ x \in Views /\ OnlyBots(x, told[q])
        /\ x.bots = [c \in Bot |-> IF c \in {b} THEN NoBot ELSE told[q].bots[c]]
    BY <1>3, <2>2, BotsGoneSeen
  <2>4. \A c \in Bot : x.bots[c] \in {NoBot, bots'[c]}
    BY <1>1, <2>2, <2>3
  <2>5. told[q].bots = bots => x.bots = bots'
    BY <1>1, <2>3
  <2>. QED
    BY <1>1, <2>1, <2>3, <2>4, <2>5, BotsFollow
<1>4. NothingLeft'
  BY <1>1 DEF ViewInv, NothingLeft, HostIsHere, LoggedIn
<1>. QED
  BY <1>1, <1>2, <1>3, <1>4 DEF ViewInv

(* Everybody inside files an option, and drops it only when the room does. *)
LEMMA OptionSeen ==
  ASSUME RoomFacts, ViewInv, NEW o \in Option, SetOption(o) \/ UnsetOption(o)
  PROVE  ViewInv'
<1>. USE DEF Named
<1>1. /\ battle # 0 /\ options' \in {options \cup {o}, options \ {o}}
      /\ UNCHANGED <<name, ingame, member, asked, battle, bots>>
  BY DEF SetOption, UnsetOption
<1>2. \A q \in Peer : told'[q] = IF ~Named(q) THEN Blank
                                 ELSE IF SetOption(o) THEN OptionsSet(told[q], {o}) ELSE OptionsUnset(told[q], {o})
  BY DEF SetOption, UnsetOption, Everybody, Heard, Listeners
<1>3. ASSUME NEW q \in Peer, Named(q),
             NEW x, x = IF SetOption(o) THEN OptionsSet(told[q], {o}) ELSE OptionsUnset(told[q], {o})
      PROVE  Sees(x, q)'
  <2>. DEFINE v == told[q]
  <2>1. /\ v \in Views /\ Agrees(v, q) /\ NoGhosts(v) /\ v.battle = battle
        /\ IF InBattle(q) THEN SeesInside(v) ELSE v.current = 0
    BY <1>3 DEF ViewInv, Sees, SeesBattle
  <2>2. /\ x \in Views /\ OnlyOptions(x, v)
        /\ x.options = IF ~InKnownBattle(v) THEN v.options
                       ELSE IF SetOption(o) THEN v.options \cup {o} ELSE v.options \ {o}
    <3>1. {o} \in SUBSET Option
      OBVIOUS
    <3>. QED
      BY <1>3, <2>1, <3>1, OptionsSeen
  <2>3. Members' = Members /\ Present' = Present /\ (InBattle(q)' <=> InBattle(q))
    BY <1>1 DEF Members, InBattle, Present
  <2>4. Agrees(x, q)' /\ NoGhosts(x)'
    BY <1>1, <2>1, <2>2, <2>3 DEF Agrees, NoGhosts, OnlyOptions
  <2>5. CASE InBattle(q)
    <3>1. InKnownBattle(v) /\ options \subseteq v.options
      BY <1>1, <2>1, <2>5 DEF InKnownBattle, SeesInside
    <3>2. options' = IF SetOption(o) THEN options \cup {o} ELSE options \ {o}
      BY DEF SetOption, UnsetOption
    <3>3. options' \subseteq x.options
      BY <2>2, <3>1, <3>2
    <3>4. SeesInside(x)'
      BY <1>1, <2>1, <2>2, <2>3, <2>5, <3>3 DEF SeesInside, OnlyOptions
    <3>. QED
      BY <1>1, <2>1, <2>2, <2>3, <2>4, <2>5, <3>4 DEF Sees, SeesBattle, OnlyOptions
  <2>6. CASE ~InBattle(q)
    BY <1>1, <2>1, <2>2, <2>3, <2>4, <2>6 DEF Sees, SeesBattle, OnlyOptions
  <2>. QED
    BY <2>5, <2>6
<1>4. NothingLeft'
  BY <1>1 DEF ViewInv, NothingLeft, HostIsHere, LoggedIn
<1>. QED
  BY <1>1, <1>2, <1>3, <1>4 DEF ViewInv
-----------------------------------------------------------------------------
(* Views stay right whatever is done. *)
LEMMA ViewsKept == Spec => []ViewInv
<1>1. Init => ViewInv
  <2> SUFFICES ASSUME Init PROVE ViewInv
    OBVIOUS
  <2>1. \A p \in Peer : ~Named(p) /\ told[p] = Blank
    BY DEF Init, Named
  <2>. QED
    BY <2>1 DEF Init, ViewInv, NothingLeft
<1>2. TypeInv /\ TypeInv' /\ RoomInv /\ ViewInv /\ [Next]_vars => ViewInv'
  <2> SUFFICES ASSUME TypeInv, TypeInv', RoomInv, ViewInv, [Next]_vars PROVE ViewInv'
    OBVIOUS
  <2>0. RoomFacts /\ TypeOK'
    BY DEF RoomFacts, TypeInv
  <2>1. CASE UNCHANGED vars
    BY <2>1, SameRoomAndViews DEF vars, seatVars
  <2>2. ASSUME NEW p \in Peer, Accept(p) \/ Refuse(p) PROVE ViewInv'
    BY <2>2, SameRoomAndViews DEF Accept, Refuse, seatVars
  <2>3. ASSUME NEW p \in Peer, NEW n \in Name, Login(p, n) PROVE ViewInv'
    BY <2>0, <2>3, LoginSeen
  <2>4. ASSUME NEW p \in Peer, LeaveBattle(p) PROVE ViewInv'
    BY <2>0, <2>4, LeaveSeen DEF LeaveBattle
  <2>5. ASSUME NEW p \in Peer, Gone(p) PROVE ViewInv'
    BY <2>0, <2>5, GoneSeen
  <2>6. ASSUME NEW p \in Peer, OpenBattle(p) PROVE ViewInv'
    BY <2>0, <2>6, OpenSeen
  <2>7. ASSUME NEW p \in Peer, Join(p) PROVE ViewInv'
    <3>1. CASE Admit(p)
      BY <2>0, <2>7, <3>1, AdmissionSeen DEF Join
    <3>2. CASE ~Admit(p)
      BY <2>7, <3>2, SameRoomAndViews DEF Join
    <3>. QED
      BY <3>1, <3>2
  <2>8. ASSUME NEW p \in Peer, Approve(p) PROVE ViewInv'
    <3>1. Named(p) /\ battle # 0
      BY <2>8 DEF Approve, Answered, RoomInv, RoomIsSound, BattleHasItsHost
    <3>. QED
      BY <2>0, <2>8, <3>1, AdmissionSeen DEF Approve
  <2>9. ASSUME NEW p \in Peer, NEW up \in BOOLEAN, HostStatus(p, up) PROVE ViewInv'
    BY <2>0, <2>9, StatusLineSeen
  <2>10. ASSUME NEW p \in Peer, NEW seat \in Seat, MyBattleStatus(p, seat) \/ ForceSeat(p, seat)
         PROVE  ViewInv'
    <3>1. InBattle(p) /\ Reseated(p, seat) /\ asked' \in {asked, asked \ {p}}
      BY <2>10 DEF MyBattleStatus, ForceSeat
    <3>. QED
      BY <2>0, <3>1, ReseatingSeen
  <2>11. ASSUME NEW p \in Peer, NEW b \in Bot, RemoveBot(p, b) PROVE ViewInv'
    BY <2>0, <2>11, RemoveBotSeen
  <2>12. ASSUME NEW p \in Peer, NEW b \in Bot, NEW team \in Team, AddBot(p, b, team) \/ UpdateBot(p, b, team)
         PROVE  ViewInv'
    BY <2>0, <2>12, AddBotSeen, UpdateBotSeen
  <2>13. ASSUME NEW n \in Name, Kick(n) PROVE ViewInv'
    <3>1. CASE UNCHANGED <<closing, asked, told, seatVars>>
      BY <2>13, <3>1, SameRoomAndViews DEF Kick, seatVars
    <3>2. ASSUME NEW p \in Peer, name[p] = n, OutOfBattle(p, kept), Everybody(LAMBDA v : SeenOut(v, p))
          PROVE  ViewInv'
      <4>1. Named(p) /\ UNCHANGED <<name, ingame>>
        BY <2>13, <3>2, RoomAssumption DEF Kick, Named
      <4>. QED
        BY <2>0, <3>2, <4>1, LeaveSeen
    <3>. QED
      BY <2>13, <3>1, <3>2 DEF Kick
  <2>14. ASSUME NEW o \in Option, SetOption(o) \/ UnsetOption(o) PROVE ViewInv'
    BY <2>0, <2>14, OptionSeen
  <2>. QED
    BY <2>1, <2>2, <2>3, <2>4, <2>5, <2>6, <2>7, <2>8, <2>9, <2>10, <2>11, <2>12, <2>13, <2>14 DEF Next
<1>. QED
  BY <1>1, <1>2, TypeInvKept, RoomInvKept, PTL DEF Spec

(* Everybody in the battle sees who is in it, on which seat, its bots and  *)
(* its options, and everybody logged in sees which battle there is.        *)
THEOREM RoomSeen == Spec => []MembersSeeTheRoom
<1>1. TypeInv /\ RoomInv /\ ViewInv => MembersSeeTheRoom
  <2> SUFFICES ASSUME TypeInv, RoomInv, ViewInv, NEW p \in known, NEW v, v = told[p]
               PROVE  /\ Named(p) => Agrees(v, p)
                      /\ InBattle(p) =>
                           /\ v.current = battle /\ v.bots = bots /\ options \subseteq v.options
                           /\ \A n \in Name : v.members[n] # NoSeat <=> \E q \in Members : name[q] = n
                           /\ \A q \in Members \ asked : v.members[name[q]] = member[q]
    BY DEF MembersSeeTheRoom
  <2>1. p \in Peer /\ (InBattle(p) => Named(p))
    BY DEF TypeInv, TypeOK, Grounded
  <2>2. Named(p) => Sees(v, p)
    BY <2>1 DEF ViewInv
  <2>3. ASSUME InBattle(p) PROVE NoGhosts(v) /\ SeesInside(v)
    BY <2>1, <2>2, <2>3 DEF Sees, SeesBattle
  <2>4. ASSUME InBattle(p), NEW n \in Name
        PROVE  v.members[n] # NoSeat <=> \E q \in Members : name[q] = n
    BY <2>3, <2>4 DEF NoGhosts, SeesInside, Present
  <2>. QED
    BY <2>2, <2>3, <2>4 DEF Sees, SeesInside
<1>. QED
  BY <1>1, TypeInvKept, RoomInvKept, ViewsKept, PTL
=============================================================================
