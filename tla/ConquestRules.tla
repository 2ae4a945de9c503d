--------------------------- MODULE ConquestRules ---------------------------
(***************************************************************************)
(* The turn of a conquest: src/conquest/rules.ts and fog.ts.               *)
(*                                                                         *)
(* A conquest is a record: the turn, who owns each system, the incursions  *)
(* the player has been warned of, what is revealed, the captures of the    *)
(* last round and whether it is won or lost.  The rules draw from a seeded *)
(* generator; here an operator that draws gives the set of all outcomes.   *)
(* An attacker that owns anything has odds strictly between 0 and 1, and   *)
(* one that owns nothing has none.                                         *)
(***************************************************************************)
EXTENDS Naturals, SequencesExt

CONSTANTS
  Node,        \* systems
  Links,       \* pairs of neighbours, as sets of two systems
  Player,      \* the player's faction
  Enemies,     \* the other factions, in the document's order
  Peaceful,    \* those of them whose aggression is 0
  Neutral,     \* the owner of what no faction holds
  Authored,    \* the owner of each system in the document
  Capital,     \* each faction's capital
  GraceTurns   \* turns an incursion waits for an answer

EnemyFactions == {Enemies[i] : i \in 1 .. Len(Enemies)}
Faction == {Player} \cup EnemyFactions

ASSUME ConquestAssumption ==
  /\ IsFiniteSet(Node) /\ Enemies \in Seq(EnemyFactions)
  /\ Player \notin EnemyFactions /\ Neutral \notin Faction
  /\ Peaceful \subseteq EnemyFactions
  /\ \A pair \in Links : pair \subseteq Node
  /\ Authored \in [Node -> Faction \cup {Neutral}]
  /\ Capital \in [Faction -> Node] /\ \A f \in Faction : Authored[Capital[f]] = f
  /\ GraceTurns \in 1 .. 10

Incursion == [node : Node, faction : EnemyFactions, expires : Nat]
Capture == [node : Node, faction : EnemyFactions, from : Faction \cup {Neutral}]

Conquests ==
  [turn : Nat, owners : [Node -> Faction \cup {Neutral}], incursions : SUBSET Incursion,
   revealed : SUBSET Node, lastRound : SUBSET Capture, status : {"active", "won", "lost"}]

Holds(owners, f) == {n \in Node : owners[n] = f}
Around(nodes) == {n \in Node : \E m \in nodes : {m, n} \in Links}

\* expansionTargets; the player's are the legal attacks.
Reach(owners, f) == Around(Holds(owners, f)) \ Holds(owners, f)

\* FOG_RANGE jumps from the player's territory, which is two.
InSight(owners) ==
  LET near == Holds(owners, Player) \cup Around(Holds(owners, Player))
  IN  near \cup Around(near)

Revealing(c) == [c EXCEPT !.revealed = @ \cup InSight(c.owners)]

StatusOf(owners) ==
  IF owners[Capital[Player]] # Player THEN "lost"
  ELSE IF EnemyFactions # {} /\ \A f \in EnemyFactions : owners[Capital[f]] = Player
    THEN "won"
  ELSE "active"

NewConquest ==
  Revealing([turn |-> 0, owners |-> Authored, incursions |-> {}, revealed |-> {},
             lastRound |-> {}, status |-> "active"])

\* As it would be if the recap left out what an enemy took from the player.
TakenQuietly(c, f, n) ==
  [c EXCEPT !.owners[n] = f,
            !.lastRound = IF c.owners[n] = Player THEN @
                          ELSE @ \cup {[node |-> n, faction |-> f, from |-> c.owners[n]]}]

TakenBy(c, f, n) ==
  [c EXCEPT !.owners[n] = f,
            !.lastRound = @ \cup {[node |-> n, faction |-> f, from |-> c.owners[n]]}]

\* One attack resolved by the odds.
Resolved(c, f, n) == {c} \cup IF Holds(c.owners, f) = {} THEN {} ELSE {TakenBy(c, f, n)}

\* What the fights of all of these incursions can come to, one after another.
FoughtOut(c, due) ==
  LET order == SetToSeq(due)
      after[k \in 0 .. Len(order)] ==
        IF k = 0 THEN {c}
        ELSE UNION {Resolved(x, order[k].faction, order[k].node) : x \in after[k - 1]}
  IN  after[Len(order)]

\* As it would be if an incursion were due a turn late.
ExpiriesLate(c) ==
  LET due == {i \in c.incursions : c.turn > i.expires}
  IN  FoughtOut([c EXCEPT !.incursions = @ \ due], due)

\* applyExpiry: every incursion that is due is fought out and dropped.
Expiries(c) ==
  LET due == {i \in c.incursions : c.turn >= i.expires}
  IN  FoughtOut([c EXCEPT !.incursions = @ \ due], due)

\* A warning, unless one stands there already.
Warned(c, f, n) ==
  IF \E i \in c.incursions : i.node = n THEN c
  ELSE [c EXCEPT !.incursions =
          @ \cup {[node |-> n, faction |-> f, expires |-> c.turn + GraceTurns]}]

\* As it would be if the player's systems were attacked like any others.
MovesAtOnce(c, f) ==
  LET targets == {n \in Reach(c.owners, f) : f \in Peaceful => c.owners[n] = Neutral}
  IN  IF targets = {} THEN {c} ELSE UNION {Resolved(c, f, n) : n \in targets}

\* One enemy's move.  A peaceful faction's attacks on others weigh nothing.
Moves(c, f) ==
  LET targets == {n \in Reach(c.owners, f) : f \in Peaceful => c.owners[n] = Neutral}
  IN  IF targets = {} THEN {c}
      ELSE UNION {IF c.owners[n] = Player THEN {Warned(c, f, n)} ELSE Resolved(c, f, n)
                  : n \in targets}

\* enemyRound: each faction moves on what the ones before it have left.
EnemyRounds(c) ==
  LET after[k \in 0 .. Len(Enemies)] ==
        IF k = 0 THEN {c} ELSE UNION {Moves(x, Enemies[k]) : x \in after[k - 1]}
  IN  after[Len(Enemies)]

\* resolveTurn: expiry, the enemies' round, fog, status.
TurnsOf(c) ==
  IF c.status # "active" THEN {[c EXCEPT !.lastRound = {}]}
  ELSE LET moved == UNION {IF StatusOf(x.owners) = "active" THEN EnemyRounds(x) ELSE {x}
                           : x \in Expiries([c EXCEPT !.lastRound = {}])}
       IN  {[Revealing(x) EXCEPT !.status = StatusOf(x.owners)] : x \in moved}

\* applyBattleOutcome, and the turn after it.
Fought(c, n, mode, outcome) ==
  LET standing == {i \in c.incursions : i.node = n}
      taker == IF mode = "attack" /\ outcome = "victory" THEN {Player}
               ELSE IF mode = "defend" /\ outcome = "defeat" THEN {i.faction : i \in standing}
               ELSE {}
      owners == IF taker = {} THEN c.owners
                ELSE [c.owners EXCEPT ![n] = CHOOSE f \in taker : TRUE]
  IN  [c EXCEPT !.turn = @ + 1, !.owners = owners, !.status = StatusOf(owners),
                !.incursions = IF mode = "defend" THEN @ \ standing ELSE @]

AfterBattle(c, n, mode, outcome) == TurnsOf(Fought(c, n, mode, outcome))

\* advanceTurn.
HeldTurns(c) == IF c.status # "active" THEN {c} ELSE TurnsOf([c EXCEPT !.turn = @ + 1])
=============================================================================
