--------------------------- MODULE ConquestProofs ---------------------------
(***************************************************************************)
(* What holds of a conquest on any map, with any number of systems,        *)
(* factions, fights, saves and starts of the app: everything that may yet  *)
(* be shown is sound, a system of the player's falls only after a warning, *)
(* and the recap names it.  The rules come first (what their folds keep,   *)
(* then a whole turn, then a fight), the presses and saves after them.     *)
(***************************************************************************)
EXTENDS Conquest, FiniteSetTheorems, SequenceTheorems, WellFoundedInduction, TLAPS

-----------------------------------------------------------------------------
(* Folds over a bounded number of steps.                                   *)

(* A nonempty set of numbers has a lowest one.                             *)
LEMMA LeastNumber ==
  ASSUME NEW S \in SUBSET Nat, S # {}
  PROVE  \E m \in S : \A k \in S : m <= k
<1>. DEFINE R == {ss \in Nat \X Nat : ss[1] < ss[2]}
<1>1. IsWellFoundedOn(R, Nat)
  BY NatLessThanWellFounded DEF OpToRel
<1>2. \A j, k \in Nat : <<j, k>> \notin R => k <= j
  OBVIOUS
<1>. HIDE DEF R
<1>3. PICK m \in S : \A k \in S : ~(<<k, m>> \in R)
  BY <1>1, WFMin
<1>4. \A k \in S : m <= k
  BY <1>2, <1>3
<1>. QED  BY <1>4

(* What holds at the start and is kept by each step holds at the end.      *)
LEMMA FoldKeeps ==
  ASSUME NEW n \in Nat, NEW g, NEW G, g[0] \in G,
         \A k \in 1 .. n : g[k - 1] \in G => g[k] \in G
  PROVE  g[n] \in G
<1>. DEFINE Bad == {k \in 0 .. n : g[k] \notin G}
<1>. SUFFICES ASSUME Bad # {} PROVE FALSE
  OBVIOUS
<1>1. PICK m \in Bad : \A k \in Bad : m <= k
  BY LeastNumber, Bad \in SUBSET Nat
<1>2. m # 0 /\ m \in 1 .. n /\ m - 1 \in 0 .. n
  OBVIOUS
<1>3. m - 1 \notin Bad
  BY <1>1, <1>2
<1>. QED  BY <1>2, <1>3

(* g[k] is what the first k of n steps come to.                            *)
IsFold(g, n, D, start, F) ==
  g \in [0 .. n -> D] /\ g[0] = start /\ \A k \in 1 .. n : g[k] = F[k][g[k - 1]]

(* Whatever the steps are, there is such a fold: a recursive function of  *)
(* the model is therefore the one its definition asks for.                 *)
LEMMA FoldExists ==
  ASSUME NEW n \in Nat, NEW D, NEW start \in D, NEW F \in [1 .. n -> [D -> D]]
  PROVE  \E g : IsFold(g, n, D, start, F)
<1>. USE DEF IsFold
<1>. DEFINE Can == {m \in 0 .. n : \E g : IsFold(g, m, D, start, F)}
            Bad == (0 .. n) \ Can
<1>1. Bad = {}
  <2>. SUFFICES ASSUME Bad # {} PROVE FALSE
    OBVIOUS
  <2>1. PICK m \in Bad : \A k \in Bad : m <= k
    <3>. HIDE DEF Can
    <3>. QED  BY LeastNumber, Bad \in SUBSET Nat
  <2>2. m # 0
    <3>. DEFINE g == [k \in 0 .. 0 |-> start]
    <3>1. IsFold(g, 0, D, start, F)
      OBVIOUS
    <3>. QED  BY <3>1
  <2>3. m \in 1 .. n /\ m - 1 \in 0 .. n
    BY <2>2
  <2>4. m - 1 \in Can
    <3>. HIDE DEF Can
    <3>. QED  BY <2>1, <2>3
  <2>5. PICK g : IsFold(g, m - 1, D, start, F)
    BY <2>3, <2>4
  <2>. DEFINE h == [k \in 0 .. m |-> IF k = m THEN F[m][g[m - 1]] ELSE g[k]]
  <2>6. h \in [0 .. m -> D]
    <3>1. F[m] \in [D -> D] /\ g[m - 1] \in D
      BY <2>3, <2>5
    <3>2. \A k \in 0 .. m : k # m => k \in 0 .. m - 1
      BY <2>3
    <3>. QED  BY <2>5, <3>1, <3>2
  <2>7. ASSUME NEW k \in 1 .. m
        PROVE  h[k] = F[k][h[k - 1]]
    <3>1. k - 1 \in 0 .. m /\ k - 1 # m /\ h[k - 1] = g[k - 1]
      BY <2>3
    <3>2. CASE k = m
      BY <3>1, <3>2, <2>3
    <3>3. CASE k # m
      <4>1. k \in 1 .. m - 1 /\ h[k] = g[k]
        BY <3>3, <2>3
      <4>. QED  BY <3>1, <4>1, <2>5
    <3>. QED  BY <3>2, <3>3
  <2>8. h[0] = start
    BY <2>3, <2>5
  <2>. QED  BY <2>3, <2>6, <2>7, <2>8
<1>2. n \in Can
  <2>. HIDE DEF Can
  <2>. QED  BY <1>1
<1>. QED  BY <1>2

-----------------------------------------------------------------------------
(* One step of a turn.                                                     *)

(* Incursions stand on the player's systems, one on each.                  *)
Standing(c) ==
  /\ \A i \in c.incursions : c.owners[i.node] = Player
  /\ \A i, j \in c.incursions : i.node = j.node => i = j

(* What a conquest can be while its due incursions are fought out: only    *)
(* their systems change hands, and what the player loses is in the recap.  *)
FightingOut(c, due) ==
  {x \in Conquests :
     /\ x.turn = c.turn /\ x.status = c.status /\ x.incursions = c.incursions
     /\ \A n \in Node :
          x.owners[n] # c.owners[n] =>
            /\ \E i \in due : i.node = n
            /\ c.owners[n] = Player => \E e \in x.lastRound : e.node = n /\ e.from = Player}

(* What it can be while the enemies move: none of the player's systems     *)
(* falls, and each incursion stands where it may, with time to answer it.  *)
Moving(c) ==
  {x \in Conquests :
     /\ x.turn = c.turn /\ x.status = c.status /\ c.lastRound \subseteq x.lastRound
     /\ \A n \in Node : c.owners[n] = Player => x.owners[n] = Player
     /\ Standing(x) /\ \A i \in x.incursions : x.turn < i.expires}

LEMMA TakenIsTyped ==
  ASSUME NEW c \in Conquests, NEW f \in EnemyFactions, NEW n \in Node
  PROVE  /\ TakenBy(c, f, n) \in Conquests
         /\ TakenBy(c, f, n).turn = c.turn /\ TakenBy(c, f, n).status = c.status
         /\ TakenBy(c, f, n).incursions = c.incursions
         /\ TakenBy(c, f, n).owners = [c.owners EXCEPT ![n] = f]
         /\ TakenBy(c, f, n).lastRound =
              c.lastRound \cup {[node |-> n, faction |-> f, from |-> c.owners[n]]}
<1>. DEFINE owners == [c.owners EXCEPT ![n] = f]
            e == [node |-> n, faction |-> f, from |-> c.owners[n]]
<1>1. owners \in [Node -> Faction \cup {Neutral}] /\ c.owners[n] \in Faction \cup {Neutral}
  BY DEF Conquests, Faction
<1>2. e \in Capture
  BY <1>1 DEF Capture
<1>3. c.lastRound \cup {e} \in SUBSET Capture
  BY <1>2 DEF Conquests
<1>4. TakenBy(c, f, n) = [c EXCEPT !.owners = owners, !.lastRound = c.lastRound \cup {e}]
  BY DEF TakenBy, Conquests
<1>. HIDE DEF owners, e
<1>5. [c EXCEPT !.owners = owners, !.lastRound = c.lastRound \cup {e}] \in Conquests
  BY <1>1, <1>3 DEF Conquests
<1>6. /\ TakenBy(c, f, n).turn = c.turn /\ TakenBy(c, f, n).status = c.status
      /\ TakenBy(c, f, n).incursions = c.incursions
      /\ TakenBy(c, f, n).owners = owners
      /\ TakenBy(c, f, n).lastRound = c.lastRound \cup {e}
  BY <1>4 DEF Conquests
<1>. QED  BY <1>4, <1>5, <1>6 DEF owners, e

LEMMA ResolvedFightsOut ==
  ASSUME NEW c \in Conquests, NEW due \in SUBSET Incursion, NEW i \in due,
         NEW x \in FightingOut(c, due)
  PROVE  Resolved(x, i.faction, i.node) \subseteq FightingOut(c, due)
<1>. SUFFICES ASSUME NEW y \in Resolved(x, i.faction, i.node), y # x
              PROVE  y \in FightingOut(c, due)
  OBVIOUS
<1>1. x \in Conquests /\ i.faction \in EnemyFactions /\ i.node \in Node
  BY DEF FightingOut, Incursion
<1>2. y = TakenBy(x, i.faction, i.node)
  BY DEF Resolved
<1>3. /\ y \in Conquests /\ y.turn = x.turn /\ y.status = x.status
      /\ y.incursions = x.incursions
      /\ y.owners = [x.owners EXCEPT ![i.node] = i.faction]
      /\ y.lastRound =
           x.lastRound \cup
             {[node |-> i.node, faction |-> i.faction, from |-> x.owners[i.node]]}
  <2>. DEFINE f == i.faction
              n == i.node
  <2>1. f \in EnemyFactions /\ n \in Node
    BY <1>1
  <2>. HIDE DEF f, n
  <2>2. /\ TakenBy(x, f, n) \in Conquests
        /\ TakenBy(x, f, n).turn = x.turn /\ TakenBy(x, f, n).status = x.status
        /\ TakenBy(x, f, n).incursions = x.incursions
        /\ TakenBy(x, f, n).owners = [x.owners EXCEPT ![n] = f]
        /\ TakenBy(x, f, n).lastRound =
             x.lastRound \cup {[node |-> n, faction |-> f, from |-> x.owners[n]]}
    BY <1>1, <2>1, TakenIsTyped
  <2>. QED  BY <1>2, <2>2 DEF f, n
<1>4. ASSUME NEW n \in Node, y.owners[n] # c.owners[n]
      PROVE  /\ \E j \in due : j.node = n
             /\ c.owners[n] = Player => \E e \in y.lastRound : e.node = n /\ e.from = Player
  <2>1. CASE x.owners[n] # c.owners[n]
    BY <1>3, <2>1 DEF FightingOut
  <2>2. CASE x.owners[n] = c.owners[n]
    <3>1. n = i.node
      BY <1>1, <1>3, <1>4, <2>2 DEF Conquests
    <3>2. [node |-> i.node, faction |-> i.faction, from |-> x.owners[i.node]]
            \in y.lastRound
      BY <1>3
    <3>. QED  BY <2>2, <3>1, <3>2
  <2>. QED  BY <2>1, <2>2
<1>. QED  BY <1>3, <1>4 DEF FightingOut

LEMMA WarnedKeepsMoving ==
  ASSUME NEW c \in Conquests, NEW x \in Moving(c), NEW f \in EnemyFactions, NEW n \in Node,
         x.owners[n] = Player
  PROVE  Warned(x, f, n) \in Moving(c)
<1>. DEFINE y == Warned(x, f, n)
            w == [node |-> n, faction |-> f, expires |-> x.turn + GraceTurns]
<1>1. CASE \E i \in x.incursions : i.node = n
  BY <1>1 DEF Warned
<1>2. CASE ~ \E i \in x.incursions : i.node = n
  <2>1. x \in Conquests /\ x.turn \in Nat /\ GraceTurns \in Nat /\ GraceTurns > 0
    BY ConquestAssumption DEF Moving, Conquests
  <2>2. w \in Incursion
    BY <2>1 DEF Incursion
  <2>3. w.node = n /\ x.turn < w.expires
    BY <2>1
  <2>4. y = [x EXCEPT !.incursions = x.incursions \cup {w}]
    BY <1>2 DEF Warned
  <2>. HIDE DEF w
  <2>5. /\ y \in Conquests
        /\ y.turn = x.turn /\ y.status = x.status /\ y.owners = x.owners
        /\ y.lastRound = x.lastRound /\ y.incursions = x.incursions \cup {w}
    BY <2>1, <2>2, <2>4 DEF Conquests
  <2>. HIDE DEF y
  <2>6. Standing(y)
    BY <1>2, <2>3, <2>5 DEF Standing, Moving
  <2>7. \A i \in y.incursions : y.turn < i.expires
    BY <2>3, <2>5 DEF Moving
  <2>8. y \in Moving(c)
    BY <2>5, <2>6, <2>7 DEF Moving
  <2>. QED  BY <2>8 DEF y
<1>. QED  BY <1>1, <1>2

LEMMA ResolvedKeepsMoving ==
  ASSUME NEW c \in Conquests, NEW x \in Moving(c), NEW f \in EnemyFactions, NEW n \in Node,
         x.owners[n] # Player
  PROVE  Resolved(x, f, n) \subseteq Moving(c)
<1>. SUFFICES ASSUME NEW y \in Resolved(x, f, n), y # x PROVE y \in Moving(c)
  OBVIOUS
<1>1. x \in Conquests
  BY DEF Moving
<1>2. y = TakenBy(x, f, n)
  BY DEF Resolved
<1>3. /\ y \in Conquests /\ y.turn = x.turn /\ y.status = x.status
      /\ y.incursions = x.incursions /\ y.owners = [x.owners EXCEPT ![n] = f]
      /\ x.lastRound \subseteq y.lastRound
  BY <1>1, <1>2, TakenIsTyped
<1>4. \A m \in Node : x.owners[m] = Player => y.owners[m] = Player
  BY <1>1, <1>3 DEF Conquests
<1>5. \A i \in y.incursions : i.node \in Node
  BY <1>3 DEF Conquests, Incursion
<1>6. Standing(y)
  BY <1>3, <1>4, <1>5 DEF Standing, Moving
<1>. QED  BY <1>3, <1>4, <1>6 DEF Moving

LEMMA MovesKeepMoving ==
  ASSUME NEW c \in Conquests, NEW x \in Moving(c), NEW f \in EnemyFactions
  PROVE  Moves(x, f) \subseteq Moving(c)
<1>1. Reach(x.owners, f) \subseteq Node
  BY DEF Reach, Around
<1>2. ASSUME NEW n \in Reach(x.owners, f)
      PROVE  (IF x.owners[n] = Player THEN {Warned(x, f, n)} ELSE Resolved(x, f, n))
               \subseteq Moving(c)
  BY <1>1, WarnedKeepsMoving, ResolvedKeepsMoving
<1>. QED  BY <1>2 DEF Moves

(* The enemies' round: one fold over the factions.                         *)
LEMMA RoundsKeepMoving ==
  ASSUME NEW c \in Conquests, Standing(c), \A i \in c.incursions : c.turn < i.expires
  PROVE  EnemyRounds(c) \subseteq Moving(c)
<1>. DEFINE n == Len(Enemies)
            G == SUBSET Moving(c)
            after[k \in 0 .. Len(Enemies)] ==
              IF k = 0 THEN {c} ELSE UNION {Moves(x, Enemies[k]) : x \in after[k - 1]}
            F == [k \in 1 .. n |-> [cs \in G |-> UNION {Moves(x, Enemies[k]) : x \in cs}]]
<1>1. n \in Nat /\ \A k \in 1 .. n : Enemies[k] \in EnemyFactions
  BY ConquestAssumption
<1>2. {c} \in G
  BY DEF Moving
<1>3. F \in [1 .. n -> [G -> G]]
  BY <1>1, MovesKeepMoving
<1>. HIDE DEF G
<1>. DEFINE start == {c}
<1>4. PICK g : IsFold(g, n, G, start, F)
  <2>1. start \in G
    BY <1>2
  <2>. HIDE DEF F, n, start, after
  <2>. QED  BY <1>1, <2>1, <1>3, FoldExists
<1>. USE DEF IsFold
<1>5. ASSUME NEW k \in 1 .. n
      PROVE  g[k] = UNION {Moves(x, Enemies[k]) : x \in g[k - 1]}
  <2>1. k - 1 \in 0 .. n
    <3>. HIDE DEF n
    <3>. QED  BY <1>1
  <2>. QED  BY <2>1, <1>4
<1>6. g = [k \in 0 .. n |->
             IF k = 0 THEN {c} ELSE UNION {Moves(x, Enemies[k]) : x \in g[k - 1]}]
  <2>. DEFINE h == [k \in 0 .. n |->
             IF k = 0 THEN {c} ELSE UNION {Moves(x, Enemies[k]) : x \in g[k - 1]}]
  <2>1. ASSUME NEW k \in 0 .. n PROVE g[k] = h[k]
    <3>1. CASE k = 0
      BY <3>1, <1>4
    <3>2. CASE k # 0
      <4>1. k \in 1 .. n
        <5>. HIDE DEF n
        <5>. QED  BY <1>1, <3>2
      <4>. QED  BY <3>2, <4>1, <1>5
    <3>. QED  BY <3>1, <3>2
  <2>. HIDE DEF n
  <2>. QED  BY <1>4, <2>1
<1>7. after = [k \in 0 .. Len(Enemies) |->
                 IF k = 0 THEN {c} ELSE UNION {Moves(x, Enemies[k]) : x \in after[k - 1]}]
  BY <1>6
<1>8. EnemyRounds(c) = after[n]
  BY DEF EnemyRounds
<1>. HIDE DEF after
<1>9. after[0] \in G
  BY <1>1, <1>2, <1>7
<1>10. ASSUME NEW k \in 1 .. n, after[k - 1] \in G PROVE after[k] \in G
  <2>1. after[k] = UNION {Moves(x, Enemies[k]) : x \in after[k - 1]}
    <3>1. k \in 0 .. n /\ k # 0
      <4>. HIDE DEF n
      <4>. QED  BY <1>1
    <3>. QED  BY <3>1, <1>7
  <2>. QED  BY <1>1, <1>10, <2>1, MovesKeepMoving DEF G
<1>11. after[n] \in G
  <2>. HIDE DEF n
  <2>. QED  BY <1>1, <1>9, <1>10, FoldKeeps
<1>. QED  BY <1>8, <1>11 DEF G

(* A finite set put in order: every entry is a member.                     *)
LEMMA SetsHaveAnOrder ==
  ASSUME NEW S, IsFiniteSet(S)
  PROVE  /\ Len(SetToSeq(S)) \in Nat
         /\ \A k \in 1 .. Len(SetToSeq(S)) : SetToSeq(S)[k] \in S
<1>1. Cardinality(S) \in Nat /\ ExistsBijection(1 .. Cardinality(S), S)
  BY FS_CardinalityType
<1>2. PICK f \in [1 .. Cardinality(S) -> S] : IsInjective(f)
  BY <1>1 DEF ExistsBijection, Bijection, Injection
<1>3. SetToSeq(S) \in [1 .. Cardinality(S) -> S]
  BY <1>2 DEF SetToSeq
<1>4. Len(SetToSeq(S)) = Cardinality(S)
  BY <1>1, <1>3, LenProperties
<1>. QED  BY <1>1, <1>3, <1>4

(* The incursions that are due: one fold over them.                        *)
LEMMA IncursionsAreFoughtOut ==
  ASSUME NEW c \in Conquests, NEW due \in SUBSET Incursion, IsFiniteSet(due)
  PROVE  FoughtOut(c, due) \subseteq FightingOut(c, due)
<1>. DEFINE order == SetToSeq(due)
            n == Len(order)
            G == SUBSET FightingOut(c, due)
            after[k \in 0 .. Len(order)] ==
              IF k = 0 THEN {c}
              ELSE UNION {Resolved(x, order[k].faction, order[k].node) : x \in after[k - 1]}
            F == [k \in 1 .. n |-> [cs \in G |->
                    UNION {Resolved(x, order[k].faction, order[k].node) : x \in cs}]]
            start == {c}
<1>1. n \in Nat /\ \A k \in 1 .. n : order[k] \in due
  BY SetsHaveAnOrder
<1>2. start \in G
  BY DEF FightingOut
<1>3. ASSUME NEW k \in 1 .. n, NEW cs \in G
      PROVE  UNION {Resolved(x, order[k].faction, order[k].node) : x \in cs} \in G
  <2>. HIDE DEF order, n
  <2>. QED  BY <1>1, ResolvedFightsOut
<1>. HIDE DEF G, order
<1>4. F \in [1 .. n -> [G -> G]]
  BY <1>3
<1>5. PICK g : IsFold(g, n, G, start, F)
  <2>. HIDE DEF F, n, start, after
  <2>. QED  BY <1>1, <1>2, <1>4, FoldExists
<1>. USE DEF IsFold
<1>6. ASSUME NEW k \in 1 .. n
      PROVE  g[k] = UNION {Resolved(x, order[k].faction, order[k].node) : x \in g[k - 1]}
  <2>1. k - 1 \in 0 .. n
    <3>. HIDE DEF n
    <3>. QED  BY <1>1
  <2>. QED  BY <2>1, <1>5
<1>7. g = [k \in 0 .. n |->
             IF k = 0 THEN {c}
             ELSE UNION {Resolved(x, order[k].faction, order[k].node) : x \in g[k - 1]}]
  <2>. DEFINE h == [k \in 0 .. n |->
             IF k = 0 THEN {c}
             ELSE UNION {Resolved(x, order[k].faction, order[k].node) : x \in g[k - 1]}]
  <2>1. ASSUME NEW k \in 0 .. n PROVE g[k] = h[k]
    <3>1. CASE k = 0
      BY <3>1, <1>5
    <3>2. CASE k # 0
      <4>1. k \in 1 .. n
        <5>. HIDE DEF n
        <5>. QED  BY <1>1, <3>2
      <4>. QED  BY <3>2, <4>1, <1>6
    <3>. QED  BY <3>1, <3>2
  <2>. HIDE DEF n
  <2>. QED  BY <1>5, <2>1
<1>8. after = [k \in 0 .. Len(order) |->
        IF k = 0 THEN {c}
        ELSE UNION {Resolved(x, order[k].faction, order[k].node) : x \in after[k - 1]}]
  BY <1>7
<1>9. FoughtOut(c, due) = after[n]
  BY DEF FoughtOut, order
<1>. HIDE DEF after
<1>10. after[0] \in G
  BY <1>1, <1>2, <1>8
<1>11. ASSUME NEW k \in 1 .. n, after[k - 1] \in G PROVE after[k] \in G
  <2>1. after[k] = UNION {Resolved(x, order[k].faction, order[k].node) : x \in after[k - 1]}
    <3>1. k \in 0 .. n /\ k # 0
      <4>. HIDE DEF n
      <4>. QED  BY <1>1
    <3>. QED  BY <3>1, <1>8
  <2>. QED  BY <1>3, <1>11, <2>1
<1>12. after[n] \in G
  <2>. HIDE DEF n
  <2>. QED  BY <1>1, <1>10, <1>11, FoldKeeps
<1>. QED  BY <1>9, <1>12 DEF G

-----------------------------------------------------------------------------
(* A whole turn.                                                           *)

(* With one to a system, there are only so many incursions.                *)
LEMMA OneEachIsFinite ==
  ASSUME NEW c \in Conquests, Standing(c)
  PROVE  IsFiniteSet(c.incursions)
<1>. DEFINE f == [i \in c.incursions |-> i.node]
<1>1. f \in [c.incursions -> Node]
  BY DEF Conquests, Incursion
<1>2. f \in Injection(c.incursions, Node)
  BY <1>1 DEF Injection, IsInjective, Standing
<1>. HIDE DEF f
<1>. QED  BY <1>2, ConquestAssumption, FS_Injection

(* The end of a turn: what is in sight is revealed, and the status is that *)
(* of the systems as they are.                                             *)
Settled(x) == [Revealing(x) EXCEPT !.status = StatusOf(x.owners)]

LEMMA SettledFields ==
  ASSUME NEW x \in Conquests
  PROVE  /\ Settled(x) \in Conquests
         /\ Settled(x).turn = x.turn /\ Settled(x).owners = x.owners
         /\ Settled(x).incursions = x.incursions /\ Settled(x).lastRound = x.lastRound
         /\ Settled(x).revealed = x.revealed \cup InSight(x.owners)
         /\ Settled(x).status = StatusOf(x.owners)
<1>. DEFINE sight == InSight(x.owners)
            status == StatusOf(x.owners)
<1>1. sight \subseteq Node
  BY DEF InSight, Holds, Around
<1>2. status \in {"active", "won", "lost"}
  BY DEF StatusOf
<1>3. Settled(x) = [x EXCEPT !.revealed = x.revealed \cup sight, !.status = status]
  BY DEF Settled, Revealing, Conquests
<1>. HIDE DEF sight, status
<1>4. Settled(x) \in Conquests
  BY <1>1, <1>2, <1>3 DEF Conquests
<1>5. /\ Settled(x).turn = x.turn /\ Settled(x).owners = x.owners
      /\ Settled(x).incursions = x.incursions /\ Settled(x).lastRound = x.lastRound
      /\ Settled(x).revealed = x.revealed \cup sight /\ Settled(x).status = status
  BY <1>3 DEF Conquests
<1>. QED  BY <1>4, <1>5 DEF sight, status

(* Expiry: what is left stands where it may and is not due.                *)
LEMMA ExpiriesLeaveStanding ==
  ASSUME NEW c \in Conquests, Standing(c), NEW x \in Expiries(c)
  PROVE  /\ x \in Conquests /\ x \in Moving(x)
         /\ \A n \in Node : c.owners[n] = Player /\ x.owners[n] # Player =>
              /\ \E i \in c.incursions : i.node = n
              /\ \E e \in x.lastRound : e.node = n /\ e.from = Player
<1>. DEFINE due == {i \in c.incursions : c.turn >= i.expires}
            left == [c EXCEPT !.incursions = @ \ due]
<1>1. due \subseteq c.incursions /\ due \in SUBSET Incursion /\ IsFiniteSet(due)
  BY OneEachIsFinite, FS_Subset DEF Conquests
<1>2. \A i \in c.incursions \ due : c.turn < i.expires
  BY DEF Conquests, Incursion
<1>3. x \in FoughtOut(left, due)
  BY DEF Expiries
<1>. HIDE DEF due
<1>4. /\ left \in Conquests /\ left.turn = c.turn /\ left.owners = c.owners
      /\ left.incursions = c.incursions \ due
  BY DEF Conquests
<1>. HIDE DEF left
<1>5. x \in FightingOut(left, due)
  BY <1>1, <1>3, <1>4, IncursionsAreFoughtOut
<1>6. x \in Conquests /\ x.turn = c.turn /\ x.incursions = c.incursions \ due
  BY <1>4, <1>5 DEF FightingOut
<1>7. ASSUME NEW n \in Node, x.owners[n] # c.owners[n]
      PROVE  /\ \E i \in due : i.node = n
             /\ c.owners[n] = Player => \E e \in x.lastRound : e.node = n /\ e.from = Player
  BY <1>4, <1>5, <1>7 DEF FightingOut
<1>8. \A i \in x.incursions : i.node \in Node
  BY <1>6 DEF Conquests, Incursion
<1>9. Standing(x)
  <2>1. ASSUME NEW i \in x.incursions PROVE x.owners[i.node] = Player
    <3>1. i \in c.incursions /\ i \notin due /\ c.owners[i.node] = Player
      BY <1>6 DEF Standing
    <3>2. ~ \E j \in due : j.node = i.node
      BY <1>1, <3>1 DEF Standing
    <3>. QED  BY <1>7, <1>8, <3>1, <3>2
  <2>. QED  BY <1>6, <2>1 DEF Standing
<1>10. x \in Moving(x)
  BY <1>2, <1>6, <1>9 DEF Moving
<1>. QED  BY <1>1, <1>6, <1>7, <1>10

(* What a turn promises of the conquest it leads to.                       *)
TurnKept(c, y) ==
  /\ y \in Conquests
  /\ Sound(y)
  /\ \A n \in Node : c.owners[n] = Player /\ y.owners[n] # Player =>
       /\ \E i \in c.incursions : i.node = n
       /\ \E e \in y.lastRound : e.node = n /\ e.from = Player

(* Every way a turn can go keeps the promise.                              *)
LEMMA TurnsKeep ==
  ASSUME NEW c \in Conquests, Standing(c), NEW y \in TurnsOf(c)
  PROVE  TurnKept(c, y)
<1>. DEFINE fresh == [c EXCEPT !.lastRound = {}]
<1>1. /\ fresh \in Conquests /\ fresh.status = c.status /\ fresh.owners = c.owners
      /\ fresh.incursions = c.incursions /\ fresh.turn = c.turn
  BY DEF Conquests
<1>2. CASE c.status # "active"
  <2>1. y = fresh
    BY <1>2 DEF TurnsOf
  <2>. QED  BY <1>1, <1>2, <2>1 DEF TurnKept, Sound, Going
<1>3. CASE c.status = "active"
  <2>1. PICK x \in Expiries(fresh) :
          \E z \in IF StatusOf(x.owners) = "active" THEN EnemyRounds(x) ELSE {x} :
            y = Settled(z)
    BY <1>3 DEF TurnsOf, Settled
  <2>. PICK z \in IF StatusOf(x.owners) = "active" THEN EnemyRounds(x) ELSE {x} :
         y = Settled(z)
    BY <2>1
  <2>. HIDE DEF fresh
  <2>2. Standing(fresh)
    BY <1>1 DEF Standing
  <2>3. /\ x \in Conquests /\ x \in Moving(x)
        /\ \A n \in Node : c.owners[n] = Player /\ x.owners[n] # Player =>
             /\ \E i \in c.incursions : i.node = n
             /\ \E e \in x.lastRound : e.node = n /\ e.from = Player
    BY <1>1, <2>2, ExpiriesLeaveStanding
  <2>4. z \in Moving(x)
    <3>1. Standing(x) /\ \A i \in x.incursions : x.turn < i.expires
      BY <2>3 DEF Moving
    <3>. QED  BY <2>1, <2>3, <3>1, RoundsKeepMoving
  <2>5. /\ z \in Conquests /\ x.lastRound \subseteq z.lastRound
        /\ \A n \in Node : x.owners[n] = Player => z.owners[n] = Player
        /\ Standing(z) /\ \A i \in z.incursions : z.turn < i.expires
    BY <2>4 DEF Moving
  <2>6. /\ y \in Conquests /\ y.turn = z.turn /\ y.owners = z.owners
        /\ y.incursions = z.incursions /\ y.lastRound = z.lastRound
        /\ InSight(y.owners) \subseteq y.revealed /\ y.status = StatusOf(y.owners)
    BY <2>1, <2>5, SettledFields
  <2>7. Sound(y)
    BY <2>5, <2>6 DEF Sound, Standing
  <2>. QED  BY <2>3, <2>5, <2>6, <2>7 DEF TurnKept
<1>. QED  BY <1>2, <1>3

(* The fight itself, before the turn that follows it: only the system that *)
(* was fought over may change hands.                                       *)
LEMMA FoughtStands ==
  ASSUME NEW c \in Conquests, Standing(c), NEW n \in Node, NEW outcome \in Outcomes
  PROVE  LET y == Fought(c, n, Mode(c, n), outcome)
         IN  /\ y \in Conquests /\ Standing(y)
             /\ y.incursions \subseteq c.incursions
             /\ \A m \in Node : m # n => y.owners[m] = c.owners[m]
             /\ c.owners[n] = Player /\ y.owners[n] # Player =>
                  \E i \in c.incursions : i.node = n
<1>. DEFINE mode == Mode(c, n)
            standing == {i \in c.incursions : i.node = n}
            taker == IF mode = "attack" /\ outcome = "victory" THEN {Player}
                     ELSE IF mode = "defend" /\ outcome = "defeat"
                       THEN {i.faction : i \in standing}
                     ELSE {}
            owners == IF taker = {} THEN c.owners
                      ELSE [c.owners EXCEPT ![n] = CHOOSE f \in taker : TRUE]
            left == IF mode = "defend" THEN c.incursions \ standing ELSE c.incursions
            status == StatusOf(owners)
            y == Fought(c, n, mode, outcome)
<1>1. mode = "defend" \/ (mode = "attack" /\ \A i \in c.incursions : i.node # n)
  BY DEF Mode
<1>2. taker \subseteq Faction
  <2>1. {i.faction : i \in standing} \subseteq EnemyFactions
    BY DEF Conquests, Incursion
  <2>. QED  BY <2>1 DEF Faction
<1>3. taker # {} /\ mode = "attack" => taker = {Player}
  BY <1>1
<1>4. /\ owners \in [Node -> Faction \cup {Neutral}]
      /\ \A m \in Node : m # n => owners[m] = c.owners[m]
      /\ mode = "attack" => owners[n] \in {c.owners[n], Player}
  <2>. HIDE DEF taker, mode
  <2>1. taker # {} => (CHOOSE f \in taker : TRUE) \in taker
    OBVIOUS
  <2>. QED  BY <1>2, <1>3, <2>1 DEF Conquests
<1>5. left \subseteq c.incursions /\ \A i \in left : mode = "defend" => i.node # n
  OBVIOUS
<1>6. status \in {"active", "won", "lost"}
  BY DEF StatusOf
<1>7. y = [c EXCEPT !.turn = c.turn + 1, !.owners = owners, !.status = status,
                    !.incursions = left]
  BY DEF Fought, Conquests
<1>8. mode = "defend" => \E i \in c.incursions : i.node = n
  BY DEF Mode
<1>. HIDE DEF owners, status, left, mode
<1>9. y \in Conquests /\ y.owners = owners /\ y.incursions = left
  <2>1. c.turn + 1 \in Nat /\ left \in SUBSET Incursion
    BY <1>5 DEF Conquests
  <2>. HIDE DEF y
  <2>2. y \in Conquests
    BY <1>4, <1>6, <1>7, <2>1 DEF Conquests
  <2>. QED  BY <1>7, <2>2 DEF Conquests
<1>. HIDE DEF y
<1>10. Standing(y)
  <2>1. ASSUME NEW i \in left PROVE i.node \in Node /\ i.node # n
    BY <1>1, <1>5 DEF Conquests, Incursion
  <2>2. \A i \in left : owners[i.node] = Player
    BY <1>4, <1>5, <2>1 DEF Standing
  <2>. QED  BY <1>5, <1>9, <2>2 DEF Standing
<1>11. c.owners[n] = Player /\ y.owners[n] # Player => \E i \in c.incursions : i.node = n
  BY <1>1, <1>4, <1>8, <1>9
<1>12. \A m \in Node : m # n => y.owners[m] = c.owners[m]
  BY <1>4, <1>9
<1>13. y.incursions \subseteq c.incursions
  BY <1>5, <1>9
<1>. QED  BY <1>9, <1>10, <1>11, <1>12, <1>13 DEF y, mode

(* What a fight promises: as a turn, but that the recap need not name the  *)
(* system that was fought over.                                            *)
LEMMA BattlesKeep ==
  ASSUME NEW c \in Conquests, Standing(c), NEW n \in Node, NEW outcome \in Outcomes,
         NEW y \in AfterBattle(c, n, Mode(c, n), outcome)
  PROVE  /\ y \in Conquests /\ Sound(y)
         /\ \A m \in Node : c.owners[m] = Player /\ y.owners[m] # Player =>
              /\ \E i \in c.incursions : i.node = m
              /\ m # n => \E e \in y.lastRound : e.node = m /\ e.from = Player
<1>. DEFINE fought == Fought(c, n, Mode(c, n), outcome)
<1>1. /\ fought \in Conquests /\ Standing(fought)
      /\ fought.incursions \subseteq c.incursions
      /\ \A m \in Node : m # n => fought.owners[m] = c.owners[m]
      /\ c.owners[n] = Player /\ fought.owners[n] # Player =>
           \E i \in c.incursions : i.node = n
  BY FoughtStands
<1>2. y \in TurnsOf(fought)
  BY DEF AfterBattle
<1>. HIDE DEF fought
<1>3. TurnKept(fought, y)
  BY <1>1, <1>2, TurnsKeep
<1>4. ASSUME NEW m \in Node, c.owners[m] = Player, y.owners[m] # Player
      PROVE  /\ \E i \in c.incursions : i.node = m
             /\ m # n => \E e \in y.lastRound : e.node = m /\ e.from = Player
  <2>1. CASE fought.owners[m] = Player
    BY <1>1, <1>3, <1>4, <2>1 DEF TurnKept
  <2>2. CASE fought.owners[m] # Player
    BY <1>1, <1>4, <2>2
  <2>. QED  BY <2>1, <2>2
<1>. QED  BY <1>3, <1>4 DEF TurnKept

(* A turn played without a fight, as a turn.                               *)
LEMMA HoldsKeep ==
  ASSUME NEW c \in Conquests, Standing(c), c.status = "active", NEW y \in HeldTurns(c)
  PROVE  TurnKept(c, y)
<1>. DEFINE later == [c EXCEPT !.turn = c.turn + 1]
<1>1. /\ later \in Conquests /\ later.owners = c.owners /\ later.incursions = c.incursions
  BY DEF Conquests
<1>2. y \in TurnsOf(later)
  BY DEF HeldTurns
<1>. HIDE DEF later
<1>3. Standing(later)
  BY <1>1 DEF Standing
<1>4. TurnKept(later, y)
  BY <1>1, <1>2, <1>3, TurnsKeep
<1>. QED  BY <1>1, <1>4 DEF TurnKept

(* A conquest just begun.                                                  *)
LEMMA NewIsSound == NewConquest \in Conquests /\ Sound(NewConquest)
<1>. DEFINE c == [turn |-> 0, owners |-> Authored, incursions |-> {}, revealed |-> {},
                  lastRound |-> {}, status |-> "active"]
            sight == InSight(Authored)
<1>1. sight \subseteq Node
  BY DEF InSight, Holds, Around
<1>2. NewConquest = [turn |-> 0, owners |-> Authored, incursions |-> {}, revealed |-> sight,
                     lastRound |-> {}, status |-> "active"]
  BY DEF NewConquest, Revealing
<1>3. StatusOf(Authored) = "active"
  <2>1. Authored[Capital[Player]] = Player
    BY ConquestAssumption DEF Faction
  <2>2. \A f \in EnemyFactions : Authored[Capital[f]] # Player
    BY ConquestAssumption DEF Faction
  <2>. QED  BY <2>1, <2>2 DEF StatusOf
<1>. HIDE DEF sight
<1>4. NewConquest \in Conquests
  BY <1>1, <1>2, ConquestAssumption DEF Conquests
<1>. QED  BY <1>2, <1>3, <1>4 DEF Sound, sight

-----------------------------------------------------------------------------
(* Presses, fights and saves.                                              *)

(* A fight was begun from a conquest that went on and was sound, and is    *)
(* fought the way that one asks for.                                       *)
SoundFights ==
  {f \in Fights : Going(f.base) /\ Sound(f.base) /\ f.mode = Mode(f.base, f.node)}
SoundWrites == {w \in Writes : Sound(w.conquest)}

(* Saves and fights whose briefing is not the one that is open.            *)
Elsewhere == {w \in SoundWrites : ~w.seen}

(* Everything a conquest shown may yet be taken from is sound.             *)
AllSound ==
  /\ Sound(run) /\ Sound(disk)
  /\ writes \in Seq(SoundWrites)
  /\ fights \subseteq SoundFights

(* On the map there is no briefing that anything still on its way was      *)
(* begun from: no result can be asked for without a system to give it to.  *)
SeenIsOpen ==
  OnTheMap =>
    /\ overlay.phase = "briefing"
    /\ writes \in Seq(Elsewhere)
    /\ \A f \in fights : ~f.seen

LEMMA NothingIsSound == Sound(NoConquest) /\ Sound(Unreadable)
BY DEF Sound, Going, Kept

LEMMA GoingStands ==
  ASSUME NEW c \in Conquests \cup {NoConquest, Unreadable}, Sound(c), Going(c)
  PROVE  c \in Conquests /\ Standing(c) /\ c.status = "active"
BY DEF Going, Kept, Sound, Standing

LEMMA UnseenFights ==
  ASSUME NEW many \in SUBSET SoundFights
  PROVE  Unseen(many) \subseteq SoundFights
<1>. SUFFICES ASSUME NEW f \in many PROVE [f EXCEPT !.seen = FALSE] \in SoundFights
  BY DEF Unseen
<1>1. f \in Fights
  BY DEF SoundFights
<1>. DEFINE g == [f EXCEPT !.seen = FALSE]
<1>2. g \in Fights /\ g.base = f.base /\ g.node = f.node /\ g.mode = f.mode
  BY <1>1 DEF Fights
<1>. QED  BY <1>2 DEF SoundFights

LEMMA WiderSequences ==
  ASSUME NEW S, NEW T, S \subseteq T, NEW s \in Seq(S)
  PROVE  s \in Seq(T)
OBVIOUS

LEMMA UnseenWrites ==
  ASSUME writes \in Seq(SoundWrites)
  PROVE  UnseenSaves \in Seq(Elsewhere) /\ UnseenSaves \in Seq(SoundWrites)
<1>1. ASSUME NEW i \in 1 .. Len(writes)
      PROVE  [writes[i] EXCEPT !.seen = FALSE] \in Elsewhere
  <2>1. writes[i] \in SoundWrites
    OBVIOUS
  <2>. DEFINE w == writes[i]
              v == [w EXCEPT !.seen = FALSE]
  <2>. HIDE DEF w
  <2>2. w \in Writes
    BY <2>1 DEF w, SoundWrites
  <2>3. v \in Writes /\ v.conquest = w.conquest /\ ~v.seen
    BY <2>2 DEF Writes
  <2>. QED  BY <2>1, <2>3 DEF Elsewhere, SoundWrites, w
<1>2. Len(writes) \in Nat /\ DOMAIN writes = 1 .. Len(writes)
  OBVIOUS
<1>3. UnseenSaves \in [1 .. Len(writes) -> Elsewhere]
  BY <1>1, <1>2 DEF UnseenSaves
<1>4. UnseenSaves \in Seq(Elsewhere)
  BY <1>2, <1>3
<1>5. Elsewhere \subseteq SoundWrites
  BY DEF Elsewhere
<1>. QED  BY <1>4, <1>5, WiderSequences

LEMMA FewerWrites ==
  ASSUME NEW S, writes \in Seq(S), NEW i \in DOMAIN writes
  PROVE  RemoveAt(writes, i) \in Seq(S)
<1>1. Len(writes) \in Nat /\ i \in 1 .. Len(writes)
  OBVIOUS
<1>2. SubSeq(writes, 1, i - 1) \in Seq(S)
  BY <1>1, SubSeqProperties
<1>3. SubSeq(writes, i + 1, Len(writes)) \in Seq(S)
  BY <1>1, SubSeqProperties
<1>. QED  BY <1>2, <1>3, ConcatProperties DEF RemoveAt

(* A save is of a sound conquest and leaves the earlier ones sound.        *)
LEMMA SaveKeeps ==
  ASSUME TypeOK, AllSound, NEW next \in Conquests \cup {NoConquest}, Sound(next),
         NEW by \in {"map", "fight"}, NEW mine \in BOOLEAN, NEW left \in SUBSET fights,
         Save(next, by, mine, left)
  PROVE  /\ AllSound'
         /\ run' = next /\ disk' = disk /\ begun' = begun /\ starts' = starts
         /\ overlay' \in [node : Node \cup {NoNode}, phase : Phases]
<1>1. left \subseteq SoundFights
  BY DEF AllSound
<1>2. fights' \subseteq SoundFights
  BY <1>1, UnseenFights DEF Save
<1>3. writes' \in Seq(SoundWrites)
  <2>. DEFINE w == [conquest |-> next, by |-> by, seen |-> mine /\ Going(next)]
              earlier == IF Going(next) THEN writes ELSE UnseenSaves
  <2>1. w \in SoundWrites
    <3>1. (mine /\ Going(next)) \in BOOLEAN
      BY DEF Going
    <3>. QED  BY <3>1 DEF SoundWrites, Writes
  <2>2. earlier \in Seq(SoundWrites)
    BY UnseenWrites DEF AllSound
  <2>3. writes' = Append(earlier, w)
    BY DEF Save
  <2>. HIDE DEF w, earlier
  <2>. QED  BY <2>1, <2>2, <2>3, AppendProperties
<1>4. overlay' \in [node : Node \cup {NoNode}, phase : Phases]
  BY DEF Save, TypeOK, Phases
<1>5. run' = next /\ disk' = disk /\ begun' = begun /\ starts' = starts
  BY DEF Save
<1>. QED  BY <1>2, <1>3, <1>4, <1>5 DEF AllSound

LEMMA SoundFightsAreTyped ==
  ASSUME NEW f \in SoundFights
  PROVE  /\ f \in Fights /\ f.base \in Conquests /\ f.node \in Node /\ f.seen \in BOOLEAN
         /\ f.mode = Mode(f.base, f.node) /\ Standing(f.base)
<1>1. f \in Fights /\ Going(f.base) /\ Sound(f.base) /\ f.mode = Mode(f.base, f.node)
  BY DEF SoundFights
<1>2. f.base \in Conquests /\ f.node \in Node /\ f.seen \in BOOLEAN
  BY <1>1 DEF Fights
<1>. QED  BY <1>1, <1>2, GoingStands

(* What is on its way to the file or to a result is of its type.           *)
LEMMA SoundIsTyped ==
  SoundWrites \subseteq Writes /\ SoundFights \subseteq Fights
BY DEF SoundWrites, SoundFights

(* Every step keeps what may yet be shown sound.                           *)
LEMMA SoundKept ==
  TypeOK /\ AllSound /\ SeenIsOpen /\ [Next]_vars => (TypeOK /\ AllSound)'
<1> SUFFICES ASSUME TypeOK, AllSound, SeenIsOpen, [Next]_vars PROVE  (TypeOK /\ AllSound)'
  OBVIOUS
<1>0. ASSUME AllSound', run' \in Conquests \cup {NoConquest, Unreadable},
             disk' \in Conquests \cup {NoConquest, Unreadable},
             overlay' \in [node : Node \cup {NoNode}, phase : Phases], told' \in BOOLEAN,
             begun' \in 0 .. MaxFights, starts' \in 0 .. MaxStarts
      PROVE  (TypeOK /\ AllSound)'
  <2>1. writes' \in Seq(Writes) /\ fights' \subseteq Fights
    BY <1>0, SoundIsTyped, WiderSequences DEF AllSound
  <2>. QED  BY <1>0, <2>1 DEF TypeOK
<1>1. CASE UNCHANGED vars
  BY <1>1 DEF vars, TypeOK, AllSound, UnseenSaves
<1>2. ASSUME NEW next \in Conquests \cup {NoConquest}, Sound(next), SaveFromMap(next)
      PROVE  (TypeOK /\ AllSound)'
  <2>1. /\ AllSound'
        /\ run' = next /\ disk' = disk /\ begun' = begun /\ starts' = starts
        /\ overlay' \in [node : Node \cup {NoNode}, phase : Phases]
    BY <1>2, SaveKeeps DEF SaveFromMap
  <2>. QED  BY <1>0, <1>2, <2>1 DEF TypeOK, SaveFromMap
<1>3. CASE Begin
  BY <1>2, <1>3, NewIsSound DEF Begin
<1>4. CASE Hold
  <2>1. run \in Conquests /\ Standing(run) /\ run.status = "active"
    BY <1>4, GoingStands DEF Hold, Playing, TypeOK, AllSound
  <2>2. PICK next \in HeldTurns(run) : SaveFromMap(next)
    BY <1>4 DEF Hold
  <2>3. next \in Conquests /\ Sound(next)
    BY <2>1, HoldsKeep DEF TurnKept
  <2>. QED  BY <1>2, <2>2, <2>3
<1>5. CASE Restart
  BY <1>2, <1>5, NothingIsSound DEF Restart
<1>6. CASE BeginRefused
  BY <1>0, <1>6 DEF BeginRefused, TypeOK, AllSound
<1>7. ASSUME NEW n \in Node, OpenBriefing(n) PROVE  (TypeOK /\ AllSound)'
  BY <1>0, <1>7 DEF OpenBriefing, TypeOK, AllSound, Phases
<1>8. CASE BackToMap
  <2>1. fights' \subseteq SoundFights /\ writes' \in Seq(SoundWrites)
    BY <1>8, UnseenFights, UnseenWrites DEF BackToMap, AllSound
  <2>. QED  BY <1>0, <1>8, <2>1 DEF BackToMap, TypeOK, AllSound, Closed, Phases
<1>9. CASE Fight
  <2>. DEFINE f == [id |-> begun', base |-> run, node |-> overlay.node,
                    mode |-> Mode(run, overlay.node), at |-> "engine", seen |-> TRUE]
  <2>1. run \in Conquests /\ Going(run) /\ Sound(run)
    BY <1>9, GoingStands DEF Fight, Playing, TypeOK, AllSound
  <2>2. overlay.node \in Node
    BY <1>9 DEF Fight, OnTheMap, TypeOK
  <2>3. begun' \in 1 .. MaxFights
    BY <1>9, ConquestBounds DEF Fight, TypeOK
  <2>4. Mode(run, overlay.node) \in {"attack", "defend"}
    BY DEF Mode
  <2>5. f \in SoundFights
    BY <2>1, <2>2, <2>3, <2>4 DEF SoundFights, Fights
  <2>6. fights' \subseteq SoundFights
    BY <1>9, <2>5 DEF Fight, AllSound
  <2>. QED  BY <1>0, <1>9, <2>3, <2>6 DEF Fight, TypeOK, AllSound
<1>10. CASE StartAgain
  <2>1. disk' \in {disk, Unreadable} /\ run' = disk'
    BY <1>10 DEF StartAgain
  <2>2. writes' \in Seq(SoundWrites) /\ fights' \subseteq SoundFights
    BY <1>10, EmptySeq DEF StartAgain
  <2>3. AllSound'
    BY <2>1, <2>2, NothingIsSound DEF AllSound
  <2>4. overlay' \in [node : Node \cup {NoNode}, phase : Phases]
    BY <1>10 DEF StartAgain, Closed, Phases
  <2>5. begun' = 0 /\ starts' = starts + 1 /\ starts < MaxStarts /\ told' = FALSE
    BY <1>10 DEF StartAgain
  <2>6. begun' \in 0 .. MaxFights /\ starts' \in 0 .. MaxStarts
    BY <2>5, ConquestBounds DEF TypeOK
  <2>. QED  BY <1>0, <2>1, <2>3, <2>4, <2>5, <2>6 DEF TypeOK
<1>11. ASSUME NEW i \in DOMAIN writes, WriteEnds(i) \/ WriteFails(i)
       PROVE  (TypeOK /\ AllSound)'
  <2>1. writes' \in Seq(SoundWrites)
    BY <1>11, FewerWrites DEF WriteEnds, WriteFails, AllSound
  <2>2. writes[i] \in SoundWrites
    BY <1>11 DEF AllSound
  <2>3. writes[i].conquest \in Conquests \cup {NoConquest} /\ Sound(writes[i].conquest)
    BY <2>2 DEF SoundWrites, Writes
  <2>4. disk' \in Conquests \cup {NoConquest, Unreadable} /\ Sound(disk)'
    <3>1. disk' \in {disk, Unreadable, writes[i].conquest}
      BY <1>11 DEF WriteEnds, WriteFails
    <3>. QED  BY <2>3, <3>1, NothingIsSound DEF TypeOK, AllSound
  <2>5. UNCHANGED <<run, fights, begun, starts>>
    BY <1>11 DEF WriteEnds, WriteFails
  <2>6. overlay' \in [node : Node \cup {NoNode}, phase : Phases]
    BY <1>11 DEF WriteEnds, WriteFails, TypeOK, Phases
  <2>7. told' \in BOOLEAN
    BY <1>11 DEF WriteEnds, WriteFails, TypeOK
  <2>. QED  BY <1>0, <2>1, <2>4, <2>5, <2>6, <2>7 DEF TypeOK, AllSound
<1>12. ASSUME NEW f \in fights, FightAbandoned(f) \/ GameOver(f) \/ Unclear(f)
       PROVE  (TypeOK /\ AllSound)'
  <2>1. f \in SoundFights
    BY DEF AllSound
  <2>. DEFINE g == [f EXCEPT !.at = "checking"]
  <2>2. g \in SoundFights
    <3>1. f \in Fights
      BY <2>1 DEF SoundFights
    <3>2. g \in Fights /\ g.base = f.base /\ g.node = f.node /\ g.mode = f.mode
      BY <3>1 DEF Fights
    <3>. QED  BY <2>1, <3>2 DEF SoundFights
  <2>3. fights' \subseteq SoundFights
    BY <1>12, <2>2 DEF FightAbandoned, GameOver, Unclear, AllSound
  <2>4. UNCHANGED <<run, disk, writes, told, begun, starts>>
    BY <1>12 DEF FightAbandoned, GameOver, Unclear, NothingSaved
  <2>5. overlay' \in [node : Node \cup {NoNode}, phase : Phases]
    BY <1>12 DEF FightAbandoned, GameOver, Unclear, Shown, TypeOK, Phases
  <2>. QED  BY <1>0, <2>3, <2>4, <2>5 DEF TypeOK, AllSound
<1>13. ASSUME NEW f \in fights, NEW outcome \in Outcomes, Detected(f, outcome)
       PROVE  (TypeOK /\ AllSound)'
  <2>1. /\ f.base \in Conquests /\ f.node \in Node /\ f.seen \in BOOLEAN
        /\ f.mode = Mode(f.base, f.node) /\ Standing(f.base)
    BY SoundFightsAreTyped DEF AllSound
  <2>2. PICK next \in AfterBattle(f.base, f.node, f.mode, outcome) :
          Save(next, "fight", f.seen, fights \ {f})
    BY <1>13 DEF Detected
  <2>3. next \in Conquests /\ Sound(next)
    BY <2>1, <2>2, BattlesKeep
  <2>4. /\ AllSound'
        /\ run' = next /\ disk' = disk /\ begun' = begun /\ starts' = starts
        /\ overlay' \in [node : Node \cup {NoNode}, phase : Phases]
    BY <2>1, <2>2, <2>3, SaveKeeps
  <2>. QED  BY <1>0, <1>13, <2>3, <2>4 DEF TypeOK, Detected
<1>14. ASSUME NEW outcome \in Outcomes, Claimed(outcome)
       PROVE  (TypeOK /\ AllSound)'
  <2>1. run \in Conquests /\ Standing(run)
    BY <1>14, GoingStands DEF Claimed, Playing, TypeOK, AllSound
  <2>0. overlay.node \in Node
    BY <1>14 DEF Claimed, SeenIsOpen, OnTheMap, TypeOK
  <2>2. PICK next \in AfterBattle(run, overlay.node, Mode(run, overlay.node), outcome) :
          Save(next, "fight", TRUE, fights)
    BY <1>14 DEF Claimed
  <2>3. next \in Conquests /\ Sound(next)
    BY <2>0, <2>1, <2>2, BattlesKeep
  <2>4. /\ AllSound'
        /\ run' = next /\ disk' = disk /\ begun' = begun /\ starts' = starts
        /\ overlay' \in [node : Node \cup {NoNode}, phase : Phases]
    BY <2>2, <2>3, SaveKeeps
  <2>. QED  BY <1>0, <1>14, <2>3, <2>4 DEF TypeOK, Claimed
<1>. QED
  BY <1>1, <1>3, <1>4, <1>5, <1>6, <1>7, <1>8, <1>9, <1>10, <1>11, <1>12, <1>13, <1>14
  DEF Next

(* A save never brings the map back to a briefing something is begun from. *)
LEMMA SaveKeepsOpen ==
  ASSUME AllSound, SeenIsOpen, NEW next \in Conquests \cup {NoConquest}, Sound(next),
         NEW by \in {"map", "fight"}, NEW mine \in BOOLEAN, NEW left \in SUBSET fights,
         overlay \in [node : Node \cup {NoNode}, phase : Phases],
         mine => ~OnTheMap, Save(next, by, mine, left)
  PROVE  SeenIsOpen'
<1>. SUFFICES ASSUME OnTheMap'
              PROVE  /\ overlay'.phase = "briefing"
                     /\ writes' \in Seq(Elsewhere)
                     /\ \A f \in fights' : ~f.seen
  BY DEF SeenIsOpen
<1>1. OnTheMap
  BY DEF OnTheMap, Save
<1>2. /\ ~mine /\ overlay.phase = "briefing" /\ writes \in Seq(Elsewhere)
      /\ \A f \in fights : ~f.seen
  BY <1>1 DEF SeenIsOpen
<1>3. overlay'.phase = "briefing"
  BY <1>2 DEF Save
<1>4. writes' \in Seq(Elsewhere)
  <2>. DEFINE w == [conquest |-> next, by |-> by, seen |-> FALSE]
              earlier == IF Going(next) THEN writes ELSE UnseenSaves
  <2>1. w \in Elsewhere
    BY DEF Elsewhere, SoundWrites, Writes
  <2>2. earlier \in Seq(Elsewhere)
    BY <1>2, UnseenWrites DEF AllSound
  <2>3. (mine /\ Going(next)) = FALSE
    BY <1>2
  <2>4. writes' = Append(earlier, w)
    BY <2>3 DEF Save
  <2>. HIDE DEF w, earlier
  <2>. QED  BY <2>1, <2>2, <2>4, AppendProperties
<1>5. ASSUME NEW f \in fights' PROVE ~f.seen
  <2>1. fights' = left \/ fights' = Unseen(left)
    BY DEF Save
  <2>2. \A h \in Unseen(left) : ~h.seen
    <3>1. left \subseteq Fights
      BY SoundIsTyped DEF AllSound
    <3>2. \A e \in left : [e EXCEPT !.seen = FALSE].seen = FALSE
      BY <3>1 DEF Fights
    <3>. QED  BY <3>2 DEF Unseen
  <2>. QED  BY <1>2, <2>1, <2>2
<1>. QED  BY <1>3, <1>4, <1>5

(* Nor does any other step.                                                *)
LEMMA OpenKept ==
  TypeOK /\ AllSound /\ SeenIsOpen /\ [Next]_vars => SeenIsOpen'
<1> SUFFICES ASSUME TypeOK, AllSound, SeenIsOpen, [Next]_vars PROVE SeenIsOpen'
  OBVIOUS
<1>1. CASE UNCHANGED vars
  BY <1>1 DEF vars, SeenIsOpen, OnTheMap
<1>2. ASSUME NEW next \in Conquests \cup {NoConquest}, Sound(next), SaveFromMap(next)
      PROVE  SeenIsOpen'
  BY <1>2, SaveKeepsOpen DEF SaveFromMap, TypeOK
<1>3. CASE Begin
  BY <1>2, <1>3, NewIsSound DEF Begin
<1>4. CASE Hold
  <2>1. run \in Conquests /\ Standing(run) /\ run.status = "active"
    BY <1>4, GoingStands DEF Hold, Playing, TypeOK, AllSound
  <2>2. PICK next \in HeldTurns(run) : SaveFromMap(next)
    BY <1>4 DEF Hold
  <2>3. next \in Conquests /\ Sound(next)
    BY <2>1, HoldsKeep DEF TurnKept
  <2>. QED  BY <1>2, <2>2, <2>3
<1>5. CASE Restart
  BY <1>2, <1>5, NothingIsSound DEF Restart
<1>6. CASE BeginRefused
  BY <1>6 DEF BeginRefused, SeenIsOpen, OnTheMap
<1>7. ASSUME NEW n \in Node, OpenBriefing(n) PROVE SeenIsOpen'
  BY <1>7, ConquestBounds DEF OpenBriefing, SeenIsOpen, OnTheMap
<1>8. CASE BackToMap
  <2>1. writes' \in Seq(Elsewhere)
    BY <1>8, UnseenWrites DEF BackToMap, AllSound
  <2>2. \A f \in fights' : ~f.seen
    <3>1. \A e \in fights : [e EXCEPT !.seen = FALSE].seen = FALSE
      BY DEF TypeOK, Fights
    <3>. QED  BY <1>8, <3>1 DEF BackToMap, Unseen
  <2>. QED  BY <1>8, <2>1, <2>2 DEF BackToMap, Closed, SeenIsOpen
<1>9. CASE Fight
  BY <1>9 DEF Fight, SeenIsOpen, OnTheMap
<1>10. CASE StartAgain
  BY <1>10, EmptySeq DEF StartAgain, Closed, SeenIsOpen
<1>11. ASSUME NEW i \in DOMAIN writes, WriteEnds(i) \/ WriteFails(i) PROVE SeenIsOpen'
  <2>. SUFFICES ASSUME OnTheMap' PROVE SeenIsOpen'
    BY DEF SeenIsOpen
  <2>1. OnTheMap
    BY <1>11 DEF WriteEnds, WriteFails, OnTheMap, TypeOK
  <2>2. writes \in Seq(Elsewhere) /\ overlay.phase = "briefing"
    BY <2>1 DEF SeenIsOpen
  <2>3. writes' \in Seq(Elsewhere)
    BY <1>11, <2>2, FewerWrites DEF WriteEnds, WriteFails
  <2>4. ~writes[i].seen
    <3>1. writes[i] \in Elsewhere
      BY <2>2
    <3>. QED  BY <3>1 DEF Elsewhere
  <2>5. overlay' = overlay /\ fights' = fights
    BY <1>11, <2>4 DEF WriteEnds, WriteFails
  <2>. QED  BY <2>1, <2>3, <2>5 DEF SeenIsOpen
<1>12. ASSUME NEW f \in fights, FightAbandoned(f) \/ GameOver(f) \/ Unclear(f)
       PROVE  SeenIsOpen'
  <2>. SUFFICES ASSUME OnTheMap' PROVE SeenIsOpen'
    BY DEF SeenIsOpen
  <2>1. OnTheMap
    BY <1>12 DEF FightAbandoned, GameOver, Unclear, Shown, OnTheMap, TypeOK
  <2>2. ~f.seen /\ writes' = writes /\ overlay' = overlay
    BY <1>12, <2>1 DEF FightAbandoned, GameOver, Unclear, Shown, NothingSaved, SeenIsOpen
  <2>3. [f EXCEPT !.at = "checking"].seen = f.seen
    BY DEF TypeOK, Fights
  <2>4. \A e \in fights' : ~e.seen
    BY <1>12, <2>1, <2>2, <2>3 DEF FightAbandoned, GameOver, Unclear, SeenIsOpen
  <2>. QED  BY <2>1, <2>2, <2>4 DEF SeenIsOpen
<1>13. ASSUME NEW f \in fights, NEW outcome \in Outcomes, Detected(f, outcome)
       PROVE  SeenIsOpen'
  <2>1. /\ f.base \in Conquests /\ f.node \in Node /\ f.seen \in BOOLEAN
        /\ f.mode = Mode(f.base, f.node) /\ Standing(f.base)
    BY SoundFightsAreTyped DEF AllSound
  <2>2. PICK next \in AfterBattle(f.base, f.node, f.mode, outcome) :
          Save(next, "fight", f.seen, fights \ {f})
    BY <1>13 DEF Detected
  <2>3. next \in Conquests /\ Sound(next)
    BY <2>1, <2>2, BattlesKeep
  <2>4. f.seen => ~OnTheMap
    BY DEF SeenIsOpen
  <2>. QED  BY <2>1, <2>2, <2>3, <2>4, SaveKeepsOpen DEF TypeOK
<1>14. ASSUME NEW outcome \in Outcomes, Claimed(outcome) PROVE SeenIsOpen'
  <2>1. run \in Conquests /\ Standing(run)
    BY <1>14, GoingStands DEF Claimed, Playing, TypeOK, AllSound
  <2>2. ~OnTheMap /\ overlay.node \in Node
    BY <1>14 DEF Claimed, SeenIsOpen, OnTheMap, TypeOK
  <2>3. PICK next \in AfterBattle(run, overlay.node, Mode(run, overlay.node), outcome) :
          Save(next, "fight", TRUE, fights)
    BY <1>14 DEF Claimed
  <2>4. next \in Conquests /\ Sound(next)
    BY <2>1, <2>2, <2>3, BattlesKeep
  <2>. QED  BY <2>2, <2>3, <2>4, SaveKeepsOpen DEF TypeOK
<1>. QED
  BY <1>1, <1>3, <1>4, <1>5, <1>6, <1>7, <1>8, <1>9, <1>10, <1>11, <1>12, <1>13, <1>14
  DEF Next

-----------------------------------------------------------------------------
(* The theorems.                                                           *)

(* Every variable keeps its type, and everything a conquest shown may yet  *)
(* come from is sound: the file, each save on its way to it, and what each *)
(* fight was begun from.                                                   *)
THEOREM TypeCorrect == Spec => [](TypeOK /\ AllSound /\ SeenIsOpen)
<1>1. Init => TypeOK /\ AllSound /\ SeenIsOpen
  <2> SUFFICES ASSUME Init PROVE TypeOK /\ AllSound /\ SeenIsOpen
    OBVIOUS
  <2>1. << >> \in Seq(Writes) /\ << >> \in Seq(SoundWrites) /\ << >> \in Seq(Elsewhere)
    BY EmptySeq
  <2>2. begun \in 0 .. MaxFights /\ starts \in 0 .. MaxStarts
    BY ConquestBounds DEF Init
  <2>3. overlay \in [node : Node \cup {NoNode}, phase : Phases]
    BY DEF Init, Closed, Phases
  <2>4. TypeOK
    BY <2>1, <2>2, <2>3 DEF Init, TypeOK
  <2>. QED  BY <2>1, <2>4, NothingIsSound DEF Init, AllSound, SeenIsOpen, Closed
<1>. QED  BY <1>1, SoundKept, OpenKept, PTL DEF Spec

(* In every conquest shown, in the file or fought over, as long as it goes *)
(* on, incursions stand one to a system of the player's, none overdue, and *)
(* everything in sight is revealed.                                        *)
THEOREM ConquestsStaySound == Spec => []ConquestsAreSound
<1>1. AllSound => ConquestsAreSound
  BY DEF AllSound, SoundFights, ConquestsAreSound
<1>. QED  BY <1>1, TypeCorrect, PTL

(* A system that falls in a turn, whichever press or result played it.     *)
LEMMA TurnLosses ==
  ASSUME TypeOK, AllSound, SeenIsOpen,
         NEW c, NEW n \in Falls(c, run'), NEW m, TurnFrom(c, m)
  PROVE  /\ \E i \in c.incursions : i.node = n
         /\ m = n => \E e \in run'.lastRound : e.node = n /\ e.from = Player
<1>1. n \in Node /\ c.owners[n] = Player /\ run'.owners[n] # Player
  BY DEF Falls
<1>2. CASE c = run /\ Hold
  <2>1. run \in Conquests /\ Standing(run) /\ run.status = "active"
    BY <1>2, GoingStands DEF Hold, Playing, TypeOK, AllSound
  <2>2. run' \in HeldTurns(run)
    BY <1>2 DEF Hold, SaveFromMap, Save
  <2>3. TurnKept(run, run')
    BY <2>1, <2>2, HoldsKeep
  <2>. QED  BY <1>1, <1>2, <2>3 DEF TurnKept
<1>3. ASSUME c = run, overlay.node # m, NEW outcome \in Outcomes, Claimed(outcome)
      PROVE  /\ \E i \in c.incursions : i.node = n
             /\ m = n => \E e \in run'.lastRound : e.node = n /\ e.from = Player
  <2>1. run \in Conquests /\ Standing(run)
    BY <1>3, GoingStands DEF Claimed, Playing, TypeOK, AllSound
  <2>2. overlay.node \in Node
    BY <1>3 DEF Claimed, SeenIsOpen, OnTheMap, TypeOK
  <2>3. run' \in AfterBattle(run, overlay.node, Mode(run, overlay.node), outcome)
    BY <1>3 DEF Claimed, Save
  <2>. HIDE DEF Outcomes
  <2>4. \A k \in Node : run.owners[k] = Player /\ run'.owners[k] # Player =>
          /\ \E i \in run.incursions : i.node = k
          /\ k # overlay.node => \E e \in run'.lastRound : e.node = k /\ e.from = Player
    BY <1>3, <2>1, <2>2, <2>3, BattlesKeep
  <2>. QED  BY <1>1, <1>3, <2>4
<1>4. ASSUME NEW f \in fights, NEW outcome \in Outcomes, f.base = c, f.node # m,
             Detected(f, outcome)
      PROVE  /\ \E i \in c.incursions : i.node = n
             /\ m = n => \E e \in run'.lastRound : e.node = n /\ e.from = Player
  <2>1. /\ f.base \in Conquests /\ f.node \in Node
        /\ f.mode = Mode(f.base, f.node) /\ Standing(f.base)
    BY SoundFightsAreTyped DEF AllSound
  <2>2. run' \in AfterBattle(f.base, f.node, Mode(f.base, f.node), outcome)
    BY <1>4, <2>1 DEF Detected, Save
  <2>3. \A k \in Node : f.base.owners[k] = Player /\ run'.owners[k] # Player =>
          /\ \E i \in f.base.incursions : i.node = k
          /\ k # f.node => \E e \in run'.lastRound : e.node = k /\ e.from = Player
    BY <2>1, <2>2, BattlesKeep
  <2>. QED  BY <1>1, <1>4, <2>3
<1>. QED  BY <1>2, <1>3, <1>4 DEF TurnFrom

(* However late a result comes and whatever it was fought from, a system   *)
(* of the player's falls only where an incursion stood in the conquest     *)
(* that the turn was played from.                                          *)
THEOREM LossesAreWarnedOf == Spec => LossesHadWarning
<1>. DEFINE Warning ==
       \A c \in Bases : \A n \in Falls(c, run') :
         (~\E i \in c.incursions : i.node = n) => \A m \in Node : ~TurnFrom(c, m)
<1>1. TypeOK /\ AllSound /\ SeenIsOpen /\ [Next]_vars => [Warning]_vars
  BY TurnLosses
<1>. QED  BY <1>1, TypeCorrect, PTL DEF Spec, LossesHadWarning

(* And each one that falls is named in the recap of that turn, unless it   *)
(* is the one that was fought over.                                        *)
THEOREM RecapsAreComplete == Spec => LossesAreTold
<1>. DEFINE Telling ==
       \A c \in Bases : \A n \in Falls(c, run') :
         (~\E e \in run'.lastRound : e.node = n /\ e.from = Player) => ~TurnFrom(c, n)
<1>1. TypeOK /\ AllSound /\ SeenIsOpen /\ [Next]_vars => [Telling]_vars
  BY TurnLosses
<1>. QED  BY <1>1, TypeCorrect, PTL DEF Spec, LossesAreTold
=============================================================================
