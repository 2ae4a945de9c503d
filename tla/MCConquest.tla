----------------------------- MODULE MCConquest -----------------------------
(* Five systems: the player's capital, a system of the player's that a        *)
(* warlike enemy borders, a neutral one between them, the two capitals.       *)
EXTENDS Conquest

CONSTANTS home, march, wilds, core, hive, player, warlike, peaceful, neutral

Systems == {home, march, wilds, core, hive}
Lanes == {{home, march}, {march, wilds}, {march, core}, {home, core}, {wilds, hive}, {core, hive}}
TwoEnemies == <<warlike, peaceful>>
PeacefulOnes == {peaceful}
Owners ==
  [n \in Systems |-> CASE n \in {home, march} -> player [] n = wilds -> neutral
                       [] n = core -> warlike [] n = hive -> peaceful]
Capitals ==
  [f \in {player, warlike, peaceful} |->
     CASE f = player -> home [] f = warlike -> core [] f = peaceful -> hive]
=============================================================================
