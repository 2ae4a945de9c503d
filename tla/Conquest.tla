------------------------------ MODULE Conquest ------------------------------
(***************************************************************************)
(* Playing a conquest: src/conquest (GalaxyPage.tsx, BattleOverlay.tsx,    *)
(* run.ts, conquests.ts) and src/play/useBattleRun.ts.                     *)
(*                                                                         *)
(* The conquest shown is the one in the shared cache.  A save puts the new *)
(* one there at once and sends it to be written, over what the file held:  *)
(* a write that fails, or that the program's end interrupts, may leave a   *)
(* file that cannot be read, and then nothing is saved any more.  A fight  *)
(* keeps the conquest it was begun from, through the game and the reading  *)
(* of its replay, and its result is worked out from that one; the briefing *)
(* it was begun from may be closed meanwhile, and the turn held or another *)
(* fight begun.  What the engine shows, and how a result is read, are      *)
(* outside.                                                                *)
(***************************************************************************)
EXTENDS ConquestRules

CONSTANTS
  NoConquest, NoNode,
  Unreadable,   \* a file that is no conquest, and what is shown of it
  MaxTurn,      \* bound: turns a conquest is followed for
  MaxFights,    \* bound: fights begun between two starts of the program
  MaxWrites,    \* bound: saves on their way at once
  MaxStarts     \* bound: starts of the program after the first

ASSUME ConquestBounds ==
  /\ NoNode \notin Node
  /\ MaxTurn \in Nat /\ MaxFights \in Nat /\ MaxWrites \in Nat /\ MaxStarts \in Nat

VARIABLES
  run,       \* the conquest in the cache, as every page shows it
  disk,      \* the one in the file
  writes,    \* saves on their way to the file, oldest first
  overlay,   \* the briefing: the system and how far it is
  fights,    \* fights whose result is still to come
  told,      \* the page says of the last save that nothing was changed
  begun, starts

vars == <<run, disk, writes, overlay, fights, told, begun, starts>>

Mode(c, n) == IF \E i \in c.incursions : i.node = n THEN "defend" ELSE "attack"

\* id tells two fights from the same conquest apart; seen is whether the
\* briefing it was begun from is still open.
Fights ==
  [id : 1 .. MaxFights, base : Conquests, node : Node, mode : {"attack", "defend"},
   at : {"engine", "checking"}, seen : BOOLEAN]

Phases == {"briefing", "checking", "saving", "result", "over"}
Closed == [node |-> NoNode, phase |-> "briefing"]

\* by is what saved, the map or a fight; seen as above.
Writes == [conquest : Conquests \cup {NoConquest}, by : {"map", "fight"}, seen : BOOLEAN]

TypeOK ==
  /\ {run, disk} \subseteq Conquests \cup {NoConquest, Unreadable}
  /\ writes \in Seq(Writes)
  /\ overlay \in [node : Node \cup {NoNode}, phase : Phases]
  /\ fights \subseteq Fights
  /\ told \in BOOLEAN
  /\ begun \in 0 .. MaxFights
  /\ starts \in 0 .. MaxStarts

Init ==
  /\ run = NoConquest /\ disk = NoConquest
  /\ writes = <<>>
  /\ overlay = Closed
  /\ fights = {}
  /\ told = FALSE
  /\ begun = 0 /\ starts = 0

Kept(c) == c \notin {NoConquest, Unreadable}
Going(c) == Kept(c) /\ c.status = "active"
Playing == Going(run) /\ run.turn < MaxTurn
EngineUp == \E f \in fights : f.at = "engine"
OnTheMap == overlay.node = NoNode
-----------------------------------------------------------------------------
(* Saving. *)

Unseen(many) == {[f EXCEPT !.seen = FALSE] : f \in many}
UnseenSaves == [i \in DOMAIN writes |-> [writes[i] EXCEPT !.seen = FALSE]]

\* saveConquestState: the cache at once, then the file.  The briefing is only
\* drawn while the conquest goes on; one that is drawn again starts afresh.
Save(next, by, mine, left) ==
  /\ Len(writes) < MaxWrites
  /\ run' = next
  /\ LET drawn == Going(next)
         earlier == IF drawn THEN writes ELSE UnseenSaves
     IN  /\ writes' = Append(earlier, [conquest |-> next, by |-> by, seen |-> mine /\ drawn])
         /\ fights' = IF drawn THEN left ELSE Unseen(left)
         /\ overlay' = IF ~drawn THEN [overlay EXCEPT !.phase = "briefing"]
                       ELSE IF mine THEN [overlay EXCEPT !.phase = "saving"]
                       ELSE overlay
  /\ UNCHANGED <<disk, begun, starts>>

SaveFromMap(next) == Save(next, "map", FALSE, fights) /\ told' = FALSE

WriteEnds(i) ==
  /\ i \in DOMAIN writes
  /\ disk' = writes[i].conquest
  /\ overlay' = IF writes[i].seen THEN [overlay EXCEPT !.phase = "over"] ELSE overlay
  /\ writes' = RemoveAt(writes, i)
  /\ UNCHANGED <<run, fights, told, begun, starts>>

\* The write fails, before or after the file was cut short: a fight's result
\* is asked for again, and the map says that nothing was changed.
WriteFails(i) ==
  /\ i \in DOMAIN writes
  /\ overlay' = IF writes[i].seen THEN [overlay EXCEPT !.phase = "result"] ELSE overlay
  /\ told' = (told \/ writes[i].by = "map")
  /\ disk' \in {disk, Unreadable}
  /\ writes' = RemoveAt(writes, i)
  /\ UNCHANGED <<run, fights, begun, starts>>
-----------------------------------------------------------------------------
(* The map. *)

Begin == run = NoConquest /\ SaveFromMap(NewConquest)

\* What could not be read is not written over.
BeginRefused ==
  /\ run = Unreadable
  /\ told' = TRUE
  /\ UNCHANGED <<run, disk, writes, overlay, fights, begun, starts>>

Hold ==
  /\ Playing
  /\ OnTheMap
  /\ \E next \in HeldTurns(run) : SaveFromMap(next)

\* The end screen.
Restart == Kept(run) /\ ~Going(run) /\ SaveFromMap(NoConquest)

OpenBriefing(n) ==
  /\ Playing
  /\ OnTheMap
  /\ n \in Reach(run.owners, Player) \/ Mode(run, n) = "defend"
  /\ overlay' = [node |-> n, phase |-> "briefing"]
  /\ UNCHANGED <<run, disk, writes, fights, told, begun, starts>>

\* Back to the map, from a briefing or from what came of it.
BackToMap ==
  /\ ~OnTheMap
  /\ Going(run)
  /\ overlay' = Closed
  /\ fights' = Unseen(fights)
  /\ writes' = UnseenSaves
  /\ UNCHANGED <<run, disk, told, begun, starts>>
-----------------------------------------------------------------------------
(* A fight. *)

Fight ==
  /\ ~OnTheMap /\ overlay.phase = "briefing"
  /\ Playing
  /\ ~EngineUp
  /\ begun < MaxFights
  /\ begun' = begun + 1
  /\ fights' = fights \cup
       {[id |-> begun', base |-> run, node |-> overlay.node,
         mode |-> Mode(run, overlay.node), at |-> "engine", seen |-> TRUE]}
  /\ UNCHANGED <<run, disk, writes, overlay, told, starts>>

Shown(f, phase) == overlay' = IF f.seen THEN [overlay EXCEPT !.phase = phase] ELSE overlay
NothingSaved == UNCHANGED <<run, disk, writes, told, begun, starts>>

\* The launch was cancelled or the engine failed.
FightAbandoned(f) ==
  /\ fights' = fights \ {f}
  /\ Shown(f, "briefing")
  /\ NothingSaved

GameOver(f) ==
  /\ f.at = "engine"
  /\ fights' = (fights \ {f}) \cup {[f EXCEPT !.at = "checking"]}
  /\ Shown(f, "checking")
  /\ NothingSaved

\* The replay does not say: the player is asked, if the briefing is open.
Unclear(f) ==
  /\ fights' = fights \ {f}
  /\ Shown(f, "result")
  /\ NothingSaved

\* applyResult with what the replay says, on what the fight was begun from.
Detected(f, outcome) ==
  /\ f.at = "checking"
  /\ \E next \in AfterBattle(f.base, f.node, f.mode, outcome) :
       Save(next, "fight", f.seen, fights \ {f})
  /\ UNCHANGED told

\* applyResult with what the player says, on the conquest as it is shown.
Claimed(outcome) ==
  /\ overlay.phase = "result"
  /\ Playing
  /\ \E next \in AfterBattle(run, overlay.node, Mode(run, overlay.node), outcome) :
       Save(next, "fight", TRUE, fights)
  /\ UNCHANGED told

\* The program ends, or dies, and is started again.
StartAgain ==
  /\ starts < MaxStarts
  /\ starts' = starts + 1
  /\ disk' \in {disk} \cup IF writes = <<>> THEN {} ELSE {Unreadable}
  /\ run' = disk'
  /\ writes' = <<>>
  /\ overlay' = Closed
  /\ fights' = {}
  /\ told' = FALSE
  /\ begun' = 0

Outcomes == {"victory", "defeat"}

Next ==
  \/ Begin \/ BeginRefused \/ Hold \/ Restart \/ BackToMap \/ Fight \/ StartAgain
  \/ \E n \in Node : OpenBriefing(n)
  \/ \E i \in DOMAIN writes : WriteEnds(i) \/ WriteFails(i)
  \/ \E f \in fights :
       \/ FightAbandoned(f) \/ GameOver(f) \/ Unclear(f)
       \/ \E outcome \in Outcomes : Detected(f, outcome)
  \/ \E outcome \in Outcomes : Claimed(outcome)

Spec == Init /\ [][Next]_vars
-----------------------------------------------------------------------------
(* Properties. *)

\* The player's next turn is played from the conquest c, and not by fighting
\* over n: a hold, a result the player gave or one read of a fight.
TurnFrom(c, n) ==
  \/ c = run /\ (Hold \/ (overlay.node # n /\ \E outcome \in Outcomes : Claimed(outcome)))
  \/ \E f \in fights, outcome \in Outcomes : f.base = c /\ f.node # n /\ Detected(f, outcome)

Bases == {run} \cup {f.base : f \in fights}
Falls(from, to) ==
  IF Kept(from) /\ Kept(to) THEN {n \in Node : from.owners[n] = Player /\ to.owners[n] # Player}
  ELSE {}

\* A system of the player's never falls without a warning: in the conquest
\* that the turn is played from an incursion stands on it.
LossesHadWarning ==
  [][ \A c \in Bases : \A n \in Falls(c, run') :
        (~\E i \in c.incursions : i.node = n) => \A m \in Node : ~TurnFrom(c, m) ]_vars

\* What the player loses in a turn is in its recap, but for a defence that was
\* just fought and lost.
LossesAreTold ==
  [][ \A c \in Bases : \A n \in Falls(c, run') :
        (~\E e \in run'.lastRound : e.node = n /\ e.from = Player) => ~TurnFrom(c, n) ]_vars

\* In a conquest that goes on, each incursion stands on a system of the
\* player's, alone, and is not overdue; and everything in sight is revealed.
\* This holds of what is shown, of what is in the file and of what every
\* fight was begun from.
Sound(c) ==
  Going(c) =>
    /\ \A i \in c.incursions : c.owners[i.node] = Player /\ c.turn < i.expires
    /\ \A i, j \in c.incursions : i.node = j.node => i = j
    /\ InSight(c.owners) \subseteq c.revealed
    /\ c.status = StatusOf(c.owners)

ConquestsAreSound == Sound(run) /\ Sound(disk) /\ \A f \in fights : Sound(f.base)

\* BattleOverlay: "Nothing has committed yet, so backing out is free."
BackingOutIsFree ==
  [][ run' # run => \A f \in fights, outcome \in Outcomes : ~f.seen => ~Detected(f, outcome) ]_vars

\* GalaxyPage, of a save that failed: "Nothing was changed."
NothingWasChanged == told => run = disk

\* saveConquestState: "two quick saves don't clobber each other".
QuickSavesKept == writes = <<>> /\ ~told => run = disk
=============================================================================
