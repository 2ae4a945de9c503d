-------------------------- MODULE LaunchingProofs --------------------------
(***************************************************************************)
(* What holds of starting games for any number of presses and reloads: the *)
(* state is well formed, the badge and its run agree, two engines are only *)
(* up when one was given up, and a live game stays on the badge.           *)
(***************************************************************************)
EXTENDS Launching, TLAPS

(* Everything the page and Rust keep is well formed.                       *)
THEOREM TypeCorrect == Spec => []TypeOK
<1>1. Init => TypeOK
  BY LaunchingAssumption DEF Init, TypeOK, Asker
<1>2. TypeOK /\ [Next]_vars => TypeOK'
  <2> SUFFICES ASSUME TypeOK, [Next]_vars PROVE TypeOK'
    OBVIOUS
  <2> USE DEF TypeOK, pageVars, askVars, wireVars, historyVars
  <2>1. CASE UNCHANGED vars
    BY <2>1 DEF vars
  <2>2. ASSUME NEW q \in Asker, StatusRead(q) PROVE TypeOK'
    BY <2>2 DEF StatusRead, LiveRuns
  <2>3. ASSUME NEW r \in Run, Press(r) PROVE TypeOK'
    BY <2>3 DEF Press, Guards, Begin, At, Asks
  <2>4. ASSUME NEW r \in Run, Guarded(r) PROVE TypeOK'
    BY <2>4 DEF Guarded, Begin, At, Heard
  <2>5. ASSUME NEW r \in Run, Looked(r) PROVE TypeOK'
    <3>1. \A found \in told[r] : found \in Run
      BY DEF Asker
    <3>. QED  BY <2>5, <3>1 DEF Looked, Adopt, At, Heard
  <2>6. ASSUME NEW r \in Run, Launch(r) \/ GivenUp(r) \/ EngineMissing(r) PROVE TypeOK'
    BY <2>6 DEF Launch, GivenUp, EngineMissing, At, ClearRun
  <2>7. ASSUME NEW r \in Run, StartedArrives(r) \/ Settles(r) PROVE TypeOK'
    BY <2>7 DEF StartedArrives, Settles, At, ClearRun
  <2>8. ASSUME NEW r \in Run, LooksForLive(r) \/ Spawns(r) \/ EngineExits(r) \/ PollLoop(r)
        PROVE  TypeOK'
    BY <2>8 DEF LooksForLive, Spawns, EngineExits, PollLoop, Refused, Command, RustAlone
  <2>9. ASSUME NEW r \in Run, CancelArrives(r) PROVE TypeOK'
    BY <2>9 DEF CancelArrives, Command, RustAlone
  <2>10. CASE Cancel
    BY <2>10 DEF Cancel, ClearRun
  <2>11. CASE Mounted
    <3>1. \A found \in told[Mount] : found \in Run
      BY DEF Asker
    <3>. QED  BY <2>11, <3>1 DEF Mounted, Heard, Adopt
  <2>12. CASE PollAsks \/ PollAnswered
    BY <2>12 DEF PollAsks, PollAnswered, Asks, Heard, ClearRun
  <2>13. CASE Reload
    <3>1. reloads' \in 0 .. MaxReloads
      BY <2>13, LaunchingAssumption DEF Reload
    <3>. QED  BY <2>13, <3>1 DEF Reload, ClearRun
  <2>. QED
    BY <2>1, <2>2, <2>3, <2>4, <2>5, <2>6, <2>7, <2>8, <2>9, <2>10, <2>11, <2>12, <2>13 DEF Next
<1>. QED  BY <1>1, <1>2, PTL DEF Spec
-----------------------------------------------------------------------------
(* A command that has come as far as its spawn.  It stays there.           *)
Past(r) == command[r] \in {"up", "down", "taken", "over"}

(* The player has not given it up and no reload has forgotten it.          *)
Wanted(r) == r \notin gaveUp \cup lost

BeforeLaunch == {"none", "guarding", "looking", "checking"}

(* Whatever the page can learn a run's id from is past its spawn, and a    *)
(* press that has not launched has no command.                             *)
LearntOnlyWhenPast ==
  /\ phase = "running" => Past(active)
  /\ \A r \in Run : held[r] # NoRun => Past(held[r])
  /\ pollFor # NoRun => Past(pollFor)
  /\ \A q \in Asker : \A r \in told[q] : Past(r)
  /\ \A r \in started : Past(r)
  /\ \A r \in settled : command[r] = "over"
  /\ \A r \in Run : press[r] \in BeforeLaunch => command[r] = "none"

(* An answer that leaves a run out is never about one that is alive.       *)
AnswersHold ==
  /\ ask[Poll] = "answered" /\ pollFor # NoRun /\ pollFor \notin told[Poll] => ~Live(pollFor)
  /\ \A r \in Run :
       press[r] = "guarding" /\ ask[r] = "answered" /\ held[r] # NoRun /\ held[r] \notin told[r]
         => ~Live(held[r])

(* The only launch on its way that is still wanted is the badge's, and     *)
(* Rust has let it by only where no wanted engine was up.                  *)
OneOnItsWay ==
  /\ \A r \in Run : InFlight(r) /\ Wanted(r) => active = r
  /\ \A r \in Run : command[r] = "checked" /\ Wanted(r) => \A s \in LiveRuns : ~Wanted(s)

PageInv == BadgeHasItsRun /\ LearntOnlyWhenPast /\ AnswersHold
GameInv == PageInv /\ OneOnItsWay /\ OneGameWanted
-----------------------------------------------------------------------------

(* What the page knows survives every step.                                *)
LEMMA PageInvSteps == ASSUME TypeOK, PageInv, [Next]_vars PROVE PageInv'
<1> USE LaunchingAssumption DEF TypeOK, PageInv, pageVars, askVars, wireVars, historyVars
<1>1. CASE UNCHANGED vars
  BY <1>1 DEF vars, BadgeHasItsRun, LearntOnlyWhenPast, AnswersHold, Past, Live
<1>2. ASSUME NEW q \in Asker, StatusRead(q) PROVE PageInv'
  <2> USE <1>2 DEF StatusRead
  <2>1. BadgeHasItsRun'
    BY DEF BadgeHasItsRun, LearntOnlyWhenPast, Past
  <2>2. LearntOnlyWhenPast'
    BY DEF BadgeHasItsRun, LearntOnlyWhenPast, Past, BeforeLaunch, LiveRuns, Live, Asker
  <2>3. AnswersHold'
    BY DEF AnswersHold, LearntOnlyWhenPast, Past, BeforeLaunch, LiveRuns, Live, Asker
  <2>. QED  BY <2>1, <2>2, <2>3
<1>3. ASSUME NEW r \in Run, Press(r) PROVE PageInv'
  <2> USE <1>3 DEF Press, Guards, Begin, At, Asks
  <2>1. BadgeHasItsRun'
    BY DEF BadgeHasItsRun, LearntOnlyWhenPast, Past
  <2>2. LearntOnlyWhenPast'
    BY DEF BadgeHasItsRun, LearntOnlyWhenPast, Past, BeforeLaunch, LiveRuns, Live, Asker
  <2>3. AnswersHold'
    BY DEF AnswersHold, LearntOnlyWhenPast, Past, BeforeLaunch, LiveRuns, Live, Asker
  <2>. QED  BY <2>1, <2>2, <2>3
<1>4. ASSUME NEW r \in Run, Guarded(r) PROVE PageInv'
  <2> USE <1>4 DEF Guarded, BadgeIsStale, Begin, At, Heard
  <2>1. BadgeHasItsRun'
    BY DEF BadgeHasItsRun, LearntOnlyWhenPast, Past
  <2>2. LearntOnlyWhenPast'
    BY DEF BadgeHasItsRun, LearntOnlyWhenPast, Past, BeforeLaunch, LiveRuns, Live, Asker
  <2>3. AnswersHold'
    BY DEF AnswersHold, LearntOnlyWhenPast, Past, BeforeLaunch, LiveRuns, Live, Asker
  <2>. QED  BY <2>1, <2>2, <2>3
<1>5. ASSUME NEW r \in Run, Looked(r) PROVE PageInv'
  <2> USE <1>5 DEF Looked, Adopt, At, Heard
  <2>0. \A found \in told[r] : found \in Run /\ found # NoRun
    BY DEF Asker
  <2>1. BadgeHasItsRun'
    BY <2>0 DEF BadgeHasItsRun, LearntOnlyWhenPast, Past
  <2>2. LearntOnlyWhenPast'
    BY DEF BadgeHasItsRun, LearntOnlyWhenPast, Past, BeforeLaunch, LiveRuns, Live, Asker
  <2>3. AnswersHold'
    BY DEF AnswersHold, LearntOnlyWhenPast, Past, BeforeLaunch, LiveRuns, Live, Asker
  <2>. QED  BY <2>1, <2>2, <2>3
<1>6. ASSUME NEW r \in Run, Launch(r) PROVE PageInv'
  <2> USE <1>6 DEF Launch, At
  <2>1. BadgeHasItsRun'
    BY DEF BadgeHasItsRun, LearntOnlyWhenPast, Past
  <2>2. LearntOnlyWhenPast'
    BY DEF BadgeHasItsRun, LearntOnlyWhenPast, Past, BeforeLaunch, LiveRuns, Live, Asker
  <2>3. AnswersHold'
    BY DEF AnswersHold, LearntOnlyWhenPast, Past, BeforeLaunch, LiveRuns, Live, Asker
  <2>. QED  BY <2>1, <2>2, <2>3
<1>7. ASSUME NEW r \in Run, GivenUp(r) \/ EngineMissing(r) PROVE PageInv'
  <2> USE <1>7 DEF GivenUp, EngineMissing, At, ClearRun
  <2>1. BadgeHasItsRun'
    BY DEF BadgeHasItsRun, LearntOnlyWhenPast, Past
  <2>2. LearntOnlyWhenPast'
    BY DEF BadgeHasItsRun, LearntOnlyWhenPast, Past, BeforeLaunch, LiveRuns, Live, Asker
  <2>3. AnswersHold'
    BY DEF AnswersHold, LearntOnlyWhenPast, Past, BeforeLaunch, LiveRuns, Live, Asker
  <2>. QED  BY <2>1, <2>2, <2>3
<1>8. ASSUME NEW r \in Run, StartedArrives(r) PROVE PageInv'
  <2> USE <1>8 DEF StartedArrives
  <2>1. BadgeHasItsRun'
    BY DEF BadgeHasItsRun, LearntOnlyWhenPast, Past
  <2>2. LearntOnlyWhenPast'
    BY DEF BadgeHasItsRun, LearntOnlyWhenPast, Past, BeforeLaunch, LiveRuns, Live, Asker
  <2>3. AnswersHold'
    BY DEF AnswersHold, LearntOnlyWhenPast, Past, BeforeLaunch, LiveRuns, Live, Asker
  <2>. QED  BY <2>1, <2>2, <2>3
<1>9. ASSUME NEW r \in Run, Settles(r) PROVE PageInv'
  <2> USE <1>9 DEF Settles, At, ClearRun
  <2>1. BadgeHasItsRun'
    BY DEF BadgeHasItsRun, LearntOnlyWhenPast, Past
  <2>2. LearntOnlyWhenPast'
    BY DEF BadgeHasItsRun, LearntOnlyWhenPast, Past, BeforeLaunch, LiveRuns, Live, Asker
  <2>3. AnswersHold'
    BY DEF AnswersHold, LearntOnlyWhenPast, Past, BeforeLaunch, LiveRuns, Live, Asker
  <2>. QED  BY <2>1, <2>2, <2>3
<1>10. ASSUME NEW r \in Run, LooksForLive(r) PROVE PageInv'
  <2> USE <1>10 DEF LooksForLive, Refused, Command, RustAlone
  <2>1. BadgeHasItsRun'
    BY DEF BadgeHasItsRun, LearntOnlyWhenPast, Past
  <2>2. LearntOnlyWhenPast'
    BY DEF BadgeHasItsRun, LearntOnlyWhenPast, Past, BeforeLaunch, LiveRuns, Live, Asker
  <2>3. AnswersHold'
    BY DEF AnswersHold, LearntOnlyWhenPast, Past, BeforeLaunch, LiveRuns, Live, Asker
  <2>. QED  BY <2>1, <2>2, <2>3
<1>11. ASSUME NEW r \in Run, Spawns(r) PROVE PageInv'
  <2> USE <1>11 DEF Spawns, Refused, Command, RustAlone
  <2>1. BadgeHasItsRun'
    BY DEF BadgeHasItsRun, LearntOnlyWhenPast, Past
  <2>2. LearntOnlyWhenPast'
    BY DEF BadgeHasItsRun, LearntOnlyWhenPast, Past, BeforeLaunch, LiveRuns, Live, Asker
  <2>3. AnswersHold'
    BY DEF AnswersHold, LearntOnlyWhenPast, Past, BeforeLaunch, LiveRuns, Live, Asker
  <2>. QED  BY <2>1, <2>2, <2>3
<1>12. ASSUME NEW r \in Run, EngineExits(r) \/ PollLoop(r) PROVE PageInv'
  <2> USE <1>12 DEF EngineExits, PollLoop, Command, RustAlone
  <2>1. BadgeHasItsRun'
    BY DEF BadgeHasItsRun, LearntOnlyWhenPast, Past
  <2>2. LearntOnlyWhenPast'
    BY DEF BadgeHasItsRun, LearntOnlyWhenPast, Past, BeforeLaunch, LiveRuns, Live, Asker
  <2>3. AnswersHold'
    BY DEF AnswersHold, LearntOnlyWhenPast, Past, BeforeLaunch, LiveRuns, Live, Asker
  <2>. QED  BY <2>1, <2>2, <2>3
<1>13. ASSUME NEW r \in Run, CancelArrives(r) PROVE PageInv'
  <2> USE <1>13 DEF CancelArrives, Registered, Command, RustAlone
  <2>1. BadgeHasItsRun'
    BY DEF BadgeHasItsRun, LearntOnlyWhenPast, Past
  <2>2. LearntOnlyWhenPast'
    BY DEF BadgeHasItsRun, LearntOnlyWhenPast, Past, BeforeLaunch, LiveRuns, Live, Asker
  <2>3. AnswersHold'
    BY DEF AnswersHold, LearntOnlyWhenPast, Past, BeforeLaunch, LiveRuns, Live, Asker
  <2>. QED  BY <2>1, <2>2, <2>3
<1>14. CASE Cancel
  <2> USE <1>14 DEF Cancel, ClearRun
  <2>1. BadgeHasItsRun'
    BY DEF BadgeHasItsRun, LearntOnlyWhenPast, Past
  <2>2. LearntOnlyWhenPast'
    BY DEF BadgeHasItsRun, LearntOnlyWhenPast, Past, BeforeLaunch, LiveRuns, Live, Asker
  <2>3. AnswersHold'
    BY DEF AnswersHold, LearntOnlyWhenPast, Past, BeforeLaunch, LiveRuns, Live, Asker
  <2>. QED  BY <2>1, <2>2, <2>3
<1>15. CASE Mounted
  <2> USE <1>15 DEF Mounted, Heard, Adopt
  <2>0. \A found \in told[Mount] : found \in Run /\ found # NoRun
    BY DEF Asker
  <2>1. BadgeHasItsRun'
    BY <2>0 DEF BadgeHasItsRun, LearntOnlyWhenPast, Past
  <2>2. LearntOnlyWhenPast'
    BY DEF BadgeHasItsRun, LearntOnlyWhenPast, Past, BeforeLaunch, LiveRuns, Live, Asker
  <2>3. AnswersHold'
    BY DEF AnswersHold, LearntOnlyWhenPast, Past, BeforeLaunch, LiveRuns, Live, Asker
  <2>. QED  BY <2>1, <2>2, <2>3
<1>16. CASE PollAsks
  <2> USE <1>16 DEF PollAsks, Asks
  <2>1. BadgeHasItsRun'
    BY DEF BadgeHasItsRun, LearntOnlyWhenPast, Past
  <2>2. LearntOnlyWhenPast'
    BY DEF BadgeHasItsRun, LearntOnlyWhenPast, Past, BeforeLaunch, LiveRuns, Live, Asker
  <2>3. AnswersHold'
    BY DEF AnswersHold, LearntOnlyWhenPast, Past, BeforeLaunch, LiveRuns, Live, Asker
  <2>. QED  BY <2>1, <2>2, <2>3
<1>17. CASE PollAnswered
  <2> USE <1>17 DEF PollAnswered, Heard, ClearRun
  <2>1. BadgeHasItsRun'
    BY DEF BadgeHasItsRun, LearntOnlyWhenPast, Past
  <2>2. LearntOnlyWhenPast'
    BY DEF BadgeHasItsRun, LearntOnlyWhenPast, Past, BeforeLaunch, LiveRuns, Live, Asker
  <2>3. AnswersHold'
    BY DEF AnswersHold, LearntOnlyWhenPast, Past, BeforeLaunch, LiveRuns, Live, Asker
  <2>. QED  BY <2>1, <2>2, <2>3
<1>18. CASE Reload
  <2> USE <1>18 DEF Reload, ClearRun
  <2>1. BadgeHasItsRun'
    BY DEF BadgeHasItsRun, LearntOnlyWhenPast, Past
  <2>2. LearntOnlyWhenPast'
    BY DEF BadgeHasItsRun, LearntOnlyWhenPast, Past, BeforeLaunch, LiveRuns, Live, Asker
  <2>3. AnswersHold'
    BY DEF AnswersHold, LearntOnlyWhenPast, Past, BeforeLaunch, LiveRuns, Live, Asker
  <2>. QED  BY <2>1, <2>2, <2>3
<1>. QED
  BY <1>1, <1>2, <1>3, <1>4, <1>5, <1>6, <1>7, <1>8, <1>9, <1>10, <1>11, <1>12, <1>13,
     <1>14, <1>15, <1>16, <1>17, <1>18 DEF Next

(* The launches on their way and the engines that are up survive it too:   *)
(* where a launch that is still wanted goes to Rust, and where Rust lets    *)
(* it spawn, no other one is wanted.                                       *)
LEMMA GameInvSteps == ASSUME TypeOK, GameInv, [Next]_vars PROVE OneOnItsWay' /\ OneGameWanted'
<1> USE LaunchingAssumption
        DEF TypeOK, GameInv, OneOnItsWay, OneGameWanted, LiveRuns, Live, InFlight, Wanted,
            pageVars, askVars, wireVars, historyVars
<1>1. CASE UNCHANGED vars
  BY <1>1 DEF vars
<1>2. ASSUME NEW q \in Asker, StatusRead(q) PROVE OneOnItsWay' /\ OneGameWanted'
  BY <1>2 DEF StatusRead
<1>3. ASSUME NEW r \in Run, Press(r) PROVE OneOnItsWay' /\ OneGameWanted'
  BY <1>3 DEF Press, Guards, Begin, At, Asks, PageInv, BadgeHasItsRun
<1>4. ASSUME NEW r \in Run, Guarded(r) PROVE OneOnItsWay' /\ OneGameWanted'
  BY <1>4 DEF Guarded, BadgeIsStale, Begin, At, Heard, PageInv, BadgeHasItsRun,
     LearntOnlyWhenPast, Past
<1>5. ASSUME NEW r \in Run, Looked(r) PROVE OneOnItsWay' /\ OneGameWanted'
  BY <1>5 DEF Looked, Adopt, At, Heard, PageInv, LearntOnlyWhenPast, BeforeLaunch
<1>6. ASSUME NEW r \in Run, Launch(r) PROVE OneOnItsWay' /\ OneGameWanted'
  BY <1>6 DEF Launch, At, PageInv, LearntOnlyWhenPast, BeforeLaunch
<1>7. ASSUME NEW r \in Run, GivenUp(r) \/ EngineMissing(r) PROVE OneOnItsWay' /\ OneGameWanted'
  BY <1>7 DEF GivenUp, EngineMissing, At, ClearRun, PageInv, LearntOnlyWhenPast, BeforeLaunch
<1>8. ASSUME NEW r \in Run, StartedArrives(r) PROVE OneOnItsWay' /\ OneGameWanted'
  BY <1>8 DEF StartedArrives
<1>9. ASSUME NEW r \in Run, Settles(r) PROVE OneOnItsWay' /\ OneGameWanted'
  BY <1>9 DEF Settles, At, ClearRun, PageInv, LearntOnlyWhenPast
<1>10. ASSUME NEW r \in Run, LooksForLive(r) PROVE OneOnItsWay' /\ OneGameWanted'
  BY <1>10 DEF LooksForLive, Refused, Command, RustAlone
<1>11. ASSUME NEW r \in Run, Spawns(r) PROVE OneOnItsWay' /\ OneGameWanted'
  BY <1>11 DEF Spawns, Refused, Command, RustAlone
<1>12. ASSUME NEW r \in Run, EngineExits(r) \/ PollLoop(r) PROVE OneOnItsWay' /\ OneGameWanted'
  BY <1>12 DEF EngineExits, PollLoop, Command, RustAlone
<1>13. ASSUME NEW r \in Run, CancelArrives(r) PROVE OneOnItsWay' /\ OneGameWanted'
  BY <1>13 DEF CancelArrives, Registered, Command, RustAlone
<1>14. CASE Cancel
  BY <1>14 DEF Cancel, ClearRun
<1>15. CASE Mounted
  BY <1>15 DEF Mounted, Heard, Adopt, PageInv, BadgeHasItsRun
<1>16. CASE PollAsks
  BY <1>16 DEF PollAsks, Asks
<1>17. CASE PollAnswered
  BY <1>17 DEF PollAnswered, Heard, ClearRun, PageInv, LearntOnlyWhenPast, Past
<1>18. CASE Reload
  BY <1>18 DEF Reload, ClearRun
<1>. QED
  BY <1>1, <1>2, <1>3, <1>4, <1>5, <1>6, <1>7, <1>8, <1>9, <1>10, <1>11, <1>12, <1>13,
     <1>14, <1>15, <1>16, <1>17, <1>18 DEF Next

LEMMA GameInvAlways == Spec => []GameInv
<1>1. Init => GameInv
  BY LaunchingAssumption
  DEF Init, GameInv, PageInv, BadgeHasItsRun, LearntOnlyWhenPast, AnswersHold, OneOnItsWay,
      OneGameWanted, LiveRuns, Live, InFlight, BeforeLaunch
<1>2. TypeOK /\ GameInv /\ [Next]_vars => GameInv'
  BY PageInvSteps, GameInvSteps DEF GameInv
<1>. QED  BY <1>1, <1>2, TypeCorrect, PTL DEF Spec
-----------------------------------------------------------------------------
(* The badge, the run it is about and the press that made it agree.        *)
THEOREM BadgeAgrees == Spec => []BadgeHasItsRun
<1>1. GameInv => BadgeHasItsRun
  BY DEF GameInv, PageInv
<1>. QED  BY <1>1, GameInvAlways, PTL

(* Two engines are up together only while one of them was given up or      *)
(* forgotten: however many presses, cancels and reloads there are, the     *)
(* launches the player still wants come up one at a time.                  *)
THEOREM OneWantedGame == Spec => []OneGameWanted
<1>1. GameInv => OneGameWanted
  BY DEF GameInv
<1>. QED  BY <1>1, GameInvAlways, PTL

(* A game that is up stays on the badge until a cancel or a reload: every  *)
(* other place that clears it has learnt that its engine is gone.          *)
THEOREM LiveBadgesStay == Spec => LiveBadgeKept
<1>1. TypeOK /\ GameInv /\ [Next]_vars
      => [(active \in LiveRuns /\ active \in LiveRuns')
            => active' = active \/ Cancel \/ Reload]_vars
  <2> SUFFICES ASSUME TypeOK, GameInv, [Next]_vars, active \in LiveRuns, active \in LiveRuns'
               PROVE  active' = active \/ Cancel \/ Reload
    OBVIOUS
  <2> USE LaunchingAssumption
      DEF TypeOK, GameInv, PageInv, LiveRuns, Live, pageVars, askVars, wireVars, historyVars
  <2>1. CASE UNCHANGED vars
    BY <2>1 DEF vars
  <2>2. ASSUME NEW q \in Asker, StatusRead(q) PROVE active' = active
    BY <2>2 DEF StatusRead
  <2>3. ASSUME NEW r \in Run, Press(r) PROVE active' = active
    BY <2>3 DEF Press, Guards, Begin, At, Asks, BadgeHasItsRun
  <2>4. ASSUME NEW r \in Run, Guarded(r) PROVE active' = active
    BY <2>4 DEF Guarded, BadgeIsStale, Begin, At, Heard, BadgeHasItsRun, AnswersHold
  <2>5. ASSUME NEW r \in Run, Looked(r) PROVE active' = active
    BY <2>5 DEF Looked, Adopt, At, Heard, LearntOnlyWhenPast, BeforeLaunch
  <2>6. ASSUME NEW r \in Run, Launch(r) PROVE active' = active
    BY <2>6 DEF Launch, At
  <2>7. ASSUME NEW r \in Run, GivenUp(r) \/ EngineMissing(r) PROVE active' = active
    BY <2>7 DEF GivenUp, EngineMissing, At, ClearRun, LearntOnlyWhenPast, BeforeLaunch
  <2>8. ASSUME NEW r \in Run, StartedArrives(r) PROVE active' = active
    BY <2>8 DEF StartedArrives
  <2>9. ASSUME NEW r \in Run, Settles(r) PROVE active' = active
    BY <2>9 DEF Settles, At, ClearRun, LearntOnlyWhenPast
  <2>10. ASSUME NEW r \in Run, LooksForLive(r) PROVE active' = active
    BY <2>10 DEF LooksForLive, Refused, Command, RustAlone
  <2>11. ASSUME NEW r \in Run, Spawns(r) PROVE active' = active
    BY <2>11 DEF Spawns, Refused, Command, RustAlone
  <2>12. ASSUME NEW r \in Run, EngineExits(r) \/ PollLoop(r) PROVE active' = active
    BY <2>12 DEF EngineExits, PollLoop, Command, RustAlone
  <2>13. ASSUME NEW r \in Run, CancelArrives(r) PROVE active' = active
    BY <2>13 DEF CancelArrives, Registered, Command, RustAlone
  <2>14. ASSUME Mounted PROVE active' = active
    BY <2>14 DEF Mounted, Heard, Adopt, BadgeHasItsRun
  <2>15. ASSUME PollAsks PROVE active' = active
    BY <2>15 DEF PollAsks, Asks
  <2>16. ASSUME PollAnswered PROVE active' = active
    BY <2>16 DEF PollAnswered, Heard, ClearRun, BadgeHasItsRun, AnswersHold
  <2>. QED
    BY <2>1, <2>2, <2>3, <2>4, <2>5, <2>6, <2>7, <2>8, <2>9, <2>10, <2>11, <2>12, <2>13,
       <2>14, <2>15, <2>16 DEF Next
<1>. QED  BY <1>1, TypeCorrect, GameInvAlways, PTL DEF Spec, LiveBadgeKept
=============================================================================
