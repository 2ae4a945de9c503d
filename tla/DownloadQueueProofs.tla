------------------------ MODULE DownloadQueueProofs ------------------------
(***************************************************************************)
(* What holds of the download queue for any downloads, lanes, sources and  *)
(* ids: it is well formed, the rapid pool has one writer, a lane runs one  *)
(* download at a time and no rescan owed is forgotten.                     *)
(***************************************************************************)
EXTENDS DownloadQueue, TLAPS

(* Queue actions that leave the plugin alone, and those that do not.       *)
QueueOnly ==
  \/ Render
  \/ StartNext
  \/ \E d \in Download, waits \in BOOLEAN : Ask(d, waits)
  \/ \E i \in Id : CancelActive(i) \/ CancelQueued(i) \/ Prune(i)

(* The plugin's own steps on an id keep its state well formed.             *)
LEMMA OpsTyped ==
  ASSUME OpsTypeOK, NEW i \in Id,
         \/ Call(i) \/ Take(i) \/ DlCancel(i) \/ Machinery(i) \/ TransferEnds(i)
         \/ \E means \in Means : Register(i, means)
  PROVE  OpsTypeOK'
<1> USE DEF OpsTypeOK, Registered, Replies
<1>1. CASE Call(i) \/ Take(i) \/ \E means \in Means : Register(i, means)
  BY <1>1 DEF Call, Take, Register
<1>2. CASE DlCancel(i)
  BY <1>2 DEF DlCancel, opsVars
<1>3. CASE Machinery(i)
  <2>1. CASE HttpCancelled(i) \/ StopWaiting(i) \/ Watched(i) \/ WatchdogCancels(i)
    BY <2>1 DEF HttpCancelled, StopWaiting, Watched, WatchdogCancels, Answer
  <2>2. CASE TakeTurn(i)
    BY <2>2 DEF TakeTurn, Answer
  <2>3. CASE Verdict(i)
    BY <2>3 DEF Verdict, Answer
  <2>. QED  BY <1>3, <2>1, <2>2, <2>3 DEF Machinery
<1>4. CASE TransferEnds(i)
  BY <1>4 DEF TransferEnds, HttpEnds, ChildEnds, WatchdogStalls, Answer
<1>. QED  BY <1>1, <1>2, <1>3, <1>4

(* Every step leaves the plugin alone or is one of its steps on an id.     *)
LEMMA StepsOfThePlugin ==
  ASSUME TypeOK, [Next]_vars
  PROVE  \/ UNCHANGED opsVars
         \/ \E i \in Id :
              \/ Call(i) \/ Take(i) \/ DlCancel(i) \/ Machinery(i) \/ TransferEnds(i)
              \/ \E means \in Means : Register(i, means)
<1>1. CASE UNCHANGED vars \/ QueueOnly
  BY <1>1 DEF vars, QueueOnly, Render, StartNext, Ask, AskAgain, AskNew, CancelActive,
              CancelQueued, Prune
<1>2. ASSUME NEW i \in Id, CancelArrives(i) \/ Attempt(i) \/ NextSource(i) \/ Ends(i)
      PROVE  DlCancel(i) \/ Call(i) \/ Take(i)
  BY <1>2 DEF CancelArrives, Attempt, NextSource, Ends
<1>3. ASSUME NEW i \in Id, PluginGoesOn(i)
      PROVE  Machinery(i) \/ \E means \in {Sources[what[i]][at[i]]} : Register(i, means)
  BY <1>3 DEF PluginGoesOn
<1>4. \A i \in Id : \A means : Register(i, means) => \E m \in Means : Register(i, m)
  BY DEF Register, Means
<1>5. ASSUME NEW i \in Id, TransferIsOver(i) PROVE TransferEnds(i)
  BY <1>5 DEF TransferIsOver
<1>. QED  BY <1>1, <1>2, <1>3, <1>4, <1>5 DEF Next, QueueOnly

(* Whatever has a row or a run was asked for.                              *)
GivenRows ==
  \A i \in Id : shown[i] # "none" \/ list[i] # "none" \/ job[i] # "none" => Given(i)

LEMMA WellFormed == Spec => [](TypeOK /\ GivenRows)
<1>1. Init => TypeOK /\ GivenRows
  <2> SUFFICES ASSUME Init PROVE TypeOK /\ GivenRows
    OBVIOUS
  <2>1. OpsTypeOK
    BY DEF Init, OpsInit, OpsTypeOK
  <2>. QED  BY <2>1 DEF Init, TypeOK, Status, GivenRows
<1>2. TypeOK /\ GivenRows /\ [Next]_vars => TypeOK' /\ GivenRows'
  <2> SUFFICES ASSUME TypeOK, GivenRows, [Next]_vars PROVE TypeOK' /\ GivenRows'
    OBVIOUS
  <2>1. OpsTypeOK'
    BY StepsOfThePlugin, OpsTyped DEF TypeOK, OpsTypeOK, opsVars
  <2> USE DEF TypeOK, Status, Outcomes, GivenRows, Given
  <2>2. CASE UNCHANGED vars \/ Render
    BY <2>1, <2>2 DEF vars, queueVars, Render
  <2>3. CASE StartNext
    <3> DEFINE next == Startable(shown, BusyLanes)
    <3>1. next \subseteq {i \in Id : shown[i] = "queued"}
      BY DEF Startable
    <3>2. \A l \in Lane : busy'[l] \in Id \cup {NoId}
      BY <2>3, <3>1 DEF StartNext
    <3>3. busy' \in [Lane -> Id \cup {NoId}]
      BY <2>3, <3>2 DEF StartNext
    <3>4. list' \in [Id -> Status] /\ job' \in [Id -> {"none", "between", "calling", "over"}]
      BY <2>3 DEF StartNext, Patched
    <3>5. at' \in [Id -> Nat] /\ dirty' \in BOOLEAN /\ pump' \in BOOLEAN
      BY <2>3 DEF StartNext
    <3>6. GivenRows'
      BY <2>3, <3>1 DEF StartNext, Patched
    <3>. QED  BY <2>1, <2>3, <3>3, <3>4, <3>5, <3>6 DEF StartNext
  <2>4. ASSUME NEW d \in Download, NEW waits \in BOOLEAN, Ask(d, waits) PROVE TypeOK' /\ GivenRows'
    <3>1. CASE AskAgain(d, waits)
      BY <2>1, <3>1 DEF AskAgain, Already
    <3>2. CASE AskNew(d, waits)
      <4>1. PICK i \in Id :
              /\ what' = [what EXCEPT ![i] = d]
              /\ shown' = [shown EXCEPT ![i] = "queued"]
              /\ IF Already(list, d) = {}
                 THEN list' = [list EXCEPT ![i] = "queued"] /\ dirty' = TRUE
                 ELSE UNCHANGED <<list, dirty>>
              /\ waiting' = IF waits THEN waiting \cup {i} ELSE waiting
        BY <3>2 DEF AskNew
      <4>2. UNCHANGED <<pump, busy, job, at, cancelSent, owed>>
        BY <3>2 DEF AskNew
      <4>3. what' \in [Id -> Download \cup {NoDownload}] /\ shown' \in [Id -> Status]
        BY <4>1
      <4>4. list' \in [Id -> Status] /\ dirty' \in BOOLEAN /\ waiting' \subseteq Id
        BY <4>1
      <4>5. GivenRows'
        BY <4>1, <4>2, DownloadQueueAssumption
      <4>. QED  BY <2>1, <4>2, <4>3, <4>4, <4>5
    <3>. QED  BY <2>4, <3>1, <3>2 DEF Ask
  <2>5. ASSUME NEW i \in Id, CancelActive(i) \/ CancelArrives(i) PROVE TypeOK' /\ GivenRows'
    BY <2>1, <2>5 DEF CancelActive, CancelArrives
  <2>6. ASSUME NEW i \in Id, Attempt(i) \/ NextSource(i) PROVE TypeOK' /\ GivenRows'
    <3>1. \/ job' = [job EXCEPT ![i] = "calling"] /\ at' = at
          \/ job' = [job EXCEPT ![i] = "between"] /\ at' = [at EXCEPT ![i] = at[i] + 1]
      BY <2>6 DEF Attempt, NextSource
    <3>2. UNCHANGED <<what, list, shown, dirty, pump, busy, cancelSent, waiting, owed>>
      BY <2>6 DEF Attempt, NextSource
    <3>3. GivenRows'
      BY <2>6, <3>2 DEF Attempt, NextSource
    <3>4. job' \in [Id -> {"none", "between", "calling", "over"}]
      BY <3>1
    <3>5. at' \in [Id -> Nat]
      BY <3>1
    <3>. QED  BY <2>1, <3>2, <3>3, <3>4, <3>5
  <2>7. ASSUME NEW i \in Id, Prune(i) PROVE TypeOK' /\ GivenRows'
    BY <2>1, <2>7 DEF Prune
  <2>8. ASSUME NEW i \in Id, PluginGoesOn(i) \/ TransferIsOver(i) PROVE TypeOK' /\ GivenRows'
    BY <2>1, <2>8 DEF PluginGoesOn, TransferIsOver, queueVars
  <2>9. ASSUME NEW i \in Id, CancelQueued(i) PROVE TypeOK' /\ GivenRows'
    BY <2>1, <2>9 DEF CancelQueued, StillOwed
  <2>10. ASSUME NEW i \in Id, Ends(i) PROVE TypeOK' /\ GivenRows'
    <3>1. PICK outcome \in Outcomes : Finish(i, outcome)
      BY <2>10 DEF Ends
    <3>2. LaneOf[what[i]] \in Lane
      BY <2>10, DownloadQueueAssumption DEF Ends
    <3>3. owed' \subseteq Lane
      BY <3>1, <3>2 DEF Finish, OwedAfter, StillOwed
    <3>4. list' \in [Id -> Status] /\ job' \in [Id -> {"none", "between", "calling", "over"}]
      BY <3>1 DEF Finish, Patched
    <3>5. busy' \in [Lane -> Id \cup {NoId}] /\ waiting' \subseteq Id /\ at' \in [Id -> Nat]
      BY <3>1 DEF Finish
    <3>6. GivenRows'
      BY <2>10, <3>1 DEF Ends, Finish, Patched
    <3>. QED  BY <2>1, <3>1, <3>3, <3>4, <3>5, <3>6 DEF Finish
  <2>. QED  BY <2>2, <2>3, <2>4, <2>5, <2>6, <2>7, <2>8, <2>9, <2>10 DEF Next
<1>. QED  BY <1>1, <1>2, PTL DEF Spec

(* The queue and the plugin are well formed in every reachable state.      *)
THEOREM TypeCorrect == Spec => []TypeOK
  BY WellFormed, PTL

(* A child of pr-downloader lives only in a turn, and there is one turn.   *)
OneTurn ==
  /\ \A i \in Id : child[i] = "alive" => stage[i] \in HasTurn
  /\ \A i, j \in Id : stage[i] \in HasTurn /\ stage[j] \in HasTurn => i = j

(* No two runs of pr-downloader ever write the rapid pool together,        *)
(* whatever lanes they come from and however they are cancelled.           *)
THEOREM OneWriter == Spec => []PoolHasOneWriter
<1>1. Init => OneTurn
  BY DEF Init, OpsInit, OneTurn, HasTurn
<1>2. TypeOK /\ OneTurn /\ [Next]_vars => OneTurn'
  <2> SUFFICES ASSUME TypeOK, OneTurn, [Next]_vars PROVE OneTurn'
    OBVIOUS
  <2>1. CASE UNCHANGED opsVars
    BY <2>1 DEF OneTurn, opsVars
  <2>2. ASSUME NEW i \in Id,
               \/ Call(i) \/ Take(i) \/ DlCancel(i) \/ Machinery(i) \/ TransferEnds(i)
               \/ \E means \in Means : Register(i, means)
        PROVE  OneTurn'
    <3> USE DEF TypeOK, OpsTypeOK, OneTurn, HasTurn, Replies, Answer
    <3>1. CASE Call(i) \/ Take(i) \/ \E means \in Means : Register(i, means)
      BY <3>1 DEF Call, Take, Register
    <3>2. CASE DlCancel(i)
      BY <3>2 DEF DlCancel, opsVars
    <3>3. CASE Machinery(i)
      <4>1. CASE HttpCancelled(i) \/ StopWaiting(i) \/ Watched(i) \/ WatchdogCancels(i)
        BY <4>1 DEF HttpCancelled, StopWaiting, Watched, WatchdogCancels
      <4>2. CASE TakeTurn(i)
        BY <4>2 DEF TakeTurn
      <4>3. CASE Verdict(i)
        BY <4>3 DEF Verdict
      <4>. QED  BY <3>3, <4>1, <4>2, <4>3 DEF Machinery
    <3>4. CASE TransferEnds(i)
      BY <3>4 DEF TransferEnds, HttpEnds, ChildEnds, WatchdogStalls
    <3>. QED  BY <2>2, <3>1, <3>2, <3>3, <3>4
  <2>. QED  BY <2>1, <2>2, StepsOfThePlugin
<1>3. OneTurn => PoolHasOneWriter
  BY DEF OneTurn, PoolHasOneWriter
<1>. QED  BY <1>1, <1>2, <1>3, TypeCorrect, PTL DEF Spec

(* A run holds its lane and a held lane has its run; what is pending in    *)
(* React's state is pending for the callbacks too; and a row they read as  *)
(* queued is queued, or is being run already.                              *)
LaneHeld == \A i \in Id : Running(i) => busy[LaneOf[what[i]]] = i
LaneRuns == \A l \in Lane : busy[l] # NoId => InLane(busy[l], l) /\ Running(busy[l])
SeenPending == \A i \in Id : list[i] \in Pending => shown[i] \in Pending
QueuedIsWaiting == \A i \in Id : shown[i] = "queued" => list[i] = "queued" \/ Running(i)

QueueInv == LaneHeld /\ LaneRuns /\ SeenPending /\ QueuedIsWaiting /\ OwedIsComing

(* What the pump starts was queued for everybody and had a free lane, and  *)
(* no lane starts two.                                                     *)
LEMMA StartableIsIdle ==
  ASSUME TypeOK, GivenRows, QueueInv, NEW i \in Startable(shown, BusyLanes)
  PROVE  /\ i \in Id /\ shown[i] = "queued" /\ list[i] = "queued" /\ Given(i)
         /\ LaneOf[what[i]] \in Lane /\ busy[LaneOf[what[i]]] = NoId /\ ~Running(i)
         /\ \A j \in Startable(shown, BusyLanes) : LaneOf[what[j]] = LaneOf[what[i]] => j = i
<1> USE DownloadQueueAssumption
<1>1. i \in Id /\ shown[i] = "queued" /\ Given(i) /\ LaneOf[what[i]] \notin BusyLanes
  BY DEF Startable
<1>2. what[i] \in Download /\ LaneOf[what[i]] \in Lane
  BY <1>1 DEF TypeOK, Given
<1>3. busy[LaneOf[what[i]]] = NoId
  BY <1>1, <1>2 DEF BusyLanes
<1>4. ~Running(i)
  BY <1>1, <1>3 DEF QueueInv, LaneHeld, NoId
<1>5. list[i] = "queued"
  BY <1>1, <1>4 DEF QueueInv, QueuedIsWaiting
<1>6. ASSUME NEW j \in Startable(shown, BusyLanes), LaneOf[what[j]] = LaneOf[what[i]] PROVE j = i
  <2>1. j \in Id /\ shown[j] = "queued" /\ Given(j) /\ i \in Nat /\ j \in Nat
    BY <1>1 DEF Startable
  <2>2. ~(j < i) /\ ~(i < j)
    BY <1>1, <1>6, <2>1 DEF Startable, InLane
  <2>. QED  BY <2>1, <2>2
<1>. QED  BY <1>1, <1>2, <1>3, <1>4, <1>5, <1>6

LEMMA StartKeepsQueueInv ==
  ASSUME TypeOK, GivenRows, QueueInv, StartNext PROVE QueueInv'
<1> DEFINE next == Startable(shown, BusyLanes)
<1>1. \A i \in Id : i \in next \/ job'[i] = job[i]
  BY DEF StartNext, TypeOK
<1>2. \A i \in next : job'[i] = "between"
  BY StartableIsIdle DEF StartNext
<1>3. \A l \in Lane : (\E i \in next : InLane(i, l)) => busy'[l] \in next /\ InLane(busy'[l], l)
  BY DEF StartNext
<1>4. \A l \in Lane : ~(\E i \in next : InLane(i, l)) => busy'[l] = busy[l]
  BY DEF StartNext
<1>5. \A i \in next : busy'[LaneOf[what[i]]] = i
  <2> SUFFICES ASSUME NEW i \in next PROVE busy'[LaneOf[what[i]]] = i
    OBVIOUS
  <2> DEFINE l == LaneOf[what[i]]
  <2>1. l \in Lane /\ InLane(i, l)
    BY StartableIsIdle DEF InLane
  <2>2. busy'[l] \in next /\ InLane(busy'[l], l)
    BY <1>3, <2>1
  <2>3. LaneOf[what[busy'[l]]] = LaneOf[what[i]]
    BY <2>2 DEF InLane
  <2>. QED  BY <2>2, <2>3, StartableIsIdle
<1>6. UNCHANGED <<what, shown, owed>>
  BY DEF StartNext
<1>7. LaneHeld'
  <2> SUFFICES ASSUME NEW i \in Id, Running(i)' PROVE busy'[LaneOf[what[i]]] = i
    BY <1>6 DEF LaneHeld
  <2>1. CASE i \in next
    BY <2>1, <1>5
  <2>2. CASE i \notin next
    <3> DEFINE l == LaneOf[what[i]]
    <3>1. Running(i) /\ busy[l] = i /\ Given(i)
      BY <1>1, <2>2 DEF Running, QueueInv, LaneHeld, GivenRows
    <3>2. l \in Lane
      BY <3>1, DownloadQueueAssumption DEF TypeOK, Given
    <3>3. ~(\E j \in next : InLane(j, l))
      <4> SUFFICES ASSUME NEW j \in next, InLane(j, l) PROVE FALSE
        OBVIOUS
      <4>1. busy[l] = NoId
        BY StartableIsIdle DEF InLane
      <4>. QED  BY <3>1, <4>1, DownloadQueueAssumption
    <3>. QED  BY <1>4, <3>1, <3>2, <3>3
  <2>. QED  BY <2>1, <2>2
<1>8. LaneRuns'
  <2> SUFFICES ASSUME NEW l \in Lane, busy'[l] # NoId
               PROVE  InLane(busy'[l], l) /\ job'[busy'[l]] \in {"between", "calling"}
    BY <1>6 DEF LaneRuns, InLane, Given, Running
  <2>1. CASE \E i \in next : InLane(i, l)
    BY <1>2, <1>3, <2>1 DEF Running
  <2>2. CASE ~(\E i \in next : InLane(i, l))
    <3>1. InLane(busy[l], l) /\ Running(busy[l]) /\ busy'[l] = busy[l] /\ busy[l] \in Id
      BY <1>4, <2>2 DEF QueueInv, LaneRuns, TypeOK
    <3>. QED  BY <1>1, <1>2, <3>1 DEF Running
  <2>. QED  BY <2>1, <2>2
<1>9. \A i \in Id : list'[i] = list[i] \/ (i \in next /\ list[i] = "queued")
  <2> SUFFICES ASSUME NEW i \in Id, i \notin next PROVE list'[i] = list[i]
    BY StartableIsIdle
  <2>1. list' = [j \in Id |-> IF j \in next /\ list[j] # "none" THEN "active" ELSE list[j]]
    BY DEF StartNext, Patched
  <2>. QED  BY <2>1
<1>10. SeenPending'
  <2> SUFFICES ASSUME NEW i \in Id, list'[i] \in Pending PROVE shown[i] \in Pending
    BY <1>6 DEF SeenPending
  <2>1. list[i] \in Pending
    BY <1>9 DEF Pending
  <2>. QED  BY <2>1 DEF QueueInv, SeenPending
<1>11. QueuedIsWaiting'
  <2> SUFFICES ASSUME NEW i \in Id, shown[i] = "queued" PROVE list'[i] = "queued" \/ Running(i)'
    BY <1>6 DEF QueuedIsWaiting
  <2>1. CASE i \in next
    BY <2>1, <1>2 DEF Running
  <2>2. CASE i \notin next
    <3>. QED  BY <1>1, <1>9, <2>2 DEF QueueInv, QueuedIsWaiting, Running
  <2>. QED  BY <2>1, <2>2
<1>12. OwedIsComing'
  <2> SUFFICES ASSUME NEW l \in owed
               PROVE  \E i \in Id : InLane(i, l) /\ (Running(i)' \/ shown[i] = "queued")
    BY <1>6 DEF OwedIsComing, InLane, Given
  <2>1. PICK i \in Id : InLane(i, l) /\ (Running(i) \/ shown[i] = "queued")
    BY DEF QueueInv, OwedIsComing
  <2>2. Running(i) => Running(i)'
    BY <1>1, <1>2 DEF Running
  <2>. QED  BY <2>1, <2>2
<1>. QED  BY <1>7, <1>8, <1>10, <1>11, <1>12 DEF QueueInv

(* Asking changes rows of an id that had none, and nothing else.           *)
LEMMA AskKeepsQueueInv ==
  ASSUME TypeOK, GivenRows, QueueInv, NEW d \in Download, NEW waits \in BOOLEAN, Ask(d, waits)
  PROVE  QueueInv'
<1> USE DEF QueueInv, LaneHeld, LaneRuns, SeenPending, QueuedIsWaiting, OwedIsComing, Running,
            InLane, Given
<1>1. CASE AskAgain(d, waits)
  BY <1>1 DEF AskAgain
<1>2. CASE AskNew(d, waits)
  <2>1. Already(list, d) = {}
    BY <1>2 DEF AskNew, Already
  <2>2. PICK i \in Id : /\ ~Given(i)
                        /\ what' = [what EXCEPT ![i] = d]
                        /\ shown' = [shown EXCEPT ![i] = "queued"]
                        /\ list' = [list EXCEPT ![i] = "queued"]
    BY <1>2, <2>1 DEF AskNew, FirstFree
  <2>3. UNCHANGED <<busy, job, owed>>
    BY <1>2 DEF AskNew
  <2>4. ~Running(i) /\ what'[i] = d /\ d # NoDownload /\ shown'[i] = "queued" /\ list'[i] = "queued"
    BY <2>2, DownloadQueueAssumption DEF GivenRows, TypeOK
  <2>5. \A j \in Id : j # i => what'[j] = what[j] /\ shown'[j] = shown[j] /\ list'[j] = list[j]
    BY <2>2 DEF TypeOK
  <2>6. \A j \in Id : Given(j) => j # i
    BY <2>2
  <2>7. LaneHeld' /\ SeenPending' /\ QueuedIsWaiting'
    BY <2>3, <2>4, <2>5 DEF Pending
  <2>8. LaneRuns'
    BY <2>3, <2>5, <2>6 DEF TypeOK, NoId
  <2>9. OwedIsComing'
    <3> SUFFICES ASSUME NEW l \in owed
                 PROVE  \E j \in Id : InLane(j, l)' /\ (Running(j)' \/ shown'[j] = "queued")
      BY <2>3
    <3>1. PICK j \in Id : InLane(j, l) /\ (Running(j) \/ shown[j] = "queued")
      OBVIOUS
    <3>. QED  BY <2>3, <2>5, <2>6, <3>1
  <2>. QED  BY <2>7, <2>8, <2>9
<1>. QED  BY <1>1, <1>2 DEF Ask

(* Dropping a queued row: what was owed is still coming.                   *)
LEMMA CancelKeepsQueueInv ==
  ASSUME TypeOK, GivenRows, QueueInv, NEW i \in Id, CancelQueued(i)
  PROVE  QueueInv'
<1> DEFINE l == LaneOf[what[i]]
<1>1. UNCHANGED <<what, busy, job>>
  BY DEF CancelQueued
<1>2. shown[i] = "queued" /\ shown' = [shown EXCEPT ![i] = "none"] /\ list' = [list EXCEPT ![i] = "none"]
  BY DEF CancelQueued
<1>3. shown'[i] = "none" /\ list'[i] = "none"
      /\ \A j \in Id : j # i => shown'[j] = shown[j] /\ list'[j] = list[j]
  BY <1>2 DEF TypeOK
<1>4. InLane(i, l) /\ l \in Lane
  BY <1>2, DownloadQueueAssumption DEF GivenRows, InLane, Given, TypeOK
<1>5. (LaneHeld /\ LaneRuns)' /\ SeenPending' /\ QueuedIsWaiting'
  BY <1>1, <1>3 DEF QueueInv, LaneHeld, LaneRuns, SeenPending, QueuedIsWaiting, Running, InLane,
                    Given, Pending
<1>6. OwedIsComing'
  <2> SUFFICES ASSUME NEW m \in owed'
               PROVE  \E j \in Id : InLane(j, m) /\ (Running(j) \/ shown'[j] = "queued")
    BY <1>1 DEF OwedIsComing, InLane, Given, Running
  <2>1. m \in owed
    BY DEF CancelQueued, StillOwed
  <2>2. PICK j \in Id : InLane(j, m) /\ (Running(j) \/ shown[j] = "queued")
    BY <2>1 DEF QueueInv, OwedIsComing
  <2>3. CASE m # l
    BY <1>3, <1>4, <2>2, <2>3 DEF InLane
  <2>4. CASE m = l
    <3>1. \/ busy[l] \notin {NoId, i}
          \/ \E k \in Id : k # i /\ shown[k] = "queued" /\ InLane(k, l)
      BY <2>4 DEF CancelQueued, StillOwed
    <3>2. CASE busy[l] \notin {NoId, i}
      BY <1>4, <2>4, <3>2 DEF QueueInv, LaneRuns, TypeOK
    <3>3. CASE \E k \in Id : k # i /\ shown[k] = "queued" /\ InLane(k, l)
      BY <1>3, <2>4, <3>3
    <3>. QED  BY <3>1, <3>2, <3>3
  <2>. QED  BY <2>3, <2>4
<1>. QED  BY <1>5, <1>6 DEF QueueInv

(* The end of a run frees its lane, and the lane is told of or still owed. *)
LEMMA EndKeepsQueueInv ==
  ASSUME TypeOK, GivenRows, QueueInv, NEW i \in Id, Ends(i)
  PROVE  QueueInv'
<1> DEFINE l == LaneOf[what[i]]
<1>1. PICK outcome \in Outcomes : Finish(i, outcome)
  BY DEF Ends, Outcomes
<1>2. job[i] = "calling" /\ shown[i] # "queued" /\ Running(i) /\ InLane(i, l) /\ l \in Lane
  BY DownloadQueueAssumption DEF Ends, StartIsRendered, Running, GivenRows, InLane, Given, TypeOK
<1>3. UNCHANGED <<what, shown>>
  BY <1>1 DEF Finish
<1>4. ~Running(i)' /\ \A j \in Id : j # i => job'[j] = job[j]
  BY <1>1 DEF Finish, TypeOK, Running
<1>5. busy'[l] = NoId /\ \A m \in Lane : m # l => busy'[m] = busy[m]
  BY <1>1, <1>2 DEF Finish, TypeOK
<1>6. busy[l] = i
  BY <1>2 DEF QueueInv, LaneHeld
<1>7. \A j \in Id : list'[j] = list[j] \/ (j = i /\ list'[j] \notin Pending)
  <2>1. list' = [j \in Id |-> IF j \in {i} /\ list[j] # "none" THEN outcome ELSE list[j]]
    BY <1>1 DEF Finish, Patched
  <2>. QED  BY <2>1 DEF Outcomes, Pending
<1>8. LaneHeld'
  <2> SUFFICES ASSUME NEW j \in Id, Running(j)' PROVE busy'[LaneOf[what[j]]] = j
    BY <1>3 DEF LaneHeld
  <2>1. j # i /\ Running(j)
    BY <1>4 DEF Running
  <2>2. busy[LaneOf[what[j]]] = j /\ LaneOf[what[j]] \in Lane
    BY <2>1, DownloadQueueAssumption DEF QueueInv, LaneHeld, GivenRows, Given, TypeOK, Running
  <2>. QED  BY <1>5, <1>6, <2>1, <2>2
<1>9. LaneRuns'
  <2> SUFFICES ASSUME NEW m \in Lane, busy'[m] # NoId
               PROVE  InLane(busy'[m], m) /\ job'[busy'[m]] \in {"between", "calling"}
    BY <1>3 DEF LaneRuns, InLane, Given, Running
  <2>1. m # l /\ busy'[m] = busy[m]
    BY <1>5
  <2>2. InLane(busy[m], m) /\ Running(busy[m]) /\ busy[m] \in Id
    BY <2>1 DEF QueueInv, LaneRuns, TypeOK
  <2>3. busy[m] # i
    BY <1>2, <2>1, <2>2 DEF InLane
  <2>. QED  BY <1>4, <2>1, <2>2, <2>3 DEF Running
<1>10. SeenPending' /\ QueuedIsWaiting'
  BY <1>2, <1>3, <1>4, <1>7 DEF QueueInv, SeenPending, QueuedIsWaiting, Running
<1>11. OwedIsComing'
  <2> SUFFICES ASSUME NEW m \in owed'
               PROVE  \E j \in Id : InLane(j, m) /\ (Running(j)' \/ shown[j] = "queued")
    BY <1>3 DEF OwedIsComing, InLane, Given
  <2>1. CASE m = l
    BY <1>1, <2>1 DEF Finish, OwedAfter, StillOwed
  <2>2. CASE m # l
    <3>1. m \in owed
      BY <1>1, <2>2 DEF Finish, OwedAfter, StillOwed
    <3>2. PICK j \in Id : InLane(j, m) /\ (Running(j) \/ shown[j] = "queued")
      BY <3>1 DEF QueueInv, OwedIsComing
    <3>3. j # i
      BY <1>2, <2>2, <3>2 DEF InLane
    <3>. QED  BY <1>4, <3>2, <3>3 DEF Running
  <2>. QED  BY <2>1, <2>2
<1>. QED  BY <1>8, <1>9, <1>10, <1>11 DEF QueueInv

LEMMA QueueInvAlways == Spec => []QueueInv
<1> USE DEF QueueInv, LaneHeld, LaneRuns, SeenPending, QueuedIsWaiting, OwedIsComing, Running,
            InLane, Given
<1>1. Init => QueueInv
  BY DEF Init, Pending
<1>2. TypeOK /\ GivenRows /\ QueueInv /\ [Next]_vars => QueueInv'
  <2> SUFFICES ASSUME TypeOK, GivenRows, QueueInv, [Next]_vars PROVE QueueInv'
    OBVIOUS
  <2>1. CASE UNCHANGED vars
    BY <2>1 DEF vars, queueVars
  <2>2. CASE Render
    BY <2>2 DEF Render
  <2>3. ASSUME NEW i \in Id, \/ CancelActive(i) \/ CancelArrives(i) \/ PluginGoesOn(i)
                             \/ TransferIsOver(i)
        PROVE  QueueInv'
    BY <2>3 DEF CancelActive, CancelArrives, PluginGoesOn, TransferIsOver, queueVars
  <2>4. ASSUME NEW i \in Id, Attempt(i) \/ NextSource(i) PROVE QueueInv'
    <3>1. UNCHANGED <<what, list, shown, busy, owed>>
      BY <2>4 DEF Attempt, NextSource
    <3>2. job[i] \in {"between", "calling"} /\ job'[i] \in {"between", "calling"}
          /\ \A j \in Id : j # i => job'[j] = job[j]
      BY <2>4 DEF Attempt, NextSource, TypeOK
    <3>3. \A j \in Id : Running(j)' <=> Running(j)
      BY <3>2
    <3>. QED  BY <3>1, <3>3 DEF TypeOK
  <2>5. ASSUME NEW i \in Id, Prune(i) PROVE QueueInv'
    BY <2>5 DEF Prune, Outcomes, Pending, TypeOK
  <2>. QED
    BY <2>1, <2>2, <2>3, <2>4, <2>5, StartKeepsQueueInv, AskKeepsQueueInv, CancelKeepsQueueInv,
       EndKeepsQueueInv DEF Next
<1>. QED  BY <1>1, <1>2, WellFormed, PTL DEF Spec

(* A lane runs one download at a time, although what the pump reads lags   *)
(* behind what it and the ends of runs have written.                       *)
THEOREM LanesAreSerial == Spec => []OneRunPerLane
<1>1. QueueInv => OneRunPerLane
  BY DEF QueueInv, LaneHeld, OneRunPerLane
<1>. QED  BY <1>1, QueueInvAlways, PTL

(* No rescan owed is ever forgotten, whatever of its lane is cancelled.    *)
THEOREM RescansAreComing == Spec => []OwedIsComing
<1>1. QueueInv => OwedIsComing
  BY DEF QueueInv
<1>. QED  BY <1>1, QueueInvAlways, PTL
=============================================================================
