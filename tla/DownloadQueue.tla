--------------------------- MODULE DownloadQueue ---------------------------
(***************************************************************************)
(* The app-wide download queue (src/downloads/DownloadQueueProvider.tsx,   *)
(* queueLanes.ts and the walk over sources in downloadGame.ts and          *)
(* downloadMirrors.ts), above the downloads plugin of DownloadOps.         *)
(*                                                                         *)
(* The queue is React state.  What setItems has been told is `list`; what  *)
(* the callbacks read is itemsRef, `shown` here, which only catches up     *)
(* with the list when React renders, and is edited in place by enqueue and *)
(* cancel in the meantime.  The pump is an effect of a render in which the *)
(* items changed, and runs some time after it.  Ids are handed out in      *)
(* order, so the order of ids is the order of the queue.                   *)
(***************************************************************************)
EXTENDS DownloadOps, Sequences

CONSTANTS
  Download,     \* what can be asked for, by identity (identityOf)
  NoDownload,
  Lane,         \* lanes of the queue
  LaneOf,       \* LaneOf[d]: the lane of d (laneOf)
  Sources       \* Sources[d]: how each place d can be had from is fetched

NoId == 0

ASSUME DownloadQueueAssumption ==
  /\ Id \subseteq Nat \ {NoId}
  /\ NoDownload \notin Download
  /\ LaneOf \in [Download -> Lane]
  /\ Sources \in [Download -> Seq(Means)]
  /\ \A d \in Download : Len(Sources[d]) > 0

VARIABLES
  what,       \* what each id was handed out for
  list,       \* items: each id's row, every setItems applied
  shown,      \* itemsRef: the rows as the callbacks read them
  dirty,      \* setItems was given a new array that is not rendered yet
  pump,       \* a render changed the items and its effect has not run
  busy,       \* busyLanesRef: the id running in each lane
  job,        \* each id's run(): "none", "between" sources, "calling", "over"
  at,         \* the source its run has got to
  cancelSent, \* ids a cancel is on its way to the plugin for
  waiting,    \* ids somebody waits for (settleWaiters)
  owed        \* lanes a rescan is owed in (rescanOwed)

queueVars == <<what, list, shown, dirty, pump, busy, job, at, cancelSent,
               waiting, owed>>
vars == <<queueVars, opsVars>>

Outcomes == {"done", "error", "canceled"}
Status == {"none", "queued", "active"} \cup Outcomes
Pending == {"queued", "active"}

Given(i) == what[i] # NoDownload
InLane(i, l) == Given(i) /\ LaneOf[what[i]] = l
Running(i) == job[i] \in {"between", "calling"}

TypeOK ==
  /\ OpsTypeOK
  /\ what \in [Id -> Download \cup {NoDownload}]
  /\ list \in [Id -> Status]
  /\ shown \in [Id -> Status]
  /\ dirty \in BOOLEAN
  /\ pump \in BOOLEAN
  /\ busy \in [Lane -> Id \cup {NoId}]
  /\ job \in [Id -> {"none", "between", "calling", "over"}]
  /\ at \in [Id -> Nat]
  /\ cancelSent \subseteq Id
  /\ waiting \subseteq Id
  /\ owed \subseteq Lane

Init ==
  /\ OpsInit
  /\ what = [i \in Id |-> NoDownload]
  /\ list = [i \in Id |-> "none"]
  /\ shown = [i \in Id |-> "none"]
  /\ dirty = FALSE
  /\ pump = FALSE
  /\ busy = [l \in Lane |-> NoId]
  /\ job = [i \in Id |-> "none"]
  /\ at = [i \in Id |-> 0]
  /\ cancelSent = {}
  /\ waiting = {}
  /\ owed = {}
-----------------------------------------------------------------------------
(* React. *)

\* A render applies every update and brings the ref up to date.
Render ==
  /\ dirty \/ shown # list
  /\ shown' = list
  /\ dirty' = FALSE
  /\ pump' = (pump \/ dirty)
  /\ UNCHANGED <<what, list, busy, job, at, cancelSent, waiting, owed, opsVars>>

\* As it would be if an item started did not take its lane.
StartableTogether(items, taken) ==
  {i \in Id : items[i] = "queued" /\ Given(i) /\ LaneOf[what[i]] \notin taken}

\* The items to start now: the first queued one of each lane with nothing
\* running.
Startable(items, taken) ==
  {i \in Id : /\ items[i] = "queued"
              /\ Given(i)
              /\ LaneOf[what[i]] \notin taken
              /\ \A j \in Id : (j < i /\ InLane(j, LaneOf[what[i]])) => items[j] # "queued"}

BusyLanes == {l \in Lane : busy[l] # NoId}

\* What becomes of a row when an id's status is patched: a row that is no
\* longer there stays away.
Patched(items, ids, status) ==
  [i \in Id |-> IF i \in ids /\ items[i] # "none" THEN status ELSE items[i]]

\* startNext, run by the effect.
StartNext ==
  LET next == Startable(shown, BusyLanes)
  IN /\ pump
     /\ pump' = FALSE
     /\ busy' = [l \in Lane |->
          IF \E i \in next : InLane(i, l) THEN CHOOSE i \in next : InLane(i, l) ELSE busy[l]]
     /\ list' = Patched(list, next, "active")
     /\ dirty' = (dirty \/ next # {})
     /\ job' = [i \in Id |-> IF i \in next THEN "between" ELSE job[i]]
     /\ at' = [i \in Id |-> IF i \in next THEN 1 ELSE at[i]]
     /\ UNCHANGED <<what, shown, cancelSent, waiting, owed, opsVars>>
-----------------------------------------------------------------------------
(* The screens. *)

FirstFree(i) ==
  /\ ~Given(i)
  /\ \A j \in Id : j < i => Given(j)

\* The row an equal request would join, as far as `items` says.
Already(items, d) == {i \in Id : what[i] = d /\ items[i] \in Pending}

\* enqueue of something that is on its way, and waitFor when `waits`.
AskAgain(d, waits) ==
  \E i \in Already(shown, d) :
    /\ \A j \in Already(shown, d) : i <= j
    /\ waiting' = IF waits THEN waiting \cup {i} ELSE waiting
    /\ UNCHANGED <<what, list, shown, dirty, pump, busy, job, at, cancelSent, owed, opsVars>>

\* enqueue of something new, and waitFor when `waits`.
AskNew(d, waits) ==
  /\ Already(shown, d) = {}
  /\ \E i \in Id :
       /\ FirstFree(i)
       /\ what' = [what EXCEPT ![i] = d]
       /\ shown' = [shown EXCEPT ![i] = "queued"]
       /\ IF Already(list, d) = {}
          THEN list' = [list EXCEPT ![i] = "queued"] /\ dirty' = TRUE
          ELSE UNCHANGED <<list, dirty>>
       /\ waiting' = IF waits THEN waiting \cup {i} ELSE waiting
  /\ UNCHANGED <<pump, busy, job, at, cancelSent, owed, opsVars>>

Ask(d, waits) == AskAgain(d, waits) \/ AskNew(d, waits)

\* As it would be if it read what is running off the rows.
StillOwedByRows(i, l, running, lanes) ==
  IF \E j \in Id : j # i /\ shown[j] \in Pending /\ InLane(j, l)
  THEN lanes ELSE lanes \ {l}

\* rescanIfLaneDone: the lanes still owed a rescan when i leaves lane l, which
\* runs `running`.
StillOwed(i, l, running, lanes) ==
  IF \/ running \notin {NoId, i}
     \/ \E j \in Id : j # i /\ shown[j] = "queued" /\ InLane(j, l)
  THEN lanes ELSE lanes \ {l}

\* cancel of an item that, as far as the ref says, is running.
CancelActive(i) ==
  /\ shown[i] = "active"
  /\ cancelSent' = cancelSent \cup {i}
  /\ UNCHANGED <<what, list, shown, dirty, pump, busy, job, at, waiting, owed, opsVars>>

\* cancel of one that, as far as the ref says, is still queued.
CancelQueued(i) ==
  LET l == LaneOf[what[i]]
  IN /\ shown[i] = "queued"
     /\ shown' = [shown EXCEPT ![i] = "none"]
     /\ list' = [list EXCEPT ![i] = "none"]
     /\ dirty' = TRUE
     /\ waiting' = waiting \ {i}
     /\ owed' = StillOwed(i, l, busy[l], owed)
     /\ UNCHANGED <<what, pump, busy, job, at, cancelSent, opsVars>>

CancelArrives(i) ==
  /\ i \in cancelSent
  /\ cancelSent' = cancelSent \ {i}
  /\ DlCancel(i)
  /\ UNCHANGED <<what, list, shown, dirty, pump, busy, job, at, waiting, owed>>
-----------------------------------------------------------------------------
(* run(). *)

\* The next source is asked.
Attempt(i) ==
  /\ job[i] = "between"
  /\ Call(i)
  /\ job' = [job EXCEPT ![i] = "calling"]
  /\ UNCHANGED <<what, list, shown, dirty, pump, busy, at, cancelSent, waiting, owed>>

\* That source failed and there is another.
NextSource(i) ==
  /\ job[i] = "calling"
  /\ stage[i] = "failed"
  /\ at[i] < Len(Sources[what[i]])
  /\ Take(i)
  /\ job' = [job EXCEPT ![i] = "between"]
  /\ at' = [at EXCEPT ![i] = @ + 1]
  /\ UNCHANGED <<what, list, shown, dirty, pump, busy, cancelSent, waiting, owed>>

\* The lanes owed a rescan once i has ended: a download that came adds its own.
OwedAfter(i, l, outcome) ==
  StillOwed(i, l, NoId, IF outcome = "done" THEN owed \cup {l} ELSE owed)

\* As it would be if only a run that came to its end freed the lane.
FinishKeepingLane(i, outcome) ==
  LET l == LaneOf[what[i]]
  IN /\ job' = [job EXCEPT ![i] = "over"]
     /\ busy' = IF outcome = "canceled" THEN busy ELSE [busy EXCEPT ![l] = NoId]
     /\ list' = Patched(list, {i}, outcome)
     /\ dirty' = TRUE
     /\ owed' = OwedAfter(i, l, outcome)
     /\ waiting' = waiting \ {i}
     /\ at' = [at EXCEPT ![i] = 0]
     /\ UNCHANGED <<what, shown, pump, cancelSent>>

\* The run is over: the lane is freed, the row patched, a rescan made if the
\* lane has nothing more to add, and everybody who waits is told.
Finish(i, outcome) ==
  LET l == LaneOf[what[i]]
  IN /\ job' = [job EXCEPT ![i] = "over"]
     /\ busy' = [busy EXCEPT ![l] = NoId]
     /\ list' = Patched(list, {i}, outcome)
     /\ dirty' = TRUE
     /\ owed' = OwedAfter(i, l, outcome)
     /\ waiting' = waiting \ {i}
     /\ at' = [at EXCEPT ![i] = 0]
     /\ UNCHANGED <<what, shown, pump, cancelSent>>

\* A timing assumption: React has rendered the start of a run by the time its
\* transfer can end.
StartIsRendered(i) == shown[i] # "queued"

Ends(i) ==
  /\ job[i] = "calling"
  /\ StartIsRendered(i)
  /\ Take(i)
  /\ \/ stage[i] = "ok" /\ Finish(i, "done")
     \/ stage[i] = "cancelled" /\ Finish(i, "canceled")
     \/ /\ stage[i] = "failed"
        /\ at[i] = Len(Sources[what[i]])
        /\ Finish(i, "error")

\* PRUNE_MS after its end the row goes.
Prune(i) ==
  /\ job[i] = "over"
  /\ list[i] \in Outcomes
  /\ list' = [list EXCEPT ![i] = "none"]
  /\ dirty' = TRUE
  /\ UNCHANGED <<what, shown, pump, busy, job, at, cancelSent, waiting, owed, opsVars>>

\* The plugin goes on, with the means its present source calls for.
PluginGoesOn(i) ==
  /\ IF stage[i] = "asked"
     THEN Register(i, Sources[what[i]][at[i]])
     ELSE Machinery(i)
  /\ UNCHANGED queueVars

TransferIsOver(i) == TransferEnds(i) /\ UNCHANGED queueVars

Next ==
  \/ Render
  \/ StartNext
  \/ \E d \in Download, waits \in BOOLEAN : Ask(d, waits)
  \/ \E i \in Id :
       \/ CancelActive(i)
       \/ CancelQueued(i)
       \/ CancelArrives(i)
       \/ Attempt(i)
       \/ NextSource(i)
       \/ Ends(i)
       \/ Prune(i)
       \/ PluginGoesOn(i)
       \/ TransferIsOver(i)

\* React renders and runs its effects, a message between the two processes
\* arrives, and the plugin's threads go on.  Nothing says that a transfer ends.
Fairness ==
  /\ WF_vars(Render)
  /\ WF_vars(StartNext)
  /\ \A i \in Id :
       /\ WF_vars(CancelArrives(i))
       /\ WF_vars(Attempt(i))
       /\ WF_vars(NextSource(i))
       /\ WF_vars(Ends(i))
       /\ WF_vars(PluginGoesOn(i))

Spec == Init /\ [][Next]_vars /\ Fairness
-----------------------------------------------------------------------------
(* Properties. *)

\* A lane runs one download at a time, although the item that the pump starts
\* still reads as queued until React renders, and one that has ended still
\* reads as running.
OneRunPerLane ==
  \A i, j \in Id :
    (Running(i) /\ Running(j) /\ LaneOf[what[i]] = LaneOf[what[j]]) => i = j

\* Two lanes may fall back to pr-downloader at once, and still no two of them
\* write the rapid pool together.
PoolHasOneWriter ==
  \A i, j \in Id : (child[i] = "alive" /\ child[j] = "alive") => i = j

\* A rescan that is owed is never forgotten: something in its lane is still to
\* end, or to be dropped, and will make it.
OwedIsComing ==
  \A l \in owed :
    \E i \in Id : InLane(i, l) /\ (Running(i) \/ shown[i] = "queued")

\* waitFor answers at once for a download that is over, rather than leaving
\* its caller to wait for ever.
NobodyWaitsForTheSettled ==
  \A i \in waiting : job[i] # "over"

\* A cancel that reaches a command ends it, wherever it catches it: in a
\* transfer that never ends, in the line for pr-downloader behind another that
\* never ends, or between the child's start and its being put where dl_cancel
\* can kill it.
CancelBites ==
  \A i \in Id :
    (stage[i] \in Registered /\ cancelled[i]) ~> (stage[i] \notin Registered)

\* As long as transfers end, everything queued gets its turn or is dropped.
QueuedGetsItsTurn ==
  (\A i \in Id : WF_vars(TransferIsOver(i)))
    => \A i \in Id : (list[i] = "queued") ~> (list[i] # "queued")
=============================================================================
