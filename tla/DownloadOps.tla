---------------------------- MODULE DownloadOps ----------------------------
(***************************************************************************)
(* The downloads plugin as the queue's screen sees it                      *)
(* (tauri-plugin-coilbox-downloads/src/lib.rs): one command at a time for  *)
(* an id, either a direct transfer in a chunk loop or a run of             *)
(* pr-downloader, and dl_cancel, which looks the id up in a registry.      *)
(*                                                                         *)
(* Runs of pr-downloader take turns over all lanes.  A run is spawned      *)
(* first and put where dl_cancel can kill it a little later, so a cancel   *)
(* may fall between, and only the watchdog thread still sees its flag.     *)
(***************************************************************************)
EXTENDS Naturals

CONSTANTS Id   \* operation ids

VARIABLES
  stage,      \* how far an id's command has got, an answer not taken included
  cancelled,  \* the cancel flag it has registered
  child       \* the pr-downloader child it has spawned

opsVars == <<stage, cancelled, child>>

Means == {"http", "sidecar"}
Replies == {"ok", "failed", "cancelled"}

\* Stages in which the id has an entry in the cancel registry.
Registered == {"http", "waiting", "spawned", "reading"}
\* Stages in which a run of pr-downloader holds SIDECAR_TURN.
HasTurn == {"spawned", "reading"}

OpsTypeOK ==
  /\ stage \in [Id -> {"idle", "asked"} \cup Registered \cup Replies]
  /\ cancelled \in [Id -> BOOLEAN]
  /\ child \in [Id -> {"none", "alive", "ok", "failed", "stalled", "killed"}]

OpsInit ==
  /\ stage = [i \in Id |-> "idle"]
  /\ cancelled = [i \in Id |-> FALSE]
  /\ child = [i \in Id |-> "none"]

\* The screen invokes the command.
Call(i) ==
  /\ stage[i] = "idle"
  /\ stage' = [stage EXCEPT ![i] = "asked"]
  /\ UNCHANGED <<cancelled, child>>

\* The command runs and registers fresh cancel controls.
Register(i, means) ==
  /\ stage[i] = "asked"
  /\ stage' = [stage EXCEPT ![i] = IF means = "http" THEN "http" ELSE "waiting"]
  /\ UNCHANGED <<cancelled, child>>

\* The command is over: unregistered, and its answer on its way.
Answer(i, r) ==
  /\ stage' = [stage EXCEPT ![i] = r]
  /\ cancelled' = [cancelled EXCEPT ![i] = FALSE]

HttpEnds(i) ==
  /\ stage[i] = "http"
  /\ \E r \in {"ok", "failed"} : Answer(i, r)
  /\ UNCHANGED child

\* The chunk loop polls the flag before every chunk.
HttpCancelled(i) ==
  /\ stage[i] = "http"
  /\ cancelled[i]
  /\ Answer(i, "cancelled")
  /\ UNCHANGED child

\* As it would be if the turn counted as taken only once the child is watched.
TakeTurnEarly(i) ==
  /\ stage[i] = "waiting"
  /\ ~cancelled[i]
  /\ \A j \in Id : stage[j] # "reading"
  /\ stage' = [stage EXCEPT ![i] = "spawned"]
  /\ child' = [child EXCEPT ![i] = "alive"]
  /\ UNCHANGED cancelled

TakeTurn(i) ==
  /\ stage[i] = "waiting"
  /\ ~cancelled[i]
  /\ \A j \in Id : stage[j] \notin HasTurn
  /\ \/ /\ stage' = [stage EXCEPT ![i] = "spawned"]
        /\ child' = [child EXCEPT ![i] = "alive"]
        /\ UNCHANGED cancelled
     \/ Answer(i, "failed") /\ UNCHANGED child       \* it could not be spawned

StopWaiting(i) ==
  /\ stage[i] = "waiting"
  /\ cancelled[i]
  /\ Answer(i, "cancelled")
  /\ UNCHANGED child

\* The child is in the slot dl_cancel looks at, its watchdog runs and its
\* output is being read.
Watched(i) ==
  /\ stage[i] = "spawned"
  /\ stage' = [stage EXCEPT ![i] = "reading"]
  /\ UNCHANGED <<cancelled, child>>

ChildEnds(i) ==
  /\ child[i] = "alive"
  /\ \E how \in {"ok", "failed"} : child' = [child EXCEPT ![i] = how]
  /\ UNCHANGED <<stage, cancelled>>

\* The watchdog kills a child that went quiet, and one that was cancelled.
WatchdogStalls(i) ==
  /\ stage[i] = "reading"
  /\ child[i] = "alive"
  /\ child' = [child EXCEPT ![i] = "stalled"]
  /\ UNCHANGED <<stage, cancelled>>

\* As it would be if dl_cancel alone killed a cancelled child.
WatchdogLeavesIt(i) ==
  /\ FALSE
  /\ child[i] = "alive"
  /\ UNCHANGED opsVars

WatchdogCancels(i) ==
  /\ stage[i] = "reading"
  /\ child[i] = "alive"
  /\ cancelled[i]
  /\ child' = [child EXCEPT ![i] = "killed"]
  /\ UNCHANGED <<stage, cancelled>>

\* The pipe has closed: reap the child and say how it went.
Verdict(i) ==
  /\ stage[i] = "reading"
  /\ child[i] # "alive"
  /\ Answer(i, IF child[i] = "stalled" THEN "failed"
               ELSE IF cancelled[i] THEN "cancelled"
               ELSE IF child[i] = "ok" THEN "ok" ELSE "failed")
  /\ child' = [child EXCEPT ![i] = "none"]

\* dl_cancel: nothing happens to an id that has no command running.
DlCancel(i) ==
  IF stage[i] \in Registered
  THEN /\ cancelled' = [cancelled EXCEPT ![i] = TRUE]
       /\ child' = [child EXCEPT ![i] =
            IF stage[i] = "reading" /\ @ = "alive" THEN "killed" ELSE @]
       /\ UNCHANGED stage
  ELSE UNCHANGED opsVars

\* The queue has taken the answer.
Take(i) ==
  /\ stage[i] \in Replies
  /\ stage' = [stage EXCEPT ![i] = "idle"]
  /\ UNCHANGED <<cancelled, child>>

\* What the plugin does by itself once it has been called, the end of a
\* transfer apart.
Machinery(i) ==
  \/ HttpCancelled(i)
  \/ TakeTurn(i)
  \/ StopWaiting(i)
  \/ Watched(i)
  \/ WatchdogCancels(i)
  \/ Verdict(i)

\* A transfer comes to its end, one way or another.
TransferEnds(i) ==
  \/ HttpEnds(i)
  \/ ChildEnds(i)
  \/ WatchdogStalls(i)
=============================================================================
