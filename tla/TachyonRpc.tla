----------------------------- MODULE TachyonRpc -----------------------------
(***************************************************************************)
(* Matching Tachyon responses to requests:                                 *)
(* tauri-plugin-coilbox-multiplayer/src/tachyon_rpc.rs.                    *)
(*                                                                         *)
(* Callers register in a shared table, wait for a place in a bounded queue *)
(* and then for an answer.  One task owns the socket: it reads, answers    *)
(* the server's own requests, sends what is queued, refuses what has       *)
(* waited too long, and fails whoever is left when the connection ends.    *)
(* Callers run beside it, so anything may happen between their steps and   *)
(* its own.  Sending waits for the rate limiter and for the network and    *)
(* may take any time.  The server answers what it got in any order, late   *)
(* or never.  What a request says, and what events carry, is left out.     *)
(***************************************************************************)
EXTENDS Naturals, Sequences

CONSTANTS
  Call,        \* requests, one for each time a caller asks
  NoCall,
  CommandOf,   \* the command of each
  Depth        \* SEND_QUEUE_DEPTH

Commands == {CommandOf[c] : c \in Call}

ASSUME RpcAssumption ==
  /\ NoCall \notin Call
  /\ Depth \in Nat \ {0}
  /\ DOMAIN CommandOf = Call

VARIABLES
  at,           \* where each caller is, or the outcome it was given
  age,          \* of each call: before send_by, before the deadline, past it
  pending,      \* the table: calls waiting for an outcome
  slot,         \* what each call's oneshot channel holds
  queue,        \* frames waiting for the socket
  unsupported,  \* commands the server has said it has not built
  loop,         \* where the task that owns the socket is
  held,         \* the request it is sending
  sent,         \* history: requests handed to the socket
  wire          \* requests whose response, if there is one, is still to be read

callerVars == <<at, age>>
tableVars == <<pending, slot>>
taskVars == <<queue, unsupported, loop, held, sent>>
vars == <<callerVars, tableVars, taskVars, wire>>

Verdicts == {"answered", "unsupported"}
Outcomes == Verdicts \cup {"timedOut", "notSent", "closed"}

TypeOK ==
  /\ at \in [Call -> {"idle", "queueing", "waiting"} \cup Outcomes]
  /\ age \in [Call -> {"fresh", "late", "past"}]
  /\ pending \subseteq Call
  /\ slot \in [Call -> {"empty"} \cup Outcomes]
  /\ queue \in Seq(Call)
  /\ unsupported \subseteq Commands
  /\ loop \in {"select", "sending", "answering", "ended", "drained", "over"}
  /\ held \in Call \cup {NoCall} /\ (loop = "sending" => held \in Call)
  /\ sent \subseteq Call /\ wire \subseteq Call

Init ==
  /\ at = [c \in Call |-> "idle"]
  /\ age = [c \in Call |-> "fresh"]
  /\ pending = {}
  /\ slot = [c \in Call |-> "empty"]
  /\ queue = <<>>
  /\ unsupported = {}
  /\ loop = "select" /\ held = NoCall
  /\ sent = {} /\ wire = {}
-----------------------------------------------------------------------------
(* A caller. *)

Goes(c, where) == at' = [at EXCEPT ![c] = where]

\* request() returns, and its Registered is dropped.
Told(c, outcome) ==
  /\ Goes(c, outcome)
  /\ pending' = pending \ {c}
  /\ UNCHANGED <<age, slot>>

\* request(), up to the place in the queue.
Request(c) ==
  /\ at[c] = "idle"
  /\ IF CommandOf[c] \in unsupported
     THEN Goes(c, "unsupported") /\ UNCHANGED pending
     ELSE Goes(c, "queueing") /\ pending' = pending \cup {c}
  /\ UNCHANGED <<age, slot, taskVars, wire>>

Enqueue(c) ==
  /\ at[c] = "queueing"
  /\ loop # "over"
  /\ Len(queue) < Depth
  /\ queue' = Append(queue, c)
  /\ Goes(c, "waiting")
  /\ UNCHANGED <<age, tableVars, unsupported, loop, held, sent, wire>>

\* The task has gone, and the queue with it.
FindsNoTask(c) ==
  /\ at[c] = "queueing"
  /\ loop = "over"
  /\ Told(c, "closed")
  /\ UNCHANGED <<taskVars, wire>>

\* As it would be if only the answer had a deadline.
QueuesUntilOver(c) ==
  /\ at[c] = "queueing"
  /\ age[c] # "fresh" /\ loop = "over"
  /\ Told(c, "notSent")
  /\ UNCHANGED <<taskVars, wire>>

\* send_by passes before there is a place.
GivesUpQueueing(c) ==
  /\ at[c] = "queueing"
  /\ age[c] # "fresh"
  /\ Told(c, "notSent")
  /\ UNCHANGED <<taskVars, wire>>

Hears(c) ==
  /\ at[c] = "waiting"
  /\ slot[c] # "empty"
  /\ Told(c, slot[c])
  /\ UNCHANGED <<taskVars, wire>>

TimesOut(c) ==
  /\ at[c] = "waiting"
  /\ slot[c] = "empty"
  /\ age[c] = "past"
  /\ Told(c, "timedOut")
  /\ UNCHANGED <<taskVars, wire>>

Ages(c) ==
  /\ at[c] \in {"queueing", "waiting"}
  /\ age[c] # "past"
  /\ age' = [age EXCEPT ![c] = IF @ = "fresh" THEN "late" ELSE "past"]
  /\ UNCHANGED <<at, tableVars, taskVars, wire>>
-----------------------------------------------------------------------------
(* The task that owns the socket. *)

\* The table's entry, if it is still there, is taken and given an outcome.
Resolve(c, outcome) ==
  /\ pending' = pending \ {c}
  /\ slot' = IF c \in pending THEN [slot EXCEPT ![c] = outcome] ELSE slot

\* route(), for a response: the server answers in any order, late or never.
ReadResponse(c, verdict) ==
  /\ loop = "select"
  /\ c \in wire
  /\ wire' = wire \ {c}
  /\ unsupported' = IF verdict = "unsupported" THEN unsupported \cup {CommandOf[c]} ELSE unsupported
  /\ Resolve(c, verdict)
  /\ UNCHANGED <<callerVars, queue, loop, held, sent>>

\* As it would be if the frame were sent however long it had waited.
TakesWhatever ==
  /\ loop = "select"
  /\ queue # <<>>
  /\ queue' = Tail(queue)
  /\ held' = Head(queue) /\ loop' = "sending" /\ sent' = sent \cup {Head(queue)}
  /\ UNCHANGED <<callerVars, tableVars, unsupported, wire>>

\* The next frame in the queue: refused if it is past send_by.
Takes ==
  /\ loop = "select"
  /\ queue # <<>>
  /\ queue' = Tail(queue)
  /\ IF age[Head(queue)] # "fresh"
     THEN Resolve(Head(queue), "notSent") /\ UNCHANGED <<loop, held, sent>>
     ELSE /\ held' = Head(queue) /\ loop' = "sending" /\ sent' = sent \cup {Head(queue)}
          /\ UNCHANGED tableVars
  /\ UNCHANGED <<callerVars, unsupported, wire>>

\* The socket has taken the request, or an answer to the server.
Sent ==
  /\ loop \in {"sending", "answering"}
  /\ loop' = "select"
  /\ held' = NoCall
  /\ wire' = IF loop = "sending" THEN wire \cup {held} ELSE wire
  /\ UNCHANGED <<callerVars, tableVars, queue, unsupported, sent>>

\* The read or the send fails, or the last client has gone.
ConnectionEnds ==
  /\ loop \in {"select", "sending", "answering"}
  /\ loop' = "ended"
  /\ held' = NoCall
  /\ UNCHANGED <<callerVars, tableVars, queue, unsupported, sent, wire>>

\* fail_pending.
FailPending ==
  /\ loop = "ended"
  /\ loop' = "drained"
  /\ slot' = [c \in Call |-> IF c \in pending THEN "closed" ELSE slot[c]]
  /\ pending' = {}
  /\ UNCHANGED <<callerVars, queue, unsupported, held, sent, wire>>

\* The task returns, and drops the queue.
Returns ==
  /\ loop = "drained"
  /\ loop' = "over"
  /\ queue' = <<>>
  /\ UNCHANGED <<callerVars, tableVars, unsupported, held, sent, wire>>
\* The server asks something itself, which the task answers at once.
ServerAsks ==
  /\ loop = "select"
  /\ loop' = "answering"
  /\ UNCHANGED <<callerVars, tableVars, queue, unsupported, held, sent, wire>>

Caller(c) ==
  Request(c) \/ Enqueue(c) \/ FindsNoTask(c) \/ GivesUpQueueing(c) \/ Hears(c) \/ TimesOut(c) \/ Ages(c)

Task == Takes \/ ServerAsks \/ Sent \/ ConnectionEnds \/ FailPending \/ Returns

Next ==
  \/ \E c \in Call : Caller(c)
  \/ \E c \in Call, verdict \in Verdicts : ReadResponse(c, verdict)
  \/ Task

\* Timers fire, and a caller that can go on does.  A send may hang for ever,
\* and neither the server nor the connection's end is to be counted on.
Fairness ==
  \A c \in Call :
    /\ WF_vars(GivesUpQueueing(c)) /\ WF_vars(Hears(c)) /\ WF_vars(TimesOut(c))
    /\ WF_vars(FindsNoTask(c)) /\ WF_vars(Ages(c))

Spec == Init /\ [][Next]_vars /\ Fairness
-----------------------------------------------------------------------------
(* Properties. *)

Over == loop \in {"ended", "drained", "over"}
CallOf(c) == IF at[c] = "queueing" THEN "waiting" ELSE at[c]

Promised == INSTANCE Calls WITH call <- [c \in Call |-> CallOf(c)], ended <- Over

\* Every outcome is true of its request: the queue, the table, the timers and
\* the task together keep what Calls promises a caller.
KeepsItsPromise == Promised!Spec

\* Every caller is told something, even when a send hangs for ever.
EveryCallEnds == \A c \in Call : at[c] \in {"queueing", "waiting"} ~> at[c] \in Outcomes

\* The table holds only calls that somebody is waiting on: no way for a
\* request to end leaves it growing.
TableIsTidy == \A c \in pending : at[c] \in {"queueing", "waiting"} /\ slot[c] = "empty"

\* fail_pending: "so no caller is left waiting for an answer that can no longer
\* arrive".
NobodyLeftWaiting ==
  \A c \in Call : loop = "over" /\ at[c] = "waiting" => slot[c] # "empty"
=============================================================================
