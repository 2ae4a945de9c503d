-------------------------- MODULE TachyonRpcProofs --------------------------
(***************************************************************************)
(* What holds of Tachyon requests for any number of callers and any depth  *)
(* of queue: the state is well formed, the table keeps only calls somebody *)
(* is waiting on, and the connection keeps what Calls promises a caller.   *)
(***************************************************************************)
EXTENDS TachyonRpc, TLAPS

(* The callers, the table, the queue, the task and the wire are well       *)
(* formed.                                                                 *)
THEOREM TypeCorrect == Spec => []TypeOK
<1>1. Init => TypeOK
  BY RpcAssumption DEF Init, TypeOK, Outcomes, Verdicts
<1>2. TypeOK /\ [Next]_vars => TypeOK'
  <2> SUFFICES ASSUME TypeOK, [Next]_vars PROVE TypeOK'
    OBVIOUS
  <2> USE DEF TypeOK, Outcomes, Verdicts, callerVars, tableVars, taskVars
  <2>1. CASE UNCHANGED vars
    BY <2>1 DEF vars
  <2>2. ASSUME NEW c \in Call, Caller(c) PROVE TypeOK'
    <3>1. CASE Request(c) \/ Enqueue(c)
      BY <3>1 DEF Request, Enqueue, Goes
    <3>2. CASE FindsNoTask(c) \/ GivesUpQueueing(c) \/ Hears(c) \/ TimesOut(c)
      BY <3>2 DEF FindsNoTask, GivesUpQueueing, Hears, TimesOut, Told, Goes
    <3>3. CASE Ages(c)
      BY <3>3 DEF Ages
    <3>. QED  BY <2>2, <3>1, <3>2, <3>3 DEF Caller
  <2>3. ASSUME NEW c \in Call, NEW verdict \in Verdicts, ReadResponse(c, verdict) PROVE TypeOK'
    BY <2>3 DEF ReadResponse, Resolve, Commands
  <2>4. CASE Takes
    <3>1. Head(queue) \in Call /\ Tail(queue) \in Seq(Call)
      BY <2>4 DEF Takes
    <3>. QED  BY <2>4, <3>1 DEF Takes, Resolve
  <2>5. CASE Sent
    BY <2>5, RpcAssumption DEF Sent
  <2>6. CASE ServerAsks \/ ConnectionEnds
    BY <2>6 DEF ServerAsks, ConnectionEnds
  <2>7. CASE FailPending
    BY <2>7 DEF FailPending
  <2>8. CASE Returns
    <3>1. queue' \in Seq(Call)
      BY <2>8 DEF Returns
    <3>. QED  BY <2>8, <3>1 DEF Returns
  <2>. QED  BY <2>1, <2>2, <2>3, <2>4, <2>5, <2>6, <2>7, <2>8 DEF Next, Task
<1>. QED  BY <1>1, <1>2, PTL DEF Spec
-----------------------------------------------------------------------------
(* The slot of a call that nobody has made is empty.                       *)
Untouched == \A c \in Call : at[c] = "idle" => slot[c] = "empty"
TidyInv == TableIsTidy /\ Untouched

(* The table holds only calls somebody is waiting on: however a request    *)
(* ends, its entry goes.                                                   *)
THEOREM TableKept == Spec => []TableIsTidy
<1>1. Init => TidyInv
  BY DEF Init, TidyInv, TableIsTidy, Untouched
<1>2. TypeOK /\ TidyInv /\ [Next]_vars => TidyInv'
  <2> SUFFICES ASSUME TypeOK, TidyInv, [Next]_vars PROVE TidyInv'
    OBVIOUS
  <2> USE DEF TypeOK, TidyInv, TableIsTidy, Untouched, callerVars, tableVars, taskVars
  <2>1. CASE UNCHANGED vars
    BY <2>1 DEF vars
  <2>2. ASSUME NEW c \in Call, Caller(c) PROVE TidyInv'
    <3>1. CASE Request(c) \/ Enqueue(c)
      BY <2>2, <3>1 DEF Request, Enqueue, Goes
    <3>2. CASE FindsNoTask(c) \/ GivesUpQueueing(c) \/ Hears(c) \/ TimesOut(c)
      <4>1. PICK outcome \in Outcomes : Told(c, outcome)
        BY <3>2 DEF FindsNoTask, GivesUpQueueing, Hears, TimesOut, Outcomes, Verdicts
      <4>2. outcome # "idle"
        BY DEF Outcomes, Verdicts
      <4>. QED  BY <4>1, <4>2 DEF Told, Goes
    <3>3. CASE Ages(c)
      BY <3>3 DEF Ages
    <3>. QED  BY <2>2, <3>1, <3>2, <3>3 DEF Caller
  <2>3. ASSUME NEW c \in Call, NEW verdict \in Verdicts, ReadResponse(c, verdict)
        PROVE  TidyInv'
    BY <2>3 DEF ReadResponse, Resolve
  <2>4. CASE Task
    BY <2>4 DEF Task, Takes, Resolve, Sent, ServerAsks, ConnectionEnds, FailPending, Returns
  <2>. QED  BY <2>1, <2>2, <2>3, <2>4 DEF Next
<1>3. TidyInv => TableIsTidy
  BY DEF TidyInv
<1>. QED  BY <1>1, <1>2, <1>3, TypeCorrect, PTL DEF Spec
-----------------------------------------------------------------------------
(* The promise.  What the queue, the slots and the wire say of a request   *)
(* is true of it.                                                          *)
Queued(c) == \E i \in 1 .. Len(queue) : queue[i] = c

QueuedOnce == \A i, j \in 1 .. Len(queue) : queue[i] = queue[j] => i = j

(* A request in the queue has not gone out, and its caller is waiting for  *)
(* it, or has waited past the deadline, or has been told of the end.       *)
QueueUnsent ==
  \A c \in Call : Queued(c) =>
    /\ c \notin sent
    /\ slot[c] \in {"empty", "closed"}
    /\ \/ at[c] = "waiting"
       \/ at[c] = "timedOut" /\ age[c] = "past"
       \/ at[c] = "closed" /\ Over

(* One that has no place in the queue yet has not been near the socket.    *)
UnqueuedUnsent ==
  \A c \in Call : at[c] \in {"idle", "queueing"} =>
    c \notin sent /\ ~Queued(c) /\ slot[c] \in {"empty", "closed"}

SlotsAreTrue ==
  \A c \in Call :
    /\ slot[c] \in Verdicts => c \in sent
    /\ slot[c] = "notSent" => c \notin sent /\ ~Queued(c)
    /\ slot[c] = "closed" => Over

(* What comes back is about requests that went out.                        *)
WireIsSent ==
  /\ wire \subseteq sent
  /\ loop = "sending" => held \in sent
  /\ \A command \in unsupported : \E c \in sent : CommandOf[c] = command

TruthInv == QueuedOnce /\ QueueUnsent /\ UnqueuedUnsent /\ SlotsAreTrue /\ WireIsSent

(* The queue after a request is added, and after one is taken.             *)
LEMMA QueueGrows ==
  ASSUME TypeOK, NEW c \in Call, queue' = Append(queue, c)
  PROVE  /\ \A d \in Call : Queued(d)' <=> Queued(d) \/ d = c
         /\ QueuedOnce /\ ~Queued(c) => QueuedOnce'
<1>1. Len(queue') = Len(queue) + 1 /\ queue'[Len(queue) + 1] = c
  BY DEF TypeOK
<1>2. \A i \in 1 .. Len(queue) : queue'[i] = queue[i]
  BY DEF TypeOK
<1>3. Len(queue) \in Nat
  BY DEF TypeOK
<1>4. ASSUME NEW d \in Call PROVE Queued(d)' <=> Queued(d) \/ d = c
  BY <1>1, <1>2, <1>3 DEF Queued
<1>5. ASSUME QueuedOnce, ~Queued(c) PROVE QueuedOnce'
  BY <1>1, <1>2, <1>3, <1>5 DEF Queued, QueuedOnce
<1>. QED  BY <1>4, <1>5

LEMMA QueueShrinks ==
  ASSUME TypeOK, queue # <<>>, NEW c \in Call, c = Head(queue), queue' = Tail(queue)
  PROVE  /\ Queued(c)
         /\ \A d \in Call : Queued(d)' => Queued(d)
         /\ QueuedOnce => QueuedOnce' /\ ~Queued(c)'
<1>1. Len(queue) \in Nat \ {0} /\ c = queue[1]
  BY DEF TypeOK
<1>2. Len(queue') = Len(queue) - 1 /\ \A i \in 1 .. Len(queue') : queue'[i] = queue[i + 1]
  BY <1>1 DEF TypeOK
<1>3. Queued(c)
  BY <1>1 DEF Queued
<1>4. ASSUME NEW d \in Call, Queued(d)' PROVE Queued(d)
  <2>1. PICK i \in 1 .. Len(queue') : queue'[i] = d
    BY <1>4 DEF Queued
  <2>. QED  BY <1>1, <1>2, <2>1 DEF Queued
<1>5. ASSUME QueuedOnce PROVE QueuedOnce'
  BY <1>1, <1>2, <1>5 DEF QueuedOnce
<1>6. ASSUME QueuedOnce PROVE ~Queued(c)'
  BY <1>1, <1>2, <1>6 DEF Queued, QueuedOnce
<1>. QED  BY <1>3, <1>4, <1>5, <1>6
-----------------------------------------------------------------------------
(* No step makes any of it untrue.                                         *)
LEMMA TruthKept == ASSUME TypeOK, TruthInv, [Next]_vars PROVE TruthInv'
<1> USE DEF TypeOK, TruthInv, Outcomes, Verdicts, callerVars, tableVars, taskVars
<1>1. CASE UNCHANGED vars
  BY <1>1 DEF vars, QueuedOnce, QueueUnsent, UnqueuedUnsent, SlotsAreTrue, WireIsSent, Queued, Over
<1>2. ASSUME NEW c \in Call, Caller(c), ~Enqueue(c) PROVE TruthInv'
  <2> USE <1>2 DEF Caller, Request, FindsNoTask, GivesUpQueueing, Hears, TimesOut, Ages, Told, Goes
  <2>1. UNCHANGED <<slot, taskVars, wire>>
    OBVIOUS
  <2>2. (Over' <=> Over) /\ \A d \in Call : Queued(d)' <=> Queued(d)
    BY <2>1 DEF Over, Queued
  <2>3. QueuedOnce' /\ SlotsAreTrue' /\ WireIsSent'
    BY <2>1, <2>2 DEF QueuedOnce, SlotsAreTrue, WireIsSent
  <2>4. QueueUnsent'
    BY <2>1, <2>2 DEF QueueUnsent, UnqueuedUnsent, SlotsAreTrue, Over
  <2>5. UnqueuedUnsent'
    BY <2>1, <2>2 DEF UnqueuedUnsent
  <2>. QED  BY <2>3, <2>4, <2>5
<1>3. ASSUME NEW c \in Call, Enqueue(c) PROVE TruthInv'
  <2> USE <1>3 DEF Enqueue, Goes
  <2>1. ~Queued(c)
    BY DEF UnqueuedUnsent
  <2>2. QueuedOnce' /\ \A d \in Call : Queued(d)' <=> Queued(d) \/ d = c
    BY <2>1, QueueGrows
  <2>3. (Over' <=> Over) /\ WireIsSent'
    BY DEF Over, WireIsSent
  <2>4. QueueUnsent' /\ UnqueuedUnsent' /\ SlotsAreTrue'
    BY <2>2, <2>3 DEF QueueUnsent, UnqueuedUnsent, SlotsAreTrue
  <2>. QED  BY <2>2, <2>3, <2>4
<1>4. ASSUME NEW c \in Call, NEW verdict \in Verdicts, ReadResponse(c, verdict) PROVE TruthInv'
  <2> USE <1>4 DEF ReadResponse, Resolve
  <2>1. (Over' <=> Over) /\ QueuedOnce' /\ \A d \in Call : Queued(d)' <=> Queued(d)
    BY DEF Over, QueuedOnce, Queued
  <2>2. c \in sent
    BY DEF WireIsSent
  <2>3. QueueUnsent' /\ UnqueuedUnsent' /\ SlotsAreTrue'
    BY <2>1, <2>2 DEF QueueUnsent, UnqueuedUnsent, SlotsAreTrue
  <2>4. WireIsSent'
    BY <2>2 DEF WireIsSent
  <2>. QED  BY <2>1, <2>3, <2>4
<1>5. CASE Takes
  <2> USE <1>5 DEF Takes
  <2>1. PICK c \in Call : c = Head(queue)
    OBVIOUS
  <2>2. /\ Queued(c) /\ ~Queued(c)' /\ QueuedOnce'
        /\ \A d \in Call : Queued(d)' => Queued(d)
    BY <2>1, QueueShrinks
  <2>3. c \notin sent /\ slot[c] \in {"empty", "closed"}
    BY <2>2 DEF QueueUnsent
  <2>4. CASE age[c] # "fresh"
    <3>1. (Over' <=> Over) /\ WireIsSent'
      BY <2>1, <2>4 DEF Over, WireIsSent, Resolve
    <3>2. \A d \in Call : slot'[d] = slot[d] \/ (d = c /\ slot'[d] = "notSent")
      BY <2>1, <2>4 DEF Resolve
    <3>3. UNCHANGED <<at, age, sent>>
      BY <2>1, <2>4
    <3>4. at[c] \notin {"idle", "queueing"}
      BY <2>2 DEF UnqueuedUnsent
    <3>5. QueueUnsent' /\ UnqueuedUnsent' /\ SlotsAreTrue'
      BY <2>2, <2>3, <3>1, <3>2, <3>3, <3>4 DEF QueueUnsent, UnqueuedUnsent, SlotsAreTrue
    <3>. QED  BY <2>2, <3>1, <3>5
  <2>5. CASE age[c] = "fresh"
    <3>1. sent' = sent \cup {c} /\ UNCHANGED <<at, age, slot>> /\ ~Over /\ ~Over'
      BY <2>1, <2>5 DEF Over
    <3>2. WireIsSent'
      BY <2>1, <2>5 DEF WireIsSent
    <3>3. at[c] \notin {"idle", "queueing"}
      BY <2>2 DEF UnqueuedUnsent
    <3>4. QueueUnsent' /\ UnqueuedUnsent' /\ SlotsAreTrue'
      BY <2>2, <2>3, <3>1, <3>3 DEF QueueUnsent, UnqueuedUnsent, SlotsAreTrue
    <3>. QED  BY <2>2, <3>2, <3>4
  <2>. QED  BY <2>4, <2>5
<1>6. CASE Sent \/ ServerAsks \/ ConnectionEnds
  <2> USE <1>6 DEF Sent, ServerAsks, ConnectionEnds
  <2>1. UNCHANGED <<at, age, slot, queue, sent>>
    OBVIOUS
  <2>2. (Over => Over') /\ QueuedOnce' /\ \A d \in Call : Queued(d)' <=> Queued(d)
    BY <2>1 DEF Over, QueuedOnce, Queued
  <2>3. QueueUnsent' /\ UnqueuedUnsent' /\ SlotsAreTrue'
    BY <2>1, <2>2 DEF QueueUnsent, UnqueuedUnsent, SlotsAreTrue
  <2>4. WireIsSent'
    BY DEF WireIsSent
  <2>. QED  BY <2>2, <2>3, <2>4
<1>7. CASE FailPending
  <2> USE <1>7 DEF FailPending
  <2>1. Over /\ Over' /\ QueuedOnce' /\ \A d \in Call : Queued(d)' <=> Queued(d)
    BY DEF Over, QueuedOnce, Queued
  <2>2. QueueUnsent' /\ UnqueuedUnsent' /\ SlotsAreTrue' /\ WireIsSent'
    BY <2>1 DEF QueueUnsent, UnqueuedUnsent, SlotsAreTrue, WireIsSent
  <2>. QED  BY <2>1, <2>2
<1>8. CASE Returns
  <2> USE <1>8 DEF Returns
  <2>1. Over /\ Over' /\ QueuedOnce' /\ \A d \in Call : ~Queued(d)'
    BY DEF Over, QueuedOnce, Queued
  <2>2. QueueUnsent' /\ UnqueuedUnsent' /\ SlotsAreTrue' /\ WireIsSent'
    BY <2>1 DEF QueueUnsent, UnqueuedUnsent, SlotsAreTrue, WireIsSent
  <2>. QED  BY <2>1, <2>2
<1>. QED
  BY <1>1, <1>2, <1>3, <1>4, <1>5, <1>6, <1>7, <1>8 DEF Next, Task, Caller

THEOREM TruthAlways == Spec => []TruthInv
<1>1. Init => TruthInv
  BY DEF Init, TruthInv, QueuedOnce, QueueUnsent, UnqueuedUnsent, SlotsAreTrue, WireIsSent, Queued,
         Verdicts
<1>2. TypeOK /\ TruthInv /\ [Next]_vars => TruthInv'
  BY TruthKept
<1>. QED  BY <1>1, <1>2, TypeCorrect, PTL DEF Spec
-----------------------------------------------------------------------------
(* Every step of a connection is one that Calls allows, or none of its.    *)
LEMMA StepsArePromised ==
  ASSUME TypeOK, TruthInv, [Next]_vars
  PROVE  [Promised!Next]_(Promised!vars)
<1> DEFINE call == [c \in Call |-> CallOf(c)]
<1> USE DEF TypeOK, TruthInv, Outcomes, Verdicts, callerVars, tableVars, taskVars
<1>1. ASSUME UNCHANGED <<at, sent>>, Over' <=> Over PROVE UNCHANGED Promised!vars
  <2>1. call' = call
    BY <1>1 DEF CallOf
  <2>. QED  BY <1>1, <2>1 DEF Promised!vars
<1>2. CASE UNCHANGED vars
  BY <1>1, <1>2 DEF vars, Over
<1>3. ASSUME NEW c \in Call, Caller(c) PROVE [Promised!Next]_(Promised!vars)
  <2>1. UNCHANGED <<sent, loop>> /\ (Over' <=> Over)
    BY <1>3 DEF Caller, Request, Enqueue, FindsNoTask, GivesUpQueueing, Hears, TimesOut, Ages, Over
  <2>2. ASSUME NEW what, at' = [at EXCEPT ![c] = what], what # "queueing"
        PROVE  Promised!Becomes(c, what)
    BY <2>1, <2>2 DEF Promised!Becomes, CallOf
  <2>3. CASE Request(c)
    <3>1. CASE CommandOf[c] \in unsupported
      <4>1. Promised!Becomes(c, "unsupported")
        BY <2>2, <2>3, <3>1 DEF Request, Goes
      <4>2. call[c] = "idle" /\ \E d \in sent : CommandOf[d] = CommandOf[c]
        BY <2>3, <3>1 DEF Request, CallOf, WireIsSent
      <4>. QED  BY <4>1, <4>2 DEF Promised!Next, Promised!AskInVain
    <3>2. CASE CommandOf[c] \notin unsupported
      <4>1. Promised!Becomes(c, "waiting")
        BY <2>1, <2>3, <3>2 DEF Request, Goes, Promised!Becomes, CallOf
      <4>2. call[c] = "idle"
        BY <2>3 DEF Request, CallOf
      <4>. QED  BY <4>1, <4>2 DEF Promised!Next, Promised!Ask
    <3>. QED  BY <3>1, <3>2
  <2>4. CASE Enqueue(c)
    <3>1. call' = call
      BY <2>4 DEF Enqueue, Goes, CallOf
    <3>. QED  BY <2>1, <3>1 DEF Promised!vars
  <2>5. CASE Ages(c)
    BY <1>1, <2>1, <2>5 DEF Ages
  <2>6. ASSUME NEW outcome \in Outcomes, call[c] = "waiting", at' = [at EXCEPT ![c] = outcome],
               outcome \in Verdicts => c \in sent,
               outcome = "notSent" => c \notin sent,
               outcome = "closed" => Over
        PROVE  Promised!Next
    <3>1. Promised!Becomes(c, outcome)
      BY <2>2, <2>6
    <3>2. outcome \in Promised!Outcomes
      BY DEF Promised!Outcomes
    <3>. QED  BY <2>6, <3>1, <3>2 DEF Promised!Next, Promised!Tell
  <2>7. CASE FindsNoTask(c)
    BY <2>6, <2>7 DEF FindsNoTask, Told, Goes, CallOf, Over
  <2>8. CASE GivesUpQueueing(c)
    BY <2>6, <2>8 DEF GivesUpQueueing, Told, Goes, CallOf, UnqueuedUnsent
  <2>9. CASE Hears(c)
    <3>1. slot[c] \in Outcomes
      BY <2>9 DEF Hears
    <3>. QED  BY <2>6, <2>9, <3>1 DEF Hears, Told, Goes, CallOf, SlotsAreTrue
  <2>10. CASE TimesOut(c)
    BY <2>6, <2>10 DEF TimesOut, Told, Goes, CallOf
  <2>. QED  BY <1>3, <2>3, <2>4, <2>5, <2>7, <2>8, <2>9, <2>10 DEF Caller
<1>4. ASSUME NEW c \in Call, NEW verdict \in Verdicts, ReadResponse(c, verdict)
      PROVE  UNCHANGED Promised!vars
  BY <1>1, <1>4 DEF ReadResponse, Over
<1>5. CASE Takes
  <2>1. PICK c \in Call : c = Head(queue)
    BY <1>5 DEF Takes
  <2>2. Queued(c)
    BY <1>5, <2>1, QueueShrinks DEF Takes
  <2>3. CASE age[c] # "fresh"
    BY <1>1, <1>5, <2>1, <2>3 DEF Takes, Over
  <2>4. CASE age[c] = "fresh"
    <3>1. ~Over /\ ~Over' /\ sent' = sent \cup {c} /\ at' = at
      BY <1>5, <2>1, <2>4 DEF Takes, Over
    <3>2. call[c] = "waiting" /\ c \notin sent
      BY <2>2, <2>4, <3>1 DEF QueueUnsent, CallOf
    <3>3. call' = call
      BY <3>1 DEF CallOf
    <3>4. Over' = Over
      BY <3>1 DEF Over
    <3>. QED  BY <3>1, <3>2, <3>3, <3>4 DEF Promised!Next, Promised!Send
  <2>. QED  BY <2>3, <2>4
<1>6. CASE ConnectionEnds
  <2>1. call' = call /\ sent' = sent /\ Over'
    BY <1>6 DEF ConnectionEnds, CallOf, Over
  <2>. QED  BY <2>1 DEF Promised!Next, Promised!End
<1>7. CASE Sent \/ ServerAsks \/ FailPending \/ Returns
  BY <1>1, <1>7 DEF Sent, ServerAsks, FailPending, Returns, Over
<1>. QED  BY <1>2, <1>3, <1>4, <1>5, <1>6, <1>7 DEF Next, Task

(* The queue, the table, the timers and the task together keep what Calls  *)
(* promises: an outcome is true of its request, which goes out once.       *)
THEOREM PromiseKept == Spec => KeepsItsPromise
<1>1. Init => Promised!Init
  BY DEF Init, Promised!Init, CallOf, Over
<1>2. TypeOK /\ TruthInv /\ [Next]_vars => [Promised!Next]_(Promised!vars)
  BY StepsArePromised
<1>. QED
  BY <1>1, <1>2, TypeCorrect, TruthAlways, PTL DEF Spec, KeepsItsPromise, Promised!Spec
=============================================================================
