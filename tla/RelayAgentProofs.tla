-------------------------- MODULE RelayAgentProofs --------------------------
(***************************************************************************)
(* Proofs about RelayAgent, for every set of addresses, engines and        *)
(* credentials, every set of requests Coilbox may write, every queue       *)
(* length and every idle timeout; and, at the end, about RunFile, the file *)
(* such an agent is found by, for every number of agents.                  *)
(***************************************************************************)
EXTENDS RelayAgent, RunFile, SequenceTheorems, WellFoundedInduction, TLAPS

Allows == {a \in Asks : a.kind = "allow"}

(* Only requests that need a relay ever wait for one.                      *)
OnlyAllowsWait ==
  /\ queue \in Seq(Allows)
  /\ inHand \in Allows \cup {NoAsk}
  /\ serving \in Allows \cup {NoAsk}

LEMMA HeadIsAsk ==
  ASSUME pipe \in Seq(Asks), pipe # << >>
  PROVE  Head(pipe) \in Asks /\ Tail(pipe) \in Seq(Asks)
BY HeadTailProperties

-----------------------------------------------------------------------------
(* Every variable keeps its type: no step puts an engine where an address  *)
(* belongs or queues a request the reader should have answered itself.     *)
THEOREM TypeCorrect == Spec => [](TypeOK /\ OnlyAllowsWait)
<1> DEFINE T == TypeOK /\ OnlyAllowsWait
<1>1. Init => T
  <2>1. << >> \in Seq(Asks) /\ << >> \in Seq(Allows)
    BY EmptySeq
  <2> SUFFICES ASSUME Init PROVE T
    OBVIOUS
  <2>2. /\ pipeOpen \in BOOLEAN /\ slot \in BOOLEAN /\ asked \in BOOLEAN
        /\ coilboxGone \in BOOLEAN /\ battleOver \in BOOLEAN
        /\ askedInANote \in BOOLEAN /\ heardAPlayer \in BOOLEAN
    BY DEF Init, StoppingInit
  <2>. QED
    BY <2>1, <2>2, RelayAgentAssumption, StoppingAssumption
    DEF Init, StoppingInit, TypeOK, StoppingTypeOK, LoopStates, OnlyAllowsWait
<1>2. T /\ [Next]_vars => T'
  <2> SUFFICES ASSUME T, [Next]_vars PROVE T'
    OBVIOUS
  <2> USE RelayAgentAssumption, StoppingAssumption DEF TypeOK, StoppingTypeOK, LoopStates
  <2>1. CASE UNCHANGED vars
    BY <2>1 DEF OnlyAllowsWait, vars, pipeVars, readerVars, credVars, relayVars, carryVars,
            endVars, stoppingVars
  <2>2. ASSUME NEW a \in Asks, Send(a) PROVE T'
    <3>1. pipe' \in Seq(Asks)
      BY <2>2, AppendProperties DEF Send
    <3>. QED
      BY <2>2, <3>1 DEF OnlyAllowsWait, Send, readerVars, credVars, relayVars, carryVars,
            endVars, stoppingVars
  <2>3. CASE CoilboxCloses
    <3>1. pipeOpen' \in BOOLEAN
      BY <2>3 DEF CoilboxCloses
    <3>. QED
      BY <2>3, <3>1 DEF OnlyAllowsWait, CoilboxCloses, readerVars, credVars, relayVars, carryVars,
            endVars, stoppingVars
  <2>4. ASSUME NEW pid \in Pid, LaunchEngine(pid) \/ EngineEnds(pid) PROVE T'
    BY <2>4 DEF OnlyAllowsWait, LaunchEngine, EngineEnds, EngineStarts, EngineExits, pipeVars,
            readerVars, credVars, relayVars, carryVars, endVars, flags
  <2>5. CASE LeaveNote
    BY <2>5 DEF OnlyAllowsWait, LeaveNote, pipeVars, readerVars, credVars, relayVars, carryVars,
            endVars, stoppingVars
  <2>6. CASE Reader
    <3>1. ASSUME NEW k \in Kinds, Reading(k)
          PROVE  /\ Head(pipe) \in Asks /\ Head(pipe).kind = k
                 /\ pipe' \in Seq(Asks)
      BY <3>1, HeadIsAsk DEF Reading
    <3> USE <3>1 DEF Kinds, Reading, Answer, relayVars, carryVars, endVars
    <3>2. CASE ReadWatch
      BY <3>2 DEF OnlyAllowsWait, ReadWatch, EngineIs
    <3>3. CASE ReadStop
      BY <3>3 DEF OnlyAllowsWait, ReadStop, CoilboxAsked
    <3>4. CASE ReadOver
      BY <3>4 DEF OnlyAllowsWait, ReadOver, BattleIsOver
    <3>5. CASE ReadRenew
      BY <3>5 DEF OnlyAllowsWait, ReadRenew, stoppingVars
    <3>6. CASE ReadUnreadable
      BY <3>6 DEF OnlyAllowsWait, ReadUnreadable, stoppingVars
    <3>7. CASE ReadAllow
      <4>1. Head(pipe) \in Allows /\ Head(pipe) \in Asks /\ pipe' \in Seq(Asks)
        BY <3>7 DEF ReadAllow, Allows
      <4>2. /\ Append(queue, Head(pipe)) \in Seq(Asks)
            /\ Append(queue, Head(pipe)) \in Seq(Allows)
        <5> HIDE DEF Reading
        <5>. QED  BY <4>1, AppendProperties DEF OnlyAllowsWait
      <4>3. queue' \in Seq(Asks) /\ queue' \in Seq(Allows)
        BY <3>7, <4>2 DEF ReadAllow, OnlyAllowsWait
      <4>. QED  BY <3>7, <4>1, <4>3 DEF ReadAllow, OnlyAllowsWait, stoppingVars
    <3>8. CASE QueueInHand
      <4>1. inHand \in Allows /\ inHand \in Asks
        BY <3>8 DEF QueueInHand, Holding, OnlyAllowsWait, Allows
      <4>2. queue' \in Seq(Asks) /\ queue' \in Seq(Allows)
        BY <3>8, <4>1, AppendProperties DEF QueueInHand, OnlyAllowsWait
      <4>. QED  BY <3>8, <4>2 DEF QueueInHand, OnlyAllowsWait, stoppingVars, pipeVars, credVars
    <3>9. CASE ReadEnd
      BY <3>9 DEF OnlyAllowsWait, ReadEnd, CoilboxHasGone, pipeVars, credVars
    <3>. QED
      BY <2>6, <3>2, <3>3, <3>4, <3>5, <3>6, <3>7, <3>8, <3>9 DEF Reader
  <2>7. CASE RelayLoop
    <3> USE DEF InLoop, pipeVars, endVars
    <3>1. CASE RelayGranted
      BY <3>1 DEF OnlyAllowsWait, RelayGranted, readerVars, carryVars, stoppingVars
    <3>2. CASE RelayOpened
      BY <3>2 DEF OnlyAllowsWait, RelayOpened, Everybody, readerVars, carryVars, stoppingVars
    <3>3. CASE OpenRefused
      BY <3>3 DEF OnlyAllowsWait, OpenRefused, readerVars, carryVars, stoppingVars
    <3>4. CASE OpenFails
      BY <3>4 DEF OnlyAllowsWait, OpenFails, readerVars, carryVars, stoppingVars
    <3>5. ASSUME NEW ip \in Ip, LetThrough(ip) PROVE T'
      BY <3>5 DEF OnlyAllowsWait, LetThrough, CarriedOut, readerVars, carryVars,
                  stoppingVars, flags
    <3>6. CASE StartCarrying
      BY <3>6 DEF OnlyAllowsWait, StartCarrying, readerVars, carryVars, stoppingVars
    <3>7. CASE TakeRequest
      <4>1. /\ Head(queue) \in Allows /\ Head(queue) \in Asks
            /\ queue' \in Seq(Asks) /\ queue' \in Seq(Allows)
        BY <3>7, HeadTailProperties DEF TakeRequest, OnlyAllowsWait
      <4>2. Head(queue).what \in Ip
        BY <4>1 DEF Allows
      <4>. QED
        BY <3>7, <4>1, <4>2 DEF TakeRequest, Remember, OnlyAllowsWait, stoppingVars
    <3>8. CASE LetJoinerThrough
      <4>1. serving \in Asks /\ serving.what \in Ip
        BY <3>8 DEF LetJoinerThrough, OnlyAllowsWait, Allows
      <4>. QED
        BY <3>8, <4>1 DEF LetJoinerThrough, Answer, CarriedOut, OnlyAllowsWait,
                          stoppingVars, flags
    <3>9. CASE TakeBack
      <4>1. slot' \in BOOLEAN /\ loop' \in LoopStates
        BY <3>9 DEF TakeBack
      <4>. QED
        BY <3>9, <4>1 DEF OnlyAllowsWait, TakeBack, readerVars, carryVars, stoppingVars
    <3>10. CASE BackGiven
      BY <3>10 DEF OnlyAllowsWait, BackGiven, readerVars, carryVars, stoppingVars
    <3>11. CASE WakeUp
      BY <3>11 DEF OnlyAllowsWait, WakeUp, readerVars, carryVars, stoppingVars
    <3>12. CASE GiveUp
      BY <3>12 DEF OnlyAllowsWait, GiveUp, readerVars, carryVars, stoppingVars
    <3>. QED
      BY <2>7, <3>1, <3>2, <3>3, <3>4, <3>5, <3>6, <3>7, <3>8, <3>9, <3>10, <3>11, <3>12
      DEF RelayLoop
  <2>8. CASE PlayerHeard \/ EngineSpeaks
    <3>1. heardAPlayer' \in BOOLEAN
      BY <2>8 DEF PlayerHeard, EngineSpeaks, CarriedIn, CarriedOut, flags
    <3>2. datagrams' \in 0..MaxDatagrams
      BY <2>8 DEF PlayerHeard, EngineSpeaks
    <3>3. idle' \in 0..IdleTimeout
      BY <2>8 DEF PlayerHeard, EngineSpeaks, CarriedIn, CarriedOut
    <3>. QED
      BY <2>8, <3>1, <3>2, <3>3
      DEF OnlyAllowsWait, PlayerHeard, EngineSpeaks, InLoop, CarriedIn, CarriedOut,
          pipeVars, readerVars, stoppingVars, flags
  <2>9. CASE RelayFails
    BY <2>9 DEF OnlyAllowsWait, RelayFails, InLoop, pipeVars, readerVars, stoppingVars
  <2>10. CASE Stopper
    <3>1. slot' \in BOOLEAN
      BY <2>10 DEF Stopper, Decide, TakeOpenRelay, Stop, relayVars
    <3>. QED
      BY <2>10, <3>1 DEF OnlyAllowsWait, Stopper, Decide, TakeOpenRelay, Stop, pipeVars, readerVars,
                 credVars, relayVars, carryVars, endVars, stoppingVars
  <2>11. CASE TakeNote
    BY <2>11 DEF OnlyAllowsWait, TakeNote, CoilboxLeftANote, pipeVars, readerVars, credVars,
                 relayVars, carryVars, endVars
  <2>12. ASSUME NEW c \in Cred, Expire(c) PROVE T'
    BY <2>12 DEF OnlyAllowsWait, Expire, pipeVars, readerVars, relayVars, carryVars, endVars,
                 stoppingVars
  <2>13. CASE Tick
    BY <2>13 DEF OnlyAllowsWait, Tick, TimePasses, pipeVars, readerVars, credVars, relayVars,
                 carryVars, endVars, flags
  <2>14. CASE Gone
    BY <2>1, <2>14 DEF Gone
  <2>. QED
    BY <2>1, <2>2, <2>3, <2>4, <2>5, <2>6, <2>7, <2>8, <2>9, <2>10, <2>11, <2>12, <2>13,
       <2>14 DEF Next
<1>. QED  BY <1>1, <1>2, PTL DEF Spec

-----------------------------------------------------------------------------
(* "Stop" and "over" are the last thing on the pipe, and the flags that    *)
(* let the agent judge for itself are only ever set behind a closed pipe.  *)
ClosedBehindLastWord ==
  /\ \A i \in 1..Len(pipe) : pipe[i].kind \in {"stop", "over"} => ~pipeOpen
  /\ asked \/ LetGo => ~pipeOpen
  /\ stopper # "looking" => asked \/ LetGo

LEMMA LastWordKept == Spec => []ClosedBehindLastWord
<1> DEFINE I == ClosedBehindLastWord
<1>1. Init => I
  BY DEF Init, StoppingInit, ClosedBehindLastWord, LetGo
<1>2. TypeOK /\ I /\ [Next]_vars => I'
  <2> SUFFICES ASSUME TypeOK, I, [Next]_vars PROVE I'
    OBVIOUS
  <2>0. pipe \in Seq(Asks)
    BY DEF TypeOK
  <2> USE DEF ClosedBehindLastWord, LetGo
  <2>1. CASE UNCHANGED vars
    BY <2>1 DEF vars, pipeVars, endVars, stoppingVars
  <2>2. ASSUME NEW a \in Asks, Send(a) PROVE I'
    <3>1. /\ pipe' = Append(pipe, a)
          /\ Len(pipe') = Len(pipe) + 1
          /\ \A i \in 1..Len(pipe) : pipe'[i] = pipe[i]
          /\ pipe'[Len(pipe) + 1] = a
      BY <2>0, <2>2, AppendProperties DEF Send
    <3>2. pipeOpen /\ pipeOpen' = (a.kind \notin {"stop", "over"})
      BY <2>2 DEF Send
    <3>3. \A i \in 1..Len(pipe') : pipe'[i].kind \in {"stop", "over"} => ~pipeOpen'
      <4>1. ASSUME NEW i \in 1..Len(pipe'), pipe'[i].kind \in {"stop", "over"}
            PROVE  i = Len(pipe) + 1
        BY <2>0, <3>1, <3>2, <4>1, LenProperties
      <4>. QED  BY <3>1, <3>2, <4>1
    <3>4. ~asked' /\ ~coilboxGone' /\ ~battleOver' /\ stopper' = "looking"
      BY <2>2, <3>2 DEF Send, stoppingVars, endVars
    <3>. QED  BY <3>3, <3>4
  <2>3. CASE CoilboxCloses
    BY <2>3 DEF CoilboxCloses, endVars, stoppingVars
  <2>4. ASSUME NEW pid \in Pid, LaunchEngine(pid) \/ EngineEnds(pid) PROVE I'
    BY <2>4 DEF LaunchEngine, EngineEnds, EngineStarts, EngineExits, pipeVars, endVars, flags
  <2>5. CASE LeaveNote
    BY <2>5 DEF LeaveNote, pipeVars, endVars, stoppingVars
  <2>6. ASSUME NEW k, Reading(k)
        PROVE  /\ Head(pipe).kind = k
               /\ k \in {"stop", "over"} => ~pipeOpen
               /\ pipeOpen' = pipeOpen /\ stopper' = stopper
               /\ \A i \in 1..Len(pipe') : pipe'[i].kind \in {"stop", "over"} => ~pipeOpen
    <3>1. /\ pipe # << >> /\ pipe' = Tail(pipe) /\ Head(pipe).kind = k
          /\ pipeOpen' = pipeOpen /\ stopper' = stopper
      BY <2>6 DEF Reading, endVars
    <3>2. /\ Head(pipe) = pipe[1] /\ Len(pipe) \in Nat /\ Len(pipe) >= 1
          /\ Len(pipe') = Len(pipe) - 1
          /\ \A i \in 1..Len(pipe') : pipe'[i] = pipe[i + 1]
      BY <2>0, <3>1, HeadTailProperties, EmptySeq
    <3>3. ASSUME NEW i \in 1..Len(pipe'), pipe'[i].kind \in {"stop", "over"}
          PROVE  ~pipeOpen
      <4>1. i + 1 \in 1..Len(pipe)
        BY <3>2
      <4>. QED  BY <3>2, <3>3, <4>1
    <3>. QED  BY <3>1, <3>2, <3>3
  <2>7. CASE Reader
    <3>1. CASE ReadWatch
      BY <2>6, <3>1 DEF ReadWatch, EngineIs
    <3>2. CASE ReadStop
      BY <2>6, <3>2 DEF ReadStop, CoilboxAsked
    <3>3. CASE ReadOver
      BY <2>6, <3>3 DEF ReadOver, BattleIsOver
    <3>4. CASE ReadRenew
      BY <2>6, <3>4 DEF ReadRenew, stoppingVars
    <3>5. CASE ReadUnreadable
      BY <2>6, <3>5 DEF ReadUnreadable, stoppingVars
    <3>6. CASE ReadAllow
      BY <2>6, <3>6 DEF ReadAllow, stoppingVars
    <3>7. CASE QueueInHand
      BY <3>7 DEF QueueInHand, pipeVars, endVars, stoppingVars
    <3>8. CASE ReadEnd
      BY <3>8 DEF ReadEnd, PipeEnded, CoilboxHasGone, pipeVars, endVars
    <3>. QED
      BY <2>7, <3>1, <3>2, <3>3, <3>4, <3>5, <3>6, <3>7, <3>8 DEF Reader
  <2>8. CASE RelayLoop
    BY <2>8 DEF RelayLoop, RelayGranted, RelayOpened, OpenRefused, OpenFails, LetThrough,
                StartCarrying, TakeRequest, LetJoinerThrough, TakeBack, BackGiven, WakeUp,
                GiveUp, InLoop, CarriedOut, pipeVars, stoppingVars, flags
  <2>9. CASE PlayerHeard \/ EngineSpeaks \/ RelayFails
    BY <2>9 DEF PlayerHeard, EngineSpeaks, RelayFails, InLoop, CarriedIn, CarriedOut,
                pipeVars, stoppingVars, flags
  <2>10. CASE Stopper
    BY <2>10 DEF Stopper, Decide, TakeOpenRelay, Stop, NoLongerNeeded, pipeVars, stoppingVars
  <2>11. CASE TakeNote
    BY <2>11 DEF TakeNote, CoilboxLeftANote, pipeVars, endVars
  <2>12. CASE (\E c \in Cred : Expire(c)) \/ Tick
    BY <2>12 DEF Expire, Tick, TimePasses, pipeVars, endVars, stoppingVars, flags
  <2>13. CASE Gone
    BY <2>1, <2>13 DEF Gone
  <2>. QED
    BY <2>1, <2>2, <2>3, <2>4, <2>5, <2>7, <2>8, <2>9, <2>10, <2>11, <2>12, <2>13 DEF Next
<1>. QED  BY <1>1, <1>2, TypeCorrect, PTL DEF Spec

(* While Coilbox is there, Coilbox decides: the agent does not begin to    *)
(* stop of its own accord before Coilbox has let go of the pipe.           *)
THEOREM CoilboxHasTheWord == Spec => []CoilboxDecides
<1>1. ClosedBehindLastWord => CoilboxDecides
  BY DEF ClosedBehindLastWord, CoilboxDecides
<1>. QED  BY <1>1, LastWordKept, PTL

-----------------------------------------------------------------------------
(* Where a relay the server still holds for the agent can be.              *)
LeaseAccountedFor ==
  /\ slot => /\ loop \in {"lettingThrough", "carrying", "failed", "refused"}
             /\ stopper # "handingBack"
             /\ Alive
  /\ stopper = "handingBack" => loop \notin {"opening", "granted"}
  /\ lease = "held" =>
       \/ slot
       \/ loop \in {"granted", "handingBack", "refusedHandingBack"}
       \/ stopper = "handingBack"

(* The agent leaves no relay behind that it could still give back,         *)
(* whichever of the relay loop and the exit path ends the process, and     *)
(* whatever the other was doing.                                           *)
THEOREM GivesBack == Spec => []NothingLeftBehind
<1> DEFINE I == LeaseAccountedFor
<1>1. Init => I
  BY DEF Init, LeaseAccountedFor, Alive
<1>2. I /\ [Next]_vars => I'
  <2> SUFFICES ASSUME I, [Next]_vars PROVE I'
    OBVIOUS
  <2> USE DEF LeaseAccountedFor, Alive
  <2>1. CASE UNCHANGED vars
    BY <2>1 DEF vars, relayVars, endVars
  <2>2. CASE (\E a \in Asks : Send(a)) \/ CoilboxCloses \/ LeaveNote
    BY <2>2 DEF Send, CoilboxCloses, LeaveNote, relayVars, endVars
  <2>3. ASSUME NEW pid \in Pid, LaunchEngine(pid) \/ EngineEnds(pid) PROVE I'
    BY <2>3 DEF LaunchEngine, EngineEnds, relayVars, endVars
  <2>4. CASE Reader
    BY <2>4 DEF Reader, Reading, ReadWatch, ReadStop, ReadOver, ReadRenew, ReadUnreadable,
                ReadAllow, QueueInHand, ReadEnd, relayVars, endVars
  <2>5. CASE RelayLoop
    <3> USE DEF InLoop
    <3>1. CASE RelayGranted \/ RelayOpened
      BY <3>1 DEF RelayGranted, RelayOpened
    <3>2. CASE OpenRefused \/ OpenFails
      BY <3>2 DEF OpenRefused, OpenFails
    <3>3. CASE (\E ip \in Ip : LetThrough(ip)) \/ StartCarrying
      BY <3>3 DEF LetThrough, StartCarrying
    <3>4. CASE TakeRequest \/ LetJoinerThrough
      BY <3>4 DEF TakeRequest, LetJoinerThrough
    <3>5. CASE TakeBack
      BY <3>5 DEF TakeBack
    <3>6. CASE BackGiven \/ WakeUp
      BY <3>6 DEF BackGiven, WakeUp
    <3>7. CASE GiveUp
      BY <3>7 DEF GiveUp
    <3>. QED
      BY <2>5, <3>1, <3>2, <3>3, <3>4, <3>5, <3>6, <3>7 DEF RelayLoop
  <2>6. CASE PlayerHeard \/ EngineSpeaks
    BY <2>6 DEF PlayerHeard, EngineSpeaks, InLoop
  <2>7. CASE RelayFails
    BY <2>7 DEF RelayFails, InLoop
  <2>8. CASE Stopper
    BY <2>8 DEF Stopper, Decide, TakeOpenRelay, Stop, relayVars
  <2>9. CASE TakeNote \/ Tick \/ \E c \in Cred : Expire(c)
    BY <2>9 DEF TakeNote, Tick, Expire, relayVars, endVars
  <2>10. CASE Gone
    BY <2>1, <2>10 DEF Gone
  <2>. QED
    BY <2>1, <2>2, <2>3, <2>4, <2>5, <2>6, <2>7, <2>8, <2>9, <2>10 DEF Next
<1>3. I => NothingLeftBehind
  BY DEF LeaseAccountedFor, NothingLeftBehind
<1>. QED  BY <1>1, <1>2, <1>3, PTL DEF Spec

-----------------------------------------------------------------------------
(* Whoever is on the list, for a relay that carries a game.                *)
ListedLetThrough ==
  loop = "carrying" =>
    \A ip \in allowlist : \/ ip \in permitted \cup turnedAway
                          \/ serving # NoAsk /\ serving.what = ip

(* Whoever is on the list has been tried, or is about to be, on the relay  *)
(* of the moment; and nobody is answered before being put on the list.     *)
ListKept ==
  /\ NobodyForgotten
  /\ serving # NoAsk => loop = "carrying" /\ serving.what \in allowlist
  /\ loop = "lettingThrough" => allowlist \subseteq toProbe \cup permitted \cup turnedAway
  /\ ListedLetThrough

LEMMA ListKeptAlways == Spec => []ListKept
<1> DEFINE I == ListKept
<1>1. Init => I
  BY DEF Init, ListKept, NobodyForgotten, ListedLetThrough, Ask
<1>2. TypeOK /\ OnlyAllowsWait /\ I /\ [Next]_vars => I'
  <2> SUFFICES ASSUME TypeOK, OnlyAllowsWait, I, [Next]_vars PROVE I'
    OBVIOUS
  <2>0. answers \in [Asks -> {"none", "done", "failed"}] /\ pipe \in Seq(Asks)
    BY DEF TypeOK
  <2> USE DEF ListKept, NobodyForgotten, ListedLetThrough, Ask
  <2>1. CASE UNCHANGED vars
    BY <2>1 DEF vars, readerVars, relayVars, carryVars
  <2>2. CASE (\E a \in Asks : Send(a)) \/ CoilboxCloses \/ LeaveNote
    BY <2>2 DEF Send, CoilboxCloses, LeaveNote, readerVars, relayVars, carryVars
  <2>3. ASSUME NEW pid \in Pid, LaunchEngine(pid) \/ EngineEnds(pid) PROVE I'
    BY <2>3 DEF LaunchEngine, EngineEnds, readerVars, relayVars, carryVars
  <2>4. CASE Reader
    <3>1. ASSUME NEW k, Reading(k), k # "allow", NEW how, Answer(Head(pipe), how) PROVE I'
      <4>1. \A a \in Asks : a.kind = "allow" => answers'[a] = answers[a]
        BY <2>0, <3>1, HeadIsAsk DEF Reading, Answer
      <4>. QED  BY <3>1, <4>1 DEF Reading, relayVars, carryVars
    <3>2. CASE ReadWatch \/ ReadStop \/ ReadOver \/ ReadRenew \/ ReadUnreadable
      BY <3>1, <3>2 DEF ReadWatch, ReadStop, ReadOver, ReadRenew, ReadUnreadable
    <3>3. CASE ReadAllow \/ QueueInHand \/ ReadEnd
      BY <3>3 DEF ReadAllow, Reading, QueueInHand, ReadEnd, relayVars, carryVars
    <3>. QED  BY <2>4, <3>2, <3>3 DEF Reader
  <2>5. CASE RelayLoop
    <3> USE DEF InLoop
    <3>1. CASE RelayGranted \/ RelayOpened \/ OpenRefused \/ OpenFails
      BY <3>1 DEF RelayGranted, RelayOpened, Everybody, OpenRefused, OpenFails, readerVars,
                  carryVars
    <3>2. ASSUME NEW ip \in Ip, LetThrough(ip) PROVE I'
      BY <3>2 DEF LetThrough, readerVars, carryVars
    <3>3. CASE StartCarrying
      BY <3>3 DEF StartCarrying, readerVars, carryVars
    <3>4. CASE TakeRequest
      <4>1. Head(queue) \in Asks
        BY <3>4, HeadTailProperties DEF TakeRequest, TypeOK
      <4>2. Head(queue) # NoAsk
        BY <4>1, RelayAgentAssumption
      <4>. QED  BY <3>4, <4>2 DEF TakeRequest, Remember
    <3>5. CASE LetJoinerThrough
      <4>1. \A a \in Asks : a # serving => answers'[a] = answers[a]
        BY <2>0, <3>5 DEF LetJoinerThrough, Answer
      <4>. QED  BY <3>5, <4>1 DEF LetJoinerThrough
    <3>6. CASE TakeBack \/ BackGiven \/ WakeUp \/ GiveUp
      BY <3>6 DEF TakeBack, BackGiven, WakeUp, GiveUp, readerVars, carryVars
    <3>. QED  BY <2>5, <3>1, <3>2, <3>3, <3>4, <3>5, <3>6 DEF RelayLoop
  <2>6. CASE PlayerHeard \/ EngineSpeaks
    BY <2>6 DEF PlayerHeard, EngineSpeaks, InLoop, readerVars
  <2>7. CASE RelayFails
    BY <2>7 DEF RelayFails, InLoop, readerVars
  <2>8. CASE Stopper
    BY <2>8 DEF Stopper, Decide, TakeOpenRelay, Stop, readerVars, relayVars, carryVars
  <2>9. CASE TakeNote \/ Tick \/ \E c \in Cred : Expire(c)
    BY <2>9 DEF TakeNote, Tick, Expire, readerVars, relayVars, carryVars
  <2>10. CASE Gone
    BY <2>1, <2>10 DEF Gone
  <2>. QED
    BY <2>1, <2>2, <2>3, <2>4, <2>5, <2>6, <2>7, <2>8, <2>9, <2>10 DEF Next
<1>. QED  BY <1>1, <1>2, TypeCorrect, PTL DEF Spec

(* On every relay that carries a game, the first and every rebuilt one,    *)
(* everybody Coilbox ever vouched for has been let through or refused.     *)
THEOREM RebuildsLetEverybodyThrough == Spec => []EverybodyLetThrough
<1>1. ListKept => EverybodyLetThrough
  BY DEF ListKept, NobodyForgotten, ListedLetThrough, EverybodyLetThrough
<1>. QED  BY <1>1, ListKeptAlways, PTL

(* An address once answered for, even with a "no", is never off the list.  *)
THEOREM ListOnlyGrows == Spec => []NobodyForgotten
<1>1. ListKept => NobodyForgotten
  BY DEF ListKept
<1>. QED  BY <1>1, ListKeptAlways, PTL

(* "Yes" to an allowPeer is never a lie: the answer is given by the relay  *)
(* carrying the game, with the permission in place.                        *)
THEOREM YesIsNeverALie == Spec => YesIsTrue
<1> DEFINE StepKeeps == \A a \in Asks : Ask(a, "allow") /\ answers[a] = "none" /\ answers'[a] = "done"
                     => loop = "carrying" /\ a.what \in permitted'
<1>1. TypeOK /\ [Next]_vars => [StepKeeps]_vars
  <2> SUFFICES ASSUME TypeOK, Next, NEW a \in Asks, a.kind = "allow",
                      answers[a] = "none", answers'[a] = "done"
               PROVE  loop = "carrying" /\ a.what \in permitted'
    BY DEF Ask
  <2>0. answers \in [Asks -> {"none", "done", "failed"}] /\ pipe \in Seq(Asks)
    BY DEF TypeOK
  <2>1. answers' # answers
    OBVIOUS
  <2>2. CASE Reader
    <3>1. ASSUME NEW k, Reading(k), k # "allow", NEW how, Answer(Head(pipe), how) PROVE FALSE
      BY <2>0, <3>1, HeadIsAsk DEF Reading, Answer
    <3>2. CASE ReadWatch \/ ReadStop \/ ReadOver \/ ReadRenew \/ ReadUnreadable
      BY <3>1, <3>2 DEF ReadWatch, ReadStop, ReadOver, ReadRenew, ReadUnreadable
    <3>3. CASE ReadAllow \/ QueueInHand \/ ReadEnd
      BY <2>1, <3>3 DEF ReadAllow, QueueInHand, ReadEnd
    <3>. QED  BY <2>2, <3>2, <3>3 DEF Reader
  <2>3. CASE LetJoinerThrough
    <3>1. a = serving /\ loop = "carrying"
      BY <2>0, <2>3 DEF LetJoinerThrough, Answer, InLoop
    <3>2. CASE Answer(serving, "failed")
      BY <2>0, <3>1, <3>2 DEF Answer
    <3>. QED  BY <2>3, <3>1, <3>2 DEF LetJoinerThrough
  <2>4. CASE RelayLoop /\ ~LetJoinerThrough
    BY <2>1, <2>4
    DEF RelayLoop, RelayGranted, RelayOpened, OpenRefused, OpenFails, LetThrough,
        StartCarrying, TakeRequest, TakeBack, BackGiven, WakeUp, GiveUp, readerVars
  <2>5. CASE PlayerHeard \/ EngineSpeaks \/ RelayFails \/ Stopper \/ TakeNote \/ Tick
    BY <2>1, <2>5
    DEF PlayerHeard, EngineSpeaks, RelayFails, Stopper, Decide, TakeOpenRelay, Stop,
        TakeNote, Tick, readerVars
  <2>6. CASE (\E b \in Asks : Send(b)) \/ CoilboxCloses \/ LeaveNote
    BY <2>1, <2>6 DEF Send, CoilboxCloses, LeaveNote, readerVars
  <2>7. CASE \E pid \in Pid : LaunchEngine(pid) \/ EngineEnds(pid)
    BY <2>1, <2>7 DEF LaunchEngine, EngineEnds, readerVars
  <2>8. CASE Gone \/ \E c \in Cred : Expire(c)
    BY <2>1, <2>8 DEF Gone, Expire, vars, readerVars
  <2>. QED  BY <2>2, <2>3, <2>4, <2>5, <2>6, <2>7, <2>8 DEF Next
<1>. QED  BY <1>1, TypeCorrect, PTL DEF Spec, YesIsTrue

-----------------------------------------------------------------------------
(* Only the stop rule begins to stop. *)
LEMMA OnlyTheRuleStops ==
  ASSUME Next, ~Decide
  PROVE  stopper' # "looking" => stopper # "looking"
<1>1. CASE \E a \in Asks : Send(a)
  BY <1>1 DEF Send, endVars
<1>2. CASE CoilboxCloses \/ LeaveNote \/ TakeNote \/ Tick
  BY <1>2 DEF CoilboxCloses, LeaveNote, TakeNote, Tick, endVars
<1>3. CASE \E pid \in Pid : LaunchEngine(pid) \/ EngineEnds(pid)
  BY <1>3 DEF LaunchEngine, EngineEnds, endVars
<1>4. CASE Reader
  BY <1>4 DEF Reader, Reading, ReadWatch, ReadStop, ReadOver, ReadRenew, ReadUnreadable,
              ReadAllow, QueueInHand, ReadEnd, endVars
<1>5. CASE RelayLoop \/ PlayerHeard \/ EngineSpeaks \/ RelayFails
  BY <1>5 DEF RelayLoop, RelayGranted, RelayOpened, OpenRefused, OpenFails, LetThrough,
              StartCarrying, TakeRequest, LetJoinerThrough, TakeBack, BackGiven, WakeUp, GiveUp,
              PlayerHeard, EngineSpeaks, RelayFails, InLoop
<1>6. CASE Stopper
  BY <1>6 DEF Stopper, TakeOpenRelay, Stop
<1>7. CASE \E c \in Cred : Expire(c)
  BY <1>7 DEF Expire, endVars
<1>8. CASE Gone
  BY <1>8 DEF Gone, vars, endVars
<1>. QED
  BY <1>1, <1>2, <1>3, <1>4, <1>5, <1>6, <1>7, <1>8 DEF Next

(* A credential refused ends the agent only while no other one has come:   *)
(* a renewal read before that saves the relay, at whatever moment.         *)
THEOREM RenewalsSave == Spec => RenewalSaves
<1>. DEFINE StepKeeps == loop' \in {"refused", "givingUp"} /\ loop \in {"opening", "carrying"}
                      => held \in expired
<1>1. [Next]_vars => [StepKeeps]_vars
  <2>. SUFFICES ASSUME Next, loop' \in {"refused", "givingUp"}, loop \in {"opening", "carrying"}
                PROVE  held \in expired
    OBVIOUS
  <2>1. CASE OpenRefused \/ RelayFails
    BY <2>1 DEF OpenRefused, RelayFails, InLoop, StillHeld
  <2>2. CASE RelayLoop /\ ~OpenRefused
    BY <2>2 DEF RelayLoop, RelayGranted, RelayOpened, OpenFails, LetThrough, StartCarrying,
                TakeRequest, LetJoinerThrough, TakeBack, BackGiven, WakeUp, GiveUp, InLoop
  <2>3. CASE PlayerHeard \/ EngineSpeaks
    BY <2>3 DEF PlayerHeard, EngineSpeaks, InLoop
  <2>4. CASE Reader
    BY <2>4 DEF Reader, Reading, ReadWatch, ReadStop, ReadOver, ReadRenew, ReadUnreadable,
                ReadAllow, QueueInHand, ReadEnd, relayVars
  <2>5. CASE Stopper \/ CoilboxCloses \/ LeaveNote \/ TakeNote \/ Tick
    BY <2>5 DEF Stopper, Decide, TakeOpenRelay, Stop, CoilboxCloses, LeaveNote, TakeNote, Tick, relayVars
  <2>6. CASE (\E a \in Asks : Send(a)) \/ (\E c \in Cred : Expire(c))
    BY <2>6 DEF Send, Expire, relayVars
  <2>7. CASE \E pid \in Pid : LaunchEngine(pid) \/ EngineEnds(pid)
    BY <2>7 DEF LaunchEngine, EngineEnds, relayVars
  <2>8. CASE Gone
    BY <2>8 DEF Gone, vars, relayVars
  <2>. QED
    BY <2>1, <2>2, <2>3, <2>4, <2>5, <2>6, <2>7, <2>8 DEF Next
<1>. QED
  BY <1>1, PTL DEF Spec, RenewalSaves

-----------------------------------------------------------------------------
(* The engine named last, through a pipe that still holds requests.        *)

IsLastWatch(requests, i) ==
  /\ i \in 1..Len(requests)
  /\ requests[i].kind = "watch"
  /\ \A j \in 1..Len(requests) : requests[j].kind = "watch" => j <= i

LEMMA ThereIsALast ==
  ASSUME NEW n \in Nat, NEW S \in SUBSET (1..n), S # {}
  PROVE  \E i \in S : \A j \in S : j <= i
<1>. DEFINE R == {ss \in Nat \X Nat : ss[1] < ss[2]}
            T == {n - i : i \in S}
<1>1. IsWellFoundedOn(R, Nat)
  BY NatLessThanWellFounded DEF OpToRel
<1>2. \A i \in S : i \in Nat /\ n - i \in Nat
  OBVIOUS
<1>3. T \subseteq Nat
  BY <1>2
<1>4. T # {}
  BY <1>2
<1>. HIDE DEF R
<1>5. PICK t \in T : \A u \in T : ~(<<u, t>> \in R)
  BY <1>1, <1>3, <1>4, WFMin
<1>6. PICK i \in S : t = n - i
  BY <1>5
<1>7. ASSUME NEW j \in S PROVE j <= i
  <2>1. n - j \in T
    OBVIOUS
  <2>2. ~(<<n - j, n - i>> \in R)
    BY <1>5, <1>6, <2>1
  <2>3. <<n - j, n - i>> \in Nat \X Nat
    BY <1>2
  <2>4. ~(n - j < n - i)
    BY <2>2, <2>3 DEF R
  <2>. QED  BY <1>2, <2>4
<1>. QED  BY <1>7

LEMMA LastWatchIsNamed ==
  ASSUME NEW q \in Seq(Asks), NEW else, NEW i, IsLastWatch(q, i)
  PROVE  LastNamed(q, else) = q[i].what
<1>. DEFINE Last(k) == /\ q[k].kind = "watch"
                       /\ \A j \in 1..Len(q) : q[j].kind = "watch" => j <= k
            last == CHOOSE k \in 1..Len(q) : Last(k)
<1>1. i \in 1..Len(q) /\ Last(i)
  BY DEF IsLastWatch
<1>2. last \in 1..Len(q) /\ Last(last)
  BY <1>1
<1>3. last <= i /\ i <= last
  BY <1>1, <1>2
<1>4. last = i
  BY <1>1, <1>2, <1>3
<1>. QED  BY <1>1, <1>4 DEF LastNamed

LEMMA WatchesHaveALast ==
  ASSUME NEW q \in Seq(Asks), \E i \in 1..Len(q) : q[i].kind = "watch"
  PROVE  \E i : IsLastWatch(q, i)
<1>. DEFINE S == {i \in 1..Len(q) : q[i].kind = "watch"}
<1>1. Len(q) \in Nat /\ S \in SUBSET (1..Len(q)) /\ S # {}
  OBVIOUS
<1>2. PICK i \in S : \A j \in S : j <= i
  BY <1>1, ThereIsALast
<1>. QED  BY <1>2 DEF IsLastWatch

LEMMA NamedByWriting ==
  ASSUME NEW q \in Seq(Asks), NEW a \in Asks, NEW else
  PROVE  LastNamed(Append(q, a), else) =
           IF a.kind = "watch" THEN a.what ELSE LastNamed(q, else)
<1>. DEFINE r == Append(q, a)
<1>1. /\ r \in Seq(Asks) /\ Len(q) \in Nat /\ Len(r) = Len(q) + 1 /\ r[Len(q) + 1] = a
      /\ \A i \in 1..Len(q) : r[i] = q[i]
  BY AppendProperties
<1>. HIDE DEF r
<1>2. CASE a.kind = "watch"
  <2>1. IsLastWatch(r, Len(q) + 1)
    BY <1>1, <1>2 DEF IsLastWatch
  <2>. QED  BY <1>1, <1>2, <2>1, LastWatchIsNamed DEF r
<1>3. CASE a.kind # "watch" /\ \E i \in 1..Len(q) : q[i].kind = "watch"
  <2>1. PICK i : IsLastWatch(q, i)
    BY <1>3, WatchesHaveALast
  <2>2. IsLastWatch(r, i) /\ r[i] = q[i]
    BY <1>1, <1>3, <2>1 DEF IsLastWatch
  <2>3. LastNamed(r, else) = r[i].what /\ LastNamed(q, else) = q[i].what
    BY <1>1, <2>1, <2>2, LastWatchIsNamed
  <2>. QED  BY <1>3, <2>2, <2>3 DEF r
<1>4. CASE a.kind # "watch" /\ ~ \E i \in 1..Len(q) : q[i].kind = "watch"
  <2>1. ~ \E i \in 1..Len(r) : r[i].kind = "watch"
    BY <1>1, <1>4
  <2>2. LastNamed(r, else) = else /\ LastNamed(q, else) = else
    BY <1>4, <2>1 DEF LastNamed
  <2>. QED  BY <1>4, <2>2 DEF r
<1>. QED  BY <1>2, <1>3, <1>4

LEMMA NamedByReading ==
  ASSUME NEW q \in Seq(Asks), q # << >>, NEW else
  PROVE  LastNamed(q, else) =
           LastNamed(Tail(q), IF Head(q).kind = "watch" THEN Head(q).what ELSE else)
<1>. DEFINE r == Tail(q)
            other == IF Head(q).kind = "watch" THEN Head(q).what ELSE else
<1>1. /\ r \in Seq(Asks) /\ Len(q) \in Nat /\ Len(q) >= 1 /\ Len(r) = Len(q) - 1
      /\ Head(q) = q[1] /\ \A i \in 1..Len(r) : r[i] = q[i + 1]
  BY HeadTailProperties, EmptySeq
<1>. HIDE DEF r
<1>2. CASE \E i \in 1..Len(r) : r[i].kind = "watch"
  <2>1. PICK i : IsLastWatch(r, i)
    BY <1>1, <1>2, WatchesHaveALast
  <2>2. i \in 1..Len(r) /\ r[i] = q[i + 1] /\ i + 1 \in 1..Len(q)
    BY <1>1, <2>1 DEF IsLastWatch
  <2>3. ASSUME NEW j \in 1..Len(q), q[j].kind = "watch" PROVE j <= i + 1
    <3>1. CASE j = 1
      BY <2>2, <3>1
    <3>2. CASE j # 1
      <4>1. j - 1 \in 1..Len(r) /\ r[j - 1] = q[(j - 1) + 1] /\ (j - 1) + 1 = j
        BY <1>1, <3>2
      <4>2. j - 1 <= i
        BY <2>1, <2>3, <4>1 DEF IsLastWatch
      <4>. QED  BY <2>2, <4>2
    <3>. QED  BY <3>1, <3>2
  <2>4. IsLastWatch(q, i + 1)
    BY <2>1, <2>2, <2>3 DEF IsLastWatch
  <2>5. LastNamed(r, other) = r[i].what
    BY <1>1, <2>1, LastWatchIsNamed
  <2>6. LastNamed(q, else) = q[i + 1].what
    BY <2>4, LastWatchIsNamed
  <2>. QED  BY <2>2, <2>5, <2>6 DEF r
<1>3. CASE ~ \E i \in 1..Len(r) : r[i].kind = "watch"
  <2>1. LastNamed(r, other) = other
    BY <1>3 DEF LastNamed
  <2>2. \A j \in 1..Len(q) : q[j].kind = "watch" => j = 1
    <3>. SUFFICES ASSUME NEW j \in 1..Len(q), q[j].kind = "watch", j # 1 PROVE FALSE
      OBVIOUS
    <3>1. j - 1 \in 1..Len(r) /\ r[j - 1] = q[(j - 1) + 1] /\ (j - 1) + 1 = j
      BY <1>1
    <3>. QED  BY <1>3, <3>1
  <2>3. CASE Head(q).kind = "watch"
    <3>1. IsLastWatch(q, 1)
      BY <1>1, <2>2, <2>3 DEF IsLastWatch
    <3>. QED  BY <1>1, <2>1, <2>3, <3>1, LastWatchIsNamed DEF r
  <2>4. CASE Head(q).kind # "watch"
    <3>1. ~ \E j \in 1..Len(q) : q[j].kind = "watch"
      BY <1>1, <2>2, <2>4
    <3>. QED  BY <2>1, <2>4, <3>1 DEF LastNamed, r
  <2>. QED  BY <2>3, <2>4
<1>. QED  BY <1>2, <1>3

-----------------------------------------------------------------------------
(* What has been read was written, a last word is the last thing on the    *)
(* pipe, and once the agent judges for itself there is nothing on it any   *)
(* more: so the engine it judges on is the one named last, and not one     *)
(* before it.                                                              *)
WordsInOrder ==
  /\ \A i \in 1..Len(pipe) : /\ pipe[i] \in sent
                             /\ pipe[i].kind \in {"stop", "over"} => i = Len(pipe)
  /\ asked \/ LetGo => pipe = << >>
  /\ asked => "stop" \in Said
  /\ battleOver => "over" \in Said
  /\ askedInANote => "note" \in Said

(* Only a credential the TURN server has withdrawn makes the loop give up. *)
RefusedForACause ==
  loop \in {"refused", "refusedHandingBack", "givingUp"} => expired # {}

(* Both hold of every reachable state. *)
LEMMA WordsAlwaysInOrder == Spec => [](WordsInOrder /\ RefusedForACause)
<1>. DEFINE I == WordsInOrder /\ RefusedForACause
<1>1. Init => I
  BY DEF Init, StoppingInit, WordsInOrder, RefusedForACause, LetGo
<1>2. TypeOK /\ ClosedBehindLastWord /\ I /\ [Next]_vars => I'
  <2>. SUFFICES ASSUME TypeOK, ClosedBehindLastWord, I, [Next]_vars PROVE I'
    OBVIOUS
  <2>0. pipe \in Seq(Asks) /\ sent \subseteq Asks
    BY DEF TypeOK
  <2>a. ASSUME UNCHANGED <<sent, note, pipe, asked, coilboxGone, battleOver, askedInANote>>
        PROVE  WordsInOrder'
    BY <2>a DEF WordsInOrder, Said, LetGo
  <2>b. ASSUME UNCHANGED <<loop, expired>> PROVE RefusedForACause'
    BY <2>b DEF RefusedForACause
  <2>1. CASE UNCHANGED vars
    BY <2>1, <2>a, <2>b DEF vars, pipeVars, credVars, relayVars, stoppingVars
  <2>2. ASSUME NEW a \in Asks, Send(a) PROVE I'
    <3>1. /\ pipe' = Append(pipe, a) /\ pipeOpen /\ sent' = sent \cup {a}
          /\ UNCHANGED <<note, asked, coilboxGone, battleOver, askedInANote, loop, expired>>
      BY <2>2 DEF Send, stoppingVars, credVars, relayVars
    <3>2. /\ Len(pipe) \in Nat /\ Len(pipe') = Len(pipe) + 1 /\ pipe'[Len(pipe) + 1] = a
          /\ \A i \in 1..Len(pipe) : pipe'[i] = pipe[i]
      BY <2>0, <3>1, AppendProperties
    <3>3. ~asked /\ ~LetGo
      BY <3>1 DEF ClosedBehindLastWord
    <3>4. ASSUME NEW i \in 1..Len(pipe')
          PROVE  pipe'[i] \in sent' /\ (pipe'[i].kind \in {"stop", "over"} => i = Len(pipe'))
      <4>1. CASE i = Len(pipe) + 1
        BY <3>1, <3>2, <4>1
      <4>2. CASE i # Len(pipe) + 1
        <5>1. i \in 1..Len(pipe) /\ pipe'[i] = pipe[i]
          BY <3>2, <4>2
        <5>2. pipe[i].kind \notin {"stop", "over"}
          BY <3>1, <5>1 DEF ClosedBehindLastWord
        <5>. QED  BY <3>1, <5>1, <5>2 DEF WordsInOrder
      <4>. QED  BY <4>1, <4>2
    <3>5. ~asked' /\ ~LetGo' /\ (askedInANote' => "note" \in Said')
      BY <3>1, <3>3 DEF LetGo, WordsInOrder, Said
    <3>6. WordsInOrder'
      BY <3>4, <3>5 DEF WordsInOrder, LetGo
    <3>. QED  BY <2>b, <3>1, <3>6
  <2>3. CASE CoilboxCloses
    BY <2>3, <2>a, <2>b DEF CoilboxCloses, credVars, relayVars, stoppingVars
  <2>4. ASSUME NEW pid \in Pid, LaunchEngine(pid) \/ EngineEnds(pid) PROVE I'
    BY <2>4, <2>a, <2>b DEF LaunchEngine, EngineEnds, EngineStarts, EngineExits, pipeVars,
                            credVars, relayVars, flags
  <2>5. CASE LeaveNote
    <3>1. WordsInOrder'
      BY <2>5 DEF LeaveNote, WordsInOrder, Said, LetGo, pipeVars, stoppingVars
    <3>. QED  BY <2>5, <2>b, <3>1 DEF LeaveNote, credVars, relayVars
  <2>6. ASSUME NEW k, Reading(k)
        PROVE  /\ Head(pipe) \in sent /\ Head(pipe).kind = k
               /\ UNCHANGED <<sent, note, loop, expired>>
               /\ \A i \in 1..Len(pipe') :
                    /\ pipe'[i] \in sent
                    /\ pipe'[i].kind \in {"stop", "over"} => i = Len(pipe')
               /\ k \in {"stop", "over"} => pipe' = << >>
               /\ ~asked /\ ~LetGo
    <3>1. /\ pipe # << >> /\ pipe' = Tail(pipe) /\ Head(pipe).kind = k
          /\ UNCHANGED <<sent, note, loop, expired>>
      BY <2>6 DEF Reading, relayVars
    <3>2. /\ Head(pipe) = pipe[1] /\ Len(pipe) \in Nat /\ Len(pipe) >= 1
          /\ pipe' \in Seq(Asks) /\ Len(pipe') = Len(pipe) - 1
          /\ \A i \in 1..Len(pipe') : pipe'[i] = pipe[i + 1]
      BY <2>0, <3>1, HeadTailProperties, EmptySeq
    <3>3. ASSUME NEW i \in 1..Len(pipe')
          PROVE  pipe'[i] \in sent /\ (pipe'[i].kind \in {"stop", "over"} => i = Len(pipe'))
      <4>1. i + 1 \in 1..Len(pipe) /\ pipe'[i] = pipe[i + 1]
        BY <3>2
      <4>2. pipe[i + 1].kind \in {"stop", "over"} => i + 1 = Len(pipe)
        BY <4>1 DEF WordsInOrder
      <4>. QED  BY <3>2, <4>1, <4>2 DEF WordsInOrder
    <3>4. ASSUME k \in {"stop", "over"} PROVE pipe' = << >>
      <4>0. 1 \in 1..Len(pipe) /\ pipe[1].kind = k
        BY <3>1, <3>2
      <4>1. 1 = Len(pipe)
        BY <3>4, <4>0 DEF WordsInOrder
      <4>2. Len(pipe') = 0
        BY <2>0, <3>2, <4>1
      <4>. QED  BY <3>2, <4>2, EmptySeq
    <3>5. Head(pipe) \in sent
      BY <3>2 DEF WordsInOrder
    <3>. QED  BY <3>1, <3>3, <3>4, <3>5 DEF WordsInOrder
  <2>7. CASE Reader
    <3>1. CASE ReadWatch
      BY <2>6, <2>b, <3>1 DEF ReadWatch, EngineIs, WordsInOrder, Said, LetGo
    <3>2. CASE ReadStop
      <4>1. /\ Reading("stop") /\ asked'
            /\ UNCHANGED <<coilboxGone, battleOver, askedInANote>>
        BY <3>2 DEF ReadStop, CoilboxAsked
      <4>2. "stop" \in Said' /\ pipe' = << >>
        BY <2>6, <4>1 DEF Said
      <4>. QED  BY <2>6, <2>b, <4>1, <4>2 DEF WordsInOrder, Said, LetGo
    <3>3. CASE ReadOver
      <4>1. /\ Reading("over") /\ battleOver'
            /\ UNCHANGED <<asked, coilboxGone, askedInANote>>
        BY <3>3 DEF ReadOver, BattleIsOver
      <4>2. "over" \in Said' /\ pipe' = << >>
        BY <2>6, <4>1 DEF Said
      <4>. QED  BY <2>6, <2>b, <4>1, <4>2 DEF WordsInOrder, Said, LetGo
    <3>4. CASE ReadRenew
      BY <2>6, <2>b, <3>4 DEF ReadRenew, WordsInOrder, Said, LetGo, stoppingVars
    <3>5. CASE ReadUnreadable
      BY <2>6, <2>b, <3>5 DEF ReadUnreadable, WordsInOrder, Said, LetGo, stoppingVars
    <3>6. CASE ReadAllow
      BY <2>6, <2>b, <3>6 DEF ReadAllow, WordsInOrder, Said, LetGo, stoppingVars
    <3>7. CASE QueueInHand
      BY <3>7, <2>a, <2>b DEF QueueInHand, pipeVars, credVars, relayVars, stoppingVars
    <3>8. CASE ReadEnd
      BY <3>8, <2>b DEF ReadEnd, PipeEnded, CoilboxHasGone, WordsInOrder, Said, LetGo, pipeVars,
                        credVars, relayVars
    <3>. QED
      BY <2>7, <3>1, <3>2, <3>3, <3>4, <3>5, <3>6, <3>7, <3>8 DEF Reader
  <2>8. CASE RelayLoop \/ PlayerHeard \/ EngineSpeaks \/ RelayFails
    <3>1. WordsInOrder'
      BY <2>8, <2>a DEF RelayLoop, RelayGranted, RelayOpened, OpenRefused, OpenFails, LetThrough,
                        StartCarrying, TakeRequest, LetJoinerThrough, TakeBack, BackGiven, WakeUp,
                        GiveUp, PlayerHeard, EngineSpeaks, RelayFails, InLoop, CarriedOut,
                        CarriedIn, pipeVars, stoppingVars, flags
    <3>2. ASSUME OpenRefused \/ RelayFails PROVE RefusedForACause'
      BY <3>2 DEF OpenRefused, RelayFails, InLoop, RefusedForACause
    <3>3. ASSUME TakeBack \/ BackGiven PROVE RefusedForACause'
      BY <3>3 DEF TakeBack, BackGiven, InLoop, RefusedForACause
    <3>4. ASSUME PlayerHeard \/ EngineSpeaks \/ GiveUp PROVE RefusedForACause'
      BY <3>4 DEF PlayerHeard, EngineSpeaks, GiveUp, InLoop, RefusedForACause
    <3>5. ASSUME RelayLoop /\ ~OpenRefused /\ ~TakeBack /\ ~BackGiven /\ ~GiveUp PROVE RefusedForACause'
      BY <3>5 DEF RelayLoop, RelayGranted, RelayOpened, OpenFails, LetThrough, StartCarrying,
                  TakeRequest, LetJoinerThrough, WakeUp, InLoop, RefusedForACause
    <3>. QED  BY <2>8, <3>1, <3>2, <3>3, <3>4, <3>5
  <2>9. CASE Stopper
    BY <2>9, <2>a, <2>b DEF Stopper, Decide, TakeOpenRelay, Stop, pipeVars, credVars, relayVars,
                            stoppingVars
  <2>10. CASE TakeNote
    <3>1. WordsInOrder'
      BY <2>10 DEF TakeNote, CoilboxLeftANote, WordsInOrder, Said, LetGo, pipeVars
    <3>. QED  BY <2>10, <2>b, <3>1 DEF TakeNote, credVars, relayVars
  <2>11. ASSUME NEW c \in Cred, Expire(c) PROVE I'
    BY <2>11, <2>a DEF Expire, RefusedForACause, pipeVars, relayVars, stoppingVars
  <2>12. CASE Tick
    BY <2>12, <2>a, <2>b DEF Tick, TimePasses, pipeVars, credVars, relayVars, flags
  <2>13. CASE Gone
    BY <2>1, <2>13 DEF Gone
  <2>. QED
    BY <2>1, <2>2, <2>3, <2>4, <2>5, <2>7, <2>8, <2>9, <2>10, <2>11, <2>12, <2>13 DEF Next
<1>. QED  BY <1>1, <1>2, TypeCorrect, LastWordKept, PTL DEF Spec

-----------------------------------------------------------------------------
(* The agent lives by the table.                                           *)

LEMMA CourseRuns ==
  /\ Alive => Course \in {"keeps", "stops"}
  /\ Alive => (Course = "keeps" <=> stopper = "looking")
BY DEF Alive, Course

(* The reader at work: what it takes off the pipe it has no need of when   *)
(* asked who was named last, and an engine it takes is told to the rule.   *)
LEMMA ReadingIsUnseen ==
  ASSUME TypeOK, NEW k, Reading(k),
         IF k = "watch" THEN engine' = Head(pipe).what ELSE engine' = engine,
         UNCHANGED <<heardAPlayer, idle, engineState>>
  PROVE  UNCHANGED Table!vars
<1>1. /\ pipe \in Seq(Asks) /\ pipe # << >> /\ pipe' = Tail(pipe) /\ Head(pipe).kind = k
      /\ UNCHANGED <<pipeOpen, sent, note, expired, stopper, exit>>
  BY DEF Reading, TypeOK, endVars
<1>2. LastNamed(pipe, engine) =
        LastNamed(Tail(pipe), IF Head(pipe).kind = "watch" THEN Head(pipe).what ELSE engine)
  BY <1>1, NamedByReading
<1>3. LastNamed(pipe, engine)' = LastNamed(pipe', engine')
  BY DEF LastNamed
<1>4. engine' = IF Head(pipe).kind = "watch" THEN Head(pipe).what ELSE engine
  BY <1>1
<1>5. LastNamed(pipe, engine)' = LastNamed(pipe, engine)
  BY <1>1, <1>2, <1>3, <1>4
<1>. QED  BY <1>1, <1>5 DEF Table!vars, Said, Course

(* When the rule finds a reason, the table gives one for the same moment.  *)
LEMMA ReasonsAreTrue ==
  ASSUME ClosedBehindLastWord, WordsInOrder, NoLongerNeeded
  PROVE  Table!Reason
<1>1. CASE asked
  BY <1>1 DEF WordsInOrder, Table!Reason
<1>2. CASE ~asked
  <2>1. LetGo /\ ~pipeOpen /\ pipe = << >>
    BY <1>2 DEF NoLongerNeeded, LetGo, ClosedBehindLastWord, WordsInOrder
  <2>2. LastNamed(pipe, engine) = engine
    BY <2>1 DEF LastNamed
  <2>3. CASE battleOver /\ ~heardAPlayer
    BY <2>1, <2>3 DEF WordsInOrder, Table!Reason, Table!NothingToProtect
  <2>4. CASE askedInANote /\ ~heardAPlayer
    BY <2>1, <2>4 DEF WordsInOrder, Table!Reason, Table!NothingToProtect
  <2>5. CASE EngineGone
    BY <2>1, <2>2, <2>5 DEF EngineGone, Table!Reason, Table!NamedGone
  <2>6. CASE idle >= IdleTimeout
    BY <2>1, <2>6 DEF Table!Reason
  <2>. QED  BY <1>2, <2>3, <2>4, <2>5, <2>6 DEF NoLongerNeeded
<1>. QED  BY <1>1, <1>2

(* Every step of the agent is one the table knows, or none of its.         *)
LEMMA StepsAreOnTheTable ==
  ASSUME TypeOK, ClosedBehindLastWord, WordsInOrder, RefusedForACause, [Next]_vars
  PROVE  [Table!Next]_(Table!vars)
<1>0. pipe \in Seq(Asks) /\ idle \in 0..IdleTimeout /\ IdleTimeout \in Nat \ {0}
  BY StoppingAssumption DEF TypeOK, StoppingTypeOK
<1>a. ASSUME UNCHANGED <<pipeOpen, sent, note, pipe, engine, engineState, heardAPlayer, idle,
                         expired, stopper, exit>>
      PROVE  UNCHANGED Table!vars
  BY <1>a DEF Table!vars, Said, LastNamed, Course
<1>b. ASSUME Alive, Alive', UNCHANGED <<pipeOpen, sent, note, pipe, engine, engineState, expired,
                                stopper, exit>>,
             idle' = 0, heardAPlayer' \in {heardAPlayer, TRUE}
      PROVE  Table!Next
  <2>1. UNCHANGED <<Said, LastNamed(pipe, engine), Course>>
    BY <1>b DEF Said, LastNamed, Course
  <2>2. (idle >= IdleTimeout)' = FALSE
    BY <1>0, <1>b
  <2>3. Table!Carries
    BY <1>b, <2>1, <2>2, CourseRuns DEF Table!Carries, Table!Runs
  <2>. QED  BY <2>3 DEF Table!Next
<1>1. CASE UNCHANGED vars
  BY <1>1, <1>a DEF vars, pipeVars, credVars, endVars, stoppingVars
<1>2. ASSUME NEW a \in Asks, Send(a) PROVE [Table!Next]_(Table!vars)
  <2>1. /\ Alive /\ pipeOpen /\ sent' = sent \cup {a} /\ pipe' = Append(pipe, a)
        /\ pipeOpen' = (a.kind \notin {"stop", "over"})
        /\ a.kind = "watch" => engineState[a.what] = "running"
        /\ UNCHANGED <<note, engine, engineState, heardAPlayer, idle, expired, stopper, exit>>
    BY <1>2 DEF Send, credVars, endVars, stoppingVars
  <2>2. LastNamed(pipe, engine)' = IF a.kind = "watch" THEN a.what ELSE LastNamed(pipe, engine)
    <3>1. LastNamed(pipe, engine)' = LastNamed(Append(pipe, a), engine)
      BY <2>1 DEF LastNamed
    <3>. QED  BY <1>0, <3>1, NamedByWriting
  <2>3. Course' = Course /\ Table!Runs
    BY <2>1, CourseRuns DEF Course, Table!Runs
  <2>4. CASE a.kind \in {"stop", "over"}
    <3>1. Said' = Said \cup {a.kind}
      BY <2>1, <2>4 DEF Said
    <3>2. Table!Says(a.kind)
      BY <2>1, <2>2, <2>3, <2>4, <3>1 DEF Table!Says
    <3>. QED  BY <2>4, <3>2 DEF Table!Next
  <2>5. CASE a.kind = "watch"
    <3>1. Said' = Said
      BY <2>1, <2>5 DEF Said
    <3>2. a.what \in Pid
      BY <2>5, RelayAgentAssumption
    <3>3. Table!Names(a.what)
      BY <2>1, <2>2, <2>3, <2>5, <3>1 DEF Table!Names
    <3>. QED  BY <3>2, <3>3 DEF Table!Next
  <2>6. CASE a.kind \notin {"stop", "over", "watch"}
    <3>1. Said' = Said
      BY <2>1, <2>6 DEF Said
    <3>. QED  BY <2>1, <2>2, <2>3, <2>6, <3>1 DEF Table!vars
  <2>. QED  BY <2>4, <2>5, <2>6
<1>3. CASE CoilboxCloses
  <2>1. UNCHANGED <<Said, LastNamed(pipe, engine), Course>>
    BY <1>3 DEF CoilboxCloses, Said, LastNamed, Course, endVars, stoppingVars
  <2>2. Table!Closes
    BY <1>3, <2>1 DEF CoilboxCloses, Table!Closes, credVars, stoppingVars
  <2>. QED  BY <2>2 DEF Table!Next
<1>4. ASSUME NEW pid \in Pid, LaunchEngine(pid) \/ EngineEnds(pid) PROVE Table!Next
  <2>0. UNCHANGED <<pipeOpen, sent, note, pipe, engine, heardAPlayer, idle, expired, stopper, exit>>
    BY <1>4 DEF LaunchEngine, EngineEnds, EngineStarts, EngineExits, pipeVars, credVars, endVars,
                flags
  <2>1. UNCHANGED <<pipeOpen, Said, LastNamed(pipe, engine), heardAPlayer, idle, expired, Course>>
    BY <2>0 DEF Said, LastNamed, Course
  <2>2. Table!Starts(pid) \/ Table!Exits(pid)
    BY <1>4, <2>1 DEF LaunchEngine, EngineEnds, EngineStarts, EngineExits, Table!Starts,
                      Table!Exits
  <2>. QED  BY <2>2 DEF Table!Next
<1>5. CASE LeaveNote
  <2>1. UNCHANGED <<pipeOpen, LastNamed(pipe, engine), Course>> /\ Table!Runs
    BY <1>5, CourseRuns DEF LeaveNote, LastNamed, Course, Table!Runs, pipeVars, endVars,
                            stoppingVars
  <2>2. Said' = Said \cup {"note"}
    BY <1>5 DEF LeaveNote, Said, pipeVars
  <2>3. Table!LeavesNote
    BY <1>5, <2>1, <2>2 DEF LeaveNote, Table!LeavesNote, credVars, stoppingVars
  <2>. QED  BY <2>3 DEF Table!Next
<1>6. CASE Reader
  <2>1. CASE ReadWatch
    BY <2>1, ReadingIsUnseen DEF ReadWatch, EngineIs
  <2>2. CASE ReadStop \/ ReadOver
    BY <2>2, ReadingIsUnseen DEF ReadStop, ReadOver, CoilboxAsked, BattleIsOver
  <2>3. CASE ReadRenew \/ ReadUnreadable \/ ReadAllow
    BY <2>3, ReadingIsUnseen DEF ReadRenew, ReadUnreadable, ReadAllow, stoppingVars
  <2>4. CASE QueueInHand \/ ReadEnd
    BY <2>4, <1>a DEF QueueInHand, ReadEnd, CoilboxHasGone, pipeVars, credVars, endVars,
                      stoppingVars
  <2>. QED  BY <1>6, <2>1, <2>2, <2>3, <2>4 DEF Reader
<1>7. CASE RelayLoop \/ PlayerHeard \/ EngineSpeaks \/ RelayFails
  <2>. USE DEF InLoop
  <2>1. ASSUME NEW ip \in Ip, LetThrough(ip) PROVE [Table!Next]_(Table!vars)
    <3>1. /\ Alive /\ Alive'
          /\ UNCHANGED <<pipeOpen, sent, note, pipe, engine, engineState, expired, stopper, exit>>
      BY <2>1 DEF LetThrough, CarriedOut, Alive, pipeVars, flags, stoppingVars
    <3>2. \/ idle' = 0 /\ heardAPlayer' = heardAPlayer
          \/ UNCHANGED <<idle, heardAPlayer>>
      BY <2>1 DEF LetThrough, CarriedOut, flags, stoppingVars
    <3>. QED  BY <1>a, <1>b, <3>1, <3>2
  <2>2. CASE LetJoinerThrough
    <3>1. /\ Alive /\ Alive'
          /\ UNCHANGED <<pipeOpen, sent, note, pipe, engine, engineState, expired, stopper, exit>>
      BY <2>2 DEF LetJoinerThrough, CarriedOut, Alive, pipeVars, flags, stoppingVars
    <3>2. \/ idle' = 0 /\ heardAPlayer' = heardAPlayer
          \/ UNCHANGED <<idle, heardAPlayer>>
      BY <2>2 DEF LetJoinerThrough, CarriedOut, flags, stoppingVars
    <3>. QED  BY <1>a, <1>b, <3>1, <3>2
  <2>3. CASE PlayerHeard \/ EngineSpeaks
    <3>1. /\ Alive /\ Alive'
          /\ UNCHANGED <<pipeOpen, sent, note, pipe, engine, engineState, expired, stopper, exit>>
      BY <2>3 DEF PlayerHeard, EngineSpeaks, CarriedIn, CarriedOut, Alive, pipeVars, flags
    <3>2. idle' = 0 /\ heardAPlayer' \in {heardAPlayer, TRUE}
      BY <2>3 DEF PlayerHeard, EngineSpeaks, CarriedIn, CarriedOut, flags
    <3>. QED  BY <1>b, <3>1, <3>2
  <2>4. CASE GiveUp
    <3>1. /\ Alive /\ exit' = "refused" /\ expired # {}
          /\ UNCHANGED <<pipeOpen, sent, note, pipe, engine, engineState, heardAPlayer, idle,
                         expired>>
      BY <2>4 DEF GiveUp, RefusedForACause, pipeVars, stoppingVars
    <3>2. Course' = "refused" /\ Table!Runs
      BY <3>1, CourseRuns DEF Course, Table!Runs
    <3>3. UNCHANGED <<Said, LastNamed(pipe, engine)>>
      BY <3>1 DEF Said, LastNamed
    <3>4. Table!GivesUp
      BY <3>1, <3>2, <3>3 DEF Table!GivesUp, Table!Becomes
    <3>. QED  BY <3>4 DEF Table!Next
  <2>5. CASE RelayLoop /\ ~LetJoinerThrough /\ ~GiveUp /\ ~ \E ip \in Ip : LetThrough(ip)
    BY <2>5, <1>a DEF RelayLoop, RelayGranted, RelayOpened, OpenRefused, OpenFails, StartCarrying,
                      TakeRequest, TakeBack, BackGiven, WakeUp, pipeVars, stoppingVars
  <2>6. CASE RelayFails
    BY <2>6, <1>a DEF RelayFails, pipeVars, stoppingVars
  <2>. QED  BY <1>7, <2>1, <2>2, <2>3, <2>4, <2>5, <2>6
<1>8. CASE Stopper
  <2>1. /\ Alive
        /\ UNCHANGED <<pipeOpen, sent, note, pipe, engine, engineState, heardAPlayer, idle,
                       expired>>
    BY <1>8 DEF Stopper, Decide, TakeOpenRelay, Stop, pipeVars, credVars, stoppingVars
  <2>2. UNCHANGED <<Said, LastNamed(pipe, engine)>>
    BY <2>1 DEF Said, LastNamed
  <2>3. CASE Decide
    <3>1. Course = "keeps" /\ Course' = "stops"
      BY <2>1, <2>3 DEF Decide, Course, Alive
    <3>2. Table!Reason
      BY <2>3, ReasonsAreTrue DEF Decide
    <3>3. Table!Stops
      BY <2>1, <2>2, <3>1, <3>2 DEF Table!Stops, Table!Becomes
    <3>. QED  BY <3>3 DEF Table!Next
  <2>4. CASE TakeOpenRelay \/ Stop
    <3>1. Course = "stops" /\ Course' \in {"stops", "gone"}
      BY <2>1, <2>4 DEF TakeOpenRelay, Stop, Course, Alive
    <3>2. CASE Course' = "stops"
      BY <2>1, <2>2, <3>1, <3>2 DEF Table!vars
    <3>3. CASE Course' = "gone"
      <4>1. Table!Goes
        BY <2>1, <2>2, <3>1, <3>3 DEF Table!Goes, Table!Becomes
      <4>. QED  BY <4>1 DEF Table!Next
    <3>. QED  BY <3>1, <3>2, <3>3
  <2>. QED  BY <1>8, <2>3, <2>4 DEF Stopper
<1>9. CASE TakeNote
  <2>1. UNCHANGED <<pipeOpen, Said, LastNamed(pipe, engine), engineState, heardAPlayer, idle,
                    expired, Course>>
    BY <1>9 DEF TakeNote, CoilboxLeftANote, Said, LastNamed, Course, pipeVars, credVars, endVars
  <2>. QED  BY <2>1 DEF Table!vars
<1>10. ASSUME NEW c \in Cred, Expire(c) PROVE Table!Next
  <2>1. UNCHANGED <<pipeOpen, Said, LastNamed(pipe, engine), engineState, heardAPlayer, idle,
                    Course>> /\ expired' # {}
    BY <1>10 DEF Expire, Said, LastNamed, Course, pipeVars, endVars, stoppingVars
  <2>2. Table!Revokes
    BY <2>1 DEF Table!Revokes
  <2>. QED  BY <2>2 DEF Table!Next
<1>11. CASE Tick
  <2>1. UNCHANGED <<pipeOpen, Said, LastNamed(pipe, engine), engineState, heardAPlayer, expired,
                    Course>> /\ Table!Runs
    BY <1>11, CourseRuns DEF Tick, TimePasses, Said, LastNamed, Course, Table!Runs, pipeVars,
                             credVars, endVars, flags
  <2>2. idle' = IF idle < IdleTimeout THEN idle + 1 ELSE idle
    BY <1>11 DEF Tick, TimePasses
  <2>3. (idle' >= IdleTimeout) = TRUE \/ (idle' >= IdleTimeout) = (idle >= IdleTimeout)
    BY <1>0, <2>2
  <2>4. CASE (idle' >= IdleTimeout) = TRUE
    <3>1. Table!FallsQuiet
      BY <2>1, <2>4 DEF Table!FallsQuiet
    <3>. QED  BY <3>1 DEF Table!Next
  <2>5. CASE (idle' >= IdleTimeout) = (idle >= IdleTimeout)
    BY <2>1, <2>5 DEF Table!vars
  <2>. QED  BY <2>3, <2>4, <2>5
<1>12. CASE Gone
  BY <1>1, <1>12 DEF Gone
<1>. QED
  BY <1>1, <1>2, <1>3, <1>4, <1>5, <1>6, <1>7, <1>8, <1>9, <1>10, <1>11, <1>12 DEF Next

(* Pipe, reader, flags, relay loop and exit path together keep to the      *)
(* table: whatever is unread or under way, the agent stops only on what is *)
(* true of Coilbox, of the engine it named last and of the relay.          *)
THEOREM TheTableIsKept == Spec => LivesByTheTable
<1>1. Init => Table!Init
  BY EmptySeq, StoppingAssumption DEF Init, StoppingInit, Table!Init, Said, LastNamed, Course
<1>2. TypeOK /\ ClosedBehindLastWord /\ WordsInOrder /\ RefusedForACause /\ [Next]_vars
        => [Table!Next]_(Table!vars)
  BY StepsAreOnTheTable
<1>. QED
  BY <1>1, <1>2, TypeCorrect, LastWordKept, WordsAlwaysInOrder, PTL
  DEF Spec, LivesByTheTable, Table!Spec

(* So a game with players, on the engine named last, that has carried      *)
(* anything lately, is not what the agent stops on unless told to: not     *)
(* when the battle is left, not when Coilbox goes, and not because of an   *)
(* earlier game's engine, be the last one named still on the pipe.         *)
THEOREM PlayedGamesAreKept == Spec => Table!PlayedGameKept
<1>. DEFINE StepKeeps ==
       Course = "keeps" /\ Course' = "stops" =>
         \/ "stop" \in Said
         \/ ~ /\ heardAPlayer
              /\ LastNamed(pipe, engine) # NoPid
              /\ engineState[LastNamed(pipe, engine)] = "running"
              /\ ~(idle >= IdleTimeout)
<1>1. [Table!Next]_(Table!vars) => [StepKeeps]_(Table!vars)
  <2>. SUFFICES ASSUME Table!Next, Course = "keeps", Course' = "stops" PROVE StepKeeps
    OBVIOUS
  <2>1. Table!Stops
    BY DEF Table!Next, Table!Says, Table!Closes, Table!LeavesNote, Table!Names, Table!Starts,
           Table!Exits, Table!Carries, Table!FallsQuiet, Table!Revokes, Table!Goes,
           Table!GivesUp, Table!Becomes
  <2>. QED
    BY <2>1 DEF Table!Stops, Table!Reason, Table!NothingToProtect, Table!NamedGone
<1>. QED
  BY <1>1, TheTableIsKept, PTL DEF LivesByTheTable, Table!Spec, Table!PlayedGameKept
-----------------------------------------------------------------------------
(* The run file, however starts overlap one another and agents leaving.     *)

Leaver(b) == pc[b] \in Leaving
Taker(b) == pc[b] \in Taking

(* What an agent whose own start overlapped nothing can rely on: from its  *)
(* start for as long as it relays, nobody else is at the files, and they   *)
(* are as it left them.  Others may relay meanwhile, after a race of their *)
(* own, but none of them has the file or can get at it.                    *)
UncrossedHasTheFiles ==
  /\ \A a \in Agent : pc[a] = "unborn" \/ Taker(a) => said[a] = "nothing"
  /\ \A a \in Agent \ crossed :
       /\ Taker(a) \/ Claimed(a) =>
            \A b \in Agent \ {a} : ~Taker(b) /\ ~Leaver(b)
       /\ Claimed(a) =>
            /\ runFile = a
            /\ said[a] # "nothing"
            /\ said[a] = "locked" => lockOn[a] = lockFile /\ lockFile # NoAgent
       /\ pc[a] \in {"locking", "writing"} => runFile = a
       /\ pc[a] = "writing" /\ lockOn[a] # NoAgent => lockOn[a] = lockFile
       /\ pc[a] \in {"reading", "removing"} => runFile # NoAgent
       /\ pc[a] = "creatingAgain" => runFile = NoAgent
       /\ pc[a] \in {"creating", "reading"} => \A b \in Agent : Lives(b) => ~Holds(b)

(* Every variable keeps its type, and a process that is not at the files   *)
(* holds no lock on them.                                                  *)
THEOREM FilesTypeCorrect == FilesSpec => []FilesTypeOK
<1>1. FilesInit => FilesTypeOK
  BY DEF FilesInit, FilesTypeOK
<1>2. FilesTypeOK /\ [FilesNext]_filesVars => FilesTypeOK'
  <2> SUFFICES ASSUME FilesTypeOK, [FilesNext]_filesVars PROVE FilesTypeOK'
    OBVIOUS
  <2> USE RunFileAssumption DEF FilesTypeOK, Taking, Leaving, Over, Move, Starting
  <2>1. CASE UNCHANGED filesVars
    BY <2>1 DEF filesVars
  <2>2. ASSUME NEW a \in Agent, Spawn(a) \/ Create(a) \/ AlreadyThere(a) \/ Read(a)
        PROVE FilesTypeOK'
    BY <2>2 DEF Spawn, Create, AlreadyThere, Read
  <2>3. ASSUME NEW a \in Agent, HoldTheLock(a) PROVE FilesTypeOK'
    BY <2>3 DEF HoldTheLock
  <2>4. ASSUME NEW a \in Agent, Write(a) PROVE FilesTypeOK'
    BY <2>4 DEF Write
  <2>5. ASSUME NEW a \in Agent, RemoveStale(a) PROVE FilesTypeOK'
    BY <2>5 DEF RemoveStale
  <2>6. ASSUME NEW a \in Agent, Leave(a) PROVE FilesTypeOK'
    BY <2>6 DEF Leave
  <2>7. ASSUME NEW a \in Agent, LetGoOfLock(a) \/ RemoveLock(a) \/ RemoveRun(a)
        PROVE FilesTypeOK'
    BY <2>7 DEF LetGoOfLock, RemoveLock, RemoveRun
  <2>8. ASSUME NEW a \in Agent, Kill(a) PROVE FilesTypeOK'
    BY <2>8 DEF Kill
  <2>9. ASSUME NEW a \in Agent, Recycle(a) \/ Release(a) PROVE FilesTypeOK'
    BY <2>9 DEF Recycle, Release
  <2>. QED
    BY <2>1, <2>2, <2>3, <2>4, <2>5, <2>6, <2>7, <2>8, <2>9 DEF FilesNext, Step
<1>. QED  BY <1>1, <1>2, PTL DEF FilesSpec

LEMMA FilesKept == FilesSpec => []UncrossedHasTheFiles
<1>. USE RunFileAssumption
     DEF FilesTypeOK, UncrossedHasTheFiles, Claimed, Taker, Leaver, Taking, Leaving, Over,
         Lives, Holds, Running, RunFileIsStillHeld, Move, Starting
<1>1. FilesInit => UncrossedHasTheFiles
  BY DEF FilesInit
<1>2. FilesTypeOK /\ UncrossedHasTheFiles /\ [FilesNext]_filesVars => UncrossedHasTheFiles'
  <2> SUFFICES ASSUME FilesTypeOK, UncrossedHasTheFiles, [FilesNext]_filesVars
               PROVE  UncrossedHasTheFiles'
    OBVIOUS
  <2>1. CASE UNCHANGED filesVars
    BY <2>1 DEF filesVars
  <2>2. ASSUME NEW a \in Agent, Spawn(a) PROVE UncrossedHasTheFiles'
    BY <2>2 DEF Spawn
  <2>3. ASSUME NEW a \in Agent, Create(a) PROVE UncrossedHasTheFiles'
    BY <2>3 DEF Create
  <2>4. ASSUME NEW a \in Agent, AlreadyThere(a) \/ Read(a) PROVE UncrossedHasTheFiles'
    BY <2>4 DEF AlreadyThere, Read
  <2>5. ASSUME NEW a \in Agent, HoldTheLock(a) PROVE UncrossedHasTheFiles'
    BY <2>5 DEF HoldTheLock
  <2>6. ASSUME NEW a \in Agent, Write(a) PROVE UncrossedHasTheFiles'
    BY <2>6 DEF Write
  <2>7. ASSUME NEW a \in Agent, RemoveStale(a) PROVE UncrossedHasTheFiles'
    BY <2>7 DEF RemoveStale
  <2>8. ASSUME NEW a \in Agent, Leave(a) PROVE UncrossedHasTheFiles'
    BY <2>8 DEF Leave
  <2>9. ASSUME NEW a \in Agent, LetGoOfLock(a) \/ RemoveLock(a) \/ RemoveRun(a)
        PROVE UncrossedHasTheFiles'
    BY <2>9 DEF LetGoOfLock, RemoveLock, RemoveRun
  <2>10. ASSUME NEW a \in Agent, Kill(a) PROVE UncrossedHasTheFiles'
    BY <2>10 DEF Kill
  <2>11. ASSUME NEW a \in Agent, Recycle(a) \/ Release(a) PROVE UncrossedHasTheFiles'
    BY <2>11 DEF Recycle, Release
  <2>. QED
    BY <2>1, <2>2, <2>3, <2>4, <2>5, <2>6, <2>7, <2>8, <2>9, <2>10, <2>11 DEF FilesNext, Step
<1>. QED  BY <1>1, <1>2, FilesTypeCorrect, PTL DEF FilesSpec

(* Whatever races there were and are, two agents relay at once only when   *)
(* the start of one of them was itself overlapped.                         *)
THEOREM RacesAreConfined == FilesSpec => []AloneUnlessCrossed
<1>1. UncrossedHasTheFiles => AloneUnlessCrossed
  BY DEF UncrossedHasTheFiles, AloneUnlessCrossed
<1>. QED  BY <1>1, FilesKept, PTL

(* Nothing another agent does later, racing or leaving, takes the run file *)
(* from one whose start was not overlapped.                                *)
THEOREM AgentsAreFound == FilesSpec => []FoundUnlessCrossed
<1>1. UncrossedHasTheFiles => FoundUnlessCrossed
  BY DEF UncrossedHasTheFiles, FoundUnlessCrossed, Claimed, Holds, Running, Lives, Over,
         RunFileIsStillHeld
<1>. QED  BY <1>1, FilesKept, PTL

(* A start that overlapped nothing is refused only over the process id of  *)
(* a dead agent that has gone to a stranger, with no lock to tell them     *)
(* apart, or with the lock of another agent that relays.                   *)
THEOREM RefusalsHaveACause == FilesSpec => RefusalExplained
<1> DEFINE Explained == \A a \in Agent \ crossed : pc[a] # "refused" /\ pc'[a] = "refused" =>
             \E b \in recycled :
               /\ runFile = b
               /\ \/ said[b] = "unlocked"
                  \/ lockFile = NoAgent
                  \/ \E c \in crossed : Claimed(c) /\ lockOn[c] = lockFile
<1>1. FilesTypeOK /\ UncrossedHasTheFiles /\ [FilesNext]_filesVars => [Explained]_filesVars
  <2> SUFFICES ASSUME FilesTypeOK, UncrossedHasTheFiles, FilesNext,
                      NEW a \in Agent \ crossed, pc[a] # "refused", pc'[a] = "refused"
               PROVE  \E b \in recycled :
                        /\ runFile = b
                        /\ \/ said[b] = "unlocked"
                           \/ lockFile = NoAgent
                           \/ \E c \in crossed : Claimed(c) /\ lockOn[c] = lockFile
    OBVIOUS
  <2>1. pc[a] = "reading" /\ \E b \in Agent : Holds(b)
    <3>1. PICK c \in Agent : Spawn(c) \/ Step(c) \/ Kill(c) \/ Recycle(c) \/ Release(c)
      BY DEF FilesNext
    <3>2. c = a
      BY <3>1 DEF FilesTypeOK, Spawn, Step, Create, AlreadyThere, HoldTheLock, Write, Read,
        RemoveStale, Leave, LetGoOfLock, RemoveLock, RemoveRun, Kill, Recycle, Release, Move
    <3>3. ~AlreadyThere(a) \/ pc[a] # "creatingAgain"
      BY DEF AlreadyThere, UncrossedHasTheFiles
    <3>4. ~RemoveStale(a)
      BY DEF RemoveStale, UncrossedHasTheFiles, FilesTypeOK, Move
    <3>. QED
      BY <3>1, <3>2, <3>3, <3>4
      DEF FilesTypeOK, Spawn, Step, Create, AlreadyThere, HoldTheLock, Write, Read,
        Leave, LetGoOfLock, RemoveLock, RemoveRun, Kill, Recycle, Release, Move
  <2>2. PICK b \in Agent : Holds(b)
    BY <2>1
  <2>3. ~Lives(b)
    BY <2>1, <2>2 DEF UncrossedHasTheFiles
  <2>4. b \in recycled /\ runFile = b /\ said[b] \in {"unlocked", "locked"}
    BY <2>2, <2>3 DEF Holds, Running, FilesTypeOK
  <2>5. ASSUME said[b] = "locked", lockFile # NoAgent
        PROVE  \E c \in crossed : Claimed(c) /\ lockOn[c] = lockFile
    <3>1. PICK c \in Agent : lockOn[c] = lockFile
      BY <2>2, <2>5 DEF Holds, RunFileIsStillHeld
    <3>2. pc[c] \in {"writing", "claimed", "leaving"} /\ c # a
      BY <2>1, <2>5, <3>1 DEF FilesTypeOK
    <3>3. Claimed(c)
      BY <2>1, <3>2 DEF UncrossedHasTheFiles, Taker, Leaver, Taking, Leaving, Claimed
    <3>4. c \in crossed
      BY <2>1, <3>2, <3>3 DEF UncrossedHasTheFiles, Taker, Taking
    <3>. QED  BY <3>1, <3>3, <3>4
  <2>. QED  BY <2>4, <2>5
<1>. QED  BY <1>1, FilesTypeCorrect, FilesKept, PTL DEF FilesSpec, RefusalExplained
=============================================================================
