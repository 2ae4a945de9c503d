----------------------------- MODULE RelayAgent -----------------------------
(***************************************************************************)
(* The relay agent, the process that carries a host's game through a TURN  *)
(* server (coilbox-relay-agent/src: main.rs, control.rs, allowlist.rs and, *)
(* through Stopping, stopping.rs).                                         *)
(*                                                                         *)
(* Four tasks share its state.  The reader takes requests off the control  *)
(* pipe and answers most of them itself.  The relay loop opens a relay,    *)
(* carries a game over it, serves the requests that need one, and rebuilds *)
(* it when it fails.  The stop rule looks once a second at whether anybody *)
(* still needs the agent.  The note reader looks for a note beside the run *)
(* file.  main() runs the relay loop and the stop rule in one select!, so  *)
(* whichever ends first cancels the other wherever it happens to be.       *)
(***************************************************************************)
EXTENDS Stopping, Sequences

CONSTANTS
  Ip,              \* addresses of players Coilbox may vouch for
  Cred,            \* relay credentials
  FirstCred,       \* the one the agent was started with
  Asks,            \* requests Coilbox may write, each at most once
  NoAsk,           \* no request
  QueuedRequests,  \* QUEUED_REQUESTS: requests that may wait for a relay
  MaxDatagrams     \* bound: datagrams of the game itself

Kinds == {"allow", "watch", "stop", "over", "renew", "unreadable"}

ASSUME RelayAgentAssumption ==
  /\ FirstCred \in Cred
  /\ Asks \subseteq [kind : Kinds, what : Ip \cup Pid \cup Cred \cup {NoAsk}]
  /\ \A a \in Asks : /\ a.kind = "allow" => a.what \in Ip
                     /\ a.kind = "watch" => a.what \in Pid
                     /\ a.kind = "renew" => a.what \in Cred
  /\ NoAsk \notin Asks
  /\ QueuedRequests \in Nat \ {0}
  /\ MaxDatagrams \in Nat

VARIABLES
  pipeOpen,    \* Coilbox still holds its end of the control pipe
  sent,        \* requests Coilbox has written
  pipe,        \* of those, the ones not read yet
  reader,      \* the reading task: "reading" or "ended"
  inHand,      \* a request the reader holds because the queue is full
  queue,       \* requests waiting for a relay to act on
  answers,     \* what each request was answered: "none", "done", "failed"
  note,        \* the note beside the run file: "none", "left", "taken"
  held,        \* the credential the next relay will be opened with
  signedWith,  \* the credential the present relay was opened with
  expired,     \* credentials the TURN server no longer accepts
  loop,        \* where the relay loop is
  slot,        \* a relay is published where the exit path can reach it
  lease,       \* the newest allocation: "none", "held" or "returned"
  allowlist,   \* addresses Coilbox has vouched for
  toProbe,     \* addresses a relay just opened has still to let through
  permitted,   \* addresses the present relay has a permission for
  turnedAway,  \* addresses whose probe failed on the present relay
  serving,     \* the request the relay loop is carrying out
  datagrams,   \* datagrams of the game carried so far
  stopper,     \* the stop rule: "looking", "saying" or "handingBack"
  exit         \* "no", "stopped" (exit code 0) or "refused" (exit code 2)

pipeVars == <<pipeOpen, sent, pipe>>
readerVars == <<reader, inHand, queue, answers>>
credVars == <<held, signedWith, expired>>
relayVars == <<loop, slot, lease, toProbe, permitted, turnedAway>>
carryVars == <<allowlist, serving, datagrams>>
endVars == <<stopper, exit>>

vars == <<pipeVars, readerVars, note, credVars, relayVars, carryVars, endVars,
          stoppingVars>>

LoopStates == {"opening", "granted", "lettingThrough", "carrying", "failed",
               "handingBack", "sleeping", "refused", "refusedHandingBack",
               "givingUp"}

TypeOK ==
  /\ StoppingTypeOK
  /\ pipeOpen \in BOOLEAN
  /\ sent \in SUBSET Asks
  /\ pipe \in Seq(Asks)
  /\ reader \in {"reading", "ended"}
  /\ inHand \in Asks \cup {NoAsk}
  /\ queue \in Seq(Asks)
  /\ answers \in [Asks -> {"none", "done", "failed"}]
  /\ note \in {"none", "left", "taken"}
  /\ held \in Cred
  /\ signedWith \in Cred
  /\ expired \in SUBSET Cred
  /\ loop \in LoopStates
  /\ slot \in BOOLEAN
  /\ lease \in {"none", "held", "returned"}
  /\ allowlist \in SUBSET Ip
  /\ toProbe \in SUBSET Ip
  /\ permitted \in SUBSET Ip
  /\ turnedAway \in SUBSET Ip
  /\ serving \in Asks \cup {NoAsk}
  /\ datagrams \in 0..MaxDatagrams
  /\ stopper \in {"looking", "saying", "handingBack"}
  /\ exit \in {"no", "stopped", "refused"}

Init ==
  /\ StoppingInit
  /\ pipeOpen = TRUE
  /\ sent = {}
  /\ pipe = << >>
  /\ reader = "reading"
  /\ inHand = NoAsk
  /\ queue = << >>
  /\ answers = [a \in Asks |-> "none"]
  /\ note = "none"
  /\ held = FirstCred
  /\ signedWith = FirstCred
  /\ expired = {}
  /\ loop = "opening"
  /\ slot = FALSE
  /\ lease = "none"
  /\ allowlist = {}
  /\ toProbe = {}
  /\ permitted = {}
  /\ turnedAway = {}
  /\ serving = NoAsk
  /\ datagrams = 0
  /\ stopper = "looking"
  /\ exit = "no"

Alive == exit = "no"

-----------------------------------------------------------------------------
(* Coilbox.  It says "stop" only about a battle that never opened, so      *)
(* before anything else; "stop" and "over" are the last it says, because   *)
(* it lets go of the pipe with them; and it names an engine only while     *)
(* that engine is running.                                                 *)

Send(a) ==
  /\ Alive /\ pipeOpen
  /\ a \notin sent
  /\ a.kind = "stop" => sent = {}
  /\ a.kind = "watch" => engineState[a.what] = "running"
  /\ sent' = sent \cup {a}
  /\ pipe' = Append(pipe, a)
  /\ pipeOpen' = (a.kind \notin {"stop", "over"})
  /\ UNCHANGED <<readerVars, note, credVars, relayVars, carryVars, endVars, stoppingVars>>

CoilboxCloses ==
  /\ pipeOpen
  /\ pipeOpen' = FALSE
  /\ UNCHANGED <<sent, pipe, readerVars, note, credVars, relayVars, carryVars,
                 endVars, stoppingVars>>

(* A battle plays one game at a time.                                      *)
LaunchEngine(pid) ==
  /\ pipeOpen
  /\ \A p \in Pid : engineState[p] # "running"
  /\ EngineStarts(pid)
  /\ UNCHANGED <<pipeVars, readerVars, note, credVars, relayVars, carryVars, endVars>>

EngineEnds(pid) ==
  /\ EngineExits(pid)
  /\ UNCHANGED <<pipeVars, readerVars, note, credVars, relayVars, carryVars, endVars>>

(* A Coilbox started later finds the agent through the run file and leaves *)
(* the only thing it can.                                                  *)
LeaveNote ==
  /\ Alive /\ ~pipeOpen
  /\ note = "none"
  /\ note' = "left"
  /\ UNCHANGED <<pipeVars, readerVars, credVars, relayVars, carryVars, endVars, stoppingVars>>

-----------------------------------------------------------------------------
(* The reader: Requests::reading.                                          *)

(* An operator whose name begins with Wrong is the one below it as a slip  *)
(* would have written it.  No action uses it: a property must tell the two *)
(* apart.                                                                  *)
WrongAnswer(a, how) == answers' = [answers EXCEPT ![a] = "done"]
Answer(a, how) == answers' = [answers EXCEPT ![a] = how]

Reading(kind) ==
  /\ Alive
  /\ reader = "reading" /\ inHand = NoAsk
  /\ pipe # << >>
  /\ Head(pipe).kind = kind
  /\ pipe' = Tail(pipe)
  /\ UNCHANGED <<pipeOpen, sent, note, signedWith, expired, relayVars, carryVars, endVars>>

ReadWatch ==
  /\ Reading("watch")
  /\ EngineIs(Head(pipe).what)
  /\ Answer(Head(pipe), "done")
  /\ UNCHANGED <<reader, inHand, queue, held>>

ReadStop ==
  /\ Reading("stop")
  /\ Answer(Head(pipe), "done")
  /\ CoilboxAsked
  /\ reader' = "ended"
  /\ UNCHANGED <<inHand, queue, held>>

(* The task returns here, so it never reports the pipe's end afterwards.   *)
ReadOver ==
  /\ Reading("over")
  /\ Answer(Head(pipe), "done")
  /\ BattleIsOver
  /\ reader' = "ended"
  /\ UNCHANGED <<inHand, queue, held>>

ReadRenew ==
  /\ Reading("renew")
  /\ held' = Head(pipe).what
  /\ Answer(Head(pipe), "done")
  /\ UNCHANGED <<reader, inHand, queue, stoppingVars>>

(* A line that does not parse, or a renewal naming servers that do not.    *)
ReadUnreadable ==
  /\ Reading("unreadable")
  /\ Answer(Head(pipe), "failed")
  /\ UNCHANGED <<reader, inHand, queue, held, stoppingVars>>

(* heard.send(request).await: the reader itself waits when the queue is    *)
(* full, and nothing behind this request is read until it gets in.         *)
ReadAllow ==
  /\ Reading("allow")
  /\ IF Len(queue) < QueuedRequests
     THEN queue' = Append(queue, Head(pipe)) /\ UNCHANGED inHand
     ELSE inHand' = Head(pipe) /\ UNCHANGED queue
  /\ UNCHANGED <<reader, answers, held, stoppingVars>>

Holding == inHand # NoAsk

QueueInHand ==
  /\ Alive
  /\ Holding
  /\ Len(queue) < QueuedRequests
  /\ queue' = Append(queue, inHand)
  /\ inHand' = NoAsk
  /\ UNCHANGED <<pipeVars, reader, answers, note, credVars, relayVars, carryVars,
                 endVars, stoppingVars>>

WrongPipeEnded == pipe = << >> /\ ~pipeOpen /\ queue = << >>
PipeEnded == pipe = << >> /\ ~pipeOpen

ReadEnd ==
  /\ Alive
  /\ reader = "reading" /\ inHand = NoAsk
  /\ PipeEnded
  /\ CoilboxHasGone
  /\ reader' = "ended"
  /\ UNCHANGED <<pipeVars, inHand, queue, answers, note, credVars, relayVars,
                 carryVars, endVars>>

Reader ==
  \/ ReadWatch \/ ReadStop \/ ReadOver \/ ReadRenew
  \/ ReadUnreadable \/ ReadAllow \/ QueueInHand \/ ReadEnd

-----------------------------------------------------------------------------
(* The relay loop: relay_until_it_gives_up, carry and serve.               *)

(* Allowlist: kept outside any one relay.                                  *)
WrongEverybody == {}
Everybody == allowlist

Remember(ip) == allowlist' = allowlist \cup {ip}

(* still_held: no other credential has come since the relay was signed for. *)
WrongStillHeld == TRUE
StillHeld == held = signedWith

InLoop(from, to) ==
  /\ Alive
  /\ loop = from
  /\ loop' = to
  /\ UNCHANGED <<pipeVars, note, held, expired, stopper>>

(* Transport::open: the server grants an allocation, and then the answer   *)
(* reaches the loop, which publishes the relay before anything else.       *)
RelayGranted ==
  /\ InLoop("opening", "granted")
  /\ signedWith \notin expired
  /\ lease' = "held"
  /\ UNCHANGED <<readerVars, signedWith, slot, toProbe, permitted, turnedAway,
                 carryVars, exit, stoppingVars>>

RelayOpened ==
  /\ InLoop("granted", "lettingThrough")
  /\ slot' = TRUE
  /\ toProbe' = Everybody
  /\ permitted' = {}
  /\ turnedAway' = {}
  /\ UNCHANGED <<readerVars, signedWith, lease, carryVars, exit, stoppingVars>>

(* Refused with a 401: final only while there is no other credential.      *)
OpenRefused ==
  /\ signedWith \in expired
  /\ InLoop("opening", IF StillHeld THEN "givingUp" ELSE "sleeping")
  /\ UNCHANGED <<readerVars, signedWith, slot, lease, toProbe, permitted,
                 turnedAway, carryVars, exit, stoppingVars>>

OpenFails ==
  /\ InLoop("opening", "sleeping")
  /\ UNCHANGED <<readerVars, signedWith, slot, lease, toProbe, permitted,
                 turnedAway, carryVars, exit, stoppingVars>>

(* let_everybody_through: a probe per address vouched for.  A probe that   *)
(* gets out counts as traffic like any other datagram.                     *)
LetThrough(ip) ==
  /\ InLoop("lettingThrough", "lettingThrough")
  /\ ip \in toProbe
  /\ toProbe' = toProbe \ {ip}
  /\ \/ permitted' = permitted \cup {ip} /\ CarriedOut /\ UNCHANGED turnedAway
     \/ turnedAway' = turnedAway \cup {ip} /\ UNCHANGED <<permitted, stoppingVars>>
  /\ UNCHANGED <<readerVars, signedWith, slot, lease, carryVars, exit>>

StartCarrying ==
  /\ InLoop("lettingThrough", "carrying")
  /\ toProbe = {}
  /\ UNCHANGED <<readerVars, signedWith, slot, lease, toProbe, permitted,
                 turnedAway, carryVars, exit, stoppingVars>>

(* serve: the address is on the list before its probe is sent.             *)
TakeRequest ==
  /\ InLoop("carrying", "carrying")
  /\ serving = NoAsk
  /\ queue # << >>
  /\ serving' = Head(queue)
  /\ queue' = Tail(queue)
  /\ Remember(Head(queue).what)
  /\ UNCHANGED <<reader, inHand, answers, signedWith, slot, lease, toProbe,
                 permitted, turnedAway, datagrams, exit, stoppingVars>>

LetJoinerThrough ==
  /\ InLoop("carrying", "carrying")
  /\ serving # NoAsk
  /\ serving' = NoAsk
  /\ \/ /\ permitted' = permitted \cup {serving.what}
        /\ Answer(serving, "done")
        /\ CarriedOut
        /\ UNCHANGED turnedAway
     \/ /\ turnedAway' = turnedAway \cup {serving.what}
        /\ Answer(serving, "failed")
        /\ UNCHANGED <<permitted, stoppingVars>>
  /\ UNCHANGED <<reader, inHand, queue, signedWith, slot, lease, toProbe,
                 allowlist, datagrams, exit>>

(* The game: only addresses with a permission are delivered from, and the  *)
(* engine only ever answers players it has heard.                          *)
PlayerHeard ==
  /\ InLoop("carrying", "carrying")
  /\ permitted # {}
  /\ datagrams < MaxDatagrams
  /\ datagrams' = datagrams + 1
  /\ CarriedIn
  /\ UNCHANGED <<readerVars, signedWith, slot, lease, toProbe, permitted,
                 turnedAway, allowlist, serving, exit>>

EngineSpeaks ==
  /\ InLoop("carrying", "carrying")
  /\ heardAPlayer
  /\ \E p \in Pid : engineState[p] = "running"
  /\ datagrams < MaxDatagrams
  /\ datagrams' = datagrams + 1
  /\ CarriedOut
  /\ UNCHANGED <<readerVars, signedWith, slot, lease, toProbe, permitted,
                 turnedAway, allowlist, serving, exit>>

(* agent.run returns, and the select! drops serve with whatever request it *)
(* was in the middle of.  The failure is a 401 only on a credential the    *)
(* server no longer takes.                                                 *)
RelayFails ==
  /\ \/ InLoop("carrying", "failed")
     \/ signedWith \in expired /\ StillHeld /\ InLoop("carrying", "refused")
  /\ serving' = NoAsk
  /\ UNCHANGED <<readerVars, signedWith, slot, lease, toProbe, permitted,
                 turnedAway, allowlist, datagrams, exit, stoppingVars>>

WrongTakeBack ==
  /\ \/ InLoop("failed", "sleeping")
     \/ InLoop("refused", "givingUp")
  /\ slot' = FALSE
  /\ UNCHANGED <<readerVars, signedWith, lease, toProbe, permitted, turnedAway,
                 carryVars, exit, stoppingVars>>

(* hand_back takes the relay out of the slot, and finds nothing there when *)
(* the exit path got to it first.                                          *)
TakeBack ==
  /\ \/ slot /\ \/ InLoop("failed", "handingBack")
                \/ InLoop("refused", "refusedHandingBack")
     \/ ~slot /\ \/ InLoop("failed", "sleeping")
                 \/ InLoop("refused", "givingUp")
  /\ slot' = FALSE
  /\ UNCHANGED <<readerVars, signedWith, lease, toProbe, permitted, turnedAway,
                 carryVars, exit, stoppingVars>>

(* The close got out, or RELEASE_BUDGET ran out.                           *)
BackGiven ==
  /\ \/ InLoop("handingBack", "sleeping")
     \/ InLoop("refusedHandingBack", "givingUp")
  /\ lease' = "returned"
  /\ UNCHANGED <<readerVars, signedWith, slot, toProbe, permitted, turnedAway,
                 carryVars, exit, stoppingVars>>

(* The shortest backoff is no shorter than RELEASE_BUDGET, so a sleep that *)
(* began after the exit path took the relay outlasts its handing back.     *)
WakeUp ==
  /\ InLoop("sleeping", "opening")
  /\ stopper # "handingBack"
  /\ signedWith' = held
  /\ UNCHANGED <<readerVars, slot, lease, toProbe, permitted, turnedAway,
                 carryVars, exit, stoppingVars>>

GiveUp ==
  /\ InLoop("givingUp", "givingUp")
  /\ exit' = "refused"
  /\ UNCHANGED <<readerVars, signedWith, slot, lease, toProbe, permitted,
                 turnedAway, carryVars, stoppingVars>>

RelayLoop ==
  \/ RelayGranted \/ RelayOpened \/ OpenRefused \/ OpenFails
  \/ (\E ip \in Ip : LetThrough(ip)) \/ StartCarrying
  \/ TakeRequest \/ LetJoinerThrough
  \/ TakeBack \/ BackGiven \/ WakeUp \/ GiveUp

-----------------------------------------------------------------------------
(* The exit path: until_nobody_needs_it.                                   *)

WrongDecide ==
  /\ Alive
  /\ stopper = "looking"
  /\ NoLongerNeeded
  /\ loop = "carrying"
  /\ stopper' = "saying"
  /\ UNCHANGED <<pipeVars, readerVars, note, credVars, relayVars, carryVars,
                 exit, stoppingVars>>

Decide ==
  /\ Alive
  /\ stopper = "looking"
  /\ NoLongerNeeded
  /\ stopper' = "saying"
  /\ UNCHANGED <<pipeVars, readerVars, note, credVars, relayVars, carryVars,
                 exit, stoppingVars>>

WrongTakeOpenRelay ==
  /\ Alive
  /\ stopper = "saying"
  /\ exit' = "stopped"
  /\ UNCHANGED <<pipeVars, readerVars, note, credVars, relayVars, carryVars,
                 stopper, stoppingVars>>

TakeOpenRelay ==
  /\ Alive
  /\ stopper = "saying"
  /\ IF slot
     THEN stopper' = "handingBack" /\ slot' = FALSE /\ UNCHANGED exit
     ELSE exit' = "stopped" /\ UNCHANGED <<slot, stopper>>
  /\ UNCHANGED <<pipeVars, readerVars, note, credVars, loop, lease, toProbe,
                 permitted, turnedAway, carryVars, stoppingVars>>

Stop ==
  /\ Alive
  /\ stopper = "handingBack"
  /\ lease' = "returned"
  /\ exit' = "stopped"
  /\ UNCHANGED <<pipeVars, readerVars, note, credVars, loop, slot, toProbe,
                 permitted, turnedAway, carryVars, stopper, stoppingVars>>

Stopper == Decide \/ TakeOpenRelay \/ Stop

(* take_notes_asking_us_to_stop: nothing is read while the agent has not   *)
(* seen its own Coilbox go.                                                *)
TakeNote ==
  /\ Alive
  /\ coilboxGone
  /\ note = "left"
  /\ note' = "taken"
  /\ CoilboxLeftANote
  /\ UNCHANGED <<pipeVars, readerVars, credVars, relayVars, carryVars, endVars>>

-----------------------------------------------------------------------------
(* The world.                                                              *)

Expire(c) ==
  /\ c \notin expired
  /\ expired' = expired \cup {c}
  /\ UNCHANGED <<pipeVars, readerVars, note, held, signedWith, relayVars,
                 carryVars, endVars, stoppingVars>>

Tick ==
  /\ Alive
  /\ TimePasses
  /\ UNCHANGED <<pipeVars, readerVars, note, credVars, relayVars, carryVars, endVars>>

(* The process has gone and stays gone.                                    *)
Gone == ~Alive /\ UNCHANGED vars

Next ==
  \/ \E a \in Asks : Send(a)
  \/ CoilboxCloses
  \/ \E pid \in Pid : LaunchEngine(pid) \/ EngineEnds(pid)
  \/ LeaveNote
  \/ Reader
  \/ RelayLoop
  \/ PlayerHeard
  \/ EngineSpeaks
  \/ RelayFails
  \/ Stopper
  \/ TakeNote
  \/ \E c \in Cred : Expire(c)
  \/ Tick
  \/ Gone

Spec == Init /\ [][Next]_vars

(* The runtime polls every task that can move, and the clock goes on.      *)
(* Nothing is assumed of Coilbox, of the players, of the engine, or of the *)
(* relay staying up.                                                       *)
Fairness ==
  /\ WF_vars(Reader)
  /\ WF_vars(RelayLoop)
  /\ WF_vars(Stopper)
  /\ WF_vars(TakeNote)
  /\ WF_vars(Tick)

FairSpec == Spec /\ Fairness

-----------------------------------------------------------------------------
(* Properties.                                                             *)

Ask(a, kind) == a \in Asks /\ a.kind = kind

(* While Coilbox is there, Coilbox decides: however long nothing moves and *)
(* whatever engine comes and goes, the agent does not even begin to stop   *)
(* of its own accord before Coilbox has let go of the pipe.                *)
CoilboxDecides == stopper # "looking" => ~pipeOpen

(* What Coilbox has said, counted from when it was written or left beside  *)
(* the run file, and not from when the agent reads it.                     *)
Said ==
  {word \in {"stop", "over"} : \E a \in sent : a.kind = word}
    \cup {word \in {"note"} : note # "none"}

LastNamed(requests, else) ==
  IF \E i \in 1..Len(requests) : requests[i].kind = "watch"
  THEN LET last == CHOOSE i \in 1..Len(requests) :
                     /\ requests[i].kind = "watch"
                     /\ \A j \in 1..Len(requests) : requests[j].kind = "watch" => j <= i
       IN  requests[last].what
  ELSE else

Course ==
  CASE exit = "stopped" -> "gone"
    [] exit = "refused" -> "refused"
    [] OTHER -> IF stopper = "looking" THEN "keeps" ELSE "stops"

Table == INSTANCE FourStates WITH
           coilbox <- IF pipeOpen THEN "there" ELSE "gone",
           said <- Said,
           named <- LastNamed(pipe, engine),
           heard <- heardAPlayer,
           quiet <- idle >= IdleTimeout,
           revoked <- expired # {},
           agent <- Course

(* The pipe, its reader, the flags, the relay loop and the exit path        *)
(* together keep to the table: what the agent stops on is true of Coilbox, *)
(* of the engine it named last and of the relay at that very moment, with  *)
(* requests still unread, a relay being rebuilt and a note half taken.     *)
LivesByTheTable == Table!Spec

(* The agent leaves no relay behind that it could still give back: at exit *)
(* nothing is published, and an allocation the server still holds is one   *)
(* whose answer was still on its way, or whose handing back was cut short. *)
NothingLeftBehind ==
  ~Alive => /\ ~slot
            /\ lease = "held" =>
                 \/ loop \in {"granted", "handingBack", "refusedHandingBack"}
                 \/ stopper = "handingBack"

(* A refused credential ends the agent only while it holds no other one:   *)
(* a renewal read at any moment before that saves the relay.               *)
RenewalSaves ==
  [][loop' \in {"refused", "givingUp"} /\ loop \in {"opening", "carrying"}
       => held \in expired]_vars

(* An address whose request was answered either way stays on the list, so  *)
(* the next relay tries it again.                                          *)
NobodyForgotten ==
  \A a \in Asks : Ask(a, "allow") /\ answers[a] # "none" => a.what \in allowlist

(* Once a relay carries a game, everybody Coilbox ever vouched for and was *)
(* answered about, were it with a no, has a permission on it, or was       *)
(* refused one by this very relay, or is being let through right now: on   *)
(* the first relay and on every rebuilt one, a failed probe or not.        *)
EverybodyLetThrough ==
  loop = "carrying" =>
    \A ip \in allowlist \cup {a.what : a \in {b \in Asks : Ask(b, "allow") /\ answers[b] # "none"}} :
       \/ ip \in permitted \cup turnedAway
       \/ serving # NoAsk /\ serving.what = ip

(* "Yes" to an allowPeer is never a lie: the relay carrying the game at    *)
(* that moment has a permission for the address.                           *)
YesIsTrue ==
  [][\A a \in Asks : Ask(a, "allow") /\ answers[a] = "none" /\ answers'[a] = "done"
       => loop = "carrying" /\ a.what \in permitted']_vars

(* Told to stop, or left alone with a watched engine that has exited, the  *)
(* agent goes: whatever state its relay is in, a rebuild included.         *)
StopsWhenToldOrDone == asked \/ (LetGo /\ EngineGone) ~> ~Alive

(* Coilbox going is noticed, by the end of the pipe or by the last thing   *)
(* said on it, whatever waits for a relay, unless so many requests do that *)
(* the reader holds one it has no room for.                                *)
CoilboxGoingIsNoticed ==
  ~pipeOpen ~> (LetGo \/ asked \/ ~Alive \/ inHand # NoAsk)

(* With nothing left to carry, the backstop ends an agent Coilbox has let  *)
(* go of, unless its relay is lost and granted again for ever.             *)
BackstopOrRebuilds == (LetGo ~> ~Alive) \/ []<>(loop = "granted")

-----------------------------------------------------------------------------
(* What the comments say and the code does not do.                         *)

(* control.rs: every request gets exactly one answer.  So one that has     *)
(* none yet is still somewhere on its way to one.                          *)
EveryRequestOnItsWay ==
  Alive => \A a \in sent :
    answers[a] = "none" =>
      \/ a \in {inHand, serving}
      \/ \E i \in 1..Len(pipe) : pipe[i] = a
      \/ \E i \in 1..Len(queue) : queue[i] = a

(* stopping.rs, state 3: with Coilbox gone and an engine running, the      *)
(* agent keeps running until the engine exits; leaving out the exceptions  *)
(* the same comments make (nobody heard, nothing carried for long).        *)
RunningEngineKeepsAgent ==
  [][stopper = "looking" /\ stopper' # "looking" /\ ~asked =>
       ~ /\ heardAPlayer
         /\ \E p \in Pid : engineState[p] = "running"
         /\ idle < IdleTimeout]_vars

(* stopping.rs: "a leak nothing else notices is gone in four" minutes.     *)
BackstopFires == LetGo ~> ~Alive

(* relay_sidecar.rs: a note nothing ever touched means nothing is there to *)
(* read it.  So an agent that lives on takes it.                           *)
NoteIsRead == note = "left" ~> (note = "taken" \/ ~Alive)
=============================================================================
