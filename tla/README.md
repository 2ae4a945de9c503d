# Coilbox in TLA+

Coilbox is a desktop application for games on the Recoil and Spring engines: it installs
content, starts games, hosts and joins battles over several lobby protocols, and carries a
host's game through a TURN relay when the host cannot be reached directly. This directory
holds TLA+ modules for the parts of it whose correctness depends on the order things happen
in, TLC configurations that check them, and TLAPS proofs about them.

Paths below are relative to `src/crates` unless they begin with `src/`; `agent` stands for
`coilbox-relay-agent/src`, `mp` for `tauri-plugin-coilbox-multiplayer/src`.

1. [Inventory](#inventory): what the system is made of, and what is hard about each part
2. [Modules](#modules): what each module models, and how it corresponds to the code
3. [Runs](#runs): what is checked, at which bounds, and what it shows
4. [Proofs](#proofs): what is proved, from what, and along which argument
5. [Disagreements](#disagreements): where a comment says one thing and the code does another
6. [What is left out](#what-is-left-out)
7. [Plan](#plan)

## Inventory

The repository is a Tauri shell (`src/src-tauri`), a React front end (`src/src`, plugins
registered in `src/src/app.plugins.ts`), some fifty Rust crates, and Lua that runs inside
the engine. What follows lists the parts that keep state, what they promise, and what is
hard about them. `PROJECT.json` has the same parts with their source files, and under
`hazards` the lines at which each of them could go wrong.

### Relay hosting

The part of the system with the most concurrency, and the core of this project.

| Part | State | Operations | Hard part | Correct when |
| --- | --- | --- | --- | --- |
| Relay agent: loop, control pipe, stop rule (`agent/main.rs`, `control.rs`, `allowlist.rs`, `stopping.rs`) | a credential, at most one allocation, the allowlist, requests waiting, the stop flags | rebuild loop, reading the pipe, letting players through, deciding to stop, handing back | it has to outlive Coilbox when a game is on and stop when nobody needs it; three tasks cancel each other in `select!` | no game ends under its players, no allocation outlives its use, nobody who was vouched for is locked out by a rebuild |
| Demultiplexer (`agent/demux.rs`) | a socket and a reply task per player | seat, reclaim, forward | aborted reply tasks outlive the entry they served | a player keeps one endpoint, a reply reaches the player it is for, but for a port that comes back too early |
| Allocation health (`agent/allocation.rs`) | unanswered signed requests, the first failure, the lifetime | classify every STUN message that passes | a challenge, a refusal and a stale nonce all look like error responses | exactly the real refusals count, and the first is what is reported |
| Run file (`agent/run_file.rs`, `coilbox-relay-protocol`) | a JSON file, a lock file, the lock | claim, clear up after a dead agent, leave, take a note | two agents starting at once, an agent killed anywhere, recycled process ids | one agent per battle, findable as long as it lives |
| Hosting in Coilbox (`mp/relay_host.rs`, `relay_agent.rs`, `lib.rs`, `conn.rs`) | the relay in a connection's slot, the move being advertised, the lobby's last answer | spawn, advertise, confirm, readvertise, warn, vouch for joiners, release | four kinds of thread meet in one slot; answers arrive late, never, or for an earlier question | every agent is told when its battle is over, the host knows about every outage and every move nobody heard of |
| Credentials (`mp/turn.rs`, `relay_host.rs` from 740) | an expiry per hosted battle, one answer slot per connection | ask, renew at half life, renew on quitting | an answer shared by two askers; a sleep of half an hour between looking and acting | the agent never holds a worse credential than before, and a host is told when the last one runs down |
| Notes for an agent (`mp/relay_sidecar.rs`) | a file in the run directory | leave, poll, give up | nobody may be there to read it | what Coilbox says of the agent is true |

Coilbox starts the agent as a child process and speaks lines of JSON on its standard input;
the agent answers and reports (`relayOpen`, `relayDown`, `stopping`, `traffic`) on its
standard output. The two share the run directory and nothing else. Closing Coilbox closes
the pipe and leaves the agent running.

### Lobbies

| Part | State | Operations | Hard part | Correct when |
| --- | --- | --- | --- | --- |
| TASServer connection (`mp/conn.rs`, `mp/lib.rs`) | the registry of connections; per connection a login state, answer slots, the reduced lobby | connect, log in, send, read loop, unregister | commands on one thread, the read loop on another, and both look at the registry | an ended connection leaves nobody waiting |
| Lobby reducer (`coilbox-lobby-protocol/src/reduce.rs`, `login.rs`) | users, battles, the current battle, tags, rectangles | one step per line received | lines in an order the server chose | members and battles agree whatever the order |
| Tachyon (`mp/tachyon_rpc.rs`, `tachyon_conn.rs`) | requests in flight, a bounded send queue, commands known unsupported | request, send, route, refuse, fail everything | deadline in the queue, answer, timeout and close race for one request | each request ends exactly once, and one reported unsent was not sent |
| Zero-K (`mp/zerok_conn.rs`, `zerok_room.rs`) | as the TASServer connection, over JSON lines | the same | the same | the same |
| Sign-in (`coilbox-oauth/src/account.rs`, `loopback.rs`) | tokens in memory and in the keychain, remembered refusals, a gate per account | sign in, refresh, forget | a rotated refresh token may be spent once; signing out while a refresh waits | one refresh at a time, and signed out stays signed out |

### Hosting a room directly

| Part | State | Operations | Hard part | Correct when |
| --- | --- | --- | --- | --- |
| Room (`coilbox-lobby-protocol/src/server/room.rs`, `tauri-plugin-coilbox-direct/src/room.rs`) | peers and their names, one battle, joins waiting for the host, kicks, refusals, kept seats | log in, open, join, approve, refuse, kick, drop, sweep | one name over several sockets in turn, every decision about it in any order; what each client believes is the sum of the lines it was sent | a name is one connection, a kick holds, a dropped seat goes home, every member's client agrees with the room |
| Port mapping (`tauri-plugin-coilbox-direct/src/portmap.rs`) | the mappings held, by which method | open all or none, renew, release | some of several ports open; the room ends while a renewal is under way | no mapping outlives its room |
| Reachability, discovery (`reachability.rs`, `stun.rs`, `mdns.rs`, `beacon.rs`) | what was measured last | probe, announce, listen | network input and output | |

### Content, games and campaigns

| Part | State | Operations | Hard part | Correct when |
| --- | --- | --- | --- | --- |
| Downloads (`src/src/downloads/DownloadQueueProvider.tsx`, `queueLanes.ts`, `downloadMirrors.ts`, `downloadGame.ts`, `tauri-plugin-coilbox-downloads`) | the queue as React state and as a ref the callbacks read, lanes at work, waiters, rescans owed; in Rust the operations that can be cancelled and whose turn it is at pr-downloader | ask, pump, walk over sources, cancel, prune, rescan; transfer, wait for a turn, spawn, watch | the ref and the state disagree between renders; a cancel meets a command at any of its steps | a lane runs one at a time, the rapid pool has one writer, a cancel ends what it reaches, no rescan is forgotten |
| Starting games (`src/src/play/PlayProvider.tsx`, `tauri-plugin-coilbox-play`) | which run is current and how far it is; in Rust the engines up | press, look for a live engine, launch, cancel, mount, poll | a press waits several times, and answers about runs are old when they arrive | two wanted games are never up at once, and the badge says what is up |
| Conquests (`src/src/conquest`, `src/src/play/useBattleRun.ts`) | the conquest shown, the file, the fights begun | found, hold, fight, claim, save | a fight's result is worked out from the conquest it was begun from, which may not be the one shown when the result comes; a save may be torn | no system is lost unwarned or unmentioned, the conquest is never out of joint |
| Campaigns, scenarios, runs, profiles | whole documents, loaded and saved one command at a time | | as conquests, with less in them | |

### Everything else

Content discovery (`coilbox-unitsync-worker`, a batch process), the format readers and
converters (S3O, 3DO, unit scripts, textures, tracks: pure functions over large data), the
editors (workshop, lego, map tools: one user's document in one window) and the rest of the
front end. They keep little state that more than one actor changes.

## Modules

| Module | Models | Extends |
| --- | --- | --- |
| `PeerTable` | the demultiplexer | |
| `FourStates` | when an agent may stop, whatever it has to get there: an abstract specification | |
| `Stopping` | what the agent knows about being needed, and the stop rule | |
| `RelayAgent` | the agent's other tasks around `Stopping`: relay loop, reader, exit path, notes; implements `FourStates` | `Stopping` |
| `RunFile` | claiming and leaving the run file, for any number of agents | |
| `RelayHost` | Coilbox's end: hosting form, connection, event reader, waiting threads, with the agents and the lobby as environment | |
| `DownloadOps` | the downloads plugin: commands, the cancel registry, pr-downloader's turn | |
| `DownloadQueue` | the queue above it: React state, callbacks, lanes, sources, rescans | `DownloadOps` |
| `Launching` | the page's idea of which game is running, and Rust's | |
| `Calls` | what a caller of a Tachyon request is promised: an abstract specification | |
| `TachyonRpc` | the table, the queue, the timers and the task that keep it; implements `Calls` | |
| `ConquestRules` | one turn of a conquest, as functions from a conquest to the set of its outcomes | |
| `Conquest` | presses, fights, saves and restarts around those rules | `ConquestRules` |
| `LobbyView` | what a client makes of each line it is sent: the reducer, for one battle | |
| `Room` | the room a host runs, with every client's view of it | `LobbyView` |
| `MC...` | constants for TLC | the module they are named for |
| `...Proofs` | theorems | the module they are named for, `TLAPS`; `RelayAgentProofs` holds those of `RunFile` too |

Common conventions. One action is what a task does without another being able to get in
between: the code between two awaits, two locks, or two system calls. A definition that
begins "as if" or with `Wrong`, or that carries one more word in its name than the action
under it, is that action with a slip of the kind the code could have had; no specification
uses them, and each is there so that a property can be seen to fail for it.

### PeerTable

`port`, `age` are the two halves of an entry of `PeerTable.peers`; `reader` and `aborted`
are the spawned `pump_replies` tasks and the aborts that have not landed; `inbox` is the
channel of `UPLINK_QUEUE` replies; `knownAs` and `unread` are the engine's side, which tells
players apart by endpoint. `HearStranger` is all of `socket_for`: the room check, reclaiming,
binding, starting the task, and the datagram forwarded. `HearStrangerBindFails` is the same
with the bind failing, after the stale entry has gone. Silence is counted in ticks up to
`MaxAge`. A socket carries at most one unread reply.

The engine keys its connections by endpoint and keeps the one it has, whoever sends from
there next (`demux.rs:4-9`): `Heard` leaves `knownAs` alone when there is one, and gives the
endpoint to the sender when there is none and the datagram arrives and begins a connection.
Only `EngineForgets` takes a connection away: the engine lets it go when its player comes
back from another endpoint, quits, or has been silent for too long, at any moment here.
`bind_towards` asks for port 0, so the kernel may hand out the port of a reclaimed socket
while the engine still has its old connection there. Then the newcomer's datagrams go into
that connection and its replies to the newcomer. `reused` is a history variable: it names the
ports this has happened to since their last binding, and a reply carries along whether it was
read from one. It restricts nothing; `RepliesFindTheirPlayer` excuses those replies and no
others, and `NewToTheEngine` is among the [disagreements](#disagreements).

### FourStates, Stopping and RelayAgent

`FourStates` is the rule of `stopping.rs` told of the world: whether Coilbox still holds its
end of the pipe, what it has said and which engine it named last, from the moment of the
writing and not of the reading; the engines; whether a player was ever heard; whether the
relay has been quiet for `IDLE_TIMEOUT`. Its `Reason` is what the agent may begin to stop on,
and giving up wants a credential that was withdrawn. It has no flags, no tasks, no relay and
no queue. `LivesByTheTable` is `FourStates!Spec` under a mapping that reads the engine through
the pipe (`LastNamed`): a `watchEngine` not read yet counts.

`Stopping` has the seven facts of the struct of that name, one operator per write, and
`NoLongerNeeded`, which is `reason()` without the order in which reasons are named. The
processes themselves (`engineState`) are there because `reason()` asks the operating system.

`RelayAgent` has four tasks. The reader (`Requests::reading`) is one action per request kind
plus the wait for room in the queue (`QueueInHand`) and the end of the pipe. The relay loop
(`relay_until_it_gives_up`, `carry`, `serve`, `hand_back`) walks through `LoopStates`, one
state per await. The exit path (`until_nobody_needs_it`) decides, takes the published relay,
closes it and exits. `main`'s `select!` is the race between the last two: `exit` ends both
wherever they are. `slot` is the `OpenRelay` both look into, `lease` what the TURN server
still holds. `answers` is what each request was answered.

Abstractions: `reason()` reads its atomics one at a time, here all at once, which the flags
being monotone makes equivalent up to a second's delay. An answer and the flag set with it
are one step. Backoff lengths are gone, except that `WakeUp` waits for the exit path's
`RELEASE_BUDGET`, which the shortest backoff is no shorter than. A note's removal and the
flag are one step. Coilbox writes each request of `Asks` once, names an engine only while it
runs, and says `stop` only before anything else, as its callers do. A grant on its way when
the process ends is left to the server's own timeout, and a `GiveUp` can cut the exit path's
hand-back short; `NothingLeftBehind` says so. Hosting without a TURN server
(`Transport::Direct`) and an unreadable public address are left out: nothing is to be given
back there.

### RunFile

One process per member of `Agent`, each started at most once, killed at any step. `runFile`
and `lockFile` name the process that created the file at that path, `said` is what each
process's file says, so that a process writing to a file that somebody else has removed
writes to its own. `Create`, `HoldTheLock`, `Write` are the three steps of `create_new`;
`Read`, `RemoveStale` and the second `Create` the rest of `Claim::take`; `Leave`,
`LetGoOfLock`, `RemoveLock`, `RemoveRun` are `Drop`. `Holds` is `holder()`, which Coilbox's
`already_relaying` asks as well: it is the guard of `Spawn`. A process id goes to a stranger
by `Recycle`.

Abstractions: the record and its lock are read in one step; a failed write is a kill at that
point; locking may be refused without a reason; the file `Drop` writes about what the relay
was carrying is left out.

Starts overlap one another, and agents leaving, in any way: Coilbox starts an agent whenever
it finds none, and hosting again over an open battle can do so while the last one is going.
`crossed` is a history variable: the agents that were between `Spawn` and their claim when
another was started or began to leave, or that were started while another was at either. The
code does not keep its promises to those (`RunFileRace`, `RunFileLeaving`, below). The
properties are about everybody else: such races, before, beside or after an agent whose own
start was not in one, do not give it a rival, take its file or turn it away.

### RelayHost

`slot` is `HostedRelay` with its `MoveWatch`; `answer` and `refused` are the connection's
`OpenAnswer` and `RefusedRelayAddress`; `try` is the command `mp_open_battle` on its way
through `open_battle`, `allocate`, `waiting_on`, `advertise` and `confirmed`; `agent` is each
agent as Coilbox sees it, with the events it has written and Coilbox has not read; `waits`
are the threads of `warn_if_unanswered`; `shown` and `knows` are what the host was last told.
`toLobby` and `fromLobby` are the two directions of the connection, in order; `room` is the
lobby's battle. A rebuild takes two steps of the listener, `Readvertise` under the slot's
lock and `ReadEvent` for the rest, because the lock is let go in between.

`missed` is bookkeeping that no action reads. Four things can happen to an attempt's battle
after the lobby has been asked and before the relay is in the slot, and the code has nowhere
to put them: an event of the agent, a joiner's address, the host leaving, and an answer after
`READY_TIMEOUT`. Every one of them is a [disagreement](#disagreements); the passing
properties hold for all other battles and say which they leave out, in terms of `missed`, and
the model lets all four happen at any time.

Abstractions: the lobby sends one "opened" line for the acknowledgement and the broadcast; an
enqueue that fails while advertising is the connection having gone; one attempt runs at a
time (the form is modal); an ended connection is not made again; timers may fire at any time.
An agent is started only when the run file of no living one prevents it and the events of
earlier ones have been read (`Spawn`). `LobbyDoes` is what this lobby makes of
`MOVERELAYEDHOST`; lobbies are consistent, either knowing the command (`moves`, `refuses`) or
not (`rejects`, `silent`). Renewal of credentials, the answers to `allowPeer` and direct
hosting are not in this module.

### DownloadOps and DownloadQueue

`stage` of an id is where its command is in Rust (`dl_http` in its chunk loop, `dl_start`
waiting for its turn, spawned, reading), with the answer on its way as the last stages;
`cancelled` is the flag in the registry and `child` the process of pr-downloader. `DlCancel`
is `dl_cancel` with its three cases: nothing registered, the flag alone, the flag and the
kill. `spawned` is the window between the child's start and its being put where `dl_cancel`
finds it.

In `DownloadQueue`, `list` is what every `setItems` so far adds up to and `shown` what the
callbacks read through `itemsRef`; `Render` makes them agree. `enqueue` and `cancel` write
both, `run` only the first. `busy` is `busyLanesRef`, `job` and `at` the async `run` and the
source its walk has got to, `waiting` is `settleWaiters`, `owed` is `rescanOwed`. Every id is
given out once, in order, so a finite set of ids is the number of requests.

Abstractions: `StartIsRendered` says that React has rendered the start of a run before the
transfer of that run can end, which takes a command's round trip at least. Means are `http`
and `sidecar`; progress, rates, sizes, the history and what an archive holds are left out.
A bundled engine is an `http` download here: its cancel goes to another plugin with the same
flag. A rescan that is made is the lane leaving `owed`.

### Launching

`press` is how far each `launch()` has come: the guard that asks whether the run on the badge
is still there, the look for an engine the page does not know, the check of the engine's
folder, the launch command. `phase`, `active` and `adopted` are the refs, `command` each run
in Rust, from the command to the poll loop's end. `ask` and `told` are calls of
`play_status`, which are answered with what was live when Rust read the registry and taken
later. `started`, `settled` and `cancels` are messages on their way, in any order. A reload
forgets everything of the page and nothing of Rust.

`gaveUp` and `lost` are history: runs the player cancelled, and runs whose page reloaded
before they were spawned. No action reads them.

Abstractions: the start script, the content check, crash triage, focus, music and the
autohost link decide nothing about which run is current. `play_launch`'s own check and its
spawn are two actions, because the task that spawns runs after the check has let go of the
registry.

### Calls and TachyonRpc

`Calls` is the promise: an asked call ends once; `answered` and `unsupported` only of a
request that went out (or of a command known not to be built), `notSent` only of one that
did not and will not go out, `closed` only when the connection is over; a request goes out at most
once and not after its caller was told something. It is 65 lines and says nothing of queues,
tables or timers.

`TachyonRpc` has the callers (`Request`, `Enqueue`, `Hears`, the two timers), the table of
`Pending` senders and the oneshot of each (`pending`, `slot`), the queue of `SEND_QUEUE_DEPTH`,
and `run_loop` as `loop`: selecting, sending, answering a request of the server's, ended,
drained, over. `KeepsItsPromise` is `Calls!Spec` under `call <- CallOf` and `ended <- Over`;
`sent` is the one variable they share. The mapping folds "waiting for a place in the queue"
and "waiting for an answer" into one `waiting`.

Abstractions: an age is fresh, past `send_by`, or past the deadline; a caller that is polled
late may see its timer after the task has acted, which `Ages` allows at any time. Callers do
not drop their futures. Events and message contents are data. Sending may take for ever.

### ConquestRules and Conquest

Each rule of `rules.ts` that draws at random is an operator that gives the set of its
outcomes, so `TurnsOf(c)` is every conquest one turn may lead to: expiries fought out,
enemies' moves in the document's order, fog, status. The loops over incursions and factions
are recursive functions (`FoughtOut`, `EnemyRounds`), which can be proved about. `Conquest` is the map, the briefing,
the fights and the file around them. `run` is the shared cache, `disk` the file; `Save`
changes the first and puts the second in `writes`, as `saveConquestState` does. A fight keeps
its `base`, the conquest that was shown when it began, and `Detected` works out the result
from it, as `applyResult` does in the closure of `useBattleRun`.

Abstractions: odds are strictly between 0 and 1 for whoever owns anything; a weighted draw
that falls through its list by floating-point rounding is ignored; the cache has been loaded
before a press. Galaxies, drawing, challenges and unlocks are left out, and of what is saved
with a conquest the builder units and the choice of game are.

### LobbyView and Room

`Room` is `RoomState`, one action per handler, since one task owns it and handles one message
at a time. `told[p]` is the view of the client behind connection `p`: each action applies the
operators of `LobbyView` to it in the order in which the handler produces the lines.
`Everybody` and `Except` are `Outbound::All` and `AllExcept`. `OutOfBattle` is `leave_battle`
with what every way out (leaving, being kicked, the socket's end) does in common, and
`Forgotten` is `disconnect`, which keeps the seat.

Abstractions: a connection that is forgotten may be used again for the next; views are
followed from the login only, because the welcome repeats everything a connection without a
name may have heard. `Option` stands for script tags and start rectangles. Allies, colours,
passwords, chat, maps, addresses and stopping the room are left out: they decide nothing
about who is in and where. One battle is open at a time, as the room has it.

## Runs

`CHECK_DEADLOCK FALSE` stands where the modelled system may really stop: Coilbox with no
battle, no connection and no attempts left (`Host...`), and a finite number of requests,
presses, calls or turns used up (`Downloads`, `Launches`, `TachyonCalls`, `Conquest`). The
other specifications always have a step; `RelayAgent` says so with `Gone`. `TypeOK` is an
invariant of no run where its `TypeCorrect` is proved; every proof's strengthening was
checked by TLC first.

| Run | Distinct states | Properties | Shows |
| --- | --- | --- | --- |
| `peer_table` | 1.7 M (symmetry) | `SeatsRespected`, `RepliesFindTheirPlayer`, `EndpointKept` | the cap, no stray replies but from a port bound again over a standing connection, and one endpoint for as long as a player is seated |
| `agent_requests` | 1.4 M | `EverybodyLetThrough`, `YesIsTrue`, `RenewalSaves` | players are let through every relay, the first and the rebuilt, and a renewal read in time saves the game |
| `agent_game` | 0.5 M | `CoilboxDecides`, `NothingLeftBehind`, `LivesByTheTable`, `StopsWhenToldOrDone`, `CoilboxGoingIsNoticed`, `BackstopOrRebuilds` | the refinement of `FourStates`, the table in `stopping.rs` with the third row read of the engine named last (below), that relays are handed back, and that the agent ends |
| `agent_second_game` | counterexample | `RunningEngineKeepsAgent` | the first of the [disagreements](#disagreements) |
| `run_file` | 1.2 M (symmetry) | `AloneUnlessCrossed`, `FoundUnlessCrossed`, `RefusalExplained` | overlapping starts and ends, kills at every step, recycled ids, refused locks: the harm stays with those that raced |
| `host_battles` | 6.6 M | `AgentsAccountedFor`, `StopMeansNoBattle`, `SlotHoldsABattle`, `HostKnowsItsRelay`, `OutagesAreTold`, `JoinersSpokenFor` | two attempts, the second perhaps over an open battle, in a lobby that knows `MOVERELAYEDHOST` |
| `host_moves` | 55 k | `UnreachableIsNoticed`, `AttemptsEnd` | up to three moves in a lobby that does not know the command, and liveness of the form |
| `downloads` | 0.24 M | `OneRunPerLane`, `PoolHasOneWriter`, `OwedIsComing`, `CancelBites`, `QueuedGetsItsTurn` | what React, the callbacks and the plugin each believe of a download never starts two of a lane, and a cancel ends what it reaches, wherever it is |
| `launches` | 0.15 M | `OneGameWanted`, `LiveBadgeKept`, `BadgeIsCleared`, `NoEngineUnwatched` | presses, cancels and a reload against old answers |
| `tachyon` | 0.40 M | `KeepsItsPromise`, `EveryCallEnds` | the refinement of `Calls`, and that every caller is told something |
| `conquest` | 0.11 M | `ConquestsAreSound`, `LossesHadWarning`, `LossesAreTold` | fights that end late, saves that fail, torn files, a restart |
| `room` | 0.53 M (symmetry) | `RoomIsSound`, `MembersSeeTheRoom`, `KeptSeatsGoHome` | the room's rules over every order of logins, drops and verdicts, and that the lines it sends add up to the room |

### Bounds, and why they are enough

- `PeerTable`: three addresses for two seats over three ports. A full table needs two; a
  third address forces reclaiming; a third port lets a reclaimed socket stay open next to its
  successor, and a port come back that the engine still has a connection at. An entry was
  heard within the threshold or it was not; that of two stale entries the quieter one goes is
  in the model but not told apart at this bound, and the proofs hold for every bound. A queue
  of one is empty or full: a reply that waits or one that is dropped.
- `agent_requests`: two players, so that one can be served while the other waits; a queue of
  one, so that the reader has to hold a request; two credentials, so that a renewal can race
  the old one's expiry; relays may fail without limit.
- `agent_game`: two engines are the least that lets the watched one be the wrong one. The idle
  clock has one tick, which is run out or not; datagrams are bounded by `MaxDatagrams`, which
  only cuts how long a game may last, and the agent's own probes are not bounded.
- `RunFile`: four agents: two whose starts overlap, one that finds what they left and
  relays, and one that comes upon that; or one leaving its files behind, one clearing up, one
  starting meanwhile, one that finds what is left.
- `host_battles`: two attempts are enough for anything of one battle to meet the next, three
  relays for two moves of one battle or one of each; two events of an agent may wait unread
  (down and open, the pair a rebuild writes). One player suffices: players do not interact.
- `host_moves`: one attempt and four relays, so three moves of one battle overlap in every
  way. It has one attempt because of the wait that outlives its battle (below).
- `downloads`: two requests over three downloads. Two meet in one lane, two meet over the
  rapid pool from different lanes, and one asked for again meets itself; one game has a
  mirror before pr-downloader, so that a walk over sources happens. Larger: three requests
  over one lane fetched directly (`ThreeIds`, `OneLane`, `Games` in `MCDownloadQueue`) hold
  the three invariants as well.
- `launches`: two presses are the least that meet, a reload makes the third page state; three
  presses without a reload (`ThreePresses`) were checked for the invariant and
  `LiveBadgeKept`.
- `tachyon`: two calls of one command, so that the second can be asked in vain, and one of
  another, through a queue of one, so that a caller waits for a place.
- `conquest`: the five systems give an enemy a system of the player's to attack, a neutral
  one, another enemy's, and nothing (the peaceful one); a grace of one turn and two turns let
  an incursion be raised and fall due. One fight outlives holds and restarts. Larger: with
  `MaxFights = 2`, `MaxStarts = 0` (1.0 M states) `TypeOK` and `ConquestsAreSound` hold.
- `room`: three names over three connections, one of them the host, two seats, one team, one
  bot, one option. A third connection is what a name's second socket, and a join over a full
  room, need. `MaxVerdicts = 1` lets one name be kicked or refused. Larger: `MaxBattles = 2`
  (1.1 M states) holds the same.

### Fairness

`RelayAgent!Fairness` is weak fairness of the reader, the relay loop, the exit path, the note
reader and the clock: tokio polls every task that is ready, every timeout it waits on is
finite, and `select!` drops no branch but the losers. Nothing is assumed of Coilbox, players,
the engine, or the relay, which may fail for ever; `BackstopOrRebuilds` has the alternative
for that reason. `RelayHost!FairSpec` is weak fairness of the hosting form, the read loop,
each listener and each waiting thread: they are scheduled, and their waits
(`ALLOCATION_PATIENCE`, `READY_TIMEOUT`, `MOVE_ANSWER_PATIENCE`) are finite. Nothing is
assumed of the lobby, the agents or the host. In `DownloadQueue`, React renders and runs its
effects, messages arrive and the plugin's threads go on; transfers need not end, and only
`QueuedGetsItsTurn` assumes that they do, in its own premise. In `Launching`, calls, answers,
callbacks and the poll timer; the player and the engine do as they like. In `TachyonRpc` only
callers are fair: a timer that is due fires and a caller that can go on does. The task that
owns the socket may hang in a send for ever, and every call ends all the same. Each fairness
condition is on one thread's or one call's next step, so no thread is promised a particular
branch where both are open to it. `PeerTable`, `RunFile`, `Conquest` and `Room` are checked
for safety only.

## Proofs

All theorems hold for every value of the constants that satisfies the named assumptions of the
module and of those it extends (`PeerTableAssumption`, `StoppingAssumption`,
`RelayAgentAssumption`, `RunFileAssumption`, `RelayHostAssumption`,
`DownloadQueueAssumption`, `LaunchingAssumption`, `RpcAssumption`, `RoomAssumption`,
`ConquestAssumption`, `ConquestBounds`), and
nothing else is assumed but where stated. `MovesNoticed` assumes `ConsistentLobby`: the lobby
either has `MOVERELAYEDHOST` and answers it, or has not and rejects the line or is silent.
`LobbyDoes` describes one server, so every configuration satisfies it. In a lobby that did
both, the answer to an earlier move would count for a later one (`AnsweredMeansThisMove`,
below) that the lobby then never answered, and nobody would be told.

| Module | Theorem | States |
| --- | --- | --- |
| `PeerTableProofs` | `TypeCorrect`, `CapHolds`, `EndpointsDistinct`, `RepliesDelivered`, `EndpointStable` | the table's invariants, `RepliesFindTheirPlayer` among them, and `EndpointKept`, for any number of addresses, ports and seats |
| `RelayAgentProofs` | `TypeCorrect`, `CoilboxHasTheWord`, `GivesBack`, `RebuildsLetEverybodyThrough`, `ListOnlyGrows`, `YesIsNeverALie`, `RenewalsSave` | `CoilboxDecides`, `NothingLeftBehind`, `EverybodyLetThrough`, `NobodyForgotten`, `YesIsTrue` and `RenewalSaves`, for any players, engines, credentials and queue |
| | `TheTableIsKept`, `PlayedGamesAreKept` | `RelayAgent` implements `FourStates`, and so keeps `PlayedGameKept`: a played game on the engine named last is not stopped on |
| | `FilesTypeCorrect`, `RacesAreConfined`, `AgentsAreFound`, `RefusalsHaveACause` | `AloneUnlessCrossed`, `FoundUnlessCrossed` and `RefusalExplained`, for any number of agents and any overlapping of their starts and ends |
| `RelayHostProofs` | `TypeCorrect`, `AgentsInHand`, `Accounted` | no agent is left without a word (`AgentsAccountedFor`), for any number of attempts, relays and players and any lobby |
| | `WordsFollowed`, `RelayKnown`, `OutagesTold` | `HostKnowsItsRelay` and `OutagesAreTold` |
| | `JoinersFollowed`, `JoinersVouchedFor` | `JoinersSpokenFor` |
| | `ConversationFollowed`, `EndedBattlesLeave`, `OnlyEmptyRelaysStopped` | `SlotHoldsABattle` and `StopMeansNoBattle` |
| | `AnswersFollowLobby`, `BattlePlaced`, `MovesFollowed`, `MovesNoticed` | `UnreachableIsNoticed`, in a lobby of either kind |
| `DownloadQueueProofs` | `TypeCorrect`, `OneWriter`, `LanesAreSerial`, `RescansAreComing` | `PoolHasOneWriter`, `OneRunPerLane` and `OwedIsComing`, for any downloads, lanes, sources and number of requests |
| `LaunchingProofs` | `TypeCorrect`, `BadgeAgrees`, `OneWantedGame`, `LiveBadgesStay` | `BadgeHasItsRun`, `OneGameWanted` and `LiveBadgeKept`, for any number of presses and reloads |
| `TachyonRpcProofs` | `TypeCorrect`, `TableKept`, `PromiseKept` | the table holds only calls somebody waits on, and `TachyonRpc` implements `Calls`, for any calls, commands and queue |
| `RoomProofs` | `TypeCorrect`, `RoomKept`, `SeatsGoHome`, `RoomSeen` | `RoomIsSound`, `KeptSeatsGoHome` and `MembersSeeTheRoom`, for any names, connections, bots, options and battles |
| `ConquestProofs` | `TypeCorrect`, `ConquestsStaySound`, `LossesAreWarnedOf`, `RecapsAreComplete` | `ConquestsAreSound`, `LossesHadWarning` and `LossesAreTold`, for any finite map, any enemies in any order, and any number of turns, fights, saves and starts |

How the arguments go:

- `PeerTable`. A newcomer's port is free only because neither a table entry nor a reply task
  has it, so `OneEndpointEach` speaks of both, and its two halves are carried together.
  `SocketsAreFaithful` adds the engine's side: what it knows of a socket that is being read,
  and what waits there unread, is the task's own peer or nobody, unless the port is `reused`:
  binding one where the engine has nobody else's connection is the case that must be shown to
  make it so. A reply is then tagged with the peer the engine meant. The cap needs cardinalities: when the table is full, one entry
  goes before one is added.
- `RelayAgent`. `CoilboxDecides` rests on `OnlyAllowsWait` and `ClosedBehindLastWord`: the
  three flags that let go are set only once the pipe is closed or a last word is on it, and
  nothing is written behind a last word. `NothingLeftBehind` rests on `LeaseAccountedFor`:
  the lease is held only when published, still on its way, or in the hands of exactly one of
  the two that give it back. `EverybodyLetThrough` and `NobodyForgotten` rest on `ListKept`,
  on a relay's probes, permissions and refusals covering the list, and on requests being of
  the `allow` kind wherever they wait.
- `RelayAgent` implements `FourStates` (`StepsAreOnTheTable`). A stop is on the table only
  because of `WordsInOrder`: a last word is the last request on the pipe, and neither it nor
  the end of the pipe is acted on while anything is unread, so that when the agent judges for
  itself the engine it was told of is the engine named last (`ReasonsAreTrue`). Reading a
  request must then not be seen at all, which is what the lemmas about `LastNamed` are for:
  writing one changes whom it names, reading one does not (`NamedByWriting`,
  `NamedByReading`). That a nonempty pipe of engines has a last one is the well-foundedness of
  the naturals. `RefusedForACause` gives the withdrawn credential. `PlayedGamesAreKept` is then
  a property of `FourStates` alone.
- `RunFile`. `UncrossedHasTheFiles` follows one agent whose start nothing overlapped: while
  it starts, and while it relays, nobody else is starting or leaving, so the run file is its
  own from its creation on, the lock it took is on the file at the lock's path, and before
  that no agent alive is found. Agents that raced may be alive beside it, with files that
  somebody has removed; the second part of the argument is that none of their steps reaches
  the files at the paths any more, for they look whether the file is theirs before they leave.
- `RelayHost`, in six layers, each resting on those before. `InHand` places every agent: not
  started before its attempt, in the hands of the attempt that started it while that attempt
  is under way, in the slot of a connection that is still there, or told. It is needed because
  `AgentsAccountedFor` alone does not say that the slot and the attempt hold different agents,
  and releasing one must not touch the other's. `WordsInv` says what an agent has still to be
  heard say and what of that the slot or the attempt knows; only the agent of the battle in
  the slot ever speaks there (`OneAgent`), so what is shown is of the right one. `JoinInv`
  follows every joiner from the lobby to the agent, and rests on a room being of a battle
  that was asked for. `Conversation` is about opening: one question is under way, its answer is
  in one place, and the lobby's room is what it said it opened. It holds while every answer
  comes in time (`OnTime`), as the two properties drawn from it say; a late answer is the
  disagreement `HostLateLobby`. `MovesFirst` and `OpenedInPlace` say that nothing of an earlier
  battle's moves comes behind the answer to an open, and that a battle opened elsewhere than
  at its relay is one whose address was refused. `Told` and `Settled` then account for the
  moves: with a lobby that has no moves, a host not told has a thread waiting on the latest
  number; with one that has, the last line or answer on the way is about the latest move.
- TLC checked every layer of `RelayHost` before it was proved, at one and two attempts with
  three to five relays and both kinds of lobby (0.1 to 1.3 M states).
- `DownloadQueue`. A child writes only in a command that has pr-downloader's turn, and turns
  are handed out one at a time, which gives `OneWriter` without looking at the queue. The
  lanes rest on `QueueInv`: a lane is busy with what runs in it and with nothing else, the ref
  shows as pending whatever is pending, and what it shows as queued is queued or has just been
  started. So what the pump picks is neither running nor over, although it picks from the
  ref; and a run's end and a cancel, which ask the ref too whether a rescan is still to come,
  are never told of a download that will not end.
- `Launching`. Everything the page can learn a run's id from is past its spawn
  (`LearntOnlyWhenPast`), and an answer that leaves a run out is never about one that is still
  alive (`AnswersHold`): engines do not come back. So the page never clears a badge that has
  an engine, and the only launch under way that is still wanted is the badge's.
- `TachyonRpc`. `TruthInv` says of the queue, the slots and the wire what each caller may be
  told: what is queued is there once, has not gone out and is somebody's; what a slot holds is
  true. `StepsArePromised` then maps each action to a step of `Calls` or a stutter.
- `Room`. `TypeInv` adds to the types that only who has logged in is in the battle or waits,
  and `RoomInv` to `RoomIsSound` that the host is never kicked. A newcomer's seat is the
  lowest free team, which exists because the natural numbers are well-founded. No handler
  reads what clients believe, so `MembersSeeTheRoom` is a second argument on top of these.
  `ViewInv` says of every logged-in client's view that it has the right people, no seat or bot
  that the room has not (`NoGhosts`), and from inside the battle all of it (`SeesInside`); of
  every other, that it is blank. `NoGhosts` is about clients outside the battle, too, whom no
  property mentions: they are told of seats and bots, and come in with what they then
  believe. There is a lemma for each kind of line and one for each action, which adds up the
  lines it sends. TLC checked `ViewInv` on the constants of `Room.cfg`.
- `Conquest`. The rules come first. What a fold over the due incursions, or over the factions,
  comes to cannot be had by the library's induction, so it is had from the least number: of
  the steps at which a property fails there is a first, and the one before kept it
  (`FoldKeeps`); and of the lengths for which no such function exists there is a least, which
  is how a recursive function is known to be what its definition says (`FoldExists`). Two sets
  say what a conquest can be while a fold is under way. `FightingOut`: only systems with an
  incursion that is due change hands, and what the player loses is in the recap. `Moving`:
  no system of the player's falls, and each incursion stands on one, alone and not overdue.
  A turn (`TurnKept`) and a fight (`BattlesKeep`) follow, of any conquest in which incursions
  stand as they should (`Standing`). `AllSound` then says of everything that may yet be shown
  that it is sound: the file, every save on its way to it, and what each fight was begun from.
  A result that comes late is worked out from one of these. `SeenIsOpen` is needed because
  a result that is claimed is given to the open briefing's system: on the map nothing that is
  still on its way belongs to an open briefing, so there is no briefing in a later phase
  without a system.
  TLC checked `AllSound` on the constants of `Conquest.cfg`. The proof that a new conquest is
  under way failed for a galaxy without enemies: `StatusOf` called it won, where the code
  asks for `objectives.length > 0`. The model was corrected.

Only checked, not proved: all liveness properties and everything about fairness, which this
prover does not do (`StopsWhenToldOrDone`, `CoilboxGoingIsNoticed`, `BackstopOrRebuilds`,
`AttemptsEnd`, `CancelBites`, `QueuedGetsItsTurn`, `BadgeIsCleared`, `NoEngineUnwatched`,
`EveryCallEnds`). Every other property of a passing run is a theorem. The disagreements below
are false as stated, so there is nothing of them to prove.

## Disagreements

Each is a counterexample TLC finds. `AgentSecondGame` is a run of this project; the others
are reproduced with `tlc -config <name>.cfg <module>`. Where the first column names a property
with a plus, the counterexample is found by checking that property, which the module defines
for this purpose, under the constants of the configuration.

| Configuration | Property | What a comment says | What the code does |
| --- | --- | --- | --- |
| `AgentDropsRequest` | `EveryRequestOnItsWay` | `agent/control.rs:46-50` "Every request gets exactly one answer" | `agent/main.rs:549`: a relay that fails while `serve` waits for a permission takes the request with it |
| `AgentSecondGame` (run) | `RunningEngineKeepsAgent` | `agent/stopping.rs:18` Coilbox gone, engine running: "keeps running until the engine exits" | `stopping.rs:347`: the engine asked about is the last one named; a Coilbox that goes between launching a second game and naming it leaves the first one's dead pid |
| `AgentBackstop` | `BackstopFires` | `stopping.rs:120-122` "a leak nothing else notices is gone in four" | `stopping.rs:396`: the probes of every rebuilt relay put the idle clock back |
| `AgentNote` | `NoteIsRead` | `mp/relay_sidecar.rs:222-223` "A note nothing ever touched means nothing is there to read it" | `control.rs:190`: after `battleOver` the reader returns without reporting that Coilbox has gone, which the note reader waits for (the counterexample rebuilds its relay for ever, because the model's games are bounded) |
| `PeerTable` + | `NewToTheEngine` | `agent/demux.rs:50-51` "an endpoint it has never seen. So a fresh loopback socket is exactly right" | `demux.rs:250`: the socket is bound to port 0, and the kernel may give it the port of one reclaimed before, where the engine still has a connection; the moved player is then not recovered, and replies meant for the other reach them |
| `RunFileRace` | `OneClaim` | `agent/run_file.rs:60-62` "of two agents racing exactly one gets the file" | `run_file.rs:128`: the file is empty between its creation and its writing, and an empty file names no holder |
| `RunFileLeaving` | `Findable` | `run_file.rs:14-15` "the file's life is the process's life" | `run_file.rs:160`: `Drop` lets the lock go and then removes by path without looking again |
| `HostReopens` | `OverMeansOver` | `mp/relay_agent.rs:324` "coilbox knows the battle has gone from the lobby" | `mp/lib.rs:1855`: hosting again lets go of the old relay before the attempt, which may fail without a line to the lobby |
| `HostWrongAnswer` | `AnsweredMeansThisMove` | `mp/relay_host.rs:198` "Whether the lobby has answered move number `Self::sent`" | `relay_host.rs:549`: no number is handed over, so the answer to an earlier move counts for a later one |
| `HostRelayMovesUnseen` | `AlwaysWhereTheRelayIs` | `relay_host.rs:444-446` "there is no battle to move" | `relay_host.rs:470`: the lobby may have the battle while its relay is not in the slot yet, and the address advertised afterwards is the lost one |
| `HostOutageUntold` | `ShownAsItIs` | `relay_host.rs:428-429` "the host is waiting on the hosting form and waiting_on reports there" | `relay_host.rs:412`: `waiting_on` has returned by the time the lobby is asked, and the swap of `down` keeps the rest of the outage quiet too |
| `HostLateLobby` | `NoBattleStopped` | `relay_agent.rs:307-308` "Only for a relay that is provably carrying nothing" | `lib.rs:2013`: a battle opened after `READY_TIMEOUT` counts as refused; its agent is stopped and no `LEAVEBATTLE` is sent |
| `HostOldWait` | `WarnedWhenDue` | `relay_host.rs:187-190` a new attempt "starts with a clean one" | `relay_host.rs:563`: the waiting thread has the connection's slot and a number that starts again at one |
| `HostJoiner` | `EveryJoinerSpokenFor` | `relay_host.rs:1133-1134` only "a host who took the direct route" finds no agent | `relay_host.rs:1149`: a `CLIENTIP` read before the relay is in the slot is dropped without a word |
| `HostLeavesAtOnce` | `EndedLeavesEmpty` | `relay_host.rs:189` "a battle that has ended leaves an empty `HostedRelay`" | `lib.rs:2078`: a leave before the relay is in the slot finds nothing there, and the relay of the closed battle is put there afterwards |
| `Downloads` + | `NobodyWaitsForTheSettled` | `DownloadQueueProvider.tsx:714-715` "Already finished ... answer now rather than leaving the caller hanging" | line 716 asks the ref, which still says that the download is running until React renders its end; its waiters have been told by then and the new one never is |
| `Launches` + | `OneEngineUp` | `PlayProvider.tsx:117` "True while an engine process is up (app-wide, only one at a time)" | `tauri-plugin-coilbox-play` checks for a live engine before its task spawns one, so a launch given up, or forgotten by a reload, between the two comes up next to the following one; `OneGameWanted` is what remains |
| `TachyonCalls` + | `NobodyLeftWaiting` | `mp/tachyon_rpc.rs:556-557` "so no caller is left waiting for an answer that can no longer arrive" | a caller that registers and enqueues after the table was drained and before the task returns waits out its whole deadline |
| `Conquest` + | `BackingOutIsFree` | `BattleOverlay.tsx:163` "Nothing has committed yet, so backing out is free." | a briefing closed during its fight still has the fight's result applied, to the conquest the fight was begun from |
| `Conquest` + | `NothingWasChanged` | `GalaxyPage.tsx:548` "Nothing was changed." | `conquests.ts` publishes the conquest before it is written, so after a write that failed the map shows a turn the file has not got |
| `ConquestQuickSaves` | `QuickSavesKept` | `conquests.ts:95` "so two quick saves don't clobber each other" | the cache is in order, but two writes under way may end in either order and the older one may stay in the file |
| `Room` + | `TurnedAwayStaysOut` | `server/room.rs:742` "Answered once, answered for good", `room.rs:60-64` | asking twice puts two joins in the list; refusing one leaves the other, and approving that one seats a refused name |
| `Room` + | `BroughtUpToDate` | `room.rs:811` "Put a peer in the battle and bring them up to date" | a removal sent while a member was out is lost on their client (`reduce.rs` files options under the current battle only), and `admit` only ever adds |
| `Room` + | `NeverOverFull` | `room.rs:757-758` "this room is full" | the seats are counted when a join is queued, and not again when it is approved |

Remarks without a configuration:

- `pump_replies` in `agent/demux.rs` says an entry is never removed, which reclaiming does.
- `room.rs:150-151` says a peer with no name "is not broadcast to"; `deliver` in
  `tauri-plugin-coilbox-direct/src/room.rs:766` writes a broadcast to every open socket.
- A kept seat's team does not count as used, so a newcomer may be seated on it, and its owner
  comes back to a team that is taken.
- Approving the second join of a name that is already seated seats it again and sends
  `JOINBATTLE` again, which the client takes for a new way in.
- A cancel that arrives between two sources of a download finds nothing registered and is
  lost; one that arrives after the child has ended well leaves the content installed and no
  rescan owed.

## What is left out

Listed part by part in `PROJECT.json`. In short: parsing and formatting, because the modules
are about order; the TURN exchange itself, which is the `turn` crate's; time, except as
clocks that can tick and waits that can run out; the traffic meter and everything that only
informs; file contents other than what a decision reads. Of the front end, the download
queue, launching and conquests are modelled, and the rest appears as what it may call and
when. The larger part of the repository by lines is editors, tables and generated bindings,
and format readers and converters, which are pure functions over large data: they have no
order of events for a model checker to explore, and their input spaces are out of its reach.

`RelayAgent`, `RelayHost` and `RunFile` do not compose: `RunFile` stands for all agents'
starts and ends, `RelayAgent` for one agent's life, `RelayHost` for what Coilbox hears of
agents. The places where they meet are named in each (`Spawn`'s guard, `Send`'s guards, the
events in `agent[a].said`). `DownloadQueue` with `DownloadOps`, `Room` with `LobbyView`,
`Conquest` with `ConquestRules` and `RelayAgent` with `Stopping` do: each action of the one
takes the step of the other.

## Plan

Done: the relay agent, its run file, hosting through a relay, downloads, launching, Tachyon
requests with their specification, conquests, the room with the clients' views; and the proof of
every safety property that a passing run checks. To come, most important first, names of new
modules in brackets:

1. Theorems the existing ones make possible: the disagreements that vanish under an
   assumption, stated with it (as `ConsistentLobby` is for `MovesNoticed`), and what
   `FourStates` says of a note.
2. Credentials [`Renewal`]: the loop of each battle, the shared answer slot, quitting; and
   the answers to `allowPeer`, from the asking to the end of the agent's output.
3. Allocation health [`AllocationHealth`], and the sign-in gate [`RefreshGate`].
4. The rest of the reducer: many battles, over lines in any order a server may send; port
   mapping against a room's life [`PortMap`].
6. Composition: `RelayHost` with `RelayAgent` in place of its free agents, at small bounds.
