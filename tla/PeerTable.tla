----------------------------- MODULE PeerTable -----------------------------
(***************************************************************************)
(* The relay agent's demultiplexer (coilbox-relay-agent/src/demux.rs): one *)
(* loopback socket per relayed player, because the engine tells players    *)
(* apart by the UDP endpoint their datagrams come from.                    *)
(*                                                                         *)
(* Three tasks meet here.  The downlink (to_engine) is the only one that   *)
(* changes the table; every socket has a reply task (pump_replies) that    *)
(* tags what the engine says with the peer the socket was bound for; the   *)
(* uplink (to_relay) drains those replies.  Reclaiming a seat aborts the   *)
(* reply task, which goes on holding the port, and may still carry one     *)
(* more reply, until the abort lands.                                      *)
(*                                                                         *)
(* The engine keeps the connection it has at an endpoint, whoever sends    *)
(* from there next.  The agent never hands a newcomer somebody else's      *)
(* socket, but the kernel may hand out a port that a reclaimed socket had  *)
(* before the engine has let that connection go; `reused` remembers where. *)
(***************************************************************************)
EXTENDS Integers, Sequences, FiniteSets

CONSTANTS
  Peer,          \* relayed transport addresses the TURN server may report
  Port,          \* loopback ports the kernel may hand out
  NoPeer,        \* "no address"
  NoPort,        \* "no socket"
  MaxPeers,      \* the battle's seats: most entries the table may hold
  ReclaimAfter,  \* QUIET_ENOUGH_TO_RECLAIM, in ticks
  MaxAge,        \* bound: an entry's silence is counted up to this
  UplinkQueue    \* UPLINK_QUEUE: replies that may wait for the relay

ASSUME PeerTableAssumption ==
  /\ NoPeer \notin Peer
  /\ NoPort \notin Port
  /\ IsFiniteSet(Peer)
  /\ MaxPeers \in Nat
  /\ ReclaimAfter \in Nat
  /\ MaxAge \in Nat
  /\ MaxAge > ReclaimAfter
  /\ UplinkQueue \in Nat

VARIABLES
  relayUp,   \* is a relay connection running Agent::run
  port,      \* peer address -> the loopback port of its entry, or NoPort
  age,       \* peer address -> ticks since its entry was last heard
  reader,    \* port -> the peer its reply task tags replies with, or NoPeer
  aborted,   \* ports whose reply task was told to stop and has not yet
  knownAs,   \* port -> whose connection the engine has at this endpoint
  unread,    \* port -> the reply waiting on the socket, by who it is meant for
  inbox,     \* replies waiting for the relay
  reused     \* history: ports bound again over somebody else's connection

vars == <<relayUp, port, age, reader, aborted, knownAs, unread, inbox, reused>>

(* Who a reply goes to, who the engine meant it for, and whether it was    *)
(* read from a reused port.                                                *)
Reply == [to : Peer, meant : Peer, reused : BOOLEAN]

TypeOK ==
  /\ relayUp \in BOOLEAN
  /\ port \in [Peer -> Port \cup {NoPort}]
  /\ age \in [Peer -> 0..MaxAge]
  /\ reader \in [Port -> Peer \cup {NoPeer}]
  /\ aborted \in SUBSET Port
  /\ knownAs \in [Port -> Peer \cup {NoPeer}]
  /\ unread \in [Port -> Peer \cup {NoPeer}]
  /\ inbox \in Seq(Reply)
  /\ reused \subseteq Port

Init ==
  /\ relayUp = FALSE
  /\ port = [p \in Peer |-> NoPort]
  /\ age = [p \in Peer |-> 0]
  /\ reader = [q \in Port |-> NoPeer]
  /\ aborted = {}
  /\ knownAs = [q \in Port |-> NoPeer]
  /\ unread = [q \in Port |-> NoPeer]
  /\ inbox = << >>
  /\ reused = {}

-----------------------------------------------------------------------------
(* The table. *)

Seated == {p \in Peer : port[p] # NoPort}

Stale == {p \in Seated : age[p] > ReclaimAfter}

(* quietest_since: the entry silent the longest, among those silent for    *)
(* longer than ReclaimAfter.                                               *)
Quietest == {p \in Stale : \A r \in Stale : age[r] <= age[p]}

(* As if the cap were one too high.                                        *)
EvictionsOneTooLate ==
  IF Cardinality(Seated) <= MaxPeers THEN {{}} ELSE {{p} : p \in Quietest}

(* Who is put out to seat a newcomer: nobody while there is room, one of   *)
(* the quietest in a full table, and no choice at all (the datagram is     *)
(* dropped) when everybody in a full table was heard lately.               *)
Evictions ==
  IF Cardinality(Seated) < MaxPeers THEN {{}} ELSE {{p} : p \in Quietest}

(* A port is free again once neither a table entry nor a reply task holds  *)
(* the socket.                                                             *)
FreePorts(gone) ==
  {q \in Port : reader[q] = NoPeer /\ \A p \in Peer \ gone : port[p] # q}

(* Removing an entry drops the table's half of the socket and aborts its   *)
(* reply task, if that task is still running.                              *)
NowAborted(gone) ==
  aborted \cup {q \in Port : reader[q] # NoPeer /\ \E p \in gone : port[p] = q}

-----------------------------------------------------------------------------
(* The downlink: to_engine and socket_for. *)

(* Whose connection the engine can have at a port once a datagram of p's   *)
(* has been sent from there: the one it had; else p's, if the datagram     *)
(* arrived and was the first chunk of a connection.                        *)
Heard(q, p) == IF knownAs[q] = NoPeer THEN {p, NoPeer} ELSE {knownAs[q]}

(* A datagram from a peer with an entry: its silence ends, and the engine  *)
(* has it from the peer's own port.                                        *)
HearKnown(p) ==
  /\ relayUp
  /\ port[p] # NoPort
  /\ age' = [age EXCEPT ![p] = 0]
  /\ \E who \in Heard(port[p], p) : knownAs' = [knownAs EXCEPT ![port[p]] = who]
  /\ UNCHANGED <<relayUp, port, reader, aborted, unread, inbox, reused>>

(* As if a newcomer to a full table were handed the socket of the stalest  *)
(* peer, reply task and all, instead of one of its own.                    *)
HearStrangerTakesOver(p) ==
  /\ relayUp
  /\ port[p] = NoPort
  /\ \E gone \in Evictions : \E q \in FreePorts(gone) :
       LET own == IF gone = {} THEN q ELSE CHOOSE s \in Port : \E g \in gone : port[g] = s
       IN /\ port' = [r \in Peer |-> IF r = p THEN own
                                     ELSE IF r \in gone THEN NoPort ELSE port[r]]
          /\ reader' = IF gone = {} THEN [reader EXCEPT ![q] = p] ELSE reader
          /\ \E who \in Heard(own, p) : knownAs' = [knownAs EXCEPT ![own] = who]
  /\ age' = [age EXCEPT ![p] = 0]
  /\ UNCHANGED <<relayUp, aborted, unread, inbox, reused>>

(* A datagram from a stranger: room is made, a socket is bound and its     *)
(* reply task started.                                                     *)
HearStranger(p) ==
  /\ relayUp
  /\ port[p] = NoPort
  /\ \E gone \in Evictions : \E q \in FreePorts(gone) :
       /\ port' = [r \in Peer |-> IF r = p THEN q
                                  ELSE IF r \in gone THEN NoPort ELSE port[r]]
       /\ aborted' = NowAborted(gone)
       /\ reader' = [reader EXCEPT ![q] = p]
       /\ \E who \in Heard(q, p) : knownAs' = [knownAs EXCEPT ![q] = who]
       /\ unread' = [unread EXCEPT ![q] = NoPeer]
       /\ reused' = IF knownAs[q] \in {p, NoPeer} THEN reused \ {q} ELSE reused \cup {q}
       /\ age' = [r \in Peer |-> IF r = p \/ r \in gone THEN 0 ELSE age[r]]
  /\ UNCHANGED <<relayUp, inbox>>

(* The same when bind_towards fails.  The stale entry is already gone by   *)
(* then: the seat was reclaimed for nobody.                                *)
HearStrangerBindFails(p) ==
  /\ relayUp
  /\ port[p] = NoPort
  /\ \E gone \in Evictions :
       /\ port' = [r \in Peer |-> IF r \in gone THEN NoPort ELSE port[r]]
       /\ aborted' = NowAborted(gone)
       /\ age' = [r \in Peer |-> IF r \in gone THEN 0 ELSE age[r]]
  /\ UNCHANGED <<relayUp, reader, knownAs, unread, inbox, reused>>

-----------------------------------------------------------------------------
(* The reply tasks and the engine. *)

(* The engine answers whoever it knows at an endpoint.  At most one reply  *)
(* waits on a socket here.                                                 *)
EngineReplies(q) ==
  /\ reader[q] # NoPeer
  /\ knownAs[q] # NoPeer
  /\ unread[q] = NoPeer
  /\ unread' = [unread EXCEPT ![q] = knownAs[q]]
  /\ UNCHANGED <<relayUp, port, age, reader, aborted, knownAs, inbox, reused>>

(* The engine lets a connection go: its player has come back from another  *)
(* endpoint and is moved there, or has been silent for too long.           *)
EngineForgets(q) ==
  /\ knownAs[q] # NoPeer
  /\ knownAs' = [knownAs EXCEPT ![q] = NoPeer]
  /\ UNCHANGED <<relayUp, port, age, reader, aborted, unread, inbox, reused>>

(* pump_replies: the reply goes into the queue, or nowhere if it is full.  *)
PumpReply(q) ==
  /\ reader[q] # NoPeer
  /\ unread[q] # NoPeer
  /\ unread' = [unread EXCEPT ![q] = NoPeer]
  /\ inbox' = IF Len(inbox) < UplinkQueue
              THEN Append(inbox, [to |-> reader[q], meant |-> unread[q],
                                  reused |-> q \in reused])
              ELSE inbox
  /\ UNCHANGED <<relayUp, port, age, reader, aborted, knownAs, reused>>

(* The task ends: its abort landed, or the socket broke under it (any      *)
(* error but a refused or reset connection), in which case the entry stays *)
(* and nothing carries that peer's replies any more.  Either way nobody    *)
(* reads what still waits on the socket.                                   *)
ReplyTaskEnds(q) ==
  /\ reader[q] # NoPeer
  /\ reader' = [reader EXCEPT ![q] = NoPeer]
  /\ aborted' = aborted \ {q}
  /\ unread' = [unread EXCEPT ![q] = NoPeer]
  /\ reused' = reused \ {q}
  /\ UNCHANGED <<relayUp, port, age, knownAs, inbox>>

-----------------------------------------------------------------------------
(* The uplink, and the relay under both. *)

ToRelay ==
  /\ relayUp
  /\ inbox # << >>
  /\ inbox' = Tail(inbox)
  /\ UNCHANGED <<relayUp, port, age, reader, aborted, knownAs, unread, reused>>

RelayOpens ==
  /\ ~relayUp
  /\ relayUp' = TRUE
  /\ UNCHANGED <<port, age, reader, aborted, knownAs, unread, inbox, reused>>

(* As if losing the relay tore the table down.                             *)
RelayFailsForgetting ==
  /\ relayUp
  /\ relayUp' = FALSE
  /\ port' = [p \in Peer |-> NoPort]
  /\ aborted' = {q \in Port : reader[q] # NoPeer}
  /\ UNCHANGED <<age, reader, knownAs, unread, inbox, reused>>

(* Agent::run returns, or is cancelled; a reply already taken off the      *)
(* queue goes with it.  The table and the reply tasks are left alone.      *)
RelayFails ==
  /\ relayUp
  /\ relayUp' = FALSE
  /\ \/ UNCHANGED inbox
     \/ inbox # << >> /\ inbox' = Tail(inbox)
  /\ UNCHANGED <<port, age, reader, aborted, knownAs, unread, reused>>

Tick ==
  /\ age' = [p \in Peer |-> IF port[p] # NoPort /\ age[p] < MaxAge
                            THEN age[p] + 1 ELSE age[p]]
  /\ UNCHANGED <<relayUp, port, reader, aborted, knownAs, unread, inbox, reused>>

Next ==
  \/ \E p \in Peer : \/ HearKnown(p)
                     \/ HearStranger(p)
                     \/ HearStrangerBindFails(p)
  \/ \E q \in Port : \/ EngineReplies(q)
                     \/ EngineForgets(q)
                     \/ PumpReply(q)
                     \/ ReplyTaskEnds(q)
  \/ ToRelay
  \/ RelayOpens
  \/ RelayFails
  \/ Tick

Spec == Init /\ [][Next]_vars

-----------------------------------------------------------------------------
(* Properties. *)

(* The table never holds more entries than the battle has seats, whatever  *)
(* addresses the relay reports and however often seats are reclaimed.      *)
SeatsRespected == Cardinality(Seated) <= MaxPeers

(* Two players never reach the engine from one endpoint, and the replies   *)
(* read on a peer's port are tagged with that peer: also while the reply   *)
(* task of a reclaimed seat is still on its way out.                       *)
OneEndpointEach ==
  /\ \A p, r \in Seated : port[p] = port[r] => p = r
  /\ \A p \in Seated : reader[port[p]] \in {p, NoPeer}

(* Every reply waiting for the relay goes to the player the engine meant   *)
(* it for, through reclaiming and aborts that have not landed, unless the  *)
(* kernel gave the socket a port at which the engine still had somebody    *)
(* else's connection.                                                      *)
RepliesFindTheirPlayer ==
  \A i \in 1..Len(inbox) : inbox[i].to = inbox[i].meant \/ inbox[i].reused

(* A player keeps their endpoint, across relay failures included: an entry *)
(* is only ever given up by a player quiet past ReclaimAfter, and only to  *)
(* make room in a full table.                                              *)
EndpointKept ==
  [][\A p \in Seated :
       \/ port'[p] = port[p]
       \/ port'[p] = NoPort /\ p \in Stale /\ Cardinality(Seated) >= MaxPeers]_vars

(* What a comment says of a newcomer's socket: the engine has never seen   *)
(* the endpoint.  The code does not see to it.                             *)
NewToTheEngine == reused = {}
=============================================================================
