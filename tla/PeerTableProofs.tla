-------------------------- MODULE PeerTableProofs --------------------------
(***************************************************************************)
(* Proofs about PeerTable, for every set of addresses, every set of ports, *)
(* every number of seats and every reclaim time.                           *)
(***************************************************************************)
EXTENDS PeerTable, FiniteSetTheorems, SequenceTheorems, TLAPS

(* Unless a port was bound again over somebody else's connection, whatever *)
(* waits on its socket is meant for the peer its reply task tags.  Replies *)
(* find their player only because of this, and this only because no two    *)
(* peers share an endpoint.                                                *)
SocketsAreFaithful ==
  \A q \in Port \ reused : reader[q] # NoPeer =>
    /\ knownAs[q] \in {reader[q], NoPeer}
    /\ unread[q] \in {reader[q], NoPeer}

(* Only quiet peers are ever put out, at most one of them, and only when   *)
(* every seat is taken.                                                    *)
LEMMA EvictionsAreStale ==
  ASSUME NEW gone \in Evictions
  PROVE  /\ gone \subseteq Stale
         /\ gone \subseteq Quietest
         /\ gone # {} => ~(Cardinality(Seated) < MaxPeers)
         /\ gone = {} => Cardinality(Seated) < MaxPeers
         /\ \A g, h \in gone : g = h
BY DEF Evictions, Quietest

(* Every variable keeps its type: in particular every reply that waits is  *)
(* addressed to a peer, never to "nobody".                                 *)
THEOREM TypeCorrect == Spec => []TypeOK
<1>1. Init => TypeOK
  <2> SUFFICES ASSUME Init PROVE TypeOK
    OBVIOUS
  <2>1. inbox \in Seq(Reply)
    BY EmptySeq DEF Init
  <2>2. relayUp \in BOOLEAN
    BY DEF Init
  <2>3. age \in [Peer -> 0..MaxAge]
    BY PeerTableAssumption DEF Init
  <2>4. /\ port \in [Peer -> Port \cup {NoPort}]
        /\ reader \in [Port -> Peer \cup {NoPeer}]
        /\ aborted \in SUBSET Port
        /\ knownAs \in [Port -> Peer \cup {NoPeer}]
        /\ unread \in [Port -> Peer \cup {NoPeer}]
        /\ reused \subseteq Port
    BY DEF Init
  <2>. QED  BY <2>1, <2>2, <2>3, <2>4 DEF TypeOK
<1>2. TypeOK /\ [Next]_vars => TypeOK'
  <2> SUFFICES ASSUME TypeOK, [Next]_vars PROVE TypeOK'
    OBVIOUS
  <2> USE PeerTableAssumption
  <2>1. ASSUME NEW p \in Peer, HearKnown(p) PROVE TypeOK'
    BY <2>1 DEF TypeOK, HearKnown, Heard
  <2>2. ASSUME NEW p \in Peer, HearStranger(p) PROVE TypeOK'
    <3>0. PICK gone \in Evictions : \E q \in FreePorts(gone) :
            /\ port' = [r \in Peer |-> IF r = p THEN q
                                       ELSE IF r \in gone THEN NoPort ELSE port[r]]
            /\ aborted' = NowAborted(gone)
            /\ age' = [r \in Peer |-> IF r = p \/ r \in gone THEN 0 ELSE age[r]]
            /\ reader' = [reader EXCEPT ![q] = p]
            /\ \E who \in Heard(q, p) : knownAs' = [knownAs EXCEPT ![q] = who]
            /\ unread' = [unread EXCEPT ![q] = NoPeer]
            /\ reused' = IF knownAs[q] \in {p, NoPeer} THEN reused \ {q} ELSE reused \cup {q}
      BY <2>2 DEF HearStranger
    <3>1. PICK q \in FreePorts(gone) :
            /\ port' = [r \in Peer |-> IF r = p THEN q
                                       ELSE IF r \in gone THEN NoPort ELSE port[r]]
            /\ aborted' = NowAborted(gone)
            /\ age' = [r \in Peer |-> IF r = p \/ r \in gone THEN 0 ELSE age[r]]
            /\ reader' = [reader EXCEPT ![q] = p]
            /\ \E who \in Heard(q, p) : knownAs' = [knownAs EXCEPT ![q] = who]
            /\ unread' = [unread EXCEPT ![q] = NoPeer]
            /\ reused' = IF knownAs[q] \in {p, NoPeer} THEN reused \ {q} ELSE reused \cup {q}
      BY <3>0
    <3>2. q \in Port
      BY DEF FreePorts
    <3>3. aborted' \in SUBSET Port
      BY <3>1 DEF NowAborted, TypeOK
    <3>4. port' \in [Peer -> Port \cup {NoPort}]
      BY <3>1, <3>2 DEF TypeOK
    <3>5. inbox' \in Seq(Reply) /\ relayUp' \in BOOLEAN
      BY <2>2 DEF TypeOK, HearStranger
    <3>5a. age' \in [Peer -> 0..MaxAge]
      BY <3>1 DEF TypeOK
    <3>6. knownAs' \in [Port -> Peer \cup {NoPeer}]
      BY <3>1, <3>2 DEF TypeOK, Heard
    <3>6a. reused' \subseteq Port
      BY <3>1, <3>2 DEF TypeOK
    <3>7. reader' \in [Port -> Peer \cup {NoPeer}] /\ unread' \in [Port -> Peer \cup {NoPeer}]
      BY <3>1, <3>2 DEF TypeOK
    <3>. QED  BY <3>3, <3>4, <3>5, <3>5a, <3>6, <3>6a, <3>7 DEF TypeOK
  <2>3. ASSUME NEW p \in Peer, HearStrangerBindFails(p) PROVE TypeOK'
    BY <2>3 DEF TypeOK, HearStrangerBindFails, NowAborted
  <2>4. ASSUME NEW q \in Port, EngineReplies(q) PROVE TypeOK'
    BY <2>4 DEF TypeOK, EngineReplies
  <2>12. ASSUME NEW q \in Port, EngineForgets(q) PROVE TypeOK'
    BY <2>12 DEF TypeOK, EngineForgets
  <2>5. ASSUME NEW q \in Port, PumpReply(q) PROVE TypeOK'
    <3>1. [to |-> reader[q], meant |-> unread[q], reused |-> q \in reused] \in Reply
      BY <2>5 DEF TypeOK, PumpReply, Reply
    <3>2. inbox' \in Seq(Reply)
      BY <2>5, <3>1 DEF TypeOK, PumpReply
    <3>. QED  BY <2>5, <3>2 DEF TypeOK, PumpReply
  <2>6. ASSUME NEW q \in Port, ReplyTaskEnds(q) PROVE TypeOK'
    BY <2>6 DEF TypeOK, ReplyTaskEnds
  <2>7. CASE ToRelay
    BY <2>7 DEF TypeOK, ToRelay
  <2>8. CASE RelayOpens
    BY <2>8 DEF TypeOK, RelayOpens
  <2>9. CASE RelayFails
    <3>1. inbox' \in Seq(Reply)
      <4>1. CASE UNCHANGED inbox
        BY <4>1 DEF TypeOK
      <4>2. CASE inbox # << >> /\ inbox' = Tail(inbox)
        BY <4>2, HeadTailProperties DEF TypeOK
      <4>. QED  BY <2>9, <4>1, <4>2 DEF RelayFails
    <3>. QED  BY <2>9, <3>1 DEF TypeOK, RelayFails
  <2>10. CASE Tick
    <3>1. age' \in [Peer -> 0..MaxAge]
      BY <2>10 DEF TypeOK, Tick
    <3>. QED  BY <2>10, <3>1 DEF TypeOK, Tick
  <2>11. CASE UNCHANGED vars
    BY <2>11 DEF TypeOK, vars
  <2>. QED
    BY <2>1, <2>2, <2>3, <2>4, <2>5, <2>6, <2>7, <2>8, <2>9, <2>10, <2>11,
       <2>12 DEF Next
<1>. QED  BY <1>1, <1>2, PTL DEF Spec

(* The seat cap holds in every reachable state: a newcomer is only seated  *)
(* in an empty seat or in exactly one reclaimed one.                       *)
THEOREM CapHolds == Spec => []SeatsRespected
<1>1. Init => SeatsRespected
  <2> SUFFICES ASSUME Init PROVE SeatsRespected
    OBVIOUS
  <2>1. Seated = {}
    BY DEF Init, Seated
  <2>. QED  BY <2>1, FS_EmptySet, PeerTableAssumption DEF SeatsRespected
<1>2. TypeOK /\ SeatsRespected /\ [Next]_vars => SeatsRespected'
  <2> SUFFICES ASSUME TypeOK, SeatsRespected, [Next]_vars PROVE SeatsRespected'
    OBVIOUS
  <2>0. IsFiniteSet(Seated) /\ Cardinality(Seated) \in Nat
    BY PeerTableAssumption, FS_Subset, FS_CardinalityType DEF Seated
  <2>1. ASSUME Seated' \subseteq Seated PROVE SeatsRespected'
    <3>1. Cardinality(Seated') <= Cardinality(Seated) /\ Cardinality(Seated') \in Nat
      BY <2>0, <2>1, FS_Subset, FS_CardinalityType
    <3>. QED  BY <2>0, <3>1, PeerTableAssumption DEF SeatsRespected
  <2>2. ASSUME NEW p \in Peer, HearStranger(p) PROVE SeatsRespected'
    <3>0. PICK gone \in Evictions : \E q \in FreePorts(gone) :
            port' = [r \in Peer |-> IF r = p THEN q
                                    ELSE IF r \in gone THEN NoPort ELSE port[r]]
      BY <2>2 DEF HearStranger
    <3>1. PICK q \in FreePorts(gone) :
            port' = [r \in Peer |-> IF r = p THEN q
                                    ELSE IF r \in gone THEN NoPort ELSE port[r]]
      BY <3>0
    <3>2. q \in Port /\ q # NoPort
      BY PeerTableAssumption DEF FreePorts
    <3>3. Seated' = (Seated \ gone) \cup {p}
      BY <3>1, <3>2 DEF Seated
    <3>4. p \notin Seated
      BY <2>2 DEF HearStranger, Seated
    <3>5. CASE gone = {}
      <4>1. Seated' = Seated \cup {p} /\ Cardinality(Seated) < MaxPeers
        BY <3>3, <3>5, EvictionsAreStale
      <4>2. Cardinality(Seated') = Cardinality(Seated) + 1
        BY <2>0, <3>4, <4>1, FS_AddElement
      <4>. QED  BY <2>0, <4>1, <4>2, PeerTableAssumption DEF SeatsRespected
    <3>6. CASE gone # {}
      <4>1. PICK g \in gone : gone = {g}
        BY <3>6, EvictionsAreStale
      <4>2. g \in Seated
        BY <4>1, EvictionsAreStale DEF Stale
      <4>3. Seated' = (Seated \ {g}) \cup {p}
        BY <3>3, <4>1
      <4>4. IsFiniteSet(Seated \ {g}) /\ Cardinality(Seated \ {g}) = Cardinality(Seated) - 1
        BY <2>0, <4>2, FS_RemoveElement
      <4>5. p \notin Seated \ {g}
        BY <3>4
      <4>6. Cardinality(Seated') = Cardinality(Seated) - 1 + 1
        BY <4>3, <4>4, <4>5, FS_AddElement
      <4>. QED  BY <2>0, <4>6 DEF SeatsRespected
    <3>. QED  BY <3>5, <3>6
  <2>3. ASSUME NEW p \in Peer, HearStrangerBindFails(p) PROVE Seated' \subseteq Seated
    BY <2>3 DEF HearStrangerBindFails, Seated
  <2>4. UNCHANGED port => Seated' \subseteq Seated
    BY DEF Seated
  <2>. QED
    BY <2>1, <2>2, <2>3, <2>4 DEF Next, vars, HearKnown, EngineReplies, EngineForgets,
       PumpReply, ReplyTaskEnds, ToRelay, RelayOpens, RelayFails, Tick
<1>. QED  BY <1>1, <1>2, TypeCorrect, PTL DEF Spec

(* Two peers never share an endpoint, a reply task never answers for a     *)
(* peer other than the one seated on its port, and so nothing on a socket  *)
(* is for anybody else, but where the kernel reused a port too early.      *)
LEMMA Faithful == Spec => [](OneEndpointEach /\ SocketsAreFaithful)
<1> DEFINE Inv == OneEndpointEach /\ SocketsAreFaithful
<1>1. Init => Inv
  BY DEF Init, OneEndpointEach, SocketsAreFaithful, Seated
<1>2. TypeOK /\ Inv /\ [Next]_vars => Inv'
  <2> SUFFICES ASSUME TypeOK, Inv, [Next]_vars PROVE Inv'
    OBVIOUS
  <2> USE PeerTableAssumption DEF OneEndpointEach, SocketsAreFaithful, Seated
  <2>1. ASSUME NEW p \in Peer, HearKnown(p) PROVE Inv'
    BY <2>1 DEF TypeOK, HearKnown, Heard
  <2>2. ASSUME NEW p \in Peer, HearStranger(p) PROVE Inv'
    <3>1. PICK gone \in Evictions : \E q \in FreePorts(gone) :
            /\ port' = [r \in Peer |-> IF r = p THEN q
                                       ELSE IF r \in gone THEN NoPort ELSE port[r]]
            /\ reader' = [reader EXCEPT ![q] = p]
            /\ \E who \in Heard(q, p) : knownAs' = [knownAs EXCEPT ![q] = who]
            /\ unread' = [unread EXCEPT ![q] = NoPeer]
            /\ reused' = IF knownAs[q] \in {p, NoPeer} THEN reused \ {q} ELSE reused \cup {q}
      BY <2>2 DEF HearStranger
    <3>2. PICK q \in FreePorts(gone) :
            /\ port' = [r \in Peer |-> IF r = p THEN q
                                       ELSE IF r \in gone THEN NoPort ELSE port[r]]
            /\ reader' = [reader EXCEPT ![q] = p]
            /\ \E who \in Heard(q, p) : knownAs' = [knownAs EXCEPT ![q] = who]
            /\ unread' = [unread EXCEPT ![q] = NoPeer]
            /\ reused' = IF knownAs[q] \in {p, NoPeer} THEN reused \ {q} ELSE reused \cup {q}
      BY <3>1
    <3>3. /\ q \in Port /\ q # NoPort
          /\ reader[q] = NoPeer
          /\ \A r \in Peer \ gone : port[r] # q
      BY DEF FreePorts
    <3>4. \A r \in Peer : r # p /\ port'[r] # NoPort =>
             r \in Seated /\ port'[r] = port[r] /\ port[r] # q /\ port[r] \in Port
      BY <3>2, <3>3 DEF TypeOK
    <3>5. port'[p] = q /\ reader'[q] = p
      BY <3>2, <3>3 DEF TypeOK
    <3>6. \A s \in Port \ {q} :
            reader'[s] = reader[s] /\ knownAs'[s] = knownAs[s] /\ unread'[s] = unread[s]
      BY <3>2, <3>3 DEF TypeOK
    <3>7. q \notin reused' => knownAs[q] \in {p, NoPeer}
      BY <3>2
    <3>7a. knownAs'[q] \in Heard(q, p) /\ unread'[q] = NoPeer
      BY <3>2, <3>3 DEF TypeOK
    <3>7b. q \notin reused' => knownAs'[q] \in {p, NoPeer}
      BY <3>7, <3>7a DEF Heard
    <3>7c. \A s \in Port \ {q} : s \in reused' <=> s \in reused
      BY <3>2
    <3>8. OneEndpointEach'
      BY <3>4, <3>5, <3>6
    <3>9. SocketsAreFaithful'
      BY <3>5, <3>6, <3>7a, <3>7b, <3>7c
    <3>. QED  BY <3>8, <3>9
  <2>3. ASSUME NEW p \in Peer, HearStrangerBindFails(p) PROVE Inv'
    BY <2>3 DEF TypeOK, HearStrangerBindFails
  <2>4. ASSUME NEW q \in Port, EngineReplies(q) PROVE Inv'
    BY <2>4 DEF TypeOK, EngineReplies
  <2>8. ASSUME NEW q \in Port, EngineForgets(q) PROVE Inv'
    BY <2>8 DEF TypeOK, EngineForgets
  <2>5. ASSUME NEW q \in Port, PumpReply(q) PROVE Inv'
    BY <2>5 DEF TypeOK, PumpReply
  <2>6. ASSUME NEW q \in Port, ReplyTaskEnds(q) PROVE Inv'
    BY <2>6 DEF TypeOK, ReplyTaskEnds
  <2>7. CASE UNCHANGED <<port, reader, knownAs, unread, reused>>
    BY <2>7
  <2>. QED
    BY <2>1, <2>2, <2>3, <2>4, <2>5, <2>6, <2>7, <2>8
    DEF Next, vars, ToRelay, RelayOpens, RelayFails, Tick
<1>. QED  BY <1>1, <1>2, TypeCorrect, PTL DEF Spec

(* The endpoint of every player is theirs alone, at every moment.          *)
THEOREM EndpointsDistinct == Spec => []OneEndpointEach
BY Faithful, PTL

(* Every reply waiting for the relay is addressed to the player it is for, *)
(* but those read on a port the kernel handed out again while the engine   *)
(* still had somebody else's connection there.                             *)
THEOREM RepliesDelivered == Spec => []RepliesFindTheirPlayer
<1>1. Init => RepliesFindTheirPlayer
  BY DEF Init, RepliesFindTheirPlayer
<1>2. /\ TypeOK /\ OneEndpointEach /\ SocketsAreFaithful
      /\ RepliesFindTheirPlayer /\ [Next]_vars
      => RepliesFindTheirPlayer'
  <2> SUFFICES ASSUME TypeOK, SocketsAreFaithful, RepliesFindTheirPlayer, [Next]_vars
               PROVE  RepliesFindTheirPlayer'
    OBVIOUS
  <2>1. ASSUME NEW q \in Port, PumpReply(q) PROVE RepliesFindTheirPlayer'
    <3>1. reader[q] = unread[q] \/ q \in reused
      BY <2>1 DEF PumpReply, SocketsAreFaithful
    <3>2. CASE UNCHANGED inbox
      BY <3>2 DEF RepliesFindTheirPlayer
    <3>3. ASSUME NEW reply,
                 reply = [to |-> reader[q], meant |-> unread[q], reused |-> q \in reused],
                 inbox' = Append(inbox, reply)
          PROVE  RepliesFindTheirPlayer'
      <4>1. \A i \in 1..Len(inbox') :
               inbox'[i] = IF i <= Len(inbox) THEN inbox[i] ELSE reply
        BY <3>3 DEF TypeOK
      <4>2. Len(inbox') = Len(inbox) + 1 /\ Len(inbox) \in Nat
        BY <3>3 DEF TypeOK
      <4>3. reply.to = reply.meant \/ reply.reused
        BY ONLY <3>1, <3>3, Zenon
      <4>. QED  BY <4>1, <4>2, <4>3 DEF RepliesFindTheirPlayer
    <3>. QED  BY <2>1, <3>2, <3>3 DEF PumpReply
  <2>2. ASSUME inbox # << >>, inbox' = Tail(inbox) PROVE RepliesFindTheirPlayer'
    <3>1. /\ Len(inbox') = Len(inbox) - 1
          /\ \A i \in 1..Len(inbox') : inbox'[i] = inbox[i + 1]
          /\ Len(inbox) \in Nat
      BY <2>2, HeadTailProperties, LenProperties DEF TypeOK
    <3>. QED  BY <3>1 DEF RepliesFindTheirPlayer
  <2>3. CASE UNCHANGED inbox
    BY <2>3 DEF RepliesFindTheirPlayer
  <2>. QED
    BY <2>1, <2>2, <2>3 DEF Next, vars, HearKnown, HearStranger,
       HearStrangerBindFails, EngineReplies, EngineForgets, ReplyTaskEnds, ToRelay,
       RelayOpens, RelayFails, Tick
<1>. QED  BY <1>1, <1>2, TypeCorrect, Faithful, PTL DEF Spec

(* No step moves a player to another endpoint, and none takes an endpoint  *)
(* away but to seat a newcomer in a full table, from a peer long quiet.    *)
THEOREM EndpointStable == Spec => EndpointKept
<1>1. TypeOK /\ [Next]_vars =>
        \A p \in Seated :
          \/ port'[p] = port[p]
          \/ port'[p] = NoPort /\ p \in Stale /\ Cardinality(Seated) >= MaxPeers
  <2> SUFFICES ASSUME TypeOK, [Next]_vars, NEW p \in Seated, port'[p] # port[p]
               PROVE port'[p] = NoPort /\ p \in Stale /\ Cardinality(Seated) >= MaxPeers
    OBVIOUS
  <2>0. Cardinality(Seated) \in Nat /\ MaxPeers \in Nat /\ p \in Peer
    BY PeerTableAssumption, FS_Subset, FS_CardinalityType DEF Seated
  <2>1. ASSUME NEW s \in Peer, HearStranger(s) \/ HearStrangerBindFails(s)
        PROVE  \E gone \in Evictions : p \in gone /\ port'[p] = NoPort
    BY <2>0, <2>1 DEF HearStranger, HearStrangerBindFails, Seated, TypeOK
  <2>2. \E s \in Peer : HearStranger(s) \/ HearStrangerBindFails(s)
    BY <2>0 DEF Next, vars, HearKnown, EngineReplies, EngineForgets, PumpReply,
       ReplyTaskEnds, ToRelay, RelayOpens, RelayFails, Tick
  <2>. QED  BY <2>0, <2>1, <2>2, EvictionsAreStale
<1>. QED  BY <1>1, TypeCorrect, PTL DEF Spec, EndpointKept
=============================================================================
