---------------------------- MODULE MCRelayAgent ----------------------------
(* The requests each configuration lets Coilbox write.                       *)
EXTENDS RelayAgent

CONSTANTS a, b, e1, e2, c1, c2

Allow(ip) == [kind |-> "allow", what |-> ip]
Watch(pid) == [kind |-> "watch", what |-> pid]
Renew(c) == [kind |-> "renew", what |-> c]
Say(kind) == [kind |-> kind, what |-> NoAsk]

IpA == {a}
IpAB == {a, b}
NoEngine == {}
OneEngine == {e1}
TwoEngines == {e1, e2}
OneCred == {c1}
TwoCreds == {c1, c2}

JoinerAsks == {Allow(a), Allow(b), Renew(c2), Say("unreadable")}
GameAsks == {Allow(a), Watch(e1), Watch(e2), Say("stop"), Say("over")}
RenewalAsks == {Allow(a), Renew(c2), Say("stop")}
EndingAsks == {Allow(a), Watch(e1), Say("stop"), Say("over")}
RoomAsks == {Allow(a), Say("over")}
=============================================================================
