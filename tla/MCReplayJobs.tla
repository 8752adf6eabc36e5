---------------------------- MODULE MCReplayJobs ----------------------------
(* Captures for TLC, and what Zeek makes of them: a lookup beside a TLS    *)
(* handshake, and a flood of SYNs with one frame over IPv6.  Zeek's counts *)
(* are of payload, with those of the IP level beside them, and it has a    *)
(* line for each of two questions.                                         *)
EXTENDS ReplayJobs

CONSTANTS mixed, flood, z1, z2, z3

Frame(proto, src, dst, flags, len) ==
    [ether |-> "ipv4", proto |-> proto, src |-> src, dst |-> dst, flags |-> flags, len |-> len,
     query |-> None, hello |-> None]

Client == <<"client", 4000>>
Other2 == <<"client", 5000>>
Server == <<"server", 443>>
Ns     == <<"ns", DnsPort>>

Lookup == << [Frame("UDP", Client, Ns, {}, 1) EXCEPT !.query = "domain"],
             [Frame("UDP", Ns, Client, {}, 2) EXCEPT !.query = "domain"] >>

Handshake == << Frame("TCP", Other2, Server, {"SYN"}, 4),
                Frame("TCP", Server, Other2, {"SYN", "ACK"}, 8),
                [Frame("TCP", Other2, Server, {"ACK", "PSH"}, 16) EXCEPT !.hello = "name"] >>

Syns == << Frame("TCP", Client, Server, {"SYN"}, 1), Frame("TCP", Client, Server, {"SYN"}, 2),
           [Frame("TCP", Client, Server, {"SYN"}, 4) EXCEPT !.ether = "ipv6"] >>

Captures == mixed :> (Lookup \o Handshake) @@ flood :> Syns

ZeekConn(uid, out, in, outIp, inIp, pin, history) ==
    [uid |-> uid, out |-> out, in |-> in, pout |-> 1, pin |-> pin, outIp |-> outIp, inIp |-> inIp,
     history |-> history]

ZeekMixed ==
    [conn |-> << ZeekConn(z1, 1, 1, 2, 3, 1, {"D"}),
                 ZeekConn(z2, 9, 0, 20, 8, 1, {"S", "h", "A", "D"}) >>,
     dns  |-> << [uid |-> z1, dns |-> "domain"], [uid |-> z1, dns |-> "domain6"] >>,
     ssl  |-> << [uid |-> z2, ja3 |-> "hello"] >>]

ZeekFlood ==
    [conn |-> << ZeekConn(z3, 0, 0, 3, 0, 0, {"S"}) >>, dns |-> <<>>, ssl |-> <<>>]

ZeekEvery ==
    [l \in Logs |-> (IF flood \in Files THEN ZeekFlood[l] ELSE <<>>)
                   \o (IF mixed \in Files THEN ZeekMixed[l] ELSE <<>>)]

\* Bounds of what runs beside what: two replays in one behaviour are of the flood, and
\* find no lines that Zeek has written of the other capture; the backend's consumer
\* polls beside one replay of the flood.
Replaying == {t \in Threads : file[t] # NoFile}

SmallBeside ==
    /\ Cardinality(Replaying) > 1 =>
          \A t \in Threads : /\ file[t] # mixed
                            /\ \A r \in ToSet(records[t]) : r.uid \notin {z1, z2}
    /\ next > 1 => Cardinality(Replaying) = 1 /\ \A t \in Replaying : file[t] = flood

ZeekOf == mixed :> ZeekMixed @@ flood :> ZeekFlood @@ Every :> ZeekEvery
=============================================================================
