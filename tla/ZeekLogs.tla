------------------------------ MODULE ZeekLogs ------------------------------
(***************************************************************************)
(* From a capture to the events the detection pipeline is given: the PCAP  *)
(* engine (ingest/pcap_engine.py), which decodes frames, aggregates them   *)
(* to flows and writes them as Zeek logs, and the log shipper (ingest/     *)
(* producers/zeek_kafka_shipper.py), which normalises the lines of a log   *)
(* and correlates those of one connection.  What Zeek itself writes is not *)
(* computed here: ReplayJobs takes it as a parameter.                      *)
(*                                                                         *)
(* A capture is a sequence of frames.  A frame is [ether, proto, src, dst, *)
(* flags, len, query, hello]: src and dst are <<address, port>>, query a   *)
(* DNS question and hello the server name of a TLS ClientHello, or None.   *)
(* Timestamps and the text of the lines are left out; a file that is not a *)
(* pcap has no frames.                                                     *)
(***************************************************************************)
EXTENDS SequencesExt

CONSTANT None

DnsPort == 53
Logs    == {"conn", "dns", "ssl"}

\* The elements of a sequence at some of its indices, in their order.
At(kept, seq) ==
    LET some[i \in 0..Len(seq)] ==
            IF i = 0 THEN <<>>
            ELSE IF i \in kept THEN Append(some[i - 1], seq[i]) ELSE some[i - 1]
    IN some[Len(seq)]
----------------------------------------------------------------------------
(* The PCAP engine.                                                        *)

\* _parse_packet_data: only IPv4 is decoded, a question only on the DNS port.
Packet(f) ==
    LET ports == f.proto \in {"TCP", "UDP"}
        at(e) == IF ports THEN e ELSE <<e[1], 0>>
    IN [src |-> at(f.src), dst |-> at(f.dst), len |-> f.len,
        flags |-> IF f.proto = "TCP" THEN f.flags ELSE {},
        dns |-> IF f.proto = "UDP" /\ DnsPort \in {f.src[2], f.dst[2]} THEN f.query ELSE None,
        sni |-> IF f.proto = "TCP" THEN f.hello ELSE None]

\* read_packets.
Packets(c) ==
    LET ipv4 == At({i \in DOMAIN c : c[i].ether = "ipv4"}, c)
    IN [i \in DOMAIN ipv4 |-> Packet(ipv4[i])]

Key(p)    == <<p.src, p.dst>>
Mirror(k) == <<k[2], k[1]>>

\* The first packet of a flow; a SYN without ACK is taken for inbound traffic.
NewFlow(p) ==
    LET oneWay == "SYN" \in p.flags /\ "ACK" \notin p.flags
    IN [uid |-> Key(p), flags |-> p.flags, dns |-> p.dns, sni |-> p.sni,
        out |-> IF oneWay THEN 0 ELSE p.len, in |-> IF oneWay THEN p.len ELSE 0,
        pout |-> IF oneWay THEN 0 ELSE 1, pin |-> IF oneWay THEN 1 ELSE 0]

Forward(f, p) ==
    [f EXCEPT !.out = @ + p.len, !.pout = @ + 1, !.flags = @ \cup p.flags,
              !.dns = IF @ = None THEN p.dns ELSE @, !.sni = IF @ = None THEN p.sni ELSE @]

Backward(f, p) == [f EXCEPT !.in = @ + p.len, !.pin = @ + 1, !.flags = @ \cup p.flags]

\* Where the flow of a key is, 0 if there is none.
FlowOf(flows, k) ==
    IF \E i \in DOMAIN flows : flows[i].uid = k
    THEN CHOOSE i \in DOMAIN flows : flows[i].uid = k ELSE 0

\* extract_flows: the packet joins the flow of its direction, or of the other one.
AddPacket(flows, p) ==
    LET i == FlowOf(flows, Key(p))
        j == FlowOf(flows, Mirror(Key(p)))
    IN IF i # 0 THEN [flows EXCEPT ![i] = Forward(@, p)]
       ELSE IF j # 0 THEN [flows EXCEPT ![j] = Backward(@, p)]
       ELSE Append(flows, NewFlow(p))

Aggregated(packets) ==
    LET flows[i \in 0..Len(packets)] ==
            IF i = 0 THEN <<>> ELSE AddPacket(flows[i - 1], packets[i])
    IN flows[Len(packets)]

Flows(c) == Aggregated(Packets(c))

\* "history" has the first letter of each flag; Zeek's own is "ShADFR".
History(flags) == {CASE f = "SYN" -> "S" [] f = "ACK" -> "A" [] f = "PSH" -> "P"
                     [] f = "FIN" -> "F" [] f = "RST" -> "R" : f \in flags}

\* The engine writes no counts of the IP level, as Zeek does.
ConnLine(f) == [uid |-> f.uid, out |-> f.out, in |-> f.in, pout |-> f.pout, pin |-> f.pin,
                outIp |-> 0, inIp |-> 0, history |-> History(f.flags)]

\* export_zeek_logs.
Exported(c) ==
    LET flows   == Flows(c)
        queries == At({i \in DOMAIN flows : flows[i].dns # None}, flows)
        hellos  == At({i \in DOMAIN flows : flows[i].sni # None}, flows)
    IN [conn |-> [i \in DOMAIN flows |-> ConnLine(flows[i])],
        dns  |-> [i \in DOMAIN queries |-> [uid |-> queries[i].uid, dns |-> queries[i].dns]],
        ssl  |-> [i \in DOMAIN hellos |-> [uid |-> hellos[i].uid, ja3 |-> hellos[i].sni]]]

\* The bytes of the packets with one of these keys.
Sum(packets, keys) ==
    LET sum[i \in 0..Len(packets)] ==
            IF i = 0 THEN 0
            ELSE sum[i - 1] + IF Key(packets[i]) \in keys THEN packets[i].len ELSE 0
    IN sum[Len(packets)]

Bytes(c, keys) == Sum(Packets(c), keys)
----------------------------------------------------------------------------
(* The log shipper.                                                        *)

FlagsOf(history) ==
    {f \in {"SYN", "ACK", "PSH", "FIN", "RST"} :
        (CASE f = "SYN" -> "S" [] f = "ACK" -> "A" [] f = "PSH" -> "D" [] f = "FIN" -> "F" [] f = "RST" -> "R")
            \in history}

\* A bug: the swap overwrites one side before it is read.
SwapInOrder(n) == [n EXCEPT !.out = n.in, !.in = n.in, !.pout = n.pin, !.pin = n.pin]

Swap(n) == [n EXCEPT !.out = n.in, !.in = n.out, !.pout = n.pin, !.pin = n.pout]

\* normalize_conn_record: a count of payload that is zero or absent gives way to
\* that of the IP level, a zero of orig_pkts reads as one, and a SYN that nothing
\* answers is shown as inbound.
Or(n, other) == IF n = 0 THEN other ELSE n

NormalConn(e) ==
    LET n == [log |-> "conn", uid |-> e.uid, out |-> Or(e.out, e.outIp), in |-> Or(e.in, e.inIp),
              pout |-> Or(e.pout, 1), pin |-> e.pin,
              flags |-> FlagsOf(e.history), dns |-> None, ja3 |-> None]
    IN IF "S" \in e.history /\ {"h", "A"} \cap e.history = {} /\ e.pin = 0 THEN Swap(n) ELSE n

NormalDns(e) == [log |-> "dns", uid |-> e.uid, dns |-> e.dns, ja3 |-> None]
NormalSsl(e) == [log |-> "ssl", uid |-> e.uid, dns |-> None, ja3 |-> e.ja3]

\* The correlation cache of a shipper, by connection: what is known of it.
NoCache == <<>>
Known(cache, uid) == IF uid \in DOMAIN cache THEN cache[uid] ELSE [dns |-> None, ja3 |-> None]

Put(cache, uid, what) ==
    [u \in DOMAIN cache \cup {uid} |-> IF u = uid THEN what ELSE cache[u]]

\* A bug: the cache holds one connection.
RememberLast(cache, e) == Put(NoCache, e.uid, [dns |-> None, ja3 |-> e.ja3])

\* An ssl line adds to what is known of its connection.
Remember(cache, e) == Put(cache, e.uid, [dns |-> Known(cache, e.uid).dns, ja3 |-> e.ja3])

\* process_log_line.  A dns line replaces what was known of its connection, and
\* a conn line takes it along.
Process(log, e, cache) ==
    LET known == Known(cache, e.uid)
    IN CASE log = "conn" -> [record |-> [NormalConn(e) EXCEPT !.dns = known.dns, !.ja3 = known.ja3],
                             cache  |-> Restrict(cache, DOMAIN cache \ {e.uid})]
         [] log = "dns"  -> [record |-> NormalDns(e),
                             cache  |-> Put(cache, e.uid, [dns |-> e.dns, ja3 |-> None])]
         [] log = "ssl"  -> [record |-> NormalSsl(e), cache |-> Remember(cache, e)]
=============================================================================
