---------------------------- MODULE MCMitigation ----------------------------
(* Mitigation for a prefix of four addresses, 8 to 11, and calls with up to *)
(* MaxFlows of the flows of several attacks at once.                        *)
EXTENDS Mitigation

CONSTANTS MaxFlows, Directions, Categories

\* Some bytes of one flow, sampled at one.
MCFlow(src, dst, sport, dport, protocol, flags, bytes) ==
  [src_ip |-> src, dst_ip |-> dst, src_port |-> sport, dst_port |-> dport,
   protocol |-> protocol, tcp_flags |-> flags, bytes |-> bytes, packets |-> 1,
   time_received |-> 0, sampling_rate |-> 1]

\* A SYN flood, its backscatter, what is legitimate, DNS over both
\* transports, a reflection, fragments, pings of both versions, a tunnel,
\* an odd handshake, a flow of no volume, and SCTP to the port of DNS.
Inbound ==
  {MCFlow(1, 8, 5, 443, 6, {"syn"}, 4),
   MCFlow(2, 8, 6, 443, 6, {"syn"}, 4),
   MCFlow(1, 9, 5, 443, 6, {"syn", "ack"}, 2),
   MCFlow(1, 9, 5, 443, 6, {"ack", "psh"}, 1),
   MCFlow(3, 8, 7, 53, 6, {"ack"}, 3),
   MCFlow(2, 10, 5, 53, 17, {}, 4),
   MCFlow(1, 11, 53, 6, 17, {}, 5),
   MCFlow(2, 8, 0, 0, 17, {}, 3),
   MCFlow(1, 10, 0, 0, 1, {}, 3),
   MCFlow(2, 9, 0, 0, 58, {}, 2),
   MCFlow(3, 11, 0, 0, 47, {}, 6),
   MCFlow(2, 9, 6, 80, 6, {"ece", "cwr"}, 2),
   MCFlow(1, 8, 53, 5, 17, {}, 0),
   MCFlow(3, 10, 5, 53, 132, {}, 2)}

Outbound ==
  {MCFlow(8, 1, 5, 443, 6, {"syn"}, 4),
   MCFlow(8, 2, 6, 443, 6, {"syn"}, 3),
   MCFlow(9, 2, 53, 6, 17, {}, 5),
   MCFlow(10, 1, 0, 0, 1, {}, 1)}

Internal ==
  {MCFlow(8, 8, 5, 443, 6, {"syn"}, 1), MCFlow(9, 8, 6, 80, 17, {}, 1)}

MCTraffic == Inbound \cup Outbound \cup Internal

Captured(direction) ==
  UNION {kSubset(k, IF direction = "inbound" THEN Inbound ELSE Outbound) : k \in 1 .. MaxFlows}

MCInputs ==
  UNION {[flows : Captured(direction), dest_prefix : {[base |-> 9, len |-> 2]},
          direction : {direction}, protocol_filter : Categories,
          current_rate : {10}, threshold : {0, 3}] : direction \in Directions}
=============================================================================
