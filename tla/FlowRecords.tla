----------------------------- MODULE FlowRecords -----------------------------
(***************************************************************************)
(* The flow record of flow.rs and what the other components read off one:  *)
(* the volumes it stands for and the protocol categories it belongs to     *)
(* (ProtocolCategory::classify in config.rs).  The module has no           *)
(* variables; FlowProcessor counts flows, Mitigation looks for patterns in *)
(* them.                                                                   *)
(***************************************************************************)
EXTENDS Integers

Direction == {"inbound", "outbound"}

ProtocolCategory ==
  {"any", "tcp", "udp", "icmp", "gre", "esp", "tcp_syn", "dns", "https"}

\* The bits of tcp_flags.
TcpFlag == {"fin", "syn", "rst", "psh", "ack", "urg", "ece", "cwr"}

FlowRecord(Addr) ==
  [src_ip : Addr, dst_ip : Addr, src_port : Nat, dst_port : Nat, protocol : Nat,
   tcp_flags : SUBSET TcpFlag, bytes : Nat, packets : Nat, time_received : Nat,
   sampling_rate : Nat]

\* An optional value is the set of what it holds.
UnwrapOr(option, default) ==
  IF option = {} THEN default ELSE CHOOSE value \in option : TRUE

\* A time in nanoseconds, kept as its whole seconds and what is over them.
Nanoseconds(seconds, rest) == [seconds |-> seconds, rest |-> rest]

WholeSeconds(ns) == ns.seconds

\* A flow without a time of reception has no record: from_common_flow unwraps
\* it, and the receiver that decoded the flow panics.
Converts(flow) == flow.time_received_ns # {}

\* FlowRecord::from_common_flow of a flow that converts: what else the decoder
\* left out becomes zero, an unreported sampling rate one, and the time of
\* reception loses its part of a second.
FromCommonFlow(flow, unspecified) ==
  [src_ip        |-> UnwrapOr(flow.src_addr, unspecified),
   dst_ip        |-> UnwrapOr(flow.dst_addr, unspecified),
   src_port      |-> UnwrapOr(flow.src_port, 0),
   dst_port      |-> UnwrapOr(flow.dst_port, 0),
   protocol      |-> UnwrapOr(flow.proto, 0),
   tcp_flags     |-> UnwrapOr(flow.tcp_flags, {}),
   bytes         |-> flow.bytes,
   packets       |-> flow.packets,
   time_received |-> WholeSeconds(CHOOSE ns \in flow.time_received_ns : TRUE),
   sampling_rate |-> UnwrapOr(flow.sampling_rate, 1)]

\* The rate configured for the exporter that sampled the flow, if the decoder
\* names one, replaces the reported one.
OverrideSamplingRate(record, sampler_address, exporterRates) ==
  LET known == sampler_address \cap DOMAIN exporterRates
  IN  [record EXCEPT !.sampling_rate = UnwrapOr({exporterRates[s] : s \in known}, @)]

SampledBytes(flow) == flow.bytes * flow.sampling_rate

SampledPackets(flow) == flow.packets * flow.sampling_rate

\* ProtocolCategory::classify
Classify(flow) ==
       {"any"}
  \cup {c \in {"tcp"}     : flow.protocol = 6}
  \cup {c \in {"tcp_syn"} : flow.protocol = 6 /\ "syn" \in flow.tcp_flags}
  \cup {c \in {"https"}   : flow.protocol = 6 /\ flow.dst_port = 443}
  \cup {c \in {"dns"}     : flow.protocol \in {6, 17} /\ flow.dst_port = 53}
  \cup {c \in {"udp"}     : flow.protocol = 17}
  \cup {c \in {"icmp"}    : flow.protocol \in {1, 58}}
  \cup {c \in {"gre"}     : flow.protocol = 47}
  \cup {c \in {"esp"}     : flow.protocol = 50}
=============================================================================
