--------------------------- MODULE MCFlowProcessor ---------------------------
(* FlowProcessor with a prefix, a part of it and a repetition of it, and    *)
(* flows that enter, leave, cross and stay within them.                     *)
EXTENDS FlowProcessor

CONSTANTS host, neighbour, outside, edge

MCAddr == {host, neighbour, outside, edge}

Net == {host, neighbour}

\* One pair for some metrics, and for a category in one direction or both.
On(metrics) == [metric \in metrics |-> [trigger |-> 2, recover |-> {}]]

In(metrics) == [direction \in {"inbound"} |-> On(metrics)]

Both(metrics) == [direction \in Direction |-> On(metrics)]

MCRule(prefix, policy, thresholds) ==
  [prefix |-> prefix, alert_policy |-> policy, thresholds |-> thresholds]

MCConfig(seconds, size, rs) ==
  [window |-> seconds, capture_buffer_size |-> size, mitigation_update_interval |-> 30,
   exporters |-> [edge |-> [address |-> edge, sampling_rate |-> 2]],
   alert_policies |-> [quick |-> [trigger_for |-> 0, recover_for |-> 1]],
   rules |-> rs]

Nested ==
  <<MCRule(Net, {"quick"}, [any |-> In({"bps"}), tcp_syn |-> In({"pps"}), dns |-> In({"bps"})]),
    MCRule({host}, {}, [any |-> In({"fps"}), icmp |-> Both({"bps"})]),
    MCRule(Net, {}, [any |-> Both({"bps", "pps"})])>>

\* An unknown policy, and a direction without metrics.
Mistaken ==
  {<<MCRule(Net, {"slow"}, [any |-> In({"bps"})])>>,
   <<MCRule(Net, {}, [any |-> In({})])>>}

\* Windows of two seconds, three, and one below a second; capture buffers of
\* two, one and no flow; two that do not load.
MCConfigs ==
  {MCConfig(2, 2, Nested), MCConfig(3, 1, Tail(Nested)), MCConfig(0, 0, Nested)}
    \cup {MCConfig(2, 2, rs) : rs \in Mistaken}

\* A flow of `size` packets as the decoder hands it over.
MCFlow(ns, src, dst, protocol, flags, port, size, sampler, rate) ==
  [src_addr |-> {src}, dst_addr |-> {dst}, src_port |-> {}, dst_port |-> port,
   proto |-> {protocol}, tcp_flags |-> flags, bytes |-> 2 * size, packets |-> size,
   time_received_ns |-> ns, sampler_address |-> sampler, sampling_rate |-> rate]

\* Four flows of each second, late in it, and one without a time.
MCDecoded ==
  LET late(second) == {Nanoseconds(second, 999999999)}
  IN  UNION {{MCFlow(late(second), outside, host, 6, {{"syn"}}, {443}, 1, {edge}, {}),
              MCFlow(late(second), outside, neighbour, 17, {}, {53}, 2, {}, {}),
              MCFlow(late(second), neighbour, host, 6, {{"ack"}}, {53}, 1, {host}, {3}),
              MCFlow(late(second), host, outside, 1, {}, {}, 3, {edge}, {0})} :
             second \in Start .. MaxTime}
        \cup {MCFlow({}, outside, host, 47, {}, {}, 1, {}, {})}

\* What the receivers make of them with the exporters of a configuration.
MCTraffic ==
  {OverrideSamplingRate(FromCommonFlow(flow, outside), flow.sampler_address,
                        ExporterSamplingRates(MCConfig(2, 2, Nested))) :
     flow \in {decoded \in MCDecoded : Converts(decoded)}}

NetScopes == [prefix : {Net}, direction : Direction]
=============================================================================
