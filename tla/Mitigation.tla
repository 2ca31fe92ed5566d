------------------------------ MODULE Mitigation ------------------------------
(***************************************************************************)
(* The mitigation analysis of mitigation.rs: from the flows captured for a *)
(* firing alert, analyze_flows finds the pattern (values for some fields)  *)
(* that best balances traffic and detail, turns it into a BGP Flow Spec    *)
(* rule for the busiest part of the prefix, puts the pattern's flows aside *)
(* and goes on with what remains.                                          *)
(*                                                                         *)
(* Addresses are the numbers below 2^Bits.  Flows are a set: equal records *)
(* count as one of their joint volume.  The ratios the code computes in    *)
(* floating point are compared exactly.  A rule's protocols and flags keep *)
(* the numbers and bits their names stand for; an empty component leaves   *)
(* the rule unconstrained.  `basis` is a history variable.                 *)
(***************************************************************************)
EXTENDS FlowRecords, Sequences, FiniteSets, FiniteSetsExt

CONSTANTS
  Bits,      \* the length of an address
  MaxRules,  \* MAX_RULES, ten in the code
  Traffic,   \* all flows that exist
  Inputs     \* the calls of analyze_flows

Address == 0 .. (2 ^ Bits - 1)

Prefix == [base : Address, len : 0 .. Bits]

Input ==
  [flows : SUBSET Traffic, dest_prefix : Prefix, direction : Direction,
   protocol_filter : ProtocolCategory, current_rate : Nat, threshold : Nat]

ASSUME SizeAssumption == Bits \in Nat /\ MaxRules \in Nat

ASSUME TrafficAssumption == Traffic \subseteq FlowRecord(Address)

ASSUME InputsAssumption ==
  /\ Inputs \subseteq Input
  /\ \A in \in Inputs : IsFiniteSet(in.flows)

VARIABLES
  input,      \* the arguments of the call
  remaining,  \* the flows no pattern has matched yet
  rules,      \* the rules pushed so far
  done,       \* analyze_flows has returned rules
  basis       \* history: for each rule its pattern and the flows it was found in

vars == <<input, remaining, rules, done, basis>>

-----------------------------------------------------------------------------
\* FieldSet: the fields a pattern may constrain.
Field == {"src_ip", "dst_port", "src_port", "protocol", "tcp_flags"}

FieldBit ==
  [src_ip |-> 1, dst_port |-> 2, src_port |-> 4, protocol |-> 8, tcp_flags |-> 16]

AllCombinations(excluded) == (SUBSET (Field \ excluded)) \ {{}}

\* The position in the search: fewer fields first, then by the bit mask.
Position(fields) ==
  32 * Cardinality(fields) + MapThenSumSet(LAMBDA f : FieldBit[f], fields)

SumBytes(flows) == MapThenSumSet(SampledBytes, flows)

\* A zero is not worth a constraint.
Meaningful(flow, field) ==
  CASE field = "tcp_flags" -> flow.tcp_flags # {}
    [] field = "src_ip"    -> TRUE
    [] OTHER               -> flow[field] # 0

\* GroupKey::from_flow; a pattern is a function from its fields to values.
GroupKey(flow, fields) == [f \in fields |-> flow[f]]

GroupKeys(flows, fields) ==
  {GroupKey(flow, fields) :
     flow \in {g \in flows : \A f \in fields : Meaningful(g, f)}}

Group(flows, pattern) ==
  {flow \in flows : \A f \in DOMAIN pattern : flow[f] = pattern[f]}

\* Mutant of Matches: a flow with further flags does not match.
MatchesExactly(pattern, flow) == \A f \in DOMAIN pattern : flow[f] = pattern[f]

\* Candidate::matches
Matches(pattern, flow) ==
  \A f \in DOMAIN pattern :
     IF f = "tcp_flags" THEN pattern[f] \subseteq flow[f] ELSE flow[f] = pattern[f]

\* Mutant of Score: detail is worth nothing.
ScoreByBytes(flows, pattern) == SumBytes(Group(flows, pattern))

\* coverage * (1 + 0.5 * fields), in units of half the total
Score(flows, pattern) ==
  SumBytes(Group(flows, pattern)) * (2 + Cardinality(DOMAIN pattern))

\* The patterns that carry MIN_COVERAGE_RATIO, a tenth, of all bytes.
Candidates(flows, excluded) ==
  {pattern \in UNION {GroupKeys(flows, fields) : fields \in AllCombinations(excluded)} :
     10 * SumBytes(Group(flows, pattern)) >= SumBytes(flows)}

\* find_best_candidate keeps the first of the best scores.  Within one set
\* of fields the order is that of a hash map, so several may come out.
BestCandidates(flows, excluded) ==
  LET candidates == IF SumBytes(flows) = 0 THEN {} ELSE Candidates(flows, excluded)
      best       == Max({Score(flows, p) : p \in candidates})
      top        == {p \in candidates : Score(flows, p) = best}
      first      == Min({Position(DOMAIN p) : p \in top})
  IN  {p \in top : Position(DOMAIN p) = first}

-----------------------------------------------------------------------------
Size(prefix) == 2 ^ (Bits - prefix.len)

Contains(prefix, ip) == ip \div Size(prefix) = prefix.base \div Size(prefix)

Trunc(prefix) == [prefix EXCEPT !.base = @ - (@ % Size(prefix))]

\* The prefixes without host bits.
TruncPrefix == {prefix \in Prefix : Trunc(prefix) = prefix}

Host(ip) == [base |-> ip, len |-> Bits]

\* IpNet::subnets, one level down.
Halves(prefix) ==
  {[base |-> prefix.base + half * (Size(prefix) \div 2), len |-> prefix.len + 1] :
     half \in {0, 1}}

LocalAddress(flow, direction) ==
  IF direction = "inbound" THEN flow.dst_ip ELSE flow.src_ip

RemoteAddress(flow, direction) ==
  IF direction = "inbound" THEN flow.src_ip ELSE flow.dst_ip

\* The processor captures only flows that cross the border of the prefix.
ASSUME CrossingAssumption ==
  \A in \in Inputs : \A flow \in in.flows :
     /\ Contains(in.dest_prefix, LocalAddress(flow, in.direction))
     /\ ~Contains(in.dest_prefix, RemoteAddress(flow, in.direction))

BytesWithin(flows, direction, prefix) ==
  SumBytes({flow \in flows : Contains(prefix, LocalAddress(flow, direction))})

\* Mutant of Dominates: the share of what the half was taken from.
DominatesParent(flows, direction, half) ==
  LET parent == Trunc([half EXCEPT !.len = @ - 1])
  IN  10 * BytesWithin(flows, direction, half)
        >= 8 * BytesWithin(flows, direction, parent)

\* The half carries the dominant_ratio, 0.8, of all bytes.
Dominates(flows, direction, half) ==
  10 * BytesWithin(flows, direction, half) >= 8 * SumBytes(flows)

DominantHalves(flows, direction, prefix) ==
  IF prefix.len = Bits
  THEN {}
  ELSE {half \in Halves(prefix) : Dominates(flows, direction, half)}

\* Halves are descended into as long as one of them dominates.
ComputeDestinationPrefix(flows, direction, prefix) ==
  LET descend[current \in TruncPrefix] ==
        LET dominant == DominantHalves(flows, direction, current)
        IN  IF dominant = {} THEN current ELSE descend[CHOOSE half \in dominant : TRUE]
  IN  IF SumBytes(flows) = 0 THEN prefix ELSE descend[Trunc(prefix)]

-----------------------------------------------------------------------------
\* proto_number; no number when the category has several or any.
ProtoNumber(category) ==
  CASE category \in {"tcp", "tcp_syn", "https"} -> {6}
    [] category = "udp"                         -> {17}
    [] category = "icmp"                        -> {1}
    [] category = "gre"                         -> {47}
    [] category = "esp"                         -> {50}
    [] category \in {"any", "dns"}              -> {}

\* Mutant of ForcedProtocol: DNS is taken for UDP.
ForcedProtocolDnsUdp(category) ==
  IF category = "dns" THEN {17} ELSE ProtoNumber(category)

\* What every rule of the category carries, and the search leaves out.
ForcedProtocol(category) == ProtoNumber(category)

ForcedDstPort(category) ==
  CASE category = "dns"   -> {53}
    [] category = "https" -> {443}
    [] OTHER              -> {}

ExcludeFields(category) ==
       {f \in {"protocol"} : ForcedProtocol(category) # {}}
  \cup {f \in {"dst_port"} : ForcedDstPort(category) # {}}

\* tcp_flag_names has no names for ECE and CWR.
TcpFlagNames(flags) == flags \ {"ece", "cwr"}

Value(pattern, field) == IF field \in DOMAIN pattern THEN {pattern[field]} ELSE {}

\* Mutant of RuleFlags: a rule of a SYN alert has the flags of its pattern.
RuleFlagsOfPattern(pattern, category) == TcpFlagNames(UNION Value(pattern, "tcp_flags"))

\* A SYN alert whose pattern names no flag still asks for SYN.
RuleFlags(pattern, category) ==
  LET named == TcpFlagNames(UNION Value(pattern, "tcp_flags"))
  IN  IF category = "tcp_syn" /\ named = {} THEN {"syn"} ELSE named

FirstOf(option, default) == IF option # {} THEN option ELSE default

(***************************************************************************)
(* The MitigationRule of a pattern.  Inbound, its source is that of the    *)
(* pattern and its destination the busiest part of the prefix.  Outbound,  *)
(* its source is the busiest part of the prefix and its destination the    *)
(* source of the pattern, or else the whole prefix.                        *)
(***************************************************************************)
RuleFor(in, pattern, flows) ==
  LET narrowed == ComputeDestinationPrefix(flows, in.direction, in.dest_prefix)
      source   == {Host(ip) : ip \in Value(pattern, "src_ip")}
  IN  [source_prefix      |-> IF in.direction = "inbound" THEN source ELSE {narrowed},
       destination_prefix |-> IF in.direction = "inbound"
                              THEN narrowed
                              ELSE UnwrapOr(source, in.dest_prefix),
       destination_ports  |-> FirstOf(Value(pattern, "dst_port"),
                                      ForcedDstPort(in.protocol_filter)),
       source_ports       |-> Value(pattern, "src_port"),
       protocols          |-> FirstOf(Value(pattern, "protocol"),
                                      ForcedProtocol(in.protocol_filter)),
       tcp_flags          |-> RuleFlags(pattern, in.protocol_filter)]

\* The flows of the alert's protocol category.
Filtered(in) == {flow \in in.flows : in.protocol_filter \in Classify(flow)}

\* The rate the remaining flows stand for is below the threshold.
EnoughRemoved ==
  LET total == SumBytes(Filtered(input))
  IN  /\ total > 0 /\ input.threshold > 0
      /\ input.current_rate * SumBytes(remaining) < input.threshold * total

\* Mutant of Finished: one rule more than the limit.
FinishedLate == remaining = {} \/ Len(rules) > MaxRules \/ EnoughRemoved

Finished == remaining = {} \/ Len(rules) >= MaxRules \/ EnoughRemoved

\* The pattern without fields: a rule of the forced values alone.
Blanket == [f \in {} |-> {}]

NextPatterns ==
  LET excluded == ExcludeFields(input.protocol_filter)
      best     == BestCandidates(remaining, excluded)
  IN  IF best = {} /\ rules = <<>> /\ excluded # {} THEN {Blanket} ELSE best

Init ==
  /\ input \in Inputs
  /\ remaining = Filtered(input)
  /\ rules = <<>>
  /\ done = FALSE
  /\ basis = <<>>

\* One iteration of the loop.
AddRule ==
  /\ ~done
  /\ ~Finished
  /\ \E pattern \in NextPatterns :
       /\ rules' = Append(rules, RuleFor(input, pattern, remaining))
       /\ remaining' = {flow \in remaining : ~Matches(pattern, flow)}
       /\ basis' = Append(basis, [pattern |-> pattern, flows |-> remaining])
  /\ UNCHANGED <<input, done>>

Return ==
  /\ ~done
  /\ Finished \/ NextPatterns = {}
  /\ done' = TRUE
  /\ UNCHANGED <<input, remaining, rules, basis>>

Next == AddRule \/ Return

Spec == Init /\ [][Next]_vars

-----------------------------------------------------------------------------
Rule ==
  [source_prefix : SUBSET Prefix, destination_prefix : Prefix,
   destination_ports : SUBSET Nat, source_ports : SUBSET Nat,
   protocols : SUBSET Nat, tcp_flags : SUBSET TcpFlag]

TypeOK ==
  /\ input \in Input
  /\ remaining \subseteq input.flows
  /\ rules \in Seq(Rule)
  /\ Len(rules) <= MaxRules
  /\ done \in BOOLEAN
  /\ Len(basis) = Len(rules)

\* What a router drops for a rule: every component that is there must match,
\* every flag that is listed must be set.
RuleMatches(rule, flow) ==
  LET Admits(component, value) == component # {} => value \in component
  IN  /\ \A prefix \in rule.source_prefix : Contains(prefix, flow.src_ip)
      /\ Contains(rule.destination_prefix, flow.dst_ip)
      /\ Admits(rule.destination_ports, flow.dst_port)
      /\ Admits(rule.source_ports, flow.src_port)
      /\ Admits(rule.protocols, flow.protocol)
      /\ rule.tcp_flags \subseteq flow.tcp_flags

\* A rule for DNS without a protocol drops all that goes to port 53.
AnyToDns(rule, category, flow) ==
  category = "dns" /\ rule.protocols = {} /\ flow.dst_port = 53

(***************************************************************************)
(* A rule drops no traffic outside the protocol category of its alert,     *)
(* whatever pattern was found, none included: the forced values, the       *)
(* fields left out of the search and the SYN flag add up to the category   *)
(* (analyze_flows).  The exception is DNS, for which no protocol is forced *)
(* into a rule: unless its pattern names one, a rule drops SCTP to port 53 *)
(* as well.                                                                *)
(***************************************************************************)
RulesStayInCategory ==
  \A i \in DOMAIN rules : \A flow \in Traffic :
     RuleMatches(rules[i], flow)
       => \/ input.protocol_filter \in Classify(flow)
          \/ AnyToDns(rules[i], input.protocol_filter, flow)

(***************************************************************************)
(* Patterns are specific: when more than six sevenths of the traffic a     *)
(* pattern was chosen for share a value of a further field, that field is  *)
(* in the pattern, unless adding it leaves less than a tenth of all        *)
(* traffic (the scores of find_best_candidate).                            *)
(***************************************************************************)
SharpEnough ==
  \A i \in DOMAIN basis :
     LET pattern == basis[i].pattern
         chosen  == Group(basis[i].flows, pattern)
         free    == Field \ (DOMAIN pattern \cup ExcludeFields(input.protocol_filter))
     IN  pattern # Blanket =>
           \A flow \in chosen : \A f \in free :
              LET alike == SumBytes({g \in chosen : g[f] = flow[f]})
              IN  Meaningful(flow, f) /\ 10 * alike >= SumBytes(basis[i].flows)
                    => 7 * alike <= 6 * SumBytes(chosen)

NarrowedPrefix(i) ==
  IF input.direction = "inbound"
  THEN rules[i].destination_prefix
  ELSE CHOOSE prefix \in rules[i].source_prefix : TRUE

PartsOf(prefix) ==
  {part \in TruncPrefix : part.len >= prefix.len /\ Contains(prefix, part.base)}

(***************************************************************************)
(* The part of the prefix in a rule is the narrowest that carries four     *)
(* fifths of the traffic the rule was made from, whichever way the halves  *)
(* are walked (compute_destination_prefix).                                *)
(***************************************************************************)
NarrowestDominant ==
  \A i \in DOMAIN basis :
     LET flows    == basis[i].flows
         dominant == {part \in PartsOf(input.dest_prefix) :
                        5 * BytesWithin(flows, input.direction, part) >= 4 * SumBytes(flows)}
     IN  SumBytes(flows) > 0 =>
           /\ NarrowedPrefix(i) \in dominant
           /\ \A part \in dominant : part.len <= NarrowedPrefix(i).len

(***************************************************************************)
(* For inbound traffic other than ICMPv6, the flows that a rule was made   *)
(* for and does not drop, because the prefix was narrowed on the traffic   *)
(* of all patterns together, are at most a fifth of what remained at that  *)
(* point; analyze_flows counts them as mitigated.                          *)
(***************************************************************************)
EscapesBounded ==
  \A i \in DOMAIN basis :
     LET escaped == {flow \in basis[i].flows :
                       Matches(basis[i].pattern, flow) /\ ~RuleMatches(rules[i], flow)}
     IN  input.direction = "inbound" /\ (\A flow \in basis[i].flows : flow.protocol # 58)
           => 5 * SumBytes(escaped) <= SumBytes(basis[i].flows)

(***************************************************************************)
(* What remains is left alone: no rule drops a flow that its pattern or a  *)
(* later rule does not stand for, as long as all flags of the pattern have *)
(* names in a rule (the removal in analyze_flows agrees with the rules).   *)
(***************************************************************************)
LeftAlone ==
  \A i \in DOMAIN rules :
     (\A flags \in Value(basis[i].pattern, "tcp_flags") : TcpFlagNames(flags) = flags)
       => \A flow \in remaining : ~RuleMatches(rules[i], flow)

(***************************************************************************)
(* What analyze_flows takes for granted when it estimates the remaining    *)
(* rate "after previous rules would be applied": a rule drops some of the  *)
(* flows it was made for.                                                  *)
(***************************************************************************)
EveryRuleHits ==
  \A i \in DOMAIN basis : \E flow \in basis[i].flows :
     Matches(basis[i].pattern, flow) /\ RuleMatches(rules[i], flow)

(***************************************************************************)
(* What analyze_flows says of the values it forces into every rule of a    *)
(* category, that "they're trivially true for 100% of remaining flows".    *)
(***************************************************************************)
ForcedIsTrivial ==
  \A i \in DOMAIN basis : \A flow \in basis[i].flows :
     /\ \A n \in ForcedProtocol(input.protocol_filter) : flow.protocol = n
     /\ \A port \in ForcedDstPort(input.protocol_filter) : flow.dst_port = port
=============================================================================
