--------------------------- MODULE Mitigation_proofs ---------------------------
(***************************************************************************)
(* Proofs that the analysis of Mitigation keeps its promises for all       *)
(* flows, prefixes, rates and limits: its rules stay within the protocol   *)
(* category of their alert, leave alone what their patterns do not stand   *)
(* for, name the narrowest part of the prefix that carries the traffic,    *)
(* and let at most a fifth of what they were made for through; patterns    *)
(* are as specific as their scores allow.                                  *)
(*                                                                         *)
(* The invariant remembers how rules were made: each from a pattern found  *)
(* in flows of the category. The rest are facts about one rule:            *)
(*   - the fields left out of the search are exactly those that are        *)
(*     forced, and a pattern's flags are those of a flow of the category;  *)
(*   - volumes add up in any order, so disjoint parts of the flows share   *)
(*     their bytes out;                                                    *)
(*   - halves of a prefix share its addresses out, so at most one          *)
(*     dominates, and a descent that goes on as long as one does ends at   *)
(*     the longest prefix that dominates;                                  *)
(*   - a candidate with one more field competes with the one that is found.*)
(***************************************************************************)
EXTENDS Mitigation, CodeLemmas

\* All that matters of a pattern: it leaves forced fields out, and what it
\* says is true of a flow of the category.
Suits(in, pattern) ==
  /\ DOMAIN pattern \subseteq Field \ ExcludeFields(in.protocol_filter)
  /\ DOMAIN pattern # {} =>
       \E flow \in Filtered(in) : \A f \in DOMAIN pattern : pattern[f] = flow[f]

StaysInCategory(rule, category) ==
  \A flow \in Traffic :
     RuleMatches(rule, flow) => category \in Classify(flow) \/ AnyToDns(rule, category, flow)

(***************************************************************************)
(* What the search finds suits the category it was started for             *)
(* (find_best_candidate).                                                  *)
(***************************************************************************)
LEMMA FoundSuits ==
  ASSUME NEW in \in Input, NEW flows \in SUBSET Filtered(in),
         NEW pattern \in BestCandidates(flows, ExcludeFields(in.protocol_filter))
  PROVE  Suits(in, pattern)
<1> DEFINE excluded == ExcludeFields(in.protocol_filter)
<1>1. pattern \in Candidates(flows, excluded)
  BY DEF BestCandidates
<1>2. PICK fields \in AllCombinations(excluded) : pattern \in GroupKeys(flows, fields)
  BY <1>1 DEF Candidates
<1>3. fields \subseteq Field \ excluded
  BY <1>2 DEF AllCombinations
<1>4. PICK flow \in flows : pattern = GroupKey(flow, fields)
  BY <1>2 DEF GroupKeys
<1>5. DOMAIN pattern = fields /\ \A f \in fields : pattern[f] = flow[f]
  BY <1>4 DEF GroupKey
<1> QED
  BY <1>3, <1>4, <1>5 DEF Suits

(***************************************************************************)
(* A pattern without fields suits every category (analyze_flows).          *)
(***************************************************************************)
LEMMA BlanketSuits ==
  ASSUME NEW in
  PROVE  Suits(in, Blanket)
BY DEF Suits, Blanket

(***************************************************************************)
(* The rule of a pattern that suits the category drops nothing outside it  *)
(* (analyze_flows, one iteration).                                         *)
(***************************************************************************)
LEMMA RuleStays ==
  ASSUME NEW in \in Input, NEW pattern, Suits(in, pattern), NEW flows
  PROVE  StaysInCategory(RuleFor(in, pattern, flows), in.protocol_filter)
<1> DEFINE category == in.protocol_filter
           rule     == RuleFor(in, pattern, flows)
<1>0. category \in ProtocolCategory
  BY DEF Input
<1> SUFFICES ASSUME NEW flow \in Traffic, RuleMatches(rule, flow)
             PROVE  category \in Classify(flow) \/ AnyToDns(rule, category, flow)
  BY DEF StaysInCategory
<1>1. /\ rule.protocols = FirstOf(Value(pattern, "protocol"), ForcedProtocol(category))
      /\ rule.destination_ports = FirstOf(Value(pattern, "dst_port"), ForcedDstPort(category))
      /\ rule.tcp_flags = RuleFlags(pattern, category)
  BY DEF RuleFor
<1>2. /\ rule.protocols # {} => flow.protocol \in rule.protocols
      /\ rule.destination_ports # {} => flow.dst_port \in rule.destination_ports
      /\ rule.tcp_flags \subseteq flow.tcp_flags
  BY DEF RuleMatches
<1>3. ForcedProtocol(category) # {} => flow.protocol \in ForcedProtocol(category)
  <2> SUFFICES ASSUME ForcedProtocol(category) # {}
               PROVE  flow.protocol \in ForcedProtocol(category)
    OBVIOUS
  <2>1. "protocol" \notin DOMAIN pattern
    BY DEF Suits, ExcludeFields
  <2> QED
    BY <1>1, <1>2, <2>1 DEF FirstOf, Value
<1>4. ForcedDstPort(category) # {} => flow.dst_port \in ForcedDstPort(category)
  <2> SUFFICES ASSUME ForcedDstPort(category) # {}
               PROVE  flow.dst_port \in ForcedDstPort(category)
    OBVIOUS
  <2>1. "dst_port" \notin DOMAIN pattern
    BY DEF Suits, ExcludeFields
  <2> QED
    BY <1>1, <1>2, <2>1 DEF FirstOf, Value
<1>5. category = "tcp_syn" => "syn" \in flow.tcp_flags
  <2> SUFFICES ASSUME category = "tcp_syn"
               PROVE  "syn" \in RuleFlags(pattern, category)
    BY <1>1, <1>2
  <2>1. CASE "tcp_flags" \in DOMAIN pattern
    <3>1. PICK g \in Filtered(in) : pattern["tcp_flags"] = g.tcp_flags
      BY <2>1 DEF Suits
    <3>2. "syn" \in g.tcp_flags
      BY DEF Filtered, Classify
    <3>3. UNION Value(pattern, "tcp_flags") = g.tcp_flags
      BY <2>1, <3>1 DEF Value
    <3> QED
      BY <3>2, <3>3 DEF RuleFlags, TcpFlagNames
  <2>2. CASE "tcp_flags" \notin DOMAIN pattern
    <3>1. UNION Value(pattern, "tcp_flags") = {}
      BY <2>2 DEF Value
    <3> QED
      BY <3>1 DEF RuleFlags, TcpFlagNames
  <2> QED
    BY <2>1, <2>2
<1>6. category = "dns" => rule.protocols = {} \/ flow.protocol \in {6, 17}
  <2> SUFFICES ASSUME category = "dns"
               PROVE  rule.protocols = {} \/ flow.protocol \in {6, 17}
    OBVIOUS
  <2>1. CASE "protocol" \in DOMAIN pattern
    <3>1. PICK g \in Filtered(in) : pattern["protocol"] = g.protocol
      BY <2>1 DEF Suits
    <3>2. g.protocol \in {6, 17}
      BY DEF Filtered, Classify
    <3>3. rule.protocols = {g.protocol}
      BY <1>1, <2>1, <3>1 DEF FirstOf, Value
    <3> QED
      BY <1>2, <3>2, <3>3
  <2>2. CASE "protocol" \notin DOMAIN pattern
    BY <1>1, <2>2 DEF FirstOf, Value, ForcedProtocol, ProtoNumber
  <2> QED
    BY <2>1, <2>2
<1>7. CASE category \in {"tcp", "tcp_syn", "https"}
  BY <1>3, <1>4, <1>5, <1>7 DEF ForcedProtocol, ForcedDstPort, ProtoNumber, Classify
<1>8. CASE category = "dns"
  BY <1>4, <1>6, <1>8 DEF ForcedDstPort, Classify, AnyToDns
<1>9. CASE category \in {"udp", "icmp", "gre", "esp"}
  BY <1>3, <1>9 DEF ForcedProtocol, ProtoNumber, Classify
<1>10. CASE category = "any"
  BY <1>10 DEF Classify
<1> QED
  BY <1>0, <1>7, <1>8, <1>9, <1>10 DEF ProtocolCategory

-----------------------------------------------------------------------------
\* The patterns an iteration may go on with.
Patterns(in, flows) ==
  BestCandidates(flows, ExcludeFields(in.protocol_filter)) \cup {Blanket}

Entry(in) ==
  UNION {[pattern : Patterns(in, flows), flows : {flows}] : flows \in SUBSET Filtered(in)}

MadeFrom(in, entry) == RuleFor(in, entry.pattern, entry.flows)

MitigationInv ==
  /\ input \in Inputs
  /\ remaining \subseteq Filtered(input)
  /\ basis \in Seq(Entry(input))
  /\ rules \in Seq({MadeFrom(input, entry) : entry \in Entry(input)})
  /\ Len(rules) = Len(basis) /\ Len(rules) <= MaxRules
  /\ done \in BOOLEAN
  /\ \A i \in DOMAIN rules :
       /\ rules[i] = MadeFrom(input, basis[i])
       /\ \A flow \in remaining : ~Matches(basis[i].pattern, flow)

(***************************************************************************)
(* The loop of analyze_flows preserves MitigationInv.                      *)
(***************************************************************************)
THEOREM MitigationInvariance == Spec => []MitigationInv
<1>1. Init => MitigationInv
  <2> SUFFICES ASSUME Init PROVE MitigationInv
    OBVIOUS
  <2>1. /\ rules = <<>> /\ basis = <<>> /\ done = FALSE
        /\ input \in Inputs /\ remaining = Filtered(input)
    BY DEF Init
  <2>2. Len(rules) = 0 /\ Len(basis) = 0 /\ DOMAIN rules = {}
    BY <2>1
  <2>3. Len(rules) <= MaxRules
    BY <2>2, SizeAssumption
  <2>4. done \in BOOLEAN
    BY <2>1
  <2>5. /\ basis \in Seq(Entry(input))
        /\ rules \in Seq({MadeFrom(input, entry) : entry \in Entry(input)})
    BY <2>1
  <2> QED
    BY <2>1, <2>2, <2>3, <2>4, <2>5 DEF MitigationInv
<1>2. MitigationInv /\ [Next]_vars => MitigationInv'
  <2> SUFFICES ASSUME MitigationInv, [Next]_vars PROVE MitigationInv'
    OBVIOUS
  <2>1. CASE AddRule
    <3>1. PICK pattern \in NextPatterns :
            /\ rules' = Append(rules, RuleFor(input, pattern, remaining))
            /\ remaining' = {flow \in remaining : ~Matches(pattern, flow)}
            /\ basis' = Append(basis, [pattern |-> pattern, flows |-> remaining])
            /\ input' = input /\ done' = done
      BY <2>1 DEF AddRule
    <3> DEFINE entry == [pattern |-> pattern, flows |-> remaining]
               Made  == {MadeFrom(input, e) : e \in Entry(input)}
    <3>2. pattern \in Patterns(input, remaining)
      BY DEF NextPatterns, Patterns
    <3>3. entry \in Entry(input)
      BY <3>2 DEF Entry, MitigationInv
    <3>4. MadeFrom(input, entry) = RuleFor(input, pattern, remaining)
      BY DEF MadeFrom
    <3>5. MadeFrom(input, entry) \in Made
      BY <3>3
    <3> HIDE DEF entry, Made
    <3>6. /\ basis' = Append(basis, entry)
          /\ rules' = Append(rules, MadeFrom(input, entry))
          /\ basis \in Seq(Entry(input)) /\ rules \in Seq(Made)
          /\ Len(rules) = Len(basis)
      BY <3>1, <3>4 DEF MitigationInv, entry, Made
    <3>7. /\ basis' \in Seq(Entry(input)) /\ rules' \in Seq(Made)
          /\ Len(rules') = Len(rules) + 1 /\ Len(basis') = Len(basis) + 1
          /\ Len(rules) \in Nat
      BY <3>3, <3>5, <3>6
    <3>8. Len(rules') <= MaxRules
      <4>1. Len(rules) < MaxRules
        BY <2>1, <3>7, SizeAssumption DEF AddRule, Finished
      <4> QED
        BY <3>7, <4>1, SizeAssumption
    <3>9. ASSUME NEW i \in DOMAIN rules'
          PROVE  /\ rules'[i] = MadeFrom(input, basis'[i])
                 /\ \A flow \in remaining' : ~Matches(basis'[i].pattern, flow)
      <4>1. CASE i \in DOMAIN rules
        <5>1. rules'[i] = rules[i] /\ basis'[i] = basis[i]
          BY <3>6, <4>1
        <5> QED
          BY <3>1, <4>1, <5>1 DEF MitigationInv
      <4>2. CASE i \notin DOMAIN rules
        <5>1. i = Len(rules) + 1
          BY <3>6, <3>7, <4>2
        <5>2. rules'[i] = MadeFrom(input, entry) /\ basis'[i] = entry
          BY <3>3, <3>5, <3>6, <5>1
        <5>3. basis'[i].pattern = pattern
          BY <5>2 DEF entry
        <5> QED
          BY <3>1, <5>2, <5>3
      <4> QED
        BY <4>1, <4>2
    <3> QED
      BY <3>1, <3>6, <3>7, <3>8, <3>9 DEF MitigationInv, Made
  <2>2. CASE Return
    BY <2>2 DEF Return, MitigationInv
  <2>3. CASE UNCHANGED vars
    BY <2>3 DEF vars, MitigationInv
  <2> QED
    BY <2>1, <2>2, <2>3 DEF Next
<1> QED
  BY <1>1, <1>2, PTL DEF Spec

(***************************************************************************)
(* The pattern of every rule suits the category (MitigationInv).           *)
(***************************************************************************)
LEMMA EntriesSuit ==
  ASSUME NEW in \in Input, NEW entry \in Entry(in)
  PROVE  Suits(in, entry.pattern)
<1>1. PICK flows \in SUBSET Filtered(in) : entry.pattern \in Patterns(in, flows)
  BY DEF Entry
<1> QED
  BY <1>1, FoundSuits, BlanketSuits DEF Patterns

(***************************************************************************)
(* No rule drops traffic outside the category of its alert: the property   *)
(* RulesStayInCategory, for all traffic and every limit on rules.          *)
(***************************************************************************)
THEOREM StayInCategory == Spec => []RulesStayInCategory
<1>1. MitigationInv => RulesStayInCategory
  <2> SUFFICES ASSUME MitigationInv, NEW i \in DOMAIN rules
               PROVE  StaysInCategory(rules[i], input.protocol_filter)
    BY DEF RulesStayInCategory, StaysInCategory
  <2>1. input \in Input /\ i \in DOMAIN basis
    BY InputsAssumption DEF MitigationInv
  <2>2. basis[i] \in Entry(input) /\ rules[i] = MadeFrom(input, basis[i])
    BY <2>1 DEF MitigationInv
  <2>3. Suits(input, basis[i].pattern)
    BY <2>1, <2>2, EntriesSuit
  <2> QED
    BY <2>1, <2>2, <2>3, RuleStays DEF MadeFrom
<1> QED
  BY <1>1, MitigationInvariance, PTL

-----------------------------------------------------------------------------
\* Every flag of the pattern has a name in a rule.
FlagsNamed(pattern) ==
  \A flags \in Value(pattern, "tcp_flags") : TcpFlagNames(flags) = flags

(***************************************************************************)
(* A host prefix contains its own address only (IpNet::contains).          *)
(***************************************************************************)
LEMMA HostIsOne ==
  ASSUME NEW ip \in Address, NEW other \in Address, Contains(Host(ip), other)
  PROVE  other = ip
<1>1. Bits \in Nat /\ Size(Host(ip)) = 1 /\ Host(ip).base = ip
  BY SizeAssumption DEF Size, Host
<1>2. ip \in Int /\ other \in Int
  BY DEF Address
<1>3. other \div 1 = ip \div 1
  BY <1>1 DEF Contains
<1> QED
  BY <1>2, <1>3

(***************************************************************************)
(* A captured flow that a rule drops matches the pattern of the rule, as   *)
(* long as all its flags have names (analyze_flows, one iteration).        *)
(***************************************************************************)
LEMMA DroppedMatches ==
  ASSUME NEW in \in Inputs, NEW pattern, Suits(in, pattern), FlagsNamed(pattern),
         NEW flows, NEW flow \in Filtered(in), RuleMatches(RuleFor(in, pattern, flows), flow)
  PROVE  Matches(pattern, flow)
<1> DEFINE category == in.protocol_filter
           rule     == RuleFor(in, pattern, flows)
<1> SUFFICES ASSUME NEW f \in DOMAIN pattern
             PROVE  IF f = "tcp_flags" THEN pattern[f] \subseteq flow[f] ELSE flow[f] = pattern[f]
  BY DEF Matches
<1>1. PICK g \in Filtered(in) : pattern[f] = g[f]
  BY DEF Suits
<1>2. /\ in \in Input
      /\ g \in in.flows /\ flow \in in.flows
      /\ g.src_ip \in Address /\ flow.src_ip \in Address /\ flow.dst_ip \in Address
  <2>1. in \in Input /\ g \in in.flows /\ flow \in in.flows
    BY InputsAssumption DEF Filtered
  <2>2. g \in Traffic /\ flow \in Traffic
    BY <2>1 DEF Input
  <2> QED
    BY <2>1, <2>2, TrafficAssumption DEF FlowRecord
<1>3. Value(pattern, f) = {pattern[f]}
  BY DEF Value
<1>4. f \in Field
  BY DEF Suits
<1>5. CASE f = "dst_port"
  BY <1>3, <1>5 DEF RuleMatches, RuleFor, FirstOf
<1>6. CASE f = "src_port"
  BY <1>3, <1>6 DEF RuleMatches, RuleFor
<1>7. CASE f = "protocol"
  BY <1>3, <1>7 DEF RuleMatches, RuleFor, FirstOf
<1>8. CASE f = "tcp_flags"
  <2>1. TcpFlagNames(UNION Value(pattern, "tcp_flags")) = pattern[f]
    <3>1. TcpFlagNames(pattern[f]) = pattern[f]
      BY <1>3, <1>8 DEF FlagsNamed
    <3>2. UNION Value(pattern, "tcp_flags") = pattern[f]
      BY <1>3, <1>8
    <3> QED
      BY <3>1, <3>2
  <2>2. pattern[f] \subseteq RuleFlags(pattern, category)
    BY <2>1 DEF RuleFlags
  <2>3. RuleFlags(pattern, category) \subseteq flow.tcp_flags
    BY DEF RuleMatches, RuleFor
  <2> QED
    BY <1>8, <2>2, <2>3
<1>9. CASE f = "src_ip"
  <2>1. {Host(ip) : ip \in Value(pattern, "src_ip")} = {Host(g.src_ip)}
    BY <1>1, <1>3, <1>9
  <2>2. CASE in.direction = "inbound"
    <3>1. rule.source_prefix = {Host(g.src_ip)}
      BY <2>1, <2>2 DEF RuleFor
    <3>2. Contains(Host(g.src_ip), flow.src_ip)
      BY <3>1 DEF RuleMatches
    <3> QED
      BY <1>1, <1>2, <1>9, <3>2, HostIsOne
  <2>3. CASE in.direction = "outbound"
    <3>1. rule.destination_prefix = Host(g.src_ip)
      BY <2>1, <2>3 DEF RuleFor, UnwrapOr
    <3>2. Contains(Host(g.src_ip), flow.dst_ip)
      BY <3>1 DEF RuleMatches
    <3>3. flow.dst_ip = g.src_ip
      BY <1>2, <3>2, HostIsOne
    <3>4. Contains(in.dest_prefix, g.src_ip) /\ ~Contains(in.dest_prefix, flow.dst_ip)
      BY <1>2, <2>3, CrossingAssumption DEF LocalAddress, RemoteAddress
    <3> QED
      BY <3>3, <3>4
  <2> QED
    BY <1>2, <2>2, <2>3 DEF Input, Direction
<1> QED
  BY <1>4, <1>5, <1>6, <1>7, <1>8, <1>9 DEF Field

(***************************************************************************)
(* No rule drops what is left over: the property LeftAlone, for all flows  *)
(* that cross the border of the prefix.                                    *)
(***************************************************************************)
THEOREM RemainderLeftAlone == Spec => []LeftAlone
<1>1. MitigationInv => LeftAlone
  <2> SUFFICES ASSUME MitigationInv, NEW i \in DOMAIN rules,
                      FlagsNamed(basis[i].pattern),
                      NEW flow \in remaining, RuleMatches(rules[i], flow)
               PROVE  FALSE
    BY DEF LeftAlone, FlagsNamed
  <2>1. /\ input \in Inputs /\ input \in Input /\ i \in DOMAIN basis
        /\ flow \in Filtered(input)
        /\ rules[i] = RuleFor(input, basis[i].pattern, basis[i].flows)
        /\ ~Matches(basis[i].pattern, flow)
    BY InputsAssumption DEF MitigationInv, MadeFrom
  <2>2. Suits(input, basis[i].pattern)
    BY <2>1, EntriesSuit DEF MitigationInv
  <2> QED
    BY <2>1, <2>2, DroppedMatches
<1> QED
  BY <1>1, MitigationInvariance, PTL

-----------------------------------------------------------------------------
(* Volumes.                                                                *)

\* Flows of known volume.
Counted(flows) == IsFiniteSet(flows) /\ flows \subseteq Traffic

Volume(flows) == [flow \in flows |-> SampledBytes(flow)]

(***************************************************************************)
(* The bytes of a set of flows are a sum in any order (sampled_bytes       *)
(* summed over the slices of mitigation.rs).                               *)
(***************************************************************************)
LEMMA BytesAreSum ==
  ASSUME NEW flows, IsFiniteSet(flows)
  PROVE  SumBytes(flows) = SumFunctionOnSet(Volume(flows), flows)
<1> DEFINE f == Volume(flows)
           D == SUBSET flows
           BytesTerm(g, s) == IF s = {} THEN 0 ELSE SampledBytes(Pick(s)) + g[s \ {Pick(s)}]
           Fits(g) == g = [s \in D |-> BytesTerm(g, s)]
           own == CHOOSE g : Fits(g)
<1>1. SumBytes(flows) = own[flows]
  BY DEF SumBytes, MapThenSumSet, MapThenFoldSet, Pick
<1>2. \A g : Fits(g) <=> Sums(g, f, D)
  <2> SUFFICES ASSUME NEW g PROVE Fits(g) <=> Sums(g, f, D)
    OBVIOUS
  <2>1. ASSUME NEW s \in D PROVE BytesTerm(g, s) = Term(g, f, s)
    <3>1. s # {} => Pick(s) \in flows
      BY DEF Pick
    <3>2. s # {} => f[Pick(s)] = SampledBytes(Pick(s))
      BY <3>1 DEF Volume
    <3> QED
      BY <3>2 DEF Term
  <2> HIDE DEF BytesTerm, D, f
  <2> QED
    BY <2>1 DEF Sums
<1>3. PICK sum : Sums(sum, f, D) /\ SumFunctionOnSet(f, flows) = sum[flows]
  BY SumRecursion
<1> HIDE DEF Fits
<1>4. Fits(own)
  BY <1>2, <1>3
<1> HIDE DEF own, f
<1>5. Sums(own, f, D)
  BY <1>2, <1>4
<1>6. own[flows] = sum[flows]
  BY <1>3, <1>5, SumsAgree
<1> QED
  BY <1>1, <1>3, <1>6 DEF f

\* A captured flow has a volume (sampled_bytes).
LEMMA CountedVolumes ==
  ASSUME NEW flows, Counted(flows)
  PROVE  \A flow \in flows : Volume(flows)[flow] \in Nat
BY TrafficAssumption DEF Counted, Volume, SampledBytes, FlowRecord

\* So has a set of them.
LEMMA BytesType ==
  ASSUME NEW flows, Counted(flows)
  PROVE  SumBytes(flows) \in Nat
BY CountedVolumes, BytesAreSum, SumType DEF Counted

\* No flows, no bytes.
LEMMA BytesOfNone == SumBytes({}) = 0
BY BytesAreSum, SumOfNone, FS_EmptySet

\* Part of the flows and the rest.
LEMMA BytesSplit ==
  ASSUME NEW flows, Counted(flows), NEW part \in SUBSET flows
  PROVE  /\ Counted(part) /\ Counted(flows \ part)
         /\ SumBytes(flows) = SumBytes(part) + SumBytes(flows \ part)
<1> DEFINE f == Volume(flows)
<1>1. ASSUME NEW some \in SUBSET flows
      PROVE  Counted(some) /\ SumBytes(some) = SumFunctionOnSet(f, some)
  <2>1. IsFiniteSet(some) /\ Counted(some)
    BY FS_Subset DEF Counted
  <2>2. \A flow \in some : Volume(some)[flow] = f[flow]
    BY DEF Volume
  <2>3. SumFunctionOnSet(Volume(some), some) = SumFunctionOnSet(f, some)
    BY <2>1, <2>2, SumAgrees
  <2> QED
    BY <2>1, <2>3, BytesAreSum
<1>2. IsFiniteSet(flows) /\ \A flow \in flows : f[flow] \in Nat
  BY CountedVolumes DEF Counted
<1>3. SumFunctionOnSet(f, flows)
        = SumFunctionOnSet(f, part) + SumFunctionOnSet(f, flows \ part)
  BY <1>2, SumSplits
<1> QED
  BY <1>1, <1>3

\* More flows carry no fewer bytes.
LEMMA BytesGrow ==
  ASSUME NEW flows, Counted(flows), NEW part \in SUBSET flows
  PROVE  SumBytes(part) <= SumBytes(flows)
<1>1. /\ Counted(part) /\ Counted(flows \ part)
      /\ SumBytes(flows) = SumBytes(part) + SumBytes(flows \ part)
  BY BytesSplit
<1>2. SumBytes(part) \in Nat /\ SumBytes(flows \ part) \in Nat
  BY <1>1, BytesType
<1> QED
  BY <1>1, <1>2

-----------------------------------------------------------------------------
(* Prefixes.                                                               *)

\* The size of a prefix divides the address space; a half is half of it.
LEMMA SizeFacts ==
  ASSUME NEW prefix \in Prefix
  PROVE  /\ Size(prefix) \in Nat \ {0}
         /\ \E k \in Nat \ {0} : 2 ^ Bits = k * Size(prefix)
         /\ prefix.len < Bits =>
              /\ Size(prefix) = 2 * 2 ^ (Bits - (prefix.len + 1))
              /\ Size(prefix) \div 2 = 2 ^ (Bits - (prefix.len + 1))
<1>1. Bits \in Nat /\ prefix.len \in 0 .. Bits
  BY SizeAssumption DEF Prefix
<1> DEFINE n == Bits - prefix.len
<1>2. n \in Nat /\ n <= Bits
  BY <1>1
<1>3. Size(prefix) = 2 ^ n
  BY DEF Size
<1> HIDE DEF n
<1>4. Size(prefix) \in Nat \ {0} /\ \E k \in Nat \ {0} : 2 ^ Bits = k * Size(prefix)
  <2>1. 2 ^ n \in Nat \ {0}
    BY <1>2, PowerOfTwo
  <2>2. \E k \in Nat \ {0} : 2 ^ Bits = k * 2 ^ n
    BY <1>1, <1>2, PowerDivides
  <2> QED
    BY <1>3, <2>1, <2>2
<1>5. ASSUME prefix.len < Bits
      PROVE  /\ Size(prefix) = 2 * 2 ^ (Bits - (prefix.len + 1))
             /\ Size(prefix) \div 2 = 2 ^ (Bits - (prefix.len + 1))
  <2> DEFINE m == Bits - (prefix.len + 1)
             h == 2 ^ m
  <2>1. m \in Nat /\ n = m + 1
    BY <1>1, <1>5 DEF n
  <2> HIDE DEF m
  <2>2. h \in Nat \ {0} /\ 2 ^ (m + 1) = 2 * h
    BY <2>1, PowerOfTwo
  <2> HIDE DEF h
  <2>3. Size(prefix) = 2 * h
    BY <1>3, <2>1, <2>2
  <2>4. (2 * h) \div 2 = h
    BY <2>2
  <2> QED
    BY <2>3, <2>4 DEF m, h
<1> QED
  BY <1>4, <1>5

\* A prefix without host bits starts at a multiple of its size.
LEMMA TruncMeans ==
  ASSUME NEW prefix \in Prefix
  PROVE  Trunc(prefix) = prefix <=> prefix.base % Size(prefix) = 0
<1> DEFINE b == prefix.base
           r == b % Size(prefix)
<1>1. b \in Nat /\ Size(prefix) \in Nat \ {0}
  BY SizeFacts DEF Prefix, Address
<1>2. r \in Nat
  BY <1>1, Divided
<1>3. Trunc(prefix) = [prefix EXCEPT !.base = b - r]
  BY DEF Trunc
<1> HIDE DEF r
<1>4. CASE r = 0
  <2>1. b - r = b
    BY <1>1, <1>4
  <2> QED
    BY <1>3, <1>4, <2>1 DEF Prefix, r
<1>5. CASE r # 0
  <2>1. Trunc(prefix).base = b - r
    BY <1>3 DEF Prefix
  <2>2. b - r # b
    BY <1>1, <1>2, <1>5
  <2> QED
    BY <1>5, <2>1, <2>2 DEF r
<1> QED
  BY <1>4, <1>5

(***************************************************************************)
(* IpNet::trunc keeps the addresses of a prefix.                           *)
(***************************************************************************)
LEMMA TruncFacts ==
  ASSUME NEW prefix \in Prefix
  PROVE  /\ Trunc(prefix) \in TruncPrefix /\ Trunc(prefix).len = prefix.len
         /\ \A ip : Contains(Trunc(prefix), ip) <=> Contains(prefix, ip)
<1> DEFINE b == prefix.base
           s == Size(prefix)
           q == b \div s
           r == b % s
           t == Trunc(prefix)
<1>1. b \in Nat /\ b < 2 ^ Bits /\ s \in Nat \ {0} /\ 2 ^ Bits \in Nat
  BY SizeFacts, SizeAssumption, PowerOfTwo DEF Prefix, Address
<1>2. q \in Nat /\ r \in 0 .. (s - 1) /\ b = q * s + r
  BY <1>1, Divided
<1>3. t = [prefix EXCEPT !.base = b - r]
  BY DEF Trunc
<1> HIDE DEF b, s, q, r, t
<1>4. q * s \in Nat /\ b - r = q * s + 0
  BY <1>1, <1>2
<1>5. (b - r) \div s = q /\ (b - r) % s = 0
  <2> DEFINE d == b - r
  <2>1. 0 \in 0 .. (s - 1) /\ d = q * s + 0
    BY <1>1, <1>4
  <2> HIDE DEF d
  <2>2. d \div s = q /\ d % s = 0
    BY <1>1, <1>2, <2>1, Quotient
  <2> QED
    BY <2>2 DEF d
<1>6. t.base = b - r /\ t.len = prefix.len /\ Size(t) = s
  BY <1>3 DEF Prefix, Size, s
<1>7. t \in Prefix
  <2>1. b - r \in 0 .. (2 ^ Bits - 1)
    BY <1>1, <1>2, <1>4
  <2> QED
    BY <1>3, <2>1 DEF Prefix, Address
<1>8. Trunc(t) = t
  BY <1>5, <1>6, <1>7, TruncMeans
<1>9. \A ip : Contains(t, ip) <=> Contains(prefix, ip)
  BY <1>5, <1>6 DEF Contains, q, s, b
<1> QED
  BY <1>6, <1>7, <1>8, <1>9 DEF t, TruncPrefix

(***************************************************************************)
(* The two halves of a prefix (IpNet::subnets) are prefixes one bit        *)
(* longer, and share its addresses out.                                    *)
(***************************************************************************)
LEMMA HalvesFacts ==
  ASSUME NEW prefix \in TruncPrefix, prefix.len < Bits
  PROVE  /\ \A half \in Halves(prefix) :
              half \in TruncPrefix /\ half.len = prefix.len + 1
         /\ \A ip \in Address :
              Contains(prefix, ip) => \E half \in Halves(prefix) : Contains(half, ip)
<1> DEFINE b == prefix.base
           s == Size(prefix)
           h == 2 ^ (Bits - (prefix.len + 1))
           q == b \div s
           Half(i) == [base |-> b + i * (s \div 2), len |-> prefix.len + 1]
<1>1. prefix \in Prefix /\ Bits \in Nat
  BY SizeAssumption DEF TruncPrefix
<1>2. /\ b \in Nat /\ b < 2 ^ Bits /\ 2 ^ Bits \in Nat
      /\ prefix.len \in Nat
  BY <1>1, PowerOfTwo DEF Prefix, Address
<1>3. /\ s \in Nat \ {0} /\ s = 2 * h /\ s \div 2 = h
      /\ \E k \in Nat \ {0} : 2 ^ Bits = k * s
  BY <1>1, SizeFacts
<1>4. h \in Nat \ {0}
  <2>1. Bits - (prefix.len + 1) \in Nat
    BY <1>1, <1>2
  <2> QED
    BY <2>1, PowerOfTwo
<1>5. b % s = 0
  BY <1>1, TruncMeans DEF TruncPrefix
<1>6. q \in Nat /\ b = q * s
  <2> HIDE DEF b, s
  <2>1. q \in Nat /\ b = q * s + (b % s)
    BY <1>2, <1>3, Divided
  <2> HIDE DEF q
  <2>2. q * s \in Nat
    BY <1>3, <2>1
  <2> QED
    BY <1>5, <2>1, <2>2
<1>7. Halves(prefix) = {Half(0), Half(1)}
  BY DEF Halves
<1> HIDE DEF b, s, h, q
<1>8. b + s <= 2 ^ Bits
  <2>1. PICK k \in Nat \ {0} : 2 ^ Bits = k * s
    BY <1>3
  <2>2. q < k
    <3> SUFFICES ASSUME q >= k PROVE FALSE
      BY <1>6
    <3>1. q * s >= k * s
      BY <1>3, <1>6
    <3> QED
      BY <1>2, <1>6, <2>1, <3>1
  <2>3. (q + 1) * s <= k * s
    BY <1>3, <1>6, <2>2
  <2>4. (q + 1) * s = q * s + s
    BY <1>3, <1>6
  <2> QED
    BY <1>6, <2>1, <2>3, <2>4
<1>9. ASSUME NEW i \in {0, 1}
      PROVE  /\ Half(i) \in TruncPrefix /\ Half(i).len = prefix.len + 1
             /\ Size(Half(i)) = h /\ Half(i).base \div h = 2 * q + i
  <2> DEFINE d == b + i * h
             p == 2 * q + i
  <2>1. d \in Nat /\ d < b + s
    BY <1>2, <1>3, <1>4
  <2>2. p \in Nat /\ d = p * h + 0
    <3>1. q * s = (2 * q) * h
      BY <1>3, <1>4, <1>6
    <3>2. (2 * q) * h + i * h = (2 * q + i) * h
      BY <1>4, <1>6
    <3>3. (2 * q + i) * h \in Nat
      BY <1>4, <1>6
    <3> QED
      BY <1>6, <3>1, <3>2, <3>3
  <2>3. Half(i) = [base |-> d, len |-> prefix.len + 1]
    BY <1>3
  <2> HIDE DEF d, p, Half
  <2>4. d \div h = p /\ d % h = 0
    <3>1. 0 \in 0 .. (h - 1)
      BY <1>4
    <3> QED
      BY <1>4, <2>2, <3>1, Quotient
  <2>5. Size(Half(i)) = h
    BY <2>3 DEF Size, h
  <2>6. Half(i) \in Prefix
    <3>1. d \in 0 .. (2 ^ Bits - 1)
      BY <1>2, <1>8, <2>1, <1>3
    <3>2. prefix.len + 1 \in 0 .. Bits
      BY <1>1, <1>2
    <3> QED
      BY <2>3, <3>1, <3>2 DEF Prefix, Address
  <2>7. Trunc(Half(i)) = Half(i)
    BY <2>3, <2>4, <2>5, <2>6, TruncMeans
  <2> QED
    BY <2>3, <2>4, <2>5, <2>6, <2>7 DEF TruncPrefix, p
<1>10. ASSUME NEW half \in Halves(prefix)
       PROVE  half \in TruncPrefix /\ half.len = prefix.len + 1
  BY <1>7, <1>9
<1>11. ASSUME NEW ip \in Address, Contains(prefix, ip)
       PROVE  \E half \in Halves(prefix) : Contains(half, ip)
  <2> DEFINE v == ip \div h
             i == v % 2
             w == v \div 2
  <2>1. ip \in Nat /\ ip \div s = q
    BY <1>11 DEF Contains, Address, b, s, q
  <2>2. v \in Nat
    BY <1>4, <2>1, Divided
  <2>3. i \in {0, 1} /\ w \in Nat /\ v = w * 2 + i
    <3> HIDE DEF v
    <3>1. v % 2 \in 0 .. (2 - 1) /\ v \div 2 \in Nat /\ v = (v \div 2) * 2 + (v % 2)
      BY <2>2, Divided
    <3> QED
      BY <3>1
  <2>4. w = q
    <3> DEFINE r == ip % h
               x == w * 2 + i
               e == i * h + r
    <3>1. r \in 0 .. (h - 1) /\ ip = v * h + r
      BY <1>4, <2>1, Divided
    <3> HIDE DEF v, i, w, r
    <3>2. (w * 2 + i) * h = w * s + i * h
      BY <1>3, <1>4, <2>3
    <3>3. e \in 0 .. (s - 1)
      BY <1>3, <1>4, <2>3, <3>1
    <3>4. ip = w * s + e
      <4>1. i * h \in Nat /\ w * s \in Nat /\ v * h \in Nat
        BY <1>3, <1>4, <2>2, <2>3
      <4>2. v * h = w * s + i * h
        BY <2>3, <3>2
      <4> QED
        BY <3>1, <4>1, <4>2
    <3> HIDE DEF e
    <3>5. ip \div s = w
      <4>1. s \in Nat \ {0} /\ w \in Nat
        BY <1>3, <2>3
      <4> HIDE DEF s, h, b, q, x, Half
      <4> QED
        BY <4>1, <3>3, <3>4, Quotient
    <3> QED
      BY <2>1, <3>5
  <2> HIDE DEF v, i, w, Half
  <2>5. v = 2 * q + i
    BY <1>6, <2>3, <2>4
  <2>6. Contains(Half(i), ip)
    BY <1>9, <2>3, <2>5 DEF Contains, v
  <2> QED
    BY <1>7, <2>3, <2>6
<1> QED
  BY <1>10, <1>11

(***************************************************************************)
(* Of two prefixes with an address in common, the shorter one contains the *)
(* longer (IpNet::contains).                                               *)
(***************************************************************************)
LEMMA Nested ==
  ASSUME NEW wide \in Prefix, NEW part \in Prefix, wide.len <= part.len,
         NEW common \in Address, Contains(wide, common), Contains(part, common),
         NEW ip \in Address, Contains(part, ip)
  PROVE  Contains(wide, ip)
<1> DEFINE a == Bits - wide.len
           c == Bits - part.len
           s == 2 ^ c
<1>1. a \in Nat /\ c \in Nat /\ c <= a
  BY SizeAssumption DEF Prefix
<1>2. Size(wide) = 2 ^ a /\ Size(part) = s
  BY DEF Size
<1> HIDE DEF a, c
<1>3. s \in Nat \ {0}
  BY <1>1, PowerOfTwo
<1>4. PICK k \in Nat \ {0} : 2 ^ a = k * s
  BY <1>1, PowerDivides
<1> HIDE DEF s
<1>5. ip \in Nat /\ common \in Nat
  BY DEF Address
<1>6. ip \div s = common \div s
  BY <1>2 DEF Contains
<1>7. ip \div (k * s) = common \div (k * s)
  BY <1>3, <1>5, <1>6, Coarser
<1> QED
  BY <1>2, <1>4, <1>7 DEF Contains

-----------------------------------------------------------------------------
(* The descent of compute_destination_prefix.                              *)

Descend(g, flows, direction, prefix) ==
  LET dominant == DominantHalves(flows, direction, prefix)
  IN  IF dominant = {} THEN prefix ELSE g[CHOOSE half \in dominant : TRUE]

\* g descends from the prefixes in D.
Descends(g, flows, direction, D) ==
  g = [prefix \in D |-> Descend(g, flows, direction, prefix)]

\* The prefixes at most n bits short of an address.
Near(n) == {prefix \in TruncPrefix : Bits - prefix.len <= n}

\* The half the descent goes on with is nearer.
LEMMA Nearer ==
  ASSUME NEW n \in Nat, NEW prefix \in Near(n + 1), NEW flows, NEW direction,
         DominantHalves(flows, direction, prefix) # {},
         NEW half, half = (CHOOSE h \in DominantHalves(flows, direction, prefix) : TRUE)
  PROVE  /\ half \in Near(n) /\ half.len = prefix.len + 1
         /\ Dominates(flows, direction, half)
<1>1. prefix \in TruncPrefix /\ prefix.len \in 0 .. Bits /\ Bits \in Nat
  BY SizeAssumption DEF Near, TruncPrefix, Prefix
<1>2. prefix.len # Bits
  BY DEF DominantHalves
<1>3. half \in Halves(prefix) /\ Dominates(flows, direction, half)
  BY <1>2 DEF DominantHalves
<1>4. prefix.len < Bits
  BY <1>1, <1>2
<1>5. half \in TruncPrefix /\ half.len = prefix.len + 1
  BY <1>1, <1>3, <1>4, HalvesFacts
<1> QED
  BY <1>1, <1>3, <1>5 DEF Near

\* An address has no halves.
LEMMA NearestSettled ==
  ASSUME NEW prefix \in Near(0), NEW flows, NEW direction
  PROVE  DominantHalves(flows, direction, prefix) = {}
<1>1. prefix.len = Bits
  BY SizeAssumption DEF Near, TruncPrefix, Prefix
<1> QED
  BY <1>1 DEF DominantHalves

\* No prefix is further from an address than its length.
LEMMA NearAll == Near(Bits) = TruncPrefix
BY SizeAssumption DEF Near, TruncPrefix, Prefix

\* The descent ends: there is such a function.
LEMMA DescentExists ==
  ASSUME NEW flows, NEW direction
  PROVE  \E g : Descends(g, flows, direction, TruncPrefix)
<1> DEFINE Step(g, prefix) == Descend(g, flows, direction, prefix)
           Fits(g, n) == Descends(g, flows, direction, Near(n))
           Q == {n \in Nat : \E g : Fits(g, n)}
<1>1. 0 \in Q
  <2> DEFINE g == [prefix \in Near(0) |-> prefix]
  <2>1. \A prefix \in Near(0) : Step(g, prefix) = prefix
    BY NearestSettled DEF Descend
  <2>2. g = [prefix \in Near(0) |-> Step(g, prefix)]
    <3> HIDE DEF Step
    <3> QED
      BY <2>1
  <2>3. Fits(g, 0)
    BY <2>2 DEF Descends
  <2> QED
    BY <2>3
<1>2. ASSUME NEW n \in Nat, n \in Q PROVE n + 1 \in Q
  <2>1. PICK g : Fits(g, n)
    BY <1>2
  <2> DEFINE h == [prefix \in Near(n + 1) |-> Step(g, prefix)]
  <2>2. ASSUME NEW prefix \in Near(n + 1)
        PROVE  Step(g, prefix) = Step(h, prefix)
    <3>1. CASE DominantHalves(flows, direction, prefix) = {}
      BY <3>1 DEF Descend
    <3>2. CASE DominantHalves(flows, direction, prefix) # {}
      <4> DEFINE half == CHOOSE h1 \in DominantHalves(flows, direction, prefix) : TRUE
      <4>1. half \in Near(n)
        BY <3>2, Nearer
      <4>2. half \in Near(n + 1)
        BY <4>1, SizeAssumption DEF Near, TruncPrefix, Prefix
      <4>3. Step(g, prefix) = g[half] /\ Step(h, prefix) = h[half]
        BY <3>2 DEF Descend
      <4> HIDE DEF half
      <4>4. g[half] = Step(g, half)
        BY <2>1, <4>1 DEF Descends
      <4>5. h[half] = Step(g, half)
        BY <4>2
      <4> QED
        BY <4>3, <4>4, <4>5
    <3> QED
      BY <3>1, <3>2
  <2>3. h = [prefix \in Near(n + 1) |-> Step(h, prefix)]
    <3> HIDE DEF Step
    <3> QED
      BY <2>2
  <2>4. Fits(h, n + 1)
    <3> HIDE DEF h
    <3> QED
      BY <2>3 DEF Descends
  <2> HIDE DEF h, Fits
  <2> QED
    BY <2>4
<1>3. Nat \subseteq Q
  <2> HIDE DEF Q
  <2> QED
    BY <1>1, <1>2, Induct
<1>4. Bits \in Q
  BY <1>3, SizeAssumption
<1> QED
  BY <1>4, NearAll

\* Where no half dominates.
Settled(flows, direction, prefix) ==
  prefix \in TruncPrefix /\ DominantHalves(flows, direction, prefix) = {}

(***************************************************************************)
(* The descent comes to a prefix at least as long, which dominates if the  *)
(* first one does, and none of whose halves does.                          *)
(***************************************************************************)
LEMMA DescentSettles ==
  ASSUME NEW flows, NEW direction, NEW g, Descends(g, flows, direction, TruncPrefix),
         NEW prefix \in TruncPrefix
  PROVE  /\ Settled(flows, direction, g[prefix]) /\ g[prefix].len >= prefix.len
         /\ Dominates(flows, direction, prefix) => Dominates(flows, direction, g[prefix])
<1> DEFINE Ends(p) ==
             /\ Settled(flows, direction, g[p]) /\ g[p].len >= p.len
             /\ Dominates(flows, direction, p) => Dominates(flows, direction, g[p])
           Q == {n \in Nat : \A p \in Near(n) : Ends(p)}
<1>1. ASSUME NEW p \in TruncPrefix
      PROVE  g[p] = Descend(g, flows, direction, p) /\ p.len \in 0 .. Bits
  BY DEF Descends, TruncPrefix, Prefix
<1>2. ASSUME NEW p \in TruncPrefix, DominantHalves(flows, direction, p) = {}
      PROVE  Ends(p)
  <2>1. g[p] = p /\ p.len \in Int
    BY <1>1, <1>2 DEF Descend
  <2> QED
    BY <1>2, <2>1 DEF Settled
<1>3. 0 \in Q
  <2> SUFFICES ASSUME NEW p \in Near(0) PROVE Ends(p)
    OBVIOUS
  <2>1. p \in TruncPrefix /\ DominantHalves(flows, direction, p) = {}
    BY NearestSettled DEF Near
  <2> HIDE DEF Ends
  <2> QED
    BY <1>2, <2>1
<1>4. ASSUME NEW n \in Nat, n \in Q PROVE n + 1 \in Q
  <2> SUFFICES ASSUME NEW p \in Near(n + 1) PROVE Ends(p)
    OBVIOUS
  <2>1. p \in TruncPrefix
    BY DEF Near
  <2>2. CASE DominantHalves(flows, direction, p) # {}
    <3> DEFINE half == CHOOSE h \in DominantHalves(flows, direction, p) : TRUE
    <3>1. /\ half \in Near(n) /\ half.len = p.len + 1
          /\ Dominates(flows, direction, half)
      BY <2>2, Nearer
    <3>2. g[p] = g[half]
      BY <1>1, <2>1, <2>2 DEF Descend
    <3> HIDE DEF half
    <3>3. Ends(half)
      BY <1>4, <3>1
    <3>4. g[half].len \in Int /\ p.len \in Int
      BY <1>1, <2>1, <3>3 DEF Settled, TruncPrefix, Prefix
    <3> QED
      BY <3>1, <3>2, <3>3, <3>4
  <2> HIDE DEF Ends
  <2> QED
    BY <1>2, <2>1, <2>2
<1>5. Bits \in Q
  <2> HIDE DEF Q
  <2>1. Nat \subseteq Q
    BY <1>3, <1>4, Induct
  <2> QED
    BY <2>1, SizeAssumption
<1> QED
  BY <1>5, NearAll

(***************************************************************************)
(* What a captured flow has of the prefix: its local address.              *)
(***************************************************************************)
LEMMA CapturedFacts ==
  ASSUME NEW in \in Inputs, NEW flows \in SUBSET Filtered(in)
  PROVE  /\ in \in Input /\ in.dest_prefix \in Prefix /\ Counted(flows)
         /\ \A flow \in flows :
              /\ flow \in Traffic /\ flow \in FlowRecord(Address)
              /\ LocalAddress(flow, in.direction) \in Address
              /\ Contains(in.dest_prefix, LocalAddress(flow, in.direction))
<1>1. in \in Input /\ IsFiniteSet(in.flows) /\ flows \subseteq in.flows
  BY InputsAssumption DEF Filtered
<1>2. in.flows \subseteq Traffic /\ in.dest_prefix \in Prefix
  BY <1>1 DEF Input
<1>3. Counted(flows)
  BY <1>1, <1>2, FS_Subset DEF Counted
<1>4. ASSUME NEW flow \in flows
      PROVE  /\ flow \in Traffic /\ flow \in FlowRecord(Address)
             /\ LocalAddress(flow, in.direction) \in Address
             /\ Contains(in.dest_prefix, LocalAddress(flow, in.direction))
  <2>1. flow \in Traffic /\ flow \in FlowRecord(Address)
    BY <1>1, <1>2, TrafficAssumption
  <2> QED
    BY <1>1, <2>1, CrossingAssumption DEF LocalAddress, FlowRecord
<1> QED
  BY <1>1, <1>2, <1>3, <1>4

(***************************************************************************)
(* compute_destination_prefix: the whole prefix for flows of no volume,    *)
(* otherwise a part of it that dominates and has no half that does.        *)
(***************************************************************************)
LEMMA Narrows ==
  ASSUME NEW in \in Inputs, NEW flows \in SUBSET Filtered(in)
  PROVE  LET narrowed == ComputeDestinationPrefix(flows, in.direction, in.dest_prefix)
         IN  /\ narrowed \in Prefix
             /\ SumBytes(flows) = 0 => narrowed = in.dest_prefix
             /\ SumBytes(flows) # 0 =>
                  /\ Settled(flows, in.direction, narrowed)
                  /\ narrowed.len >= in.dest_prefix.len
                  /\ Dominates(flows, in.direction, narrowed)
<1> DEFINE dir    == in.direction
           prefix == in.dest_prefix
           own    == CHOOSE g : Descends(g, flows, dir, TruncPrefix)
           narrowed == ComputeDestinationPrefix(flows, dir, prefix)
<1>1. prefix \in Prefix
  BY CapturedFacts
<1>2. narrowed = IF SumBytes(flows) = 0 THEN prefix ELSE own[Trunc(prefix)]
  BY DEF ComputeDestinationPrefix, Descends, Descend
<1>3. Descends(own, flows, dir, TruncPrefix)
  BY DescentExists
<1>4. /\ Trunc(prefix) \in TruncPrefix /\ Trunc(prefix).len = prefix.len
      /\ \A ip : Contains(Trunc(prefix), ip) <=> Contains(prefix, ip)
  BY <1>1, TruncFacts
<1>5. Dominates(flows, dir, Trunc(prefix))
  <2>1. {flow \in flows : Contains(Trunc(prefix), LocalAddress(flow, dir))} = flows
    BY <1>4, CapturedFacts
  <2>2. BytesWithin(flows, dir, Trunc(prefix)) = SumBytes(flows)
    BY <2>1 DEF BytesWithin
  <2>3. SumBytes(flows) \in Nat
    BY CapturedFacts, BytesType
  <2> QED
    BY <2>2, <2>3 DEF Dominates
<1> HIDE DEF own
<1>6. /\ Settled(flows, dir, own[Trunc(prefix)])
      /\ own[Trunc(prefix)].len >= prefix.len
      /\ Dominates(flows, dir, own[Trunc(prefix)])
  BY <1>3, <1>4, <1>5, DescentSettles
<1> HIDE DEF narrowed
<1>7. narrowed \in Prefix
  BY <1>1, <1>2, <1>6 DEF Settled, TruncPrefix
<1> QED
  BY <1>2, <1>6, <1>7 DEF narrowed

(***************************************************************************)
(* The part of a set of flows within a prefix.                             *)
(***************************************************************************)
Within(flows, direction, prefix) ==
  {flow \in flows : Contains(prefix, LocalAddress(flow, direction))}

(***************************************************************************)
(* No longer prefix, wherever it is, carries four fifths                   *)
(* (compute_destination_prefix).                                           *)
(***************************************************************************)
LEMMA NoLongerDominates ==
  ASSUME NEW in \in Inputs, NEW flows \in SUBSET Filtered(in), SumBytes(flows) # 0,
         NEW narrowed, Settled(flows, in.direction, narrowed),
         Dominates(flows, in.direction, narrowed),
         NEW part \in Prefix, Dominates(flows, in.direction, part)
  PROVE  part.len <= narrowed.len
<1> DEFINE dir    == in.direction
           W(p)   == Within(flows, dir, p)
           all    == SumBytes(flows)
<1>1. /\ Counted(flows)
      /\ \A flow \in flows : LocalAddress(flow, dir) \in Address
  BY CapturedFacts
<1>2. all \in Nat /\ all > 0
  BY <1>1, BytesType
<1>3. \A p : /\ W(p) \in SUBSET flows
             /\ BytesWithin(flows, dir, p) = SumBytes(W(p))
             /\ SumBytes(W(p)) \in Nat
  <2> SUFFICES ASSUME NEW p
               PROVE  /\ W(p) \in SUBSET flows
                      /\ BytesWithin(flows, dir, p) = SumBytes(W(p))
                      /\ SumBytes(W(p)) \in Nat
    OBVIOUS
  <2>1. W(p) \in SUBSET flows
    BY DEF Within
  <2>2. Counted(W(p))
    BY <1>1, <2>1, BytesSplit
  <2> QED
    BY <2>1, <2>2, BytesType DEF BytesWithin, Within
<1>4. 10 * SumBytes(W(narrowed)) >= 8 * all /\ 10 * SumBytes(W(part)) >= 8 * all
  BY <1>3 DEF Dominates
<1>5. narrowed \in TruncPrefix /\ narrowed \in Prefix /\ narrowed.len \in 0 .. Bits
      /\ part.len \in 0 .. Bits /\ Bits \in Nat
  BY SizeAssumption DEF Settled, TruncPrefix, Prefix
<1> SUFFICES ASSUME part.len > narrowed.len PROVE FALSE
  BY <1>5
<1>6. PICK flow \in flows : flow \in W(narrowed) /\ flow \in W(part)
  <2> SUFFICES ASSUME \A flow \in flows : ~(flow \in W(narrowed) /\ flow \in W(part))
               PROVE  FALSE
    OBVIOUS
  <2>1. W(part) \in SUBSET (flows \ W(narrowed))
    BY <1>3
  <2> HIDE DEF W
  <2>2. Counted(flows \ W(narrowed))
        /\ all = SumBytes(W(narrowed)) + SumBytes(flows \ W(narrowed))
    BY <1>1, <1>3, BytesSplit
  <2>3. SumBytes(W(part)) <= SumBytes(flows \ W(narrowed))
    BY <2>1, <2>2, BytesGrow
  <2>4. SumBytes(flows \ W(narrowed)) \in Nat
    BY <2>2, BytesType
  <2> QED
    BY <1>2, <1>3, <1>4, <2>2, <2>3, <2>4
<1> DEFINE ip == LocalAddress(flow, dir)
<1>7. ip \in Address /\ Contains(narrowed, ip) /\ Contains(part, ip)
  BY <1>1, <1>6 DEF Within
<1>8. narrowed.len < Bits
  BY <1>5
<1>9. PICK half \in Halves(narrowed) :
        /\ Contains(half, ip) /\ half \in TruncPrefix /\ half.len = narrowed.len + 1
  <2> HIDE DEF ip
  <2> QED
    BY <1>5, <1>7, <1>8, HalvesFacts
<1>10. W(part) \in SUBSET W(half)
  <2> SUFFICES ASSUME NEW other \in flows, Contains(part, LocalAddress(other, dir))
               PROVE  Contains(half, LocalAddress(other, dir))
    BY DEF Within
  <2>1. half \in Prefix /\ half.len <= part.len
    BY <1>5, <1>9 DEF TruncPrefix
  <2>2. LocalAddress(other, dir) \in Address
    BY <1>1
  <2> HIDE DEF ip
  <2> QED
    BY <1>7, <1>9, <2>1, <2>2, Nested
<1>11. SumBytes(W(part)) <= SumBytes(W(half))
  <2> HIDE DEF W
  <2>1. Counted(W(half))
    BY <1>1, <1>3, BytesSplit
  <2> QED
    BY <1>10, <2>1, BytesGrow
<1>12. Dominates(flows, dir, half)
  <2> HIDE DEF W
  <2> QED
    BY <1>2, <1>3, <1>4, <1>11 DEF Dominates
<1>13. half \in DominantHalves(flows, dir, narrowed)
  BY <1>5, <1>8, <1>9, <1>12 DEF DominantHalves
<1> QED
  BY <1>13 DEF Settled

(***************************************************************************)
(* A prefix that dominates lies within the prefix of the alert if it is no *)
(* shorter (compute_destination_prefix).                                   *)
(***************************************************************************)
LEMMA DominantIsPart ==
  ASSUME NEW in \in Inputs, NEW flows \in SUBSET Filtered(in), SumBytes(flows) # 0,
         NEW part \in Prefix, part.len >= in.dest_prefix.len,
         Dominates(flows, in.direction, part)
  PROVE  Contains(in.dest_prefix, part.base)
<1> DEFINE dir == in.direction
           W   == Within(flows, dir, part)
<1>1. /\ Counted(flows) /\ in.dest_prefix \in Prefix
      /\ \A flow \in flows :
           /\ LocalAddress(flow, dir) \in Address
           /\ Contains(in.dest_prefix, LocalAddress(flow, dir))
  BY CapturedFacts
<1>2. SumBytes(flows) \in Nat /\ SumBytes(flows) > 0
  BY <1>1, BytesType
<1>3. 10 * SumBytes(W) >= 8 * SumBytes(flows)
  BY DEF Dominates, BytesWithin, Within
<1>4. W # {}
  <2> HIDE DEF W
  <2> SUFFICES ASSUME W = {} PROVE FALSE
    OBVIOUS
  <2>1. SumBytes(W) = 0
    BY BytesOfNone
  <2> QED
    BY <1>2, <1>3, <2>1
<1>5. PICK flow \in flows : Contains(part, LocalAddress(flow, dir))
  BY <1>4 DEF Within
<1>6. part.base \in Address /\ Contains(part, part.base)
  BY DEF Prefix, Contains
<1>7. in.dest_prefix.len <= part.len
  BY <1>1 DEF Prefix
<1> HIDE DEF dir
<1> QED
  BY <1>1, <1>5, <1>6, <1>7, Nested DEF dir

\* What the invariant says of one rule.
LEMMA EntryFacts ==
  ASSUME MitigationInv, NEW i \in DOMAIN basis
  PROVE  /\ input \in Inputs /\ input \in Input /\ i \in DOMAIN rules
         /\ basis[i].flows \in SUBSET Filtered(input)
         /\ basis[i].pattern \in Patterns(input, basis[i].flows)
         /\ rules[i] = RuleFor(input, basis[i].pattern, basis[i].flows)
<1>1. input \in Inputs /\ input \in Input /\ i \in DOMAIN rules
  BY InputsAssumption DEF MitigationInv
<1>2. basis[i] \in Entry(input) /\ rules[i] = MadeFrom(input, basis[i])
  BY <1>1 DEF MitigationInv
<1>3. PICK flows \in SUBSET Filtered(input) :
        basis[i] \in [pattern : Patterns(input, flows), flows : {flows}]
  BY <1>2 DEF Entry
<1> QED
  BY <1>1, <1>2, <1>3 DEF MadeFrom

(***************************************************************************)
(* A rule has the narrowest dominant part of the prefix: the property      *)
(* NarrowestDominant, for addresses of any length.                         *)
(***************************************************************************)
THEOREM NarrowedToDominant == Spec => []NarrowestDominant
<1>1. MitigationInv => NarrowestDominant
  <2> SUFFICES ASSUME MitigationInv, NEW i \in DOMAIN basis,
                      SumBytes(basis[i].flows) > 0
               PROVE  LET flows    == basis[i].flows
                          dominant == {part \in PartsOf(input.dest_prefix) :
                            5 * BytesWithin(flows, input.direction, part) >= 4 * SumBytes(flows)}
                      IN  /\ NarrowedPrefix(i) \in dominant
                          /\ \A part \in dominant : part.len <= NarrowedPrefix(i).len
    BY DEF NarrowestDominant
  <2> DEFINE flows    == basis[i].flows
             dir      == input.direction
             prefix   == input.dest_prefix
             narrowed == ComputeDestinationPrefix(flows, dir, prefix)
  <2>1. /\ input \in Inputs /\ input \in Input
        /\ flows \in SUBSET Filtered(input)
        /\ rules[i] = RuleFor(input, basis[i].pattern, flows)
    BY EntryFacts
  <2>2. Counted(flows) /\ SumBytes(flows) \in Nat
    BY <2>1, CapturedFacts, BytesType
  <2>3. NarrowedPrefix(i) = narrowed
    <3>1. CASE dir = "inbound"
      BY <2>1, <3>1 DEF NarrowedPrefix, RuleFor
    <3>2. CASE dir # "inbound"
      <4>1. rules[i].source_prefix = {narrowed}
        BY <2>1, <3>2 DEF RuleFor
      <4> HIDE DEF narrowed
      <4> QED
        BY <3>2, <4>1 DEF NarrowedPrefix
    <3> QED
      BY <3>1, <3>2
  <2>4. ASSUME NEW part \in Prefix
        PROVE  /\ BytesWithin(flows, dir, part) \in Nat
               /\ Dominates(flows, dir, part)
                    <=> 5 * BytesWithin(flows, dir, part) >= 4 * SumBytes(flows)
    <3> DEFINE W == Within(flows, dir, part)
    <3>1. W \in SUBSET flows
      BY DEF Within
    <3>2. Counted(W)
      BY <2>2, <3>1, BytesSplit
    <3>3. BytesWithin(flows, dir, part) = SumBytes(W)
      BY DEF BytesWithin, Within
    <3>4. BytesWithin(flows, dir, part) \in Nat
      BY <3>2, <3>3, BytesType
    <3> QED
      BY <2>2, <3>4 DEF Dominates
  <2>5. /\ Settled(flows, dir, narrowed) /\ narrowed \in Prefix
        /\ narrowed.len >= prefix.len /\ Dominates(flows, dir, narrowed)
    BY <2>1, <2>2, Narrows
  <2> HIDE DEF narrowed
  <2>6. narrowed \in PartsOf(prefix)
    <3>1. narrowed \in TruncPrefix
      BY <2>5 DEF Settled
    <3>2. Contains(prefix, narrowed.base)
      BY <2>1, <2>2, <2>5, DominantIsPart
    <3> QED
      BY <2>5, <3>1, <3>2 DEF PartsOf
  <2>7. ASSUME NEW part \in PartsOf(prefix), Dominates(flows, dir, part)
        PROVE  part.len <= narrowed.len
    <3>1. part \in Prefix
      BY DEF PartsOf, TruncPrefix
    <3> QED
      BY <2>1, <2>2, <2>5, <2>7, <3>1, NoLongerDominates
  <2>8. \A part \in PartsOf(prefix) : part \in Prefix
    BY DEF PartsOf, TruncPrefix
  <2> QED
    BY <2>3, <2>4, <2>5, <2>6, <2>7, <2>8
<1> QED
  BY <1>1, MitigationInvariance, PTL

(***************************************************************************)
(* A flow of the category that matches the pattern of an inbound rule and  *)
(* lies in the narrowed prefix is dropped by the rule, ICMPv6 excepted     *)
(* (analyze_flows, one iteration).                                         *)
(***************************************************************************)
LEMMA MatchingIsDropped ==
  ASSUME NEW in \in Inputs, in.direction = "inbound", NEW pattern, NEW flows,
         NEW flow \in Filtered(in), flow.protocol # 58, Matches(pattern, flow),
         Contains(ComputeDestinationPrefix(flows, in.direction, in.dest_prefix),
                  flow.dst_ip)
  PROVE  RuleMatches(RuleFor(in, pattern, flows), flow)
<1> DEFINE category == in.protocol_filter
           rule     == RuleFor(in, pattern, flows)
           narrowed == ComputeDestinationPrefix(flows, in.direction, in.dest_prefix)
<1>1. /\ rule.source_prefix = {Host(ip) : ip \in Value(pattern, "src_ip")}
      /\ rule.destination_prefix = narrowed
      /\ rule.destination_ports = FirstOf(Value(pattern, "dst_port"), ForcedDstPort(category))
      /\ rule.source_ports = Value(pattern, "src_port")
      /\ rule.protocols = FirstOf(Value(pattern, "protocol"), ForcedProtocol(category))
      /\ rule.tcp_flags = RuleFlags(pattern, category)
  BY DEF RuleFor
<1>2. category \in ProtocolCategory /\ category \in Classify(flow)
  BY InputsAssumption DEF Input, Filtered
<1>3. /\ ForcedProtocol(category) # {} => flow.protocol \in ForcedProtocol(category)
      /\ ForcedDstPort(category) # {} => flow.dst_port \in ForcedDstPort(category)
      /\ category = "tcp_syn" => "syn" \in flow.tcp_flags
  BY <1>2 DEF ForcedProtocol, ProtoNumber, ForcedDstPort, Classify, ProtocolCategory
<1>4. \A f \in {"src_ip", "dst_port", "src_port", "protocol"} :
        Value(pattern, f) # {} => Value(pattern, f) = {flow[f]}
  BY DEF Matches, Value
<1>5. UNION Value(pattern, "tcp_flags") \subseteq flow.tcp_flags
  BY DEF Matches, Value
<1>6. RuleFlags(pattern, category) \subseteq flow.tcp_flags
  BY <1>3, <1>5 DEF RuleFlags, TcpFlagNames
<1>7. \A prefix \in rule.source_prefix : Contains(prefix, flow.src_ip)
  <2> SUFFICES ASSUME NEW ip \in Value(pattern, "src_ip")
               PROVE  Contains(Host(ip), flow.src_ip)
    BY <1>1
  <2>1. ip = flow.src_ip
    BY <1>4
  <2> QED
    BY <2>1 DEF Contains, Host
<1>8. /\ rule.destination_ports # {} => flow.dst_port \in rule.destination_ports
      /\ rule.source_ports # {} => flow.src_port \in rule.source_ports
      /\ rule.protocols # {} => flow.protocol \in rule.protocols
  BY <1>1, <1>3, <1>4 DEF FirstOf
<1> HIDE DEF rule, narrowed
<1>9. RuleMatches(rule, flow)
  BY <1>1, <1>6, <1>7, <1>8 DEF RuleMatches, narrowed
<1> QED
  BY <1>9 DEF rule

(***************************************************************************)
(* What a rule was made for and lets through is at most a fifth of what    *)
(* remained: the property EscapesBounded, for all inbound traffic.         *)
(***************************************************************************)
THEOREM EscapesAFifth == Spec => []EscapesBounded
<1>1. MitigationInv => EscapesBounded
  <2> DEFINE Escaped(i) == {flow \in basis[i].flows :
                 Matches(basis[i].pattern, flow) /\ ~RuleMatches(rules[i], flow)}
  <2> SUFFICES ASSUME MitigationInv, NEW i \in DOMAIN basis, input.direction = "inbound",
                      \A flow \in basis[i].flows : flow.protocol # 58
               PROVE  5 * SumBytes(Escaped(i)) <= SumBytes(basis[i].flows)
    BY DEF EscapesBounded
  <2> DEFINE flows    == basis[i].flows
             escaped  == Escaped(i)
             narrowed == ComputeDestinationPrefix(flows, input.direction, input.dest_prefix)
             inside   == Within(flows, input.direction, narrowed)
  <2>1. /\ input \in Inputs /\ flows \in SUBSET Filtered(input)
        /\ rules[i] = RuleFor(input, basis[i].pattern, flows)
    BY EntryFacts
  <2>2. Counted(flows) /\ SumBytes(flows) \in Nat
    BY <2>1, CapturedFacts, BytesType
  <2>3. escaped \in SUBSET (flows \ inside)
    <3> SUFFICES ASSUME NEW flow \in escaped, flow \in inside PROVE FALSE
      OBVIOUS
    <3>1. /\ flow \in Filtered(input) /\ flow.protocol # 58
          /\ Matches(basis[i].pattern, flow) /\ ~RuleMatches(rules[i], flow)
      BY <2>1
    <3>2. Contains(narrowed, flow.dst_ip)
      BY DEF Within, LocalAddress
    <3> QED
      BY <2>1, <3>1, <3>2, MatchingIsDropped
  <2>4. inside \in SUBSET flows
    BY DEF Within
  <2>5. SumBytes(flows) # 0 => 10 * SumBytes(inside) >= 8 * SumBytes(flows)
    <3>1. SumBytes(flows) # 0 => Dominates(flows, input.direction, narrowed)
      BY <2>1, Narrows
    <3> QED
      BY <3>1 DEF Dominates, BytesWithin, Within
  <2> HIDE DEF escaped, inside, flows, Escaped
  <2>6. /\ Counted(inside) /\ Counted(flows \ inside)
        /\ SumBytes(flows) = SumBytes(inside) + SumBytes(flows \ inside)
    BY <2>2, <2>4, BytesSplit
  <2>7. /\ SumBytes(escaped) <= SumBytes(flows \ inside)
        /\ Counted(escaped)
    BY <2>3, <2>6, BytesGrow, BytesSplit
  <2>8. /\ SumBytes(inside) \in Nat /\ SumBytes(flows \ inside) \in Nat
        /\ SumBytes(escaped) \in Nat
    BY <2>6, <2>7, BytesType
  <2>9. 5 * SumBytes(escaped) <= SumBytes(flows)
    BY <2>2, <2>5, <2>6, <2>7, <2>8
  <2> QED
    BY <2>9 DEF escaped, flows
<1> QED
  BY <1>1, MitigationInvariance, PTL

-----------------------------------------------------------------------------
(* What a rule holds.                                                      *)

(***************************************************************************)
(* The rule of a pattern that suits the alert is well formed               *)
(* (analyze_flows, one iteration).                                         *)
(***************************************************************************)
LEMMA RuleTyped ==
  ASSUME NEW in \in Inputs, NEW flows \in SUBSET Filtered(in),
         NEW pattern, Suits(in, pattern)
  PROVE  RuleFor(in, pattern, flows) \in Rule
<1> DEFINE category == in.protocol_filter
           narrowed == ComputeDestinationPrefix(flows, in.direction, in.dest_prefix)
           source   == {Host(ip) : ip \in Value(pattern, "src_ip")}
           rule     == RuleFor(in, pattern, flows)
<1>1. in.dest_prefix \in Prefix /\ narrowed \in Prefix
  BY CapturedFacts, Narrows
<1>2. ASSUME NEW f, NEW v \in Value(pattern, f)
      PROVE  \E flow \in FlowRecord(Address) : f \in Field /\ v = flow[f]
  <2>1. f \in DOMAIN pattern /\ v = pattern[f]
    BY DEF Value
  <2>2. PICK flow \in Filtered(in) : pattern[f] = flow[f]
    BY <2>1 DEF Suits
  <2>3. flow \in FlowRecord(Address)
    BY CapturedFacts
  <2>4. f \in Field
    BY <2>1 DEF Suits
  <2> QED
    BY <2>1, <2>2, <2>3, <2>4
<1>3. /\ Value(pattern, "src_ip") \subseteq Address
      /\ Value(pattern, "dst_port") \subseteq Nat
      /\ Value(pattern, "src_port") \subseteq Nat
      /\ Value(pattern, "protocol") \subseteq Nat
      /\ UNION Value(pattern, "tcp_flags") \subseteq TcpFlag
  BY <1>2 DEF FlowRecord
<1>4. source \subseteq Prefix
  <2> SUFFICES ASSUME NEW ip \in Address PROVE Host(ip) \in Prefix
    BY <1>3
  <2> QED
    BY SizeAssumption DEF Host, Prefix
<1>5. UnwrapOr(source, in.dest_prefix) \in Prefix
  <2> HIDE DEF source
  <2> QED
    BY <1>1, <1>4 DEF UnwrapOr
<1>6. ForcedDstPort(category) \subseteq Nat /\ ForcedProtocol(category) \subseteq Nat
  <2>1. category \in ProtocolCategory
    BY InputsAssumption DEF Input
  <2> QED
    BY <2>1 DEF ForcedDstPort, ForcedProtocol, ProtoNumber, ProtocolCategory
<1>7. RuleFlags(pattern, category) \subseteq TcpFlag
  BY <1>3 DEF RuleFlags, TcpFlagNames, TcpFlag
<1>8. /\ FirstOf(Value(pattern, "dst_port"), ForcedDstPort(category)) \subseteq Nat
      /\ FirstOf(Value(pattern, "protocol"), ForcedProtocol(category)) \subseteq Nat
  BY <1>3, <1>6 DEF FirstOf
<1> DEFINE from == IF in.direction = "inbound" THEN source ELSE {narrowed}
           to   == IF in.direction = "inbound"
                   THEN narrowed ELSE UnwrapOr(source, in.dest_prefix)
<1>9. from \subseteq Prefix /\ to \in Prefix
  <2> HIDE DEF source, narrowed
  <2> QED
    BY <1>1, <1>4, <1>5
<1>10. rule = [source_prefix      |-> from,
               destination_prefix |-> to,
               destination_ports  |-> FirstOf(Value(pattern, "dst_port"), ForcedDstPort(category)),
               source_ports       |-> Value(pattern, "src_port"),
               protocols          |-> FirstOf(Value(pattern, "protocol"), ForcedProtocol(category)),
               tcp_flags          |-> RuleFlags(pattern, category)]
  BY DEF RuleFor
<1> HIDE DEF from, to, rule
<1>11. rule \in Rule
  BY <1>3, <1>7, <1>8, <1>9, <1>10 DEF Rule
<1> QED
  BY <1>11 DEF rule

(***************************************************************************)
(* Type correctness of the analysis: well-formed rules, and never more of  *)
(* them than MAX_RULES.                                                    *)
(***************************************************************************)
THEOREM TypeCorrect == Spec => []TypeOK
<1>1. MitigationInv => TypeOK
  <2> SUFFICES ASSUME MitigationInv PROVE TypeOK
    OBVIOUS
  <2>1. input \in Inputs /\ input \in Input /\ Filtered(input) \subseteq input.flows
    BY InputsAssumption DEF MitigationInv, Filtered
  <2>2. {MadeFrom(input, entry) : entry \in Entry(input)} \subseteq Rule
    <3> SUFFICES ASSUME NEW entry \in Entry(input) PROVE MadeFrom(input, entry) \in Rule
      OBVIOUS
    <3>1. Suits(input, entry.pattern)
      BY <2>1, EntriesSuit
    <3>2. entry.flows \in SUBSET Filtered(input)
      BY DEF Entry
    <3> QED
      BY <2>1, <3>1, <3>2, RuleTyped DEF MadeFrom
  <2>3. rules \in Seq(Rule)
    <3> DEFINE Made == {MadeFrom(input, entry) : entry \in Entry(input)}
    <3>1. rules \in Seq(Made) /\ Made \subseteq Rule
      BY <2>2 DEF MitigationInv
    <3> HIDE DEF Made
    <3> QED
      BY <3>1
  <2>4. /\ remaining \subseteq input.flows /\ Len(rules) <= MaxRules
        /\ Len(basis) = Len(rules)
    BY <2>1 DEF MitigationInv
  <2>5. done \in BOOLEAN
    BY DEF MitigationInv
  <2> QED
    BY <2>1, <2>3, <2>4, <2>5 DEF TypeOK
<1> QED
  BY <1>1, MitigationInvariance, PTL

-----------------------------------------------------------------------------
(* The search for the best pattern.                                        *)

\* A bounded set of numbers has a greatest.
LEMMA Greatest ==
  ASSUME NEW S, S # {}, S \subseteq Nat, NEW bound \in Nat, \A x \in S : x <= bound
  PROVE  Max(S) \in S /\ \A x \in S : x <= Max(S)
<1> DEFINE Q == {n \in Nat : (\E x \in S : x >= bound - n) => \E m \in S : \A x \in S : x <= m}
<1>1. 0 \in Q
  <2> SUFFICES ASSUME NEW m \in S, m >= bound PROVE \A x \in S : x <= m
    OBVIOUS
  <2> QED
    OBVIOUS
<1>2. ASSUME NEW n \in Nat, n \in Q PROVE n + 1 \in Q
  <2> SUFFICES ASSUME NEW m \in S, m >= bound - (n + 1)
               PROVE  \E y \in S : \A x \in S : x <= y
    OBVIOUS
  <2>1. CASE \E x \in S : x >= bound - n
    BY <1>2, <2>1
  <2>2. CASE ~ \E x \in S : x >= bound - n
    <3>1. \A x \in S : x <= m
      BY <2>2
    <3> QED
      BY <3>1
  <2> QED
    BY <2>1, <2>2
<1>3. bound \in Q
  <2> HIDE DEF Q
  <2>1. Nat \subseteq Q
    BY <1>1, <1>2, Induct
  <2> QED
    BY <2>1
<1>4. \E x \in S : x >= bound - bound
  <2>1. PICK x \in S : x \in Nat
    OBVIOUS
  <2>2. x >= bound - bound
    BY <2>1
  <2> QED
    BY <2>2
<1>5. PICK m \in S : \A x \in S : x <= m
  BY <1>3, <1>4
<1>6. \A x \in S : m >= x
  BY <1>5
<1> DEFINE top == CHOOSE m1 \in S : \A x \in S : m1 >= x
<1>7. top \in S /\ \A x \in S : top >= x
  BY <1>6
<1>8. Max(S) = top
  BY DEF Max
<1> QED
  BY <1>7, <1>8

\* A pattern has at most five fields (FieldSet).
LEMMA FieldCount ==
  ASSUME NEW fields \in SUBSET Field
  PROVE  IsFiniteSet(fields) /\ Cardinality(fields) \in 0 .. 5
<1>1. IsFiniteSet({}) /\ Cardinality({}) = 0
  BY FS_EmptySet
<1> DEFINE F1 == {} \cup {"src_ip"}
           F2 == F1 \cup {"dst_port"}
           F3 == F2 \cup {"src_port"}
           F4 == F3 \cup {"protocol"}
           F5 == F4 \cup {"tcp_flags"}
<1>2. IsFiniteSet(F1) /\ Cardinality(F1) \in 0 .. 1
  BY <1>1, FS_AddElement
<1>3. IsFiniteSet(F2) /\ Cardinality(F2) \in 0 .. 2
  <2> HIDE DEF F1
  <2> QED
    BY <1>2, FS_AddElement
<1>4. IsFiniteSet(F3) /\ Cardinality(F3) \in 0 .. 3
  <2> HIDE DEF F2
  <2> QED
    BY <1>3, FS_AddElement
<1>5. IsFiniteSet(F4) /\ Cardinality(F4) \in 0 .. 4
  <2> HIDE DEF F3
  <2> QED
    BY <1>4, FS_AddElement
<1>6. IsFiniteSet(F5) /\ Cardinality(F5) \in 0 .. 5
  <2> HIDE DEF F4
  <2> QED
    BY <1>5, FS_AddElement
<1>7. Field = F5
  BY DEF Field
<1> HIDE DEF F5
<1>8. IsFiniteSet(fields) /\ Cardinality(fields) <= Cardinality(Field)
  BY <1>6, <1>7, FS_Subset
<1> QED
  BY <1>6, <1>7, <1>8, FS_CardinalityType

\* The bytes of the flows that agree with a pattern.
LEMMA GroupBytes ==
  ASSUME NEW flows, Counted(flows), NEW pattern
  PROVE  /\ SumBytes(Group(flows, pattern)) \in Nat
         /\ SumBytes(Group(flows, pattern)) <= SumBytes(flows)
         /\ SumBytes(flows) \in Nat
<1>1. Group(flows, pattern) \in SUBSET flows
  BY DEF Group
<1> QED
  BY <1>1, BytesSplit, BytesGrow, BytesType

\* The fields of a candidate and the flow it was read from.
LEMMA CandidateFacts ==
  ASSUME NEW flows, NEW excluded, NEW pattern \in Candidates(flows, excluded)
  PROVE  /\ DOMAIN pattern \in SUBSET (Field \ excluded)
         /\ \E flow \in flows : \A f \in DOMAIN pattern :
              pattern[f] = flow[f] /\ Meaningful(flow, f)
<1>1. PICK fields \in AllCombinations(excluded) : pattern \in GroupKeys(flows, fields)
  BY DEF Candidates
<1>2. fields \in SUBSET (Field \ excluded)
  BY <1>1 DEF AllCombinations
<1>3. PICK flow \in flows :
        (\A f \in fields : Meaningful(flow, f)) /\ pattern = GroupKey(flow, fields)
  BY <1>1 DEF GroupKeys
<1>4. DOMAIN pattern = fields /\ \A f \in fields : pattern[f] = flow[f]
  BY <1>3 DEF GroupKey
<1> QED
  BY <1>2, <1>3, <1>4

(***************************************************************************)
(* The pattern that is found has the greatest score (find_best_candidate). *)
(***************************************************************************)
LEMMA BestScores ==
  ASSUME NEW flows, Counted(flows), NEW excluded,
         NEW pattern \in BestCandidates(flows, excluded),
         NEW other \in Candidates(flows, excluded)
  PROVE  /\ pattern \in Candidates(flows, excluded)
         /\ Score(flows, other) <= Score(flows, pattern)
<1> DEFINE candidates == Candidates(flows, excluded)
           scores == {Score(flows, p) : p \in candidates}
           all    == SumBytes(flows)
<1>1. /\ pattern \in candidates
      /\ Score(flows, pattern) = Max(scores)
  BY DEF BestCandidates
<1>2. all \in Nat
  BY GroupBytes
<1>3. ASSUME NEW p \in candidates
      PROVE  Score(flows, p) \in Nat /\ Score(flows, p) <= all * 7
  <2> DEFINE g == SumBytes(Group(flows, p))
             n == 2 + Cardinality(DOMAIN p)
  <2>1. DOMAIN p \in SUBSET Field
    BY CandidateFacts
  <2>2. n \in 2 .. 7
    BY <2>1, FieldCount
  <2>3. g \in Nat /\ g <= all
    BY GroupBytes
  <2>4. Score(flows, p) = g * n
    BY DEF Score
  <2> HIDE DEF all, g, n
  <2>5. g * n \in Nat /\ g * n <= all * n /\ all * n <= all * 7
    BY <1>2, <2>2, <2>3
  <2>6. all * n \in Nat /\ all * 7 \in Nat
    BY <1>2, <2>2
  <2> QED
    BY <2>4, <2>5, <2>6
<1>4. scores # {} /\ scores \subseteq Nat /\ \A x \in scores : x <= all * 7
  BY <1>3
<1>5. all * 7 \in Nat
  BY <1>2
<1> HIDE DEF scores, all
<1>6. \A x \in scores : x <= Max(scores)
  BY <1>4, <1>5, Greatest
<1> QED
  BY <1>1, <1>6 DEF scores

\* Whether a field of a flow is worth a constraint depends on its value.
LEMMA MeaningIsValue ==
  ASSUME NEW flow, NEW other, NEW f \in Field, flow[f] = other[f], Meaningful(flow, f)
  PROVE  Meaningful(other, f)
<1>1. CASE f = "tcp_flags"
  BY <1>1 DEF Meaningful
<1>2. CASE f = "src_ip"
  BY <1>2 DEF Meaningful
<1>3. CASE f \notin {"tcp_flags", "src_ip"}
  <2>1. flow[f] # 0
    BY <1>3 DEF Meaningful
  <2> QED
    BY <1>3, <2>1 DEF Meaningful
<1> QED
  BY <1>1, <1>2, <1>3

(***************************************************************************)
(* A flow that has the values of a candidate and one more that is worth a  *)
(* constraint gives a candidate with one more field, if the flows that     *)
(* share that value carry a tenth (find_best_candidate).                   *)
(***************************************************************************)
LEMMA OneFieldMore ==
  ASSUME NEW flows, NEW excluded, NEW pattern \in Candidates(flows, excluded),
         NEW flow \in Group(flows, pattern),
         NEW f \in Field \ (DOMAIN pattern \cup excluded), Meaningful(flow, f),
         NEW alike, alike = {g \in Group(flows, pattern) : g[f] = flow[f]},
         10 * SumBytes(alike) >= SumBytes(flows)
  PROVE  \E more \in Candidates(flows, excluded) :
           /\ DOMAIN more = DOMAIN pattern \cup {f}
           /\ Group(flows, more) = alike
<1> DEFINE fields == DOMAIN pattern \cup {f}
           more   == GroupKey(flow, fields)
<1>1. DOMAIN pattern \in SUBSET (Field \ excluded)
  BY CandidateFacts
<1>2. fields \in AllCombinations(excluded)
  <2>1. fields \in SUBSET (Field \ excluded)
    BY <1>1
  <2>2. fields # {}
    OBVIOUS
  <2> HIDE DEF fields
  <2>3. fields \in (SUBSET (Field \ excluded)) \ {{}}
    BY <2>1, <2>2
  <2> QED
    BY <2>3 DEF AllCombinations
<1>3. flow \in flows /\ \A e \in DOMAIN pattern : flow[e] = pattern[e]
  BY DEF Group
<1>4. \A e \in fields : Meaningful(flow, e)
  <2> SUFFICES ASSUME NEW e \in DOMAIN pattern PROVE Meaningful(flow, e)
    OBVIOUS
  <2>1. PICK origin \in flows : pattern[e] = origin[e] /\ Meaningful(origin, e)
    BY CandidateFacts
  <2>2. e \in Field /\ flow[e] = origin[e]
    BY <1>1, <1>3, <2>1
  <2> QED
    BY <2>1, <2>2, MeaningIsValue
<1>5. more \in GroupKeys(flows, fields)
  BY <1>3, <1>4 DEF GroupKeys
<1>6. DOMAIN more = fields /\ \A e \in fields : more[e] = flow[e]
  BY DEF GroupKey
<1> HIDE DEF more
<1>7. Group(flows, more) = alike
  BY <1>3, <1>6 DEF Group
<1>8. more \in Candidates(flows, excluded)
  BY <1>2, <1>5, <1>7 DEF Candidates
<1> QED
  BY <1>6, <1>7, <1>8

\* A pattern that scores no less than one with a field more.
LEMMA SixSevenths ==
  ASSUME NEW k \in 0 .. 4, NEW a \in Nat, NEW s \in Nat,
         a * (2 + (k + 1)) <= s * (2 + k)
  PROVE  7 * a <= 6 * s
<1>1. CASE k = 0
  BY <1>1
<1>2. CASE k = 1
  BY <1>2
<1>3. CASE k = 2
  BY <1>3
<1>4. CASE k = 3
  BY <1>4
<1>5. CASE k = 4
  BY <1>5
<1> QED
  BY <1>1, <1>2, <1>3, <1>4, <1>5

(***************************************************************************)
(* Patterns are as specific as their scores allow: the property            *)
(* SharpEnough, for all flows.                                             *)
(***************************************************************************)
THEOREM PatternsSharp == Spec => []SharpEnough
<1>1. MitigationInv => SharpEnough
  <2> DEFINE pattern(i)  == basis[i].pattern
             flows(i)    == basis[i].flows
             chosen(i)   == Group(flows(i), pattern(i))
             excluded    == ExcludeFields(input.protocol_filter)
             alike(i, flow, f) == {g \in chosen(i) : g[f] = flow[f]}
  <2> SUFFICES ASSUME MitigationInv, NEW i \in DOMAIN basis, pattern(i) # Blanket,
                      NEW flow \in chosen(i),
                      NEW f \in Field \ (DOMAIN pattern(i) \cup excluded),
                      Meaningful(flow, f),
                      10 * SumBytes(alike(i, flow, f)) >= SumBytes(flows(i))
               PROVE  7 * SumBytes(alike(i, flow, f)) <= 6 * SumBytes(chosen(i))
    BY DEF SharpEnough
  <2> DEFINE p == pattern(i)
             F == flows(i)
             A == alike(i, flow, f)
  <2>1. /\ input \in Inputs /\ F \in SUBSET Filtered(input)
        /\ p \in BestCandidates(F, excluded)
    BY EntryFacts DEF Patterns
  <2>2. Counted(F)
    BY <2>1, CapturedFacts
  <2>3. /\ flow \in Group(F, p)
        /\ f \in Field \ (DOMAIN p \cup excluded)
        /\ A = {g \in Group(F, p) : g[f] = flow[f]}
        /\ 10 * SumBytes(A) >= SumBytes(F)
        /\ chosen(i) = Group(F, p)
    OBVIOUS
  <2> HIDE DEF p, F, A, chosen, excluded
  <2>4. p \in Candidates(F, excluded)
    BY <2>1 DEF BestCandidates
  <2>5. PICK more \in Candidates(F, excluded) :
          DOMAIN more = DOMAIN p \cup {f} /\ Group(F, more) = A
    BY <2>3, <2>4, OneFieldMore
  <2>6. Score(F, more) <= Score(F, p)
    BY <2>1, <2>2, BestScores
  <2> DEFINE k == Cardinality(DOMAIN p)
  <2>7. Cardinality(DOMAIN more) = k + 1 /\ k \in 0 .. 4
    <3>1. DOMAIN p \in SUBSET Field /\ DOMAIN more \in SUBSET Field
      BY <2>4, CandidateFacts
    <3>2. /\ IsFiniteSet(DOMAIN p) /\ k \in 0 .. 5
          /\ Cardinality(DOMAIN more) \in 0 .. 5
      BY <3>1, FieldCount
    <3>3. Cardinality(DOMAIN more) = k + 1
      BY <2>3, <2>5, <3>2, FS_AddElement
    <3> QED
      BY <3>2, <3>3
  <2>8. SumBytes(A) \in Nat /\ SumBytes(Group(F, p)) \in Nat
    <3>1. SumBytes(Group(F, more)) \in Nat
      BY <2>2, GroupBytes
    <3> QED
      BY <2>2, <2>5, <3>1, GroupBytes
  <2>9. SumBytes(A) * (2 + (k + 1)) <= SumBytes(Group(F, p)) * (2 + k)
    BY <2>5, <2>6, <2>7 DEF Score
  <2> HIDE DEF k
  <2>10. 7 * SumBytes(A) <= 6 * SumBytes(Group(F, p))
    BY <2>7, <2>8, <2>9, SixSevenths
  <2> QED
    BY <2>3, <2>10 DEF A
<1> QED
  BY <1>1, MitigationInvariance, PTL
=============================================================================
