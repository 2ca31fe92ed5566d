---------------------------- MODULE Configuration ----------------------------
(***************************************************************************)
(* The configuration of config.rs: what a file that parses may say, which  *)
(* files validate lets through, and what the components make of one: the   *)
(* ring buffers of the flow processor, the alerts of the alert manager,    *)
(* the sampling rates of the exporters.  The module has no variables.      *)
(*                                                                         *)
(* Maps are functions from what they have keys for; an optional value is   *)
(* the set of what it holds; a prefix is the set of its addresses.         *)
(***************************************************************************)
EXTENDS FlowRecords, Sequences

MetricType == {"bps", "pps", "fps"}

BufferKey == [protocol : ProtocolCategory, direction : Direction]

IsMap(map, keys, values) ==
  DOMAIN map \subseteq keys /\ \A key \in DOMAIN map : map[key] \in values

ThresholdPair == [trigger : Nat, recover : SUBSET Nat]

IsRuleConfig(rule, Addr, PolicyName) ==
  /\ rule.prefix \subseteq Addr
  /\ rule.alert_policy \subseteq PolicyName
  /\ DOMAIN rule.thresholds \subseteq ProtocolCategory
  /\ \A protocol \in DOMAIN rule.thresholds :
       /\ DOMAIN rule.thresholds[protocol] \subseteq Direction
       /\ \A direction \in DOMAIN rule.thresholds[protocol] :
            IsMap(rule.thresholds[protocol][direction], MetricType, ThresholdPair)

\* What serde makes of a file that parses.
IsConfig(config, Addr, PolicyName, ExporterName) ==
  /\ {config.window, config.capture_buffer_size, config.mitigation_update_interval}
       \subseteq Nat
  /\ IsMap(config.exporters, ExporterName, [address : Addr, sampling_rate : Nat])
  /\ IsMap(config.alert_policies, PolicyName, [trigger_for : Nat, recover_for : Nat])
  /\ \A i \in DOMAIN config.rules : IsRuleConfig(config.rules[i], Addr, PolicyName)

RecoverValue(pair) == UnwrapOr(pair.recover, pair.trigger)

\* What validate asks; a category without directions passes.
ValidRule(config, rule) ==
  /\ rule.alert_policy \subseteq DOMAIN config.alert_policies
  /\ DOMAIN rule.thresholds # {}
  /\ \A protocol \in DOMAIN rule.thresholds :
       \A direction \in DOMAIN rule.thresholds[protocol] :
          DOMAIN rule.thresholds[protocol][direction] # {}

UniqueAddresses(exporters) ==
  \A m, n \in DOMAIN exporters : exporters[m].address = exporters[n].address => m = n

Validate(config) ==
  /\ \A i \in DOMAIN config.rules : ValidRule(config, config.rules[i])
  /\ UniqueAddresses(config.exporters)

ExporterSamplingRates(config) ==
  [address \in {config.exporters[n].address : n \in DOMAIN config.exporters} |->
     config.exporters[CHOOSE n \in DOMAIN config.exporters :
                        config.exporters[n].address = address].sampling_rate]

\* What a rule has thresholds for.
ThresholdKeys(rule) ==
  UNION {{[protocol |-> protocol, direction |-> direction] :
            direction \in DOMAIN rule.thresholds[protocol]} :
         protocol \in DOMAIN rule.thresholds}

\* Mutant of BufferKeys: only byte rates get a ring buffer.
BufferKeysOfBps(rule) ==
  {key \in ThresholdKeys(rule) :
     "bps" \in DOMAIN rule.thresholds[key.protocol][key.direction]}

\* What ProcessedRule::from_config makes rings for.
BufferKeys(rule) == ThresholdKeys(rule)

\* The policy of a rule without one holds for 10 seconds and recovers for 20.
PolicyOf(config, rule) ==
  IF rule.alert_policy = {}
  THEN [trigger_for |-> 10, recover_for |-> 20]
  ELSE config.alert_policies[CHOOSE name \in rule.alert_policy : TRUE]

\* add_metric_alerts, for every metric of a direction that has a threshold.
AlertsFor(config, i, key) ==
  LET rule       == config.rules[i]
      thresholds == rule.thresholds[key.protocol][key.direction]
  IN  {[rule |-> i, prefix |-> rule.prefix, key |-> key, metric |-> metric,
        trigger_threshold |-> thresholds[metric].trigger,
        recover_threshold |-> RecoverValue(thresholds[metric]),
        hold              |-> PolicyOf(config, rule),
        mitigation_update_interval |-> config.mitigation_update_interval] :
          metric \in DOMAIN thresholds}

\* The alerts AlertManager::reload_config makes of the rules.
AlertsOf(config) ==
  UNION {UNION {AlertsFor(config, i, key) : key \in ThresholdKeys(config.rules[i])} :
           i \in DOMAIN config.rules}
=============================================================================
