---------------------------- MODULE Configuration ----------------------------
(***************************************************************************)
(* BenchmarkConfig.from_mapping of config.py: which mappings it accepts,   *)
(* and what the accepted one gives to the generator and the scheduler.     *)
(*                                                                         *)
(* A key that is not there is Absent; a value of the wrong type, or no     *)
(* finite number, is Bad.  Numbers are whole: ratios and weights are       *)
(* hundredths.  An endpoint is what the checks on it tell apart; a         *)
(* mechanism maps "enabled" to a Boolean, Absent or Bad.                   *)
(***************************************************************************)
EXTENDS Integers, Sequences, Functions

CONSTANTS Absent, Bad

Mechanisms == {"speculative_decoding", "batching", "kv_cache", "resource_scheduling",
               "failure_recovery", "multi_tenancy_security"}

DefaultWeights ==
  [criticality |-> 35, tenant_deficit |-> 25, cache_locality |-> 20,
   service_cost |-> 8, failure_risk |-> 7, endpoint_load |-> 5]

WeightNames == DOMAIN DefaultWeights
-----------------------------------------------------------------------------
Given(value, default) == IF value = Absent THEN default ELSE value

AtLeast(value, minimum) == value \in Int /\ value >= minimum

IsRange(value) ==
  /\ value \notin {Absent, Bad} /\ Len(value) = 2
  /\ AtLeast(value[1], 1) /\ AtLeast(value[2], 1)
  /\ value[1] <= value[2]

(* item.rstrip("/") *)
Stripped(endpoints) == [i \in DOMAIN endpoints |-> [endpoints[i] EXCEPT !.slashes = 0]]

(* Slip: duplicates are looked for in the list as it was written. *)
EndpointsAsWritten(endpoints) ==
  /\ endpoints \notin {Absent, Bad} /\ endpoints # <<>>
  /\ \A i \in DOMAIN endpoints :
       endpoints[i].http /\ ~endpoints[i].credentials /\ ~endpoints[i].query
  /\ IsInjective(endpoints)

EndpointsAreSound(endpoints) ==
  /\ endpoints \notin {Absent, Bad} /\ endpoints # <<>>
  /\ \A i \in DOMAIN endpoints :
       endpoints[i].http /\ ~endpoints[i].credentials /\ ~endpoints[i].query
  /\ IsInjective(Stripped(endpoints))

WorkloadIsSound(w) ==
  /\ AtLeast(w.workflows, 1)
  /\ w.topology \in {"sequential", "fan_out", "debate"}
  /\ AtLeast(w.agents, 2)
  /\ w.topology = "fan_out" => w.agents >= 3
  /\ AtLeast(Given(w.debate_rounds, 2), 1)
  /\ AtLeast(w.tenants, 1)
  /\ Given(w.tenant_distribution, "uniform") \in {"uniform", "zipf"}
  /\ Given(w.arrival_pattern, "poisson") \in {"poisson", "bursty"}
  /\ AtLeast(w.request_rate, 1)
  /\ IsRange(w.prompt_tokens) /\ IsRange(w.output_tokens)
  /\ AtLeast(Given(w.ratio, 50), 0) /\ Given(w.ratio, 50) <= 100

WeightsAreSound(policy, weights) ==
  /\ weights # Bad
  /\ DOMAIN weights \subseteq WeightNames
  /\ \A name \in DOMAIN weights : AtLeast(weights[name], 0)
  /\ policy = "workflow_cache_fair" /\ DOMAIN weights = WeightNames =>
       \E name \in WeightNames : weights[name] > 0

MechanismsAreSound(raw) ==
  /\ Mechanisms \subseteq DOMAIN raw.mechanisms
  /\ \A m \in Mechanisms : raw.mechanisms[m] \in BOOLEAN \cup {Absent}
  /\ raw.isolation \in {"none", "per_tenant", "per_tenant_salt"}
  /\ raw.policy \in {"round_robin", "tenant_affinity", "workflow_cache_fair"}
  /\ AtLeast(Given(raw.capacity, 32), 1)
  /\ WeightsAreSound(raw.policy, raw.weights)

(* No ConfigError is raised. *)
Accepts(raw) ==
  /\ raw.schema_version = "1.0"
  /\ raw.name \notin {Absent, Bad}
  /\ AtLeast(Given(raw.seed, 2026), 0)
  /\ EndpointsAreSound(raw.endpoints)
  /\ raw.model \notin {Absent, Bad}
  /\ AtLeast(Given(raw.timeout, 120), 1)
  /\ WorkloadIsSound(raw.workload)
  /\ MechanismsAreSound(raw)
  /\ \A slo \in {"ttft", "tpot", "workflow"} : AtLeast(raw.slo[slo], 1)

(* What generate_trace draws from and AdmissionScheduler is built with. *)
Parsed(raw) ==
  LET w == raw.workload
  IN  [topology |-> w.topology, agents |-> w.agents,
       debate_rounds |-> Given(w.debate_rounds, 2),
       workflows |-> w.workflows, tenants |-> w.tenants,
       prompt_tokens |-> w.prompt_tokens[1] .. w.prompt_tokens[2],
       output_tokens |-> w.output_tokens[1] .. w.output_tokens[2],
       ratio |-> Given(w.ratio, 50), deadline |-> raw.slo["workflow"],
       endpoints |-> Stripped(raw.endpoints), policy |-> raw.policy,
       isolation |-> raw.isolation, capacity |-> Given(raw.capacity, 32),
       weights |-> [name \in WeightNames |->
                      IF name \in DOMAIN raw.weights THEN raw.weights[name]
                      ELSE DefaultWeights[name]]]
=============================================================================
