-------------------------- MODULE MCTraceGeneration --------------------------
(***************************************************************************)
(* Configurations for TLC: each topology from its smallest size up, two    *)
(* workflows, with two prompt sizes where the graph is small; and a small  *)
(* sequential one with each of its keys removed, mistyped or moved across  *)
(* the bound it is checked against.                                        *)
(***************************************************************************)
EXTENDS TraceGeneration

Workload(topology, agents, rounds, low, high) ==
  [topology |-> topology, agents |-> agents, debate_rounds |-> rounds, workflows |-> 2,
   tenants |-> 2, tenant_distribution |-> "zipf", arrival_pattern |-> "bursty",
   request_rate |-> 1, prompt_tokens |-> <<low, high>>, output_tokens |-> <<1, 1>>,
   ratio |-> 50]

Workloads ==
  {Workload("sequential", n, 2, 1, 2) : n \in 2 .. 3}
    \cup {Workload("sequential", 5, 2, 3, 3)}
    \cup {Workload("fan_out", 3, 2, 1, 2)}
    \cup {Workload("fan_out", n, 2, 3, 3) : n \in 4 .. 5}
    \cup {Workload("debate", 2, 1, 1, 2)}
    \cup {Workload("debate", 2, r, 3, 3) : r \in 2 .. 3}
    \cup {Workload("debate", 3, 2, 3, 3)}

Url(host, slashes) ==
  [http |-> TRUE, host |-> host, slashes |-> slashes, credentials |-> FALSE, query |-> FALSE]

Weights(names, weight) == [name \in names |-> weight]
AllWeights == Configuring!WeightNames

Mapping(workload) ==
  [schema_version |-> "1.0", name |-> "n", seed |-> 0, model |-> "m", timeout |-> 1,
   endpoints |-> <<Url("h", 0), Url("i", 1)>>, workload |-> workload,
   mechanisms |-> [m \in Configuring!Mechanisms |-> TRUE],
   isolation |-> "per_tenant", policy |-> "workflow_cache_fair", capacity |-> 1,
   weights |-> Weights({}, 0), slo |-> [s \in {"ttft", "tpot", "workflow"} |-> 1]]

Small == Mapping([Workload("sequential", 2, 2, 1, 1) EXCEPT !.workflows = 1, !.tenants = 1])

Changed ==
  UNION {{[Small EXCEPT ![key] = v] : v \in {Absent, Bad}} :
           key \in {"schema_version", "name", "seed", "model", "timeout", "endpoints",
                    "isolation", "policy", "capacity"}}
    \cup {[Small EXCEPT !.seed = -1], [Small EXCEPT !.timeout = 0],
          [Small EXCEPT !.capacity = 0], [Small EXCEPT !.weights = Bad]}
    \cup {[Small EXCEPT !.endpoints = v] : v \in
            {<<>>, <<Url("h", 0), Url("h", 1)>>, <<Url("h", 0), Url("h", 0)>>}
              \cup {<<[Url("h", 0) EXCEPT ![f] = ~@]>> : f \in {"http", "credentials", "query"}}}
    \cup {[Small EXCEPT !.mechanisms = v] : v \in
            {[m \in Configuring!Mechanisms \ {"batching"} |-> TRUE]}
              \cup {[Small.mechanisms EXCEPT !["batching"] = e] : e \in {Absent, Bad}}}
    \cup {[Small EXCEPT !.weights = Weights(names, w), !.policy = p] :
            names \in {{"criticality"}, AllWeights, {"speed"}}, w \in {Bad, -1, 0, 1},
            p \in {"round_robin", "workflow_cache_fair"}}
    \cup {[Small EXCEPT !.slo[s] = v] : s \in {"ttft", "tpot", "workflow"}, v \in {Bad, 0}}
    \cup UNION {{[Small EXCEPT !.workload[key] = v] : v \in {Absent, Bad}} :
                  key \in DOMAIN Small.workload}
    \cup {[Small EXCEPT !.workload[key] = 0] :
            key \in {"workflows", "agents", "debate_rounds", "tenants", "request_rate"}}
    \cup {[Small EXCEPT !.workload.ratio = v] : v \in {-1, 0, 100, 101}}
    \cup {[Small EXCEPT !.workload.agents = 1],
          [Small EXCEPT !.workload.agents = 2, !.workload.topology = "fan_out"]}
    \cup {[Small EXCEPT !.workload.prompt_tokens = v] : v \in
            {<<1>>, <<0, 1>>, <<1, Bad>>, <<2, 1>>, <<2, 2>>}}

MCMappings == {Mapping(w) : w \in Workloads} \cup Changed

MCGaps == {0, 1}
NoTraces == {}
=============================================================================
