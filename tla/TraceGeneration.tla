--------------------------- MODULE TraceGeneration ---------------------------
(***************************************************************************)
(* The generate command: a configuration is loaded, generate_trace of      *)
(* trace.py builds a trace from it, and the trace it writes is read back   *)
(* and validated.  A step appends one workflow; the random draws           *)
(* (interarrival time, tenant, token counts) are free choices.             *)
(*                                                                         *)
(* A workflow's name is its index; a request's name is the pair of its     *)
(* workflow and its position there, which the code joins with "-req-".     *)
(* An interarrival time is a number of ticks, in any arrival pattern.      *)
(***************************************************************************)
EXTENDS TraceValidation

CONSTANTS
  Absent,    (* the value of a key that is not there                       *)
  Mappings,  (* what a configuration file may contain                      *)
  Gaps       (* what _next_interarrival may draw                           *)

Topologies == {"sequential", "fan_out", "debate"}
Roles      == {"supervisor", "worker", "aggregator", "debater"}

ASSUME GapsAssumption == Gaps \subseteq Nat

(* The list of endpoints is a list, and no name or list of names is Bad. *)
ASSUME MappingsAssumption ==
  /\ \A raw \in Mappings :
       raw.endpoints \in {Absent, Bad} \/ raw.endpoints \in Seq(ToSet(raw.endpoints))
  /\ Bad \notin (Nat \X Nat) \cup Seq(Nat \X Nat) \cup (Topologies \X Roles)

VARIABLES
  config,          (* the mapping, then the configuration parsed from it   *)
  workflow_index,  (* the loop of generate_trace                           *)
  arrival_s        (* when the last workflow arrived                       *)

Configuring == INSTANCE Configuration

generator == <<config, workflow_index, arrival_s>>
genVars   == <<vars, generator>>
-----------------------------------------------------------------------------
LoadConfig ==
  /\ phase = "loading"
  /\ Configuring!Accepts(config)
  /\ config' = Configuring!Parsed(config)
  /\ phase' = "generating"
  /\ UNCHANGED <<trace, index, by_id, search, workflow_index, arrival_s>>

(* raise ConfigError *)
RefuseConfig ==
  /\ phase = "loading"
  /\ ~Configuring!Accepts(config)
  /\ phase' = "refused"
  /\ UNCHANGED <<trace, index, by_id, search, generator>>

Size ==
  IF config.topology = "debate" THEN config.agents * config.debate_rounds + 1
  ELSE config.agents

(* The judge is alone in a round of its own after the last one. *)
Round(node) == node \div config.agents

(* Slip: the chain is linked forwards. *)
NextInChain(node) == IF node = Size - 1 THEN <<>> ELSE <<node + 1>>

SequentialParents(node) == IF node = 0 THEN <<>> ELSE <<node - 1>>

(* Slip: the aggregator misses the last worker. *)
FanOutParentsButOne(node) ==
  IF node = 0 THEN <<>>
  ELSE IF node < config.agents - 1 THEN <<0>>
  ELSE [i \in 1 .. config.agents - 3 |-> i]

(* Slip: the aggregator waits for itself. *)
FanOutParentsAndSelf(node) ==
  IF node = 0 THEN <<>>
  ELSE IF node < config.agents - 1 THEN <<0>>
  ELSE [i \in 1 .. config.agents - 1 |-> i]

FanOutParents(node) ==
  IF node = 0 THEN <<>>
  ELSE IF node < config.agents - 1 THEN <<0>>
  ELSE [i \in 1 .. config.agents - 2 |-> i]

DebateParents(node) ==
  IF Round(node) = 0 THEN <<>>
  ELSE [i \in 1 .. config.agents |-> (Round(node) - 1) * config.agents + i - 1]

(* _workflow_graph: the positions a node depends on, in the list's order. *)
Parents(node) ==
  IF config.topology = "sequential" THEN SequentialParents(node)
  ELSE IF config.topology = "fan_out" THEN FanOutParents(node)
  ELSE DebateParents(node)

Role(node) ==
  IF config.topology = "sequential" THEN "worker"
  ELSE IF node = Size - 1 THEN "aggregator"
  ELSE IF config.topology = "debate" THEN "debater"
  ELSE IF node = 0 THEN "supervisor" ELSE "worker"

(* TraceRequest(...) for one node. *)
Request(node, tenant, time, prompt, output) ==
  [request_id |-> <<workflow_index, node>>, workflow |-> workflow_index,
   tenant |-> tenant, domain |-> tenant,
   prefix |-> <<config.topology, Role(node)>>,
   deps |-> [i \in DOMAIN Parents(node) |-> <<workflow_index, Parents(node)[i]>>],
   arrival |-> time, deadline |-> config.deadline,
   prompt |-> prompt, output |-> output, shared |-> (prompt * config.ratio) \div 100]

(* Slip: one workflow too many. *)
GenerateOneMore ==
  /\ phase = "generating"
  /\ workflow_index <= config.workflows
  /\ workflow_index' = workflow_index + 1
  /\ UNCHANGED <<config, arrival_s, phase, trace, index, by_id, search>>

GenerateWorkflow ==
  /\ phase = "generating"
  /\ workflow_index < config.workflows
  /\ \E gap \in Gaps, tenant \in 1 .. config.tenants,
        prompts \in [1 .. Size -> config.prompt_tokens],
        outputs \in [1 .. Size -> config.output_tokens] :
       /\ arrival_s' = arrival_s + gap
       /\ trace' = trace \o [n \in 1 .. Size |->
                     Request(n - 1, tenant, arrival_s', prompts[n], outputs[n])]
  /\ workflow_index' = workflow_index + 1
  /\ UNCHANGED <<config, phase, index, by_id, search>>

(* write_trace, and later read_trace on what it wrote. *)
WriteAndRead ==
  /\ phase = "generating"
  /\ workflow_index = config.workflows
  /\ phase' = "records"
  /\ UNCHANGED <<trace, index, by_id, search, generator>>

GenInit ==
  /\ config \in Mappings
  /\ workflow_index = 0 /\ arrival_s = 0
  /\ trace = <<>> /\ phase = "loading" /\ Fresh

GenNext ==
  \/ LoadConfig \/ RefuseConfig
  \/ GenerateWorkflow \/ WriteAndRead
  \/ Next /\ UNCHANGED generator
  \/ phase = "refused" /\ UNCHANGED genVars

GenSpec == GenInit /\ [][GenNext]_genVars
-----------------------------------------------------------------------------
(* Properties. *)

Loaded == phase \notin {"loading", "refused"}

GenTypeOK ==
  /\ arrival_s \in Nat
  /\ phase \in Phases \cup {"loading", "refused", "generating"}
  /\ ~Loaded => config \in Mappings /\ trace = <<>>
  /\ Loaded => workflow_index \in 0 .. config.workflows /\ Len(trace) = workflow_index * Size

(* An accepted configuration gives the other components what they take for   *)
(* granted: the generator graphs it can build and ranges it can draw from,   *)
(* and AdmissionScheduler the SchedulerAssumption - distinct endpoints, a    *)
(* positive capacity, known policies - and weights that rank something.      *)
AcceptedConfigIsUsable ==
  Loaded =>
    /\ config.workflows > 0 /\ config.tenants > 0 /\ config.debate_rounds > 0
    /\ config.agents >= (IF config.topology = "fan_out" THEN 3 ELSE 2)
    /\ \A drawn \in {config.prompt_tokens, config.output_tokens} :
         drawn # {} /\ drawn \subseteq Nat \ {0}
    /\ config.ratio \in 0 .. 100
    /\ config.endpoints # <<>> /\ IsInjective(config.endpoints)
    /\ config.capacity \in Nat \ {0}
    /\ config.policy \in {"round_robin", "tenant_affinity", "workflow_cache_fair"}
    /\ config.policy = "workflow_cache_fair" =>
         \E name \in DOMAIN config.weights : config.weights[name] > 0

(* The validator never refuses what the generator wrote, whatever the        *)
(* topology and the draws.                                                   *)
GeneratedTraceIsValid == phase # "rejected"

RequestsOf(w)    == {i \in DOMAIN trace : trace[i].workflow = w}
Depends(i, j)    == trace[j].request_id \in ToSet(trace[i].deps)
IsSink(i)        == \A j \in DOMAIN trace : ~Depends(j, i)

(* Every workflow ends in a single request that no other waits for, and only *)
(* a debate starts with more than one; workflows arrive in the order of the  *)
(* trace, the requests of each at the same instant                           *)
(* (test_trace.py, test_trace_is_deterministic_and_preserves_fan_in).        *)
WorkflowsAreJoined ==
  phase = "accepted" =>
    /\ \A w \in 0 .. config.workflows - 1 :
         /\ Cardinality({i \in RequestsOf(w) : IsSink(i)}) = 1
         /\ config.topology # "debate" =>
              Cardinality({i \in RequestsOf(w) : trace[i].deps = <<>>}) = 1
         /\ Cardinality({trace[i].arrival : i \in RequestsOf(w)}) = 1
    /\ \A i, j \in DOMAIN trace : i <= j => trace[i].arrival <= trace[j].arrival

(* On a generated trace, however long its chains, one call of visit at a     *)
(* time is at work: dependencies stand earlier in the trace, so what it      *)
(* calls finds them finished and returns at once.                            *)
SearchStaysShallow == Len(stack) <= 1
=============================================================================
