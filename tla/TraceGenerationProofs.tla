------------------------ MODULE TraceGenerationProofs ------------------------
(***************************************************************************)
(* Proofs about TraceGeneration, for every set of configurations and every *)
(* draw.                                                                   *)
(*                                                                         *)
(* The inductive invariant says what a generated trace looks like, one     *)
(* workflow after the other, and from there on what TraceValidationProofs  *)
(* knows of the validator's state.                                         *)
(***************************************************************************)
EXTENDS TraceGeneration, TraceValidationProofs, FiniteData

(* What the generator and the scheduler are given. *)
Usable(c) ==
  /\ c.topology \in Topologies
  /\ c.agents \in Nat /\ c.agents >= 2 /\ (c.topology = "fan_out" => c.agents >= 3)
  /\ c.debate_rounds \in Nat \ {0} /\ c.workflows \in Nat \ {0} /\ c.tenants \in Nat \ {0}
  /\ \A drawn \in {c.prompt_tokens, c.output_tokens} :
       drawn # {} /\ drawn \subseteq Nat \ {0}
  /\ c.ratio \in 0 .. 100 /\ c.deadline \in Nat \ {0}
  /\ c.endpoints # <<>> /\ IsInjective(c.endpoints) /\ c.capacity \in Nat \ {0}
  /\ c.policy \in {"round_robin", "tenant_affinity", "workflow_cache_fair"}
  /\ c.policy = "workflow_cache_fair" =>
       \E name \in DOMAIN c.weights : c.weights[name] > 0

LEMMA RangeIsUsable ==
  ASSUME NEW r, Configuring!IsRange(r)
  PROVE  (r[1] .. r[2]) # {} /\ (r[1] .. r[2]) \subseteq Nat \ {0}
<1>1. r[1] \in Int /\ r[2] \in Int /\ r[1] >= 1 /\ r[1] <= r[2]
  BY DEF Configuring!IsRange, Configuring!AtLeast
<1>2. r[1] \in r[1] .. r[2]
  BY <1>1
<1> QED
  BY <1>1, <1>2

LEMMA EndpointsAreUsable ==
  ASSUME NEW raw \in Mappings, Configuring!EndpointsAreSound(raw.endpoints)
  PROVE  /\ Configuring!Stripped(raw.endpoints) # <<>>
         /\ IsInjective(Configuring!Stripped(raw.endpoints))
<1> DEFINE e == raw.endpoints
           stripped == Configuring!Stripped(e)
<1>1. e \in Seq(ToSet(e)) /\ e # <<>>
  BY MappingsAssumption DEF Configuring!EndpointsAreSound
<1>2. Len(e) \in Nat \ {0} /\ DOMAIN e = 1 .. Len(e)
  BY <1>1, EmptySeq, LenProperties
<1>3. 1 \in DOMAIN stripped
  BY <1>2 DEF Configuring!Stripped
<1>4. DOMAIN <<>> = {}
  OBVIOUS
<1> HIDE DEF stripped
<1>5. stripped # <<>>
  BY <1>3, <1>4
<1>6. IsInjective(stripped)
  BY DEF Configuring!EndpointsAreSound, Configuring!IsInjective, IsInjective, stripped
<1> QED
  BY <1>5, <1>6 DEF stripped

(* One weight is positive: a name that the mapping leaves out has a default. *)
LEMMA WeightsAreUsable ==
  ASSUME NEW raw, Configuring!WeightsAreSound(raw.policy, raw.weights),
         raw.policy = "workflow_cache_fair"
  PROVE  LET weights == Configuring!Parsed(raw).weights
         IN  \E name \in DOMAIN weights : weights[name] > 0
<1> DEFINE names == Configuring!WeightNames
           weights == Configuring!Parsed(raw).weights
<1>1. weights = [name \in names |-> IF name \in DOMAIN raw.weights THEN raw.weights[name]
                                    ELSE Configuring!DefaultWeights[name]]
  BY DEF Configuring!Parsed
<1>2. \A name \in names : Configuring!DefaultWeights[name] > 0
  BY DEF Configuring!DefaultWeights, Configuring!WeightNames
<1> HIDE DEF weights
<1>3. ASSUME DOMAIN raw.weights = names
      PROVE  \E name \in DOMAIN weights : weights[name] > 0
  BY <1>1, <1>3 DEF Configuring!WeightsAreSound
<1>4. ASSUME DOMAIN raw.weights # names
      PROVE  \E name \in DOMAIN weights : weights[name] > 0
  <2>1. PICK name \in names : name \notin DOMAIN raw.weights
    BY <1>4 DEF Configuring!WeightsAreSound
  <2> HIDE DEF names
  <2>2. weights[name] > 0 /\ name \in DOMAIN weights
    BY <1>1, <1>2, <2>1
  <2> QED
    BY <2>2
<1> QED
  BY <1>3, <1>4 DEF weights

LEMMA AcceptedIsUsable ==
  ASSUME NEW raw \in Mappings, Configuring!Accepts(raw)
  PROVE  Usable(Configuring!Parsed(raw))
<1> DEFINE w == raw.workload
           c == Configuring!Parsed(raw)
<1>1. /\ Configuring!EndpointsAreSound(raw.endpoints) /\ Configuring!WorkloadIsSound(w)
      /\ Configuring!MechanismsAreSound(raw)
      /\ Configuring!AtLeast(raw.slo["workflow"], 1)
  BY DEF Configuring!Accepts
<1>2. /\ c.topology = w.topology /\ c.agents = w.agents
      /\ c.debate_rounds = Configuring!Given(w.debate_rounds, 2)
      /\ c.workflows = w.workflows /\ c.tenants = w.tenants
      /\ c.prompt_tokens = w.prompt_tokens[1] .. w.prompt_tokens[2]
      /\ c.output_tokens = w.output_tokens[1] .. w.output_tokens[2]
      /\ c.ratio = Configuring!Given(w.ratio, 50) /\ c.deadline = raw.slo["workflow"]
      /\ c.endpoints = Configuring!Stripped(raw.endpoints) /\ c.policy = raw.policy
      /\ c.capacity = Configuring!Given(raw.capacity, 32)
  BY DEF Configuring!Parsed
<1>3. c.policy = "workflow_cache_fair" => \E name \in DOMAIN c.weights : c.weights[name] > 0
  BY <1>1, <1>2, WeightsAreUsable DEF Configuring!MechanismsAreSound
<1>4. c.endpoints # <<>> /\ IsInjective(c.endpoints)
  BY <1>1, <1>2, EndpointsAreUsable
<1>5. \A drawn \in {c.prompt_tokens, c.output_tokens} : drawn # {} /\ drawn \subseteq Nat \ {0}
  BY <1>1, <1>2, RangeIsUsable DEF Configuring!WorkloadIsSound
<1>6. /\ c.policy \in {"round_robin", "tenant_affinity", "workflow_cache_fair"}
      /\ c.capacity \in Nat \ {0}
  BY <1>1, <1>2 DEF Configuring!MechanismsAreSound, Configuring!AtLeast
<1> DEFINE rounds == Configuring!Given(w.debate_rounds, 2)
           ratio  == Configuring!Given(w.ratio, 50)
<1>7. /\ c.topology \in Topologies /\ c.tenants \in Nat \ {0} /\ c.workflows \in Nat \ {0}
      /\ c.agents \in Nat /\ c.agents >= 2 /\ (c.topology = "fan_out" => c.agents >= 3)
      /\ c.deadline \in Nat \ {0}
  BY <1>1, <1>2 DEF Configuring!WorkloadIsSound, Configuring!AtLeast, Topologies
<1>8. /\ rounds \in Int /\ rounds >= 1 /\ ratio \in Int /\ ratio >= 0 /\ ratio <= 100
      /\ c.debate_rounds = rounds /\ c.ratio = ratio
  BY <1>1, <1>2 DEF Configuring!WorkloadIsSound, Configuring!AtLeast
<1> HIDE DEF c, rounds, ratio
<1>9. c.debate_rounds \in Nat \ {0} /\ c.ratio \in 0 .. 100
  BY <1>8
<1>10. Usable(c)
  BY <1>3, <1>4, <1>5, <1>6, <1>7, <1>9 DEF Usable
<1> QED
  BY <1>10 DEF c
-----------------------------------------------------------------------------
(* The graph of one workflow. *)

Nodes == 0 .. Size - 1

LEMMA SizeIs ==
  ASSUME Usable(config)
  PROVE  /\ Size \in Nat /\ Size >= 2
         /\ config.topology = "fan_out" => Size >= 3
         /\ config.topology = "debate" => Size - 1 = config.debate_rounds * config.agents
         /\ config.topology # "debate" => Size = config.agents
<1>1. CASE config.topology = "debate"
  <2> DEFINE a == config.agents
             k == config.debate_rounds
  <2>1. a \in Nat /\ a >= 2 /\ k \in Nat /\ 1 <= k
    BY DEF Usable
  <2>2. Size = a * k + 1
    BY <1>1 DEF Size
  <2> HIDE DEF a, k
  <2>3. 1 * a <= k * a
    BY <2>1, TimesGrows
  <2>4. a * k = k * a /\ k * a \in Nat
    BY <2>1
  <2>5. Size = k * a + 1 /\ 1 * a = a
    BY <2>1, <2>2, <2>4
  <2>6. Size \in Nat /\ Size >= 2 /\ Size - 1 = k * a
    BY <2>1, <2>3, <2>4, <2>5
  <2> QED
    BY <1>1, <2>6 DEF a, k
<1>2. CASE config.topology # "debate"
  BY <1>2 DEF Size, Usable
<1> QED
  BY <1>1, <1>2

(* A node's round, in a debate. *)
LEMMA RoundIs ==
  ASSUME Usable(config), NEW n \in Nat
  PROVE  /\ Round(n) \in Nat /\ Round(n) * config.agents \in Nat
         /\ Round(n) * config.agents <= n /\ n < Round(n) * config.agents + config.agents
<1>1. config.agents \in Nat \ {0}
  BY DEF Usable
<1>2. Round(n) \in Nat /\ Round(n) * config.agents <= n
      /\ n < Round(n) * config.agents + config.agents
  BY <1>1, Division DEF Round
<1> QED
  BY <1>1, <1>2, OneTimeMore

(* The nodes of round k + 1 wait for the nodes of round k. *)
LEMMA DebateParentsAre ==
  ASSUME Usable(config), NEW n \in Nat
  PROVE  /\ Round(n) = 0 => DebateParents(n) = <<>>
         /\ \A k \in Nat : Round(n) = k + 1 =>
              /\ k * config.agents \in Nat /\ k * config.agents + config.agents <= n
              /\ DebateParents(n) = [i \in 1 .. config.agents |-> k * config.agents + i - 1]
<1>1. Round(n) = 0 => DebateParents(n) = <<>>
  BY DEF DebateParents
<1>2. ASSUME NEW k \in Nat, Round(n) = k + 1
      PROVE  /\ k * config.agents \in Nat /\ k * config.agents + config.agents <= n
             /\ DebateParents(n) = [i \in 1 .. config.agents |-> k * config.agents + i - 1]
  <2> DEFINE a == config.agents
  <2>1. a \in Nat
    BY DEF Usable
  <2>2. Round(n) # 0 /\ Round(n) - 1 = k
    BY <1>2
  <2>3. DebateParents(n) = [i \in 1 .. a |-> k * a + i - 1]
    BY <2>2 DEF DebateParents
  <2>4. k * a \in Nat /\ (k + 1) * a = k * a + a
    BY <2>1, OneTimeMore
  <2>5. (k + 1) * a <= n
    BY <1>2, RoundIs
  <2> QED
    BY <2>3, <2>4, <2>5
<1> QED
  BY <1>1, <1>2

(* f lists distinct nodes before n. *)
Listing(f, m, n) ==
  /\ f = [i \in 1 .. m |-> f[i]]
  /\ \A i \in 1 .. m : f[i] \in 0 .. n - 1
  /\ \A i, j \in 1 .. m : f[i] = f[j] => i = j

LEMMA ShortListings ==
  ASSUME NEW n \in Nat
  PROVE  Listing(<<>>, 0, n) /\ \A p \in 0 .. n - 1 : Listing(<<p>>, 1, n)
<1>1. Listing(<<>>, 0, n)
  BY DEF Listing
<1>2. ASSUME NEW p \in 0 .. n - 1 PROVE Listing(<<p>>, 1, n)
  BY DEF Listing
<1> QED
  BY <1>1, <1>2

LEMMA IntervalListing ==
  ASSUME NEW n \in Nat, NEW m \in Int, NEW b \in Nat, b + m <= n
  PROVE  \E k \in Nat : Listing([i \in 1 .. m |-> b + i - 1], k, n)
<1> DEFINE f == [i \in 1 .. m |-> b + i - 1]
           k == IF m < 0 THEN 0 ELSE m
<1>1. k \in Nat /\ 1 .. m = 1 .. k
  OBVIOUS
<1>2. f = [i \in 1 .. k |-> b + i - 1]
  BY <1>1
<1>3. \A i \in 1 .. k : f[i] = b + i - 1 /\ b + i - 1 \in 0 .. n - 1
  BY <1>1, <1>2
<1>4. f = [i \in 1 .. k |-> f[i]]
  BY <1>2
<1>5. \A i, j \in 1 .. k : f[i] = f[j] => i = j
  BY <1>1, <1>3
<1> HIDE DEF f, k
<1>6. Listing(f, k, n)
  BY <1>3, <1>4, <1>5 DEF Listing
<1> QED
  BY <1>1, <1>6 DEF f

(* A node depends on distinct earlier ones. *)
LEMMA ParentsAre ==
  ASSUME Usable(config), NEW n \in Nodes
  PROVE  \E m \in Nat : Listing(Parents(n), m, n)
<1>1. n \in Nat /\ config.agents \in Nat /\ config.topology \in Topologies
  BY SizeIs DEF Usable, Nodes
<1>2. Listing(<<>>, 0, n) /\ \A p \in 0 .. n - 1 : Listing(<<p>>, 1, n)
  BY <1>1, ShortListings
<1>3. CASE config.topology = "sequential"
  <2>1. CASE n = 0
    <3>1. Parents(n) = <<>>
      BY <1>3, <2>1 DEF Parents, SequentialParents
    <3> QED
      BY <1>2, <3>1
  <2>2. CASE n # 0
    <3>1. Parents(n) = <<n - 1>> /\ n - 1 \in 0 .. n - 1
      BY <1>1, <1>3, <2>2 DEF Parents, SequentialParents
    <3> QED
      BY <1>2, <3>1
  <2> QED
    BY <2>1, <2>2
<1>4. CASE config.topology = "fan_out"
  <2>1. CASE n = 0
    <3>1. Parents(n) = <<>>
      BY <1>4, <2>1 DEF Parents, FanOutParents
    <3> QED
      BY <1>2, <3>1
  <2>2. CASE n # 0 /\ n < config.agents - 1
    <3>1. Parents(n) = <<0>> /\ 0 \in 0 .. n - 1
      BY <1>1, <1>4, <2>2 DEF Parents, FanOutParents
    <3> QED
      BY <1>2, <3>1
  <2>3. CASE n # 0 /\ ~(n < config.agents - 1)
    <3>1. Parents(n) = [i \in 1 .. config.agents - 2 |-> i]
      BY <1>4, <2>3 DEF Parents, FanOutParents
    <3>2. Parents(n) = [i \in 1 .. config.agents - 2 |-> 1 + i - 1]
      BY <1>1, <3>1
    <3> DEFINE m == config.agents - 2
    <3>3. m \in Int /\ 1 + m <= n /\ 1 \in Nat
      BY <1>1, <2>3
    <3>4. Parents(n) = [i \in 1 .. m |-> 1 + i - 1]
      BY <3>2
    <3> HIDE DEF m
    <3>5. \E k \in Nat : Listing([i \in 1 .. m |-> 1 + i - 1], k, n)
      BY <1>1, <3>3, IntervalListing
    <3> QED
      BY <3>4, <3>5, Zenon
  <2> QED
    BY <2>1, <2>2, <2>3
<1>5. CASE config.topology = "debate"
  <2>1. Parents(n) = DebateParents(n)
    BY <1>5 DEF Parents
  <2>2. CASE Round(n) = 0
    <3>1. Parents(n) = <<>>
      BY <1>1, <2>1, <2>2, DebateParentsAre
    <3> QED
      BY <1>2, <3>1
  <2>3. CASE Round(n) # 0
    <3>1. Round(n) \in Nat
      BY <1>1, RoundIs
    <3>2. Round(n) - 1 \in Nat /\ Round(n) = (Round(n) - 1) + 1
      BY <2>3, <3>1
    <3>3. PICK k \in Nat : Round(n) = k + 1
      BY <3>2
    <3>4. /\ k * config.agents \in Nat /\ k * config.agents + config.agents <= n
          /\ Parents(n) = [i \in 1 .. config.agents |-> k * config.agents + i - 1]
      BY <1>1, <2>1, <3>3, DebateParentsAre
    <3> DEFINE b == k * config.agents
    <3>5. b \in Nat /\ b + config.agents <= n /\ config.agents \in Int
      BY <1>1, <3>4
    <3>6. Parents(n) = [i \in 1 .. config.agents |-> b + i - 1]
      BY <3>4
    <3> HIDE DEF b
    <3> QED
      BY <1>1, <3>5, <3>6, IntervalListing
  <2> QED
    BY <2>2, <2>3
<1> QED
  BY <1>1, <1>3, <1>4, <1>5 DEF Topologies

(* Only the last node is waited for by none. *)
LEMMA SinkIsLast ==
  ASSUME Usable(config), NEW n \in Nodes, n # Size - 1
  PROVE  \E c \in Nodes : \E i \in DOMAIN Parents(c) : Parents(c)[i] = n
<1>1. /\ n \in Nat /\ Size \in Nat /\ n < Size - 1
      /\ config.agents \in Nat /\ config.agents >= 2 /\ config.topology \in Topologies
  BY SizeIs DEF Usable, Nodes
<1>2. CASE config.topology = "sequential"
  <2>1. n + 1 \in Nodes /\ n + 1 # 0 /\ (n + 1) - 1 = n
    BY <1>1 DEF Nodes
  <2>2. Parents(n + 1) = <<n>>
    BY <1>2, <2>1 DEF Parents, SequentialParents
  <2>3. 1 \in DOMAIN Parents(n + 1) /\ Parents(n + 1)[1] = n
    BY <2>2
  <2> QED
    BY <2>1, <2>3
<1>3. CASE config.topology = "fan_out"
  <2>1. Size = config.agents /\ Size >= 3
    BY <1>3, SizeIs
  <2>2. CASE n = 0
    <3>1. 1 \in Nodes /\ 1 < config.agents - 1
      BY <1>1, <2>1 DEF Nodes
    <3>2. Parents(1) = <<0>>
      BY <1>3, <3>1 DEF Parents, FanOutParents
    <3>3. 1 \in DOMAIN Parents(1) /\ Parents(1)[1] = n
      BY <2>2, <3>2
    <3> QED
      BY <3>1, <3>3
  <2>3. CASE n # 0
    <3> DEFINE c == Size - 1
    <3>1. c \in Nodes /\ c # 0 /\ ~(c < config.agents - 1) /\ n \in 1 .. config.agents - 2
      BY <1>1, <2>1, <2>3 DEF Nodes
    <3> HIDE DEF c
    <3>2. Parents(c) = [i \in 1 .. config.agents - 2 |-> i]
      BY <1>3, <3>1 DEF Parents, FanOutParents
    <3>3. n \in DOMAIN Parents(c) /\ Parents(c)[n] = n
      BY <3>1, <3>2
    <3> QED
      BY <3>1, <3>3
  <2> QED
    BY <2>2, <2>3
<1>4. CASE config.topology = "debate"
  <2> DEFINE a == config.agents
             k == Round(n)
             b == k * a
             c == b + a
             rounds == config.debate_rounds
  <2>1. k \in Nat /\ b \in Nat /\ b <= n /\ n < b + a
    BY <1>1, RoundIs
  <2>2. rounds \in Nat /\ Size - 1 = rounds * a /\ rounds * a \in Nat
    BY <1>1, <1>4, SizeIs, OneTimeMore DEF Usable
  <2>3. (k + 1) * a = b + a /\ k + 1 \in Nat
    BY <1>1, <2>1, OneTimeMore
  <2>4. k < rounds
    <3>1. rounds <= k => rounds * a <= b
      BY <1>1, <2>1, <2>2, TimesGrows
    <3> HIDE DEF k, b, a, rounds
    <3>2. ~(rounds * a <= b)
      BY <1>1, <2>1, <2>2
    <3> QED
      BY <2>1, <2>2, <3>1, <3>2
  <2>5. (k + 1) * a <= rounds * a
    <3>1. k + 1 <= rounds
      BY <2>1, <2>2, <2>4
    <3> QED
      BY <1>1, <2>2, <2>3, <3>1, TimesGrows
  <2>6. c \in Nodes /\ c \in Nat /\ Size - 1 \in Nat
    <3> HIDE DEF k, b, a, rounds
    <3>1. c \in Nat /\ c <= Size - 1
      BY <1>1, <2>1, <2>2, <2>3, <2>5 DEF a
    <3> QED
      BY <1>1, <3>1 DEF Nodes
  <2>7. Round(c) = k + 1
    <3> DEFINE r == Round(c)
    <3>1. /\ r \in Nat /\ r * a \in Nat /\ r * a <= c /\ c < r * a + a
      BY <2>6, RoundIs
    <3>2. (r + 1) * a = r * a + a
      BY <1>1, <3>1, OneTimeMore
    <3>3. r <= k => r * a <= b
      BY <1>1, <2>1, <3>1, TimesGrows
    <3>4. k + 2 <= r => (k + 2) * a <= r * a
      BY <1>1, <2>1, <3>1, TimesGrows
    <3>5. (k + 2) * a = c + a
      <4> DEFINE j == k + 1
      <4>1. j \in Nat /\ j + 1 = k + 2
        BY <2>1
      <4>2. j * a = c /\ a \in Nat
        BY <1>1, <2>3, Zenon
      <4> HIDE DEF j, c, k, a
      <4>3. (j + 1) * a = j * a + a
        BY <4>1, <4>2, OneTimeMore
      <4> QED
        BY <4>1, <4>2, <4>3, Zenon
    <3>6. a \in Nat /\ a >= 2
      BY <1>1
    <3> HIDE DEF r, b, k, a
    <3>7. ~(r <= k)
      BY <2>1, <3>1, <3>3, <3>6
    <3>8. ~(k + 2 <= r)
      BY <2>1, <3>1, <3>4, <3>5, <3>6
    <3>9. r = k + 1
      BY <2>1, <3>1, <3>7, <3>8
    <3> QED
      BY <3>9 DEF r
  <2>8. DebateParents(c) = [i \in 1 .. a |-> b + i - 1]
    BY <2>1, <2>6, <2>7, DebateParentsAre
  <2>9. Parents(c) = DebateParents(c)
    BY <1>4 DEF Parents
  <2> HIDE DEF c, b, a
  <2>10. n - b + 1 \in 1 .. a /\ b + (n - b + 1) - 1 = n
    BY <1>1, <2>1 DEF a
  <2>11. n - b + 1 \in DOMAIN Parents(c) /\ Parents(c)[n - b + 1] = n
    BY <2>8, <2>9, <2>10
  <2> QED
    BY <2>6, <2>11
<1> QED
  BY <1>1, <1>2, <1>3, <1>4 DEF Topologies

(* Only the first node waits for none, unless it is a debate. *)
LEMMA SourceIsFirst ==
  ASSUME Usable(config), NEW n \in Nodes, config.topology # "debate"
  PROVE  DOMAIN Parents(n) = {} <=> n = 0
<1>1. /\ n \in Nat /\ config.agents \in Nat /\ config.agents >= 2
      /\ config.topology \in {"sequential", "fan_out"}
      /\ config.topology = "fan_out" => config.agents >= 3
  BY SizeIs DEF Usable, Nodes, Topologies
<1>2. CASE n = 0
  <2>1. Parents(n) = <<>>
    BY <1>1, <1>2 DEF Parents, SequentialParents, FanOutParents
  <2> QED
    BY <1>2, <2>1
<1>3. CASE n # 0
  <2>1. \/ Parents(n) = <<n - 1>> \/ Parents(n) = <<0>>
        \/ Parents(n) = [i \in 1 .. config.agents - 2 |-> i] /\ config.agents >= 3
    BY <1>1, <1>3 DEF Parents, SequentialParents, FanOutParents
  <2>2. 1 \in DOMAIN Parents(n)
    BY <1>1, <2>1
  <2> QED
    BY <1>3, <2>2
<1> QED
  BY <1>2, <1>3
-----------------------------------------------------------------------------
(* The inductive invariant. *)

(* r is the record of node n of workflow w. *)
IsRequest(r, w, n) ==
  /\ r.request_id = <<w, n>> /\ r.workflow = w
  /\ r.tenant \in 1 .. config.tenants /\ r.domain = r.tenant
  /\ r.prefix = <<config.topology, Role(n)>>
  /\ r.deps = [i \in DOMAIN Parents(n) |-> <<w, Parents(n)[i]>>]
  /\ r.arrival \in Nat /\ r.deadline = config.deadline
  /\ r.prompt \in config.prompt_tokens /\ r.output \in config.output_tokens
  /\ r.shared = (r.prompt * config.ratio) \div 100

(* The records r and q stand in the trace in this order. *)
InOrder(r, q) ==
  /\ r.request_id # q.request_id
  /\ r.workflow = q.workflow =>
       r.tenant = q.tenant /\ r.arrival = q.arrival /\ r.request_id[2] < q.request_id[2]
  /\ r.arrival <= q.arrival

(* The trace t holds the nodes of so many workflows, the last of which came  *)
(* at the time given.                                                        *)
Holds(t, count, time) ==
  /\ Listed(t)
  /\ \A i \in 1 .. Len(t) :
       /\ \E w \in 0 .. count - 1, n \in Nodes : IsRequest(t[i], w, n)
       /\ t[i].arrival <= time
  /\ \A w \in 0 .. count - 1, n \in Nodes : \E i \in 1 .. Len(t) : t[i].request_id = <<w, n>>
  /\ \A i, j \in 1 .. Len(t) : i < j => InOrder(t[i], t[j])

Generated ==
  /\ Usable(config)
  /\ workflow_index \in 0 .. config.workflows /\ arrival_s \in Nat
  /\ Holds(trace, workflow_index, arrival_s)
  /\ Len(trace) = workflow_index * Size

(* The search is finished with all records before the one it is at. *)
Shallow ==
  /\ stack = <<>> \/ Len(stack) = 1
  /\ phase = "cycles" =>
       /\ \A j \in 1 .. index - 1 : state[Id(j)] = 2 \/ (stack # <<>> /\ j = index - 1)
       /\ stack # <<>> => index > 1 /\ stack = <<Id(index - 1)>>

GenIInv ==
  /\ phase \in Phases \cup {"loading", "refused", "generating"}
  /\ ~Loaded => config \in Mappings /\ workflow_index = 0 /\ arrival_s = 0 /\ trace = <<>>
  /\ Loaded => Generated
  /\ phase \notin Phases => Fresh
  /\ phase \in Phases =>
       workflow_index = config.workflows /\ IInv /\ phase # "rejected" /\ Shallow
-----------------------------------------------------------------------------
(* What the generator writes passes the checks on one record. *)

LEMMA RoleIsRole == \A n : Role(n) \in Roles
BY DEF Role, Roles

LEMMA RequestIsSound ==
  ASSUME Usable(config), NEW r, NEW w \in Nat, NEW n \in Nodes, IsRequest(r, w, n)
  PROVE  FieldsAreSound(r) /\ HasShape(r)
<1>1. n \in Nat
  BY DEF Nodes
<1>2. PICK m \in Nat : Listing(Parents(n), m, n)
  BY ParentsAre
<1>3. DOMAIN Parents(n) = 1 .. m
  BY <1>2 DEF Listing
<1>4. r.deps = [i \in 1 .. m |-> <<w, Parents(n)[i]>>]
  BY <1>3 DEF IsRequest
<1>5. \A i \in 1 .. m : Parents(n)[i] \in Nat /\ Parents(n)[i] < n
  BY <1>1, <1>2 DEF Listing
<1>6. r.deps \in Seq(Nat \X Nat)
  BY <1>4, <1>5
<1>7. r.deps # Bad /\ \A i \in DOMAIN r.deps : r.deps[i] # Bad
  <2>1. Bad \notin Seq(Nat \X Nat) /\ Bad \notin Nat \X Nat
    BY MappingsAssumption, Zenon
  <2>2. \A i \in DOMAIN r.deps : r.deps[i] \in Nat \X Nat
    BY <1>4, <1>5
  <2> QED
    BY <1>6, <2>1, <2>2, Zenon
<1>8. \A i \in DOMAIN r.deps : r.deps[i] # r.request_id
  BY <1>1, <1>4, <1>5 DEF IsRequest
<1>9. IsInjective(r.deps)
  <2>1. \A i, j \in 1 .. m : r.deps[i] = r.deps[j] => i = j
    BY <1>2, <1>4 DEF Listing
  <2> QED
    BY <1>4, <2>1 DEF IsInjective
<1>10. r.deps \in Seq(ToSet(r.deps))
  BY <1>6, SequenceIsListed DEF Listed
<1>11. /\ r.request_id # Bad /\ r.prefix # Bad /\ r.workflow # Bad /\ r.tenant # Bad
       /\ r.domain # Bad
  <2>1. r.request_id \in Nat \X Nat
    BY <1>1 DEF IsRequest
  <2>2. r.prefix \in Topologies \X Roles
    BY RoleIsRole DEF IsRequest, Usable
  <2>3. r.workflow \in Int /\ r.tenant \in Int /\ r.domain \in Int
    BY DEF IsRequest, Usable
  <2> QED
    BY <2>1, <2>2, <2>3, MappingsAssumption, TracesAssumption
<1>12. /\ r.prompt \in Nat \ {0} /\ r.output \in Nat \ {0} /\ r.deadline \in Nat \ {0}
       /\ r.arrival \in Nat
  BY DEF IsRequest, Usable
<1>13. r.shared \in 0 .. r.prompt
  <2>1. config.ratio \in 0 .. 100 /\ r.shared = (r.prompt * config.ratio) \div 100
    BY DEF IsRequest, Usable
  <2> QED
    BY <1>12, <2>1, Percentage
<1>14. HasShape(r)
  BY <1>10, <1>12, <1>13 DEF HasShape
<1>15. /\ IsInteger(r.prompt, 1) /\ IsInteger(r.output, 1) /\ IsInteger(r.shared, 0)
       /\ r.shared <= r.prompt /\ IsInteger(r.arrival, 0) /\ IsInteger(r.deadline, 1)
  BY <1>12, <1>13, TracesAssumption DEF IsInteger
<1> QED
  BY <1>7, <1>8, <1>9, <1>11, <1>14, <1>15 DEF FieldsAreSound

(* A dependency stands earlier in the trace, and belongs to the same owner. *)
LEMMA DepsStandEarlier ==
  ASSUME Usable(config), NEW t, NEW count \in Nat, NEW time \in Nat, Holds(t, count, time),
         NEW i \in 1 .. Len(t), NEW k \in DOMAIN t[i].deps
  PROVE  \E j \in 1 .. i - 1 :
           /\ j \in 1 .. Len(t)
           /\ t[j].request_id = t[i].deps[k] /\ t[j].workflow = t[i].workflow
           /\ t[j].tenant = t[i].tenant /\ t[j].domain = t[i].domain
<1>1. PICK w \in 0 .. count - 1, n \in Nodes : IsRequest(t[i], w, n)
  BY DEF Holds
<1>2. PICK m \in Nat : Listing(Parents(n), m, n)
  BY ParentsAre
<1> DEFINE p == Parents(n)[k]
<1>3. k \in 1 .. m /\ t[i].deps[k] = <<w, p>>
  BY <1>1, <1>2 DEF IsRequest, Listing
<1>4. p \in Nodes /\ p \in Nat /\ n \in Nat /\ p < n
  BY <1>2, <1>3, SizeIs DEF Listing, Nodes
<1> HIDE DEF p
<1>5. PICK j \in 1 .. Len(t) : t[j].request_id = <<w, p>>
  BY <1>4 DEF Holds
<1>6. PICK v \in 0 .. count - 1, q \in Nodes : IsRequest(t[j], v, q)
  BY DEF Holds
<1>7. v = w /\ q = p
  BY <1>5, <1>6 DEF IsRequest
<1>8. t[j].workflow = t[i].workflow /\ t[j].request_id[2] = p /\ t[i].request_id[2] = n
  BY <1>1, <1>5, <1>6, <1>7 DEF IsRequest
<1>9. i # j /\ ~(i < j) /\ i \in Int /\ j \in Int
  <2>1. i < j => t[i].request_id[2] < t[j].request_id[2]
    BY <1>8 DEF Holds, InOrder
  <2> QED
    BY <1>4, <1>8, <2>1
<1>10. j < i
  BY <1>9
<1>11. t[j].tenant = t[i].tenant
  BY <1>8, <1>10 DEF Holds, InOrder
<1>12. t[j].domain = t[i].domain
  BY <1>1, <1>6, <1>11 DEF IsRequest
<1>13. j \in 1 .. i - 1
  BY <1>10
<1> QED
  BY <1>3, <1>5, <1>8, <1>11, <1>12, <1>13

LEMMA GeneratedIsValid ==
  ASSUME Generated, workflow_index > 0
  PROVE  Shaped /\ IsValid
<1>1. /\ Usable(config) /\ Holds(trace, workflow_index, arrival_s)
      /\ workflow_index \in Nat /\ arrival_s \in Nat
  BY DEF Generated, Usable
<1>2. Listed(trace) /\ Len(trace) \in Nat /\ DOMAIN trace = 1 .. Len(trace)
  BY <1>1, ListedProperties DEF Holds
<1>3. ASSUME NEW i \in DOMAIN trace PROVE FieldsAreSound(trace[i]) /\ HasShape(trace[i])
  <2>1. PICK w \in 0 .. workflow_index - 1, n \in Nodes : IsRequest(trace[i], w, n)
    BY <1>1, <1>2 DEF Holds
  <2>2. w \in Nat
    BY <1>1
  <2> QED
    BY <1>1, <2>1, <2>2, RequestIsSound
<1>4. Shaped
  BY <1>2, <1>3 DEF Shaped, Listed
<1>5. trace # <<>>
  <2>1. 0 \in 0 .. workflow_index - 1 /\ 0 \in Nodes
    BY <1>1, SizeIs DEF Nodes
  <2>2. \E i \in 1 .. Len(trace) : trace[i].request_id = <<0, 0>>
    BY <1>1, <2>1 DEF Holds
  <2>3. Len(<<>>) = 0
    OBVIOUS
  <2>4. Len(trace) # 0
    BY <1>2, <2>2
  <2> QED
    BY <2>3, <2>4, Zenon
<1>6. IdsDiffer
  <2> SUFFICES ASSUME NEW i \in 1 .. Len(trace), NEW j \in 1 .. Len(trace), i < j
               PROVE  Id(i) # Id(j)
    BY <1>2 DEF IdsDiffer
  <2> QED
    BY <1>1 DEF Holds, InOrder, Id
<1>7. OwnersAgree
  BY <1>1, <1>2, DepsStandEarlier DEF OwnersAgree, Id
<1>8. NoCycle
  <2> SUFFICES ASSUME NEW S \in SUBSET Names, S # {}
               PROVE  \E i \in DOMAIN trace : Id(i) \in S /\ ToSet(trace[i].deps) \cap S = {}
    BY DEF NoCycle
  <2> DEFINE T == {i \in DOMAIN trace : Id(i) \in S}
  <2>1. T # {} /\ T \in SUBSET Nat
    BY <1>2 DEF Names, Id
  <2>2. PICK i \in T : \A j \in T : i <= j
    <3> HIDE DEF T
    <3> QED
      BY <2>1, LeastNumber
  <2>3. ASSUME NEW d \in ToSet(trace[i].deps), d \in S PROVE FALSE
    <3>1. PICK k \in DOMAIN trace[i].deps : d = trace[i].deps[k]
      BY DEF ToSet
    <3>2. PICK j \in 1 .. i - 1 : j \in 1 .. Len(trace) /\ trace[j].request_id = d
      BY <1>1, <1>2, <3>1, DepsStandEarlier
    <3>3. j \in T
      BY <1>2, <2>3, <3>2 DEF Id
    <3> QED
      BY <1>2, <2>2, <3>2, <3>3
  <2> QED
    BY <2>3
<1> QED
  BY <1>3, <1>4, <1>5, <1>6, <1>7, <1>8 DEF IsValid
-----------------------------------------------------------------------------
(* One workflow more. *)

Block(tenant, time, prompts, outputs) ==
  [n \in 1 .. Size |-> Request(n - 1, tenant, time, prompts[n], outputs[n])]

LEMMA BlockIs ==
  ASSUME Usable(config), workflow_index \in Nat, NEW tenant \in 1 .. config.tenants,
         NEW time \in Nat, NEW prompts \in [1 .. Size -> config.prompt_tokens],
         NEW outputs \in [1 .. Size -> config.output_tokens]
  PROVE  LET block == Block(tenant, time, prompts, outputs)
         IN  /\ Listed(block) /\ Len(block) = Size
             /\ \A i \in 1 .. Size :
                  /\ IsRequest(block[i], workflow_index, i - 1)
                  /\ block[i].tenant = tenant /\ block[i].arrival = time
<1> DEFINE block == Block(tenant, time, prompts, outputs)
<1>1. Size \in Nat
  BY SizeIs
<1>2. DOMAIN block = 1 .. Size /\ block = [n \in 1 .. Size |-> block[n]]
      /\ \A i \in 1 .. Size : block[i] = Request(i - 1, tenant, time, prompts[i], outputs[i])
  BY DEF Block
<1>3. ASSUME NEW i \in 1 .. Size
      PROVE  /\ IsRequest(block[i], workflow_index, i - 1)
             /\ block[i].tenant = tenant /\ block[i].arrival = time
  <2>1. block[i] = Request(i - 1, tenant, time, prompts[i], outputs[i])
    BY <1>2
  <2>2. prompts[i] \in config.prompt_tokens /\ outputs[i] \in config.output_tokens
    OBVIOUS
  <2> HIDE DEF block
  <2> QED
    BY <2>1, <2>2 DEF Request, IsRequest
<1> HIDE DEF block
<1>4. \A i \in 1 .. Size : block[i] \in ToSet(block)
  BY <1>2 DEF ToSet
<1>5. block \in Seq(ToSet(block)) /\ Len(block) = Size
  <2>1. block \in [1 .. Size -> ToSet(block)]
    BY <1>2, <1>4
  <2> HIDE DEF block
  <2>2. block \in Seq(ToSet(block))
    BY <1>1, <2>1, SeqDef
  <2> QED
    BY <1>1, <1>2, <2>2, LenProperties
<1> QED
  BY <1>3, <1>5 DEF Listed, block

LEMMA OneWorkflowMore ==
  ASSUME Generated, NEW tenant \in 1 .. config.tenants, NEW gap \in Nat,
         NEW prompts \in [1 .. Size -> config.prompt_tokens],
         NEW outputs \in [1 .. Size -> config.output_tokens]
  PROVE  LET t == trace \o Block(tenant, arrival_s + gap, prompts, outputs)
         IN  /\ Holds(t, workflow_index + 1, arrival_s + gap)
             /\ Len(t) = (workflow_index + 1) * Size
<1> DEFINE time  == arrival_s + gap
           block == Block(tenant, time, prompts, outputs)
           t     == trace \o block
           n     == Len(trace)
<1>1. /\ Usable(config) /\ Holds(trace, workflow_index, arrival_s)
      /\ workflow_index \in Nat /\ arrival_s \in Nat /\ time \in Nat /\ arrival_s <= time
      /\ Size \in Nat /\ n = workflow_index * Size
  <2>1. /\ Usable(config) /\ Holds(trace, workflow_index, arrival_s)
        /\ workflow_index \in 0 .. config.workflows /\ arrival_s \in Nat
        /\ n = workflow_index * Size
    BY DEF Generated
  <2>2. workflow_index \in Nat
    BY <2>1 DEF Usable
  <2>3. time \in Nat /\ arrival_s <= time
    BY <2>1
  <2> QED
    BY <2>1, <2>2, <2>3, SizeIs
<1>2. Listed(trace) /\ n \in Nat
  BY <1>1, ListedProperties DEF Holds
<1>3. /\ Listed(block) /\ Len(block) = Size
      /\ \A i \in 1 .. Size :
           /\ IsRequest(block[i], workflow_index, i - 1)
           /\ block[i].tenant = tenant /\ block[i].arrival = time
  <2> HIDE DEF time
  <2> QED
    BY <1>1, BlockIs
<1> HIDE DEF block, time
<1>4. /\ Listed(t) /\ Len(t) = n + Size
      /\ \A i \in 1 .. n : t[i] = trace[i]
      /\ \A i \in 1 .. Size : t[n + i] = block[i]
  BY <1>2, <1>3, ConcatListed
<1> HIDE DEF t
<1>5. Len(t) = (workflow_index + 1) * Size
  BY <1>1, <1>4, OneTimeMore
<1>6. ASSUME NEW i \in 1 .. n
      PROVE  /\ t[i] = trace[i] /\ t[i].arrival <= arrival_s /\ t[i].arrival <= time
             /\ t[i].arrival \in Nat /\ t[i].workflow \in 0 .. workflow_index - 1
             /\ t[i].request_id[1] = t[i].workflow
             /\ \E w \in 0 .. workflow_index - 1, m \in Nodes : IsRequest(t[i], w, m)
  <2>1. t[i] = trace[i] /\ trace[i].arrival <= arrival_s
    BY <1>1, <1>4 DEF Holds
  <2>2. PICK w \in 0 .. workflow_index - 1, m \in Nodes : IsRequest(trace[i], w, m)
    BY <1>1 DEF Holds
  <2>3. trace[i].arrival \in Nat /\ trace[i].workflow = w /\ trace[i].request_id = <<w, m>>
    BY <2>2 DEF IsRequest
  <2>4. trace[i].arrival <= time
    BY <1>1, <2>1, <2>3
  <2> QED
    BY <2>1, <2>2, <2>3, <2>4
<1>7. ASSUME NEW i \in n + 1 .. n + Size
      PROVE  /\ i - n - 1 \in Nodes /\ IsRequest(t[i], workflow_index, i - n - 1)
             /\ t[i].tenant = tenant /\ t[i].arrival = time
             /\ t[i].request_id = <<workflow_index, i - n - 1>>
             /\ t[i].workflow = workflow_index
  <2>1. i - n \in 1 .. Size /\ n + (i - n) = i /\ i - n - 1 \in Nodes
    BY <1>1, <1>2 DEF Nodes
  <2>2. t[i] = block[i - n]
    BY <1>4, <2>1
  <2>3. /\ IsRequest(t[i], workflow_index, i - n - 1)
        /\ t[i].tenant = tenant /\ t[i].arrival = time
    BY <1>3, <2>1, <2>2
  <2> QED
    BY <2>1, <2>3 DEF IsRequest
<1>8. \A i \in 1 .. Len(t) : i \in 1 .. n \/ i \in n + 1 .. n + Size
  BY <1>1, <1>2, <1>4
<1>9. ASSUME NEW i \in 1 .. Len(t)
      PROVE  /\ \E w \in 0 .. (workflow_index + 1) - 1, m \in Nodes : IsRequest(t[i], w, m)
             /\ t[i].arrival <= time
  <2>1. CASE i \in 1 .. n
    <3>1. PICK w \in 0 .. workflow_index - 1, m \in Nodes : IsRequest(t[i], w, m)
      BY <1>6, <2>1
    <3>2. w \in 0 .. (workflow_index + 1) - 1
      BY <1>1
    <3> QED
      BY <1>6, <2>1, <3>1, <3>2
  <2>2. CASE i \in n + 1 .. n + Size
    <3>1. workflow_index \in 0 .. (workflow_index + 1) - 1 /\ time <= time
      BY <1>1
    <3> QED
      BY <1>7, <2>2, <3>1
  <2> QED
    BY <1>8, <2>1, <2>2
<1>10. ASSUME NEW w \in 0 .. (workflow_index + 1) - 1, NEW m \in Nodes
       PROVE  \E i \in 1 .. Len(t) : t[i].request_id = <<w, m>>
  <2>1. CASE w = workflow_index
    <3>1. n + m + 1 \in n + 1 .. n + Size /\ (n + m + 1) - n - 1 = m
      BY <1>1, <1>2 DEF Nodes
    <3>2. t[n + m + 1].request_id = <<workflow_index, m>>
      BY <1>7, <3>1
    <3>3. n + m + 1 \in 1 .. Len(t)
      BY <1>1, <1>2, <1>4, <3>1
    <3> QED
      BY <2>1, <3>2, <3>3
  <2>2. CASE w # workflow_index
    <3>1. w \in 0 .. workflow_index - 1
      BY <1>1, <2>2
    <3>2. PICK i \in 1 .. n : trace[i].request_id = <<w, m>>
      BY <1>1, <3>1 DEF Holds
    <3>3. i \in 1 .. Len(t)
      BY <1>1, <1>2, <1>4
    <3> QED
      BY <1>6, <3>2, <3>3
  <2> QED
    BY <2>1, <2>2
<1>11. ASSUME NEW i \in 1 .. Len(t), NEW j \in 1 .. Len(t), i < j
       PROVE  InOrder(t[i], t[j])
  <2>1. CASE j \in 1 .. n
    <3>1. i \in 1 .. n
      BY <1>2, <1>8, <1>11, <2>1
    <3>2. InOrder(trace[i], trace[j])
      BY <1>1, <1>11, <2>1, <3>1 DEF Holds
    <3> QED
      BY <1>6, <2>1, <3>1, <3>2
  <2>2. CASE i \in 1 .. n /\ j \in n + 1 .. n + Size
    <3>1. t[i].workflow # t[j].workflow /\ t[i].arrival <= t[j].arrival
      BY <1>1, <1>6, <1>7, <2>2
    <3>2. t[j].request_id[1] = workflow_index /\ t[i].request_id[1] # workflow_index
      BY <1>1, <1>6, <1>7, <2>2
    <3> QED
      BY <3>1, <3>2 DEF InOrder
  <2>3. CASE i \in n + 1 .. n + Size /\ j \in n + 1 .. n + Size
    <3>1. /\ t[i].request_id = <<workflow_index, i - n - 1>>
          /\ t[j].request_id = <<workflow_index, j - n - 1>>
          /\ t[i].tenant = t[j].tenant /\ t[i].arrival = time /\ t[j].arrival = time
      BY <1>7, <2>3
    <3>2. i - n - 1 < j - n - 1
      BY <1>2, <1>11
    <3>3. t[i].request_id[2] < t[j].request_id[2] /\ t[i].request_id # t[j].request_id
      BY <1>2, <3>1, <3>2
    <3>4. t[i].arrival <= t[j].arrival
      BY <1>1, <3>1
    <3> QED
      BY <3>1, <3>3, <3>4 DEF InOrder
  <2> QED
    BY <1>2, <1>8, <1>11, <2>1, <2>2, <2>3
<1>12. Holds(t, workflow_index + 1, time)
  BY <1>4, <1>9, <1>10, <1>11 DEF Holds
<1> QED
  BY <1>5, <1>12 DEF t, block, time
-----------------------------------------------------------------------------
(* Init and each action. *)

LEMMA GenInitEstablishesIt == GenInit => GenIInv
<1> SUFFICES ASSUME GenInit PROVE GenIInv
  OBVIOUS
<1>1. /\ phase = "loading" /\ config \in Mappings /\ workflow_index = 0 /\ arrival_s = 0
      /\ trace = <<>> /\ Fresh
  BY DEF GenInit
<1> QED
  BY <1>1 DEF GenIInv, Loaded, Phases

LEMMA NothingHeld ==
  ASSUME Usable(config)
  PROVE  Holds(<<>>, 0, 0) /\ Len(<<>>) = 0 * Size
<1>1. Listed(<<>>) /\ Len(<<>>) = 0
  <2>1. <<>> \in Seq({}) /\ Len(<<>>) = 0
    OBVIOUS
  <2> QED
    BY <2>1, SequenceIsListed
<1>2. 0 * Size = 0
  BY SizeIs
<1>3. (\A i \in 1 .. 0 : FALSE) /\ (\A w \in 0 .. 0 - 1 : FALSE)
  OBVIOUS
<1> QED
  BY <1>1, <1>2, <1>3 DEF Holds

LEMMA LoadConfigKeepsIt ==
  ASSUME GenIInv, LoadConfig
  PROVE  GenIInv'
<1>1. /\ phase = "loading" /\ phase' = "generating" /\ config' = Configuring!Parsed(config)
      /\ trace' = trace /\ index' = index /\ by_id' = by_id /\ state' = state
      /\ stack' = stack /\ cursor' = cursor
      /\ workflow_index' = workflow_index /\ arrival_s' = arrival_s
  BY DEF LoadConfig, search
<1>2. /\ config \in Mappings /\ workflow_index = 0 /\ arrival_s = 0 /\ trace = <<>> /\ Fresh
  BY <1>1 DEF GenIInv, Loaded, Phases
<1>3. Usable(config')
  BY <1>1, <1>2, AcceptedIsUsable DEF LoadConfig
<1>4. Usable(config)'
  BY <1>3 DEF Usable
<1>5. (Holds(<<>>, 0, 0) /\ Len(<<>>) = 0 * Size)'
  BY <1>4, NothingHeld, PTL
<1> QED
  BY <1>1, <1>2, <1>4, <1>5 DEF GenIInv, Generated, Loaded, Phases, Fresh, Usable

LEMMA GraphStays ==
  ASSUME config' = config
  PROVE  /\ Size' = Size /\ Nodes' = Nodes /\ Usable(config)' = Usable(config)
         /\ \A t, count, time : Holds(t, count, time)' <=> Holds(t, count, time)
<1>1. Size' = Size
  BY DEF Size
<1>2. Nodes' = Nodes
  BY <1>1 DEF Nodes
<1>3. \A n : Parents(n)' = Parents(n) /\ Role(n)' = Role(n)
  BY <1>1 DEF Parents, SequentialParents, FanOutParents, DebateParents, Round, Role
<1>4. \A r, w, n : IsRequest(r, w, n)' <=> IsRequest(r, w, n)
  BY <1>3 DEF IsRequest
<1>5. \A t, count, time : Holds(t, count, time)' <=> Holds(t, count, time)
  BY <1>2, <1>4 DEF Holds
<1>6. Usable(config)' = Usable(config)
  BY DEF Usable
<1> QED
  BY <1>1, <1>2, <1>5, <1>6

LEMMA GenerateWorkflowKeepsIt ==
  ASSUME GenIInv, GenerateWorkflow
  PROVE  GenIInv'
<1>1. /\ phase = "generating" /\ phase' = "generating" /\ config' = config
      /\ workflow_index < config.workflows /\ workflow_index' = workflow_index + 1
      /\ index' = index /\ by_id' = by_id /\ state' = state /\ stack' = stack /\ cursor' = cursor
  BY DEF GenerateWorkflow, search
<1>2. Generated /\ Fresh
  BY <1>1 DEF GenIInv, Loaded, Phases
<1>3. PICK gap \in Gaps, tenant \in 1 .. config.tenants,
           prompts \in [1 .. Size -> config.prompt_tokens],
           outputs \in [1 .. Size -> config.output_tokens] :
        /\ arrival_s' = arrival_s + gap
        /\ trace' = trace \o Block(tenant, arrival_s', prompts, outputs)
  BY DEF GenerateWorkflow, Block
<1>4. gap \in Nat
  BY GapsAssumption
<1>5. /\ Holds(trace', workflow_index', arrival_s') /\ Len(trace') = workflow_index' * Size
      /\ arrival_s' \in Nat
  <2>1. arrival_s \in Nat
    BY <1>2 DEF Generated
  <2> DEFINE t == trace \o Block(tenant, arrival_s + gap, prompts, outputs)
  <2>2. Holds(t, workflow_index + 1, arrival_s + gap) /\ Len(t) = (workflow_index + 1) * Size
    BY <1>2, <1>4, OneWorkflowMore
  <2>3. trace' = t
    BY <1>3
  <2> HIDE DEF t
  <2>4. arrival_s' = arrival_s + gap /\ workflow_index' = workflow_index + 1
    BY <1>1, <1>3
  <2>5. Holds(trace', workflow_index', arrival_s') /\ Len(trace') = workflow_index' * Size
    BY <2>2, <2>3, <2>4, Zenon
  <2>6. arrival_s' \in Nat
    BY <1>4, <2>1, <2>4
  <2> QED
    BY <2>5, <2>6
<1>6. Holds(trace, workflow_index, arrival_s)' /\ (Len(trace) = workflow_index * Size)'
  BY <1>1, <1>5, GraphStays
<1>7. workflow_index' \in 0 .. config.workflows
  BY <1>1, <1>2 DEF Generated, Usable
<1>8. Generated'
  BY <1>1, <1>2, <1>5, <1>6, <1>7, GraphStays DEF Generated
<1>9. Fresh'
  BY <1>1, <1>2 DEF Fresh
<1> QED
  BY <1>1, <1>8, <1>9 DEF GenIInv, Loaded, Phases

(* The file that is read back is a valid trace. *)
LEMMA WriteAndReadKeepsIt ==
  ASSUME GenIInv, WriteAndRead
  PROVE  GenIInv'
<1>1. /\ phase = "generating" /\ phase' = "records" /\ workflow_index = config.workflows
      /\ trace' = trace /\ config' = config
      /\ workflow_index' = workflow_index /\ arrival_s' = arrival_s
      /\ index' = index /\ by_id' = by_id /\ state' = state /\ stack' = stack /\ cursor' = cursor
  BY DEF WriteAndRead, search, generator
<1>2. Generated /\ Fresh
  BY <1>1 DEF GenIInv, Loaded, Phases
<1>3. Generated'
  BY <1>1, <1>2, GraphStays DEF Generated
<1>4. Shaped'
  <2>1. workflow_index > 0
    BY <1>1, <1>2 DEF Generated, Usable
  <2> QED
    BY <1>1, <1>2, <2>1, GeneratedIsValid, TraceStays
<1>5. Fresh'
  BY <1>1, <1>2 DEF Fresh
<1>6. IInv'
  <2>1. (phase = "records")'
    BY <1>1
  <2> QED
    BY <1>4, <1>5, <2>1, FreshIsSound, PTL
<1>7. Shallow'
  BY <1>1, <1>5 DEF Shallow, Fresh
<1> QED
  BY <1>1, <1>3, <1>6, <1>7 DEF GenIInv, Loaded, Phases
-----------------------------------------------------------------------------
(* The validator's steps. *)

LEMMA ValidatorLeavesTheRest ==
  ASSUME IInv, Next
  PROVE  trace' = trace /\ phase \in Phases
<1>1. phase \in Phases
  BY DEF IInv, Loops
<1>2. CASE Exit
  BY <1>1, <1>2 DEF Exit, vars, input
<1>3. CASE Validate
  <2>1. CASE CheckRecord
    BY <1>1, <2>1 DEF CheckRecord, Reject, input
  <2>2. CASE ~CheckRecord
    BY <1>1, <1>3, <2>2
       DEF Validate, RejectEmpty, Reject, StartLinks, CheckLinks, StartSearch, VisitRequest,
           VisitDependency, Leave, Accept, input
  <2> QED
    BY <2>1, <2>2
<1> QED
  BY <1>1, <1>2, <1>3 DEF Next

(* Where the search is, its call returns at once for every dependency.       *)
LEMMA ShallowCalls ==
  ASSUME GenIInv, phase = "cycles", stack # <<>>
  PROVE  LET top == Id(index - 1)
         IN  /\ Last(stack) = top /\ top \in Ids /\ Front(stack) = <<>>
             /\ DOMAIN state = Ids
             /\ index - 1 \in 1 .. Len(trace) /\ index \in Int
             /\ \A k \in 1 .. Len(DepsOf(top)) : state[DepsOf(top)[k]] = 2
<1> DEFINE i   == index - 1
           top == Id(i)
<1>1. Generated /\ IInv /\ Shallow
  BY DEF GenIInv, Loaded, Phases
<1>2. Searching
  BY <1>1, SearchFacts
<1>3. index > 1 /\ stack = <<top>> /\ index \in 1 .. Len(trace) + 1 /\ Len(trace) \in Nat
  BY <1>1, <1>2 DEF Shallow, Searching
<1>4. i \in 1 .. Len(trace) /\ index \in Int
  BY <1>3
<1>5. Last(stack) = top /\ Front(stack) = <<>>
  <2> HIDE DEF top
  <2>1. Len(stack) = 1 /\ stack[1] = top
    BY <1>3
  <2>2. Last(stack) = top
    BY <2>1 DEF Last
  <2>3. Front(stack) = <<>>
    BY <2>1 DEF Front
  <2> QED
    BY <2>2, <2>3
<1>6. Entered(Len(trace)) /\ DOMAIN state = Ids
  BY <1>2 DEF Searching, Search
<1>7. top \in Ids /\ by_id[top] = i
  BY <1>4, <1>6 DEF Entered
<1>8. DepsOf(top) = trace[i].deps
  BY <1>7 DEF DepsOf, RecordOf
<1> HIDE DEF i
<1>9. ASSUME NEW k \in 1 .. Len(DepsOf(top)) PROVE state[DepsOf(top)[k]] = 2
  <2>1. k \in DOMAIN trace[i].deps
    BY <1>2, <1>7, <1>8 DEF Searching
  <2>2. PICK j \in 1 .. i - 1 : j \in 1 .. Len(trace) /\ trace[j].request_id = trace[i].deps[k]
    <3>1. /\ Usable(config) /\ workflow_index \in Nat /\ arrival_s \in Nat
          /\ Holds(trace, workflow_index, arrival_s)
      BY <1>1 DEF Generated, Usable
    <3> QED
      BY <1>4, <2>1, <3>1, DepsStandEarlier
  <2>3. j \in 1 .. index - 1 /\ j # index - 1
    BY <1>4, <2>2 DEF i
  <2>4. state[Id(j)] = 2
    BY <1>1, <2>3 DEF Shallow
  <2> QED
    BY <1>8, <2>2, <2>4 DEF Id
<1> QED
  BY <1>4, <1>5, <1>6, <1>7, <1>9 DEF i

LEMMA ValidatorStaysShallow ==
  ASSUME GenIInv, phase \in Phases, Next
  PROVE  Shallow'
<1>1. Generated /\ IInv /\ Shallow
  BY DEF GenIInv, Loaded, Phases
<1>2. trace' = trace /\ \A j : Id(j)' = Id(j)
  BY <1>1, ValidatorLeavesTheRest DEF Id
<1>3. ASSUME stack' = stack, phase' # "cycles" PROVE Shallow'
  BY <1>1, <1>3 DEF Shallow
<1>4. CASE Exit
  BY <1>1, <1>2, <1>4 DEF Exit, vars, search, Shallow
<1>5. CASE RejectEmpty
  BY <1>3, <1>5 DEF RejectEmpty, Reject, search
<1>6. CASE CheckRecord
  <2>1. stack' = stack /\ phase' # "cycles"
    BY <1>6 DEF CheckRecord, Reject, search
  <2> QED
    BY <1>3, <2>1
<1>7. CASE StartLinks
  BY <1>3, <1>7 DEF StartLinks, search
<1>8. CASE CheckLinks
  <2>1. stack' = stack /\ phase' # "cycles"
    BY <1>8 DEF CheckLinks, Reject, search
  <2> QED
    BY <1>3, <2>1
<1>9. CASE StartSearch
  <2>1. stack = <<>>
    BY <1>1, <1>9 DEF StartSearch, IInv, Loops
  <2>2. stack' = <<>> /\ index' = 1 /\ \A j \in 1 .. 1 - 1 : FALSE
    BY <1>9, <2>1 DEF StartSearch
  <2> QED
    BY <2>2 DEF Shallow
<1>10. CASE VisitRequest
  <2> DEFINE new == Id(index)
  <2>1. /\ phase = "cycles" /\ stack = <<>> /\ index <= Len(trace) /\ Call(new)
        /\ index' = index + 1 /\ cursor' = cursor
    BY <1>10 DEF VisitRequest, Id
  <2>2. Searching
    BY <1>1, <2>1, SearchFacts
  <2>3. /\ index \in 1 .. Len(trace) /\ index \in Int /\ DOMAIN state = Ids
        /\ Ids = {Id(i) : i \in 1 .. Len(trace)}
    BY <2>1, <2>2 DEF Searching, Search, Entered
  <2>4. \A j \in 1 .. index - 1 : state[Id(j)] = 2 /\ Id(j) \in Ids
    BY <1>1, <2>1, <2>3 DEF Shallow
  <2> HIDE DEF new
  <2>5. \A j \in 1 .. index' - 1 : j \in 1 .. index - 1 \/ j = index
    BY <2>1, <2>3
  <2>6. CASE state[new] = 1
    <3>1. stack' = stack /\ phase' # "cycles"
      BY <2>1, <2>6 DEF Call
    <3> QED
      BY <1>3, <3>1
  <2>7. CASE state[new] = 2
    <3>1. stack' = <<>> /\ state' = state
      BY <2>1, <2>7 DEF Call
    <3>2. \A j \in 1 .. index' - 1 : state'[Id(j)'] = 2
      BY <1>2, <2>4, <2>5, <2>7, <3>1 DEF new
    <3> QED
      BY <3>1, <3>2 DEF Shallow
  <2>8. CASE state[new] # 1 /\ state[new] # 2
    <3>1. state' = [state EXCEPT ![new] = 1] /\ stack' = Append(stack, new)
      BY <2>1, <2>8 DEF Call
    <3>2. stack' = <<new>> /\ Len(stack') = 1 /\ stack' # <<>>
      BY <2>1, <3>1
    <3>3. \A j \in 1 .. index - 1 : state'[Id(j)'] = 2
      <4>1. \A j \in 1 .. index - 1 : Id(j) # new
        BY <2>4, <2>8
      <4> QED
        BY <1>2, <2>3, <2>4, <3>1, <4>1
    <3>4. index' > 1 /\ index = index' - 1
      BY <2>1, <2>3
    <3>5. new = Id(index - 1)'
      BY <1>2, <3>4 DEF new, Id
    <3>6. \A j \in 1 .. index' - 1 : state'[Id(j)'] = 2 \/ j = index' - 1
      BY <2>5, <3>3, <3>4
    <3> QED
      BY <3>2, <3>4, <3>5, <3>6 DEF Shallow
  <2> QED
    BY <2>6, <2>7, <2>8
<1>11. CASE VisitDependency
  <2> DEFINE top == Id(index - 1)
  <2>1. phase = "cycles" /\ stack # <<>> /\ UNCHANGED <<input, index>>
    BY <1>11 DEF VisitDependency
  <2>2. /\ Last(stack) = top /\ top \in Ids
        /\ \A k \in 1 .. Len(DepsOf(top)) : state[DepsOf(top)[k]] = 2
    BY <2>1, ShallowCalls
  <2> HIDE DEF top
  <2>3. Searching
    BY <1>1, <2>1, SearchFacts
  <2>4. cursor[top] \in 1 .. Len(DepsOf(top)) /\ Call(DepsOf(top)[cursor[top]])
    <3>1. cursor[top] <= Len(DepsOf(top)) /\ Call(DepsOf(top)[cursor[top]])
      BY <1>11, <2>2 DEF VisitDependency, DepsOf
    <3>2. cursor[top] \in Nat \ {0} /\ Len(DepsOf(top)) \in Nat
      BY <2>2, <2>3 DEF Searching, Search
    <3> QED
      BY <3>1, <3>2
  <2>5. state[DepsOf(top)[cursor[top]]] = 2
    BY <2>2, <2>4
  <2>6. state' = state /\ stack' = stack /\ phase' = phase
    BY <2>4, <2>5 DEF Call
  <2> QED
    BY <1>1, <1>2, <2>1, <2>6 DEF Shallow
<1>12. CASE Leave
  <2> DEFINE top == Id(index - 1)
  <2>1. /\ phase = "cycles" /\ stack # <<>> /\ index' = index
        /\ state' = [state EXCEPT ![Last(stack)] = 2] /\ stack' = Front(stack)
    BY <1>12 DEF Leave
  <2>2. /\ Last(stack) = top /\ top \in Ids /\ Front(stack) = <<>> /\ DOMAIN state = Ids
        /\ index - 1 \in 1 .. Len(trace) /\ index \in Int
    BY <2>1, ShallowCalls
  <2>3. \A j \in 1 .. index - 1 : state[Id(j)] = 2 \/ j = index - 1
    BY <1>1, <2>1 DEF Shallow
  <2>4. Entered(Len(trace)) /\ Len(trace) \in Nat
    BY <1>1, <2>1, SearchFacts DEF Searching
  <2>5. \A j \in 1 .. index - 1 : Id(j) \in Ids
    BY <2>2, <2>4 DEF Entered
  <2>6. ASSUME NEW j \in 1 .. index' - 1 PROVE state'[Id(j)'] = 2
    <3>1. Id(j)' = Id(j) /\ j \in 1 .. index - 1 /\ Id(j) \in DOMAIN state
      BY <1>2, <2>1, <2>2, <2>5
    <3>2. state[Id(j)] = 2 \/ Id(j) = top
      BY <2>3, <3>1
    <3> HIDE DEF top
    <3> QED
      BY <2>1, <2>2, <3>1, <3>2
  <2>7. stack' = <<>>
    BY <2>1, <2>2
  <2> QED
    BY <2>6, <2>7 DEF Shallow
<1>13. CASE Accept
  BY <1>3, <1>13 DEF Accept, search
<1> QED
  BY <1>4, <1>5, <1>6, <1>7, <1>8, <1>9, <1>10, <1>11, <1>12, <1>13 DEF Next, Validate

(* The validator never refuses the trace, since a refused one is not valid. *)
LEMMA ValidatorKeepsIt ==
  ASSUME GenIInv, phase \in Phases, Next, UNCHANGED generator
  PROVE  GenIInv'
<1>1. /\ Generated /\ IInv /\ Shallow /\ workflow_index = config.workflows
      /\ config' = config /\ workflow_index' = workflow_index /\ arrival_s' = arrival_s
  BY DEF GenIInv, Loaded, Phases, generator
<1>2. IInv' /\ trace' = trace
  BY <1>1, NextKeepsIInv, ValidatorLeavesTheRest
<1>3. phase' \in Phases
  BY <1>2 DEF IInv, Loops
<1>4. Generated'
  BY <1>1, <1>2, GraphStays DEF Generated
<1>5. phase' # "rejected"
  <2>1. IsValid
    BY <1>1, GeneratedIsValid DEF Generated, Usable
  <2>2. IsValid'
    BY <1>2, <2>1, TraceStays
  <2> QED
    BY <1>2, <2>2 DEF IInv, Loops
<1>6. Shallow'
  BY ValidatorStaysShallow
<1> QED
  BY <1>1, <1>2, <1>3, <1>4, <1>5, <1>6 DEF GenIInv, Loaded, Phases

LEMMA GenInvariance == GenSpec => []GenIInv
<1>1. ASSUME GenIInv, [GenNext]_genVars PROVE GenIInv'
  <2>1. CASE LoadConfig
    BY <1>1, <2>1, LoadConfigKeepsIt
  <2>2. CASE GenerateWorkflow
    BY <1>1, <2>2, GenerateWorkflowKeepsIt
  <2>3. CASE WriteAndRead
    BY <1>1, <2>3, WriteAndReadKeepsIt
  <2>4. CASE RefuseConfig
    <3>1. /\ phase = "loading" /\ phase' = "refused" /\ trace' = trace /\ config' = config
          /\ workflow_index' = workflow_index /\ arrival_s' = arrival_s
          /\ index' = index /\ by_id' = by_id
          /\ state' = state /\ stack' = stack /\ cursor' = cursor
      BY <2>4 DEF RefuseConfig, search, generator
    <3> QED
      BY <1>1, <3>1 DEF GenIInv, Loaded, Phases, Fresh
  <2>5. CASE Next /\ UNCHANGED generator
    <3>1. CASE phase \in Phases
      BY <1>1, <2>5, <3>1, ValidatorKeepsIt
    <3>2. CASE phase \notin Phases
      BY <2>5, <3>2
         DEF Next, Validate, RejectEmpty, CheckRecord, StartLinks, CheckLinks, StartSearch,
             VisitRequest, VisitDependency, Leave, Accept, Exit, Phases
    <3> QED
      BY <3>1, <3>2
  <2>6. CASE UNCHANGED genVars
    <3>1. /\ phase' = phase /\ trace' = trace /\ config' = config
          /\ workflow_index' = workflow_index /\ arrival_s' = arrival_s
          /\ index' = index /\ by_id' = by_id
          /\ state' = state /\ stack' = stack /\ cursor' = cursor
      BY <2>6 DEF genVars, generator, vars, input, search
    <3>2. Generated' <=> Generated
      BY <3>1, GraphStays DEF Generated
    <3>3. Fresh' <=> Fresh
      BY <3>1 DEF Fresh
    <3>4. Shallow' <=> Shallow
      BY <3>1 DEF Shallow, Id
    <3>5. IInv => IInv'
      BY <3>1, NextKeepsIInv DEF vars, input, search
    <3> QED
      BY <1>1, <3>1, <3>2, <3>3, <3>4, <3>5 DEF GenIInv, Loaded
  <2> QED
    BY <1>1, <2>1, <2>2, <2>3, <2>4, <2>5, <2>6 DEF GenNext
<1> QED
  BY <1>1, GenInitEstablishesIt, PTL DEF GenSpec
-----------------------------------------------------------------------------
(* The shape of a workflow in the trace. *)

LEMMA RequestIsThere ==
  ASSUME Generated, NEW w \in 0 .. workflow_index - 1, NEW n \in Nodes
  PROVE  \E i \in RequestsOf(w) :
           /\ trace[i].request_id = <<w, n>> /\ IsRequest(trace[i], w, n)
           /\ \A j \in DOMAIN trace : trace[j].request_id = <<w, n>> => j = i
<1>1. Holds(trace, workflow_index, arrival_s) /\ DOMAIN trace = 1 .. Len(trace)
  BY ListedProperties DEF Generated, Holds
<1>2. PICK i \in 1 .. Len(trace) : trace[i].request_id = <<w, n>>
  BY <1>1 DEF Holds
<1>3. PICK v \in 0 .. workflow_index - 1, m \in Nodes : IsRequest(trace[i], v, m)
  BY <1>1 DEF Holds
<1>4. v = w /\ m = n
  BY <1>2, <1>3 DEF IsRequest
<1>5. trace[i].workflow = w
  BY <1>3, <1>4 DEF IsRequest
<1>6. ASSUME NEW j \in 1 .. Len(trace), trace[j].request_id = <<w, n>> PROVE j = i
  <2>1. trace[i].request_id = trace[j].request_id
    BY <1>2, <1>6
  <2>2. \A k, l \in 1 .. Len(trace) : k < l => InOrder(trace[k], trace[l])
    BY <1>1 DEF Holds
  <2>3. i < j => trace[i].request_id # trace[j].request_id
    BY <2>2 DEF InOrder
  <2>4. j < i => trace[j].request_id # trace[i].request_id
    BY <2>2 DEF InOrder
  <2> QED
    BY <2>1, <2>3, <2>4
<1> QED
  BY <1>1, <1>2, <1>3, <1>4, <1>5, <1>6 DEF RequestsOf

LEMMA RequestOfWorkflow ==
  ASSUME Generated, NEW w, NEW i \in RequestsOf(w)
  PROVE  /\ i \in 1 .. Len(trace) /\ trace[i].workflow = w
         /\ \E n \in Nodes : IsRequest(trace[i], w, n) /\ trace[i].request_id = <<w, n>>
<1>1. Holds(trace, workflow_index, arrival_s) /\ DOMAIN trace = 1 .. Len(trace)
  BY ListedProperties DEF Generated, Holds
<1>2. i \in 1 .. Len(trace) /\ trace[i].workflow = w
  BY <1>1 DEF RequestsOf
<1>3. PICK v \in 0 .. workflow_index - 1, n \in Nodes : IsRequest(trace[i], v, n)
  BY <1>1, <1>2 DEF Holds
<1> QED
  BY <1>2, <1>3 DEF IsRequest

(* Who waits for a node: the nodes that the graph says. *)
LEMMA DependsMeans ==
  ASSUME Generated, NEW w \in Nat, NEW n \in Nodes, NEW v \in Nat, NEW m \in Nodes,
         NEW i \in DOMAIN trace, NEW j \in DOMAIN trace,
         IsRequest(trace[i], v, m), IsRequest(trace[j], w, n)
  PROVE  Depends(i, j) <=> v = w /\ \E k \in DOMAIN Parents(m) : Parents(m)[k] = n
<1>1. trace[j].request_id = <<w, n>>
  BY DEF IsRequest
<1>2. trace[i].deps = [k \in DOMAIN Parents(m) |-> <<v, Parents(m)[k]>>]
  BY DEF IsRequest
<1>3. ToSet(trace[i].deps) = {<<v, Parents(m)[k]>> : k \in DOMAIN Parents(m)}
  BY <1>2 DEF ToSet
<1> QED
  BY <1>1, <1>3 DEF Depends

LEMMA OneSink ==
  ASSUME Generated, NEW w \in 0 .. workflow_index - 1
  PROVE  \E s : {i \in RequestsOf(w) : IsSink(i)} = {s}
<1>1. Usable(config) /\ Size \in Nat /\ Size - 1 \in Nodes
  BY SizeIs DEF Generated, Nodes
<1>2. PICK s \in RequestsOf(w) :
        /\ IsRequest(trace[s], w, Size - 1)
        /\ \A j \in DOMAIN trace : trace[j].request_id = <<w, Size - 1>> => j = s
  BY <1>1, RequestIsThere
<1>3. s \in DOMAIN trace /\ DOMAIN trace = 1 .. Len(trace)
  BY ListedProperties DEF RequestsOf, Generated, Holds
<1>4. ASSUME NEW j \in DOMAIN trace PROVE ~Depends(j, s)
  <2>1. PICK v \in 0 .. workflow_index - 1, m \in Nodes : IsRequest(trace[j], v, m)
    BY <1>3 DEF Generated, Holds
  <2>2. PICK q \in Nat : Listing(Parents(m), q, m)
    BY <1>1, ParentsAre
  <2>3. m \in Nat /\ m <= Size - 1
    BY <1>1 DEF Nodes
  <2>4. \A k \in DOMAIN Parents(m) : Parents(m)[k] # Size - 1
    BY <1>1, <2>2, <2>3 DEF Listing
  <2>5. ASSUME NEW n \in Nodes, IsRequest(trace[s], w, n)
        PROVE  Depends(j, s) => \E k \in DOMAIN Parents(m) : Parents(m)[k] = n
    <3>1. s \in DOMAIN trace /\ j \in DOMAIN trace
      BY <1>3
    <3>2. IsRequest(trace[s], w, n) /\ IsRequest(trace[j], v, m)
      BY <2>1, <2>5
    <3>3. Depends(j, s) <=> v = w /\ \E k \in DOMAIN Parents(m) : Parents(m)[k] = n
      BY <3>1, <3>2, DependsMeans
    <3> QED
      BY <3>3
  <2> QED
    BY <1>1, <1>2, <2>4, <2>5
<1>5. ASSUME NEW i \in RequestsOf(w), IsSink(i) PROVE i = s
  <2>1. PICK n \in Nodes : IsRequest(trace[i], w, n) /\ trace[i].request_id = <<w, n>>
    BY RequestOfWorkflow
  <2>2. i \in DOMAIN trace
    BY DEF RequestsOf
  <2>3. ASSUME n # Size - 1 PROVE FALSE
    <3>1. PICK c \in Nodes : \E k \in DOMAIN Parents(c) : Parents(c)[k] = n
      BY <1>1, <2>3, SinkIsLast
    <3>2. PICK j \in RequestsOf(w) : IsRequest(trace[j], w, c)
      BY RequestIsThere
    <3>3. j \in DOMAIN trace
      BY DEF RequestsOf
    <3>4. Depends(j, i)
      BY <2>1, <2>2, <3>1, <3>2, <3>3, DependsMeans
    <3> QED
      BY <1>5, <3>3, <3>4 DEF IsSink
  <2> QED
    BY <1>2, <2>1, <2>2, <2>3
<1>6. IsSink(s)
  BY <1>4 DEF IsSink
<1> QED
  BY <1>5, <1>6

LEMMA OneSource ==
  ASSUME Generated, NEW w \in 0 .. workflow_index - 1, config.topology # "debate"
  PROVE  \E s : {i \in RequestsOf(w) : trace[i].deps = <<>>} = {s}
<1>1. Usable(config) /\ 0 \in Nodes
  BY SizeIs DEF Generated, Nodes
<1>2. PICK s \in RequestsOf(w) :
        /\ IsRequest(trace[s], w, 0)
        /\ \A j \in DOMAIN trace : trace[j].request_id = <<w, 0>> => j = s
  BY <1>1, RequestIsThere
<1>3. ASSUME NEW i \in RequestsOf(w) PROVE trace[i].deps = <<>> <=> i = s
  <2>1. PICK n \in Nodes : IsRequest(trace[i], w, n) /\ trace[i].request_id = <<w, n>>
    BY RequestOfWorkflow
  <2>2. /\ trace[i].deps = [k \in DOMAIN Parents(n) |-> <<w, Parents(n)[k]>>]
        /\ i \in DOMAIN trace
    BY <2>1 DEF IsRequest, RequestsOf
  <2>3. trace[i].deps = <<>> <=> DOMAIN Parents(n) = {}
    BY <2>2
  <2>4. n = 0 => i = s
    BY <1>2, <2>1, <2>2
  <2>5. i = s => n = 0
    BY <1>2, <2>1 DEF IsRequest
  <2> QED
    BY <1>1, <2>3, <2>4, <2>5, SourceIsFirst
<1>4. {i \in RequestsOf(w) : trace[i].deps = <<>>} = {s}
  <2> HIDE DEF RequestsOf
  <2>1. \A i \in RequestsOf(w) : trace[i].deps = <<>> <=> i = s
    BY <1>3
  <2> QED
    BY <1>2, <2>1
<1> QED
  BY <1>4

LEMMA OneArrival ==
  ASSUME Generated, NEW w \in 0 .. workflow_index - 1
  PROVE  \E a : {trace[i].arrival : i \in RequestsOf(w)} = {a}
<1>1. Usable(config) /\ 0 \in Nodes
  BY SizeIs DEF Generated, Nodes
<1>2. PICK s \in RequestsOf(w) : TRUE
  BY <1>1, RequestIsThere
<1>3. ASSUME NEW i \in RequestsOf(w) PROVE trace[i].arrival = trace[s].arrival
  <2>1. /\ i \in 1 .. Len(trace) /\ s \in 1 .. Len(trace)
        /\ trace[i].workflow = trace[s].workflow
    BY RequestOfWorkflow
  <2>2. i < s => trace[i].arrival = trace[s].arrival
    BY <2>1 DEF Generated, Holds, InOrder
  <2>3. s < i => trace[i].arrival = trace[s].arrival
    BY <2>1 DEF Generated, Holds, InOrder
  <2>4. i < s \/ s < i \/ i = s
    BY <2>1
  <2> QED
    BY <2>2, <2>3, <2>4
<1> QED
  BY <1>2, <1>3

LEMMA GeneratedIsJoined ==
  ASSUME Generated, workflow_index = config.workflows
  PROVE  WorkflowsAreJoined
<1>1. \A s : Cardinality({s}) = 1
  BY FS_Singleton
<1>2. ASSUME NEW w \in 0 .. config.workflows - 1
      PROVE  /\ Cardinality({i \in RequestsOf(w) : IsSink(i)}) = 1
             /\ config.topology # "debate" =>
                  Cardinality({i \in RequestsOf(w) : trace[i].deps = <<>>}) = 1
             /\ Cardinality({trace[i].arrival : i \in RequestsOf(w)}) = 1
  BY <1>1, OneSink, OneSource, OneArrival
<1>3. ASSUME NEW i \in DOMAIN trace, NEW j \in DOMAIN trace, i <= j
      PROVE  trace[i].arrival <= trace[j].arrival
  <2>1. Holds(trace, workflow_index, arrival_s) /\ DOMAIN trace = 1 .. Len(trace)
    BY ListedProperties DEF Generated, Holds
  <2>2. i < j => trace[i].arrival <= trace[j].arrival
    BY <2>1 DEF Holds, InOrder
  <2>3. trace[i].arrival \in Nat
    BY <2>1 DEF Holds, IsRequest
  <2> QED
    BY <1>3, <2>1, <2>2, <2>3
<1> QED
  BY <1>2, <1>3 DEF WorkflowsAreJoined

-----------------------------------------------------------------------------
(* The theorems. *)

(* While a trace is generated it holds so many whole workflows as the loop   *)
(* has gone through, and before a configuration is accepted there is none    *)
(* (trace.py generate_trace).                                                *)
THEOREM GenTypeCorrect == GenSpec => []GenTypeOK
<1>1. GenIInv => GenTypeOK
  BY DEF GenIInv, Generated, GenTypeOK, Loaded, Phases
<1> QED
  BY <1>1, GenInvariance, PTL

(* Whatever file is loaded, a configuration that from_mapping accepts gives  *)
(* the generator and the scheduler what they take for granted                *)
(* (config.py BenchmarkConfig.from_mapping).                                 *)
THEOREM ConfigsAreUsable == GenSpec => []AcceptedConfigIsUsable
<1>1. GenIInv => AcceptedConfigIsUsable
  BY DEF GenIInv, Generated, Usable, AcceptedConfigIsUsable
<1> QED
  BY <1>1, GenInvariance, PTL

(* For every accepted configuration, of every topology and size, and every   *)
(* draw, validate_trace accepts what generate_trace built.                   *)
THEOREM GeneratedTracesAreValid == GenSpec => []GeneratedTraceIsValid
<1>1. GenIInv => GeneratedTraceIsValid
  BY DEF GenIInv, GeneratedTraceIsValid, Phases
<1> QED
  BY <1>1, GenInvariance, PTL

(* On a generated trace, however long its chains, a call that visit makes    *)
(* returns at once, since its dependency is finished: no call goes deeper    *)
(* (trace.py validate_trace).                                                *)
THEOREM SearchIsShallow == GenSpec => []SearchStaysShallow
<1>1. GenIInv => SearchStaysShallow
  <2> SUFFICES ASSUME GenIInv PROVE Len(stack) <= 1
    BY DEF SearchStaysShallow
  <2>1. Len(<<>>) = 0
    OBVIOUS
  <2>2. stack = <<>> => Len(stack) = 0
    BY <2>1, Zenon
  <2>3. Len(stack) = 0 \/ Len(stack) = 1
    BY <2>2 DEF GenIInv, Shallow, Fresh
  <2>4. 0 <= 1 /\ 1 <= 1
    OBVIOUS
  <2> QED
    BY <2>3, <2>4, Zenon
<1> QED
  BY <1>1, GenInvariance, PTL

(* Every accepted workflow ends in one request that no other waits for,      *)
(* starts with one unless it is a debate, and arrives at one instant, in the *)
(* order of the trace (trace.py _workflow_graph, generate_trace).            *)
THEOREM WorkflowsJoined == GenSpec => []WorkflowsAreJoined
<1>1. GenIInv => WorkflowsAreJoined
  <2>1. phase = "accepted" => phase \in Phases
    BY DEF Phases
  <2> QED
    BY <2>1, GeneratedIsJoined DEF GenIInv, Loaded, WorkflowsAreJoined
<1> QED
  BY <1>1, GenInvariance, PTL
=============================================================================
