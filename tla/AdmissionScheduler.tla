------------------------- MODULE AdmissionScheduler -------------------------
(***************************************************************************)
(* AdmissionScheduler of scheduler.py: an asyncio.Condition, a dictionary  *)
(* of waiting requests and the counters that rank them.                    *)
(*                                                                         *)
(* A step is one turn of one coroutine on the event loop.  No critical     *)
(* section awaits anything but the condition itself, so the lock is free   *)
(* whenever a turn begins and a turn is atomic: acquire up to its first    *)
(* wait or its return, a waiter from its wake-up to its next wait or its   *)
(* return, release as a whole.  Woken waiters run in any order.            *)
(*                                                                         *)
(* A definition marked "slip" is a plausible wrong form of the one below   *)
(* it; no specification uses it.  It shows what a property would catch.    *)
(***************************************************************************)
EXTENDS TraceDag

CONSTANTS
  EndpointList,     (* engine.endpoints, in configuration order             *)
  Capacity,         (* batching.client_max_concurrency                      *)
  Policy,           (* resource_scheduling.policy                           *)
  Isolation,        (* multi_tenancy_security.cache_isolation               *)
  WeightOverrides,  (* resource_scheduling.weights, in hundredths           *)
  TenantHash,       (* the number sha256 gives a tenant id                  *)
  Scale,            (* a ratio in [0, 1] is a number of Scale-ths           *)
  MaxTime,          (* bound on the clock                                   *)
  None              (* no endpoint chosen                                   *)

Endpoints == {EndpointList[i] : i \in 1 .. Len(EndpointList)}

ASSUME SchedulerAssumption ==
  /\ Len(EndpointList) \in Nat \ {0}
  /\ \A i, j \in 1 .. Len(EndpointList) : EndpointList[i] = EndpointList[j] => i = j
  /\ None \notin Endpoints
  /\ Capacity \in Nat \ {0}
  /\ Policy \in {"round_robin", "tenant_affinity", "workflow_cache_fair"}
  /\ Isolation \in {"none", "per_tenant", "per_tenant_salt"}
  /\ \A t \in Tenants : TenantHash[t] \in Nat
  /\ Scale \in Nat \ {0}
  /\ MaxTime \in Nat

(* A name is the sequence of its parts. *)
ASSUME NamesAssumption ==
  \A r \in Requests : Record[r].domain \in Seq(STRING) /\ Record[r].prefix \in Seq(STRING)

(* from_mapping refuses a weight below zero. *)
ASSUME WeightsAssumption ==
  \A k \in DOMAIN WeightOverrides : WeightOverrides[k] \in Nat

VARIABLES
  now,             (* time.monotonic() - origin                             *)
  loc,             (* where the coroutine of each request is                *)
  assigned,        (* the endpoint of the decision each request holds       *)
  waiting,         (* keys of _waiting                                      *)
  active,          (* _active                                               *)
  endpointActive,  (* _endpoint_active                                      *)
  attempts,        (* _endpoint_attempts                                    *)
  failures,        (* _endpoint_failures                                    *)
  tenantService,   (* _tenant_service                                       *)
  resident         (* _resident_prefixes                                    *)

predictor == <<attempts, failures, resident>>
slots     == <<assigned, active, endpointActive, tenantService>>
vars      == <<now, loc, waiting, slots, predictor>>

(* "parked": in Condition.wait, not notified; "woken": notified, its turn to *)
(* come; "outside": acquire not called; the last three are final.            *)
Places == {"outside", "parked", "woken", "admitted", "succeeded", "failed", "withdrawn"}

Admitted    == {r \in Requests : loc[r] = "admitted"}
OnEndpoint(e) == {r \in Admitted : assigned[r] = e}
-----------------------------------------------------------------------------
(* Cache keys and predicted locality. *)

(* Slip: the security domain is left out of the key. *)
CacheKeyAcrossDomains(r) == <<"global">> \o Record[r].prefix

CacheKey(r) ==
  (IF Isolation = "none" THEN <<"global">> ELSE Record[r].domain) \o Record[r].prefix

CacheKeys == {CacheKey(r) : r \in Requests}

Ratio(a, b) == (Scale * a) \div b

CacheAffinity(r, e) ==
  IF CacheKey(r) \in resident[e] THEN Ratio(Record[r].shared, Record[r].prompt) ELSE 0
-----------------------------------------------------------------------------
(* The Workflow-Cache-Fair score, in fixed point. *)

DEFAULT_WEIGHTS ==
  [criticality |-> 35, tenant_deficit |-> 25, cache_locality |-> 20,
   service_cost |-> 8, failure_risk |-> 7, endpoint_load |-> 5]

(* Slip: the configured weights are not used. *)
WeightsAsDefault == DEFAULT_WEIGHTS

Weights ==
  [k \in DOMAIN DEFAULT_WEIGHTS |->
     IF k \in DOMAIN WeightOverrides THEN WeightOverrides[k] ELSE DEFAULT_WEIGHTS[k]]

WorkflowAge(r) == Max({0, now - Record[r].arrival})

Urgency(r) == Min({2 * Scale, Ratio(WorkflowAge(r), Record[r].deadline)})

(* In hundredths of Scale. *)
Criticality(r) ==
  LET path     == Ratio(RemainingWork[r], MaxRemaining)
      fanout   == Ratio(Cardinality(Children(r)), Max({MaxChildren, 1}))
      terminal == IF Children(r) = {} THEN Scale ELSE 0
  IN  45 * path + 25 * Urgency(r) + 15 * fanout + 15 * terminal

TenantDeficit(r) ==
  LET most == Max({tenantService[t] : t \in Tenants})
  IN  Ratio(most - tenantService[Tenant(r)], Max({most, MaxCost}))

FailureRisk(e) == Ratio(failures[e], Max({attempts[e], 1}))

EndpointLoad(e) ==
  Min({Scale, Ratio(endpointActive[e] * Len(EndpointList),
                    Max({Capacity, Len(EndpointList)}))})

Score(r, e) ==
  Weights.criticality * Criticality(r)
    + 100 * (Weights.tenant_deficit * TenantDeficit(r)
             + Weights.cache_locality * CacheAffinity(r, e)
             - Weights.service_cost * Ratio(ServiceCost(r), MaxCost)
             - Weights.failure_risk * FailureRisk(e)
             - Weights.endpoint_load * EndpointLoad(e))
-----------------------------------------------------------------------------
(* best_decision: which request is served next, and where. *)

EndpointIndex(e) == CHOOSE i \in 1 .. Len(EndpointList) : EndpointList[i] = e

(* Slip: equals are not told apart. *)
BeatsIgnoringOrder(q, f, r, e) == Score(q, f) > Score(r, e)

(* max() over (score, -sequence index); of equals it keeps the first. *)
Beats(q, f, r, e) ==
  \/ Score(q, f) > Score(r, e)
  \/ /\ Score(q, f) = Score(r, e)
     /\ \/ Seq0(q) < Seq0(r)
        \/ q = r /\ EndpointIndex(f) < EndpointIndex(e)

WorkflowCacheFairBest(queue, r, e) ==
  \A q \in queue : \A f \in Endpoints : ~Beats(q, f, r, e)

BaselineEndpoint(r) ==
  LET key == IF Policy = "round_robin" THEN Seq0(r) ELSE TenantHash[Tenant(r)]
  IN  EndpointList[(key % Len(EndpointList)) + 1]

FirstInTrace(queue, r) == \A q \in queue : Seq0(r) <= Seq0(q)

BestDecision(queue, r, e) ==
  /\ r \in queue
  /\ e \in Endpoints
  /\ IF Policy = "workflow_cache_fair"
       THEN WorkflowCacheFairBest(queue, r, e)
       ELSE FirstInTrace(queue, r) /\ e = BaselineEndpoint(r)
-----------------------------------------------------------------------------
(* Slip: the notification is forgotten. *)
NotifyNobody(places) == places

(* Condition.notify_all: every pending waiter's turn will come. *)
NotifyAll(places) ==
  [q \in Requests |-> IF places[q] = "parked" THEN "woken" ELSE places[q]]

(* Slip: one slot too many. *)
SlotFreeOrOneOver == active <= Capacity

SlotFree == active < Capacity

Chosen(queue, r, e) == SlotFree /\ BestDecision(queue, r, e)

(* Slip: the tenant is not charged. *)
ReserveSlotOnly(r, e) ==
  /\ assigned' = [assigned EXCEPT ![r] = e]
  /\ active' = active + 1
  /\ endpointActive' = [endpointActive EXCEPT ![e] = @ + 1]
  /\ UNCHANGED tenantService

ReserveSlot(r, e) ==
  /\ assigned' = [assigned EXCEPT ![r] = e]
  /\ active' = active + 1
  /\ endpointActive' = [endpointActive EXCEPT ![e] = @ + 1]
  /\ tenantService' = [tenantService EXCEPT ![Tenant(r)] = @ + ServiceCost(r)]

(* One pass of the loop in acquire by the coroutine of r, the queue and the *)
(* other coroutines being as given: it is admitted, or it parks.            *)
TryAdmit(r, queue, places) ==
  /\ \/ \E e \in Endpoints :
          /\ Chosen(queue, r, e)
          /\ ReserveSlot(r, e)
          /\ waiting' = queue \ {r}
          /\ loc' = [places EXCEPT ![r] = "admitted"]
     \/ /\ \A e \in Endpoints : ~Chosen(queue, r, e)
        /\ waiting' = queue
        /\ loc' = [places EXCEPT ![r] = "parked"]
        /\ UNCHANGED slots
  /\ UNCHANGED <<now, predictor>>

Acquire(r) ==
  /\ loc[r] = "outside"
  /\ TryAdmit(r, waiting \cup {r}, NotifyAll(loc))

Wake(r) ==
  /\ loc[r] = "woken"
  /\ TryAdmit(r, waiting, loc)

(* Slip: a cancelled coroutine stays in _waiting. *)
WithdrawAsGhost(r) ==
  /\ loc[r] \in {"parked", "woken"}
  /\ loc' = NotifyAll([loc EXCEPT ![r] = "withdrawn"])
  /\ UNCHANGED <<now, waiting, slots, predictor>>

(* Slip: a cancelled coroutine notifies nobody. *)
WithdrawQuietly(r) ==
  /\ loc[r] \in {"parked", "woken"}
  /\ waiting' = waiting \ {r}
  /\ loc' = [loc EXCEPT ![r] = "withdrawn"]
  /\ UNCHANGED <<now, slots, predictor>>

(* The coroutine is cancelled inside acquire, notified or not. *)
Withdraw(r) ==
  /\ loc[r] \in {"parked", "woken"}
  /\ waiting' = waiting \ {r}
  /\ loc' = NotifyAll([loc EXCEPT ![r] = "withdrawn"])
  /\ UNCHANGED <<now, slots, predictor>>

(* Slip: the endpoint's count is not reduced. *)
FreeGlobalSlotOnly(r) ==
  /\ active' = active - 1
  /\ UNCHANGED <<endpointActive, assigned, tenantService>>

FreeSlot(r) ==
  /\ active' = active - 1
  /\ endpointActive' = [endpointActive EXCEPT ![assigned[r]] = @ - 1]
  /\ UNCHANGED <<assigned, tenantService>>

(* Slip: only successes count as attempts. *)
CountSuccessesOnly(r, ok) ==
  /\ attempts' = IF ok THEN [attempts EXCEPT ![assigned[r]] = @ + 1] ELSE attempts
  /\ failures' = IF ok THEN failures ELSE [failures EXCEPT ![assigned[r]] = @ + 1]
  /\ UNCHANGED resident

(* Slip: a failed call makes the prefix resident. *)
LearnPrefixAlways(r, ok) ==
  /\ attempts' = [attempts EXCEPT ![assigned[r]] = @ + 1]
  /\ resident' = [resident EXCEPT ![assigned[r]] = @ \cup {CacheKey(r)}]
  /\ failures' = IF ok THEN failures ELSE [failures EXCEPT ![assigned[r]] = @ + 1]

Learn(r, ok) ==
  /\ attempts' = [attempts EXCEPT ![assigned[r]] = @ + 1]
  /\ IF ok
       THEN /\ resident' = [resident EXCEPT ![assigned[r]] = @ \cup {CacheKey(r)}]
            /\ UNCHANGED failures
       ELSE /\ failures' = [failures EXCEPT ![assigned[r]] = @ + 1]
            /\ UNCHANGED resident

Release(r, ok) ==
  /\ loc[r] = "admitted"
  /\ FreeSlot(r)
  /\ Learn(r, ok)
  /\ loc' = NotifyAll([loc EXCEPT ![r] = IF ok THEN "succeeded" ELSE "failed"])
  /\ UNCHANGED <<now, waiting>>

(* The monotonic clock, which passes between any two turns. *)
Tick ==
  /\ now < MaxTime
  /\ now' = now + 1
  /\ UNCHANGED <<loc, waiting, slots, predictor>>

(* Every caller is gone. *)
Idle ==
  /\ \A r \in Requests : loc[r] \in {"succeeded", "failed", "withdrawn"}
  /\ UNCHANGED vars

Init ==
  /\ now = 0
  /\ loc = [r \in Requests |-> "outside"]
  /\ assigned = [r \in Requests |-> None]
  /\ waiting = {}
  /\ active = 0
  /\ endpointActive = [e \in Endpoints |-> 0]
  /\ attempts = [e \in Endpoints |-> 0]
  /\ failures = [e \in Endpoints |-> 0]
  /\ tenantService = [t \in Tenants |-> 0]
  /\ resident = [e \in Endpoints |-> {}]

Next ==
  \/ \E r \in Requests : Acquire(r)
  \/ \E r \in Requests : Wake(r)
  \/ \E r \in Requests : Withdraw(r)
  \/ \E r \in Requests, ok \in BOOLEAN : Release(r, ok)
  \/ Tick
  \/ Idle

Spec == Init /\ [][Next]_vars

(* The event loop runs every coroutine whose turn has come, and every call   *)
(* to an endpoint ends: it is answered, it fails or it times out.            *)
Fairness ==
  \A r \in Requests :
    /\ WF_vars(Wake(r))
    /\ WF_vars(\E ok \in BOOLEAN : Release(r, ok))

FairSpec == Spec /\ Fairness
-----------------------------------------------------------------------------
(* Properties. *)

(* Every variable has the type of the attribute it stands for. *)
TypeOK ==
  /\ now \in 0 .. MaxTime
  /\ loc \in [Requests -> Places]
  /\ assigned \in [Requests -> Endpoints \cup {None}]
  /\ waiting \subseteq Requests
  /\ active \in 0 .. Capacity
  /\ endpointActive \in [Endpoints -> 0 .. Capacity]
  /\ attempts \in [Endpoints -> Nat]
  /\ failures \in [Endpoints -> Nat]
  /\ tenantService \in [Tenants -> Nat]
  /\ resident \in [Endpoints -> SUBSET CacheKeys]

(* _waiting holds exactly the requests whose coroutines are inside acquire:  *)
(* a cancelled coroutine leaves no entry behind for best_decision to elect.  *)
QueueMatchesCallers ==
  waiting = {r \in Requests : loc[r] \in {"parked", "woken"}}

(* The counters that guard admission agree with the coroutines that hold     *)
(* slots, in total and per endpoint, on every path out of a slot.            *)
SlotAccounting ==
  /\ active = Cardinality(Admitted)
  /\ \A e \in Endpoints : endpointActive[e] = Cardinality(OnEndpoint(e))
  /\ \A r \in Requests :
       loc[r] \in {"admitted", "succeeded", "failed"} <=> assigned[r] # None

Finished(e, ends) == {r \in Requests : assigned[r] = e /\ loc[r] \in ends}

(* The predictor's state is what the finished calls justify: every attempt   *)
(* and failure counted once at the endpoint that served it, and a prefix     *)
(* resident only where a call that carries it succeeded.                     *)
PredictorMatchesHistory ==
  \A e \in Endpoints :
    /\ attempts[e] = Cardinality(Finished(e, {"succeeded", "failed"}))
    /\ failures[e] = Cardinality(Finished(e, {"failed"}))
    /\ resident[e] = {CacheKey(r) : r \in Finished(e, {"succeeded"})}

(* The service a tenant is charged with is the cost of the requests it had   *)
(* admitted, whatever became of them: the deficit that ranks tenants is not  *)
(* distorted by failures, withdrawals or double admissions.                  *)
ServiceMatchesAdmissions ==
  \A t \in Tenants :
    tenantService[t] =
      MapThenSumSet(ServiceCost,
                    {r \in Requests : Tenant(r) = t /\ assigned[r] # None})

(* A nonempty queue has one best request and endpoint: ranking never stalls  *)
(* on a tie and does not depend on the order of the dictionary.              *)
DecisionIsUnique ==
  waiting # {} =>
    \E c \in waiting \X Endpoints :
      \A d \in waiting \X Endpoints : BestDecision(waiting, d[1], d[2]) <=> d = c

(* One name begins with the other. *)
Nested(p, q) == \A i \in DOMAIN p \cap DOMAIN q : p[i] = q[i]

(* Under a cache-isolating configuration the predictor credits an endpoint   *)
(* with a request's prefix only if a request succeeded there whose domain is *)
(* the same, and then its prefix too, or one domain is the other one with    *)
(* more parts: "a:b" and "a" are not told apart by the joined key.  Domains  *)
(* none of which begins another, as generate_trace makes them, are isolated. *)
LocalityStaysInNestedDomains ==
  Isolation # "none" =>
    \A r \in Requests, e \in Endpoints :
      CacheAffinity(r, e) > 0 =>
        \E q \in Finished(e, {"succeeded"}) :
          /\ Nested(Record[q].domain, Record[r].domain)
          /\ Record[q].domain = Record[r].domain => Record[q].prefix = Record[r].prefix

(* With every slot free, a request that would be chosen is not left asleep:  *)
(* its turn is on its way.  Nothing else would ever wake it.                 *)
NoLostWakeup ==
  active = 0 =>
    \A r \in waiting :
      (\E e \in Endpoints : BestDecision(waiting, r, e)) => loc[r] = "woken"

(* ARCHITECTURE.md:39: "The scheduler is work-conserving: when capacity is   *)
(* available, it scores every waiting request/endpoint pair and admits the   *)
(* highest score".  Free capacity and a queue imply a turn to come.          *)
WorkConserving ==
  active < Capacity /\ waiting # {} => \E r \in waiting : loc[r] = "woken"

(* A request that waits in acquire is selected in the end (or its coroutine  *)
(* is cancelled).                                                            *)
AdmissionProgress == \A r \in Requests : (r \in waiting) ~> (r \notin waiting)

(* The scheduler implements bounded admission, its fairness included. *)
Admission == INSTANCE BoundedAdmission WITH
  queued <- waiting,
  holding <- Admitted,
  left <- {r \in Requests : loc[r] \in {"succeeded", "failed", "withdrawn"}}

ImplementsBoundedAdmission == Admission!FairSpec
=============================================================================
