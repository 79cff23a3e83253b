------------------------------- MODULE Metrics -------------------------------
(***************************************************************************)
(* summarize of metrics.py: the report on a log of events.                 *)
(*                                                                         *)
(* Times are whole milliseconds and a quotient of them is rounded down; a  *)
(* ratio is the pair of its numerator and denominator, None when the       *)
(* denominator is zero.  An event is a record of the fields read here;     *)
(* None is a field that is null.                                           *)
(*                                                                         *)
(* Definitions marked "slip" are plausible mistakes, used by no            *)
(* specification.                                                          *)
(***************************************************************************)
EXTENDS Integers, FiniteSets, SequencesExt

CONSTANT None

(* sorted(values): the places of the values, one of a lesser value first.    *)
Sorting(values) ==
  CHOOSE place \in [1 .. Cardinality(DOMAIN values) -> DOMAIN values] :
    /\ IsInjective(place)
    /\ \A i, j \in DOMAIN place : i < j => values[place[i]] <= values[place[j]]

(* Slip: the rank is rounded down. *)
PercentileBelow(values, hundredths) ==
  LET n == Cardinality(DOMAIN values)
  IN  IF n = 0 THEN None ELSE values[Sorting(values)[Max({1, (hundredths * n) \div 100})]]

(* The element of rank ceil(fraction * n), counted from 1. *)
Percentile(values, hundredths) ==
  LET n == Cardinality(DOMAIN values)
  IN  IF n = 0 THEN None ELSE values[Sorting(values)[Max({1, (hundredths * n + 99) \div 100})]]

Ratio(numerator, denominator) ==
  IF denominator = 0 THEN None ELSE <<numerator, denominator>>

(* (sum x)^2 / (n * sum x^2), over the tenants' outcomes *)
JainIndex(outcome) ==
  LET total   == SumFunction(outcome)
      squared == SumFunction([t \in DOMAIN outcome |-> outcome[t] * outcome[t]])
  IN  Ratio(total * total, Cardinality(DOMAIN outcome) * squared)
-----------------------------------------------------------------------------
(* A list of events is the set of their places in the log. *)

Successes(events) == {i \in DOMAIN events : events[i].success}

(* Those that report every one of the fields, and the sum of a field. *)
Reporting(events, places, fields) ==
  {i \in places : \A f \in fields : events[i][f] # None}
Observed(events, f) == Reporting(events, DOMAIN events, {f})
Values(events, f)   == [i \in Observed(events, f) |-> events[i][f]]

Sum(events, places, f) == SumFunction([i \in places |-> events[i][f]])
SumOrNone(events, f) ==
  IF Observed(events, f) = {} THEN None ELSE Sum(events, Observed(events, f), f)

Ttft(e)    == e.first_token_s - e.start_s
E2e(e)     == e.end_s - e.start_s
Tpot(e)    == (e.end_s - e.first_token_s) \div (e.output_tokens - 1)
HasTpot(e) == e.output_tokens # None /\ e.output_tokens > 1 /\ e.first_token_s # None

(* The events of one workflow, as a set. *)
Workflows(events) == {events[i].workflow_id : i \in DOMAIN events}
Flow(events, w)   == {e \in ToSet(events) : e.workflow_id = w}
Complete(flow)    == \A e \in flow : e.success
Latency(flow)     == Max({e.end_s : e \in flow}) - Min({e.arrival_s : e \in flow})
Window(events)    == IF events = <<>> THEN 0 ELSE Latency(ToSet(events))

Unmeasured(e) ==
  None \in {e.deadline_ms, e.first_token_s, e.ttft_slo_ms, e.tpot_slo_ms, e.output_tokens}

MeetsTokenSlos(e) ==
  /\ Ttft(e) <= e.ttft_slo_ms
  /\ e.output_tokens > 1 =>
       e.end_s - e.first_token_s <= e.tpot_slo_ms * (e.output_tokens - 1)

(* Slip: a limit that cannot be checked is taken as met. *)
WorkflowSloUnmeasuredIsMet(flow) ==
  IF ~Complete(flow) THEN "violated"
  ELSE IF /\ \A e \in flow : Latency(flow) <= e.deadline_ms
          /\ \A e \in flow : Unmeasured(e) \/ MeetsTokenSlos(e)
       THEN "satisfied"
  ELSE "violated"

(* _workflow_slo: (TRUE, FALSE) is "violated", (TRUE, TRUE) "satisfied", and *)
(* (FALSE, FALSE) "unevaluable".                                             *)
WorkflowSlo(flow) ==
  IF ~Complete(flow) THEN "violated"
  ELSE IF \E e \in flow : Unmeasured(e) THEN "unevaluable"
  ELSE IF /\ \A e \in flow : Latency(flow) <= e.deadline_ms
          /\ \A e \in flow : MeetsTokenSlos(e)
       THEN "satisfied"
  ELSE "violated"
-----------------------------------------------------------------------------
Percentiles(ps, values) == [p \in ps |-> Percentile(values, p)]

(* Slip: a workflow is complete when one of its requests succeeded. *)
CompletedSome(events) ==
  {w \in Workflows(events) : \E e \in Flow(events, w) : e.success}

Completed(events) == {w \in Workflows(events) : Complete(Flow(events, w))}

WithVerdict(events, verdicts) ==
  {w \in Workflows(events) : WorkflowSlo(Flow(events, w)) \in verdicts}

(* The tenant of the workflow's first event. *)
Owner(events, w) == events[Min({i \in DOMAIN events : events[i].workflow_id = w})].tenant_id

(* Every tenant of the log counts, also those that completed nothing. *)
TenantsIn(events) == {events[i].tenant_id : i \in DOMAIN events}

CompletedOf(events) ==
  [t \in TenantsIn(events) |-> Cardinality({w \in Completed(events) : Owner(events, w) = t})]

TokensOf(events) ==
  [t \in TenantsIn(events) |->
     Sum(events, {i \in Reporting(events, Successes(events), {"output_tokens"}) :
                    events[i].tenant_id = t}, "output_tokens")]

(* observed_usage, and usage_complete *)
Usage(events) == Reporting(events, Successes(events), {"prompt_tokens", "output_tokens"})
UsageIsComplete(events) == Successes(events) # {} /\ Usage(events) = Successes(events)

Summary(events) ==
  LET total     == Len(events)
      successes == Successes(events)
      count     == Cardinality(successes)
      usage     == Usage(events)
      cache     == Reporting(events, successes, {"prompt_tokens", "cache_hit_tokens"})
      spec      == Reporting(events, successes, {"speculative_proposed", "speculative_accepted"})
      measured  == Reporting(events, successes, {"first_token_s"})
      paced     == {i \in successes : HasTpot(events[i])}
      flows     == Workflows(events)
      done      == Completed(events)
      satisfied == WithVerdict(events, {"satisfied"})
      evaluable == WithVerdict(events, {"satisfied", "violated"})
      window    == Window(events)
      Tokens(f) == IF UsageIsComplete(events) THEN Sum(events, usage, f) ELSE None
  IN  [total |-> total, successful |-> count,
       success_rate |-> Ratio(count, total),
       throughput_requests_s |-> Ratio(count, window),
       throughput_output_tokens_s |->
         IF UsageIsComplete(events) THEN Ratio(Tokens("output_tokens"), window) ELSE None,
       ttft |-> Percentiles({50, 95, 99}, [i \in measured |-> Ttft(events[i])]),
       tpot |-> Percentiles({50, 95}, [i \in paced |-> Tpot(events[i])]),
       request_e2e |-> Percentiles({95}, [i \in successes |-> E2e(events[i])]),
       admission_wait |-> Percentiles({50, 95}, Values(events, "admission_wait_ms")),
       workflow_e2e |-> Percentiles({50, 95, 99}, [w \in done |-> Latency(Flow(events, w))]),
       workflows |-> flows, completed |-> done,
       slo_evaluable |-> evaluable, slo_satisfied |-> satisfied,
       slo_attainment_rate |-> Ratio(Cardinality(satisfied), Cardinality(flows)),
       slo_goodput |-> Ratio(Cardinality(satisfied), window),
       prompt_tokens |-> Tokens("prompt_tokens"), output_tokens |-> Tokens("output_tokens"),
       token_usage_coverage |-> Ratio(Cardinality(usage), count),
       kv_cache_hit_ratio |->
         Ratio(Sum(events, cache, "cache_hit_tokens"), Sum(events, cache, "prompt_tokens")),
       kv_cache_coverage |-> Ratio(Cardinality(cache), count),
       speculative_acceptance |->
         Ratio(Sum(events, spec, "speculative_accepted"),
               Sum(events, spec, "speculative_proposed")),
       speculation_coverage |-> Ratio(Cardinality(spec), count),
       recovery |-> Percentiles({95}, Values(events, "fault_recovery_ms")),
       cross_tenant_cache_hits |-> SumOrNone(events, "cross_tenant_cache_hits"),
       security_violations |-> SumOrNone(events, "security_violations"),
       security_coverage |-> Ratio(Cardinality(Observed(events, "security_violations")), total),
       workflow_fairness |-> JainIndex(CompletedOf(events)),
       token_fairness |-> JainIndex(TokensOf(events))]
=============================================================================
