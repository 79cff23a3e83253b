------------------------------- MODULE Replay -------------------------------
(***************************************************************************)
(* run_trace and _execute_record of runner.py: one coroutine per        *)
(* request sleeps until its arrival, joins its dependencies, asks the      *)
(* scheduler for a slot, calls the endpoint and records what came of it.   *)
(* run_trace gathers the coroutines and writes their results.           *)
(*                                                                         *)
(* A step is again one turn on the event loop.  The call itself            *)
(* (_call_endpoint) is the time between Acquire and Release; it returns a  *)
(* result that says success or failure, or it raises.                      *)
(*                                                                         *)
(* Definitions marked "slip" are as in AdmissionScheduler.                 *)
(***************************************************************************)
EXTENDS AdmissionScheduler

CONSTANTS TimeNum, TimeDen   (* time_scale is TimeNum / TimeDen *)

ASSUME TimeScaleAssumption == TimeNum \in Nat \ {0} /\ TimeDen \in Nat \ {0}

VARIABLES
  stage,     (* where _execute_record is, for each request                 *)
  outcomes,  (* the dictionary outcomes: absent, TRUE or FALSE             *)
  done,      (* the requests whose event in done is set                    *)
  result,    (* what _execute_record returned                              *)
  phase      (* where run_trace is                                      *)

records    == <<stage, outcomes, done, result>>
replayVars == <<vars, records, phase>>

Stages  == {"sleeping", "joining", "calling", "returned", "raised", "cancelled"}
Results == {"none", "success", "failure", "dependency_failed"}

(* "closing": gather has raised and the client is being closed while the     *)
(* other coroutines go on; "cancelling": every coroutine left is cancelled,  *)
(* by asyncio.run on its way out or by an interrupt; the last two are final. *)
Phases == {"running", "closing", "cancelling", "crashed", "written"}

Ended == {"returned", "raised", "cancelled"}
Live  == phase \in {"running", "closing"}
-----------------------------------------------------------------------------
SleepIsOver(r) == TimeNum * now >= TimeDen * Record[r].arrival

(* The coroutine has slept, and has something to wait for. *)
StartJoin(r) ==
  /\ Live
  /\ stage[r] = "sleeping" /\ SleepIsOver(r)
  /\ Deps(r) # {}
  /\ stage' = [stage EXCEPT ![r] = "joining"]
  /\ UNCHANGED <<vars, outcomes, done, result, phase>>

(* Slip: one dependency is waited for. *)
JoinedSome(r) ==
  \/ stage[r] = "sleeping" /\ SleepIsOver(r) /\ Deps(r) = {}
  \/ stage[r] = "joining" /\ Deps(r) \cap done # {}

(* The turn in which nothing is left to wait for. *)
Joined(r) ==
  \/ stage[r] = "sleeping" /\ SleepIsOver(r) /\ Deps(r) = {}
  \/ stage[r] = "joining" /\ Deps(r) \subseteq done

(* Slip: any() for all(). *)
OneDependencySucceeded(r) ==
  Deps(r) = {} \/ \E d \in Deps(r) : outcomes[d] = "TRUE"

DependenciesSucceeded(r) == \A d \in Deps(r) : outcomes[d] = "TRUE"

(* Slip: the event is not set. *)
RecordWithoutEvent(r, outcome, res) ==
  /\ outcomes' = [outcomes EXCEPT ![r] = outcome]
  /\ UNCHANGED done
  /\ result' = [result EXCEPT ![r] = res]
  /\ stage' = [stage EXCEPT ![r] = "returned"]
  /\ UNCHANGED phase

(* outcomes[request_id] = ...; done[request_id].set(); return result *)
RecordOutcome(r, outcome, res) ==
  /\ outcomes' = [outcomes EXCEPT ![r] = outcome]
  /\ done' = done \cup {r}
  /\ result' = [result EXCEPT ![r] = res]
  /\ stage' = [stage EXCEPT ![r] = "returned"]
  /\ UNCHANGED phase

FailOnDependency(r) ==
  /\ Live
  /\ Joined(r)
  /\ ~DependenciesSucceeded(r)
  /\ RecordOutcome(r, "FALSE", "dependency_failed")
  /\ UNCHANGED vars

Enqueue(r) ==
  /\ Live
  /\ Joined(r)
  /\ DependenciesSucceeded(r)
  /\ Acquire(r)
  /\ stage' = [stage EXCEPT ![r] = "calling"]
  /\ UNCHANGED <<outcomes, done, result, phase>>

Requeue(r) ==
  /\ Live
  /\ Wake(r)
  /\ UNCHANGED <<records, phase>>

Return(r, ok) ==
  /\ Live
  /\ Release(r, ok)
  /\ IF ok THEN RecordOutcome(r, "TRUE", "success")
           ELSE RecordOutcome(r, "FALSE", "failure")

(* Slip: the exception leaves without the slot being released. *)
RaiseHoldingSlot(r) ==
  /\ Live
  /\ loc[r] = "admitted"
  /\ stage' = [stage EXCEPT ![r] = "raised"]
  /\ phase' = "closing"
  /\ UNCHANGED <<vars, outcomes, done, result>>

(* The call raises something other than a timeout or an HTTP error: the slot *)
(* goes back and the exception reaches gather, with no outcome recorded.     *)
Raise(r) ==
  /\ Live
  /\ Release(r, FALSE)
  /\ stage' = [stage EXCEPT ![r] = "raised"]
  /\ phase' = "closing"
  /\ UNCHANGED <<outcomes, done, result>>

CloseClient ==
  /\ phase = "closing"
  /\ phase' = "cancelling"
  /\ UNCHANGED <<vars, records>>

(* SIGINT cancels the main task, and with it the gathered coroutines. *)
Interrupt ==
  /\ Live
  /\ phase' = "cancelling"
  /\ UNCHANGED <<vars, records>>

(* Slip: a cancelled call keeps its slot. *)
CancelForgettingSlot(r) ==
  /\ phase = "cancelling"
  /\ stage[r] \notin Ended
  /\ stage' = [stage EXCEPT ![r] = "cancelled"]
  /\ IF stage[r] = "calling" /\ loc[r] # "admitted" THEN Withdraw(r) ELSE UNCHANGED vars
  /\ UNCHANGED <<outcomes, done, result, phase>>

(* CancelledError, wherever the coroutine waits. *)
Cancel(r) ==
  /\ phase = "cancelling"
  /\ stage[r] \notin Ended
  /\ stage' = [stage EXCEPT ![r] = "cancelled"]
  /\ IF stage[r] = "calling" THEN Withdraw(r) \/ Release(r, FALSE) ELSE UNCHANGED vars
  /\ UNCHANGED <<outcomes, done, result, phase>>

Abort ==
  /\ phase = "cancelling"
  /\ \A r \in Requests : stage[r] \in Ended
  /\ phase' = "crashed"
  /\ UNCHANGED <<vars, records>>

WriteResults ==
  /\ phase = "running"
  /\ \A r \in Requests : stage[r] = "returned"
  /\ phase' = "written"
  /\ UNCHANGED <<vars, records>>

Clock == Tick /\ UNCHANGED <<records, phase>>

Exit == phase \in {"crashed", "written"} /\ UNCHANGED replayVars

ReplayInit ==
  /\ Init
  /\ stage = [r \in Requests |-> "sleeping"]
  /\ outcomes = [r \in Requests |-> "absent"]
  /\ done = {}
  /\ result = [r \in Requests |-> "none"]
  /\ phase = "running"

Turn(r) ==
  \/ StartJoin(r)
  \/ FailOnDependency(r)
  \/ Enqueue(r)
  \/ Requeue(r)
  \/ \E ok \in BOOLEAN : Return(r, ok)
  \/ Raise(r)
  \/ Cancel(r)

ReplayNext ==
  \/ \E r \in Requests : Turn(r)
  \/ CloseClient \/ Interrupt \/ Abort \/ WriteResults
  \/ Clock \/ Exit

ReplaySpec == ReplayInit /\ [][ReplayNext]_replayVars

(* Time passes, the event loop gives every coroutine its turn, and every     *)
(* call to an endpoint ends.  No interrupt is ever owed.                     *)
ReplayFairness ==
  /\ WF_replayVars(Clock)
  /\ \A r \in Requests : WF_replayVars(Turn(r))
  /\ WF_replayVars(CloseClient) /\ WF_replayVars(Abort) /\ WF_replayVars(WriteResults)

ReplayFairSpec == ReplaySpec /\ ReplayFairness
-----------------------------------------------------------------------------
(* Properties. *)

ReplayTypeOK ==
  /\ TypeOK
  /\ stage \in [Requests -> Stages]
  /\ outcomes \in [Requests -> {"absent", "TRUE", "FALSE"}]
  /\ done \subseteq Requests
  /\ result \in [Requests -> Results]
  /\ phase \in Phases

(* A request enters the scheduler, waits in it or is called only when every  *)
(* dependency has succeeded, its event is set and its slot is given back     *)
(* (ARCHITECTURE.md:20: "Only nodes whose dependencies are complete enter    *)
(* the ready queue").                                                        *)
DependencyOrder ==
  \A r \in Requests :
    loc[r] # "outside" =>
      \A d \in Deps(r) : d \in done /\ result[d] = "success" /\ loc[d] = "succeeded"

(* The dictionary, the events, the results and the scheduler tell one story: *)
(* what a dependent reads when it has joined is what the call returned, also *)
(* when other coroutines raise or are cancelled.                             *)
OutcomesAgree ==
  \A r \in Requests :
    /\ r \in done <=> outcomes[r] # "absent"
    /\ r \in done <=> stage[r] = "returned"
    /\ r \in done <=> result[r] # "none"
    /\ outcomes[r] = "TRUE" <=> result[r] = "success"
    /\ result[r] = "success" <=> loc[r] = "succeeded"
    /\ result[r] = "failure" => loc[r] = "failed"

(* A failure takes down exactly the requests that depend on it: a request is *)
(* reported dependency_failed if and only if it returned and one of its      *)
(* dependencies was reported as failed.                                      *)
FailurePropagates ==
  \A r \in Requests :
    result[r] = "dependency_failed" <=>
      /\ stage[r] = "returned"
      /\ \E d \in Deps(r) : result[d] \in {"failure", "dependency_failed"}

(* However the replay ends, by its results or by an exception in the middle  *)
(* of it, nobody is left in the queue and every slot has been given back.    *)
CleanShutdown ==
  phase \in {"crashed", "written"} =>
    /\ waiting = {}
    /\ active = 0
    /\ \A e \in Endpoints : endpointActive[e] = 0

(* The results that are written account for every call: one result per       *)
(* request, and as many attempts and failures on the endpoints as results    *)
(* that name an endpoint and results that failed there.                      *)
LedgerMatchesResults ==
  phase = "written" =>
    /\ \A r \in Requests : result[r] # "none"
    /\ MapThenSumSet(LAMBDA e : attempts[e], Endpoints)
         = Cardinality({r \in Requests : result[r] # "dependency_failed"})
    /\ MapThenSumSet(LAMBDA e : failures[e], Endpoints)
         = Cardinality({r \in Requests : result[r] = "failure"})

(* The replay ends, whatever fails on the way. *)
ReplayEnds == <>(phase \in {"crashed", "written"})

(* test_scheduler.py, test_wcf_deadline_urgency_starts_at_workflow_arrival:  *)
(* the age that makes a waiting request urgent is the time since its arrival *)
(* in this replay.                                                           *)
UrgencyStartsAtArrival ==
  \A r \in waiting :
    TimeNum * WorkflowAge(r) = TimeNum * now - TimeDen * Record[r].arrival

(* The verdict of WorkflowOutcome on a request of the replay. *)
Verdict(r) ==
  IF stage[r] \in {"raised", "cancelled"} THEN "lost"
  ELSE IF result[r] = "none" THEN "pending"
  ELSE IF result[r] = "dependency_failed" THEN "skipped"
  ELSE result[r]

Workflow == INSTANCE WorkflowOutcome WITH
  verdict <- [r \in Requests |-> Verdict(r)],
  flying <- Admitted

(* The replay implements the workflow outcomes, fairness included: seen      *)
(* through the verdicts and the calls in flight, each turn is a step of      *)
(* WorkflowOutcome or none, and every request gets its verdict.              *)
ImplementsWorkflowOutcome == Workflow!FairSpec
=============================================================================
