---------------------------- MODULE ReplayProofs ----------------------------
(***************************************************************************)
(* Proofs about Replay, for every trace, policy, capacity and time scale.  *)
(*                                                                         *)
(* A replay is a behaviour of its scheduler, so the scheduler's invariants *)
(* hold in it.  The inductive invariant adds where each coroutine is while *)
(* its request is somewhere in the scheduler, and that whoever has joined  *)
(* has joined for good: an outcome once recorded is never taken back.      *)
(***************************************************************************)
EXTENDS Replay, AdmissionSchedulerProofs

RecordsTyped ==
  /\ stage \in [Requests -> Stages]
  /\ outcomes \in [Requests -> {"absent", "TRUE", "FALSE"}]
  /\ done \subseteq Requests
  /\ result \in [Requests -> Results]
  /\ phase \in Phases

StagesMatch ==
  \A r \in Requests :
    /\ stage[r] \in {"sleeping", "joining"} => loc[r] = "outside"
    /\ stage[r] = "calling" => loc[r] \in {"parked", "woken", "admitted"}
    /\ stage[r] = "raised" => loc[r] = "failed"
    /\ stage[r] = "cancelled" => loc[r] \in {"outside", "withdrawn", "failed"}
    /\ result[r] = "dependency_failed" => loc[r] = "outside"
    /\ stage[r] \in {"calling", "returned"} => Deps(r) \subseteq done

EndedAtTheEnd ==
  phase \in {"crashed", "written"} => \A r \in Requests : stage[r] \in Ended

RInv ==
  /\ IInv
  /\ RecordsTyped
  /\ StagesMatch
  /\ OutcomesAgree
  /\ DependencyOrder
  /\ FailurePropagates
  /\ EndedAtTheEnd

(* Dependencies are requests of the trace, and no request is its own. *)
LEMMA DepsInTrace ==
  ASSUME NEW r \in Requests
  PROVE  Deps(r) \subseteq Requests \ {r}
BY TraceAssumption DEF ValidTrace, ValidRecord
-----------------------------------------------------------------------------
(* Every turn of the replay is a turn of the scheduler, or leaves it alone. *)
LEMMA ReplayStep == [ReplayNext]_replayVars => [Next]_vars
<1> SUFFICES ASSUME [ReplayNext]_replayVars PROVE [Next]_vars
  OBVIOUS
<1>1. ASSUME NEW r \in Requests, Turn(r) PROVE [Next]_vars
  <2>1. CASE StartJoin(r) \/ FailOnDependency(r)
    BY <2>1 DEF StartJoin, FailOnDependency
  <2>2. CASE Enqueue(r) \/ Requeue(r)
    BY <2>2 DEF Enqueue, Requeue, Next
  <2>3. CASE Raise(r) \/ \E ok \in BOOLEAN : Return(r, ok)
    BY <2>3 DEF Raise, Return, Next
  <2>4. CASE Cancel(r)
    BY <2>4 DEF Cancel, Next
  <2> QED
    BY <1>1, <2>1, <2>2, <2>3, <2>4 DEF Turn
<1>2. CASE CloseClient \/ Interrupt \/ Abort \/ WriteResults
  BY <1>2 DEF CloseClient, Interrupt, Abort, WriteResults
<1>3. CASE Clock
  BY <1>3 DEF Clock, Next
<1>4. CASE Exit \/ UNCHANGED replayVars
  BY <1>4 DEF Exit, replayVars
<1> QED
  BY <1>1, <1>2, <1>3, <1>4 DEF ReplayNext

(* The replay drives the scheduler as the scheduler expects: what is proved  *)
(* of AdmissionScheduler holds while a trace is replayed.                    *)
THEOREM ReplayDrivesScheduler == ReplaySpec => Spec
<1>1. ReplayInit => Init
  BY DEF ReplayInit
<1> QED
  BY <1>1, ReplayStep, PTL DEF ReplaySpec, Spec
-----------------------------------------------------------------------------
(* A turn of r leaves the others where they are, notifications aside. *)
Bystanders(r) ==
  \A q \in Requests \ {r} :
    /\ \A l \in {"outside", "admitted", "succeeded", "failed", "withdrawn"} :
         loc'[q] = l <=> loc[q] = l
    /\ loc'[q] \in {"parked", "woken", "admitted"} <=> loc[q] \in {"parked", "woken", "admitted"}

LEMMA MovesBystanders ==
  ASSUME NEW r \in Requests, NEW place, Moves(r, place)
  PROVE  Bystanders(r) /\ loc'[r] = place
BY DEF Moves, Bystanders

LEMMA TurnInAcquireMoves ==
  ASSUME IInv, NEW r \in Requests, Acquire(r) \/ Wake(r)
  PROVE  /\ Bystanders(r)
         /\ loc'[r] \in {"parked", "admitted"}
<1>1. PICK place \in {"parked", "admitted"} : Moves(r, place)
  BY TurnInAcquire DEF Parks, Admits
<1> QED
  BY <1>1, MovesBystanders

(* Whoever enters the queue has joined, and found only successes. *)
LEMMA EnqueueRInv ==
  ASSUME RInv, IInv', NEW r \in Requests, Enqueue(r)
  PROVE  RInv'
<1>1. /\ Bystanders(r)
      /\ loc[r] = "outside"
      /\ loc'[r] \in {"parked", "admitted"}
  BY TurnInAcquireMoves DEF Enqueue, Acquire, RInv
<1>2. /\ Joined(r) /\ DependenciesSucceeded(r) /\ Live
      /\ stage' = [stage EXCEPT ![r] = "calling"]
      /\ UNCHANGED <<outcomes, done, result, phase>>
  BY DEF Enqueue
<1>3. stage[r] \in {"sleeping", "joining"} /\ Deps(r) \subseteq done
  BY <1>2 DEF Joined
<1>4. RecordsTyped'
  BY <1>2 DEF RInv, RecordsTyped, Stages
<1>5. StagesMatch'
  BY <1>1, <1>2, <1>3 DEF RInv, RecordsTyped, StagesMatch, OutcomesAgree, Bystanders
<1>6. OutcomesAgree'
  BY <1>1, <1>2, <1>3 DEF RInv, RecordsTyped, OutcomesAgree, Bystanders
<1>7. DependencyOrder'
  <2>1. \A d \in Deps(r) : d \in done /\ result[d] = "success" /\ loc[d] = "succeeded"
    BY <1>2, <1>3, DepsInTrace DEF DependenciesSucceeded, RInv, OutcomesAgree
  <2> QED
    BY <1>1, <1>2, <2>1, DepsInTrace DEF RInv, DependencyOrder, Bystanders
<1>8. FailurePropagates'
  BY <1>2, <1>3 DEF RInv, RecordsTyped, FailurePropagates
<1>9. EndedAtTheEnd'
  BY <1>2 DEF EndedAtTheEnd, Live
<1> QED
  BY <1>4, <1>5, <1>6, <1>7, <1>8, <1>9 DEF RInv

LEMMA RequeueRInv ==
  ASSUME RInv, IInv', NEW r \in Requests, Requeue(r)
  PROVE  RInv'
<1>1. /\ Bystanders(r)
      /\ loc[r] = "woken"
      /\ loc'[r] \in {"parked", "admitted"}
  BY TurnInAcquireMoves DEF Requeue, Wake, RInv
<1>2. UNCHANGED <<stage, outcomes, done, result, phase>> /\ Live
  BY DEF Requeue, records
<1>3. RecordsTyped' /\ FailurePropagates' /\ EndedAtTheEnd'
  BY <1>2 DEF RInv, RecordsTyped, FailurePropagates, EndedAtTheEnd
<1>4. StagesMatch'
  BY <1>1, <1>2 DEF RInv, StagesMatch, Bystanders
<1>5. OutcomesAgree'
  BY <1>1, <1>2 DEF RInv, OutcomesAgree, Bystanders
<1>6. DependencyOrder'
  BY <1>1, <1>2, DepsInTrace DEF RInv, DependencyOrder, Bystanders
<1> QED
  BY <1>3, <1>4, <1>5, <1>6 DEF RInv

LEMMA StartJoinRInv ==
  ASSUME RInv, IInv', NEW r \in Requests, StartJoin(r)
  PROVE  RInv'
<1>1. /\ stage[r] = "sleeping" /\ Live
      /\ stage' = [stage EXCEPT ![r] = "joining"]
      /\ UNCHANGED <<loc, outcomes, done, result, phase>>
  BY DEF StartJoin, vars
<1>2. RecordsTyped'
  BY <1>1 DEF RInv, RecordsTyped, Stages
<1>3. StagesMatch' /\ OutcomesAgree' /\ FailurePropagates'
  BY <1>1 DEF RInv, RecordsTyped, StagesMatch, OutcomesAgree, FailurePropagates
<1>4. DependencyOrder' /\ EndedAtTheEnd'
  BY <1>1 DEF RInv, DependencyOrder, EndedAtTheEnd, Live
<1> QED
  BY <1>2, <1>3, <1>4 DEF RInv

(* A recorded outcome decides nothing for those who joined before it. *)
LEMMA FailOnDependencyRInv ==
  ASSUME RInv, IInv', NEW r \in Requests, FailOnDependency(r)
  PROVE  RInv'
<1>1. /\ Joined(r) /\ ~DependenciesSucceeded(r) /\ Live
      /\ outcomes' = [outcomes EXCEPT ![r] = "FALSE"]
      /\ done' = done \cup {r}
      /\ result' = [result EXCEPT ![r] = "dependency_failed"]
      /\ stage' = [stage EXCEPT ![r] = "returned"]
      /\ UNCHANGED <<loc, phase>>
  BY DEF FailOnDependency, RecordOutcome, vars
<1>2. stage[r] \in {"sleeping", "joining"} /\ Deps(r) \subseteq done /\ loc[r] = "outside"
  BY <1>1 DEF Joined, RInv, StagesMatch
<1>3. r \notin done /\ result[r] = "none"
  BY <1>2 DEF RInv, OutcomesAgree
<1>4. RecordsTyped'
  BY <1>1 DEF RInv, RecordsTyped, Stages, Results
<1>5. StagesMatch'
  BY <1>1, <1>2, <1>3 DEF RInv, RecordsTyped, StagesMatch
<1>6. OutcomesAgree'
  BY <1>1, <1>2, <1>3 DEF RInv, RecordsTyped, OutcomesAgree
<1>7. DependencyOrder'
  BY <1>1, <1>3 DEF RInv, RecordsTyped, DependencyOrder
<1>8. FailurePropagates'
  <2>1. PICK d \in Deps(r) : outcomes[d] # "TRUE"
    BY <1>1 DEF DependenciesSucceeded
  <2>2. d # r /\ result[d] \in {"failure", "dependency_failed"}
    BY <1>2, <2>1, DepsInTrace DEF RInv, RecordsTyped, Results, OutcomesAgree
  <2>3. result'[r] = "dependency_failed" /\ stage'[r] = "returned" /\ result'[d] = result[d]
    BY <1>1, <2>2, DepsInTrace DEF RInv, RecordsTyped
  <2>4. ASSUME NEW q \in Requests \ {r}
        PROVE  result'[q] = "dependency_failed" <=>
                 /\ stage'[q] = "returned"
                 /\ \E g \in Deps(q) : result'[g] \in {"failure", "dependency_failed"}
    <3>1. result'[q] = result[q] /\ stage'[q] = stage[q]
      BY <1>1 DEF RInv, RecordsTyped
    <3>2. stage[q] = "returned" => r \notin Deps(q)
      BY <1>3 DEF RInv, StagesMatch
    <3>3. \A g \in Deps(q) : g # r => result'[g] = result[g]
      BY <1>1, DepsInTrace DEF RInv, RecordsTyped
    <3>4. result[q] = "dependency_failed" => stage[q] = "returned"
      BY DEF RInv, FailurePropagates
    <3> QED
      BY <3>1, <3>2, <3>3, <3>4 DEF RInv, FailurePropagates
  <2> QED
    BY <2>2, <2>3, <2>4 DEF FailurePropagates
<1>9. EndedAtTheEnd'
  BY <1>1 DEF EndedAtTheEnd, Live
<1> QED
  BY <1>4, <1>5, <1>6, <1>7, <1>8, <1>9 DEF RInv

LEMMA ReturnRInv ==
  ASSUME RInv, IInv', NEW r \in Requests, NEW ok \in BOOLEAN, Return(r, ok)
  PROVE  RInv'
<1> DEFINE place == IF ok THEN "succeeded" ELSE "failed"
           res   == IF ok THEN "success" ELSE "failure"
<1>1. loc[r] = "admitted" /\ Bystanders(r) /\ loc'[r] = place
  BY TurnReleases, MovesBystanders DEF Return, RInv
<1>2. /\ outcomes' = [outcomes EXCEPT ![r] = IF ok THEN "TRUE" ELSE "FALSE"]
      /\ done' = done \cup {r}
      /\ result' = [result EXCEPT ![r] = res]
      /\ stage' = [stage EXCEPT ![r] = "returned"]
      /\ UNCHANGED phase /\ Live
  BY DEF Return, RecordOutcome
<1>3. stage[r] = "calling" /\ r \notin done /\ result[r] = "none" /\ Deps(r) \subseteq done
  <2>1. stage[r] = "calling"
    BY <1>1 DEF RInv, RecordsTyped, Stages, StagesMatch, OutcomesAgree, Results
  <2> QED
    BY <2>1 DEF RInv, OutcomesAgree, StagesMatch
<1>4. RecordsTyped'
  BY <1>2 DEF RInv, RecordsTyped, Stages, Results
<1>5. StagesMatch'
  BY <1>1, <1>2, <1>3 DEF RInv, RecordsTyped, StagesMatch, Bystanders
<1>6. OutcomesAgree'
  BY <1>1, <1>2, <1>3 DEF RInv, RecordsTyped, OutcomesAgree, Bystanders
<1>7. DependencyOrder'
  BY <1>1, <1>2, <1>3, DepsInTrace DEF RInv, RecordsTyped, DependencyOrder, Bystanders
<1>8. FailurePropagates'
  <2>1. ~ \E g \in Deps(r) : result[g] \in {"failure", "dependency_failed"}
    BY <1>1 DEF RInv, DependencyOrder
  <2>2. ASSUME NEW q \in Requests
        PROVE  result'[q] = "dependency_failed" <=>
                 /\ stage'[q] = "returned"
                 /\ \E g \in Deps(q) : result'[g] \in {"failure", "dependency_failed"}
    <3>1. \A g \in Requests : g # r => result'[g] = result[g] /\ stage'[g] = stage[g]
      BY <1>2 DEF RInv, RecordsTyped
    <3>2. CASE q = r
      BY <1>2, <2>1, <3>1, <3>2, DepsInTrace DEF RInv, RecordsTyped
    <3>3. CASE q # r
      <4>1. stage[q] = "returned" => r \notin Deps(q)
        BY <1>3 DEF RInv, StagesMatch
      <4> QED
        BY <3>1, <3>3, <4>1, DepsInTrace DEF RInv, FailurePropagates
    <3> QED
      BY <3>2, <3>3
  <2> QED
    BY <2>2 DEF FailurePropagates
<1>9. EndedAtTheEnd'
  BY <1>2 DEF EndedAtTheEnd, Live
<1> QED
  BY <1>4, <1>5, <1>6, <1>7, <1>8, <1>9 DEF RInv

(* A coroutine that dies records nothing, and nobody had joined it. *)
LEMMA DeathRInv ==
  ASSUME RInv, IInv', NEW r \in Requests,
         stage[r] \notin Ended,
         NEW end \in {"raised", "cancelled"},
         stage' = [stage EXCEPT ![r] = end],
         UNCHANGED <<outcomes, done, result>>,
         Bystanders(r) /\ loc'[r] \in {"outside", "withdrawn", "failed"},
         loc[r] = "outside" => loc'[r] = "outside",
         end = "raised" => loc'[r] = "failed",
         phase' \in {"closing", "cancelling"}
  PROVE  RInv'
<1>1. r \notin done /\ result[r] = "none"
  BY DEF RInv, OutcomesAgree, Ended
<1>2. RecordsTyped'
  BY DEF RInv, RecordsTyped, Stages, Phases
<1>3. StagesMatch'
  BY <1>1 DEF RInv, RecordsTyped, StagesMatch, Bystanders
<1>4. OutcomesAgree'
  BY <1>1 DEF RInv, RecordsTyped, OutcomesAgree, Bystanders, Ended
<1>5. DependencyOrder'
  <2>1. ASSUME NEW q \in Requests, loc'[q] # "outside", NEW g \in Deps(q)
        PROVE  g \in done' /\ result'[g] = "success" /\ loc'[g] = "succeeded"
    <3>1. loc[q] # "outside"
      BY <2>1 DEF Bystanders
    <3>2. g \in done /\ result[g] = "success" /\ loc[g] = "succeeded"
      BY <2>1, <3>1 DEF RInv, DependencyOrder
    <3> QED
      BY <1>1, <2>1, <3>2, DepsInTrace DEF Bystanders
  <2> QED
    BY <2>1 DEF DependencyOrder
<1>6. FailurePropagates'
  BY <1>1 DEF RInv, RecordsTyped, FailurePropagates, Ended
<1>7. EndedAtTheEnd'
  BY DEF EndedAtTheEnd
<1> QED
  BY <1>2, <1>3, <1>4, <1>5, <1>6, <1>7 DEF RInv

LEMMA RaiseRInv ==
  ASSUME RInv, IInv', NEW r \in Requests, Raise(r)
  PROVE  RInv'
<1>1. loc[r] = "admitted" /\ Bystanders(r) /\ loc'[r] = "failed"
  BY TurnReleases, MovesBystanders DEF Raise, RInv
<1>2. stage[r] \notin Ended
  BY <1>1 DEF RInv, RecordsTyped, Results, Ended, StagesMatch, OutcomesAgree
<1>3. /\ stage' = [stage EXCEPT ![r] = "raised"]
      /\ UNCHANGED <<outcomes, done, result>>
      /\ phase' \in {"closing", "cancelling"}
  BY DEF Raise
<1> QED
  BY <1>1, <1>2, <1>3, DeathRInv

LEMMA CancelRInv ==
  ASSUME RInv, IInv', NEW r \in Requests, Cancel(r)
  PROVE  RInv'
<1>1. /\ stage[r] \notin Ended
      /\ stage' = [stage EXCEPT ![r] = "cancelled"]
      /\ UNCHANGED <<outcomes, done, result>>
      /\ phase' \in {"closing", "cancelling"}
  BY DEF Cancel
<1>2. /\ Bystanders(r)
      /\ loc'[r] \in {"outside", "withdrawn", "failed"}
      /\ loc[r] = "outside" => loc'[r] = "outside"
  <2>1. CASE Withdraw(r)
    BY <2>1, TurnWithdraws, MovesBystanders DEF RInv
  <2>2. CASE Release(r, FALSE)
    BY <2>2, TurnReleases, MovesBystanders DEF RInv
  <2>3. CASE stage[r] # "calling" /\ UNCHANGED vars
    <3>1. loc[r] = "outside"
      BY <1>1, <2>3 DEF RInv, RecordsTyped, Stages, StagesMatch, Ended
    <3> QED
      BY <2>3, <3>1 DEF Bystanders, vars
  <2> QED
    BY <2>1, <2>2, <2>3 DEF Cancel
<1> QED
  BY <1>1, <1>2, DeathRInv

(* The main coroutine and the clock touch neither requests nor records. *)
LEMMA MainRInv ==
  ASSUME RInv, IInv', UNCHANGED <<loc, records>>, phase' \in Phases,
         phase' \in {"crashed", "written"} => \A r \in Requests : stage[r] \in Ended
  PROVE  RInv'
<1> USE DEF records
<1>1. RecordsTyped' /\ EndedAtTheEnd'
  BY DEF RInv, RecordsTyped, EndedAtTheEnd
<1>2. StagesMatch' /\ OutcomesAgree' /\ DependencyOrder' /\ FailurePropagates'
  BY DEF RInv, StagesMatch, OutcomesAgree, DependencyOrder, FailurePropagates
<1> QED
  BY <1>1, <1>2 DEF RInv

LEMMA InitRInv == ReplayInit => RInv
<1> SUFFICES ASSUME ReplayInit PROVE RInv
  OBVIOUS
<1>1. IInv
  BY InitIInv DEF ReplayInit
<1>2. RecordsTyped
  BY DEF ReplayInit, RecordsTyped, Stages, Results, Phases
<1>3. \A r \in Requests : loc[r] = "outside"
  BY DEF ReplayInit, Init
<1>4. StagesMatch /\ OutcomesAgree /\ DependencyOrder
  BY <1>3 DEF ReplayInit, StagesMatch, OutcomesAgree, DependencyOrder
<1>5. FailurePropagates /\ EndedAtTheEnd
  BY DEF ReplayInit, FailurePropagates, EndedAtTheEnd
<1> QED
  BY <1>1, <1>2, <1>4, <1>5 DEF RInv

LEMMA NextRInv == RInv /\ [ReplayNext]_replayVars => RInv'
<1> SUFFICES ASSUME RInv, [ReplayNext]_replayVars PROVE RInv'
  OBVIOUS
<1>1. IInv'
  BY ReplayStep, NextIInv DEF RInv
<1>2. ASSUME NEW r \in Requests, Turn(r) PROVE RInv'
  BY <1>1, <1>2, StartJoinRInv, FailOnDependencyRInv, EnqueueRInv, RequeueRInv,
     ReturnRInv, RaiseRInv, CancelRInv DEF Turn
<1>3. CASE CloseClient \/ Interrupt \/ Abort \/ WriteResults
  <2>1. UNCHANGED <<loc, records>> /\ phase' \in Phases
    BY <1>3 DEF CloseClient, Interrupt, Abort, WriteResults, vars, Phases
  <2>2. phase' \in {"crashed", "written"} => \A r \in Requests : stage[r] \in Ended
    BY <1>3 DEF CloseClient, Interrupt, Abort, WriteResults, Ended
  <2> QED
    BY <1>1, <2>1, <2>2, MainRInv
<1>4. CASE Clock \/ Exit \/ UNCHANGED replayVars
  <2>1. UNCHANGED <<loc, records, phase>>
    BY <1>4 DEF Clock, Tick, Exit, replayVars, vars
  <2>2. phase' \in Phases
    BY <2>1 DEF RInv, RecordsTyped
  <2> QED
    BY <1>1, <2>1, <2>2, MainRInv DEF RInv, EndedAtTheEnd
<1> QED
  BY <1>2, <1>3, <1>4 DEF ReplayNext

(* Where each coroutine is, what it has recorded and where its request is in *)
(* the scheduler fit together in every reachable state of a replay.          *)
THEOREM ReplayInvariant == ReplaySpec => []RInv
<1> QED
  BY InitRInv, NextRInv, PTL DEF ReplaySpec

(* Every variable of the replay keeps its type. *)
THEOREM ReplayTypeCorrect == ReplaySpec => []ReplayTypeOK
<1>1. RInv => ReplayTypeOK
  BY DEF RInv, IInv, RecordsTyped, ReplayTypeOK
<1> QED
  BY <1>1, ReplayInvariant, PTL

(* No request enters the queue before all it depends on has succeeded, for   *)
(* every dependency graph and every order of arrivals, failures and crashes. *)
THEOREM DependenciesFirst == ReplaySpec => []DependencyOrder
<1>1. RInv => DependencyOrder
  BY DEF RInv
<1> QED
  BY <1>1, ReplayInvariant, PTL

(* Outcomes, events, results and the scheduler's history stay in agreement. *)
THEOREM OutcomesConsistent == ReplaySpec => []OutcomesAgree
<1>1. RInv => OutcomesAgree
  BY DEF RInv
<1> QED
  BY <1>1, ReplayInvariant, PTL

(* dependency_failed is reported of the dependents of a failure and of       *)
(* nobody else.                                                              *)
THEOREM FailuresPropagate == ReplaySpec => []FailurePropagates
<1>1. RInv => FailurePropagates
  BY DEF RInv
<1> QED
  BY <1>1, ReplayInvariant, PTL

(* A replay that is over holds no slot and has nobody in its queue, whether  *)
(* it wrote its results or died of an exception or an interrupt.             *)
THEOREM ShutdownClean == ReplaySpec => []CleanShutdown
<1>1. RInv => CleanShutdown
  <2> SUFFICES ASSUME RInv, phase \in {"crashed", "written"}
               PROVE  /\ waiting = {}
                      /\ active = 0
                      /\ \A e \in Endpoints : endpointActive[e] = 0
    BY DEF CleanShutdown
  <2>1. ASSUME NEW r \in Requests PROVE loc[r] \notin {"parked", "woken", "admitted"}
    BY DEF RInv, RecordsTyped, Results, EndedAtTheEnd, Ended, StagesMatch, OutcomesAgree
  <2>2. waiting = {}
    BY <2>1 DEF RInv, IInv, QueueMatchesCallers
  <2>3. Admitted = {} /\ \A e \in Endpoints : OnEndpoint(e) = {}
    BY <2>1 DEF Admitted, OnEndpoint
  <2>4. active = 0 /\ \A e \in Endpoints : endpointActive[e] = 0
    BY <2>3, FS_EmptySet DEF RInv, IInv, SlotAccounting
  <2> QED
    BY <2>2, <2>4
<1> QED
  BY <1>1, ReplayInvariant, PTL
-----------------------------------------------------------------------------
(* Results are written when every coroutine has returned. *)
WrittenWhole == phase = "written" => \A r \in Requests : stage[r] = "returned"

LEMMA WrittenIsWhole == ReplaySpec => []WrittenWhole
<1>1. ReplayInit => WrittenWhole
  BY DEF ReplayInit, WrittenWhole
<1>2. WrittenWhole /\ [ReplayNext]_replayVars => WrittenWhole'
  <2> SUFFICES ASSUME WrittenWhole, [ReplayNext]_replayVars PROVE WrittenWhole'
    OBVIOUS
  <2> USE DEF WrittenWhole, Live
  <2>1. ASSUME NEW r \in Requests, Turn(r) PROVE WrittenWhole'
    BY <2>1 DEF Turn, StartJoin, FailOnDependency, Enqueue, Requeue, Return, Raise, Cancel,
                RecordOutcome
  <2>2. CASE CloseClient \/ Interrupt \/ Abort
    BY <2>2 DEF CloseClient, Interrupt, Abort
  <2>3. CASE WriteResults
    BY <2>3 DEF WriteResults, records
  <2>4. CASE Clock \/ Exit \/ UNCHANGED replayVars
    BY <2>4 DEF Clock, Exit, replayVars, records
  <2> QED
    BY <2>1, <2>2, <2>3, <2>4 DEF ReplayNext
<1> QED
  BY <1>1, <1>2, PTL DEF ReplaySpec

(* Counting calls by endpoint counts each call once. *)
LEMMA CallsByEndpoint ==
  ASSUME IInv, NEW ends \in SUBSET {"succeeded", "failed"}, NEW count,
         \A e \in Endpoints : count[e] = Cardinality(Finished(e, ends))
  PROVE  LET I == CHOOSE I : AddsUp(I, count, Endpoints)
         IN  I[Endpoints] = Cardinality({r \in Requests : loc[r] \in ends})
<1> DEFINE Ran(T) == {r \in Requests : assigned[r] \in T /\ loc[r] \in ends}
           G == [T \in SUBSET Endpoints |-> Cardinality(Ran(T))]
<1>1. IsFiniteSet(Endpoints)
  BY SchedulerAssumption, CardinalityOfInterval, ImageIsFinite DEF Endpoints
<1>2. ASSUME NEW T \in SUBSET Endpoints, NEW e \in T
      PROVE  Cardinality(Ran(T)) = count[e] + Cardinality(Ran(T \ {e}))
  <2>1. Ran(T) = Finished(e, ends) \cup Ran(T \ {e}) /\ Finished(e, ends) \cap Ran(T \ {e}) = {}
    BY DEF Finished
  <2>2. /\ IsFiniteSet(Finished(e, ends)) /\ Cardinality(Finished(e, ends)) \in Nat
        /\ IsFiniteSet(Ran(T \ {e})) /\ Cardinality(Ran(T \ {e})) \in Nat
    BY SlotsFinite DEF Finished
  <2>3. Cardinality({}) = 0
    BY FS_EmptySet
  <2>4. count[e] = Cardinality(Finished(e, ends))
    OBVIOUS
  <2> HIDE DEF Ran
  <2>5. Cardinality(Ran(T)) =
          Cardinality(Finished(e, ends)) + Cardinality(Ran(T \ {e})) - 0
    BY <2>1, <2>2, <2>3, FS_Union
  <2> QED
    BY <2>2, <2>4, <2>5
<1>3. Ran({}) = {} /\ Cardinality(Ran({})) = 0
  BY FS_EmptySet
<1>4. IsSum(G, count, Endpoints)
  <2> HIDE DEF Ran
  <2> QED
    BY <1>2, <1>3 DEF IsSum
<1> DEFINE I == CHOOSE I : AddsUp(I, count, Endpoints)
<1>5. I[Endpoints] = G[Endpoints]
  <2> HIDE DEF G
  <2>1. AddsUp(I, count, Endpoints)
    BY <1>4, SumAddsUp
  <2> HIDE DEF I
  <2> QED
    BY <1>1, <1>4, <2>1, SumsAgree
<1>6. Ran(Endpoints) = {r \in Requests : loc[r] \in ends}
  <2>1. \A r \in Requests : loc[r] \in ends => assigned[r] \in Endpoints
    BY DEF IInv, TypeOK, SlotAccounting
  <2> QED
    BY <2>1
<1> QED
  BY <1>5, <1>6

(* What is written accounts for every call: each attempt and each failure    *)
(* counted at an endpoint is a result that was written, and there is nothing *)
(* else in either (scheduler.py release, runner.py run_trace).               *)
THEOREM LedgerCorrect == ReplaySpec => []LedgerMatchesResults
<1>1. RInv /\ PredictorMatchesHistory /\ WrittenWhole => LedgerMatchesResults
  <2> SUFFICES ASSUME RInv, PredictorMatchesHistory, phase = "written",
                      \A r \in Requests : stage[r] = "returned"
               PROVE  LedgerMatchesResults
    BY DEF WrittenWhole, LedgerMatchesResults
  <2>1. ASSUME NEW r \in Requests
        PROVE  /\ result[r] # "none"
               /\ result[r] # "dependency_failed" <=> loc[r] \in {"succeeded", "failed"}
               /\ result[r] = "failure" <=> loc[r] = "failed"
    <3>1. result[r] \in {"success", "failure", "dependency_failed"}
      BY DEF RInv, RecordsTyped, OutcomesAgree, Results
    <3>2. /\ result[r] = "success" <=> loc[r] = "succeeded"
          /\ result[r] = "failure" => loc[r] = "failed"
          /\ result[r] = "dependency_failed" => loc[r] = "outside"
      BY DEF RInv, OutcomesAgree, StagesMatch
    <3> QED
      BY <3>1, <3>2
  <2>2. MapThenSumSet(LAMBDA e : attempts[e], Endpoints)
          = Cardinality({r \in Requests : loc[r] \in {"succeeded", "failed"}})
    <3>1. \A e \in Endpoints : attempts[e] = Cardinality(Finished(e, {"succeeded", "failed"}))
      BY DEF PredictorMatchesHistory
    <3> DEFINE I == CHOOSE I : AddsUp(I, attempts, Endpoints)
    <3>2. MapThenSumSet(LAMBDA e : attempts[e], Endpoints) = I[Endpoints]
      BY DEF MapThenSumSet, MapThenFoldSet, AddsUp
    <3>3. I[Endpoints] = Cardinality({r \in Requests : loc[r] \in {"succeeded", "failed"}})
      BY <3>1, CallsByEndpoint DEF RInv
    <3> QED
      BY <3>2, <3>3
  <2>3. MapThenSumSet(LAMBDA e : failures[e], Endpoints)
          = Cardinality({r \in Requests : loc[r] \in {"failed"}})
    <3>1. \A e \in Endpoints : failures[e] = Cardinality(Finished(e, {"failed"}))
      BY DEF PredictorMatchesHistory
    <3> DEFINE I == CHOOSE I : AddsUp(I, failures, Endpoints)
    <3>2. MapThenSumSet(LAMBDA e : failures[e], Endpoints) = I[Endpoints]
      BY DEF MapThenSumSet, MapThenFoldSet, AddsUp
    <3>3. I[Endpoints] = Cardinality({r \in Requests : loc[r] \in {"failed"}})
      BY <3>1, CallsByEndpoint DEF RInv
    <3> QED
      BY <3>2, <3>3
  <2>4. /\ {r \in Requests : loc[r] \in {"succeeded", "failed"}}
             = {r \in Requests : result[r] # "dependency_failed"}
        /\ {r \in Requests : loc[r] \in {"failed"}} = {r \in Requests : result[r] = "failure"}
    BY <2>1
  <2> QED
    BY <2>1, <2>2, <2>3, <2>4 DEF LedgerMatchesResults
<1> QED
  BY <1>1, ReplayInvariant, WrittenIsWhole, ReplayDrivesScheduler, PredictorCorrect, PTL
-----------------------------------------------------------------------------
(* The replay implements the workflow outcomes. *)
Verdicts == [r \in Requests |-> Verdict(r)]

LEMMA VerdictCases ==
  ASSUME RInv, NEW r \in Requests
  PROVE  /\ Verdict(r) = "pending" <=> stage[r] \in {"sleeping", "joining", "calling"}
         /\ Verdict(r) = "success" <=> result[r] = "success"
         /\ Verdict(r) \in {"success", "failure", "skipped"} <=> r \in done
         /\ r \in Admitted => stage[r] = "calling"
<1>1. stage[r] \in Stages /\ result[r] \in Results
  BY DEF RInv, RecordsTyped
<1>2. /\ r \in done <=> stage[r] = "returned"
      /\ r \in done <=> result[r] # "none"
      /\ result[r] = "success" <=> loc[r] = "succeeded"
      /\ result[r] = "failure" => loc[r] = "failed"
  BY DEF RInv, OutcomesAgree
<1>3. r \in Admitted => stage[r] = "calling"
  BY <1>1, <1>2 DEF Admitted, RInv, StagesMatch, Stages, Results
<1> QED
  BY <1>1, <1>2, <1>3 DEF Stages, Results, Verdict

LEMMA VerdictChanges ==
  ASSUME NEW r \in Requests, NEW verdict, Verdict(r)' = verdict,
         \A q \in Requests \ {r} : stage'[q] = stage[q] /\ result'[q] = result[q]
  PROVE  Verdicts' = [Verdicts EXCEPT ![r] = verdict]
BY DEF Verdicts, Verdict

(* The way into the scheduler: launched, or still pending in its queue. *)
LEMMA LaunchOrWait ==
  ASSUME RInv, RInv', NEW r \in Requests, Enqueue(r) \/ Requeue(r)
  PROVE  Workflow!Next \/ UNCHANGED Workflow!vars
<1>1. /\ Bystanders(r)
      /\ loc[r] \in {"outside", "woken"}
      /\ loc'[r] \in {"parked", "admitted"}
  BY TurnInAcquireMoves DEF Enqueue, Requeue, Acquire, Wake, RInv
<1>2. /\ stage[r] \in {"sleeping", "joining", "calling"}
      /\ stage'[r] = "calling"
      /\ \A q \in Requests \ {r} : stage'[q] = stage[q]
      /\ UNCHANGED <<done, result>>
  <2>1. CASE Enqueue(r)
    BY <2>1 DEF Enqueue, Joined, RInv, RecordsTyped
  <2>2. CASE Requeue(r)
    BY <1>1, <2>2
    DEF Requeue, Wake, records, RInv, RecordsTyped, Stages, Results, StagesMatch, OutcomesAgree
  <2> QED
    BY <2>1, <2>2
<1>3. Verdict(r) = "pending" /\ Verdict(r)' = "pending"
  BY <1>2, VerdictCases DEF RInv, OutcomesAgree, Verdict
<1>4. Verdicts' = Verdicts
  <2>1. Verdicts' = [Verdicts EXCEPT ![r] = "pending"]
    BY <1>2, <1>3, VerdictChanges
  <2> QED
    BY <1>3, <2>1 DEF Verdicts
<1>5. CASE loc'[r] = "parked"
  <2>1. Admitted' = Admitted
    BY <1>1, <1>5 DEF Bystanders, Admitted
  <2> QED
    BY <1>4, <2>1 DEF Workflow!vars, Verdicts
<1>6. CASE loc'[r] = "admitted"
  <2>1. Admitted' = Admitted \cup {r} /\ r \notin Admitted
    BY <1>1, <1>6 DEF Bystanders, Admitted
  <2>2. \A d \in Deps(r) : d \in Requests /\ result[d] = "success"
    BY <1>2, <1>6, DepsInTrace DEF RInv, DependencyOrder
  <2>3. \A d \in Deps(r) : Verdicts[d] = "success"
    BY <2>2, VerdictCases DEF Verdicts
  <2>4. Workflow!Launch(r)
    BY <1>3, <1>4, <2>1, <2>3 DEF Workflow!Launch, Workflow!Succeeded, Verdicts
  <2> QED
    BY <2>4 DEF Workflow!Next
<1> QED
  BY <1>1, <1>5, <1>6

LEMMA LandsOrDrops ==
  ASSUME RInv, RInv', NEW r \in Requests,
         Raise(r) \/ Cancel(r) \/ \E ok \in BOOLEAN : Return(r, ok)
  PROVE  Workflow!Next
<1>1. ASSUME NEW ok \in BOOLEAN, Return(r, ok) PROVE Workflow!Next
  <2>1. loc[r] = "admitted" /\ Bystanders(r)
        /\ loc'[r] = IF ok THEN "succeeded" ELSE "failed"
    BY <1>1, TurnReleases, MovesBystanders DEF Return, RInv
  <2>2. Admitted' = Admitted \ {r} /\ r \in Admitted
    BY <2>1 DEF Admitted, Bystanders
  <2>3. /\ result'[r] = IF ok THEN "success" ELSE "failure"
        /\ stage'[r] = "returned"
        /\ \A q \in Requests \ {r} : stage'[q] = stage[q] /\ result'[q] = result[q]
    BY <1>1 DEF Return, RecordOutcome, RInv, RecordsTyped
  <2>4. Verdict(r)' \in {"success", "failure"}
    BY <2>3 DEF Verdict
  <2>5. PICK v \in {"success", "failure"} : Verdict(r)' = v
    BY <2>4
  <2>6. Verdicts' = [Verdicts EXCEPT ![r] = v]
    BY <2>3, <2>5, VerdictChanges
  <2>7. Workflow!Land(r)
    BY <2>2, <2>5, <2>6 DEF Workflow!Land, Verdicts
  <2> QED
    BY <2>7 DEF Workflow!Next
<1>2. ASSUME Raise(r) \/ Cancel(r) PROVE Workflow!Next
  <2>1. /\ Admitted' = Admitted \ {r}
        /\ stage[r] \in {"sleeping", "joining", "calling"}
    <3>1. CASE Raise(r) \/ Release(r, FALSE)
      <4>1. loc[r] = "admitted" /\ Bystanders(r) /\ loc'[r] = "failed"
        BY <3>1, TurnReleases, MovesBystanders DEF Raise, RInv
      <4>2. Admitted' = Admitted \ {r} /\ r \in Admitted
        BY <4>1 DEF Admitted, Bystanders
      <4> QED
        BY <4>2, VerdictCases
    <3>2. CASE Cancel(r) /\ Withdraw(r)
      <4>1. loc[r] \in {"parked", "woken"} /\ Bystanders(r) /\ loc'[r] = "withdrawn"
        BY <3>2, TurnWithdraws, MovesBystanders DEF RInv
      <4>2. Admitted' = Admitted /\ r \notin Admitted
        BY <4>1 DEF Admitted, Bystanders
      <4> QED
        BY <3>2, <4>2 DEF Cancel, Ended, RInv, RecordsTyped, Stages
    <3>3. CASE Cancel(r) /\ stage[r] # "calling" /\ UNCHANGED vars
      <4>1. r \notin Admitted
        BY <3>3, VerdictCases
      <4> QED
        BY <3>3, <4>1 DEF Cancel, Ended, RInv, RecordsTyped, Stages, vars, Admitted
    <3> QED
      BY <1>2, <3>1, <3>2, <3>3 DEF Cancel
  <2>2. /\ stage'[r] \in {"raised", "cancelled"}
        /\ \A q \in Requests \ {r} : stage'[q] = stage[q] /\ result'[q] = result[q]
    BY <1>2 DEF Raise, Cancel, RInv, RecordsTyped
  <2>3. Verdict(r)' = "lost"
    BY <2>2 DEF Verdict
  <2>4. Verdict(r) = "pending" /\ Verdicts' = [Verdicts EXCEPT ![r] = "lost"]
    BY <2>1, <2>2, <2>3, VerdictCases, VerdictChanges
  <2>5. Workflow!Drop(r)
    BY <2>1, <2>4 DEF Workflow!Drop, Verdicts
  <2> QED
    BY <2>5 DEF Workflow!Next
<1> QED
  BY <1>1, <1>2

LEMMA Skips ==
  ASSUME RInv, RInv', NEW r \in Requests, FailOnDependency(r)
  PROVE  Workflow!Next
<1>1. /\ stage[r] \in {"sleeping", "joining"} /\ Deps(r) \subseteq done
      /\ ~DependenciesSucceeded(r)
      /\ Admitted' = Admitted
  BY DEF FailOnDependency, Joined, vars, Admitted
<1>2. /\ result'[r] = "dependency_failed" /\ stage'[r] = "returned"
      /\ \A q \in Requests \ {r} : stage'[q] = stage[q] /\ result'[q] = result[q]
  BY DEF FailOnDependency, RecordOutcome, RInv, RecordsTyped
<1>3. Verdict(r)' = "skipped"
  BY <1>2 DEF Verdict
<1>4. Verdict(r) = "pending" /\ Verdicts' = [Verdicts EXCEPT ![r] = "skipped"]
  BY <1>1, <1>2, <1>3, VerdictCases, VerdictChanges
<1>5. \A d \in Deps(r) : d \in Requests /\ Verdicts[d] \in {"success", "failure", "skipped"}
  BY <1>1, DepsInTrace, VerdictCases DEF Verdicts
<1>6. \E d \in Deps(r) : Verdicts[d] # "success"
  <2>1. PICK d \in Deps(r) : outcomes[d] # "TRUE"
    BY <1>1 DEF DependenciesSucceeded
  <2>2. d \in Requests /\ result[d] # "success"
    BY <2>1, DepsInTrace DEF RInv, OutcomesAgree
  <2> QED
    BY <2>2, VerdictCases DEF Verdicts
<1>7. r \notin Admitted
  BY <1>1, VerdictCases
<1>8. Workflow!Skip(r)
  BY <1>1, <1>4, <1>5, <1>6, <1>7
  DEF Workflow!Skip, Workflow!Decided, Workflow!Succeeded, Verdicts
<1> QED
  BY <1>8 DEF Workflow!Next

(* Seen through verdicts and calls in flight, each turn of the replay        *)
(* launches, lands, skips or drops a request, or does nothing.               *)
THEOREM RefinesWorkflowOutcome == ReplaySpec => Workflow!Spec
<1>1. ReplayInit => Workflow!Init
  BY DEF ReplayInit, Init, Workflow!Init, Admitted, Verdict
<1>2. RInv /\ RInv' /\ [ReplayNext]_replayVars => [Workflow!Next]_(Workflow!vars)
  <2> SUFFICES ASSUME RInv, RInv', [ReplayNext]_replayVars
               PROVE  Workflow!Next \/ UNCHANGED Workflow!vars
    OBVIOUS
  <2>1. ASSUME NEW r \in Requests, StartJoin(r) PROVE UNCHANGED Workflow!vars
    <3>1. /\ stage[r] = "sleeping" /\ stage'[r] = "joining"
          /\ \A q \in Requests \ {r} : stage'[q] = stage[q] /\ result'[q] = result[q]
          /\ Admitted' = Admitted
      BY <2>1 DEF StartJoin, RInv, RecordsTyped, vars, Admitted
    <3>2. Verdict(r) = "pending" /\ Verdict(r)' = "pending"
      BY <2>1, <3>1, VerdictCases DEF StartJoin, RInv, OutcomesAgree, Verdict
    <3>3. Verdicts' = [Verdicts EXCEPT ![r] = "pending"]
      BY <3>1, <3>2, VerdictChanges
    <3>4. Verdicts' = Verdicts
      BY <3>2, <3>3 DEF Verdicts
    <3> QED
      BY <3>1, <3>4 DEF Workflow!vars, Verdicts
  <2>2. ASSUME NEW r \in Requests, Turn(r)
        PROVE  Workflow!Next \/ UNCHANGED Workflow!vars
    BY <2>1, <2>2, LaunchOrWait, LandsOrDrops, Skips DEF Turn
  <2>3. ASSUME UNCHANGED <<loc, records>> PROVE UNCHANGED Workflow!vars
    BY <2>3 DEF records, Workflow!vars, Verdict, Admitted
  <2>4. CASE \/ CloseClient \/ Interrupt \/ Abort \/ WriteResults
             \/ Clock \/ Exit \/ UNCHANGED replayVars
    <3>1. UNCHANGED <<loc, records>>
      BY <2>4 DEF CloseClient, Interrupt, Abort, WriteResults, Clock, Tick, Exit, replayVars, vars
    <3> QED
      BY <2>3, <3>1
  <2> QED
    BY <2>2, <2>4 DEF ReplayNext
<1> QED
  BY <1>1, <1>2, ReplayInvariant, PTL DEF ReplaySpec, Workflow!Spec
=============================================================================
