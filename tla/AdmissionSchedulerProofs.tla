---------------------- MODULE AdmissionSchedulerProofs ----------------------
(***************************************************************************)
(* Proofs about AdmissionScheduler, for every trace, policy, capacity and  *)
(* list of endpoints.                                                      *)
(*                                                                         *)
(* The inductive invariant joins the type invariant with the accounting of *)
(* queue and slots: that _active stays between 0 and the capacity rests on *)
(* its being the number of requests that hold a slot.                      *)
(***************************************************************************)
EXTENDS AdmissionScheduler, FiniteData

IInv == TypeOK /\ QueueMatchesCallers /\ SlotAccounting

(* What a turn of r does to the places of the coroutines: r goes somewhere,  *)
(* and some of the others are notified.                                      *)
Moves(r, place) ==
  /\ loc' \in [Requests -> Places]
  /\ loc'[r] = place
  /\ \A q \in Requests \ {r} :
       loc'[q] = loc[q] \/ (loc[q] = "parked" /\ loc'[q] = "woken")

(* The two ways a turn in acquire ends. *)
Admits(r, e) ==
  /\ active < Capacity
  /\ loc[r] \in {"outside", "woken"}
  /\ Moves(r, "admitted")
  /\ ReserveSlot(r, e)
  /\ waiting' = waiting \ {r}
  /\ UNCHANGED <<now, predictor>>

Parks(r) ==
  /\ loc[r] \in {"outside", "woken"}
  /\ Moves(r, "parked")
  /\ waiting' = waiting \cup {r}
  /\ \A e \in Endpoints : ~Chosen(waiting', r, e)
  /\ loc[r] = "outside" => \A q \in Requests : loc'[q] = "parked" => q = r
  /\ UNCHANGED <<now, slots, predictor>>
-----------------------------------------------------------------------------
(* A validated record has a cost, a tenant and a cache key of the right type. *)
LEMMA RecordTypes ==
  ASSUME NEW r \in Requests
  PROVE  ServiceCost(r) \in Nat /\ Tenant(r) \in Tenants /\ CacheKey(r) \in CacheKeys
<1>1. ValidRecord(r)
  BY TraceAssumption DEF ValidTrace
<1>2. ServiceCost(r) \in Nat
  BY <1>1 DEF ValidRecord, ServiceCost
<1> QED
  BY <1>2 DEF Tenants, CacheKeys

(* notify_all moves parked waiters, and only them. *)
LEMMA NotifyAllMoves ==
  ASSUME NEW places \in [Requests -> Places]
  PROVE  /\ NotifyAll(places) \in [Requests -> Places]
         /\ \A q \in Requests : NotifyAll(places)[q] # "parked"
         /\ \A q \in Requests :
              \/ NotifyAll(places)[q] = places[q]
              \/ places[q] = "parked" /\ NotifyAll(places)[q] = "woken"
BY DEF NotifyAll, Places

(* A turn in acquire admits its caller or parks it. *)
LEMMA TurnInAcquire ==
  ASSUME IInv, NEW r \in Requests, Acquire(r) \/ Wake(r)
  PROVE  Parks(r) \/ \E e \in Endpoints : Admits(r, e)
<1>1. CASE Acquire(r)
  <2> DEFINE places == NotifyAll(loc)
  <2>1. /\ places \in [Requests -> Places]
        /\ \A q \in Requests : places[q] # "parked"
        /\ \A q \in Requests :
             places[q] = loc[q] \/ (loc[q] = "parked" /\ places[q] = "woken")
    BY NotifyAllMoves DEF IInv, TypeOK
  <2>2. loc[r] = "outside" /\ r \notin waiting /\ TryAdmit(r, waiting \cup {r}, places)
    BY <1>1 DEF Acquire, IInv, QueueMatchesCallers
  <2> HIDE DEF places
  <2>3. ASSUME NEW e \in Endpoints, Chosen(waiting \cup {r}, r, e), ReserveSlot(r, e),
               waiting' = (waiting \cup {r}) \ {r},
               loc' = [places EXCEPT ![r] = "admitted"],
               UNCHANGED <<now, predictor>>
        PROVE  Admits(r, e)
    <3>1. Moves(r, "admitted")
      BY <2>1, <2>3 DEF Moves, Places
    <3> QED
      BY <2>2, <2>3, <3>1 DEF Admits, Chosen, SlotFree
  <2>4. ASSUME \A e \in Endpoints : ~Chosen(waiting \cup {r}, r, e),
               waiting' = waiting \cup {r},
               loc' = [places EXCEPT ![r] = "parked"],
               UNCHANGED slots, UNCHANGED <<now, predictor>>
        PROVE  Parks(r)
    <3>1. Moves(r, "parked")
      BY <2>1, <2>4 DEF Moves, Places
    <3>2. \A q \in Requests : loc'[q] = "parked" => q = r
      BY <2>1, <2>4
    <3> QED
      BY <2>2, <2>4, <3>1, <3>2 DEF Parks
  <2> QED
    BY <2>2, <2>3, <2>4 DEF TryAdmit
<1>2. CASE Wake(r)
  <2>1. loc[r] = "woken" /\ r \in waiting /\ TryAdmit(r, waiting, loc)
    BY <1>2 DEF Wake, IInv, QueueMatchesCallers
  <2>2. loc \in [Requests -> Places]
    BY DEF IInv, TypeOK
  <2>3. ASSUME NEW e \in Endpoints, Chosen(waiting, r, e), ReserveSlot(r, e),
               waiting' = waiting \ {r},
               loc' = [loc EXCEPT ![r] = "admitted"],
               UNCHANGED <<now, predictor>>
        PROVE  Admits(r, e)
    <3>1. Moves(r, "admitted")
      BY <2>2, <2>3 DEF Moves, Places
    <3> QED
      BY <2>1, <2>3, <3>1 DEF Admits, Chosen, SlotFree
  <2>4. ASSUME \A e \in Endpoints : ~Chosen(waiting, r, e),
               waiting' = waiting,
               loc' = [loc EXCEPT ![r] = "parked"],
               UNCHANGED slots, UNCHANGED <<now, predictor>>
        PROVE  Parks(r)
    <3>1. Moves(r, "parked")
      BY <2>2, <2>4 DEF Moves, Places
    <3>2. waiting' = waiting \cup {r}
      BY <2>1, <2>4
    <3> QED
      BY <2>1, <2>4, <3>1, <3>2 DEF Parks
  <2> QED
    BY <2>1, <2>3, <2>4 DEF TryAdmit
<1> QED
  BY <1>1, <1>2

(* A cancelled waiter is gone from the queue, and everybody is notified. *)
LEMMA TurnWithdraws ==
  ASSUME IInv, NEW r \in Requests, Withdraw(r)
  PROVE  /\ loc[r] \in {"parked", "woken"}
         /\ Moves(r, "withdrawn")
         /\ \A q \in Requests : loc'[q] # "parked"
         /\ waiting' = waiting \ {r}
         /\ UNCHANGED <<now, slots, predictor>>
<1> DEFINE places == [loc EXCEPT ![r] = "withdrawn"]
<1>1. places \in [Requests -> Places]
  BY DEF IInv, TypeOK, Places
<1>2. loc' = NotifyAll(places)
  BY DEF Withdraw
<1>3. /\ loc' \in [Requests -> Places]
      /\ \A q \in Requests : loc'[q] # "parked"
      /\ \A q \in Requests :
           loc'[q] = places[q] \/ (places[q] = "parked" /\ loc'[q] = "woken")
  BY <1>1, <1>2, NotifyAllMoves
<1>4. Moves(r, "withdrawn")
  BY <1>3 DEF Moves, IInv, TypeOK
<1> QED
  BY <1>3, <1>4 DEF Withdraw

(* A released slot: the predictor learns, and everybody is notified. *)
LEMMA TurnReleases ==
  ASSUME IInv, NEW r \in Requests, NEW ok \in BOOLEAN, Release(r, ok)
  PROVE  /\ loc[r] = "admitted"
         /\ Moves(r, IF ok THEN "succeeded" ELSE "failed")
         /\ \A q \in Requests : loc'[q] # "parked"
         /\ FreeSlot(r)
         /\ Learn(r, ok)
         /\ UNCHANGED <<now, waiting>>
<1> DEFINE place  == IF ok THEN "succeeded" ELSE "failed"
           places == [loc EXCEPT ![r] = place]
<1>1. places \in [Requests -> Places]
  BY DEF IInv, TypeOK, Places
<1>2. loc' = NotifyAll(places)
  BY DEF Release
<1>3. /\ loc' \in [Requests -> Places]
      /\ \A q \in Requests : loc'[q] # "parked"
      /\ \A q \in Requests :
           loc'[q] = places[q] \/ (places[q] = "parked" /\ loc'[q] = "woken")
  BY <1>1, <1>2, NotifyAllMoves
<1>4. Moves(r, place)
  BY <1>3 DEF Moves, IInv, TypeOK
<1> QED
  BY <1>3, <1>4 DEF Release
-----------------------------------------------------------------------------
(* Sets of requests are finite and can be counted. *)
LEMMA SlotsFinite ==
  ASSUME NEW S \in SUBSET Requests
  PROVE  IsFiniteSet(S) /\ Cardinality(S) \in Nat
BY TraceAssumption, FS_Subset, FS_CardinalityType

(* An admission counts the new holder once, in total and at its endpoint. *)
LEMMA AdmissionCounts ==
  ASSUME IInv, NEW r \in Requests, NEW e \in Endpoints, Admits(r, e)
  PROVE  SlotAccounting'
<1>1. /\ loc \in [Requests -> Places]
      /\ assigned \in [Requests -> Endpoints \cup {None}]
      /\ endpointActive \in [Endpoints -> 0 .. Capacity]
      /\ r \notin Admitted
  BY DEF IInv, TypeOK, Admits, Admitted
<1>2. /\ assigned' = [assigned EXCEPT ![r] = e]
      /\ active' = active + 1
      /\ endpointActive' = [endpointActive EXCEPT ![e] = @ + 1]
  BY DEF Admits, ReserveSlot
<1>3. Admitted' = Admitted \cup {r}
  BY DEF Admitted, Admits, Moves
<1>4. active' = Cardinality(Admitted')
  BY <1>1, <1>2, <1>3, SlotsFinite, FS_AddElement DEF IInv, SlotAccounting, Admitted
<1>5. ASSUME NEW f \in Endpoints
      PROVE  endpointActive'[f] = Cardinality(OnEndpoint(f)')
  <2>1. endpointActive[f] = Cardinality(OnEndpoint(f))
    BY DEF IInv, SlotAccounting
  <2>2. CASE f = e
    <3>1. OnEndpoint(f)' = OnEndpoint(f) \cup {r} /\ r \notin OnEndpoint(f)
      BY <1>1, <1>2, <1>3, <2>2 DEF OnEndpoint
    <3>2. OnEndpoint(f) \in SUBSET Requests
      BY DEF OnEndpoint, Admitted
    <3> QED
      BY <1>1, <1>2, <2>1, <2>2, <3>1, <3>2, SlotsFinite, FS_AddElement
  <2>3. CASE f # e
    <3>1. OnEndpoint(f)' = OnEndpoint(f)
      BY <1>1, <1>2, <1>3, <2>3 DEF OnEndpoint, Admitted
    <3> QED
      BY <1>1, <1>2, <2>1, <2>3, <3>1
  <2> QED
    BY <2>2, <2>3
<1>6. ASSUME NEW q \in Requests
      PROVE  loc'[q] \in {"admitted", "succeeded", "failed"} <=> assigned'[q] # None
  <2>1. e # None
    BY SchedulerAssumption
  <2>2. loc[q] \in {"admitted", "succeeded", "failed"} <=> assigned[q] # None
    BY DEF IInv, SlotAccounting
  <2> QED
    BY <1>1, <1>2, <2>1, <2>2 DEF Admits, Moves
<1> QED
  BY <1>4, <1>5, <1>6 DEF SlotAccounting

(* A release counts its holder out once, in total and at its endpoint. *)
LEMMA ReleaseCounts ==
  ASSUME IInv, NEW r \in Requests, NEW ok \in BOOLEAN, Release(r, ok)
  PROVE  /\ SlotAccounting'
         /\ assigned[r] \in Endpoints
         /\ active > 0
         /\ endpointActive[assigned[r]] > 0
<1>1. /\ loc \in [Requests -> Places]
      /\ assigned \in [Requests -> Endpoints \cup {None}]
      /\ endpointActive \in [Endpoints -> 0 .. Capacity]
      /\ r \in Admitted
  BY TurnReleases DEF IInv, TypeOK, Admitted
<1>2. /\ assigned' = assigned
      /\ active' = active - 1
      /\ endpointActive' = [endpointActive EXCEPT ![assigned[r]] = @ - 1]
  BY TurnReleases DEF FreeSlot
<1>3. Admitted' = Admitted \ {r}
  BY TurnReleases DEF Admitted, Moves
<1>4. Admitted \in SUBSET Requests
  BY DEF Admitted
<1>5. active' = Cardinality(Admitted') /\ active > 0
  <2>1. active = Cardinality(Admitted)
    BY DEF IInv, SlotAccounting
  <2>2. IsFiniteSet(Admitted') /\ Cardinality(Admitted') \in Nat
    BY <1>3, <1>4, SlotsFinite
  <2>3. Cardinality(Admitted') = Cardinality(Admitted) - 1
    BY <1>1, <1>3, <1>4, SlotsFinite, FS_RemoveElement
  <2>4. Cardinality(Admitted) \in Nat
    BY <1>4, SlotsFinite
  <2> QED
    BY <1>2, <2>1, <2>2, <2>3, <2>4
<1>6. assigned[r] \in Endpoints
  BY <1>1 DEF IInv, SlotAccounting, Admitted
<1>7. ASSUME NEW f \in Endpoints
      PROVE  /\ endpointActive'[f] = Cardinality(OnEndpoint(f)')
             /\ f = assigned[r] => endpointActive[f] > 0
  <2>1. endpointActive[f] = Cardinality(OnEndpoint(f))
    BY DEF IInv, SlotAccounting
  <2>2. OnEndpoint(f) \in SUBSET Requests /\ OnEndpoint(f)' \in SUBSET Requests
    BY <1>3, <1>4 DEF OnEndpoint, Admitted
  <2>3. CASE f = assigned[r]
    <3>1. OnEndpoint(f)' = OnEndpoint(f) \ {r} /\ r \in OnEndpoint(f)
      BY <1>1, <1>2, <1>3, <2>3 DEF OnEndpoint
    <3>2. Cardinality(OnEndpoint(f)') = Cardinality(OnEndpoint(f)) - 1
      BY <2>2, <3>1, SlotsFinite, FS_RemoveElement
    <3>3. Cardinality(OnEndpoint(f)') \in Nat /\ Cardinality(OnEndpoint(f)) \in Nat
      BY <2>2, SlotsFinite
    <3> QED
      BY <1>1, <1>2, <2>1, <2>3, <3>2, <3>3
  <2>4. CASE f # assigned[r]
    <3>1. OnEndpoint(f)' = OnEndpoint(f)
      BY <1>1, <1>2, <1>3, <2>4 DEF OnEndpoint
    <3> QED
      BY <1>1, <1>2, <2>1, <2>4, <3>1
  <2> QED
    BY <2>3, <2>4
<1>8. ASSUME NEW q \in Requests
      PROVE  loc'[q] \in {"admitted", "succeeded", "failed"} <=> assigned'[q] # None
  <2>1. loc[q] \in {"admitted", "succeeded", "failed"} <=> assigned[q] # None
    BY DEF IInv, SlotAccounting
  <2> QED
    BY <1>2, <2>1, TurnReleases DEF Moves
<1> QED
  BY <1>5, <1>6, <1>7, <1>8 DEF SlotAccounting

(* A turn that moves nobody in or out of a slot keeps the accounting. *)
LEMMA NobodyCounts ==
  ASSUME IInv, NEW r \in Requests, NEW place, Moves(r, place), UNCHANGED slots,
         loc[r] \notin {"admitted", "succeeded", "failed"},
         place \notin {"admitted", "succeeded", "failed"}
  PROVE  SlotAccounting'
<1>1. \A q \in Requests : \A l \in {"admitted", "succeeded", "failed"} :
        loc'[q] = l <=> loc[q] = l
  BY DEF Moves
<1>2. Admitted' = Admitted
  BY <1>1 DEF Admitted
<1>3. \A e \in Endpoints : OnEndpoint(e)' = OnEndpoint(e)
  BY <1>2 DEF OnEndpoint, slots
<1> QED
  BY <1>1, <1>2, <1>3 DEF IInv, SlotAccounting, slots
-----------------------------------------------------------------------------
LEMMA InitIInv == Init => IInv
<1> SUFFICES ASSUME Init PROVE IInv
  OBVIOUS
<1>1. TypeOK
  BY SchedulerAssumption DEF Init, TypeOK, Places
<1>2. QueueMatchesCallers
  BY DEF Init, QueueMatchesCallers
<1>3. Admitted = {} /\ \A e \in Endpoints : OnEndpoint(e) = {}
  BY DEF Init, Admitted, OnEndpoint
<1>4. SlotAccounting
  BY <1>3, FS_EmptySet DEF Init, SlotAccounting
<1> QED
  BY <1>1, <1>2, <1>4 DEF IInv

LEMMA AdmitsIInv ==
  ASSUME IInv, NEW r \in Requests, NEW e \in Endpoints, Admits(r, e)
  PROVE  IInv'
<1>1. SlotAccounting'
  BY AdmissionCounts
<1>2. TypeOK'
  <2> USE DEF IInv, TypeOK, Admits, ReserveSlot, predictor
  <2>1. active' \in 0 .. Capacity
    BY SchedulerAssumption
  <2>2. endpointActive' \in [Endpoints -> 0 .. Capacity]
    <3>1. endpointActive \in [Endpoints -> Nat]
      BY SchedulerAssumption
    <3>2. endpointActive' \in [Endpoints -> Nat]
      BY <3>1
    <3>3. ASSUME NEW f \in Endpoints
          PROVE  endpointActive'[f] <= Capacity
      <4>1. Admitted' \in SUBSET Requests /\ OnEndpoint(f)' \in SUBSET Admitted'
        BY DEF Admitted, OnEndpoint
      <4>2. Cardinality(OnEndpoint(f)') <= Cardinality(Admitted')
        BY <4>1, SlotsFinite, FS_Subset
      <4>3. endpointActive'[f] = Cardinality(OnEndpoint(f)') /\ active' = Cardinality(Admitted')
        BY <1>1 DEF SlotAccounting
      <4> QED
        BY <2>1, <3>2, <4>2, <4>3, SchedulerAssumption
    <3> QED
      BY <3>2, <3>3, SchedulerAssumption
  <2>3. tenantService' \in [Tenants -> Nat]
    BY RecordTypes
  <2>4. loc' \in [Requests -> Places] /\ assigned' \in [Requests -> Endpoints \cup {None}]
    BY DEF Moves
  <2>5. waiting' \subseteq Requests
    BY DEF Moves
  <2> QED
    BY <2>1, <2>2, <2>3, <2>4, <2>5
<1>3. QueueMatchesCallers'
  BY DEF IInv, QueueMatchesCallers, Admits, Moves
<1> QED
  BY <1>1, <1>2, <1>3 DEF IInv

LEMMA ParksIInv ==
  ASSUME IInv, NEW r \in Requests, Parks(r)
  PROVE  IInv'
<1>1. SlotAccounting'
  BY NobodyCounts DEF Parks
<1>2. TypeOK'
  BY DEF IInv, TypeOK, Parks, Moves, slots, predictor
<1>3. QueueMatchesCallers'
  BY DEF IInv, QueueMatchesCallers, Parks, Moves
<1> QED
  BY <1>1, <1>2, <1>3 DEF IInv

LEMMA WithdrawIInv ==
  ASSUME IInv, NEW r \in Requests, Withdraw(r)
  PROVE  IInv'
<1>1. SlotAccounting'
  BY TurnWithdraws, NobodyCounts
<1>2. TypeOK'
  BY TurnWithdraws DEF IInv, TypeOK, Moves, slots, predictor
<1>3. QueueMatchesCallers'
  BY TurnWithdraws DEF IInv, QueueMatchesCallers, Moves
<1> QED
  BY <1>1, <1>2, <1>3 DEF IInv

LEMMA ReleaseIInv ==
  ASSUME IInv, NEW r \in Requests, NEW ok \in BOOLEAN, Release(r, ok)
  PROVE  IInv'
<1>1. /\ SlotAccounting'
      /\ assigned[r] \in Endpoints
      /\ active > 0
      /\ endpointActive[assigned[r]] > 0
  BY ReleaseCounts
<1>2. TypeOK'
  <2>1. /\ active' \in 0 .. Capacity
        /\ endpointActive' \in [Endpoints -> 0 .. Capacity]
        /\ assigned' = assigned
        /\ tenantService' = tenantService
    <3>1. FreeSlot(r)
      BY TurnReleases
    <3>2. Capacity \in Nat
      BY SchedulerAssumption
    <3>3. active \in 0 .. Capacity /\ endpointActive \in [Endpoints -> 0 .. Capacity]
      BY DEF IInv, TypeOK
    <3> QED
      BY <1>1, <3>1, <3>2, <3>3 DEF FreeSlot
  <2>2. /\ attempts' \in [Endpoints -> Nat]
        /\ failures' \in [Endpoints -> Nat]
        /\ resident' \in [Endpoints -> SUBSET CacheKeys]
    BY <1>1, TurnReleases, RecordTypes DEF IInv, TypeOK, Learn
  <2>3. now' = now /\ waiting' = waiting /\ loc' \in [Requests -> Places]
    BY TurnReleases DEF Moves
  <2> QED
    BY <2>1, <2>2, <2>3 DEF IInv, TypeOK
<1>3. QueueMatchesCallers'
  BY TurnReleases DEF IInv, QueueMatchesCallers, Moves
<1> QED
  BY <1>1, <1>2, <1>3 DEF IInv

LEMMA StutterIInv ==
  ASSUME IInv, UNCHANGED <<loc, waiting, slots, predictor>>, now' \in 0 .. MaxTime
  PROVE  IInv'
<1> USE DEF slots, predictor
<1>1. TypeOK'
  BY DEF IInv, TypeOK
<1>2. QueueMatchesCallers'
  BY DEF IInv, QueueMatchesCallers
<1>3. Admitted' = Admitted /\ \A e \in Endpoints : OnEndpoint(e)' = OnEndpoint(e)
  BY DEF Admitted, OnEndpoint
<1>4. SlotAccounting'
  BY <1>3 DEF IInv, SlotAccounting
<1> QED
  BY <1>1, <1>2, <1>4 DEF IInv

LEMMA NextIInv == IInv /\ [Next]_vars => IInv'
<1> SUFFICES ASSUME IInv, [Next]_vars PROVE IInv'
  OBVIOUS
<1>1. ASSUME NEW r \in Requests, Acquire(r) \/ Wake(r) PROVE IInv'
  BY <1>1, TurnInAcquire, AdmitsIInv, ParksIInv
<1>2. ASSUME NEW r \in Requests, Withdraw(r) PROVE IInv'
  BY <1>2, WithdrawIInv
<1>3. ASSUME NEW r \in Requests, NEW ok \in BOOLEAN, Release(r, ok) PROVE IInv'
  BY <1>3, ReleaseIInv
<1>4. CASE Tick
  <2>1. now' \in 0 .. MaxTime
    BY <1>4, SchedulerAssumption DEF Tick, IInv, TypeOK
  <2> QED
    BY <1>4, <2>1, StutterIInv DEF Tick
<1>5. CASE UNCHANGED vars
  <2>1. now' \in 0 .. MaxTime
    BY <1>5 DEF vars, IInv, TypeOK
  <2> QED
    BY <1>5, <2>1, StutterIInv DEF vars
<1> QED
  BY <1>1, <1>2, <1>3, <1>4, <1>5 DEF Next, Idle

(* In every reachable state the queue is the set of coroutines inside        *)
(* acquire, the counters are the numbers of slot holders, and both are       *)
(* within the capacity.                                                      *)
THEOREM AccountingInvariant == Spec => []IInv
<1>1. Init => IInv
  BY InitIInv
<1>2. IInv /\ [Next]_vars => IInv'
  BY NextIInv
<1> QED
  BY <1>1, <1>2, PTL DEF Spec

(* Every variable keeps its type; _active and each _endpoint_active stay     *)
(* between 0 and client_max_concurrency.                                     *)
THEOREM TypeCorrect == Spec => []TypeOK
<1>1. IInv => TypeOK
  BY DEF IInv
<1> QED
  BY <1>1, AccountingInvariant, PTL

(* No entry of _waiting outlives its coroutine's stay in acquire. *)
THEOREM QueueCorrect == Spec => []QueueMatchesCallers
<1>1. IInv => QueueMatchesCallers
  BY DEF IInv
<1> QED
  BY <1>1, AccountingInvariant, PTL

(* Slots are counted exactly, on every path out of acquire and out of a call. *)
THEOREM SlotsCorrect == Spec => []SlotAccounting
<1>1. IInv => SlotAccounting
  BY DEF IInv
<1> QED
  BY <1>1, AccountingInvariant, PTL
-----------------------------------------------------------------------------
(* The calls that have ended are left alone by every turn but a release. *)
LEMMA HistoryKept ==
  ASSUME IInv, PredictorMatchesHistory, UNCHANGED predictor,
         \A e \in Endpoints : \A ends \in SUBSET {"succeeded", "failed"} :
           Finished(e, ends)' = Finished(e, ends)
  PROVE  PredictorMatchesHistory'
BY DEF PredictorMatchesHistory, predictor

LEMMA ReleaseHistory ==
  ASSUME IInv, PredictorMatchesHistory,
         NEW r \in Requests, NEW ok \in BOOLEAN, Release(r, ok)
  PROVE  PredictorMatchesHistory'
<1> DEFINE f == assigned[r]
<1>1. /\ assigned' = assigned
      /\ f \in Endpoints
      /\ loc[r] = "admitted"
      /\ Moves(r, IF ok THEN "succeeded" ELSE "failed")
      /\ Learn(r, ok)
  BY ReleaseCounts, TurnReleases DEF FreeSlot
<1>2. /\ attempts \in [Endpoints -> Nat]
      /\ failures \in [Endpoints -> Nat]
      /\ resident \in [Endpoints -> SUBSET CacheKeys]
  BY DEF IInv, TypeOK
<1>3. ASSUME NEW e \in Endpoints, NEW ends \in SUBSET {"succeeded", "failed"}
      PROVE  /\ Finished(e, ends) \in SUBSET Requests
             /\ r \notin Finished(e, ends)
             /\ Finished(e, ends)' =
                  IF e = f /\ (IF ok THEN "succeeded" ELSE "failed") \in ends
                    THEN Finished(e, ends) \cup {r}
                    ELSE Finished(e, ends)
  BY <1>1 DEF Finished, Moves
<1>4. ASSUME NEW e \in Endpoints, NEW ends \in SUBSET {"succeeded", "failed"}
      PROVE  Cardinality(Finished(e, ends)') =
               IF e = f /\ (IF ok THEN "succeeded" ELSE "failed") \in ends
                 THEN Cardinality(Finished(e, ends)) + 1
                 ELSE Cardinality(Finished(e, ends))
  BY <1>3, SlotsFinite, FS_AddElement
<1>5. ASSUME NEW e \in Endpoints
      PROVE  /\ attempts'[e] = Cardinality(Finished(e, {"succeeded", "failed"})')
             /\ failures'[e] = Cardinality(Finished(e, {"failed"})')
             /\ resident'[e] = {CacheKey(q) : q \in Finished(e, {"succeeded"})'}
  <2>1. /\ attempts[e] = Cardinality(Finished(e, {"succeeded", "failed"}))
        /\ failures[e] = Cardinality(Finished(e, {"failed"}))
        /\ resident[e] = {CacheKey(q) : q \in Finished(e, {"succeeded"})}
    BY DEF PredictorMatchesHistory
  <2>2. attempts'[e] = IF e = f THEN attempts[e] + 1 ELSE attempts[e]
    BY <1>1, <1>2 DEF Learn
  <2>3. failures'[e] = IF e = f /\ ~ok THEN failures[e] + 1 ELSE failures[e]
    BY <1>1, <1>2 DEF Learn
  <2>4. resident'[e] = IF e = f /\ ok THEN resident[e] \cup {CacheKey(r)} ELSE resident[e]
    BY <1>1, <1>2 DEF Learn
  <2>5. attempts'[e] = Cardinality(Finished(e, {"succeeded", "failed"})')
    BY <1>4, <2>1, <2>2
  <2>6. failures'[e] = Cardinality(Finished(e, {"failed"})')
    BY <1>4, <2>1, <2>3
  <2>7. Finished(e, {"succeeded"})' =
          IF e = f /\ ok THEN Finished(e, {"succeeded"}) \cup {r}
                         ELSE Finished(e, {"succeeded"})
    BY <1>3
  <2>8. resident'[e] = {CacheKey(q) : q \in Finished(e, {"succeeded"})'}
    BY <2>1, <2>4, <2>7
  <2> QED
    BY <2>5, <2>6, <2>8
<1> QED
  BY <1>5 DEF PredictorMatchesHistory

(* The predictor counts what happened: attempts, failures and resident       *)
(* prefixes are a function of the calls that ended and of where they ran.    *)
THEOREM PredictorCorrect == Spec => []PredictorMatchesHistory
<1>1. Init => PredictorMatchesHistory
  <2> SUFFICES ASSUME Init PROVE PredictorMatchesHistory
    OBVIOUS
  <2>1. \A e \in Endpoints : \A ends \in SUBSET {"succeeded", "failed"} :
          Finished(e, ends) = {}
    BY DEF Init, Finished
  <2> QED
    BY <2>1, FS_EmptySet DEF Init, PredictorMatchesHistory
<1>2. IInv /\ PredictorMatchesHistory /\ [Next]_vars => PredictorMatchesHistory'
  <2> SUFFICES ASSUME IInv, PredictorMatchesHistory, [Next]_vars
               PROVE  PredictorMatchesHistory'
    OBVIOUS
  <2>1. ASSUME NEW r \in Requests, NEW f \in Endpoints, Admits(r, f)
        PROVE  PredictorMatchesHistory'
    <3>1. ASSUME NEW e \in Endpoints, NEW ends \in SUBSET {"succeeded", "failed"}
          PROVE  Finished(e, ends)' = Finished(e, ends)
      BY <2>1 DEF Admits, Moves, ReserveSlot, Finished, IInv, TypeOK
    <3> QED
      BY <2>1, <3>1, HistoryKept DEF Admits
  <2>2. ASSUME NEW r \in Requests, NEW place \in {"parked", "withdrawn"},
               loc[r] \notin {"succeeded", "failed"},
               Moves(r, place), UNCHANGED slots, UNCHANGED predictor
        PROVE  PredictorMatchesHistory'
    <3>1. ASSUME NEW e \in Endpoints, NEW ends \in SUBSET {"succeeded", "failed"}
          PROVE  Finished(e, ends)' = Finished(e, ends)
      BY <2>2 DEF Moves, slots, Finished
    <3> QED
      BY <2>2, <3>1, HistoryKept
  <2>3. ASSUME NEW r \in Requests, Acquire(r) \/ Wake(r) PROVE PredictorMatchesHistory'
    <3>1. CASE Parks(r)
      BY <3>1, <2>2 DEF Parks
    <3> QED
      BY <2>1, <2>3, <3>1, TurnInAcquire
  <2>4. ASSUME NEW r \in Requests, Withdraw(r) PROVE PredictorMatchesHistory'
    BY <2>2, <2>4, TurnWithdraws
  <2>5. ASSUME NEW r \in Requests, NEW ok \in BOOLEAN, Release(r, ok)
        PROVE  PredictorMatchesHistory'
    BY <2>5, ReleaseHistory
  <2>6. ASSUME UNCHANGED <<loc, waiting, slots, predictor>> PROVE PredictorMatchesHistory'
    BY <2>6, HistoryKept DEF slots, Finished
  <2> QED
    BY <2>3, <2>4, <2>5, <2>6 DEF Next, Idle, Tick, vars
<1> QED
  BY <1>1, <1>2, AccountingInvariant, PTL DEF Spec
-----------------------------------------------------------------------------
(* Ranking reads the counters, the predictor and the clock: a step that      *)
(* leaves those alone leaves the decision on a given queue alone.            *)
LEMMA DecisionStable ==
  ASSUME UNCHANGED <<now, slots, predictor>>, NEW queue, NEW r, NEW e
  PROVE  BestDecision(queue, r, e)' <=> BestDecision(queue, r, e)
<1> USE DEF slots, predictor
<1>1. ASSUME NEW q, NEW f PROVE Score(q, f)' = Score(q, f)
  <2>1. Criticality(q)' = Criticality(q)
    BY DEF Criticality, Urgency, WorkflowAge
  <2>2. TenantDeficit(q)' = TenantDeficit(q)
    BY DEF TenantDeficit
  <2>3. CacheAffinity(q, f)' = CacheAffinity(q, f)
    BY DEF CacheAffinity
  <2>4. FailureRisk(f)' = FailureRisk(f) /\ EndpointLoad(f)' = EndpointLoad(f)
    BY DEF FailureRisk, EndpointLoad
  <2> QED
    BY <2>1, <2>2, <2>3, <2>4 DEF Score
<1>2. ASSUME NEW q, NEW f, NEW g, NEW h PROVE Beats(q, f, g, h)' <=> Beats(q, f, g, h)
  BY <1>1 DEF Beats
<1>3. WorkflowCacheFairBest(queue, r, e)' <=> WorkflowCacheFairBest(queue, r, e)
  BY <1>2 DEF WorkflowCacheFairBest
<1> QED
  BY <1>3 DEF BestDecision, FirstInTrace, BaselineEndpoint

(* No turn of a coroutine loses a wake-up: an admission leaves a slot taken, *)
(* a coroutine that parks with every slot free is not the one to serve, and  *)
(* a release or a cancellation notifies everybody.  What is left is time.    *)
LEMMA TurnsWakeTheBest ==
  ASSUME IInv, NoLostWakeup, NEW r \in Requests,
         \/ Acquire(r) \/ Wake(r) \/ Withdraw(r) \/ \E ok \in BOOLEAN : Release(r, ok)
  PROVE  NoLostWakeup'
<1>1. \A q \in Requests : q \in waiting' => loc'[q] \in {"parked", "woken"}
  <2>1. [Next]_vars
    BY DEF Next
  <2> QED
    BY <2>1, NextIInv DEF IInv, QueueMatchesCallers
<1>2. waiting' \subseteq Requests
  <2>1. [Next]_vars
    BY DEF Next
  <2> QED
    BY <2>1, NextIInv DEF IInv, TypeOK
<1>3. CASE Withdraw(r) \/ \E ok \in BOOLEAN : Release(r, ok)
  <2>1. \A q \in Requests : loc'[q] # "parked"
    BY <1>3, TurnWithdraws, TurnReleases
  <2> QED
    BY <1>1, <1>2, <2>1 DEF NoLostWakeup
<1>4. ASSUME NEW e \in Endpoints, Admits(r, e) PROVE NoLostWakeup'
  <2>1. active' = active + 1 /\ active \in Nat
    BY <1>4, SchedulerAssumption DEF Admits, ReserveSlot, IInv, TypeOK
  <2> QED
    BY <2>1 DEF NoLostWakeup
<1>5. ASSUME Parks(r) PROVE NoLostWakeup'
  <2> SUFFICES ASSUME active' = 0, NEW q \in waiting', NEW e \in Endpoints,
                      BestDecision(waiting, q, e)', loc'[q] # "woken"
               PROVE  FALSE
    BY DEF NoLostWakeup
  <2>1. active = 0 /\ SlotFree
    BY <1>5, SchedulerAssumption DEF Parks, slots, SlotFree
  <2>2. BestDecision(waiting', q, e)
    <3>1. PICK queue : queue = waiting'
      OBVIOUS
    <3>2. BestDecision(queue, q, e)'
      BY <3>1 DEF BestDecision, WorkflowCacheFairBest, FirstInTrace
    <3>3. BestDecision(queue, q, e)
      BY <1>5, <3>2, DecisionStable DEF Parks
    <3> QED
      BY <3>1, <3>3
  <2>3. q # r
    BY <1>5, <2>1, <2>2 DEF Parks, Chosen
  <2>4. loc'[q] = "parked"
    BY <1>1, <1>2
  <2>5. loc[r] = "woken" /\ r \in waiting
    BY <1>2, <1>5, <2>3, <2>4 DEF Parks, IInv, QueueMatchesCallers
  <2>6. waiting' = waiting
    BY <1>5, <2>5 DEF Parks
  <2>7. loc[q] = "woken"
    BY <2>1, <2>2, <2>6 DEF NoLostWakeup
  <2> QED
    BY <1>2, <1>5, <2>3, <2>4, <2>7 DEF Parks, Moves
<1> QED
  BY <1>3, <1>4, <1>5, TurnInAcquire

(* Under the baseline policies, whose ranking ignores the clock, the request *)
(* that should be served is never left asleep while every slot is free.      *)
THEOREM BaselineLosesNoWakeup ==
  ASSUME Policy # "workflow_cache_fair"
  PROVE  Spec => []NoLostWakeup
<1>1. Init => NoLostWakeup
  BY DEF Init, NoLostWakeup
<1>2. IInv /\ NoLostWakeup /\ [Next]_vars => NoLostWakeup'
  <2> SUFFICES ASSUME IInv, NoLostWakeup, [Next]_vars PROVE NoLostWakeup'
    OBVIOUS
  <2>1. CASE UNCHANGED <<loc, waiting, slots, predictor>>
    <3>1. ASSUME NEW q, NEW e PROVE BestDecision(waiting, q, e)' <=> BestDecision(waiting, q, e)
      BY <2>1 DEF BestDecision, FirstInTrace, BaselineEndpoint
    <3> QED
      BY <2>1, <3>1 DEF NoLostWakeup, slots
  <2> QED
    BY <2>1, TurnsWakeTheBest DEF Next, Tick, Idle, vars
<1> QED
  BY <1>1, <1>2, AccountingInvariant, PTL DEF Spec
-----------------------------------------------------------------------------
(* Names that begin the same name are nested, and what follows the same      *)
(* beginning in the same name is the same.                                   *)
LEMMA BeginningsAreNested ==
  ASSUME NEW p \in Seq(STRING), NEW q \in Seq(STRING),
         NEW x \in Seq(STRING), NEW y \in Seq(STRING), p \o x = q \o y
  PROVE  Nested(p, q) /\ (p = q => x = y)
<1>1. /\ Len(p) \in Nat /\ Len(q) \in Nat /\ Len(x) \in Nat /\ Len(y) \in Nat
      /\ DOMAIN p = 1 .. Len(p) /\ DOMAIN q = 1 .. Len(q)
  BY LenProperties
<1>2. /\ \A i \in 1 .. Len(p) : (p \o x)[i] = p[i]
      /\ \A i \in 1 .. Len(q) : (q \o y)[i] = q[i]
  BY <1>1, ConcatProperties
<1>3. Nested(p, q)
  BY <1>1, <1>2 DEF Nested
<1>4. ASSUME p = q PROVE x = y
  BY <1>4, ConcatSimplifications
<1> QED
  BY <1>3, <1>4

(* Predicted locality never passes between two domains neither of which      *)
(* begins the other: what _cache_key joins is told apart again that far.     *)
THEOREM LocalityIsNested == Spec => []LocalityStaysInNestedDomains
<1>1. PredictorMatchesHistory => LocalityStaysInNestedDomains
  <2> SUFFICES ASSUME PredictorMatchesHistory, Isolation # "none",
                      NEW r \in Requests, NEW e \in Endpoints, CacheAffinity(r, e) > 0
               PROVE  \E q \in Finished(e, {"succeeded"}) :
                        /\ Nested(Record[q].domain, Record[r].domain)
                        /\ Record[q].domain = Record[r].domain
                             => Record[q].prefix = Record[r].prefix
    BY DEF LocalityStaysInNestedDomains
  <2>1. CacheKey(r) \in resident[e]
    BY DEF CacheAffinity
  <2>2. PICK q \in Finished(e, {"succeeded"}) : CacheKey(q) = CacheKey(r)
    BY <2>1 DEF PredictorMatchesHistory
  <2>3. q \in Requests
    BY DEF Finished
  <2>4. Record[q].domain \o Record[q].prefix = Record[r].domain \o Record[r].prefix
    BY <2>2 DEF CacheKey
  <2>5. /\ Record[q].domain \in Seq(STRING) /\ Record[q].prefix \in Seq(STRING)
        /\ Record[r].domain \in Seq(STRING) /\ Record[r].prefix \in Seq(STRING)
    BY <2>3, NamesAssumption
  <2>6. /\ Nested(Record[q].domain, Record[r].domain)
        /\ Record[q].domain = Record[r].domain => Record[q].prefix = Record[r].prefix
    <3> DEFINE dq == Record[q].domain
               dr == Record[r].domain
               xq == Record[q].prefix
               xr == Record[r].prefix
    <3>1. dq \in Seq(STRING) /\ dr \in Seq(STRING) /\ xq \in Seq(STRING) /\ xr \in Seq(STRING)
      BY <2>5
    <3>2. dq \o xq = dr \o xr
      BY <2>4
    <3> HIDE DEF dq, dr, xq, xr
    <3>3. Nested(dq, dr) /\ (dq = dr => xq = xr)
      BY <3>1, <3>2, BeginningsAreNested, Zenon
    <3> QED
      BY <3>3 DEF dq, dr, xq, xr
  <2> QED
    BY <2>6
<1> QED
  BY <1>1, PredictorCorrect, PTL
-----------------------------------------------------------------------------
(* The dependency graph of a trace. *)

(* Among any requests there is one that none of the others waits for. *)
LEMMA SomeoneIsLast ==
  ASSUME NEW S \in SUBSET Requests, S # {}
  PROVE  \E r \in S : Children(r) \cap S = {}
<1> DEFINE HasLast(T) == \E r \in T : Children(r) \cap T = {}
           U == {T \in SUBSET Requests : T # {} /\ ~HasLast(T)}
<1> SUFFICES ASSUME U # {} PROVE FALSE
  OBVIOUS
<1>1. ASSUME NEW T \in U PROVE \E r \in T : T \ {r} \in U
  <2>1. T \in SUBSET Requests /\ T # {} /\ \A q \in T : \E c \in T : q \in Deps(c)
    BY DEF Children
  <2>2. PICK r \in T : Deps(r) \cap T = {}
    BY <2>1, TraceAssumption DEF ValidTrace, Acyclic
  <2>3. \A q \in T : \E c \in T \ {r} : q \in Deps(c)
    BY <2>1, <2>2
  <2>4. T \ {r} # {} /\ \A q \in T \ {r} : Children(q) \cap (T \ {r}) # {}
    BY <2>1, <2>3 DEF Children
  <2> QED
    BY <2>1, <2>2, <2>4
<1>2. {} \in U
  <2>1. U \in SUBSET (SUBSET Requests) /\ IsFiniteSet(Requests)
    BY TraceAssumption
  <2> HIDE DEF U
  <2> QED
    BY <1>1, <2>1, DownToEmpty
<1> QED
  BY <1>2

(* f tells the work that remains for each request of T and those after it. *)
Closed(T)  == \A r \in T : Children(r) \subseteq T
WorkOf(f, r) ==
  ServiceCost(r) + (IF Children(r) = {} THEN 0 ELSE Max({f[c] : c \in Children(r)}))
Work(f, T) == \A r \in T : f[r] = WorkOf(f, r)

LEMMA WorkIsNumber ==
  ASSUME NEW r \in Requests, NEW f, \A c \in Children(r) : f[c] \in Nat
  PROVE  WorkOf(f, r) \in Nat /\ WorkOf(f, r) >= ServiceCost(r)
<1>1. ServiceCost(r) \in Nat
  BY RecordTypes
<1>2. ASSUME Children(r) # {} PROVE Max({f[c] : c \in Children(r)}) \in Nat
  <2> DEFINE S == {f[c] : c \in Children(r)}
  <2>1. IsFiniteSet(Children(r))
    BY TraceAssumption, FS_Subset DEF Children
  <2>2. IsFiniteSet(S) /\ S \in SUBSET Nat /\ S # {}
    BY <1>2, <2>1, ImageIsFinite
  <2> HIDE DEF S
  <2>3. Max(S) \in S
    BY <2>2, MaxOfFinite
  <2> QED
    BY <2>2, <2>3 DEF S
<1> QED
  BY <1>1, <1>2 DEF WorkOf

LEMMA WorkExists == \E f \in [Requests -> Nat] : Work(f, Requests)
<1> DEFINE Good(T) == \E f \in [T -> Nat] : Work(f, T)
           U == {T \in SUBSET Requests : Closed(T) /\ ~Good(T)}
<1>1. ASSUME NEW T \in U, T # {} PROVE \E r \in T : T \ {r} \in U
  <2>1. T \in SUBSET Requests /\ Closed(T) /\ ~Good(T)
    OBVIOUS
  <2>2. PICK r \in T : Deps(r) \cap T = {}
    BY <1>1, <2>1, TraceAssumption DEF ValidTrace, Acyclic
  <2> DEFINE R == T \ {r}
  <2>3. r \in Requests /\ \A q \in T : r \notin Children(q) /\ Children(q) \subseteq R
    BY <2>1, <2>2 DEF Closed, Children
  <2>4. ASSUME NEW f \in [R -> Nat], Work(f, R) PROVE Good(T)
    <3> DEFINE h == [q \in T |-> IF q = r THEN WorkOf(f, r) ELSE f[q]]
    <3>1. \A q \in T : \A c \in Children(q) : h[c] = f[c] /\ f[c] \in Nat
      BY <2>3
    <3>2. WorkOf(f, r) \in Nat
      BY <2>3, <3>1, WorkIsNumber
    <3>3. h \in [T -> Nat]
      BY <3>2
    <3>4. ASSUME NEW q \in T PROVE WorkOf(h, q) = WorkOf(f, q)
      <4>1. {h[c] : c \in Children(q)} = {f[c] : c \in Children(q)}
        BY <3>1
      <4> HIDE DEF h
      <4> QED
        BY <4>1 DEF WorkOf
    <3>5. ASSUME NEW q \in T PROVE h[q] = WorkOf(f, q)
      BY <2>4 DEF Work
    <3> HIDE DEF h
    <3> QED
      BY <3>3, <3>4, <3>5 DEF Work
  <2>5. Closed(R)
    BY <2>3 DEF Closed
  <2> HIDE DEF Good
  <2> QED
    BY <2>1, <2>4, <2>5 DEF Good
<1>2. Good({})
  <2> DEFINE f == [q \in {} |-> 0]
  <2>1. f \in [{} -> Nat] /\ Work(f, {})
    BY DEF Work
  <2> HIDE DEF f
  <2> QED
    BY <2>1
<1>3. U = {}
  <2>1. U \in SUBSET (SUBSET Requests) /\ IsFiniteSet(Requests) /\ {} \notin U
    BY <1>2, TraceAssumption
  <2> HIDE DEF U
  <2> QED
    BY <1>1, <2>1, DownToEmpty
<1>4. Closed(Requests)
  BY DEF Closed, Children
<1> QED
  BY <1>3, <1>4

(* The remaining work of a request is its cost and the most that remains of  *)
(* the requests that wait for it: the recursion of _remaining_work ends.     *)
LEMMA RemainingWorkIs ==
  /\ RemainingWork \in [Requests -> Nat]
  /\ \A r \in Requests : RemainingWork[r] = WorkOf(RemainingWork, r)
  /\ \A r \in Requests : RemainingWork[r] >= ServiceCost(r)
<1> DEFINE Solves(f) == f = [r \in Requests |-> WorkOf(f, r)]
<1>1. PICK f \in [Requests -> Nat] : Work(f, Requests)
  BY WorkExists
<1>2. Solves(f)
  BY <1>1 DEF Work
<1>3. RemainingWork = CHOOSE g : Solves(g)
  BY DEF RemainingWork, WorkOf
<1>4. Solves(RemainingWork)
  <2> HIDE DEF Solves
  <2> QED
    BY <1>2, <1>3
<1>5. \A r \in Requests : RemainingWork[r] = WorkOf(RemainingWork, r)
  BY <1>4
<1> DEFINE D == {r \in Requests : RemainingWork[r] # f[r]}
<1>6. ASSUME D # {} PROVE FALSE
  <2>1. PICK r \in D : Children(r) \cap D = {}
    BY <1>6, SomeoneIsLast
  <2>2. \A c \in Children(r) : RemainingWork[c] = f[c]
    BY <2>1 DEF Children
  <2>3. {RemainingWork[c] : c \in Children(r)} = {f[c] : c \in Children(r)}
    BY <2>2
  <2>4. WorkOf(RemainingWork, r) = WorkOf(f, r)
    BY <2>3 DEF WorkOf
  <2> QED
    BY <1>1, <1>5, <2>1, <2>4 DEF Work
<1>7. \A r \in Requests : RemainingWork[r] = f[r]
  BY <1>6
<1>8. RemainingWork \in [Requests -> Nat]
  BY <1>1, <1>4, <1>7
<1>9. ASSUME NEW r \in Requests PROVE RemainingWork[r] >= ServiceCost(r)
  <2>1. \A c \in Children(r) : RemainingWork[c] \in Nat
    BY <1>8 DEF Children
  <2> QED
    BY <1>5, <2>1, WorkIsNumber
<1> QED
  BY <1>5, <1>8, <1>9
-----------------------------------------------------------------------------
(* The totals of the admitted requests' costs. *)
Totals(F) ==
  /\ F \in [SUBSET Requests -> Nat] /\ F[{}] = 0
  /\ \A S \in SUBSET Requests : \A r \in S : F[S] = ServiceCost(r) + F[S \ {r}]
  /\ \A S \in SUBSET Requests : MapThenSumSet(ServiceCost, S) = F[S]

LEMMA TotalsExist == \E F : Totals(F)
<1> DEFINE g == [r \in Requests |-> ServiceCost(r)]
<1>1. IsFiniteSet(Requests) /\ g \in [Requests -> Nat]
  BY TraceAssumption, RecordTypes
<1>2. PICK F \in [SUBSET Requests -> Nat] : IsSum(F, g, Requests)
  <2> HIDE DEF g
  <2> QED
    BY <1>1, SumExists
<1>3. ASSUME NEW S \in SUBSET Requests PROVE MapThenSumSet(ServiceCost, S) = F[S]
  <2> DEFINE Adds(I) ==
               I = [T \in SUBSET S |->
                      IF T = {} THEN 0
                      ELSE LET x == CHOOSE x \in T : TRUE IN ServiceCost(x) + I[T \ {x}]]
             I0 == CHOOSE I : Adds(I)
             F0 == [T \in SUBSET S |-> F[T]]
  <2>1. MapThenSumSet(ServiceCost, S) = I0[S]
    BY DEF MapThenSumSet, MapThenFoldSet
  <2>2. ASSUME NEW I PROVE AddsUp(I, g, S) <=> Adds(I)
    <3>1. ASSUME NEW T \in SUBSET S, T # {}
          PROVE  ServiceCost(CHOOSE x \in T : TRUE) = g[CHOOSE x \in T : TRUE]
      BY <3>1
    <3> HIDE DEF g
    <3> QED
      BY <3>1 DEF AddsUp
  <2>3. IsSum(F, g, S) /\ IsFiniteSet(S)
    BY <1>1, <1>2, FS_Subset DEF IsSum
  <2> HIDE DEF g, Adds
  <2>4. Adds(F0)
    BY <2>2, <2>3, SumAddsUp
  <2>5. AddsUp(I0, g, S)
    BY <2>2, <2>4
  <2> HIDE DEF I0
  <2> QED
    BY <2>1, <2>3, <2>5, SumsAgree
<1> QED
  BY <1>2, <1>3 DEF Totals, IsSum

ChargedTo(t) == {r \in Requests : Tenant(r) = t /\ assigned[r] # None}

LEMMA ServiceKept ==
  ASSUME ServiceMatchesAdmissions, tenantService' = tenantService,
         \A r \in Requests : assigned'[r] = assigned[r]
  PROVE  ServiceMatchesAdmissions'
<1>1. \A t \in Tenants : {r \in Requests : Tenant(r) = t /\ assigned'[r] # None} =
                         {r \in Requests : Tenant(r) = t /\ assigned[r] # None}
  OBVIOUS
<1> QED
  BY <1>1 DEF ServiceMatchesAdmissions

LEMMA AdmissionCharges ==
  ASSUME IInv, ServiceMatchesAdmissions, NEW r \in Requests, NEW e \in Endpoints, Admits(r, e)
  PROVE  ServiceMatchesAdmissions'
<1>1. PICK F : Totals(F)
  BY TotalsExist
<1>2. /\ assigned \in [Requests -> Endpoints \cup {None}]
      /\ tenantService \in [Tenants -> Nat]
      /\ assigned[r] = None /\ e # None
      /\ assigned' = [assigned EXCEPT ![r] = e]
      /\ tenantService' = [tenantService EXCEPT ![Tenant(r)] = @ + ServiceCost(r)]
  BY SchedulerAssumption DEF IInv, TypeOK, SlotAccounting, Admits, ReserveSlot
<1>3. ASSUME NEW t \in Tenants
      PROVE  tenantService'[t] = MapThenSumSet(ServiceCost, ChargedTo(t)')
  <2>1. ChargedTo(t) \in SUBSET Requests /\ ChargedTo(t)' \in SUBSET Requests
    BY DEF ChargedTo
  <2>2. tenantService[t] = F[ChargedTo(t)]
    BY <1>1, <2>1 DEF Totals, ServiceMatchesAdmissions, ChargedTo
  <2>3. tenantService'[t] = F[ChargedTo(t)']
    <3>1. CASE t = Tenant(r)
      <4>1. r \in ChargedTo(t)' /\ ChargedTo(t)' \ {r} = ChargedTo(t)
        BY <1>2, <3>1 DEF ChargedTo
      <4>2. F[ChargedTo(t)'] = ServiceCost(r) + F[ChargedTo(t)]
        BY <1>1, <2>1, <4>1 DEF Totals
      <4>3. tenantService'[t] = tenantService[t] + ServiceCost(r)
        BY <1>2, <3>1
      <4>4. ServiceCost(r) \in Nat /\ tenantService[t] \in Nat
        BY <1>2, RecordTypes
      <4> QED
        BY <2>2, <4>2, <4>3, <4>4
    <3>2. CASE t # Tenant(r)
      <4>1. ChargedTo(t)' = ChargedTo(t)
        BY <1>2, <3>2 DEF ChargedTo
      <4> QED
        BY <1>2, <2>2, <3>2, <4>1
    <3> QED
      BY <3>1, <3>2
  <2>4. MapThenSumSet(ServiceCost, ChargedTo(t)') = F[ChargedTo(t)']
    BY <1>1, <2>1 DEF Totals
  <2> QED
    BY <2>3, <2>4
<1> QED
  BY <1>3 DEF ServiceMatchesAdmissions, ChargedTo

(* A tenant is charged the cost of each request it had admitted, once, and   *)
(* nothing else, whatever becomes of the calls (scheduler.py acquire).       *)
THEOREM ServiceCorrect == Spec => []ServiceMatchesAdmissions
<1>1. Init => ServiceMatchesAdmissions
  <2> SUFFICES ASSUME Init PROVE ServiceMatchesAdmissions
    OBVIOUS
  <2>1. PICK F : Totals(F)
    BY TotalsExist
  <2>2. \A t \in Tenants : {r \in Requests : Tenant(r) = t /\ assigned[r] # None} = {}
    BY DEF Init
  <2>3. MapThenSumSet(ServiceCost, {}) = 0
    BY <2>1 DEF Totals
  <2> QED
    BY <2>2, <2>3 DEF Init, ServiceMatchesAdmissions
<1>2. IInv /\ ServiceMatchesAdmissions /\ [Next]_vars => ServiceMatchesAdmissions'
  <2> SUFFICES ASSUME IInv, ServiceMatchesAdmissions, [Next]_vars
               PROVE  ServiceMatchesAdmissions'
    OBVIOUS
  <2>1. ASSUME NEW r \in Requests, Acquire(r) \/ Wake(r) PROVE ServiceMatchesAdmissions'
    <3>1. CASE Parks(r)
      BY <3>1, ServiceKept DEF Parks, slots
    <3> QED
      BY <2>1, <3>1, TurnInAcquire, AdmissionCharges
  <2>2. ASSUME NEW r \in Requests, Withdraw(r) PROVE ServiceMatchesAdmissions'
    BY <2>2, TurnWithdraws, ServiceKept DEF slots
  <2>3. ASSUME NEW r \in Requests, NEW ok \in BOOLEAN, Release(r, ok)
        PROVE  ServiceMatchesAdmissions'
    BY <2>3, TurnReleases, ServiceKept DEF FreeSlot
  <2>4. ASSUME UNCHANGED slots PROVE ServiceMatchesAdmissions'
    BY <2>4, ServiceKept DEF slots
  <2> QED
    BY <2>1, <2>2, <2>3, <2>4 DEF Next, Idle, Tick, vars
<1> QED
  BY <1>1, <1>2, AccountingInvariant, PTL DEF Spec
-----------------------------------------------------------------------------
(* The score is a number, whatever the counters. *)

LEMMA LimitsArePositive ==
  MaxCost \in Nat \ {0} /\ MaxRemaining \in Nat \ {0} /\ MaxChildren \in Nat
<1>1. PICK r \in Requests : TRUE
  BY TraceAssumption DEF ValidTrace
<1>2. \A q \in Requests : ServiceCost(q) \in Nat \ {0}
  BY TraceAssumption DEF ValidTrace, ValidRecord, ServiceCost
<1>3. IsFiniteSet(Requests) /\ Requests # {}
  BY TraceAssumption DEF ValidTrace
<1>4. MaxRemaining \in Nat /\ MaxRemaining >= RemainingWork[r]
  BY <1>3, RemainingWorkIs, MaxOfImage DEF MaxRemaining
<1>5. RemainingWork[r] >= ServiceCost(r) /\ RemainingWork[r] \in Nat
  BY RemainingWorkIs
<1>6. MaxCost \in Nat /\ MaxCost >= ServiceCost(r)
  <2> DEFINE g == [q \in Requests |-> ServiceCost(q)]
  <2>1. g \in [Requests -> Nat] /\ {g[q] : q \in Requests} = {ServiceCost(q) : q \in Requests}
    BY <1>2
  <2>2. Max({g[q] : q \in Requests}) \in Nat /\ Max({g[q] : q \in Requests}) >= g[r]
    <3> HIDE DEF g
    <3> QED
      BY <1>3, <2>1, MaxOfImage
  <2> QED
    BY <2>1, <2>2 DEF MaxCost
<1>7. MaxChildren \in Nat
  <2> DEFINE g == [q \in Requests |-> Cardinality(Children(q))]
  <2>1. \A q \in Requests : Cardinality(Children(q)) \in Nat
    BY SlotsFinite DEF Children
  <2>2. g \in [Requests -> Nat]
    BY <2>1
  <2>3. {g[q] : q \in Requests} = {Cardinality(Children(q)) : q \in Requests}
    OBVIOUS
  <2>4. Max({g[q] : q \in Requests}) \in Nat
    <3> HIDE DEF g
    <3> QED
      BY <1>3, <2>2, MaxOfImage
  <2> QED
    BY <2>3, <2>4 DEF MaxChildren
<1>8. ServiceCost(r) \in Nat \ {0}
  BY <1>2
<1> QED
  BY <1>4, <1>5, <1>6, <1>7, <1>8

LEMMA RatioIsNumber ==
  ASSUME NEW a \in Int, NEW b \in Nat \ {0}
  PROVE  Ratio(a, b) \in Int
BY SchedulerAssumption DEF Ratio

(* Whatever the clock says. *)
LEMMA UrgencyIsNumber ==
  ASSUME NEW r \in Requests, NEW t \in Int
  PROVE  Min({2 * Scale, Ratio(Max({0, t - Record[r].arrival}), Record[r].deadline)}) \in Int
<1> USE SchedulerAssumption
<1> DEFINE age == t - Record[r].arrival
           ratio == Ratio(Max({0, age}), Record[r].deadline)
<1>1. age \in Int /\ Record[r].deadline \in Nat \ {0}
  BY TraceAssumption DEF ValidTrace, ValidRecord
<1>2. ratio \in Int
  <2> HIDE DEF age
  <2>1. Max({0, age}) \in Int
    BY <1>1, MaxOfTwo
  <2> QED
    BY <1>1, <2>1, RatioIsNumber
<1> HIDE DEF ratio
<1>3. 2 * Scale \in Int
  OBVIOUS
<1>4. Min({2 * Scale, ratio}) \in Int
  BY <1>2, <1>3, MinOfTwo
<1> QED
  BY <1>4 DEF ratio

LEMMA CriticalityIsNumber ==
  ASSUME NEW r \in Requests, NEW u \in Int
  PROVE  45 * Ratio(RemainingWork[r], MaxRemaining) + 25 * u
           + 15 * Ratio(Cardinality(Children(r)), Max({MaxChildren, 1}))
           + 15 * (IF Children(r) = {} THEN Scale ELSE 0) \in Int
<1>1. Ratio(RemainingWork[r], MaxRemaining) \in Int
  BY RemainingWorkIs, LimitsArePositive, RatioIsNumber
<1>2. Ratio(Cardinality(Children(r)), Max({MaxChildren, 1})) \in Int
  <2>1. Cardinality(Children(r)) \in Nat
    BY SlotsFinite DEF Children
  <2>2. Max({MaxChildren, 1}) \in Nat \ {0}
    BY LimitsArePositive, MaxOfTwo
  <2> QED
    BY <2>1, <2>2, RatioIsNumber
<1> QED
  BY <1>1, <1>2, SchedulerAssumption

LEMMA ScoreIsNumber ==
  ASSUME IInv, NEW r \in Requests, NEW e \in Endpoints
  PROVE  Score(r, e) \in Int
<1> USE SchedulerAssumption
<1>1. ValidRecord(r)
  BY TraceAssumption DEF ValidTrace
<1>2. Criticality(r) \in Int
  <2>1. now \in Int
    BY DEF IInv, TypeOK
  <2>2. Urgency(r) \in Int
    BY <2>1, UrgencyIsNumber DEF Urgency, WorkflowAge
  <2> QED
    BY <2>2, CriticalityIsNumber DEF Criticality
<1>3. TenantDeficit(r) \in Int
  <2> DEFINE most == Max({tenantService[t] : t \in Tenants})
  <2>1. tenantService \in [Tenants -> Nat] /\ Tenant(r) \in Tenants
    BY RecordTypes DEF IInv, TypeOK
  <2>2. IsFiniteSet(Tenants)
    <3> DEFINE h == [q \in Requests |-> Tenant(q)]
    <3>1. Tenants = {h[q] : q \in Requests}
      BY DEF Tenants
    <3> HIDE DEF h
    <3> QED
      BY <3>1, ImageIsFinite, TraceAssumption
  <2>3. most \in Nat
    BY <2>1, <2>2, MaxOfImage
  <2> HIDE DEF most
  <2>4. Max({most, MaxCost}) \in Nat \ {0}
    BY <2>3, LimitsArePositive, MaxOfTwo
  <2>5. Ratio(most - tenantService[Tenant(r)], Max({most, MaxCost})) \in Int
    BY <2>1, <2>3, <2>4, RatioIsNumber
  <2> QED
    BY <2>5 DEF TenantDeficit, most
<1>4. CacheAffinity(r, e) \in Int
  <2>1. Record[r].shared \in Int /\ Record[r].prompt \in Nat \ {0}
    BY <1>1 DEF ValidRecord
  <2>2. Ratio(Record[r].shared, Record[r].prompt) \in Int
    BY <2>1, RatioIsNumber
  <2> QED
    BY <2>2 DEF CacheAffinity
<1>5. Ratio(ServiceCost(r), MaxCost) \in Int
  BY RecordTypes, LimitsArePositive, RatioIsNumber
<1>6. FailureRisk(e) \in Int
  <2>1. attempts[e] \in Nat /\ failures[e] \in Nat
    BY DEF IInv, TypeOK
  <2> DEFINE tried == Max({attempts[e], 1})
             failed == failures[e]
  <2>2. tried \in Nat \ {0} /\ failed \in Int
    BY <2>1, MaxOfTwo
  <2> HIDE DEF tried, failed
  <2>3. Ratio(failed, tried) \in Int
    BY <2>2, RatioIsNumber
  <2> QED
    BY <2>3 DEF FailureRisk, tried, failed
<1>7. EndpointLoad(e) \in Int
  <2>1. endpointActive[e] \in Nat
    BY DEF IInv, TypeOK
  <2>2. Max({Capacity, Len(EndpointList)}) \in Nat \ {0}
    BY MaxOfTwo
  <2>3. endpointActive[e] * Len(EndpointList) \in Int
    BY <2>1
  <2> DEFINE ratio == Ratio(endpointActive[e] * Len(EndpointList),
                            Max({Capacity, Len(EndpointList)}))
  <2>4. ratio \in Int
    BY <2>2, <2>3, RatioIsNumber
  <2> HIDE DEF ratio
  <2>5. Min({Scale, ratio}) \in Int
    BY <2>4, MinOfTwo
  <2> QED
    BY <2>5 DEF EndpointLoad, ratio
<1>8. \A k \in {"criticality", "tenant_deficit", "cache_locality", "service_cost",
                "failure_risk", "endpoint_load"} : Weights[k] \in Int
  BY WeightsAssumption DEF Weights, DEFAULT_WEIGHTS
<1> DEFINE w1 == Weights.criticality  w2 == Weights.tenant_deficit
           w3 == Weights.cache_locality  w4 == Weights.service_cost
           w5 == Weights.failure_risk  w6 == Weights.endpoint_load
<1>9. w1 \in Int /\ w2 \in Int /\ w3 \in Int /\ w4 \in Int /\ w5 \in Int /\ w6 \in Int
  BY <1>8
<1> DEFINE x1 == Criticality(r)  x2 == TenantDeficit(r)  x3 == CacheAffinity(r, e)
           x4 == Ratio(ServiceCost(r), MaxCost)  x5 == FailureRisk(e)  x6 == EndpointLoad(e)
<1>10. x1 \in Int /\ x2 \in Int /\ x3 \in Int /\ x4 \in Int /\ x5 \in Int /\ x6 \in Int
  BY <1>2, <1>3, <1>4, <1>5, <1>6, <1>7
<1>11. Score(r, e) = w1 * x1 + 100 * (w2 * x2 + w3 * x3 - w4 * x4 - w5 * x5 - w6 * x6)
  BY DEF Score
<1> HIDE DEF w1, w2, w3, w4, w5, w6, x1, x2, x3, x4, x5, x6
<1>12. /\ w1 * x1 \in Int /\ w2 * x2 \in Int /\ w3 * x3 \in Int
       /\ w4 * x4 \in Int /\ w5 * x5 \in Int /\ w6 * x6 \in Int
  BY <1>9, <1>10
<1> QED
  BY <1>11, <1>12

(* The clock enters the score through criticality alone. *)
LEMMA ScoreWithoutAge ==
  ASSUME Weights.criticality = 0, now \in Int, now' \in Int, UNCHANGED <<slots, predictor>>,
         NEW q \in Requests, NEW f \in Endpoints
  PROVE  Score(q, f)' = Score(q, f)
<1> USE DEF slots, predictor
<1>1. Criticality(q) \in Int
  <2>1. Urgency(q) \in Int
    BY UrgencyIsNumber DEF Urgency, WorkflowAge
  <2> QED
    BY <2>1, CriticalityIsNumber DEF Criticality
<1>2. Criticality(q)' \in Int
  <2>1. Urgency(q)' \in Int
    BY UrgencyIsNumber DEF Urgency, WorkflowAge
  <2> QED
    BY <2>1, CriticalityIsNumber DEF Criticality
<1>3. Weights.criticality * Criticality(q) = 0 /\ Weights.criticality * Criticality(q)' = 0
  <2>1. \A c \in Int : 0 * c = 0
    OBVIOUS
  <2> QED
    BY <1>1, <1>2, <2>1
<1>4. TenantDeficit(q)' = TenantDeficit(q) /\ CacheAffinity(q, f)' = CacheAffinity(q, f)
  BY DEF TenantDeficit, CacheAffinity
<1>5. FailureRisk(f)' = FailureRisk(f) /\ EndpointLoad(f)' = EndpointLoad(f)
  BY DEF FailureRisk, EndpointLoad
<1> QED
  BY <1>3, <1>4, <1>5 DEF Score

(* Nor is it left asleep under Workflow-Cache-Fair when criticality has no   *)
(* weight: what loses the wake-up is the age of the requests in the ranking  *)
(* (scheduler.py _components), not the way acquire waits.                   *)
THEOREM AgelessLosesNoWakeup ==
  ASSUME Weights.criticality = 0
  PROVE  Spec => []NoLostWakeup
<1>1. Init => NoLostWakeup
  BY DEF Init, NoLostWakeup
<1>2. IInv /\ NoLostWakeup /\ [Next]_vars => NoLostWakeup'
  <2> SUFFICES ASSUME IInv, NoLostWakeup, [Next]_vars PROVE NoLostWakeup'
    OBVIOUS
  <2>1. CASE UNCHANGED <<loc, waiting, slots, predictor>>
    <3>1. waiting \subseteq Requests /\ now \in Int
      BY DEF IInv, TypeOK
    <3>2. now' \in Int
      BY NextIInv DEF IInv, TypeOK
    <3>3. ASSUME NEW q \in Requests, NEW f \in Endpoints PROVE Score(q, f)' = Score(q, f)
      BY <2>1, <3>1, <3>2, ScoreWithoutAge
    <3>4. ASSUME NEW q \in Requests, NEW f \in Endpoints, NEW r \in Requests, NEW e \in Endpoints
          PROVE  Beats(q, f, r, e)' <=> Beats(q, f, r, e)
      BY <3>3 DEF Beats
    <3>5. ASSUME NEW r \in Requests, NEW e \in Endpoints
          PROVE  WorkflowCacheFairBest(waiting, r, e)' <=> WorkflowCacheFairBest(waiting, r, e)
      BY <2>1, <3>1, <3>4 DEF WorkflowCacheFairBest
    <3>6. ASSUME NEW r \in Requests, NEW e \in Endpoints
          PROVE  BestDecision(waiting, r, e)' <=> BestDecision(waiting, r, e)
      BY <2>1, <3>5 DEF BestDecision, FirstInTrace, BaselineEndpoint
    <3> QED
      BY <2>1, <3>1, <3>6 DEF NoLostWakeup, slots
  <2> QED
    BY <2>1, TurnsWakeTheBest DEF Next, Tick, Idle, vars
<1> QED
  BY <1>1, <1>2, AccountingInvariant, PTL DEF Spec

LEMMA EndpointPlaces ==
  ASSUME NEW e \in Endpoints
  PROVE  EndpointIndex(e) \in 1 .. Len(EndpointList) /\ EndpointList[EndpointIndex(e)] = e
BY DEF Endpoints, EndpointIndex

(* Of the pairs with the best score, one has the first request in the trace, *)
(* and of its endpoints one comes first in the list.                         *)
LEMMA SomePairIsBest ==
  ASSUME IInv, NEW queue \in SUBSET Requests, queue # {}
  PROVE  \E r \in queue, e \in Endpoints : WorkflowCacheFairBest(queue, r, e)
<1> DEFINE Pairs == queue \X Endpoints
           score == [p \in Pairs |-> Score(p[1], p[2])]
           top   == Max({score[p] : p \in Pairs})
<1>1. Pairs # {} /\ IsFiniteSet(Pairs)
  <2>1. EndpointList[1] \in Endpoints
    BY SchedulerAssumption DEF Endpoints
  <2>2. IsFiniteSet(Endpoints)
    <3>1. IsFiniteSet(1 .. Len(EndpointList))
      BY SchedulerAssumption, CardinalityOfInterval
    <3> QED
      BY <3>1, ImageIsFinite DEF Endpoints
  <2>3. IsFiniteSet(queue)
    BY SlotsFinite
  <2>4. IsFiniteSet(Pairs)
    BY <2>2, <2>3, FS_Product
  <2>5. PICK q \in queue : TRUE
    OBVIOUS
  <2>6. <<q, EndpointList[1]>> \in Pairs
    BY <2>1, <2>5
  <2> QED
    BY <2>4, <2>6
<1>2. \A q \in queue : \A f \in Endpoints : Score(q, f) \in Int /\ Seq0(q) \in Nat
  BY ScoreIsNumber, TraceAssumption DEF ValidTrace, ValidRecord, Seq0
<1>3. (\E p \in Pairs : score[p] = top) /\ (\A p \in Pairs : score[p] <= top) /\ top \in Int
  <2> DEFINE S == {score[p] : p \in Pairs}
  <2>1. \A p \in Pairs : score[p] \in Int
    BY <1>2
  <2> HIDE DEF score, Pairs
  <2>2. IsFiniteSet(S) /\ S \in SUBSET Int /\ S # {}
    BY <1>1, <2>1, ImageIsFinite
  <2>3. \A p \in Pairs : score[p] \in S
    OBVIOUS
  <2>4. \A x \in S : \E p \in Pairs : score[p] = x
    OBVIOUS
  <2> HIDE DEF S
  <2>5. Max(S) \in S /\ \A y \in S : Max(S) >= y
    BY <2>2, MaxOfFinite
  <2>6. top = Max(S)
    BY DEF S
  <2> QED
    BY <2>1, <2>2, <2>3, <2>4, <2>5, <2>6
<1>4. /\ \A q \in queue : \A f \in Endpoints : Score(q, f) <= top
      /\ \E q \in queue, f \in Endpoints : Score(q, f) = top
  <2>1. \A q \in queue : \A f \in Endpoints : <<q, f>> \in Pairs /\ score[<<q, f>>] = Score(q, f)
    OBVIOUS
  <2>2. \A p \in Pairs : p[1] \in queue /\ p[2] \in Endpoints /\ score[p] = Score(p[1], p[2])
    OBVIOUS
  <2> HIDE DEF Pairs, score, top
  <2>3. ASSUME NEW q \in queue, NEW f \in Endpoints PROVE Score(q, f) <= top
    <3>1. <<q, f>> \in Pairs /\ score[<<q, f>>] = Score(q, f)
      BY <2>1
    <3> QED
      BY <1>3, <3>1
  <2>4. PICK p \in Pairs : score[p] = top
    BY <1>3
  <2> QED
    BY <2>2, <2>3, <2>4
<1> HIDE DEF top, Pairs, score
<1> DEFINE Best == {q \in queue : \E f \in Endpoints : Score(q, f) = top}
<1>5. PICK r \in Best : \A q \in Best : Seq0(r) <= Seq0(q)
  <2> DEFINE T == {Seq0(q) : q \in Best}
  <2>1. T \in SUBSET Nat /\ T # {}
    BY <1>2, <1>4
  <2>2. PICK n \in T : \A m \in T : n <= m
    BY <2>1, LeastNumber
  <2> QED
    BY <2>2
<1> DEFINE Its == {f \in Endpoints : Score(r, f) = top}
<1>6. PICK e \in Its : \A f \in Its : EndpointIndex(e) <= EndpointIndex(f)
  <2> DEFINE T == {EndpointIndex(f) : f \in Its}
  <2>1. T \in SUBSET Nat /\ T # {}
    BY <1>5, EndpointPlaces
  <2>2. PICK n \in T : \A m \in T : n <= m
    BY <2>1, LeastNumber
  <2> QED
    BY <2>2
<1>7. ASSUME NEW q \in queue, NEW f \in Endpoints, Beats(q, f, r, e) PROVE FALSE
  <2>1. Score(q, f) \in Int /\ Score(r, e) = top /\ Score(q, f) <= top
    BY <1>2, <1>4, <1>6
  <2>2. ~(Score(q, f) > Score(r, e))
    BY <1>3, <2>1
  <2>3. Score(q, f) = top
    BY <1>7, <2>1, <2>2 DEF Beats
  <2>4. Seq0(q) \in Nat /\ Seq0(r) \in Nat /\ Seq0(r) <= Seq0(q)
    BY <1>2, <1>5, <2>3
  <2>5. q = r /\ EndpointIndex(f) < EndpointIndex(e)
    BY <1>7, <2>2, <2>4 DEF Beats
  <2>6. EndpointIndex(e) <= EndpointIndex(f)
    BY <1>6, <2>3, <2>5
  <2> QED
    BY <1>6, <2>5, <2>6, EndpointPlaces
<1> QED
  BY <1>5, <1>6, <1>7 DEF WorkflowCacheFairBest

LEMMA OnlyOnePairIsBest ==
  ASSUME IInv, NEW queue \in SUBSET Requests,
         NEW r \in queue, NEW e \in Endpoints, WorkflowCacheFairBest(queue, r, e),
         NEW q \in queue, NEW f \in Endpoints, WorkflowCacheFairBest(queue, q, f)
  PROVE  q = r /\ f = e
<1>1. ~Beats(q, f, r, e) /\ ~Beats(r, e, q, f)
  BY DEF WorkflowCacheFairBest
<1>2. Score(q, f) \in Int /\ Score(r, e) \in Int
  BY ScoreIsNumber
<1>3. Score(q, f) = Score(r, e)
  BY <1>1, <1>2 DEF Beats
<1>4. Seq0(q) \in Nat /\ Seq0(r) \in Nat /\ (Seq0(q) = Seq0(r) => q = r)
  BY TraceAssumption DEF ValidTrace, ValidRecord, Seq0
<1>5. q = r
  BY <1>1, <1>3, <1>4 DEF Beats
<1>6. ~(EndpointIndex(f) < EndpointIndex(e)) /\ ~(EndpointIndex(e) < EndpointIndex(f))
  BY <1>1, <1>3, <1>5 DEF Beats
<1>7. EndpointIndex(f) = EndpointIndex(e)
  BY <1>6, EndpointPlaces
<1>8. f = e
  BY <1>7, EndpointPlaces
<1> QED
  BY <1>5, <1>8

LEMMA BaselineServesOne ==
  ASSUME NEW queue \in SUBSET Requests, queue # {}
  PROVE  \E r \in queue :
           /\ FirstInTrace(queue, r) /\ BaselineEndpoint(r) \in Endpoints
           /\ \A q \in queue : FirstInTrace(queue, q) => q = r
<1>1. \A q \in queue : Seq0(q) \in Nat
  BY TraceAssumption DEF ValidTrace, ValidRecord, Seq0
<1>2. PICK r \in queue : \A q \in queue : Seq0(r) <= Seq0(q)
  <2> DEFINE T == {Seq0(q) : q \in queue}
  <2>1. T \in SUBSET Nat /\ T # {}
    BY <1>1
  <2>2. PICK n \in T : \A m \in T : n <= m
    BY <2>1, LeastNumber
  <2> QED
    BY <2>2
<1>3. BaselineEndpoint(r) \in Endpoints
  <2> DEFINE key == IF Policy = "round_robin" THEN Seq0(r) ELSE TenantHash[Tenant(r)]
  <2>1. key \in Nat
    BY <1>1, SchedulerAssumption, RecordTypes
  <2> HIDE DEF key
  <2>2. (key % Len(EndpointList)) + 1 \in 1 .. Len(EndpointList)
    BY <2>1, SchedulerAssumption
  <2> QED
    BY <2>2 DEF Endpoints, BaselineEndpoint, key
<1>4. ASSUME NEW q \in queue, FirstInTrace(queue, q) PROVE q = r
  <2>1. Seq0(q) = Seq0(r)
    BY <1>1, <1>2, <1>4 DEF FirstInTrace
  <2> QED
    BY <2>1, TraceAssumption DEF ValidTrace, Seq0
<1> QED
  BY <1>2, <1>3, <1>4 DEF FirstInTrace

(* Under every policy a queue that is not empty has exactly one next request *)
(* and endpoint (scheduler.py best_decision).                                *)
THEOREM OneDecision == Spec => []DecisionIsUnique
<1>1. ASSUME IInv, waiting # {}
      PROVE  \E r \in waiting, e \in Endpoints :
               /\ BestDecision(waiting, r, e)
               /\ \A q \in waiting : \A f \in Endpoints :
                    BestDecision(waiting, q, f) => q = r /\ f = e
  <2>1. waiting \in SUBSET Requests
    BY <1>1 DEF IInv, TypeOK
  <2>2. CASE Policy = "workflow_cache_fair"
    <3>1. PICK r \in waiting, e \in Endpoints : WorkflowCacheFairBest(waiting, r, e)
      BY <1>1, <2>1, SomePairIsBest
    <3>2. \A q \in waiting : \A f \in Endpoints :
            WorkflowCacheFairBest(waiting, q, f) => q = r /\ f = e
      BY <1>1, <2>1, <3>1, OnlyOnePairIsBest
    <3> QED
      BY <2>2, <3>1, <3>2 DEF BestDecision
  <2>3. CASE Policy # "workflow_cache_fair"
    BY <1>1, <2>1, <2>3, BaselineServesOne DEF BestDecision
  <2> QED
    BY <2>2, <2>3
<1>2. IInv => DecisionIsUnique
  <2> SUFFICES ASSUME IInv, waiting # {}
               PROVE  \E c \in waiting \X Endpoints : \A d \in waiting \X Endpoints :
                        BestDecision(waiting, d[1], d[2]) <=> d = c
    BY DEF DecisionIsUnique
  <2>1. PICK r \in waiting, e \in Endpoints :
               /\ BestDecision(waiting, r, e)
               /\ \A q \in waiting : \A f \in Endpoints :
                    BestDecision(waiting, q, f) => q = r /\ f = e
    BY <1>1
  <2>2. ASSUME NEW d \in waiting \X Endpoints
        PROVE  BestDecision(waiting, d[1], d[2]) <=> d = <<r, e>>
    <3>1. d = <<d[1], d[2]>> /\ d[1] \in waiting /\ d[2] \in Endpoints
      OBVIOUS
    <3>2. BestDecision(waiting, d[1], d[2]) => d[1] = r /\ d[2] = e
      BY <2>1, <3>1
    <3>3. d[1] = r /\ d[2] = e => BestDecision(waiting, d[1], d[2])
      BY <2>1
    <3> HIDE DEF BestDecision
    <3> QED
      BY <3>1, <3>2, <3>3
  <2>3. <<r, e>> \in waiting \X Endpoints
    OBVIOUS
  <2> QED
    BY <2>2, <2>3
<1> QED
  BY <1>2, AccountingInvariant, PTL
-----------------------------------------------------------------------------
(* The scheduler implements bounded admission: forgetting notifications,     *)
(* counters and ranking, each turn asks, enters, leaves, gives up or does    *)
(* nothing, and never enters beyond the capacity.                            *)
THEOREM RefinesBoundedAdmission == Spec => Admission!Spec
<1> DEFINE Gone == {q \in Requests : loc[q] \in {"succeeded", "failed", "withdrawn"}}
<1>1. Init => Admission!Init
  BY DEF Init, Admission!Init, Admitted
<1>2. IInv /\ [Next]_vars => [Admission!Next]_(Admission!vars)
  <2> SUFFICES ASSUME IInv, [Next]_vars
               PROVE  Admission!Next \/ UNCHANGED Admission!vars
    OBVIOUS
  <2>1. waiting = {q \in Requests : loc[q] \in {"parked", "woken"}}
    BY DEF IInv, QueueMatchesCallers
  <2>2. ASSUME NEW r \in Requests, Parks(r)
        PROVE  Admission!Next \/ UNCHANGED Admission!vars
    <3>1. Admitted' = Admitted /\ Gone' = Gone
      BY <2>2 DEF Parks, Moves, Admitted
    <3>2. CASE loc[r] = "outside"
      <4>1. Admission!Ask(r)
        BY <2>1, <2>2, <3>1, <3>2 DEF Admission!Ask, Admission!Fresh, Parks, Admitted
      <4> QED
        BY <4>1 DEF Admission!Next
    <3>3. CASE loc[r] = "woken"
      BY <2>1, <2>2, <3>1, <3>3 DEF Parks, Admission!vars
    <3> QED
      BY <2>2, <3>2, <3>3 DEF Parks
  <2>3. ASSUME NEW r \in Requests, NEW e \in Endpoints, Admits(r, e)
        PROVE  Admission!Next
    <3>1. Admitted' = Admitted \cup {r} /\ Gone' = Gone
      BY <2>3 DEF Admits, Moves, Admitted
    <3>2. Admission!SlotFree
      <4>1. Admission!Cardinality(Admitted) = Cardinality(Admitted)
        BY DEF Admission!Cardinality, Cardinality
      <4> QED
        BY <2>3, <4>1 DEF Admits, Admission!SlotFree, IInv, SlotAccounting
    <3>3. CASE loc[r] = "outside"
      <4>1. Admission!EnterAtOnce(r)
        BY <2>1, <2>3, <3>1, <3>2, <3>3
        DEF Admission!EnterAtOnce, Admission!Fresh, Admits, Admitted
      <4> QED
        BY <4>1 DEF Admission!Next
    <3>4. CASE loc[r] = "woken"
      <4>1. Admission!Enter(r)
        BY <2>1, <2>3, <3>1, <3>2, <3>4 DEF Admission!Enter, Admits
      <4> QED
        BY <4>1 DEF Admission!Next
    <3> QED
      BY <2>3, <3>3, <3>4 DEF Admits
  <2>4. ASSUME NEW r \in Requests, Withdraw(r) PROVE Admission!Next
    <3>1. Admitted' = Admitted /\ Gone' = Gone \cup {r}
      BY <2>4, TurnWithdraws DEF Moves, Admitted
    <3>2. Admission!GiveUp(r)
      BY <2>1, <2>4, <3>1, TurnWithdraws DEF Admission!GiveUp
    <3> QED
      BY <3>2 DEF Admission!Next
  <2>5. ASSUME NEW r \in Requests, NEW ok \in BOOLEAN, Release(r, ok) PROVE Admission!Next
    <3>1. Admitted' = Admitted \ {r} /\ Gone' = Gone \cup {r} /\ r \in Admitted
      BY <2>5, TurnReleases DEF Moves, Admitted
    <3>2. Admission!Leave(r)
      BY <2>5, <3>1, TurnReleases DEF Admission!Leave
    <3> QED
      BY <3>2 DEF Admission!Next
  <2>6. ASSUME UNCHANGED <<loc, waiting>> PROVE UNCHANGED Admission!vars
    BY <2>6 DEF Admission!vars, Admitted
  <2>7. ASSUME NEW r \in Requests, Acquire(r) \/ Wake(r)
        PROVE  Admission!Next \/ UNCHANGED Admission!vars
    BY <2>2, <2>3, <2>7, TurnInAcquire
  <2> QED
    BY <2>4, <2>5, <2>6, <2>7 DEF Next, Tick, Idle, vars
<1> QED
  BY <1>1, <1>2, AccountingInvariant, PTL DEF Spec, Admission!Spec
=============================================================================
