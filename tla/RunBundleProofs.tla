---------------------------- MODULE RunBundleProofs ----------------------------
(***************************************************************************)
(* Proofs about RunBundle, for every trace, every answer and any number of *)
(* runs and stops.                                                         *)
(*                                                                         *)
(* The inductive invariant ties each file to the history of runs: what is  *)
(* in the events is the beginning of the results of its writer in order,   *)
(* the latest run while it is being written, and a manifest, in memory or  *)
(* on disk, describes the run whose id it carries.                         *)
(***************************************************************************)
EXTENDS RunBundle, MetricsProofs

(* The beginnings of the trace. *)

First(n) == SubSeq(Lines, 1, n)
Ids(n)   == {Lines[i] : i \in 1 .. n}

LEMMA LinesAre ==
  /\ Len(Lines) \in Nat /\ DOMAIN Lines = 1 .. Len(Lines)
  /\ \A i \in 1 .. Len(Lines) : Lines[i] \in Requests
  /\ \A i, j \in 1 .. Len(Lines) : Lines[i] = Lines[j] => i = j
<1>1. Lines \in Seq(Requests) /\ IsInjective(Lines)
  BY AnswerAssumption
<1>2. Len(Lines) \in Nat /\ DOMAIN Lines = 1 .. Len(Lines)
  BY <1>1, LenProperties
<1> QED
  BY <1>1, <1>2, ElementOfSeq DEF IsInjective

LEMMA FirstLines ==
  ASSUME NEW n \in 0 .. Len(Lines)
  PROVE  /\ First(n) \in Seq(Requests) /\ Len(First(n)) = n /\ DOMAIN First(n) = 1 .. n
         /\ \A i \in 1 .. n : First(n)[i] = Lines[i]
         /\ ToSet(First(n)) = Ids(n)
<1>1. n \in Nat /\ \A i \in 1 .. n : Lines[i] \in Requests
  BY LinesAre
<1>2. /\ First(n) \in Seq(Requests)
      /\ Len(First(n)) = IF 1 <= n THEN n - 1 + 1 ELSE 0
      /\ \A i \in 1 .. n - 1 + 1 : First(n)[i] = Lines[1 + i - 1]
  BY <1>1, SubSeqProperties DEF First
<1>3. Len(First(n)) = n /\ \A i \in 1 .. n : First(n)[i] = Lines[i]
  BY <1>1, <1>2
<1>4. DOMAIN First(n) = 1 .. n
  BY <1>2, <1>3, LenProperties
<1> QED
  BY <1>2, <1>3, <1>4 DEF ToSet, Ids

LEMMA FirstIds ==
  ASSUME NEW n \in 0 .. Len(Lines)
  PROVE  Ids(n) \in SUBSET Nat /\ IsFiniteSet(Ids(n)) /\ Cardinality(Ids(n)) = n
<1>1. n \in Nat /\ (\A i \in 1 .. n : i \in 1 .. Len(Lines))
  BY LinesAre
<1>2. Ids(n) \in SUBSET Nat
  BY <1>1, LinesAre, AnswerAssumption DEF Ids
<1> DEFINE f == [i \in 1 .. n |-> Lines[i]]
<1>3. f \in Bijection(1 .. n, Ids(n))
  <2>1. f \in [1 .. n -> Ids(n)] /\ \A t \in Ids(n) : \E i \in 1 .. n : f[i] = t
    BY DEF Ids
  <2>2. \A i, j \in 1 .. n : f[i] = f[j] => i = j
    BY <1>1, LinesAre
  <2> HIDE DEF f
  <2> QED
    BY <2>1, <2>2, Fun_IsBij
<1>4. ExistsBijection(1 .. n, Ids(n))
  <2> HIDE DEF f
  <2> QED
    BY <1>3, Fun_ExistsBij
<1>5. IsFiniteSet(Ids(n)) /\ Cardinality(Ids(n)) = Cardinality(1 .. n)
  BY <1>1, <1>4, CardinalityOfInterval, FS_Bijection
<1> QED
  BY <1>1, <1>2, <1>5, CardinalityOfInterval
-----------------------------------------------------------------------------
(* The results: the recursive function exists, since a request comes after   *)
(* its dependencies in the trace.                                            *)

Outcome(before, r, id, answer) ==
  LET at == Ready(r, [d \in Deps(r) |-> before[d].end_s])
  IN  IF \A d \in Deps(r) : before[d].success
      THEN CallResult(r, id, at, answer[r])
      ELSE FailedResult(r, id, at)

IsReplayOf(f, n, id, answer) == f = [r \in Ids(n) |-> Outcome(f, r, id, answer)]

LEMMA OutcomeNeedsDepsOnly ==
  ASSUME NEW r, NEW id, NEW answer, NEW f, NEW g, \A d \in Deps(r) : f[d] = g[d]
  PROVE  Outcome(f, r, id, answer) = Outcome(g, r, id, answer)
<1>1. [d \in Deps(r) |-> f[d].end_s] = [d \in Deps(r) |-> g[d].end_s]
  OBVIOUS
<1>2. (\A d \in Deps(r) : f[d].success) <=> \A d \in Deps(r) : g[d].success
  OBVIOUS
<1> QED
  BY <1>1, <1>2 DEF Outcome

(* e is a result for r in the id-th run: of an answer, or that a dependency  *)
(* failed.                                                                   *)
IsResult(e, r, id) ==
  \E at \in Nat, a \in Answers[r] \cup {NoAnswer} :
    e = Event(r, id, at, a, TRUE) \/ (a = NoAnswer /\ e = Event(r, id, at, a, FALSE))

LEMMA AnswerTypes ==
  ASSUME NEW r \in Requests, NEW a \in Answers[r] \cup {NoAnswer}
  PROVE  /\ a.success \in BOOLEAN /\ a.wait \in Nat /\ a.end \in Nat
         /\ a.first_token \in Nat \cup {None} /\ (a.success => a.first_token # None)
         /\ a.output \in Int \cup {None}
         /\ a.success /\ a.output # None => a.usage_reported
<1>1. CASE a = NoAnswer
  BY <1>1 DEF NoAnswer
<1>2. CASE a \in Answers[r]
  <2>1. /\ a.success \in BOOLEAN /\ a.usage_reported \in BOOLEAN
        /\ a.success => a.first_token # None
        /\ a.wait \in Nat /\ a.end \in Nat /\ a.first_token \in Nat \cup {None}
        /\ {a.prompt, a.output, a.cached} \subseteq Int \cup {None}
        /\ ~a.usage_reported => a.prompt = None /\ a.output = None /\ a.cached = None
    BY <1>2, AnswerAssumption
  <2>2. a.output \in {a.prompt, a.output, a.cached}
    OBVIOUS
  <2> QED
    BY <2>1, <2>2
<1> QED
  BY <1>1, <1>2

LEMMA ResultFields ==
  ASSUME NEW r \in Requests, NEW id, NEW e, IsResult(e, r, id)
  PROVE  /\ e.request_id = r /\ e.run_id = id
         /\ e.workflow_id = Record[r].workflow /\ e.tenant_id = Tenant(r)
         /\ e.arrival_s \in Nat /\ e.start_s \in Nat /\ e.end_s \in Nat
         /\ e.deadline_ms \in Nat /\ e.admission_wait_ms \in Nat
         /\ e.success \in BOOLEAN /\ (e.success => e.first_token_s \in Nat)
         /\ e.output_tokens \in Int \cup {None}
         /\ e.success /\ e.output_tokens # None => e.usage_reported
         /\ e.ttft_slo_ms = TtftSlo /\ e.tpot_slo_ms = TpotSlo
<1>1. PICK at \in Nat, a \in Answers[r] \cup {NoAnswer}, called \in BOOLEAN :
        e = Event(r, id, at, a, called)
  BY DEF IsResult
<1>2. /\ a.success \in BOOLEAN /\ a.wait \in Nat /\ a.end \in Nat
      /\ a.first_token \in Nat \cup {None} /\ (a.success => a.first_token # None)
      /\ a.output \in Int \cup {None}
      /\ a.success /\ a.output # None => a.usage_reported
  BY AnswerTypes
<1>3. Record[r].arrival \in Nat /\ Record[r].deadline \in Nat
  BY TraceAssumption DEF ValidTrace, ValidRecord
<1>4. /\ e.request_id = r /\ e.run_id = id
      /\ e.workflow_id = Record[r].workflow /\ e.tenant_id = Tenant(r)
      /\ e.arrival_s = Record[r].arrival /\ e.deadline_ms = Record[r].deadline
      /\ e.start_s = at + a.wait /\ e.end_s = at + a.end /\ e.admission_wait_ms = a.wait
      /\ e.first_token_s = (IF a.first_token = None THEN None ELSE at + a.first_token)
      /\ e.success = a.success /\ e.output_tokens = a.output
      /\ e.usage_reported = a.usage_reported
      /\ e.ttft_slo_ms = TtftSlo /\ e.tpot_slo_ms = TpotSlo
  BY <1>1 DEF Event
<1>5. at + a.wait \in Nat /\ at + a.end \in Nat
  BY <1>2
<1>6. a.success => e.first_token_s \in Nat
  BY <1>2, <1>4
<1> QED
  BY <1>2, <1>3, <1>4, <1>5, <1>6

LEMMA OutcomeIsResult ==
  ASSUME NEW r \in Requests, NEW id, NEW answer, answer[r] \in Answers[r],
         NEW f, \A d \in Deps(r) : f[d].end_s \in Nat
  PROVE  IsResult(Outcome(f, r, id, answer), r, id)
<1> DEFINE end  == [d \in Deps(r) |-> f[d].end_s]
           ends == {end[d] : d \in Deps(r)}
           at   == Ready(r, end)
<1>1. at \in Nat
  <2>1. Record[r].arrival \in Nat /\ IsFiniteSet(Deps(r))
    BY TraceAssumption, FS_Subset DEF ValidTrace, ValidRecord
  <2>2. ends \in SUBSET Nat
    OBVIOUS
  <2>3. IsFiniteSet(ends)
    <3> HIDE DEF end
    <3> QED
      BY <2>1, ImageIsFinite
  <2> DEFINE S == {Record[r].arrival} \cup ends
  <2>4. IsFiniteSet(S)
    <3> HIDE DEF ends
    <3> QED
      BY <2>3, FS_Singleton, FS_Union
  <2>5. S \in SUBSET Nat /\ S \in SUBSET Int /\ S # {}
    BY <2>1, <2>2
  <2> HIDE DEF S, ends
  <2>6. Max(S) \in Nat
    BY <2>4, <2>5, MaxOfFinite
  <2> QED
    BY <2>6 DEF Ready, S, ends
<1>2. \/ Outcome(f, r, id, answer) = Event(r, id, at, answer[r], TRUE)
      \/ Outcome(f, r, id, answer) = Event(r, id, at, NoAnswer, FALSE)
  BY DEF Outcome, CallResult, FailedResult
<1> HIDE DEF at
<1> QED
  BY <1>1, <1>2 DEF IsResult

LEMMA DepsComeEarlier ==
  ASSUME NEW n \in 1 .. Len(Lines)
  PROVE  Deps(Lines[n]) \subseteq Ids(n - 1)
<1>1. Deps(Lines[n]) \subseteq ToSet(First(n - 1))
  BY LinesAre, AnswerAssumption DEF First
<1>2. n - 1 \in 0 .. Len(Lines)
  BY LinesAre
<1> QED
  BY <1>1, <1>2, FirstLines

LEMMA ResultsExist ==
  ASSUME NEW n \in 0 .. Len(Lines), NEW id, NEW answer
  PROVE  \E f : IsReplayOf(f, n, id, answer)
<1> DEFINE T == {k \in 0 .. Len(Lines) : ~\E f : IsReplayOf(f, k, id, answer)}
<1> SUFFICES ASSUME T # {} PROVE FALSE
  OBVIOUS
<1>1. T \in SUBSET Nat
  BY LinesAre
<1>2. PICK k \in T : \A m \in T : k <= m
  <2> HIDE DEF T
  <2> QED
    BY <1>1, LeastNumber
<1>3. k \in 0 .. Len(Lines) /\ k \in Nat
  BY LinesAre
<1>4. CASE k = 0
  <2>1. Ids(k) = {}
    BY <1>4 DEF Ids
  <2>2. [x \in {} |-> 0] = [r \in Ids(k) |-> Outcome([x \in {} |-> 0], r, id, answer)]
    BY <2>1
  <2>3. IsReplayOf([x \in {} |-> 0], k, id, answer)
    BY <2>2 DEF IsReplayOf
  <2> QED
    BY <2>3
<1>5. CASE k # 0
  <2>1. k - 1 \in 0 .. Len(Lines) /\ k - 1 \notin T /\ k \in 1 .. Len(Lines)
    BY <1>2, <1>3, <1>5, LinesAre
  <2>2. PICK f : IsReplayOf(f, k - 1, id, answer)
    BY <2>1
  <2>3. f = [r \in Ids(k - 1) |-> Outcome(f, r, id, answer)]
    BY <2>2 DEF IsReplayOf
  <2> DEFINE new == Lines[k]
             g == [r \in Ids(k) |-> IF r = new THEN Outcome(f, new, id, answer) ELSE f[r]]
  <2>4. /\ Ids(k) = Ids(k - 1) \cup {new}
        /\ new \notin Ids(k - 1)
    <3>1. 1 .. k = (1 .. k - 1) \cup {k} /\ (\A i \in 1 .. k - 1 : i # k /\ i \in 1 .. Len(Lines))
      BY <2>1, LinesAre
    <3> QED
      BY <2>1, <3>1, LinesAre DEF Ids
  <2>5. \A r \in Ids(k - 1) : g[r] = f[r]
    BY <2>4
  <2>6. ASSUME NEW r \in Ids(k) PROVE Deps(r) \subseteq Ids(k - 1)
    <3>1. PICK i \in 1 .. k : r = Lines[i]
      BY DEF Ids
    <3>2. i \in 1 .. Len(Lines) /\ (\A j \in 1 .. i - 1 : j \in 1 .. k - 1)
      BY <1>3, LinesAre
    <3>3. Deps(r) \subseteq Ids(i - 1)
      BY <3>1, <3>2, DepsComeEarlier
    <3> QED
      BY <3>2, <3>3 DEF Ids
  <2>7. ASSUME NEW r \in Ids(k) PROVE g[r] = Outcome(g, r, id, answer)
    <3>1. Outcome(g, r, id, answer) = Outcome(f, r, id, answer)
      <4>1. \A d \in Deps(r) : g[d] = f[d]
        BY <2>5, <2>6
      <4> HIDE DEF g
      <4> QED
        BY <4>1, OutcomeNeedsDepsOnly
    <3>2. CASE r = new
      BY <3>1, <3>2
    <3>3. CASE r # new
      <4>1. r \in Ids(k - 1)
        BY <2>4, <3>3
      <4>2. f[r] = Outcome(f, r, id, answer)
        BY <2>3, <4>1
      <4> QED
        BY <2>5, <3>1, <4>1, <4>2
    <3> QED
      BY <3>2, <3>3
  <2>8. g = [r \in Ids(k) |-> Outcome(g, r, id, answer)]
    BY <2>7
  <2> HIDE DEF g
  <2>9. IsReplayOf(g, k, id, answer)
    BY <2>8 DEF IsReplayOf
  <2> QED
    BY <2>9
<1> QED
  BY <1>4, <1>5

LEMMA ResultsAre ==
  ASSUME NEW n \in 0 .. Len(Lines), NEW id, NEW answer,
         \A r \in Ids(n) : answer[r] \in Answers[r]
  PROVE  LET results == Results(Ids(n), id, answer)
         IN  DOMAIN results = Ids(n) /\ \A r \in Ids(n) : IsResult(results[r], r, id)
<1>1. PICK f : IsReplayOf(f, n, id, answer)
  BY ResultsExist
<1> DEFINE results == Results(Ids(n), id, answer)
<1>2. results = [r \in Ids(n) |-> Outcome(results, r, id, answer)]
  BY <1>1 DEF Results, Outcome, IsReplayOf
<1> HIDE DEF results
<1>3. DOMAIN results = Ids(n) /\ \A r \in Ids(n) : results[r] = Outcome(results, r, id, answer)
  BY <1>2
<1> DEFINE T == {i \in 1 .. n : ~IsResult(results[Lines[i]], Lines[i], id)}
<1>4. n \in Nat /\ (\A i \in 1 .. n : i \in 1 .. Len(Lines) /\ i \in Nat)
  BY LinesAre
<1>5. ASSUME T # {} PROVE FALSE
  <2>1. PICK i \in T : \A j \in T : i <= j
    <3>1. T \in SUBSET Nat
      BY <1>4
    <3> HIDE DEF T
    <3> QED
      BY <1>5, <3>1, LeastNumber
  <2> DEFINE r == Lines[i]
  <2>2. i \in 1 .. n /\ r \in Requests /\ r \in Ids(n)
    BY <1>4, LinesAre DEF Ids
  <2>3. ASSUME NEW d \in Deps(r) PROVE results[d].end_s \in Nat
    <3>1. PICK j \in 1 .. i - 1 : d = Lines[j]
      BY <1>4, <2>2, DepsComeEarlier DEF Ids
    <3>2. j \in 1 .. n /\ ~(i <= j)
      BY <1>4, <2>2
    <3>3. IsResult(results[d], d, id) /\ d \in Requests
      BY <1>4, <2>1, <3>1, <3>2, LinesAre
    <3> QED
      BY <3>3, ResultFields
  <2>4. answer[r] \in Answers[r] /\ results[r] = Outcome(results, r, id, answer)
    BY <1>3, <2>2
  <2> HIDE DEF r
  <2>5. IsResult(Outcome(results, r, id, answer), r, id)
    BY <2>2, <2>3, <2>4, OutcomeIsResult
  <2> QED
    BY <2>1, <2>4, <2>5 DEF r
<1> QED
  BY <1>3, <1>5 DEF Ids, results
-----------------------------------------------------------------------------
(* The order of the results in the file. *)

LEMMA NthIsThere ==
  ASSUME NEW ids \in SUBSET Nat, IsFiniteSet(ids)
  PROVE  /\ \A i \in 1 .. Cardinality(ids) :
              Nth(ids, i) \in ids /\ Cardinality(Before(ids, Nth(ids, i))) = i - 1
         /\ \A i, j \in 1 .. Cardinality(ids) : i < j => Nth(ids, i) < Nth(ids, j)
         /\ \A r \in ids : \E i \in 1 .. Cardinality(ids) : Nth(ids, i) = r
<1>1. Cardinality(ids) \in Nat
  BY FS_CardinalityType
<1>2. ASSUME NEW i \in 1 .. Cardinality(ids)
      PROVE  Nth(ids, i) \in ids /\ Cardinality(Before(ids, Nth(ids, i))) = i - 1
  BY EveryPlaceIsTaken DEF Nth, Before
<1>3. ASSUME NEW i \in 1 .. Cardinality(ids), NEW j \in 1 .. Cardinality(ids), i < j
      PROVE  Nth(ids, i) < Nth(ids, j)
  <2> DEFINE q == Nth(ids, i)
             r == Nth(ids, j)
  <2>1. /\ q \in ids /\ r \in ids /\ Cardinality(Before(ids, q)) = i - 1
        /\ Cardinality(Before(ids, r)) = j - 1
    BY <1>2
  <2> HIDE DEF q, r
  <2>2. q # r /\ ~(r < q)
    BY <1>3, <2>1, MoreBeforeTheLater
  <2>3. q \in Nat /\ r \in Nat
    BY <2>1
  <2>4. q < r
    BY <2>2, <2>3
  <2> QED
    BY <2>4 DEF q, r
<1>4. ASSUME NEW r \in ids PROVE \E i \in 1 .. Cardinality(ids) : Nth(ids, i) = r
  <2> DEFINE i == Cardinality(Before(ids, r)) + 1
             q == Nth(ids, i)
  <2>1. i \in 1 .. Cardinality(ids) /\ Cardinality(Before(ids, r)) = i - 1
    BY <1>1, BeforeIsFinite
  <2>2. q \in ids /\ Cardinality(Before(ids, q)) = i - 1
    BY <1>2, <2>1
  <2>3. q \in Nat /\ r \in Nat
    BY <2>2
  <2> HIDE DEF i, q
  <2>4. ~(q < r) /\ ~(r < q)
    BY <1>1, <2>1, <2>2, MoreBeforeTheLater
  <2>5. q = r
    BY <2>3, <2>4
  <2> QED
    BY <2>1, <2>5 DEF q
<1> QED
  BY <1>2, <1>3, <1>4

(* The file gives each result once, in the order of the request ids, and     *)
(* counting its lines is counting the results.                               *)
LEMMA SortedResults ==
  ASSUME NEW results, DOMAIN results \in SUBSET Nat, IsFiniteSet(DOMAIN results)
  PROVE  LET n == Cardinality(DOMAIN results)
             sorted == Sorted(results)
         IN  /\ n \in Nat
             /\ \A i \in 1 .. n : /\ Nth(DOMAIN results, i) \in DOMAIN results
                                  /\ sorted[i] = results[Nth(DOMAIN results, i)]
             /\ \A i, j \in 1 .. n : i < j => Nth(DOMAIN results, i) < Nth(DOMAIN results, j)
             /\ Range(results) = {sorted[i] : i \in 1 .. n}
             /\ \A P \in SUBSET DOMAIN results :
                  Cardinality(P) = Cardinality({i \in 1 .. n : Nth(DOMAIN results, i) \in P})
<1> DEFINE ids == DOMAIN results
           n == Cardinality(ids)
<1>1. n \in Nat
  BY FS_CardinalityType
<1>2. /\ \A i \in 1 .. n : Nth(ids, i) \in ids
      /\ \A i, j \in 1 .. n : i < j => Nth(ids, i) < Nth(ids, j)
      /\ \A r \in ids : \E i \in 1 .. n : Nth(ids, i) = r
  BY NthIsThere
<1>3. \A i \in 1 .. n : Sorted(results)[i] = results[Nth(ids, i)]
  BY DEF Sorted
<1>4. Range(results) = {Sorted(results)[i] : i \in 1 .. n}
  BY <1>2, <1>3 DEF Range
<1>5. ASSUME NEW P \in SUBSET ids
      PROVE  Cardinality(P) = Cardinality({i \in 1 .. n : Nth(ids, i) \in P})
  <2> DEFINE places == {i \in 1 .. n : Nth(ids, i) \in P}
             f == [i \in places |-> Nth(ids, i)]
  <2>1. f \in [places -> P] /\ \A r \in P : \E i \in places : f[i] = r
    BY <1>2
  <2>2. ASSUME NEW i \in places, NEW j \in places, f[i] = f[j] PROVE i = j
    <3>1. Nth(ids, i) = Nth(ids, j) /\ i \in 1 .. n /\ j \in 1 .. n
      BY <2>2
    <3>2. Nth(ids, i) \in Nat
      BY <1>2, <3>1
    <3>3. ~(i < j) /\ ~(j < i)
      BY <1>2, <3>1, <3>2
    <3> QED
      BY <3>1, <3>3
  <2>3. IsFiniteSet(places)
    <3>1. places \in SUBSET (1 .. n)
      OBVIOUS
    <3> QED
      BY <1>1, <3>1, CardinalityOfInterval, FS_Subset
  <2> HIDE DEF places, f
  <2>4. f \in Bijection(places, P)
    BY <2>1, <2>2, Fun_IsBij
  <2>5. ExistsBijection(places, P)
    BY <2>4, Fun_ExistsBij
  <2>6. Cardinality(P) = Cardinality(places)
    BY <2>3, <2>5, FS_Bijection
  <2> QED
    BY <2>6 DEF places
<1> QED
  BY <1>1, <1>2, <1>3, <1>4, <1>5
-----------------------------------------------------------------------------
(* The inductive invariant. *)

(* The id-th run read a beginning of the trace and has one result for each   *)
(* of its requests.                                                          *)
IsRun(run, id) ==
  /\ run = [trace |-> run.trace, results |-> run.results,
            rewritten |-> run.rewritten, stopped |-> run.stopped]
  /\ Len(run.trace) \in 1 .. Len(Lines) /\ run.trace = First(Len(run.trace))
  /\ DOMAIN run.results = Ids(Len(run.trace))
  /\ \A r \in DOMAIN run.results : IsResult(run.results[r], r, id)

AreRuns(rs) == Listed(rs) /\ \A id \in 1 .. Len(rs) : IsRun(rs[id], id)

(* The lines are a beginning of the run's results in order. *)
AreEventsOf(lines, run) ==
  /\ Len(lines) <= Len(run.trace)
  /\ \A i \in 1 .. Len(lines) : lines[i] = Sorted(run.results)[i]

(* The manifest m is of the run that it names, among the runs rs. *)
Describes(m, rs) ==
  /\ m.run_id \in 1 .. Len(rs)
  /\ LET run == rs[m.run_id]
     IN  /\ ~m.events_sha256.torn
         /\ Len(m.events_sha256.lines) = Len(run.trace)
         /\ AreEventsOf(m.events_sha256.lines, run)
         /\ ~run.rewritten => m.trace_sha256 = File(run.trace, FALSE)
         /\ m.requests = Cardinality(DOMAIN run.results)
         /\ m.successful = Cardinality({r \in DOMAIN run.results : run.results[r].success})
         /\ m.usage_reported =
              Cardinality({r \in DOMAIN run.results : run.results[r].usage_reported})

TraceIsSound ==
  /\ trace = File(First(Len(trace.lines)), trace.torn)
  /\ Len(trace.lines) \in 0 .. Len(Lines) /\ trace.torn \in BOOLEAN

EventsAreSound ==
  /\ events = File(events.lines, events.torn)
  /\ Listed(events.lines) /\ events.torn \in BOOLEAN
  /\ writer \in 0 .. run_id
  /\ writer = 0 => events.lines = <<>>
  /\ writer # 0 => AreEventsOf(events.lines, runs[writer])

ManifestIsSound == manifest.whole \in BOOLEAN /\ (manifest.whole => Describes(manifest, runs))

RunsAreSound == AreRuns(runs) /\ run_id <= MaxRuns

(* What the command has in hand is of the latest run. *)
CommandIsSound ==
  /\ pc \in Places
  /\ pc # "idle" => run_id > 0
  /\ pc \in {"writing", "closed", "sealing"} =>
       ~events.torn /\ writer = run_id /\ AreEventsOf(events.lines, Run)
  /\ pc \in {"closed", "sealing"} => Len(events.lines) = Len(Run.trace)
  /\ (pc \in {"replayed", "writing", "closed"} /\ ~Run.rewritten) =>
       trace = File(Run.trace, FALSE)

DraftIsSound ==
  IF pc = "sealing" THEN draft.whole = TRUE /\ Describes(draft, runs) ELSE draft.whole = FALSE

IInv ==
  TraceIsSound /\ EventsAreSound /\ ManifestIsSound /\ RunsAreSound /\ CommandIsSound
    /\ DraftIsSound
-----------------------------------------------------------------------------
(* How the history grows. *)

(* No run is forgotten, and of a run only its marks change. *)
Grows(rs, ss) ==
  /\ Len(rs) <= Len(ss)
  /\ \A id \in 1 .. Len(rs) :
       /\ ss[id].trace = rs[id].trace /\ ss[id].results = rs[id].results
       /\ ~ss[id].rewritten => ~rs[id].rewritten

LEMMA DescribedForever ==
  ASSUME NEW rs, NEW ss, AreRuns(rs), AreRuns(ss), Grows(rs, ss), NEW m, Describes(m, rs)
  PROVE  Describes(m, ss)
<1>1. Len(rs) \in Nat /\ Len(ss) \in Nat
  BY ListedProperties DEF AreRuns
<1>2. m.run_id \in 1 .. Len(rs) /\ m.run_id \in 1 .. Len(ss)
  BY <1>1 DEF Describes, Grows
<1>3. /\ ss[m.run_id].trace = rs[m.run_id].trace
      /\ ss[m.run_id].results = rs[m.run_id].results
      /\ ~ss[m.run_id].rewritten => ~rs[m.run_id].rewritten
  BY <1>2 DEF Grows
<1> QED
  BY <1>2, <1>3 DEF Describes, AreEventsOf

(* A run that is marked is still that run. *)
LEMMA MarkedRuns ==
  ASSUME NEW rs, AreRuns(rs), NEW k \in 1 .. Len(rs), NEW ss,
         \/ ss = [rs EXCEPT ![k].rewritten = TRUE]
         \/ ss = [rs EXCEPT ![k].stopped = TRUE]
  PROVE  /\ AreRuns(ss) /\ Len(ss) = Len(rs) /\ Grows(rs, ss)
         /\ ss = [rs EXCEPT ![k].rewritten = TRUE] => ss[k].rewritten
<1> DEFINE new == ss[k]
<1>1. Listed(rs) /\ Len(rs) \in Nat /\ DOMAIN rs = 1 .. Len(rs)
  BY ListedProperties DEF AreRuns
<1>2. /\ ss = [rs EXCEPT ![k] = new]
      /\ \/ new = [rs[k] EXCEPT !.rewritten = TRUE]
         \/ new = [rs[k] EXCEPT !.stopped = TRUE]
      /\ ss = [rs EXCEPT ![k].rewritten = TRUE] => new = [rs[k] EXCEPT !.rewritten = TRUE]
  BY <1>1
<1> HIDE DEF new
<1>3. /\ Listed(ss) /\ Len(ss) = Len(rs)
      /\ \A i \in 1 .. Len(rs) : ss[i] = IF i = k THEN new ELSE rs[i]
  BY <1>1, <1>2, ExceptListed
<1>4. IsRun(rs[k], k)
  BY DEF AreRuns
<1>5. /\ new = [trace |-> rs[k].trace, results |-> rs[k].results,
                rewritten |-> new.rewritten, stopped |-> new.stopped]
      /\ \/ new.rewritten = TRUE
         \/ new.rewritten = rs[k].rewritten
      /\ new = [rs[k] EXCEPT !.rewritten = TRUE] => new.rewritten = TRUE
  BY <1>2, <1>4 DEF IsRun
<1>6. new.trace = rs[k].trace /\ new.results = rs[k].results
  BY <1>5
<1>7. IsRun(new, k)
  BY <1>4, <1>5, <1>6 DEF IsRun
<1>8. AreRuns(ss)
  BY <1>3, <1>7 DEF AreRuns
<1>9. Grows(rs, ss)
  BY <1>1, <1>3, <1>5, <1>6 DEF Grows
<1> QED
  BY <1>2, <1>3, <1>5, <1>8, <1>9

LEMMA OneRunMore ==
  ASSUME NEW rs, AreRuns(rs), NEW run, IsRun(run, Len(rs) + 1)
  PROVE  LET ss == Append(rs, run)
         IN  /\ AreRuns(ss) /\ Len(ss) = Len(rs) + 1 /\ Grows(rs, ss)
             /\ ss[Len(ss)] = run
<1> DEFINE ss == Append(rs, run)
<1>1. Listed(rs) /\ Len(rs) \in Nat
  BY ListedProperties DEF AreRuns
<1>2. /\ Listed(ss) /\ Len(ss) = Len(rs) + 1
      /\ \A i \in 1 .. Len(rs) : ss[i] = rs[i]
      /\ ss[Len(rs) + 1] = run
  BY <1>1, AppendToListed
<1> HIDE DEF ss
<1>3. \A i \in 1 .. Len(ss) : i \in 1 .. Len(rs) \/ i = Len(rs) + 1
  BY <1>1, <1>2
<1>4. AreRuns(ss)
  BY <1>2, <1>3 DEF AreRuns
<1>5. Grows(rs, ss)
  BY <1>1, <1>2 DEF Grows
<1> QED
  BY <1>2, <1>4, <1>5 DEF ss

(* Of a sound history, the files stay sound while it grows. *)
LEMMA FilesKept ==
  ASSUME IInv, AreRuns(runs'), Grows(runs, runs')
  PROVE  /\ manifest' = manifest => ManifestIsSound'
         /\ events'.lines = events.lines =>
              \A id \in 1 .. run_id :
                AreEventsOf(events.lines, runs[id]) => AreEventsOf(events'.lines, runs'[id])
         /\ events'.lines = events.lines /\ writer' = writer =>
              /\ writer' \in 0 .. run_id' /\ (writer' = 0 => events'.lines = <<>>)
              /\ writer' # 0 => AreEventsOf(events'.lines, runs'[writer'])
         /\ run_id \in Nat /\ run_id' \in Nat /\ run_id <= run_id'
<1>1. run_id \in Nat /\ run_id' \in Nat /\ run_id <= run_id'
  BY ListedProperties DEF IInv, RunsAreSound, AreRuns, Grows, run_id
<1>2. AreRuns(runs)
  BY DEF IInv, RunsAreSound
<1>3. manifest.whole => Describes(manifest, runs')
  BY <1>2, DescribedForever DEF IInv, ManifestIsSound
<1>4. \A id \in 1 .. run_id :
        runs'[id].trace = runs[id].trace /\ runs'[id].results = runs[id].results
  BY DEF Grows, run_id
<1>5. events'.lines = events.lines =>
        \A id \in 1 .. run_id :
          AreEventsOf(events.lines, runs[id]) => AreEventsOf(events'.lines, runs'[id])
  BY <1>4 DEF AreEventsOf
<1>6. /\ writer \in 0 .. run_id' /\ (writer = 0 => events.lines = <<>>)
      /\ writer # 0 => writer \in 1 .. run_id /\ AreEventsOf(events.lines, runs[writer])
  BY <1>1 DEF IInv, EventsAreSound
<1>7. ASSUME events'.lines = events.lines, writer' = writer
      PROVE  /\ writer' \in 0 .. run_id' /\ (writer' = 0 => events'.lines = <<>>)
             /\ writer' # 0 => AreEventsOf(events'.lines, runs'[writer'])
  <2>1. writer' # 0 => AreEventsOf(events'.lines, runs'[writer])
    BY <1>5, <1>6, <1>7
  <2>2. runs'[writer'] = runs'[writer]
    BY <1>7
  <2> QED
    BY <1>6, <1>7, <2>1, <2>2
<1>8. manifest' = manifest => ManifestIsSound'
  BY <1>3 DEF IInv, ManifestIsSound
<1> QED
  BY <1>1, <1>5, <1>7, <1>8
-----------------------------------------------------------------------------
(* Init and each action. *)

LEMMA EmptyFile == Listed(<<>>) /\ Len(<<>>) = 0 /\ First(0) = <<>>
<1>1. <<>> \in Seq({}) /\ Len(<<>>) = 0
  OBVIOUS
<1>2. First(0) \in Seq(Requests) /\ Len(First(0)) = 0
  BY LinesAre, FirstLines
<1> QED
  BY <1>1, <1>2, SequenceIsListed, EmptySeq

LEMMA InitEstablishesIInv == Init => IInv
<1> SUFFICES ASSUME Init PROVE IInv
  OBVIOUS
<1>1. TraceIsSound
  <2>1. trace = File(<<>>, FALSE) /\ trace.lines = <<>> /\ trace.torn = FALSE
    BY DEF Init, File
  <2>2. Len(trace.lines) = 0
    BY <2>1, EmptyFile, Zenon
  <2>3. First(0) = trace.lines
    BY <2>1, EmptyFile, Zenon
  <2>4. 0 \in 0 .. Len(Lines)
    BY LinesAre
  <2> QED
    BY <2>1, <2>2, <2>3, <2>4 DEF TraceIsSound
<1>2. EventsAreSound
  <2>1. /\ events = File(<<>>, FALSE) /\ events.lines = <<>> /\ events.torn = FALSE
        /\ writer = 0
    BY DEF Init, File
  <2>2. run_id = 0
    BY EmptyFile, Zenon DEF Init, run_id
  <2>3. Listed(events.lines)
    BY <2>1, EmptyFile, Zenon
  <2>4. 0 \in 0 .. 0
    OBVIOUS
  <2> QED
    BY <2>1, <2>2, <2>3, <2>4 DEF EventsAreSound
<1>3. ManifestIsSound
  BY DEF Init, ManifestIsSound, Missing
<1>4. RunsAreSound
  BY EmptyFile, BoundAssumption DEF Init, RunsAreSound, AreRuns, run_id
<1>5. CommandIsSound /\ DraftIsSound
  BY DEF Init, CommandIsSound, DraftIsSound, Missing, Places
<1> QED
  BY <1>1, <1>2, <1>3, <1>4, <1>5 DEF IInv

LEMMA RunIsRun ==
  ASSUME IInv, pc # "idle"
  PROVE  run_id \in 1 .. Len(runs) /\ run_id \in Nat /\ IsRun(Run, run_id)
<1>1. run_id \in 1 .. Len(runs) /\ run_id \in Nat
  BY ListedProperties DEF IInv, RunsAreSound, AreRuns, CommandIsSound, run_id
<1> QED
  BY <1>1 DEF IInv, RunsAreSound, AreRuns, Run

(* generate: whatever run is under way knows that its trace was rewritten. *)
LEMMA GenerateKeepsIInv ==
  ASSUME IInv, Generate
  PROVE  IInv'
<1> DEFINE underWay == pc \in {"replayed", "writing", "closed"}
<1>1. PICK k \in 0 .. Len(Lines), torn \in BOOLEAN : trace' = File(First(k), torn)
  BY DEF Generate, First
<1>2. TraceIsSound'
  BY <1>1, FirstLines DEF TraceIsSound, File
<1>3. /\ AreRuns(runs') /\ Len(runs') = Len(runs) /\ Grows(runs, runs')
      /\ underWay => runs'[run_id].rewritten
  <2>1. CASE underWay
    <3>1. run_id \in 1 .. Len(runs) /\ AreRuns(runs)
      BY <2>1, RunIsRun DEF IInv, RunsAreSound
    <3>2. runs' = [runs EXCEPT ![run_id].rewritten = TRUE]
      BY <2>1 DEF Generate
    <3> QED
      BY <3>1, <3>2, MarkedRuns
  <2>2. CASE ~underWay
    BY <2>2 DEF Generate, IInv, RunsAreSound, Grows
  <2> QED
    BY <2>1, <2>2
<1>4. /\ events' = events /\ manifest' = manifest /\ pc' = pc /\ draft' = draft
      /\ writer' = writer /\ run_id' = run_id
  BY <1>3 DEF Generate, run_id
<1>5. /\ ManifestIsSound'
      /\ \A id \in 1 .. run_id :
           AreEventsOf(events.lines, runs[id]) => AreEventsOf(events'.lines, runs'[id])
      /\ writer' \in 0 .. run_id' /\ (writer' = 0 => events'.lines = <<>>)
      /\ writer' # 0 => AreEventsOf(events'.lines, runs'[writer'])
  BY <1>3, <1>4, FilesKept
<1>6. EventsAreSound'
  BY <1>4, <1>5 DEF IInv, EventsAreSound
<1>7. RunsAreSound'
  BY <1>3, <1>4 DEF IInv, RunsAreSound
<1>8. CommandIsSound'
  <2>1. pc # "idle" => Run'.trace = Run.trace
    BY <1>3, <1>4, RunIsRun DEF Grows, Run
  <2>2. pc # "idle" /\ AreEventsOf(events.lines, Run) => AreEventsOf(events'.lines, Run')
    BY <1>4, <1>5, RunIsRun DEF Run, run_id
  <2>3. underWay => Run'.rewritten
    BY <1>3, <1>4 DEF Run
  <2> QED
    BY <1>4, <2>1, <2>2, <2>3 DEF IInv, CommandIsSound
<1>9. DraftIsSound'
  BY <1>3, <1>4, DescribedForever DEF IInv, DraftIsSound, RunsAreSound
<1> QED
  BY <1>2, <1>5, <1>6, <1>7, <1>8, <1>9 DEF IInv

(* run_trace: the new run has a result for each request that was read. *)
LEMMA ReplayKeepsIInv ==
  ASSUME IInv, Replay
  PROVE  IInv'
<1> DEFINE n == Len(trace.lines)
<1>1. n \in 1 .. Len(Lines) /\ trace.lines = First(n) /\ trace = File(First(n), FALSE)
  <2>1. n \in 0 .. Len(Lines) /\ trace = File(First(n), trace.torn)
    BY DEF IInv, TraceIsSound
  <2>2. trace.lines # <<>> /\ ~trace.torn /\ trace.torn \in BOOLEAN
    BY DEF Replay, Readable, IInv, TraceIsSound
  <2>3. trace.lines = First(n)
    BY <2>1 DEF File
  <2>4. n # 0
    BY <2>2, <2>3, EmptyFile
  <2>5. trace = File(First(n), FALSE)
    BY <2>1, <2>2
  <2>6. n \in 1 .. Len(Lines)
    BY <2>1, <2>4, LinesAre
  <2> QED
    BY <2>3, <2>5, <2>6
<1>2. PICK answer :
        /\ DOMAIN answer = ToSet(trace.lines)
        /\ \A r \in DOMAIN answer : answer[r] \in Answers[r]
        /\ runs' = Append(runs,
             [trace |-> trace.lines,
              results |-> Results(DOMAIN answer, run_id + 1, answer),
              rewritten |-> FALSE, stopped |-> FALSE])
  BY DEF Replay
<1> DEFINE new == [trace |-> First(n), results |-> Results(Ids(n), run_id + 1, answer),
                   rewritten |-> FALSE, stopped |-> FALSE]
<1>3. n \in 0 .. Len(Lines) /\ Len(First(n)) = n /\ ToSet(First(n)) = Ids(n)
  BY <1>1, FirstLines, LinesAre
<1>4. runs' = Append(runs, new)
  BY <1>1, <1>2, <1>3
<1>5. IsRun(new, run_id + 1)
  <2>1. \A r \in Ids(n) : answer[r] \in Answers[r]
    BY <1>1, <1>2, <1>3
  <2>2. /\ DOMAIN new.results = Ids(n)
        /\ \A r \in Ids(n) : IsResult(new.results[r], r, run_id + 1)
    BY <1>3, <2>1, ResultsAre
  <2> QED
    BY <1>1, <1>3, <2>2 DEF IsRun
<1>6. /\ new.trace = First(n) /\ AreRuns(runs)
  BY DEF IInv, RunsAreSound
<1> HIDE DEF new, n
<1>7. /\ AreRuns(runs') /\ run_id' = run_id + 1 /\ Grows(runs, runs')
      /\ runs'[run_id'] = new
  BY <1>4, <1>5, <1>6, OneRunMore DEF run_id
<1>8. /\ trace' = trace /\ events' = events /\ manifest' = manifest /\ draft' = draft
      /\ writer' = writer /\ pc = "idle" /\ pc' = "replayed" /\ run_id < MaxRuns
  BY DEF Replay
<1>9. /\ ManifestIsSound' /\ run_id \in Nat
      /\ writer' \in 0 .. run_id' /\ (writer' = 0 => events'.lines = <<>>)
      /\ writer' # 0 => AreEventsOf(events'.lines, runs'[writer'])
  BY <1>7, <1>8, FilesKept
<1>10. TraceIsSound'
  BY <1>8 DEF IInv, TraceIsSound
<1>11. EventsAreSound'
  BY <1>8, <1>9 DEF IInv, EventsAreSound
<1>12. RunsAreSound'
  BY <1>7, <1>8, <1>9, BoundAssumption DEF RunsAreSound
<1>13. CommandIsSound'
  <2>1. Run' = new /\ run_id' > 0
    BY <1>7, <1>9 DEF Run
  <2>2. trace' = File(new.trace, FALSE)
    BY <1>1, <1>6, <1>8
  <2> QED
    BY <1>8, <2>1, <2>2 DEF CommandIsSound, Places
<1>14. DraftIsSound'
  BY <1>8 DEF IInv, DraftIsSound
<1> QED
  BY <1>9, <1>10, <1>11, <1>12, <1>13, <1>14 DEF IInv

LEMMA OpenEventsKeepsIInv ==
  ASSUME IInv, OpenEvents
  PROVE  IInv'
<1>1. /\ trace' = trace /\ manifest' = manifest /\ draft' = draft /\ runs' = runs
      /\ run_id' = run_id /\ Run' = Run
      /\ pc = "replayed" /\ pc' = "writing" /\ events' = File(<<>>, FALSE)
      /\ writer' = run_id
  BY DEF OpenEvents, run_id, Run
<1>2. events'.lines = <<>> /\ events'.torn = FALSE
  BY <1>1 DEF File
<1>3. AreEventsOf(events'.lines, Run')
  <2>1. Len(Run.trace) \in 1 .. Len(Lines)
    BY <1>1, RunIsRun DEF IsRun
  <2>2. Len(events'.lines) = 0
    BY <1>2, EmptyFile, Zenon
  <2>3. 0 <= Len(Run.trace) /\ Run' = Run
    BY <1>1, <2>1, LinesAre
  <2>4. \A i \in 1 .. 0 : FALSE
    OBVIOUS
  <2> QED
    BY <2>2, <2>3, <2>4 DEF AreEventsOf
<1>4. EventsAreSound'
  <2>1. run_id \in 0 .. run_id /\ Run' = runs'[writer']
    BY <1>1, RunIsRun DEF Run
  <2> QED
    BY <1>1, <1>2, <1>3, <2>1, EmptyFile DEF EventsAreSound
<1>5. CommandIsSound'
  BY <1>1, <1>2, <1>3 DEF IInv, CommandIsSound, Places
<1> QED
  BY <1>1, <1>4, <1>5
     DEF IInv, TraceIsSound, ManifestIsSound, RunsAreSound, DraftIsSound

(* One more line of the results that this run has in memory. *)
LEMMA WriteEventKeepsIInv ==
  ASSUME IInv, WriteEvent
  PROVE  IInv'
<1> DEFINE e == Sorted(Run.results)[Len(events.lines) + 1]
<1>1. /\ trace' = trace /\ manifest' = manifest /\ draft' = draft /\ runs' = runs
      /\ run_id' = run_id /\ Run' = Run /\ pc = "writing" /\ pc' = "writing"
      /\ writer' = writer /\ Len(events.lines) < Len(Run.trace)
      /\ events' = File(Append(events.lines, e), FALSE)
  BY DEF WriteEvent, run_id, Run
<1>2. events'.lines = Append(events.lines, e) /\ events'.torn = FALSE
  BY <1>1 DEF File
<1>3. AreEventsOf(events.lines, Run) /\ Listed(events.lines) /\ Len(events.lines) \in Nat
  BY <1>1, ListedProperties DEF IInv, CommandIsSound, EventsAreSound
<1>4. Len(Run.trace) \in Nat /\ run_id \in 1 .. run_id
  BY <1>1, RunIsRun, LinesAre DEF IsRun
<1>5. /\ Listed(events'.lines) /\ Len(events'.lines) = Len(events.lines) + 1
      /\ \A i \in 1 .. Len(events.lines) : events'.lines[i] = events.lines[i]
      /\ events'.lines[Len(events.lines) + 1] = Sorted(Run.results)[Len(events.lines) + 1]
  <2> HIDE DEF e
  <2>1. /\ Listed(events'.lines) /\ Len(events'.lines) = Len(events.lines) + 1
        /\ \A i \in 1 .. Len(events.lines) : events'.lines[i] = events.lines[i]
        /\ events'.lines[Len(events.lines) + 1] = e
    BY <1>2, <1>3, AppendToListed
  <2> QED
    BY <2>1 DEF e
<1>6. AreEventsOf(events'.lines, Run)
  <2>1. Len(events'.lines) <= Len(Run.trace)
    <3>1. Len(events'.lines) = Len(events.lines) + 1 /\ Len(events.lines) \in Nat
      BY <1>3, <1>5
    <3>2. Len(events.lines) < Len(Run.trace) /\ Len(Run.trace) \in Nat
      BY <1>1, <1>4
    <3> QED
      BY <3>1, <3>2
  <2>2. ASSUME NEW i \in 1 .. Len(events'.lines) PROVE events'.lines[i] = Sorted(Run.results)[i]
    <3>1. i \in 1 .. Len(events.lines) \/ i = Len(events.lines) + 1
      BY <1>3, <1>5
    <3> QED
      BY <1>3, <1>5, <3>1 DEF AreEventsOf
  <2> QED
    BY <2>1, <2>2 DEF AreEventsOf
<1>7. EventsAreSound'
  <2>1. run_id # 0 /\ run_id \in 0 .. run_id
    BY <1>1, RunIsRun
  <2>2. writer = run_id
    BY <1>1 DEF IInv, CommandIsSound
  <2>3. Run = runs'[writer']
    BY <1>1, <2>2 DEF Run
  <2> QED
    BY <1>1, <1>2, <1>5, <1>6, <2>1, <2>2, <2>3 DEF EventsAreSound
<1>8. CommandIsSound'
  BY <1>1, <1>2, <1>6 DEF IInv, CommandIsSound
<1> QED
  BY <1>1, <1>7, <1>8
     DEF IInv, TraceIsSound, ManifestIsSound, RunsAreSound, DraftIsSound

LEMMA CloseEventsKeepsIInv ==
  ASSUME IInv, CloseEvents
  PROVE  IInv'
<1>1. /\ trace' = trace /\ events' = events /\ manifest' = manifest /\ draft' = draft
      /\ runs' = runs /\ run_id' = run_id /\ Run' = Run /\ writer' = writer
      /\ pc = "writing" /\ pc' = "closed" /\ Len(events.lines) = Len(Run.trace)
  BY DEF CloseEvents, run_id, Run
<1>2. CommandIsSound'
  BY <1>1 DEF IInv, CommandIsSound, Places
<1> QED
  BY <1>1, <1>2
     DEF IInv, TraceIsSound, EventsAreSound, ManifestIsSound, RunsAreSound, DraftIsSound

(* What is hashed is what this run wrote, and the trace it read. *)
LEMMA BuildManifestKeepsIInv ==
  ASSUME IInv, BuildManifest
  PROVE  IInv'
<1>1. /\ trace' = trace /\ events' = events /\ manifest' = manifest /\ runs' = runs
      /\ run_id' = run_id /\ Run' = Run /\ writer' = writer
      /\ pc = "closed" /\ pc' = "sealing" /\ draft' = Manifest
  BY DEF BuildManifest, run_id, Run
<1>2. /\ ~events.torn /\ writer = run_id /\ AreEventsOf(events.lines, Run)
      /\ Len(events.lines) = Len(Run.trace)
      /\ ~Run.rewritten => trace = File(Run.trace, FALSE)
  BY <1>1 DEF IInv, CommandIsSound
<1>3. /\ Manifest.whole = TRUE /\ Manifest.run_id = run_id
      /\ Manifest.trace_sha256 = trace /\ Manifest.events_sha256 = events
      /\ Manifest.requests = Cardinality(DOMAIN Run.results)
      /\ Manifest.successful = Cardinality({r \in DOMAIN Run.results : Run.results[r].success})
      /\ Manifest.usage_reported =
           Cardinality({r \in DOMAIN Run.results : Run.results[r].usage_reported})
  BY DEF Manifest
<1>4. Describes(draft', runs')
  BY <1>1, <1>2, <1>3, RunIsRun DEF Describes, Run
<1>5. DraftIsSound'
  BY <1>1, <1>3, <1>4 DEF DraftIsSound
<1>6. CommandIsSound'
  BY <1>1, <1>2 DEF IInv, CommandIsSound, Places
<1> QED
  BY <1>1, <1>5, <1>6
     DEF IInv, TraceIsSound, EventsAreSound, ManifestIsSound, RunsAreSound

LEMMA WriteManifestKeepsIInv ==
  ASSUME IInv, WriteManifest
  PROVE  IInv'
<1>1. /\ trace' = trace /\ events' = events /\ runs' = runs /\ run_id' = run_id
      /\ Run' = Run /\ manifest' = draft /\ draft' = Missing /\ writer' = writer
      /\ pc = "sealing" /\ pc' = "idle"
  BY DEF WriteManifest, run_id, Run
<1>2. ManifestIsSound' /\ DraftIsSound'
  BY <1>1 DEF IInv, DraftIsSound, ManifestIsSound, Missing
<1>3. CommandIsSound'
  BY <1>1 DEF IInv, CommandIsSound, Places
<1> QED
  BY <1>1, <1>2, <1>3 DEF IInv, TraceIsSound, EventsAreSound, RunsAreSound

(* A stopped process leaves a beginning of its events, and the manifest that *)
(* was there or none.                                                        *)
LEMMA StopKeepsIInv ==
  ASSUME IInv, Stop
  PROVE  IInv'
<1>1. PICK torn \in BOOLEAN : events' = File(events.lines, torn \/ events.torn)
  BY DEF Stop
<1>2. /\ trace' = trace /\ writer' = writer /\ draft' = Missing /\ pc # "idle" /\ pc' = "idle"
      /\ manifest' = manifest \/ manifest' = Missing
      /\ runs' = [runs EXCEPT ![run_id].stopped = TRUE]
  BY DEF Stop
<1>3. AreRuns(runs') /\ Len(runs') = Len(runs) /\ Grows(runs, runs')
  BY <1>2, RunIsRun, MarkedRuns DEF IInv, RunsAreSound
<1>4. run_id' = run_id
  BY <1>3 DEF run_id
<1>5. events'.lines = events.lines /\ events'.torn \in BOOLEAN
  BY <1>1 DEF File, IInv, EventsAreSound
<1>6. /\ manifest' = manifest => ManifestIsSound'
      /\ writer' \in 0 .. run_id' /\ (writer' = 0 => events'.lines = <<>>)
      /\ writer' # 0 => AreEventsOf(events'.lines, runs'[writer'])
  BY <1>2, <1>3, <1>5, FilesKept
<1>7. ManifestIsSound'
  <2>1. CASE manifest' = manifest
    BY <1>6, <2>1
  <2>2. CASE manifest' = Missing
    <3>1. manifest'.whole = FALSE
      BY <2>2 DEF Missing
    <3> QED
      BY <3>1 DEF ManifestIsSound
  <2> QED
    BY <1>2, <2>1, <2>2
<1>8. EventsAreSound'
  <2>1. events' = File(events'.lines, events'.torn)
    BY <1>1 DEF File
  <2> QED
    BY <1>5, <1>6, <2>1 DEF IInv, EventsAreSound
<1>9. RunsAreSound' /\ TraceIsSound'
  BY <1>2, <1>3, <1>4 DEF IInv, RunsAreSound, TraceIsSound
<1>10. CommandIsSound' /\ DraftIsSound'
  BY <1>2 DEF CommandIsSound, DraftIsSound, Places, Missing
<1> QED
  BY <1>7, <1>8, <1>9, <1>10 DEF IInv

(* The invariant holds at every instant of every history. *)
LEMMA Invariance == Spec => []IInv
<1>1. ASSUME IInv, [Next]_vars PROVE IInv'
  <2>1. CASE Generate
    BY <1>1, <2>1, GenerateKeepsIInv
  <2>2. CASE Replay
    BY <1>1, <2>2, ReplayKeepsIInv
  <2>3. CASE OpenEvents
    BY <1>1, <2>3, OpenEventsKeepsIInv
  <2>4. CASE WriteEvent
    BY <1>1, <2>4, WriteEventKeepsIInv
  <2>5. CASE CloseEvents
    BY <1>1, <2>5, CloseEventsKeepsIInv
  <2>6. CASE BuildManifest
    BY <1>1, <2>6, BuildManifestKeepsIInv
  <2>7. CASE WriteManifest
    BY <1>1, <2>7, WriteManifestKeepsIInv
  <2>8. CASE Stop
    BY <1>1, <2>8, StopKeepsIInv
  <2>9. CASE UNCHANGED vars
    BY <1>1, <2>9
       DEF vars, IInv, TraceIsSound, EventsAreSound, ManifestIsSound, RunsAreSound,
           CommandIsSound, DraftIsSound, run_id, Run
  <2> QED
    BY <1>1, <2>1, <2>2, <2>3, <2>4, <2>5, <2>6, <2>7, <2>8, <2>9 DEF Next, RunStep
<1> QED
  BY <1>1, InitEstablishesIInv, PTL DEF Spec
-----------------------------------------------------------------------------
(* What the events of a run are. *)

LEMMA EventsOfRun ==
  ASSUME NEW run, NEW id, IsRun(run, id)
  PROVE  LET ids == DOMAIN run.results
             n   == Len(run.trace)
         IN  /\ n \in Nat /\ ids \in SUBSET Nat /\ IsFiniteSet(ids) /\ Cardinality(ids) = n
             /\ \A i \in 1 .. n :
                  LET e == Sorted(run.results)[i]
                  IN  /\ e.request_id = Nth(ids, i) /\ Nth(ids, i) \in ids
                      /\ e.run_id = id /\ e = run.results[e.request_id]
             /\ \A i, j \in 1 .. n : i < j => Nth(ids, i) < Nth(ids, j)
<1>1. Len(run.trace) \in 0 .. Len(Lines) /\ Len(run.trace) \in Nat
  BY LinesAre DEF IsRun
<1>2. /\ DOMAIN run.results \in SUBSET Nat /\ IsFiniteSet(DOMAIN run.results)
      /\ Cardinality(DOMAIN run.results) = Len(run.trace)
  BY <1>1, FirstIds DEF IsRun
<1>3. /\ \A i \in 1 .. Len(run.trace) :
           /\ Nth(DOMAIN run.results, i) \in DOMAIN run.results
           /\ Sorted(run.results)[i] = run.results[Nth(DOMAIN run.results, i)]
      /\ \A i, j \in 1 .. Len(run.trace) :
           i < j => Nth(DOMAIN run.results, i) < Nth(DOMAIN run.results, j)
  BY <1>2, SortedResults
<1>4. \A r \in DOMAIN run.results : run.results[r].request_id = r /\ run.results[r].run_id = id
  <2>1. \A r \in DOMAIN run.results : r \in Requests /\ IsResult(run.results[r], r, id)
    BY LinesAre DEF IsRun, Ids
  <2> QED
    BY <2>1, ResultFields
<1> QED
  BY <1>1, <1>2, <1>3, <1>4

(* The ids that stand before the i-th are those that are smaller. *)
LEMMA SmallerStandBefore ==
  ASSUME NEW ids \in SUBSET Nat, IsFiniteSet(ids), NEW i \in 1 .. Cardinality(ids)
  PROVE  {Nth(ids, j) : j \in 1 .. i - 1} = {r \in ids : r < Nth(ids, i)}
<1> DEFINE n == Cardinality(ids)
           At(j) == Nth(ids, j)
<1>1. n \in Nat
  BY FS_CardinalityType
<1>2. /\ \A j \in 1 .. n : At(j) \in ids
      /\ \A j, k \in 1 .. n : j < k => At(j) < At(k)
      /\ \A r \in ids : \E j \in 1 .. n : At(j) = r
  BY NthIsThere
<1> HIDE DEF n, At
<1>3. i \in 1 .. n /\ \A j \in 1 .. i - 1 : j \in 1 .. n /\ j < i
  BY <1>1 DEF n
<1>4. ASSUME NEW j \in 1 .. i - 1 PROVE At(j) \in ids /\ At(j) < At(i)
  BY <1>2, <1>3
<1>5. ASSUME NEW r \in ids, r < At(i) PROVE \E j \in 1 .. i - 1 : At(j) = r
  <2>1. PICK j \in 1 .. n : At(j) = r
    BY <1>2
  <2>2. At(i) \in Nat /\ At(j) \in Nat
    BY <1>2, <1>3, <2>1
  <2>3. ~(i < j) /\ i # j
    BY <1>2, <1>3, <1>5, <2>1, <2>2
  <2>4. j \in 1 .. i - 1
    BY <1>1, <1>3, <2>1, <2>3
  <2> QED
    BY <2>1, <2>4
<1>6. {At(j) : j \in 1 .. i - 1} = {r \in ids : r < At(i)}
  BY <1>4, <1>5
<1> QED
  BY <1>6 DEF At

LEMMA SoundIsOneRun == IInv => EventsAreOneRun
<1> SUFFICES ASSUME IInv, writer # 0, NEW i \in DOMAIN events.lines
             PROVE  LET run   == runs[writer]
                        e     == events.lines[i]
                        above == {events.lines[j].request_id : j \in 1 .. i - 1}
                    IN  /\ e.run_id = writer
                        /\ e.request_id \in DOMAIN run.results
                        /\ e = run.results[e.request_id]
                        /\ above = {r \in ToSet(run.trace) : r < e.request_id}
  BY DEF EventsAreOneRun, IInv, EventsAreSound
<1>1. Len(events.lines) \in Nat /\ i \in 1 .. Len(events.lines)
  BY ListedProperties DEF IInv, EventsAreSound
<1>2. writer \in 1 .. Len(runs) /\ AreEventsOf(events.lines, runs[writer])
  BY ListedProperties DEF IInv, EventsAreSound, RunsAreSound, AreRuns, run_id
<1> DEFINE run == runs[writer]
           ids == DOMAIN run.results
           n   == Len(run.trace)
<1>3. IsRun(run, writer)
  BY <1>2 DEF IInv, RunsAreSound, AreRuns
<1> HIDE DEF run
<1>4. AreEventsOf(events.lines, run)
  BY <1>2 DEF run
<1>5. n \in Nat /\ ids \in SUBSET Nat /\ IsFiniteSet(ids) /\ Cardinality(ids) = n
  BY <1>3, EventsOfRun
<1>6. ids = ToSet(run.trace)
  <2>1. n \in 0 .. Len(Lines) /\ run.trace = First(n) /\ ids = Ids(n)
    BY <1>3, LinesAre DEF IsRun
  <2> QED
    BY <2>1, FirstLines
<1>7. \A j \in 1 .. Len(events.lines) :
        /\ j \in 1 .. n
        /\ events.lines[j] = Sorted(run.results)[j]
  BY <1>1, <1>4, <1>5 DEF AreEventsOf
<1>8. \A j \in 1 .. Len(events.lines) :
        LET e == events.lines[j]
        IN  /\ e.request_id = Nth(ids, j) /\ Nth(ids, j) \in ids
            /\ e.run_id = writer /\ e = run.results[e.request_id]
  BY <1>3, <1>7, EventsOfRun
<1>9. {events.lines[j].request_id : j \in 1 .. i - 1}
        = {r \in ToSet(run.trace) : r < events.lines[i].request_id}
  <2>1. \A j \in 1 .. i - 1 : j \in 1 .. Len(events.lines)
    BY <1>1
  <2>2. {events.lines[j].request_id : j \in 1 .. i - 1} = {Nth(ids, j) : j \in 1 .. i - 1}
    BY <1>8, <2>1
  <2>3. i \in 1 .. Cardinality(ids) /\ events.lines[i].request_id = Nth(ids, i)
    BY <1>1, <1>5, <1>7, <1>8
  <2>4. {Nth(ids, j) : j \in 1 .. i - 1} = {r \in ids : r < Nth(ids, i)}
    BY <1>5, <2>3, SmallerStandBefore
  <2> QED
    BY <1>6, <2>2, <2>3, <2>4
<1> QED
  BY <1>1, <1>8, <1>9 DEF run

LEMMA SoundIsTyped == IInv => TypeOK
<1> SUFFICES ASSUME IInv PROVE TypeOK
  OBVIOUS
<1>1. trace.torn \in BOOLEAN /\ events.torn \in BOOLEAN
  BY DEF IInv, TraceIsSound, EventsAreSound
<1>2. trace.lines = SubSeq(Lines, 1, Len(trace.lines))
  BY DEF IInv, TraceIsSound, First, File
<1>3. /\ pc \in Places /\ run_id <= MaxRuns /\ (pc # "idle" => run_id > 0)
      /\ writer \in 0 .. run_id
  BY DEF IInv, CommandIsSound, RunsAreSound, EventsAreSound
<1>4. draft.whole <=> pc = "sealing"
  BY DEF IInv, DraftIsSound
<1>5. ASSUME NEW id \in 1 .. run_id
      PROVE  DOMAIN runs[id].results = ToSet(runs[id].trace)
  <2>1. IsRun(runs[id], id)
    BY DEF IInv, RunsAreSound, AreRuns, run_id
  <2> HIDE DEF run_id
  <2>2. Len(runs[id].trace) \in 0 .. Len(Lines)
    BY <2>1, LinesAre DEF IsRun
  <2> QED
    BY <2>1, <2>2, FirstLines DEF IsRun
<1> QED
  BY <1>1, <1>2, <1>3, <1>4, <1>5 DEF TypeOK

LEMMA SoundIsWhole == IInv => VerifiedBundleIsWhole
<1> SUFFICES ASSUME IInv, Verified
             PROVE  /\ ~events.torn
                    /\ ToSet(events.lines) = Range(Recorded.results)
                    /\ \A e \in ToSet(events.lines) : e.run_id = manifest.run_id
                    /\ manifest.requests = Len(events.lines)
                    /\ manifest.successful =
                         Cardinality({i \in DOMAIN events.lines : events.lines[i].success})
                    /\ manifest.usage_reported =
                         Cardinality({i \in DOMAIN events.lines : events.lines[i].usage_reported})
                    /\ ~Recorded.rewritten => manifest.trace_sha256 = File(Recorded.trace, FALSE)
  BY DEF VerifiedBundleIsWhole
<1> DEFINE run == Recorded
           ids == DOMAIN run.results
           n   == Len(run.trace)
           At(i) == Nth(ids, i)
<1>1. /\ ~events.torn /\ Len(events.lines) = n /\ AreEventsOf(events.lines, run)
      /\ ~run.rewritten => manifest.trace_sha256 = File(run.trace, FALSE)
      /\ manifest.requests = Cardinality(ids)
      /\ manifest.successful = Cardinality({r \in ids : run.results[r].success})
      /\ manifest.usage_reported = Cardinality({r \in ids : run.results[r].usage_reported})
      /\ manifest.run_id \in 1 .. Len(runs)
  BY DEF IInv, ManifestIsSound, Verified, Describes, Recorded
<1>2. IsRun(run, manifest.run_id)
  BY <1>1 DEF IInv, RunsAreSound, AreRuns, Recorded
<1> HIDE DEF run
<1>3. DOMAIN events.lines = 1 .. n /\ n \in Nat
  BY <1>1, ListedProperties DEF IInv, EventsAreSound
<1>4. /\ ids \in SUBSET Nat /\ IsFiniteSet(ids) /\ Cardinality(ids) = n
      /\ \A i \in 1 .. n : Sorted(run.results)[i].run_id = manifest.run_id
  BY <1>2, EventsOfRun
<1>5. /\ \A i \in 1 .. n : At(i) \in ids /\ Sorted(run.results)[i] = run.results[At(i)]
      /\ Range(run.results) = {Sorted(run.results)[i] : i \in 1 .. n}
      /\ \A P \in SUBSET ids : Cardinality(P) = Cardinality({i \in 1 .. n : At(i) \in P})
  BY <1>4, SortedResults
<1>6. \A i \in 1 .. n : events.lines[i] = Sorted(run.results)[i]
  BY <1>1 DEF AreEventsOf
<1>7. ToSet(events.lines) = Range(run.results)
  BY <1>3, <1>5, <1>6 DEF ToSet
<1>8. \A e \in ToSet(events.lines) : e.run_id = manifest.run_id
  BY <1>3, <1>4, <1>6 DEF ToSet
<1>9. manifest.successful = Cardinality({i \in DOMAIN events.lines : events.lines[i].success})
  <2> DEFINE P == {r \in ids : run.results[r].success}
  <2>1. {i \in 1 .. n : At(i) \in P} = {i \in DOMAIN events.lines : events.lines[i].success}
    BY <1>3, <1>5, <1>6
  <2>2. P \in SUBSET ids
    OBVIOUS
  <2> HIDE DEF P
  <2>3. Cardinality(P) = Cardinality({i \in 1 .. n : At(i) \in P})
    BY <1>5, <2>2
  <2>4. manifest.successful = Cardinality(P)
    BY <1>1 DEF P
  <2> QED
    BY <2>1, <2>3, <2>4
<1>10. manifest.usage_reported =
         Cardinality({i \in DOMAIN events.lines : events.lines[i].usage_reported})
  <2> DEFINE P == {r \in ids : run.results[r].usage_reported}
  <2>1. {i \in 1 .. n : At(i) \in P}
          = {i \in DOMAIN events.lines : events.lines[i].usage_reported}
    BY <1>3, <1>5, <1>6
  <2>2. P \in SUBSET ids
    OBVIOUS
  <2> HIDE DEF P
  <2>3. Cardinality(P) = Cardinality({i \in 1 .. n : At(i) \in P})
    BY <1>5, <2>2
  <2>4. manifest.usage_reported = Cardinality(P)
    BY <1>1 DEF P
  <2> QED
    BY <2>1, <2>3, <2>4
<1> QED
  BY <1>1, <1>4, <1>7, <1>8, <1>9, <1>10 DEF run
-----------------------------------------------------------------------------
(* The report on what is in the events file. *)

LEMMA EventsAreResults ==
  ASSUME IInv
  PROVE  /\ Listed(events.lines) /\ DOMAIN events.lines = 1 .. Len(events.lines)
         /\ Len(events.lines) \in Nat
         /\ \A i \in DOMAIN events.lines :
              \E r \in Requests, id \in Nat : IsResult(events.lines[i], r, id)
<1>1. /\ Listed(events.lines) /\ Len(events.lines) \in Nat
      /\ DOMAIN events.lines = 1 .. Len(events.lines)
  BY ListedProperties DEF IInv, EventsAreSound
<1>2. ASSUME NEW i \in DOMAIN events.lines
      PROVE  \E r \in Requests, id \in Nat : IsResult(events.lines[i], r, id)
  <2>1. events.lines # <<>>
    <3>1. events.lines = <<>> => Len(events.lines) = 0
      BY EmptyFile, Zenon
    <3> QED
      BY <1>1, <1>2, <3>1
  <2>2. PICK id \in 1 .. run_id : AreEventsOf(events.lines, runs[id])
    <3>1. writer \in 1 .. run_id /\ AreEventsOf(events.lines, runs[writer])
      <4>1. run_id \in Nat
        BY ListedProperties DEF IInv, RunsAreSound, AreRuns, run_id
      <4> QED
        BY <2>1, <4>1 DEF IInv, EventsAreSound
    <3> QED
      BY <3>1
  <2> DEFINE run == runs[id]
             r   == Nth(DOMAIN run.results, i)
  <2>3. IsRun(run, id)
    BY <2>2 DEF IInv, RunsAreSound, AreRuns, run_id
  <2>4. \A q \in DOMAIN run.results : q \in Requests /\ IsResult(run.results[q], q, id)
    <3> HIDE DEF run
    <3> QED
      BY <2>3, LinesAre DEF IsRun, Ids
  <2>5. AreEventsOf(events.lines, run)
    BY <2>2
  <2> HIDE DEF run
  <2>6. /\ DOMAIN run.results \in SUBSET Nat /\ IsFiniteSet(DOMAIN run.results)
        /\ Cardinality(DOMAIN run.results) = Len(run.trace) /\ Len(run.trace) \in Nat
    BY <2>3, EventsOfRun
  <2>7. i \in 1 .. Len(run.trace) /\ events.lines[i] = Sorted(run.results)[i]
    BY <1>1, <2>5, <2>6 DEF AreEventsOf
  <2>8. r \in DOMAIN run.results /\ Sorted(run.results)[i] = run.results[r]
    BY <2>6, <2>7, SortedResults
  <2>9. id \in Nat
    <3>1. run_id \in Nat
      BY ListedProperties DEF IInv, RunsAreSound, AreRuns, run_id
    <3> QED
      BY <3>1
  <2> QED
    BY <2>4, <2>7, <2>8, <2>9
<1> QED
  BY <1>1, <1>2

LEMMA EventsAreTimed ==
  ASSUME IInv
  PROVE  AreTimed(events.lines)
BY EventsAreResults, ResultFields DEF AreTimed

LEMMA SoundIsJudged == IInv => SloNeedsEvidence
<1> SUFFICES ASSUME IInv
             PROVE  LET report == Report IN
      /\ report.slo_satisfied \subseteq report.slo_evaluable \cap report.completed
      /\ report.workflows \ report.completed \subseteq report.slo_evaluable
      /\ \A e \in ToSet(events.lines) : e.workflow_id \in report.slo_satisfied =>
           /\ e.success /\ e.output_tokens # None
           /\ e.end_s - e.arrival_s <= e.deadline_ms
           /\ e.first_token_s - e.start_s <= TtftSlo
           /\ e.end_s - e.first_token_s <= TpotSlo * (e.output_tokens - 1) \/ e.output_tokens <= 1
      /\ report.output_tokens # None =>
           \A e \in ToSet(events.lines) : e.success => e.usage_reported
  BY DEF SloNeedsEvidence
<1> DEFINE log == events.lines
           report == Report
<1>1. /\ report.workflows = Workflows(log) /\ report.completed = Completed(log)
      /\ report.slo_evaluable = WithVerdict(log, {"satisfied", "violated"})
      /\ report.slo_satisfied = WithVerdict(log, {"satisfied"})
      /\ report.output_tokens # None => UsageIsComplete(log)
  BY ReportSays DEF Report
<1> HIDE DEF report
<1>2. /\ report.slo_satisfied \subseteq report.slo_evaluable \cap report.completed
      /\ report.workflows \ report.completed \subseteq report.slo_evaluable
  BY <1>1, VerdictsOverlap
<1>3. ASSUME NEW e \in ToSet(log)
      PROVE  \E i \in DOMAIN log, r \in Requests, id \in Nat : e = log[i] /\ IsResult(e, r, id)
  BY EventsAreResults DEF ToSet
<1>4. ASSUME NEW e \in ToSet(log), e.workflow_id \in report.slo_satisfied
      PROVE  /\ e.success /\ e.output_tokens # None
             /\ e.end_s - e.arrival_s <= e.deadline_ms
             /\ e.first_token_s - e.start_s <= TtftSlo
             /\ \/ e.end_s - e.first_token_s <= TpotSlo * (e.output_tokens - 1)
                \/ e.output_tokens <= 1
  <2>1. PICK i \in DOMAIN log, r \in Requests, id \in Nat : e = log[i] /\ IsResult(e, r, id)
    BY <1>3
  <2>2. /\ e.deadline_ms \in Nat /\ e.output_tokens \in Int \cup {None}
        /\ e.ttft_slo_ms = TtftSlo /\ e.tpot_slo_ms = TpotSlo
    BY <2>1, ResultFields
  <2>3. /\ e.success /\ ~Unmeasured(e) /\ MeetsTokenSlos(e)
        /\ e.end_s - e.arrival_s <= e.deadline_ms
    <3>1. log[i].workflow_id \in WithVerdict(log, {"satisfied"}) /\ log[i].deadline_ms \in Nat
      BY <1>1, <1>4, <2>1, <2>2
    <3> HIDE DEF log
    <3>2. AreTimed(log)
      BY EventsAreTimed DEF log
    <3> QED
      BY <2>1, <3>1, <3>2, SatisfiedMeans
  <2>4. e.output_tokens # None
    BY <2>3 DEF Unmeasured
  <2>5. e.output_tokens > 1 \/ e.output_tokens <= 1
    BY <2>2, <2>4
  <2> QED
    BY <2>2, <2>3, <2>4, <2>5 DEF MeetsTokenSlos, Ttft
<1>5. ASSUME UsageIsComplete(log), NEW e \in ToSet(log), e.success PROVE e.usage_reported
  <2>1. PICK i \in DOMAIN log, r \in Requests, id \in Nat : e = log[i] /\ IsResult(e, r, id)
    BY <1>3
  <2>2. i \in Usage(log)
    BY <1>5, <2>1 DEF UsageIsComplete, Successes
  <2>3. log[i]["output_tokens"] # None
    BY <2>2 DEF Usage, Reporting
  <2> QED
    BY <1>5, <2>1, <2>3, ResultFields
<1> QED
  BY <1>1, <1>2, <1>4, <1>5 DEF report

LEMMA RankedRight ==
  ASSUME NEW S, IsFiniteSet(S), S # {}, NEW values \in [S -> Int],
         NEW ps, NEW p \in ps, p \in 1 .. 100
  PROVE  IsNearestRank(values, p, Percentiles(ps, values)[p])
<1>1. DOMAIN values = S
  OBVIOUS
<1>2. LET v == Percentile(values, p)
      IN  /\ \E i \in S : values[i] = v
          /\ 100 * Cardinality({i \in S : values[i] <= v}) >= p * Cardinality(S)
          /\ 100 * Cardinality({i \in S : values[i] < v}) < p * Cardinality(S)
  BY NearestRank
<1>3. Percentiles(ps, values)[p] = Percentile(values, p)
  BY DEF Percentiles
<1> QED
  BY <1>1, <1>2, <1>3 DEF IsNearestRank, Range

(* The populations of the report's latencies. *)
TtftOf(log) == [i \in {j \in DOMAIN log : log[j].success} |-> log[i].first_token_s - log[i].start_s]
WaitOf(log) == [i \in DOMAIN log |-> log[i].admission_wait_ms]

LEMMA Populations ==
  ASSUME IInv
  PROVE  LET log == events.lines
         IN  /\ IsFiniteSet(DOMAIN log) /\ IsFiniteSet({i \in DOMAIN log : log[i].success})
             /\ log # <<>> => DOMAIN log # {}
             /\ TtftOf(log) \in [{i \in DOMAIN log : log[i].success} -> Int]
             /\ WaitOf(log) \in [DOMAIN log -> Int]
             /\ Report.ttft = Percentiles({50, 95, 99}, TtftOf(log))
             /\ Report.admission_wait = Percentiles({50, 95}, WaitOf(log))
<1> DEFINE log == events.lines
<1>1. /\ Listed(log) /\ DOMAIN log = 1 .. Len(log) /\ Len(log) \in Nat
      /\ \A i \in DOMAIN log : \E r \in Requests, id \in Nat : IsResult(log[i], r, id)
  BY EventsAreResults
<1>2. /\ Report.ttft = Percentiles({50, 95, 99},
           [i \in Reporting(log, Successes(log), {"first_token_s"}) |-> Ttft(log[i])])
      /\ Report.admission_wait = Percentiles({50, 95}, Values(log, "admission_wait_ms"))
  BY ReportSays DEF Report
<1> HIDE DEF log
<1>3. \A i \in DOMAIN log :
        /\ log[i].admission_wait_ms \in Nat /\ log[i].start_s \in Nat
        /\ log[i].success => log[i].first_token_s \in Nat
  BY <1>1, ResultFields
<1>4. None \notin Int
  BY AnswerAssumption
<1>5. IsFiniteSet(DOMAIN log) /\ IsFiniteSet({i \in DOMAIN log : log[i].success})
  BY <1>1, CardinalityOfInterval, FS_Subset
<1>6. log # <<>> => DOMAIN log # {}
  <2>1. log # <<>> => Len(log) # 0
    BY <1>1, EmptySeq DEF Listed
  <2>2. Len(log) # 0 => 1 \in 1 .. Len(log)
    BY <1>1
  <2> QED
    BY <1>1, <2>1, <2>2
<1>7. TtftOf(log) \in [{i \in DOMAIN log : log[i].success} -> Int]
      /\ WaitOf(log) \in [DOMAIN log -> Int]
  BY <1>3 DEF TtftOf, WaitOf
<1>8. [i \in Reporting(log, Successes(log), {"first_token_s"}) |-> Ttft(log[i])] = TtftOf(log)
  <2>1. \A i \in DOMAIN log : log[i].success => log[i]["first_token_s"] # None
    BY <1>3, <1>4
  <2>2. Reporting(log, Successes(log), {"first_token_s"}) = {i \in DOMAIN log : log[i].success}
    BY <2>1 DEF Reporting, Successes
  <2> QED
    BY <2>2 DEF Ttft, TtftOf
<1>9. Values(log, "admission_wait_ms") = WaitOf(log)
  <2>1. \A i \in DOMAIN log : log[i]["admission_wait_ms"] # None
    BY <1>3, <1>4
  <2>2. Observed(log, "admission_wait_ms") = DOMAIN log
    BY <2>1 DEF Observed, Reporting
  <2> QED
    BY <2>2 DEF Values, WaitOf
<1> QED
  BY <1>2, <1>5, <1>6, <1>7, <1>8, <1>9 DEF log

LEMMA SoundIsRanked == IInv => PercentilesAreNearestRank
<1> DEFINE log       == events.lines
           successes == {i \in DOMAIN log : log[i].success}
<1> SUFFICES ASSUME IInv
             PROVE  /\ successes # {} =>
                         \A p \in {50, 95, 99} : IsNearestRank(TtftOf(log), p, Report.ttft[p])
                    /\ log # <<>> =>
                         \A p \in {50, 95} :
                           IsNearestRank(WaitOf(log), p, Report.admission_wait[p])
  BY DEF PercentilesAreNearestRank, TtftOf, WaitOf
<1>1. /\ IsFiniteSet(DOMAIN log) /\ IsFiniteSet(successes)
      /\ log # <<>> => DOMAIN log # {}
      /\ TtftOf(log) \in [successes -> Int] /\ WaitOf(log) \in [DOMAIN log -> Int]
      /\ Report.ttft = Percentiles({50, 95, 99}, TtftOf(log))
      /\ Report.admission_wait = Percentiles({50, 95}, WaitOf(log))
  BY Populations
<1> HIDE DEF log, successes
<1>2. ASSUME successes # {}, NEW p \in {50, 95, 99}
      PROVE  IsNearestRank(TtftOf(log), p, Report.ttft[p])
  <2>1. p \in 1 .. 100
    OBVIOUS
  <2>2. IsNearestRank(TtftOf(log), p, Percentiles({50, 95, 99}, TtftOf(log))[p])
    BY <1>1, <1>2, <2>1, RankedRight
  <2> QED
    BY <1>1, <2>2
<1>3. ASSUME log # <<>>, NEW p \in {50, 95}
      PROVE  IsNearestRank(WaitOf(log), p, Report.admission_wait[p])
  <2>1. p \in 1 .. 100
    OBVIOUS
  <2>2. IsNearestRank(WaitOf(log), p, Percentiles({50, 95}, WaitOf(log))[p])
    BY <1>1, <1>3, <2>1, RankedRight
  <2> QED
    BY <1>1, <2>2
<1> QED
  BY <1>2, <1>3
(* The log gives the results of the whole run. *)
IsLogOf(log, run) ==
  /\ Listed(log) /\ DOMAIN log = 1 .. Len(log) /\ Len(log) = Len(run.trace)
  /\ Len(run.trace) \in Nat \ {0}
  /\ \A i \in DOMAIN log : \E r \in ToSet(run.trace) : log[i] = run.results[r]
  /\ \A r \in ToSet(run.trace) :
       /\ \E i \in DOMAIN log : log[i] = run.results[r]
       /\ run.results[r].workflow_id = Record[r].workflow
       /\ run.results[r].tenant_id = Tenant(r)

LEMMA VerifiedIsLogOfRun ==
  ASSUME IInv, Verified
  PROVE  IsLogOf(events.lines, Recorded)
<1> DEFINE run == Recorded
           log == events.lines
           id  == manifest.run_id
<1>1. /\ Len(log) = Len(run.trace) /\ id \in 1 .. Len(runs)
  BY DEF IInv, ManifestIsSound, Verified, Describes, Recorded
<1>2. IsRun(run, id)
  BY <1>1 DEF IInv, RunsAreSound, AreRuns, Recorded
<1>3. Listed(log) /\ DOMAIN log = 1 .. Len(log)
  BY ListedProperties DEF IInv, EventsAreSound
<1>4. ToSet(log) = Range(run.results)
  BY SoundIsWhole DEF VerifiedBundleIsWhole
<1> HIDE DEF run, log, id
<1>5. Len(run.trace) \in Nat \ {0} /\ Len(run.trace) \in 0 .. Len(Lines)
  BY <1>2, LinesAre DEF IsRun
<1>6. ToSet(run.trace) = DOMAIN run.results
  BY <1>2, <1>5, FirstLines DEF IsRun
<1>7. \A r \in DOMAIN run.results : r \in Requests /\ IsResult(run.results[r], r, id)
  BY <1>2, LinesAre DEF IsRun, Ids
<1>8. \A r \in DOMAIN run.results :
        run.results[r].workflow_id = Record[r].workflow /\ run.results[r].tenant_id = Tenant(r)
  BY <1>7, ResultFields
<1>9. \A i \in DOMAIN log : \E r \in DOMAIN run.results : log[i] = run.results[r]
  <2>1. \A i \in DOMAIN log : log[i] \in ToSet(log)
    BY DEF ToSet
  <2> QED
    BY <1>4, <2>1 DEF Range
<1>10. \A r \in DOMAIN run.results : \E i \in DOMAIN log : log[i] = run.results[r]
  <2>1. \A r \in DOMAIN run.results : run.results[r] \in ToSet(log)
    BY <1>4 DEF Range
  <2> QED
    BY <2>1 DEF ToSet
<1>11. IsLogOf(log, run)
  BY <1>1, <1>3, <1>5, <1>6, <1>8, <1>9, <1>10 DEF IsLogOf
<1> QED
  BY <1>11 DEF log, run

FlowsOf(run) == {Record[r].workflow : r \in ToSet(run.trace)}

LEMMA WorkflowsOfLog ==
  ASSUME NEW log, NEW run, IsLogOf(log, run)
  PROVE  /\ Workflows(log) = FlowsOf(run)
         /\ Completed(log) = {w \in FlowsOf(run) : SucceededIn(run, w)}
<1>1. /\ \A i \in DOMAIN log : \E r \in ToSet(run.trace) :
           log[i] = run.results[r] /\ log[i].workflow_id = Record[r].workflow
      /\ \A r \in ToSet(run.trace) : \E i \in DOMAIN log :
           log[i] = run.results[r] /\ log[i].workflow_id = Record[r].workflow
  BY DEF IsLogOf
<1>2. Workflows(log) = FlowsOf(run)
  BY <1>1 DEF Workflows, FlowsOf
<1>3. ASSUME NEW w PROVE Complete(Flow(log, w)) <=> SucceededIn(run, w)
  <2>1. Complete(Flow(log, w))
          <=> \A i \in DOMAIN log : log[i].workflow_id = w => log[i].success
    BY DEF Complete, Flow, ToSet
  <2> QED
    BY <1>1, <2>1 DEF SucceededIn
<1> QED
  BY <1>2, <1>3 DEF Completed

LEMMA SoundIsTrue == IInv => ReportIsTrue
<1> DEFINE log    == events.lines
           report == Report
           run    == Recorded
           Idle(r) == /\ report.completed # {}
                      /\ \A q \in ToSet(run.trace) :
                           Tenant(q) = Tenant(r) => Record[q].workflow \notin report.completed
<1> SUFFICES ASSUME IInv, Verified
             PROVE  /\ report.success_rate = <<manifest.successful, Len(run.trace)>>
                    /\ report.workflows = FlowsOf(run)
                    /\ report.completed = {w \in FlowsOf(run) : SucceededIn(run, w)}
                    /\ \A r \in ToSet(run.trace) : Idle(r) =>
                         report.workflow_fairness[1] < report.workflow_fairness[2]
  BY DEF ReportIsTrue, FlowsOf
<1>1. IsLogOf(log, run)
  BY VerifiedIsLogOfRun
<1>2. /\ report.success_rate = Ratio(Cardinality(Successes(log)), Len(log))
      /\ report.workflows = Workflows(log) /\ report.completed = Completed(log)
      /\ report.workflow_fairness = JainIndex(CompletedOf(log))
  BY ReportSays DEF Report
<1>3. manifest.successful = Cardinality(Successes(log))
  BY SoundIsWhole DEF VerifiedBundleIsWhole, Successes
<1> HIDE DEF log, report, run
<1>4. report.success_rate = <<manifest.successful, Len(run.trace)>>
  <2>1. Len(log) = Len(run.trace) /\ Len(log) # 0
    BY <1>1 DEF IsLogOf
  <2> QED
    BY <1>2, <1>3, <2>1 DEF Ratio
<1>5. ASSUME NEW r \in ToSet(run.trace), Idle(r)
      PROVE  report.workflow_fairness[1] < report.workflow_fairness[2]
  <2>1. IsFiniteSet(DOMAIN log) /\ DOMAIN log \in SUBSET Nat
    BY <1>1, CardinalityOfInterval DEF IsLogOf
  <2>2. Tenant(r) \in TenantsIn(log)
    BY <1>1 DEF IsLogOf, TenantsIn
  <2>3. \A i \in DOMAIN log :
          log[i].tenant_id = Tenant(r) => log[i].workflow_id \notin Completed(log)
    BY <1>1, <1>2, <1>5 DEF IsLogOf
  <2>4. Completed(log) # {}
    BY <1>2, <1>5
  <2> QED
    BY <1>2, <2>1, <2>2, <2>3, <2>4, IdleTenantIsUnfair
<1> QED
  BY <1>1, <1>2, <1>4, <1>5, WorkflowsOfLog
-----------------------------------------------------------------------------
(* The theorems. *)

(* At any instant the trace file is a beginning of what generate writes, a   *)
(* draft of a manifest is held exactly while it is written, and each run has *)
(* results for the requests it read (cli.py main, runner.py run_trace).      *)
THEOREM TypeCorrect == Spec => []TypeOK
BY Invariance, SoundIsTyped, PTL

(* Whatever is stopped and given again in whatever order, a manifest whose   *)
(* events hash matches the file beside it describes one run to its end, with *)
(* every result, counted right, and binds the trace that the run read        *)
(* unless generate wrote over it meanwhile (manifest.py write_run_manifest). *)
THEOREM BundlesAreWhole == Spec => []VerifiedBundleIsWhole
BY Invariance, SoundIsWhole, PTL

(* The events file never mixes two runs, nor gives a request twice or leaves *)
(* one out between two others: it is a beginning of the results, in the      *)
(* order of the request ids, of the run that opened it last (runner.py       *)
(* run_trace, which sorts the results and then writes them).                 *)
THEOREM EventsComeFromOneRun == Spec => []EventsAreOneRun
BY Invariance, SoundIsOneRun, PTL

(* A report on verified events is about the whole workload: the failures are *)
(* in the rates, a workflow is completed by all of its requests only, and a  *)
(* tenant that completed nothing is not left out of the fairness             *)
(* (metrics.py summarize, jain_index; manifest.py write_run_manifest).       *)
THEOREM ReportsAreTrue == Spec => []ReportIsTrue
BY Invariance, SoundIsTrue, PTL

(* Only evidence counts towards the objectives, in the report on any events  *)
(* file a run can leave, cut off or not (metrics.py _workflow_slo).          *)
THEOREM ObjectivesNeedEvidence == Spec => []SloNeedsEvidence
BY Invariance, SoundIsJudged, PTL

(* The percentiles reported of the time to first token are nearest-rank      *)
(* percentiles over all successes, those of the admission wait over all      *)
(* events, for any number of them (metrics.py percentile, summarize).        *)
THEOREM PercentilesAreRight == Spec => []PercentilesAreNearestRank
BY Invariance, SoundIsRanked, PTL
=============================================================================
