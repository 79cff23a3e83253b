------------------------------ MODULE RunBundle ------------------------------
(***************************************************************************)
(* The files of the command line: generate writes the trace, run replays   *)
(* it and writes the events and then the manifest beside them, summarize   *)
(* reads the events.  A process may be stopped between any two writes and  *)
(* the commands are given again.                                           *)
(*                                                                         *)
(* A JSONL file is its whole lines and whether a torn one follows; its     *)
(* SHA-256 is its content.  A file is rewritten in place, so what a        *)
(* stopped process leaves is a prefix.  What has been written stays: the   *)
(* process stops, the machine does not.                                    *)
(*                                                                         *)
(* Definitions marked "slip" are plausible mistakes, used by no            *)
(* specification.                                                          *)
(***************************************************************************)
EXTENDS TraceDag, Metrics

CONSTANTS
  Lines,     (* the trace generate writes: the requests in its order       *)
  Answers,   (* Answers[r]: what a call for r may return                   *)
  TtftSlo, TpotSlo,
  MaxRuns    (* bound on the number of runs                                *)

(* The results of _call_endpoint: times are relative to the turn in which    *)
(* the request is queued.  A success has a first token, and a call that      *)
(* reported no usage has no counts (StreamReader).                           *)
ASSUME AnswerAssumption ==
  /\ \A r \in Requests : \A a \in Answers[r] :
       /\ a.success \in BOOLEAN /\ a.usage_reported \in BOOLEAN
       /\ a.success => a.first_token # None
       /\ a.first_token # None => a.wait <= a.first_token /\ a.first_token <= a.end
       /\ a.wait \in Nat /\ a.end \in Nat /\ a.wait <= a.end
       /\ a.first_token \in Nat \cup {None}
       /\ {a.prompt, a.output, a.cached} \subseteq Int \cup {None}
       /\ ~a.usage_reported => a.prompt = None /\ a.output = None /\ a.cached = None
  /\ Requests \subseteq Nat
  /\ Lines \in Seq(Requests) /\ ToSet(Lines) = Requests /\ IsInjective(Lines)
  /\ \A i \in DOMAIN Lines : Deps(Lines[i]) \subseteq ToSet(SubSeq(Lines, 1, i - 1))
  /\ None \notin Int

ASSUME BoundAssumption == MaxRuns \in Nat

VARIABLES
  trace, events,   (* the files, [lines, torn]                             *)
  manifest,        (* the file: whole is FALSE when it is absent or torn   *)
  pc,              (* where the run command is                             *)
  draft,           (* the manifest it has built                            *)
  writer,          (* history: the run that opened the events file last    *)
  runs             (* history: for each run_id, the trace that was read,   *)
                   (* the results in memory, whether the trace was written *)
                   (* again before it was hashed, whether the run was      *)
                   (* stopped                                              *)

vars == <<trace, events, manifest, pc, draft, writer, runs>>

run_id  == Len(runs)
Run     == runs[run_id]
Places  == {"idle", "replayed", "writing", "closed", "sealing"}
Missing == [whole |-> FALSE]
-----------------------------------------------------------------------------
(* One result; called says that it names an endpoint. *)

Ready(r, end) == Max({Record[r].arrival} \cup {end[d] : d \in Deps(r)})

(* What it reports of the answer a; times are relative to at. *)
Event(r, id, at, a, called) ==
  [run_id |-> id, request_id |-> r, workflow_id |-> Record[r].workflow,
   tenant_id |-> Tenant(r), arrival_s |-> Record[r].arrival,
   start_s |-> at + a.wait, end_s |-> at + a.end,
   first_token_s |-> IF a.first_token = None THEN None ELSE at + a.first_token,
   deadline_ms |-> Record[r].deadline, ttft_slo_ms |-> TtftSlo, tpot_slo_ms |-> TpotSlo,
   prompt_tokens |-> a.prompt, output_tokens |-> a.output, cache_hit_tokens |-> a.cached,
   usage_reported |-> a.usage_reported, admission_wait_ms |-> a.wait,
   speculative_proposed |-> None, speculative_accepted |-> None, fault_recovery_ms |-> None,
   cross_tenant_cache_hits |-> None, security_violations |-> None,
   called |-> called, success |-> a.success]

CallResult(r, id, at, a) == Event(r, id, at, a, TRUE)

(* dependency_failed: no endpoint, and zeros for what was never observed *)
NoAnswer ==
  [success |-> FALSE, wait |-> 0, end |-> 0, first_token |-> None,
   prompt |-> 0, output |-> 0, cached |-> 0, usage_reported |-> FALSE]

FailedResult(r, id, at) == Event(r, id, at, NoAnswer, FALSE)

(* What the replay of the requests gives when their calls answer as said.    *)
Results(requests, id, answer) ==
  LET result[r \in requests] ==
        LET at == Ready(r, [d \in Deps(r) |-> result[d].end_s])
        IN  IF \A d \in Deps(r) : result[d].success
            THEN CallResult(r, id, at, answer[r])
            ELSE FailedResult(r, id, at)
  IN  result
-----------------------------------------------------------------------------
File(lines, torn) == [lines |-> lines, torn |-> torn]

(* read_trace: every line is JSON, and validate_trace accepts the records.   *)
Readable == ~trace.torn /\ trace.lines # <<>>

(* Slip: the trace is written in the order of the request ids. *)
GenerateInIdOrder ==
  /\ \E k \in 0 .. Len(Lines) : trace' = File(SubSeq(SortSeq(Lines, <), 1, k), FALSE)
  /\ UNCHANGED <<events, manifest, pc, draft, writer, runs>>

(* generate, which may be stopped anywhere in the file. *)
Generate ==
  /\ \E k \in 0 .. Len(Lines), torn \in BOOLEAN :
       /\ torn => k < Len(Lines)
       /\ trace' = File(SubSeq(Lines, 1, k), torn)
  /\ runs' = IF pc \in {"replayed", "writing", "closed"}
             THEN [runs EXCEPT ![run_id].rewritten = TRUE] ELSE runs
  /\ UNCHANGED <<events, manifest, pc, draft, writer>>

(* run_trace up to gather's results; a run that raises before has no effect. *)
Replay ==
  /\ pc = "idle" /\ run_id < MaxRuns
  /\ Readable
  /\ \E answer \in [ToSet(trace.lines) -> UNION Range(Answers)] :
       /\ \A r \in DOMAIN answer : answer[r] \in Answers[r]
       /\ runs' = Append(runs,
            [trace |-> trace.lines,
             results |-> Results(DOMAIN answer, run_id + 1, answer),
             rewritten |-> FALSE, stopped |-> FALSE])
  /\ pc' = "replayed"
  /\ UNCHANGED <<trace, events, manifest, draft, writer>>

(* Slip: the file is opened to append. *)
OpenToAppend ==
  /\ pc = "replayed"
  /\ events' = File(events.lines, FALSE)
  /\ writer' = run_id
  /\ pc' = "writing"
  /\ UNCHANGED <<trace, manifest, draft, runs>>

OpenEvents ==
  /\ pc = "replayed"
  /\ events' = File(<<>>, FALSE)
  /\ writer' = run_id
  /\ pc' = "writing"
  /\ UNCHANGED <<trace, manifest, draft, runs>>

(* The id that i - 1 others precede. *)
Nth(ids, i) == CHOOSE r \in ids : Cardinality({q \in ids : q < r}) = i - 1

(* results.sort(key=request_id) *)
Sorted(results) ==
  [i \in 1 .. Cardinality(DOMAIN results) |-> results[Nth(DOMAIN results, i)]]

WriteEvent ==
  /\ pc = "writing" /\ Len(events.lines) < Len(Run.trace)
  /\ events' = File(Append(events.lines, Sorted(Run.results)[Len(events.lines) + 1]), FALSE)
  /\ UNCHANGED <<trace, manifest, pc, draft, writer, runs>>

CloseEvents ==
  /\ pc = "writing" /\ Len(events.lines) = Len(Run.trace)
  /\ pc' = "closed"
  /\ UNCHANGED <<trace, events, manifest, draft, writer, runs>>

(* The dictionary of write_run_manifest: hashes of the files as they are     *)
(* now, counts of the results in memory.                                     *)
Manifest ==
  [whole |-> TRUE, run_id |-> run_id,
   trace_sha256 |-> trace, events_sha256 |-> events,
   requests |-> Cardinality(DOMAIN Run.results),
   successful |-> Cardinality({r \in DOMAIN Run.results : Run.results[r].success}),
   usage_reported |-> Cardinality({r \in DOMAIN Run.results : Run.results[r].usage_reported}),
   cache_reported |->
     Cardinality({r \in DOMAIN Run.results : Run.results[r].cache_hit_tokens # None}),
   security_reported |->
     Cardinality({r \in DOMAIN Run.results : Run.results[r].security_violations # None})]

(* Slip: the manifest is built while the events are still being written. *)
BuildEarly ==
  /\ pc \in {"writing", "closed"}
  /\ draft' = Manifest
  /\ pc' = "sealing"
  /\ UNCHANGED <<trace, events, manifest, writer, runs>>

(* Slip: a run with a failure is not worth a manifest. *)
BuildOfSuccesses ==
  /\ pc = "closed"
  /\ \A r \in DOMAIN Run.results : Run.results[r].success
  /\ draft' = Manifest
  /\ pc' = "sealing"
  /\ UNCHANGED <<trace, events, manifest, writer, runs>>

BuildManifest ==
  /\ pc = "closed"
  /\ \A r \in DOMAIN Run.results : Run.results[r].run_id = run_id
  /\ draft' = Manifest
  /\ pc' = "sealing"
  /\ UNCHANGED <<trace, events, manifest, writer, runs>>

(* write_text *)
WriteManifest ==
  /\ pc = "sealing"
  /\ manifest' = draft /\ draft' = Missing
  /\ pc' = "idle"
  /\ UNCHANGED <<trace, events, writer, runs>>

(* The process is stopped: what it held is lost, the line or the manifest it *)
(* was writing may be torn.                                                  *)
Stop ==
  /\ pc # "idle"
  /\ \E torn \in BOOLEAN :
       /\ torn => pc = "writing" /\ Len(events.lines) < Len(Run.trace)
       /\ events' = File(events.lines, torn \/ events.torn)
  /\ manifest' \in IF pc = "sealing" THEN {manifest, Missing} ELSE {manifest}
  /\ runs' = [runs EXCEPT ![run_id].stopped = TRUE]
  /\ pc' = "idle" /\ draft' = Missing
  /\ UNCHANGED <<trace, writer>>

Init ==
  /\ trace = File(<<>>, FALSE) /\ events = File(<<>>, FALSE)
  /\ manifest = Missing /\ draft = Missing
  /\ pc = "idle" /\ writer = 0 /\ runs = <<>>

RunStep == OpenEvents \/ WriteEvent \/ CloseEvents \/ BuildManifest \/ WriteManifest

Next == Generate \/ Replay \/ RunStep \/ Stop

Spec == Init /\ [][Next]_vars

(* A process that is not stopped goes on; no command is owed. *)
FairSpec == Spec /\ WF_vars(RunStep)
-----------------------------------------------------------------------------
(* Properties. *)

TypeOK ==
  /\ trace.torn \in BOOLEAN /\ events.torn \in BOOLEAN
  /\ trace.lines = SubSeq(Lines, 1, Len(trace.lines))
  /\ pc \in Places
  /\ run_id <= MaxRuns /\ writer \in 0 .. run_id
  /\ pc # "idle" => run_id > 0
  /\ draft.whole <=> pc = "sealing"
  /\ \A id \in 1 .. run_id : DOMAIN runs[id].results = ToSet(runs[id].trace)

(* The gate of docs/BENCHMARK_SPEC.md:133-134, "Trace and event hashes must  *)
(* match the manifest", for the events. *)
Verified == manifest.whole /\ manifest.events_sha256 = events

Recorded == runs[manifest.run_id]

(* Whatever was stopped in whatever order, a manifest that matches the       *)
(* events beside it describes one run to its end: its results for all        *)
(* requests of the trace it read, under its run_id, counted right; and it    *)
(* binds that trace, unless generate wrote over it while the run lasted.     *)
VerifiedBundleIsWhole ==
  Verified =>
    /\ ~events.torn
    /\ ToSet(events.lines) = Range(Recorded.results)
    /\ \A e \in ToSet(events.lines) : e.run_id = manifest.run_id
    /\ manifest.requests = Len(events.lines)
    /\ manifest.successful =
         Cardinality({i \in DOMAIN events.lines : events.lines[i].success})
    /\ manifest.usage_reported =
         Cardinality({i \in DOMAIN events.lines : events.lines[i].usage_reported})
    /\ ~Recorded.rewritten => manifest.trace_sha256 = File(Recorded.trace, FALSE)

(* At any instant the events file holds a beginning of the sorted results of *)
(* the run that opened it last: each line is the result, in that run, of the *)
(* request it names, and the lines above it are those of exactly the         *)
(* requests with a smaller id.                                               *)
EventsAreOneRun ==
  IF writer = 0 THEN events.lines = <<>>
  ELSE \A i \in DOMAIN events.lines :
    LET run   == runs[writer]
        e     == events.lines[i]
        above == {events.lines[j].request_id : j \in 1 .. i - 1}
    IN  /\ e.run_id = writer
        /\ e.request_id \in DOMAIN run.results /\ e = run.results[e.request_id]
        /\ above = {r \in ToSet(run.trace) : r < e.request_id}

Report == Summary(events.lines)

SucceededIn(run, w) ==
  \A r \in ToSet(run.trace) : Record[r].workflow = w => run.results[r].success

(* A report on verified events is about the whole workload: failures stay in *)
(* every denominator (docs/BENCHMARK_SPEC.md:134), a workflow counts as      *)
(* completed only if each request the trace gives it succeeded, and a tenant *)
(* that completed nothing still lowers the fairness.                         *)
ReportIsTrue ==
  Verified =>
    LET report == Report
        run   == Recorded
        flows == {Record[r].workflow : r \in ToSet(run.trace)}
    IN  /\ report.success_rate = <<manifest.successful, Len(run.trace)>>
        /\ report.workflows = flows
        /\ report.completed = {w \in flows : SucceededIn(run, w)}
        /\ \A r \in ToSet(run.trace) :
             /\ report.completed # {}
             /\ \A q \in ToSet(run.trace) :
                  Tenant(q) = Tenant(r) => Record[q].workflow \notin report.completed
             => report.workflow_fairness[1] < report.workflow_fairness[2]

(* Only evidence counts towards the objectives, whatever events there are: a *)
(* workflow meets them only if every event of it succeeded, was measured and *)
(* kept within each limit; a failed workflow is a known failure and never    *)
(* unevaluable; totals are given only when every success reported its usage  *)
(* (docs/BENCHMARK_SPEC.md:99-107).                                          *)
SloNeedsEvidence ==
  ~events.torn => LET report == Report IN
    /\ report.slo_satisfied \subseteq report.slo_evaluable \cap report.completed
    /\ report.workflows \ report.completed \subseteq report.slo_evaluable
    /\ \A e \in ToSet(events.lines) : e.workflow_id \in report.slo_satisfied =>
         /\ e.success /\ e.output_tokens # None
         /\ e.end_s - e.arrival_s <= e.deadline_ms
         /\ e.first_token_s - e.start_s <= TtftSlo
         /\ e.end_s - e.first_token_s <= TpotSlo * (e.output_tokens - 1) \/ e.output_tokens <= 1
    /\ report.output_tokens # None =>
         \A e \in ToSet(events.lines) : e.success => e.usage_reported

(* v is the least value that h hundredths of the values do not exceed. *)
IsNearestRank(values, h, v) ==
  LET Count(places) == 100 * Cardinality(places)
      n == Cardinality(DOMAIN values)
  IN  /\ v \in Range(values)
      /\ Count({i \in DOMAIN values : values[i] <= v}) >= h * n
      /\ Count({i \in DOMAIN values : values[i] < v}) < h * n

(* The latencies reported are nearest-rank percentiles of the right          *)
(* population: time to first token over the successes, admission wait over   *)
(* all events, the zeros of those that never queued included.                *)
PercentilesAreNearestRank ==
  ~events.torn =>
  LET e         == events.lines
      successes == {i \in DOMAIN e : e[i].success}
      ttft      == [i \in successes |-> e[i].first_token_s - e[i].start_s]
      wait      == [i \in DOMAIN e |-> e[i].admission_wait_ms]
      report    == Report
  IN  /\ successes # {} => \A p \in {50, 95, 99} : IsNearestRank(ttft, p, report.ttft[p])
      /\ e # <<>> => \A p \in {50, 95} : IsNearestRank(wait, p, report.admission_wait[p])

(* A run that is not stopped ends with a manifest that its events match.     *)
RunsEndVerified ==
  pc # "idle" ~>
    (pc = "idle" /\ run_id > 0 /\ (Run.stopped \/ (Verified /\ manifest.run_id = run_id)))

(* "Unknown is not reported as zero" (README.md:108): the manifest counts a  *)
(* cache observation only where an endpoint was called and reported one.     *)
UnknownIsNotZero ==
  manifest.whole =>
    manifest.cache_reported
      = Cardinality({r \in DOMAIN Recorded.results :
          Recorded.results[r].called /\ Recorded.results[r].cache_hit_tokens # None})
=============================================================================
