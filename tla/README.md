# A verification project for aegisbench

aegisbench generates traces of multi-agent workflows, replays them against
OpenAI-compatible endpoints under an admission policy, and summarises the event
log. This directory models the part of it in which things happen at the same
time - the replay, its admission scheduler and the stream of each call -, the
traces it runs on, the files its commands leave, and the report on them. It
checks them with TLC on small instances and proves the main results with TLAPS
for all instances.

## 1. The system

| component | source | state | operations | models |
|---|---|---|---|---|
| admission scheduler | `src/aegisbench/scheduler.py` | condition variable, `_waiting`, `_active`, per-endpoint and per-tenant counters, `_resident_prefixes` | `acquire`, `release`, `best_decision` | `AdmissionScheduler`, `BoundedAdmission` |
| dependency-aware replay | `src/aegisbench/runner.py` | one coroutine per request, `outcomes`, `done` events, the gathered results | `run_trace`, `_execute_record` | `Replay`, `WorkflowOutcome` |
| stream reader | `_call_endpoint` in `runner.py` | counters and times of one call | one loop over server-sent events | `StreamReader`, `EndpointCall` |
| trace validation | `validate_trace` in `trace.py` | none | accepts or rejects a list of records | `TraceValidation`; `TraceDag` states what it accepts |
| trace generation | `generate_trace` in `trace.py` | a random generator | builds the graph of each workflow | `TraceGeneration` |
| metrics | `metrics.py` | none | aggregates a finished log | `Metrics`, evaluated in `RunBundle` |
| run manifest, command line | `manifest.py`, `cli.py` | files on disk: trace, events, manifest | `generate`, `run` (events file, then manifest), `summarize` | `RunBundle` |
| configuration | `config.py` | none | validates YAML | `Configuration`, loaded in `TraceGeneration` |
| timing audit | `security.py` | none | a rank statistic | not modelled: pure |
| white paper builder | `scripts/build_whitepaper.py` | none | Markdown to PDF | not modelled: not part of the benchmark |

How they interact. `run_trace` reads and validates a trace, builds one
`AdmissionScheduler`, creates one coroutine per record and gathers them. A
coroutine sleeps until `arrival_s / time_scale`, waits for the events of its
dependencies, reads their outcomes, and either reports `dependency_failed` or
asks the scheduler for a slot (`acquire`), calls the endpoint it was given,
returns the slot (`release`), records its outcome and sets its event. When all
have returned, `run_trace` sorts and writes the results; the command line then
writes the manifest.

What is hard here:

- **Turns.** Everything runs on one event loop, so a turn is atomic, but the
  order of turns is not the program's to choose: `notify_all` wakes every waiter
  and each looks at the queue when its turn comes, perhaps after others have
  changed it.
- **The clock.** The Workflow-Cache-Fair score contains the age of a request.
  Every waiter reads its own time, so two waiters of one wake-up may see two
  rankings.
- **Exceptions and cancellation.** An exception in one coroutine leaves the
  others running while the client closes, then they are cancelled wherever they
  are: asleep, joining, queued, notified but not yet resumed, or in a call.
- **Files.** Every command rewrites its file in place, the events before the
  manifest that hashes them, so a process that is stopped leaves prefixes, torn
  lines, and the manifest of an earlier run beside newer events.
- **Accounting.** Slots, attempts, failures, tenant service and resident
  prefixes are updated on some of these paths and must agree on all of them.

What makes each component correct:

- scheduler: at most `client_max_concurrency` calls, exact counters, no ghost in
  the queue, no lost wake-up, every waiter selected in the end, predictor state
  justified by history, locality that passes between security domains only where
  the joined key cannot tell them apart, one best decision;
- replay: no request before its dependencies succeeded, failures reach all
  dependents and nobody else, one result per request that agrees with what the
  scheduler saw, an end, and a clean one;
- stream reader: success only with a token, a failure always with its error,
  never an invented usage number;
- trace: the depth-first search accepts exactly the acyclic graphs, generated
  traces validate;
- metrics: nearest-rank percentiles, unknown never counted as zero;
- manifest: one that matches the events beside it describes one whole run,
  whatever was stopped before;
- configuration: what is accepted satisfies what the other components assume.

## 2. Modules

- **`TraceDag`** - constants `Requests` and `Record` with `TraceAssumption`, what
  `validate_trace` accepts; children, cost and remaining work as the scheduler's
  constructor computes them. `RemainingWork` is a recursive function (no
  RECURSIVE operator), so the modules above can be proved about.
- **`AdmissionScheduler`** - extends `TraceDag`. One action per turn of a
  coroutine: `Acquire` (enter, notify, look once), `Wake` (look again),
  `Withdraw` (cancelled while waiting, notified or not), `Release` (succeeded or
  not), and `Tick` for the monotonic clock. `loc` says where each coroutine is;
  the other variables are the attributes of the class. Acquire and Wake share
  `TryAdmit`, one pass of the `while` loop: admitted with the queue's best
  decision, or parked.
- **`BoundedAdmission`** - what the scheduler promises: callers ask, wait, hold
  one of `Capacity` slots, leave once. Under strong fairness of entering.
- **`Replay`** - extends `AdmissionScheduler`; its actions conjoin the scheduler's
  with the coroutine's own state (`stage`, `outcomes`, `done`, `result`) and the
  main coroutine's `phase`. `Return` is release, outcome, event and result in the
  one turn in which the code does them. `Raise` is the `except BaseException`
  path, `CloseClient`, `Interrupt`, `Cancel` and `Abort` what follows an
  exception or SIGINT.
- **`WorkflowOutcome`** - what a replay promises about a dependency graph:
  verdicts and calls in flight, nothing else.
- **`StreamReader`** - `_call_endpoint`. A step is what happens between two
  awaits: `Send` (or `RefuseWithoutSecret`, the exception of `_cache_salt`),
  `Respond` or `RefuseStatus`, `ReadLine`, `EndOfStream`. An exception is "http"
  (a timeout or `httpx.HTTPError`, which the code catches) or "other"
  (cancellation included). `FailToConnect` has no response to close; `Break` and a
  malformed line leave the body of the `async with`, and `raising` holds what
  left it while the response is closed. `Close` goes on with that, `FailToClose`
  with the exception of the close instead, and both end in `Conclude`: the call
  raises, or returns after its test for an empty stream. The `try` covers the
  close, and `success` is set before it, so a close that fails leaves an error on
  a success. `transcript` is a history variable: the lines read, with their
  times; the properties compare the loop's variables with it.
- **`EndpointCall`** - what `Replay` relies on in a call: sent at most once,
  successful only after a token, ended. Its `End` is `Return` or `Raise` of
  `Replay`, its `flying` the state between `Enqueue`'s admission and these.
- **`TraceValidation`** - `validate_trace`: one action per iteration of each loop
  and per call and return of `visit`, whose frames are `stack` and `cursor`. The
  module INSTANCEs `TraceDag` on the trace it was given, so `VerdictIsRight` says
  that the validator decides exactly the assumption of the other modules.
- **`Configuration`** - `BenchmarkConfig.from_mapping` as two operators: `Accepts`,
  the conjunction of its checks, and `Parsed`, what the generator and the
  scheduler get, with defaults filled in and endpoints stripped.
- **`TraceGeneration`** - extends `TraceValidation` with the generate command: it
  loads a configuration (`LoadConfig`, `RefuseConfig`), `generate_trace` appends
  workflows, then the trace is written, read and validated.
- **`Metrics`** - `summarize` as a function of the log: percentiles, workflow
  objectives, coverage, fairness. A list of events the code filters is the set of
  their places in the log, and sorting is any enumeration of the places in the
  order of their values, so nothing depends on how Python breaks ties.
- **`RunBundle`** - extends `TraceDag` and `Metrics`. The variables are the three
  files, where the run command is (`pc`), the manifest it has built, and two
  histories: `runs`, what each run really observed, and `writer`, the run that
  opened the events file last. `Replay` is `run_trace` up to
  `gather`: which results are possible (`Results`) is what `Replay.FailurePropagates`
  and `StreamReader.ResultIsJustified` establish. `OpenEvents`, `WriteEvent`,
  `CloseEvents`, `BuildManifest` and `WriteManifest` follow in the code's order,
  `Stop` may come between any two, `Generate` at any time. The report is
  `Summary(events.lines)`, so every property of it is checked on every log that
  can be on disk, truncated ones included.
- **`MCScheduler`, `MCReplay`, `MCStreamReader`, `MCTraceValidation`,
  `MCTraceGeneration`, `MCRunBundle`** - instances for TLC.
- **`AdmissionSchedulerProofs`, `ReplayProofs`, `StreamReaderProofs`,
  `TraceValidationProofs`, `TraceGenerationProofs`, `MetricsProofs`,
  `RunBundleProofs`** - theorems and proofs about the module each is named after.
- **`FiniteData`** - lemmas they share: whole division, least numbers, maxima of
  finite sets, the n-th of a finite set of numbers, sums over finite sets,
  sequences given by their length and elements.

Definitions commented "Slip" are plausible wrong forms of the definition that
follows them. They are in no specification; `PROJECT.json` ("mutants") pairs each
with a property that fails when it takes the definition's place.

### Abstractions

- Times are ticks; `MaxTime` bounds the clock and nothing else. Scores are in
  fixed point: a ratio in [0, 1] is a whole number of `Scale`-ths (rounded down,
  the code uses floats), weights are hundredths. Orders that differ only in
  float rounding are not told apart.
- A name made of parts is the sequence of its ":"-free parts, so the key
  `f"{domain}:{prefix_group}"` is a concatenation and its ambiguity is kept:
  domain `a:b` with prefix `c` has the key of domain `a` with prefix `b:c`.
- `sha256` of a tenant is a constant `TenantHash`.
- The endpoint call is the interval between two turns. Its result is success,
  failure (`httpx.HTTPError`, timeout, empty stream) or an exception.
- The scheduler alone is checked with callers that arrive in any order and may
  be cancelled at any time; in `Replay` the callers are the coroutines.
- A line of a stream is its kind, whether it has text, and the usage it reports.
  Everything on which the loop's body raises (JSON that is no object, a count
  `int()` refuses) is one kind, "malformed", with the text and usage that were
  noted before; what is not JSON is skipped.
- A cancellation that reaches a call whose response then fails to close is an
  ordinary failure in `StreamReader`, as in the code; in `Replay` whoever is
  cancelled ends as cancelled.
- A field of a trace record with the wrong type, empty or not finite is `Bad`.
  The name of a generated request is the pair of its workflow's and its own
  index. Random draws are free choices within the configured ranges.
- A configuration value of the wrong type is `Bad`, a missing key `Absent`;
  ratios and weights are hundredths; a URL is the outcome of each check on it.
- A JSONL file is its whole lines and whether a torn one follows; a SHA-256 is the
  content it was taken of. A process may be stopped, the machine may not: what
  was written stays, although the code never calls `fsync`. One run command at a
  time writes to the directory.
- In `Metrics` times are whole milliseconds, quotients of them are rounded down
  and ratios are pairs, so no property depends on float rounding. For the three
  fractions in use and n up to 200000, the float `ceil(fraction * n)` of the code
  is the exact one.
- asyncio resumes ready coroutines first in, first out. The models allow every
  order, because arrivals, network answers and sleeps that fall due put them
  into that queue in any order.

## 3. Runs

| run | instance | what it shows |
|---|---|---|
| `scheduler_baseline` | round robin, 4 requests, 2 slots, 2 endpoints, fairness | `TypeOK`, `QueueMatchesCallers`, `SlotAccounting`, `NoLostWakeup`; every waiter leaves the queue (`AdmissionProgress`); the monitor implements `BoundedAdmission` with its fairness |
| `scheduler_wcf` | Workflow-Cache-Fair, the same requests, clock 0..2 | `PredictorMatchesHistory`, `ServiceMatchesAdmissions`, `DecisionIsUnique`, and how far locality passes between domains, two colliding keys included (`LocalityStaysInNestedDomains`) |
| `scheduler_no_age` | the same with criticality weight 0, clock 0..2, fairness | `NoLostWakeup` and `AdmissionProgress` hold when the ranking does not read the clock; with the default weights (the mutant of both) they fail on this instance |
| `replay` | diamond of 4 requests and a fifth of another tenant, tenant affinity, 2 slots, clock 0..1 | dependency order, agreement of outcomes, exact failure propagation, clean shutdown, exact ledger, termination, refinement of `WorkflowOutcome` with fairness |
| `replay_stall` | Workflow-Cache-Fair, 3 independent requests, 1 slot, clock 0..1 | violation: the replay stalls |
| `replay_work_conserving` | round robin, 4 independent requests, 2 slots | violation: a free slot beside a parked queue |
| `replay_time_scale` | Workflow-Cache-Fair, diamond, time_scale 2 | violation: urgency counted from the unscaled arrival |
| `stream_reader` | streams of up to 3 lines of 10 kinds, clock 0..2, fairness | the loop keeps what a reader of the whole stream would find (`AgreesWithTranscript`), results are justified, the call implements `EndpointCall` with its fairness |
| `trace_validation` | 8245 traces: all graphs on 3 requests with self and unknown dependencies, all loop-free graphs on 4, each field out of place | the verdict is right both ways, the search is sound at every step, and it ends |
| `trace_generation` | sequential 2, 3, 5 agents, fan-out 3 to 5, debate 2 or 3 agents and 1 to 3 rounds, 2 workflows, 2 tenants; and 99 mappings with a key removed, mistyped or moved across its bound | accepted configurations give the other components what they assume, generated traces are never refused, each workflow has one sink, what `visit` calls returns at once |
| `run_bundle` | 3 requests, two workflows of two tenants, trace order unlike id order, 2 runs, stopped anywhere, fairness | a manifest that matches its events describes one whole run (`VerifiedBundleIsWhole`), the events file is a beginning of the results of the run that opened it last (`EventsAreOneRun`), the report on verified events is true, objectives need evidence, percentiles are nearest-rank, a run that is not stopped ends verified |
| `run_bundle_unknown` | the same requests, 1 run | violation: unknown cache counts are reported as observed zeros |

Why the bounds are enough. Two slots and four requests give two holders and two
waiters, the least in which two releases can precede a wake-up; two endpoints
and two tenants give a wrong endpoint, a wrong tenant, a prefix shared by two
domains, and two requests with one key but different domains and prefixes; a clock of 0..2 lets urgency pass from 0 to its cap of 2 (deadline 1).
A diamond has a join of two and a failure that reaches two generations. Three
lines let a counter be reported, left out and reported again, with text before,
between and after; the proof covers longer streams. Four requests have cycles of
every length up to four, and cycles reached through finished requests. Two runs
are the least in which a manifest can be stale; three requests give a dependent
that is skipped, a workflow cut in two by a truncated log, and a second tenant.

Fairness. `Wake`: the event loop runs every coroutine that is ready. `Release`:
every call ends, since it is answered or `httpx.Timeout` expires (an endpoint
that trickles chunks for ever would break this, see the hazards). `Clock`: time
passes. No fairness on interrupts or cancellations. In `Replay`, each
coroutine's turn is fair as a whole. In `StreamReader`, the coroutine is resumed:
what it awaits answers or times out. That the call ends then needs `MaxLines`, an
endpoint that stops sending: `httpx.Timeout` bounds one read, not the call.
`TraceValidation` is sequential and only has to keep running. In `RunBundle` a run
that is not stopped takes its next step; no command is owed, and no stop.

### What the violations say

- **`WorkConserving`.** `docs/ARCHITECTURE.md:38` calls the scheduler
  work-conserving. Two calls end before the woken waiters run. The lower-ranked
  waiter runs first, sees it is not the best, and waits again. The best one is
  admitted and notifies nobody. One slot stays free while a request sleeps,
  until another coroutine enters or leaves.
- **`AdmissionProgress`.** The same with a single slot and a moving clock: p runs
  first and elects q, the clock moves, urgency turns the ranking round, q runs
  and elects p. Both sleep, no slot is held, nobody will notify: the replay never
  ends. `scheduler_no_age`, `BaselineLosesNoWakeup` and `AgelessLosesNoWakeup` show
  that the clock in the ranking is the cause.
- **`UrgencyStartsAtArrival`.** The runner divides `arrival_s` by `time_scale`, the
  scheduler does not, so with `time_scale` other than 1 urgency counts from
  another instant than the arrival the results report.
- **`UnknownIsNotZero`.** `README.md:108` and `docs/REPRODUCIBILITY.md:81` promise
  that unknown is not reported as zero. A request skipped because a dependency
  failed is written with zero tokens, zero cached tokens and a zero admission
  wait; the manifest counts it under `cache_reported`, and its wait enters the
  admission percentiles. Token totals are not affected: they use successes only.

`LocalityStaysInNestedDomains` is not isolation. `_cache_key` joins the domain and
the prefix with ":", and `validate_trace` accepts both with ":" in them, so a
request of domain `a:b` with prefix `c` is credited with what one of domain `a`
with prefix `b:c` left resident (requests c and d of `MCScheduler`). This is less
than `docs/WHITEPAPER.md:212` says ("never across security domains"), and
`docs/THREAT_MODEL.md:24` lists cache-key collision among its risks; what is
shared here is the predictor's estimate, not the cache. The property says that
this is all: a domain that neither begins nor continues another shares nothing
with it. Domains made by `generate_trace` are tenant ids of one form, without ":".

`VerifiedBundleIsWhole` holds with one reservation that the model makes explicit:
the manifest hashes the trace as it is after the run, so a `generate` during the
run is bound instead of the trace that was replayed, and nobody can tell. A trace
that was cut short validates, and its bundle verifies: no file says how many
requests there should have been.

## 4. Proofs

The assumptions are those on the constants. For the scheduler and the replay
(`TraceAssumption`, `SchedulerAssumption`, ...): a finite, validated trace; at
least one endpoint, no two equal; a positive capacity and scale; weights that are
naturals, overrides included (`WeightsAssumption`); known policy names; names
that are sequences of parts (`NamesAssumption`), of which nothing else is said. For
validation (`TracesAssumption`): a trace is a sequence, each field has the shape
of its type or is `Bad` - nothing is assumed about what the records say. For
generation (`GapsAssumption`, `MappingsAssumption`): gaps are not negative, a list
of endpoints is a list, `Bad` is no name. For the bundle (`AnswerAssumption`,
`BoundAssumption`): what `StreamReader` proves of a call (a success has a first
token, counts come with a reported usage, times are in order), and a trace
without duplicates in which a request follows its dependencies.

`AdmissionSchedulerProofs`. The type invariant alone is not inductive: that
`_active` stays within 0 and the capacity needs that it counts the holders of
slots. `IInv` joins `TypeOK`, `QueueMatchesCallers` and `SlotAccounting`. The
proof first reduces every turn to a *shape* (`Admits`, `Parks`, a withdrawal, a
release: one coroutine moves, others are at most notified), then preserves each
conjunct per shape; cardinalities change by one element. On `IInv` rest:

- `TypeCorrect`, `QueueCorrect`, `SlotsCorrect`;
- `PredictorCorrect` - the predictor is a function of the calls that ended;
- `LocalityIsNested` - for all names, with ":" or not: of two equal sequences the
  beginnings are nested, and equal beginnings leave equal rests;
- `BaselineLosesNoWakeup` - for the policies that ignore the clock. Its lemma
  `TurnsWakeTheBest` holds for **every** policy: no turn of a coroutine loses a
  wake-up, so under Workflow-Cache-Fair only the passage of time can;
- `AgelessLosesNoWakeup` - for Workflow-Cache-Fair too when criticality has no
  weight, whatever the clock does: a score then does not change with time;
- `RefinesBoundedAdmission` - every turn is a step of `BoundedAdmission` or none.

`ReplayProofs`. `ReplayDrivesScheduler` shows that a replay is a behaviour of the
scheduler's specification, so all of the above holds in it. `RInv` adds where a
coroutine is while its request is somewhere in the scheduler, and that whoever
has joined has joined for good (`Deps(r) \subseteq done`): the latter makes
`FailurePropagates` inductive, because an outcome recorded later cannot concern
it. From `RInv`: `DependenciesFirst`, `OutcomesConsistent`, `FailuresPropagate`,
`ShutdownClean`, and `RefinesWorkflowOutcome`.

`StreamReaderProofs`. `IInv` joins `TypeOK`, `AgreesWithTranscript` and `Progress`
(what is known of success, error, `raising` and the times at each place: while
the response is closed, success holds exactly when nothing is being raised, which
is why an error on a returned success can only come from the close). Only `ReadLine`
changes the transcript; `AppendedChunks` says which positions a line adds to the
sets the properties speak of, and the agreement is preserved line kind by line
kind. The bounds `MaxLines` and `MaxTime` are any naturals, `Lines` any set of
lines. From `IInv`: `ReadsWhatWasSent`, `ResultsJustified`, `RefinesEndpointCall`.

`TraceValidationProofs`. `IInv` says what each loop has established when it has
reached `index` (`Loops`), and for the third loop `Search`: the ids in progress
are the pending calls, each frame below has gone through its dependencies up to
`cursor` and the last of these is the frame above, finished ids have only
finished dependencies, and *no set of finished ids has a cycle*
(`FinishedHasNoCycle`: in each there is one whose dependencies lie outside). The
last is what makes the verdict provable: an id that finishes comes after all its
dependencies, so it can close no cycle, and when all have finished the whole
trace has none; a dependency found in progress closes one along the stack, which
is a set no member of which has its dependencies outside. From `IInv`:
`SearchSound`,
`VerdictsAreRight`, in both directions and for every trace.

`TraceGenerationProofs`. `GenIInv` says that a loaded configuration is usable
and the trace is that many workflows of it, each record with the parents its
topology gives it (`Generated`), and once validation runs, `IInv` of
`TraceValidationProofs`, that it has not rejected, and that every earlier id is
finished when `visit` is called (`Shallow`). `ConfigsAreUsable` goes check by
check through `Accepts`. `GeneratedTracesAreValid`: each check of `validate_trace`
passes on each record built, for every size, so none of its `raise` is reached.
`SearchIsShallow`: a parent has a smaller index, so it is finished when asked for.
`WorkflowsJoined`: the last request is the only sink, the first the only source,
by topology, with whole division for the rounds of a debate.

`RunBundleProofs`. Its `IInv` ties each file to the history of runs: the events
are a beginning of the results, in order, of the run in `writer`, which is the
latest while they are being written; a manifest, in memory or on disk, describes the run whose id it
carries; until generate writes again, the trace on disk is the one that was
read. `VerifiedBundleIsWhole` is not inductive without the last three: a
manifest is true of its run whatever the events file becomes, and its hash is
what ties them. The results of a replay are a recursive function, which exists
because a request follows its dependencies in the trace. From `IInv`:
`TypeCorrect`, `BundlesAreWhole`, and `EventsComeFromOneRun`, for which the ids in
the lines above a line are exactly the smaller ones (`SmallerStandBefore`).

The sums and maxima. The prover cannot use the library's induction theorems
on predicates, so `FiniteData` argues by a least number instead: among the sets
without a property a smallest one exists, and it does not stay one when an
element is removed (`SmallestSet`, `DownToEmpty`). So a sum over a finite set
exists that does not depend on the order (`SumExists`), the fold computes it
(`SumsAgree`), and a finite set of numbers has a maximum (`MaxOfFinite`). On these
rest `ServiceCorrect` (a tenant is charged each admitted request's cost once),
`OneDecision` (under Workflow-Cache-Fair the best score exists, since remaining
work is a total recursive function on an acyclic trace, and ties are broken by
the order of the trace and of the endpoints) and, by counting results per
endpoint, `LedgerCorrect` in `ReplayProofs`.

The report. `MetricsProofs` has the arithmetic, about any log. `NearestRank`: an
enumeration in order exists, the first k places hold values that are no greater
than the k-th and the lesser ones are among the first k - 1, so counting them
bounds both ranks. `CauchySchwarz` removes one element at a time, from a set of
tenants for which it would fail; `UnequalIsUnfair` makes it strict when one tenant
has zero and another has not, because the tenant with zero counts in the number
of tenants and in neither sum. `RunBundleProofs` brings in what the log is: `IInv`
carries that every result, and so every line of the events file, is the event of
an answer or of a failed dependency (`IsResult`), which gives each field its type
and each event its workflow and tenant. From this, on any events file a run can
leave, `ObjectivesNeedEvidence` and `PercentilesAreRight`; and on one that its
manifest matches, whose lines are exactly the results of the run
(`VerifiedIsLogOfRun`), `ReportsAreTrue`.

Only model-checked: liveness, which is beyond the prover (`AdmissionProgress`,
`ReplayEnds`, `RunsEndVerified`, that validation ends, and the fairness of the
three refinements, whose steps are proved). Every safety invariant that a passing
run checks is a theorem.

## 5. Not modelled, and plan

Not modelled: the timing audit (`security.py`), a rank statistic over a list of
samples without state or interaction; the white paper builder, which renders
Markdown to PDF; the text of the prompts (`_messages`); argument parsing and
rendering; the fields of the manifest copied from the environment.

Nothing that the prover can reach is left among the checked invariants. Worth
adding to the proofs: that `WorkflowOutcome` and `EndpointCall` fit together, so
that `AnswerAssumption` follows from `StreamReaderProofs` by a refinement instead
of being stated again.
