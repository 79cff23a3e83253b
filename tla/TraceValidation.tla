--------------------------- MODULE TraceValidation ---------------------------
(***************************************************************************)
(* validate_trace of trace.py: the records are checked one by one, then    *)
(* the dependencies of each, then a depth-first search looks for a cycle.  *)
(* A step is one iteration of a loop, or one call or return of the         *)
(* recursive function visit, whose frames are the stack.                   *)
(*                                                                         *)
(* A field whose value has the wrong type, is empty or is no finite number *)
(* is Bad; prefix stands for the labels (agent_id, role, prefix_group).    *)
(*                                                                         *)
(* Definitions marked "slip" are plausible mistakes, used by no            *)
(* specification.                                                          *)
(***************************************************************************)
EXTENDS Integers, FiniteSets, SequencesExt

CONSTANTS
  Traces,   (* the traces to validate, each a sequence of records          *)
  Bad       (* a value that has not the type of its field                  *)

(* A field that is no list or number is Bad; everything else may be anything. *)
HasShape(r) ==
  /\ r.deps # Bad => r.deps \in Seq(ToSet(r.deps))
  /\ {r.prompt, r.output, r.shared, r.arrival, r.deadline} \subseteq Int \cup {Bad}

ASSUME TracesAssumption ==
  /\ Bad \notin Int
  /\ \A t \in Traces : t \in Seq(ToSet(t)) /\ \A i \in DOMAIN t : HasShape(t[i])

VARIABLES
  trace,    (* the argument                                                *)
  phase,    (* which loop is running, or the verdict                       *)
  index,    (* the loop's position in the trace                            *)
  by_id,    (* by_id[id]: position of the record with that id              *)
  state,    (* the dictionary state: 1 in progress, 2 finished, 0 absent   *)
  stack,    (* the calls of visit that have not returned, innermost last   *)
  cursor    (* cursor[id]: the next dependency that visit(id) looks at     *)

input  == <<trace, by_id>>
search == <<state, stack, cursor>>
vars   == <<input, phase, index, search>>

Phases == {"records", "dependencies", "cycles", "accepted", "rejected"}

Ids         == DOMAIN by_id
RecordOf(id) == trace[by_id[id]]
-----------------------------------------------------------------------------
IsInteger(value, minimum) == value # Bad /\ value >= minimum

(* Slip: a dependency may be listed twice. *)
SoundWithRepeats(r) ==
  /\ r.request_id # Bad
  /\ r.request_id \notin Ids
  /\ Bad \notin {r.workflow, r.tenant, r.domain, r.prefix}
  /\ r.deps # Bad
  /\ \A i \in DOMAIN r.deps : r.deps[i] \notin {Bad, r.request_id}
  /\ IsInteger(r.prompt, 1) /\ IsInteger(r.output, 1)
  /\ IsInteger(r.shared, 0) /\ r.shared <= r.prompt
  /\ IsInteger(r.arrival, 0)
  /\ IsInteger(r.deadline, 1)

(* The labels and owners are non-empty strings, the dependencies a list of   *)
(* distinct ids without the record's own, the numbers in range.              *)
RecordIsSound(r) ==
  /\ r.request_id # Bad
  /\ r.request_id \notin Ids
  /\ Bad \notin {r.workflow, r.tenant, r.domain, r.prefix}
  /\ r.deps # Bad
  /\ \A i \in DOMAIN r.deps : r.deps[i] \notin {Bad, r.request_id}
  /\ IsInjective(r.deps)
  /\ IsInteger(r.prompt, 1) /\ IsInteger(r.output, 1)
  /\ IsInteger(r.shared, 0) /\ r.shared <= r.prompt
  /\ IsInteger(r.arrival, 0)
  /\ IsInteger(r.deadline, 1)

(* Slip: the boundary check forgets the security domain. *)
LinkWithinTenant(r, d) ==
  /\ d \in Ids
  /\ RecordOf(d).workflow = r.workflow
  /\ RecordOf(d).tenant = r.tenant

LinkIsSound(r, d) ==
  /\ d \in Ids
  /\ RecordOf(d).workflow = r.workflow
  /\ RecordOf(d).tenant = r.tenant
  /\ RecordOf(d).domain = r.domain

(* raise ValueError *)
Reject ==
  /\ phase' = "rejected"
  /\ UNCHANGED <<input, index, search>>

RejectEmpty ==
  /\ phase = "records" /\ trace = <<>>
  /\ Reject

CheckRecord ==
  /\ phase = "records" /\ index <= Len(trace)
  /\ LET r == trace[index]
     IN  IF RecordIsSound(r)
         THEN /\ by_id' = [id \in Ids \cup {r.request_id} |->
                             IF id = r.request_id THEN index ELSE by_id[id]]
              /\ index' = index + 1
              /\ UNCHANGED <<trace, phase, search>>
         ELSE Reject

StartLinks ==
  /\ phase = "records" /\ trace # <<>> /\ index > Len(trace)
  /\ phase' = "dependencies" /\ index' = 1
  /\ UNCHANGED <<input, search>>

CheckLinks ==
  /\ phase = "dependencies" /\ index <= Len(trace)
  /\ LET r == trace[index]
     IN  IF \A i \in DOMAIN r.deps : LinkIsSound(r, r.deps[i])
         THEN index' = index + 1 /\ UNCHANGED <<input, phase, search>>
         ELSE Reject

StartSearch ==
  /\ phase = "dependencies" /\ index > Len(trace)
  /\ phase' = "cycles" /\ index' = 1
  /\ state' = [id \in Ids |-> 0]
  /\ cursor' = [id \in Ids |-> 1]
  /\ UNCHANGED <<input, stack>>

(* visit(id): raise, return at once, or go on to the dependencies. *)
Call(id) ==
  IF state[id] = 1 THEN phase' = "rejected" /\ UNCHANGED <<state, stack>>
  ELSE IF state[id] = 2 THEN UNCHANGED <<phase, state, stack>>
  ELSE /\ state' = [state EXCEPT ![id] = 1]
       /\ stack' = Append(stack, id)
       /\ UNCHANGED phase

VisitRequest ==
  /\ phase = "cycles" /\ stack = <<>> /\ index <= Len(trace)
  /\ Call(trace[index].request_id)
  /\ index' = index + 1
  /\ UNCHANGED <<input, cursor>>

(* Slip: a finished dependency is looked at again. *)
VisitDependencyAgain ==
  /\ phase = "cycles" /\ stack # <<>>
  /\ LET id == Last(stack)
     IN  /\ cursor[id] <= Len(RecordOf(id).deps)
         /\ Call(RecordOf(id).deps[cursor[id]])
         /\ cursor' = [cursor EXCEPT ![id] =
                         IF state[RecordOf(id).deps[@]] = 2 THEN @ ELSE @ + 1]
  /\ UNCHANGED <<input, index>>

VisitDependency ==
  /\ phase = "cycles" /\ stack # <<>>
  /\ LET id == Last(stack)
     IN  /\ cursor[id] <= Len(RecordOf(id).deps)
         /\ Call(RecordOf(id).deps[cursor[id]])
         /\ cursor' = [cursor EXCEPT ![id] = @ + 1]
  /\ UNCHANGED <<input, index>>

(* Slip: the request is left in progress. *)
LeaveInProgress ==
  /\ phase = "cycles" /\ stack # <<>>
  /\ cursor[Last(stack)] > Len(RecordOf(Last(stack)).deps)
  /\ stack' = Front(stack)
  /\ UNCHANGED <<input, phase, index, state, cursor>>

Leave ==
  /\ phase = "cycles" /\ stack # <<>>
  /\ cursor[Last(stack)] > Len(RecordOf(Last(stack)).deps)
  /\ state' = [state EXCEPT ![Last(stack)] = 2]
  /\ stack' = Front(stack)
  /\ UNCHANGED <<input, phase, index, cursor>>

Accept ==
  /\ phase = "cycles" /\ stack = <<>> /\ index > Len(trace)
  /\ phase' = "accepted"
  /\ UNCHANGED <<input, index, search>>

Exit == phase \in {"accepted", "rejected"} /\ UNCHANGED vars

Fresh ==
  /\ index = 1
  /\ by_id = [id \in {} |-> 0]
  /\ state = [id \in {} |-> 0]
  /\ stack = <<>>
  /\ cursor = [id \in {} |-> 0]

Init == trace \in Traces /\ phase = "records" /\ Fresh

Validate ==
  \/ RejectEmpty \/ CheckRecord \/ StartLinks \/ CheckLinks
  \/ StartSearch \/ VisitRequest \/ VisitDependency \/ Leave \/ Accept

Next == Validate \/ Exit

Spec     == Init /\ [][Next]_vars
FairSpec == Spec /\ WF_vars(Validate)
-----------------------------------------------------------------------------
(* Properties. *)

TypeOK ==
  /\ phase \in Phases
  /\ index \in 1 .. Len(trace) + 1
  /\ \A id \in Ids : by_id[id] \in 1 .. Len(trace)
  /\ phase = "cycles" => state \in [Ids -> 0 .. 2]
  /\ phase = "cycles" => cursor \in [Ids -> 1 .. Cardinality(Ids)]
  /\ stack \in Seq(Ids)

(* The trace as the other modules see it. *)
Names     == {trace[i].request_id : i \in DOMAIN trace}
Place(id) == CHOOSE i \in DOMAIN trace : trace[i].request_id = id

Graph == INSTANCE TraceDag WITH
  Requests <- Names,
  Record <- [id \in Names |->
    LET r == trace[Place(id)]
    IN  [seq |-> Place(id), workflow |-> r.workflow, tenant |-> r.tenant,
         domain |-> r.domain, prefix |-> r.prefix, deps |-> ToSet(r.deps),
         arrival |-> r.arrival, deadline |-> r.deadline,
         prompt |-> r.prompt, output |-> r.output, shared |-> r.shared]]

WellTyped ==
  \A i \in DOMAIN trace :
    /\ trace[i].deps # Bad
    /\ IsInjective(trace[i].deps)
    /\ Bad \notin {trace[i].request_id, trace[i].workflow, trace[i].tenant, trace[i].domain,
                   trace[i].prefix} \cup ToSet(trace[i].deps)
    /\ Bad \notin {trace[i].arrival, trace[i].deadline, trace[i].prompt, trace[i].output,
                   trace[i].shared}
    /\ \A j \in DOMAIN trace : trace[i].request_id = trace[j].request_id => i = j

(* The verdict is right both ways: what the replay is given satisfies        *)
(* ValidTrace, acyclicity included, and no valid trace is refused            *)
(* (README.md:96: "strict trace validation for cycles, missing dependencies, *)
(* token bounds, and cross-tenant edges").                                   *)
VerdictIsRight ==
  /\ phase = "accepted" => WellTyped /\ Graph!ValidTrace
  /\ phase = "rejected" => ~(WellTyped /\ Graph!ValidTrace)

(* While it runs, the search knows only what it has established: the         *)
(* requests in progress are the pending calls, each a dependency of the one  *)
(* before it, and what a finished request depends on is finished, so no      *)
(* cycle can pass through it.                                                *)
SearchIsSound ==
  phase = "cycles" =>
    /\ {id \in Ids : state[id] = 1} = ToSet(stack)
    /\ IsInjective(stack)
    /\ \A k \in 1 .. Len(stack) - 1 :
         /\ cursor[stack[k]] > 1
         /\ RecordOf(stack[k]).deps[cursor[stack[k]] - 1] = stack[k + 1]
    /\ \A id \in Ids :
         state[id] = 2 => \A d \in ToSet(RecordOf(id).deps) : state[d] = 2

(* Validation ends with a verdict, on every graph. *)
ValidationEnds == <>(phase \in {"accepted", "rejected"})
=============================================================================
