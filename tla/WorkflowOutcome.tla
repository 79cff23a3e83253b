--------------------------- MODULE WorkflowOutcome ---------------------------
(***************************************************************************)
(* What replaying a dependency graph promises, without clocks, queues or   *)
(* endpoints: a request is called only after every dependency succeeded,   *)
(* it is skipped as soon as its dependencies are decided and one of them   *)
(* did not succeed, and a verdict is final.                                *)
(***************************************************************************)
EXTENDS FiniteSets

CONSTANTS Requests, Deps(_)

VARIABLES
  verdict,   (* what became of each request      *)
  flying     (* the requests being called        *)

vars == <<verdict, flying>>

Verdicts == {"pending", "success", "failure", "skipped", "lost"}

Succeeded(r) == verdict[r] = "success"
Decided(r)   == verdict[r] \in {"success", "failure", "skipped"}

Init == verdict = [r \in Requests |-> "pending"] /\ flying = {}

Launch(r) ==
  /\ verdict[r] = "pending"
  /\ r \notin flying
  /\ \A d \in Deps(r) : Succeeded(d)
  /\ flying' = flying \cup {r}
  /\ UNCHANGED verdict

Land(r) ==
  /\ r \in flying
  /\ flying' = flying \ {r}
  /\ \E v \in {"success", "failure"} : verdict' = [verdict EXCEPT ![r] = v]

Skip(r) ==
  /\ verdict[r] = "pending"
  /\ r \notin flying
  /\ \A d \in Deps(r) : Decided(d)
  /\ \E d \in Deps(r) : ~Succeeded(d)
  /\ verdict' = [verdict EXCEPT ![r] = "skipped"]
  /\ UNCHANGED flying

(* The replay is abandoned under the request. *)
Drop(r) ==
  /\ verdict[r] = "pending"
  /\ verdict' = [verdict EXCEPT ![r] = "lost"]
  /\ flying' = flying \ {r}

Next == \E r \in Requests : Launch(r) \/ Land(r) \/ Skip(r) \/ Drop(r)

Spec == Init /\ [][Next]_vars

(* Every request gets its verdict. *)
FairSpec == Spec /\ WF_vars(Next)
=============================================================================
