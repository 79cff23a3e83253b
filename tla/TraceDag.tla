------------------------------ MODULE TraceDag ------------------------------
(***************************************************************************)
(* A validated replay trace: the requests, the record of each one, and the *)
(* quantities the admission scheduler derives once from the dependency     *)
(* graph (trace.py, and the constructor of scheduler.py).                  *)
(*                                                                         *)
(* Times are whole ticks.  A domain or a prefix group is the sequence of   *)
(* its ":"-free segments, so joining two names with ":" is concatenation.  *)
(***************************************************************************)
EXTENDS Integers, FiniteSets, Sequences, FiniteSetsExt

CONSTANTS
  Requests,   (* the request ids of the trace                              *)
  Record      (* Record[r]: the trace record of request r, with its        *)
              (* position in the trace as field seq (_sequence_index)      *)

Deps(r)   == Record[r].deps
Tenant(r) == Record[r].tenant
Seq0(r)   == Record[r].seq
Tenants   == {Tenant(r) : r \in Requests}

(* What validate_trace accepts: distinct records, token counts and times in *)
(* range, known dependencies that stay inside one workflow, tenant and      *)
(* security domain, and no cycle.                                           *)
ValidRecord(r) ==
  /\ Record[r].seq \in Nat
  /\ Record[r].arrival \in Nat
  /\ Record[r].deadline \in Nat \ {0}
  /\ Record[r].prompt \in Nat \ {0}
  /\ Record[r].output \in Nat \ {0}
  /\ Record[r].shared \in 0 .. Record[r].prompt
  /\ Deps(r) \subseteq Requests \ {r}

SameOwner(r, d) ==
  /\ Record[r].workflow = Record[d].workflow
  /\ Record[r].tenant = Record[d].tenant
  /\ Record[r].domain = Record[d].domain

Acyclic ==
  \A S \in SUBSET Requests : S # {} => \E r \in S : Deps(r) \cap S = {}

ValidTrace ==
  /\ Requests # {}
  /\ \A r \in Requests : ValidRecord(r)
  /\ \A r, q \in Requests : Record[r].seq = Record[q].seq => r = q
  /\ \A r \in Requests : \A d \in Deps(r) : SameOwner(r, d)
  /\ Acyclic

ASSUME TraceAssumption == IsFiniteSet(Requests) /\ ValidTrace
-----------------------------------------------------------------------------
(* Derived once, when the scheduler is built. *)

Children(r) == {c \in Requests : r \in Deps(c)}

ServiceCost(r) == Record[r].prompt + Record[r].output

(* Cost of the heaviest path that starts at a request. *)
RemainingWork[r \in Requests] ==
  ServiceCost(r)
    + (IF Children(r) = {} THEN 0 ELSE Max({RemainingWork[c] : c \in Children(r)}))

MaxRemaining == Max({RemainingWork[r] : r \in Requests})
MaxCost      == Max({ServiceCost(r) : r \in Requests})
MaxChildren  == Max({Cardinality(Children(r)) : r \in Requests})
=============================================================================
