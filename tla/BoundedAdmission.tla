-------------------------- MODULE BoundedAdmission --------------------------
(***************************************************************************)
(* What the admission scheduler promises its callers, without condition    *)
(* variables, counters or ranking: callers ask for a slot, wait, hold one  *)
(* of at most Capacity slots, and leave for good.                          *)
(***************************************************************************)
EXTENDS Integers, FiniteSets

CONSTANTS Requests, Capacity

VARIABLES
  queued,    (* asked for a slot and waiting for it *)
  holding,   (* inside one of the slots             *)
  left       (* gave the slot back, or gave up      *)

vars == <<queued, holding, left>>

Fresh == Requests \ (queued \cup holding \cup left)

SlotFree == Cardinality(holding) < Capacity

Init == queued = {} /\ holding = {} /\ left = {}

Ask(r) ==
  /\ r \in Fresh
  /\ queued' = queued \cup {r}
  /\ UNCHANGED <<holding, left>>

(* A caller that finds a slot free may be let in without queueing. *)
EnterAtOnce(r) ==
  /\ r \in Fresh
  /\ SlotFree
  /\ holding' = holding \cup {r}
  /\ UNCHANGED <<queued, left>>

Enter(r) ==
  /\ r \in queued
  /\ SlotFree
  /\ queued' = queued \ {r}
  /\ holding' = holding \cup {r}
  /\ UNCHANGED left

Leave(r) ==
  /\ r \in holding
  /\ holding' = holding \ {r}
  /\ left' = left \cup {r}
  /\ UNCHANGED queued

GiveUp(r) ==
  /\ r \in queued
  /\ queued' = queued \ {r}
  /\ left' = left \cup {r}
  /\ UNCHANGED holding

Next == \E r \in Requests : Ask(r) \/ EnterAtOnce(r) \/ Enter(r) \/ Leave(r) \/ GiveUp(r)

Spec == Init /\ [][Next]_vars

(* A queued caller is not passed over for ever while slots keep falling free. *)
FairSpec == Spec /\ \A r \in Requests : SF_vars(Enter(r)) /\ WF_vars(Leave(r))
=============================================================================
