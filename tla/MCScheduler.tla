---------------------------- MODULE MCScheduler ----------------------------
(***************************************************************************)
(* Instances of AdmissionScheduler for TLC: four requests of two tenants,  *)
(* two of them in one workflow, and two endpoints.  a and c have one       *)
(* prefix in two domains; c and d have one key and neither domain nor      *)
(* prefix in common.                                                       *)
(***************************************************************************)
EXTENDS AdmissionScheduler, TLC

CONSTANTS a, b, c, d, e1, e2

MCRecord ==
  (a :> [seq |-> 0, workflow |-> "wf-0", tenant |-> "tenant-1", domain |-> <<"tenant-1">>,
         prefix |-> <<"chain", "worker">>, deps |-> {}, arrival |-> 0, deadline |-> 1,
         prompt |-> 2, output |-> 1, shared |-> 1])
  @@ (b :> [seq |-> 1, workflow |-> "wf-0", tenant |-> "tenant-1", domain |-> <<"tenant-1">>,
         prefix |-> <<"chain", "judge">>, deps |-> {a}, arrival |-> 0, deadline |-> 1,
         prompt |-> 1, output |-> 1, shared |-> 1])
  @@ (c :> [seq |-> 2, workflow |-> "wf-1", tenant |-> "tenant-2", domain |-> <<"tenant-2">>,
         prefix |-> <<"chain", "worker">>, deps |-> {}, arrival |-> 1, deadline |-> 1,
         prompt |-> 2, output |-> 2, shared |-> 1])
  @@ (d :> [seq |-> 3, workflow |-> "wf-2", tenant |-> "tenant-2",
         domain |-> <<"tenant-2", "chain">>, prefix |-> <<"worker">>, deps |-> {}, arrival |-> 1,
         deadline |-> 2, prompt |-> 3, output |-> 1, shared |-> 2])

MCRequests == {a, b, c, d}
MCTenantHash == "tenant-1" :> 3 @@ "tenant-2" :> 4
MCEndpointList == <<e1, e2>>
MCNoOverrides == [k \in {} |-> 0]
MCNoCriticality == [k \in {"criticality"} |-> 0]
=============================================================================
