------------------------------ MODULE MCReplay ------------------------------
(***************************************************************************)
(* Instances of Replay for TLC.  Diamond: a planner a with two workers b   *)
(* and c and a judge d that joins them; x is a request of another tenant.  *)
(* Crowd: independent requests that arrive together, of which c has the    *)
(* longer work and the later deadline.                                     *)
(***************************************************************************)
EXTENDS Replay, TLC

CONSTANTS a, b, c, d, x, e1, e2

Node(n, tenant, dependencies, time) ==
  [seq |-> n, workflow |-> tenant, tenant |-> tenant, domain |-> <<tenant>>,
   prefix |-> <<"worker">>, deps |-> dependencies, arrival |-> time, deadline |-> 1,
   prompt |-> 2, output |-> 1, shared |-> 1]

Diamond ==
  a :> Node(0, "tenant-1", {}, 0)
  @@ b :> Node(1, "tenant-1", {a}, 0)
  @@ c :> Node(2, "tenant-1", {a}, 1)
  @@ d :> Node(3, "tenant-1", {b, c}, 0)

DiamondAndOne == Diamond @@ x :> Node(4, "tenant-2", {}, 1)

Crowd ==
  [r \in {a, b, c, d} |->
     LET n == CHOOSE i \in 0 .. 3 : <<a, b, c, d>>[i + 1] = r
     IN  [Node(n, <<"tenant-1", "tenant-2", "tenant-3", "tenant-4">>[n + 1], {}, 0)
            EXCEPT !.deadline = IF r = c THEN 9 ELSE 1,
                   !.prompt = IF r = c THEN 3 ELSE 1]]

CrowdOfThree == {a, b, c}
DiamondRequests == {a, b, c, d}
AllRequests == {a, b, c, d, x}
MCTenantHash == [t \in Tenants |-> IF t = "tenant-1" THEN 3 ELSE 4]
MCEndpointList == <<e1, e2>>
MCNoOverrides == [k \in {} |-> 0]
=============================================================================
