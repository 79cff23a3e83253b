-------------------------- MODULE MCTraceValidation --------------------------
(***************************************************************************)
(* Traces for TLC: every dependency graph on three requests, an unknown id *)
(* and self-dependencies included, every one without these on four, and    *)
(* two linked records with one field out of place.                         *)
(***************************************************************************)
EXTENDS TraceValidation

Sound(id, dependencies) ==
  [request_id |-> id, workflow |-> "w", tenant |-> "t", domain |-> "t", prefix |-> "p",
   deps |-> dependencies, arrival |-> 0, deadline |-> 1, prompt |-> 2, output |-> 1,
   shared |-> 1]

Name == <<"a", "b", "c", "d">>

GraphsOn(n, targets) ==
  {[i \in 1 .. n |-> Sound(Name[i], SetToSeq(deps[i]))] : deps \in [1 .. n -> SUBSET targets]}

LoopFree(t) == \A i \in DOMAIN t : t[i].request_id \notin ToSet(t[i].deps)

Deviations ==
  LET first  == Sound("a", <<>>)
      second == Sound("b", <<"a">>)
      Pair(r) == {<<first, r>>, <<r, first>>}
  IN  UNION {Pair(r) : r \in
        {[second EXCEPT !.request_id = v] : v \in {Bad, "a"}}
        \cup {[second EXCEPT !.workflow = v] : v \in {Bad, "v"}}
        \cup {[second EXCEPT !.tenant = v] : v \in {Bad, "u"}}
        \cup {[second EXCEPT !.domain = v] : v \in {Bad, "u"}}
        \cup {[second EXCEPT !.prefix = Bad]}
        \cup {[second EXCEPT !.deps = v] : v \in {Bad, <<Bad>>, <<"a", "a">>}}
        \cup {[second EXCEPT !.arrival = v] : v \in {Bad, -1}}
        \cup {[second EXCEPT !.deadline = v] : v \in {Bad, 0}}
        \cup {[second EXCEPT !.prompt = v] : v \in {Bad, 0, 1}}
        \cup {[second EXCEPT !.output = v] : v \in {Bad, 0}}
        \cup {[second EXCEPT !.shared = v] : v \in {Bad, -1, 0, 2, 3}}}

MCTraces ==
  {<<>>} \cup Deviations
    \cup GraphsOn(3, {"a", "b", "c", "z"})
    \cup {t \in GraphsOn(4, {"a", "b", "c", "d"}) : LoopFree(t)}
=============================================================================
