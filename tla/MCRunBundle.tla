----------------------------- MODULE MCRunBundle -----------------------------
(***************************************************************************)
(* Instances of RunBundle for TLC: a workflow of two requests whose trace  *)
(* order is not the order of their names, and another tenant's of one.     *)
(***************************************************************************)
EXTENDS RunBundle

CONSTANT p, q   (* tenants *)

MCRequests == 1 .. 3

MCRecord ==
  [r \in MCRequests |->
    [seq |-> r, workflow |-> IF r = 3 THEN "w2" ELSE "w1",
     tenant |-> IF r = 3 THEN q ELSE p, domain |-> IF r = 3 THEN q ELSE p,
     prefix |-> "prefix", deps |-> IF r = 1 THEN {2} ELSE {},
     arrival |-> IF r = 3 THEN 1 ELSE 0, deadline |-> 5,
     prompt |-> 1, output |-> 1, shared |-> 0]]

MCLines == <<2, 1, 3>>

Answer(success, wait, first, end, prompt, output, cached) ==
  [success |-> success, wait |-> wait, first_token |-> first, end |-> end,
   prompt |-> prompt, output |-> output, cached |-> cached,
   usage_reported |-> {prompt, output, cached} # {None}]

Prompt   == Answer(TRUE, 0, 1, 2, 2, 2, 1)
Slow     == Answer(TRUE, 1, 3, 4, 2, 3, None)
Unsure   == Answer(TRUE, 0, 1, 1, None, None, None)
Failing  == Answer(FALSE, 2, None, 3, None, None, None)

MCAnswers  == <<{Prompt, Unsure, Failing}, {Prompt, Failing}, {Slow}>>
FewAnswers == [r \in MCRequests |-> {Prompt, Failing}]
=============================================================================
