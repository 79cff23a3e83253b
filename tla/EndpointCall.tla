----------------------------- MODULE EndpointCall -----------------------------
(***************************************************************************)
(* What a call to an endpoint promises the replay: it is sent at most      *)
(* once, it succeeds only after a token was seen, and it ends.             *)
(***************************************************************************)

VARIABLES
  call,      (* where the call is                      *)
  answered   (* whether a token has been seen          *)

vars == <<call, answered>>

Verdicts == {"success", "failure", "raised"}

Init == call = "unsent" /\ answered = FALSE

(* The call cannot be sent. *)
Refuse == call = "unsent" /\ call' = "raised" /\ UNCHANGED answered

Send == call = "unsent" /\ call' = "flying" /\ UNCHANGED answered

Answer == call = "flying" /\ answered' = TRUE /\ UNCHANGED call

End ==
  /\ call = "flying"
  /\ \E v \in Verdicts : call' = v /\ (v = "success" => answered)
  /\ UNCHANGED answered

Next == Refuse \/ Send \/ Answer \/ End

Spec == Init /\ [][Next]_vars

FairSpec == Spec /\ WF_vars(Refuse \/ Send) /\ WF_vars(End)
=============================================================================
