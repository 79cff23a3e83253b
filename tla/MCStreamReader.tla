--------------------------- MODULE MCStreamReader ---------------------------
(***************************************************************************)
(* Instances of StreamReader for TLC: lines of every kind, text and usage  *)
(* apart and together, a counter reported twice, as zero and not at all.   *)
(***************************************************************************)
EXTENDS StreamReader

Usage(completion, prompt, cached) ==
  [f \in Counters |->
     IF f = "completion_tokens" THEN completion
     ELSE IF f = "prompt_tokens" THEN prompt ELSE cached]

Line(kind, content, reported) ==
  [kind |-> kind, content |-> content, usage |-> reported]

MCLines ==
  {Line(kind, FALSE, None) : kind \in Kinds}
    \cup {Line("malformed", TRUE, Usage(1, None, None)),
          Line("chunk", TRUE, None),
          Line("chunk", TRUE, Usage(1, None, None)),
          Line("chunk", FALSE, Usage(0, 2, None)),
          Line("chunk", FALSE, Usage(None, 3, 0)),
          Line("chunk", FALSE, Usage(None, None, None))}
=============================================================================
