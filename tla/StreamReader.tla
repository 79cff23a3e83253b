----------------------------- MODULE StreamReader -----------------------------
(***************************************************************************)
(* _call_endpoint of runner.py: one streaming completion call, read line   *)
(* by line.  A step is what happens between two awaits: the request goes   *)
(* out, the response arrives, one line is read, the stream stops, the      *)
(* response is closed and the result is returned.                          *)
(*                                                                         *)
(* A line is what the loop can tell apart:                                 *)
(*   "skipped"    not a data line, or data that is not JSON;               *)
(*   "[DONE]"     the end marker;                                          *)
(*   "chunk"      an object, with or without text and with the usage it    *)
(*                reports: None, or for each counter a number or None;     *)
(*   "malformed"  JSON on which the loop's body raises: not an object, or  *)
(*                a count that int() refuses; its text and usage are what  *)
(*                the body notes before.                                   *)
(*                                                                         *)
(* Definitions marked "slip" are plausible mistakes, used by no            *)
(* specification.                                                          *)
(***************************************************************************)
EXTENDS Integers, Sequences

CONSTANTS
  None,          (* Python's None                                          *)
  Lines,         (* the lines an endpoint may send                         *)
  SaltRequired,  (* cache_isolation is "per_tenant_salt"                   *)
  MaxLines,      (* the endpoint stops by itself after so many lines       *)
  MaxTime        (* bound on the clock                                     *)

Counters == {"completion_tokens", "prompt_tokens", "cached_tokens"}
Reading  == Int \cup {None}
Noted    == {"chunk", "malformed"}
Kinds    == {"skipped", "[DONE]"} \cup Noted

ASSUME StreamAssumption ==
  /\ None \notin Int /\ None \notin {"http", "other", "empty_stream"}
  /\ \A line \in Lines :
       /\ line.kind \in Kinds
       /\ line.content \in BOOLEAN
       /\ line.usage # None => line.usage \in [Counters -> Reading]
  /\ SaltRequired \in BOOLEAN
  /\ MaxLines \in Nat /\ MaxTime \in Nat

VARIABLES
  secret,        (* AEGIS_CACHE_SALT_SECRET is in the environment          *)
  pc,            (* where the coroutine is                                 *)
  raising,       (* what leaves the body of the async with                 *)
  now,           (* time.monotonic() - origin                              *)
  start_s, first_token_s, end_s,
  counts,        (* output_tokens, prompt_tokens and cached_tokens         *)
  usage_reported,
  success, error,
  transcript     (* history: the lines read, each with its time            *)

times  == <<start_s, first_token_s, end_s>>
usage  == <<counts, usage_reported>>
status == <<success, error>>
vars   == <<secret, pc, raising, now, times, usage, status, transcript>>

Places == {"entered", "connecting", "reading", "closing", "returned", "raised"}
Errors == {None, "http", "empty_stream"}

(* "http": TimeoutError or httpx.HTTPError, which the code catches; "other": *)
(* anything else, cancellation included.                                     *)
Exceptions == {"http", "other"}
Open   == {"connecting", "reading", "closing"}
-----------------------------------------------------------------------------
(* _cache_salt raises before anything is sent. *)
RefuseWithoutSecret ==
  /\ pc = "entered"
  /\ SaltRequired /\ ~secret
  /\ pc' = "raised"
  /\ UNCHANGED <<raising, now, times, usage, status, transcript>>

Send ==
  /\ pc = "entered"
  /\ SaltRequired => secret
  /\ pc' = "connecting"
  /\ start_s' = now
  /\ UNCHANGED <<raising, now, first_token_s, end_s, usage, status, transcript>>

(* A 2xx response. *)
Respond ==
  /\ pc = "connecting"
  /\ pc' = "reading"
  /\ UNCHANGED <<raising, now, times, usage, status, transcript>>

Skip ==
  /\ UNCHANGED <<pc, raising, times, usage, status>>

(* The body is done: the response is closed. *)
Finish ==
  /\ pc' = "closing"
  /\ success' = TRUE
  /\ UNCHANGED <<raising, times, usage, error>>

(* An exception leaves the body: the response is closed, then it goes on. *)
Throw(exception) == pc' = "closing" /\ raising' = exception

NoteToken(line) ==
  first_token_s' = IF line.content /\ first_token_s = None THEN now ELSE first_token_s

(* Slip: only the counters of the latest usage are kept. *)
NoteReportedOnly(line) ==
  IF line.usage = None
  THEN UNCHANGED usage
  ELSE /\ usage_reported' = TRUE
       /\ counts' = [f \in {g \in Counters : line.usage[g] # None} |-> line.usage[f]]

(* Slip: a count of zero is falsy. *)
NoteTruthyUsage(line) ==
  IF line.usage = None
  THEN UNCHANGED usage
  ELSE /\ usage_reported' = TRUE
       /\ counts' = [f \in Counters |->
                       IF line.usage[f] \in {None, 0} THEN counts[f] ELSE line.usage[f]]

NoteUsage(line) ==
  IF line.usage = None
  THEN UNCHANGED usage
  ELSE /\ usage_reported' = TRUE
       /\ counts' = [f \in Counters |->
                       IF line.usage[f] = None THEN counts[f] ELSE line.usage[f]]

ReadChunk(line) ==
  /\ NoteToken(line)
  /\ NoteUsage(line)
  /\ UNCHANGED <<start_s, end_s, status>>

ReadLine(line) ==
  /\ pc = "reading"
  /\ Len(transcript) < MaxLines
  /\ transcript' = Append(transcript, [line |-> line, at |-> now])
  /\ \/ line.kind = "skipped" /\ Skip
     \/ line.kind = "[DONE]" /\ Finish
     \/ line.kind = "chunk" /\ ReadChunk(line) /\ UNCHANGED <<pc, raising>>
     \/ line.kind = "malformed" /\ ReadChunk(line) /\ Throw("other")
  /\ UNCHANGED now

(* The stream ends, with or without its marker. *)
EndOfStream ==
  /\ pc = "reading"
  /\ Finish
  /\ UNCHANGED <<now, transcript>>

(* Slip: success is set before the stream is read. *)
BreakAfterSuccess(exception) ==
  /\ pc = "reading"
  /\ pc' = "closing"
  /\ raising' = exception
  /\ success' = TRUE
  /\ UNCHANGED <<now, times, usage, error, transcript>>

(* Reading fails, times out or is cancelled. *)
Break(exception) ==
  /\ pc = "reading"
  /\ Throw(exception)
  /\ UNCHANGED <<now, times, usage, status, transcript>>

(* raise_for_status: the response is there, and not a 2xx. *)
RefuseStatus ==
  /\ pc = "connecting"
  /\ Throw("http")
  /\ UNCHANGED <<now, times, usage, status, transcript>>

Empty == success /\ first_token_s = None

(* Slip: a stream without text is a success. *)
ConcludeUnchecked(exception) ==
  /\ IF exception = "other"
       THEN pc' = "raised" /\ UNCHANGED <<end_s, status>>
       ELSE /\ pc' = "returned"
            /\ end_s' = now
            /\ error' = exception
            /\ UNCHANGED success
  /\ UNCHANGED <<raising, now, start_s, first_token_s, usage, transcript>>

(* What follows the async with, left by an exception or by none. *)
Conclude(exception) ==
  /\ IF exception = "other"
       THEN pc' = "raised" /\ UNCHANGED <<end_s, status>>
       ELSE /\ pc' = "returned"
            /\ end_s' = now
            /\ success' = (success /\ ~Empty)
            /\ error' = IF Empty THEN "empty_stream" ELSE exception
  /\ UNCHANGED <<raising, now, start_s, first_token_s, usage, transcript>>

(* No response: there is nothing to close. *)
FailToConnect(exception) ==
  /\ pc = "connecting"
  /\ Conclude(exception)

(* The response is closed. *)
Close ==
  /\ pc = "closing"
  /\ Conclude(raising)

(* Closing the response fails or is cancelled, which takes the place of what *)
(* was being raised; success is not taken back.                              *)
FailToClose(exception) ==
  /\ pc = "closing"
  /\ Conclude(exception)

Tick ==
  /\ pc \in Open
  /\ now < MaxTime
  /\ now' = now + 1
  /\ UNCHANGED <<secret, pc, raising, times, usage, status, transcript>>

Exit == pc \in {"returned", "raised"} /\ UNCHANGED vars

Init ==
  /\ secret \in BOOLEAN
  /\ pc = "entered" /\ raising = None
  /\ now \in 0 .. MaxTime
  /\ start_s = None /\ first_token_s = None /\ end_s = None
  /\ counts = [f \in Counters |-> None]
  /\ usage_reported = FALSE
  /\ success = FALSE /\ error = None
  /\ transcript = <<>>

(* What the coroutine does when it is resumed. *)
Resume ==
  /\ \/ RefuseWithoutSecret \/ Send \/ Respond \/ RefuseStatus
     \/ \E line \in Lines : ReadLine(line)
     \/ EndOfStream \/ Close
     \/ \E exception \in Exceptions :
          FailToConnect(exception) \/ Break(exception) \/ FailToClose(exception)
  /\ UNCHANGED secret

Next == Resume \/ Tick \/ Exit

Spec == Init /\ [][Next]_vars

(* The coroutine runs, and whatever it awaits answers or times out.  With    *)
(* MaxLines this says that the endpoint stops sending: httpx.Timeout bounds  *)
(* one read and not the call, so the code alone does not guarantee it.       *)
Fairness == WF_vars(Resume)

FairSpec == Spec /\ Fairness
-----------------------------------------------------------------------------
(* Properties. *)

TypeOK ==
  /\ secret \in BOOLEAN
  /\ pc \in Places
  /\ raising \in Exceptions \cup {None}
  /\ now \in Nat
  /\ start_s \in Nat \cup {None}
  /\ first_token_s \in Nat \cup {None}
  /\ end_s \in Nat \cup {None}
  /\ counts \in [Counters -> Reading]
  /\ usage_reported \in BOOLEAN
  /\ success \in BOOLEAN
  /\ error \in Errors
  /\ transcript \in Seq([line : Lines, at : Nat])

(* The chunks of the lines read so far, by position. *)
Chunks   == {i \in DOMAIN transcript : transcript[i].line.kind \in Noted}
Texts    == {i \in Chunks : transcript[i].line.content}
Usages   == {i \in Chunks : transcript[i].line.usage # None}
Gives(f) == {i \in Usages : transcript[i].line.usage[f] # None}

(* What the loop keeps is what a reader of the whole stream would find: the  *)
(* time of the first chunk with text, for each counter the last number that  *)
(* was reported for it, zero included, and null where none was               *)
(* (REPRODUCIBILITY.md:80: "A zero is a measured value; `null` is not        *)
(* observed").                                                               *)
FirstTokenIsFirst ==
  IF Texts = {} THEN first_token_s = None
  ELSE \E i \in Texts : first_token_s = transcript[i].at /\ \A j \in Texts : i <= j

CountsAreLatest ==
  \A f \in Counters :
    IF Gives(f) = {} THEN counts[f] = None
    ELSE \E i \in Gives(f) :
           counts[f] = transcript[i].line.usage[f] /\ \A j \in Gives(f) : j <= i

AgreesWithTranscript ==
  /\ FirstTokenIsFirst
  /\ CountsAreLatest
  /\ usage_reported <=> Usages # {}

(* A result that is returned is a success or says what went wrong.  A        *)
(* success has read its stream to the end and seen a token in it while the   *)
(* call was open, so the intervals the metrics take from it (start to first  *)
(* token, first token to end) are not negative; the one error it can carry   *)
(* is that of a response which failed to close after the stream was read.    *)
ResultIsJustified ==
  pc = "returned" =>
    /\ ~success => error # None
    /\ success =>
         /\ raising = None /\ error \in {None, "http"}
         /\ Texts # {} /\ start_s <= first_token_s /\ first_token_s <= end_s
    /\ error = "empty_stream" => ~success /\ Texts = {}

Call == INSTANCE EndpointCall WITH
  call <- IF pc = "entered" THEN "unsent"
          ELSE IF pc \in Open THEN "flying"
          ELSE IF pc = "raised" THEN "raised"
          ELSE IF success THEN "success" ELSE "failure",
  answered <- first_token_s # None

(* Reading a stream implements the call the replay relies on, its end        *)
(* included: Replay's Return and Raise are EndpointCall's End.               *)
ImplementsEndpointCall == Call!FairSpec
=============================================================================
