-------------------------- MODULE StreamReaderProofs --------------------------
(***************************************************************************)
(* Proofs about StreamReader, for every set of lines and every length of   *)
(* the stream.                                                             *)
(***************************************************************************)
EXTENDS StreamReader, SequenceTheorems, TLAPS

(* What is known of a call between its steps: success, error and what is     *)
(* being raised agree with the place, and nothing was seen before the        *)
(* request was sent or after now.                                            *)
Progress ==
  /\ pc = "entered" => start_s = None /\ first_token_s = None
  /\ pc \in {"entered", "connecting", "reading"} => ~success /\ error = None /\ raising = None
  /\ pc = "closing" => error = None /\ (success <=> raising = None)
  /\ pc \in Open \cup {"returned"} => start_s \in Nat /\ start_s <= now
  /\ first_token_s # None => start_s \in Nat /\ start_s <= first_token_s /\ first_token_s <= now
  /\ pc = "returned" =>
       /\ ~success => error # None
       /\ success =>
            /\ raising = None /\ error \in {None, "http"}
            /\ first_token_s # None /\ end_s \in Nat /\ first_token_s <= end_s
       /\ error = "empty_stream" => ~success /\ first_token_s = None

IInv == TypeOK /\ AgreesWithTranscript /\ Progress

-----------------------------------------------------------------------------
(* A line that is no chunk changes nothing a reader of the stream can find;  *)
(* a chunk adds its own position.                                            *)
LEMMA AppendedLine ==
  ASSUME NEW line \in Lines, TypeOK, ReadLine(line)
  PROVE  /\ DOMAIN transcript = 1 .. Len(transcript)
         /\ DOMAIN transcript' = 1 .. Len(transcript) + 1
         /\ Len(transcript) \in Nat
         /\ \A i \in 1 .. Len(transcript) : transcript'[i] = transcript[i]
         /\ transcript'[Len(transcript) + 1] = [line |-> line, at |-> now]
  BY DEF TypeOK, ReadLine

LEMMA AppendedChunks ==
  ASSUME NEW line \in Lines, TypeOK, ReadLine(line)
  PROVE  /\ Len(transcript) + 1 \notin Chunks
         /\ Chunks' = IF line.kind \in Noted THEN Chunks \cup {Len(transcript) + 1} ELSE Chunks
         /\ Texts' = IF line.kind \in Noted /\ line.content
                     THEN Texts \cup {Len(transcript) + 1} ELSE Texts
         /\ Usages' = IF line.kind \in Noted /\ line.usage # None
                      THEN Usages \cup {Len(transcript) + 1} ELSE Usages
         /\ \A f \in Counters :
              Gives(f)' = IF line.kind \in Noted /\ line.usage # None /\ line.usage[f] # None
                          THEN Gives(f) \cup {Len(transcript) + 1} ELSE Gives(f)
<1>0. /\ DOMAIN transcript = 1 .. Len(transcript)
      /\ DOMAIN transcript' = 1 .. Len(transcript) + 1
      /\ Len(transcript) \in Nat
      /\ \A i \in 1 .. Len(transcript) : transcript'[i] = transcript[i]
      /\ transcript'[Len(transcript) + 1] = [line |-> line, at |-> now]
  BY AppendedLine
<1>1. Chunks' = IF line.kind \in Noted THEN Chunks \cup {Len(transcript) + 1} ELSE Chunks
  BY <1>0 DEF Chunks
<1>2. Len(transcript) + 1 \notin Chunks /\ Chunks \subseteq 1 .. Len(transcript)
  BY <1>0 DEF Chunks
<1>3. /\ \A i \in Chunks : transcript'[i].line = transcript[i].line
      /\ transcript'[Len(transcript) + 1].line = line
      /\ \A i : i \in Chunks' <=>
            i \in Chunks \/ (i = Len(transcript) + 1 /\ line.kind \in Noted)
  BY <1>0, <1>1, <1>2
<1>4. Texts' = IF line.kind \in Noted /\ line.content
               THEN Texts \cup {Len(transcript) + 1} ELSE Texts
  <2>1. \A i : i \in Texts' <=>
          i \in Texts \/ (i = Len(transcript) + 1 /\ line.kind \in Noted /\ line.content)
    BY <1>2, <1>3 DEF Texts
  <2> QED BY <2>1
<1>5. Usages' = IF line.kind \in Noted /\ line.usage # None
                THEN Usages \cup {Len(transcript) + 1} ELSE Usages
  <2>1. \A i : i \in Usages' <=>
          i \in Usages \/ (i = Len(transcript) + 1 /\ line.kind \in Noted /\ line.usage # None)
    BY <1>2, <1>3 DEF Usages
  <2> QED BY <2>1
<1>6. ASSUME NEW f \in Counters
      PROVE  Gives(f)' = IF line.kind \in Noted /\ line.usage # None /\ line.usage[f] # None
                         THEN Gives(f) \cup {Len(transcript) + 1} ELSE Gives(f)
  <2>1. Usages \subseteq Chunks BY DEF Usages
  <2>2. \A i : i \in Gives(f)' <=>
          \/ i \in Gives(f)
          \/ i = Len(transcript) + 1 /\ line.kind \in Noted /\ line.usage # None
             /\ line.usage[f] # None
    BY <1>2, <1>3, <1>5, <2>1 DEF Gives
  <2> QED BY <2>2
<1> QED BY <1>1, <1>2, <1>4, <1>5, <1>6

(* An element of the transcript is a line and the time it was read. *)
LEMMA TranscriptElement ==
  ASSUME TypeOK, NEW i \in Chunks
  PROVE  transcript[i].at \in Nat
<1>1. i \in 1 .. Len(transcript) BY DEF Chunks, TypeOK
<1>2. transcript[i] \in [line : Lines, at : Nat] BY <1>1, ElementOfSeq DEF TypeOK
<1> QED BY <1>2

LEMMA InitEstablishesIInv == Init => IInv
<1> SUFFICES ASSUME Init PROVE IInv OBVIOUS
<1> USE StreamAssumption DEF Init
<1>1. TypeOK
  <2>1. counts \in [Counters -> Reading] BY DEF Reading
  <2>2. transcript \in Seq([line : Lines, at : Nat]) BY EmptySeq
  <2>3. now \in Nat OBVIOUS
  <2> QED BY <2>1, <2>2, <2>3 DEF TypeOK, Places, Errors
<1>2. AgreesWithTranscript
  <2>1. Chunks = {} BY DEF Chunks
  <2>2. Texts = {} /\ Usages = {} /\ \A f \in Counters : Gives(f) = {}
    BY <2>1 DEF Texts, Usages, Gives
  <2> QED BY <2>2 DEF AgreesWithTranscript, FirstTokenIsFirst, CountsAreLatest
<1>3. Progress
  BY DEF Progress, Open
<1> QED BY <1>1, <1>2, <1>3 DEF IInv

LEMMA TypePreserved == TypeOK /\ [Next]_vars => TypeOK'
<1> SUFFICES ASSUME TypeOK, [Next]_vars PROVE TypeOK' OBVIOUS
<1> USE StreamAssumption DEF TypeOK, Places, Errors
<1>1. CASE RefuseWithoutSecret /\ UNCHANGED secret
  BY <1>1 DEF RefuseWithoutSecret, times, usage, status
<1>2. CASE Send /\ UNCHANGED secret
  BY <1>2 DEF Send, usage, status
<1>3. CASE Respond /\ UNCHANGED secret
  BY <1>3 DEF Respond, times, usage, status
<1>4. ASSUME NEW line \in Lines, ReadLine(line), UNCHANGED secret PROVE TypeOK'
  <2>1. transcript' \in Seq([line : Lines, at : Nat]) BY <1>4 DEF ReadLine
  <2>2. CASE line.kind \notin Noted
    BY <1>4, <2>1, <2>2
    DEF ReadLine, Skip, Finish, Noted, times, usage, status
  <2>3. CASE line.kind \in Noted
    <3>1. /\ ReadChunk(line) /\ now' = now
          /\ pc' \in {pc, "closing"} /\ raising' \in {raising, "other"}
      BY <1>4, <2>3 DEF ReadLine, Throw, Noted
    <3>2. counts' \in [Counters -> Reading] /\ usage_reported' \in BOOLEAN
      BY <3>1 DEF ReadChunk, NoteUsage, usage
    <3>3. first_token_s' \in Nat \cup {None} BY <3>1 DEF ReadChunk, NoteToken
    <3> QED BY <1>4, <2>1, <3>1, <3>2, <3>3 DEF ReadChunk, Exceptions, status
  <2> QED BY <2>2, <2>3
<1>5. CASE EndOfStream /\ UNCHANGED secret
  BY <1>5 DEF EndOfStream, Finish, times, usage
<1>6. ASSUME NEW e \in Exceptions, Break(e) \/ (RefuseStatus /\ e = "http"), UNCHANGED secret
      PROVE  TypeOK'
  BY <1>6 DEF Break, RefuseStatus, Throw, Exceptions, times, usage, status
<1>7. ASSUME NEW e \in Exceptions, FailToConnect(e) \/ FailToClose(e), UNCHANGED secret
      PROVE  TypeOK'
  BY <1>7 DEF FailToConnect, FailToClose, Conclude, Empty, Exceptions, usage, status
<1>8. CASE Close /\ UNCHANGED secret
  BY <1>8 DEF Close, Conclude, Empty, Exceptions, usage, status
<1>9. CASE Tick
  BY <1>9 DEF Tick, times, usage, status
<1>10. CASE UNCHANGED vars
  BY <1>10 DEF vars, times, usage, status
<1>11. "http" \in Exceptions BY DEF Exceptions
<1> QED
  BY <1>1, <1>2, <1>3, <1>4, <1>5, <1>6, <1>7, <1>8, <1>9, <1>10, <1>11 DEF Next, Resume, Exit

(* Steps that read no line leave the kept values and the transcript alone.   *)
LEMMA OnlyReadingLearns ==
  ASSUME [Next]_vars, \A line \in Lines : ~ReadLine(line)
  PROVE  UNCHANGED <<first_token_s, usage, transcript>>
  BY DEF Next, Resume, RefuseWithoutSecret, Send, Respond, RefuseStatus, EndOfStream, Close,
         FailToConnect, Break, FailToClose, Conclude, Tick, Exit, Finish, Throw,
         vars, times, usage, status

LEMMA AgreementPreserved ==
  TypeOK /\ AgreesWithTranscript /\ [Next]_vars => AgreesWithTranscript'
<1> SUFFICES ASSUME TypeOK, AgreesWithTranscript, [Next]_vars PROVE AgreesWithTranscript' OBVIOUS
<1>1. CASE \A line \in Lines : ~ReadLine(line)
  <2>1. UNCHANGED <<first_token_s, usage, transcript>> BY <1>1, OnlyReadingLearns
  <2> QED BY <2>1 DEF AgreesWithTranscript, FirstTokenIsFirst, CountsAreLatest,
                      Texts, Usages, Gives, Chunks, usage
<1>2. ASSUME NEW line \in Lines, ReadLine(line) PROVE AgreesWithTranscript'
  <2> DEFINE n == Len(transcript) + 1
  <2>0. /\ DOMAIN transcript = 1 .. Len(transcript) /\ Len(transcript) \in Nat
        /\ n \in Nat /\ transcript'[n] = [line |-> line, at |-> now]
        /\ \A i \in 1 .. Len(transcript) : transcript'[i] = transcript[i]
    BY <1>2, AppendedLine
  <2>1. Chunks \subseteq 1 .. Len(transcript) /\ Texts \subseteq Chunks /\ Usages \subseteq Chunks
        /\ \A f \in Counters : Gives(f) \subseteq Usages
    BY <2>0 DEF Chunks, Texts, Usages, Gives
  <2>2. CASE line.kind \notin Noted
    <3>1. UNCHANGED <<first_token_s, counts, usage_reported>>
      BY <1>2, <2>2 DEF ReadLine, Skip, Finish, Noted, times, usage
    <3>2. UNCHANGED <<Texts, Usages>> /\ \A f \in Counters : Gives(f)' = Gives(f)
      BY <1>2, <2>2, AppendedChunks
    <3>3. FirstTokenIsFirst'
      BY <2>0, <2>1, <3>1, <3>2 DEF AgreesWithTranscript, FirstTokenIsFirst
    <3>4. CountsAreLatest'
      BY <2>0, <2>1, <3>1, <3>2 DEF AgreesWithTranscript, CountsAreLatest
    <3> QED BY <3>1, <3>2, <3>3, <3>4 DEF AgreesWithTranscript
  <2>3. CASE line.kind \in Noted
    <3>1. NoteToken(line) /\ NoteUsage(line) BY <1>2, <2>3 DEF ReadLine, ReadChunk, Noted
    <3>2. FirstTokenIsFirst'
      <4>1. CASE line.content
        <5>1. Texts' = Texts \cup {n} BY <1>2, <2>3, <4>1, AppendedChunks
        <5>2. CASE Texts = {}
          <6>1. first_token_s' = now
            BY <3>1, <4>1, <5>2 DEF NoteToken, AgreesWithTranscript, FirstTokenIsFirst
          <6> QED BY <2>0, <5>1, <5>2, <6>1 DEF FirstTokenIsFirst
        <5>3. CASE Texts # {}
          <6>1. PICK i \in Texts : first_token_s = transcript[i].at /\ \A j \in Texts : i <= j
            BY <5>3 DEF AgreesWithTranscript, FirstTokenIsFirst
          <6>2. transcript[i].at \in Nat
            BY <2>1, <6>1, TranscriptElement
          <6>3. first_token_s' = first_token_s
            BY <3>1, <6>1, <6>2, StreamAssumption DEF NoteToken
          <6>4. i <= n /\ transcript'[i] = transcript[i] BY <2>0, <2>1
          <6> QED BY <5>1, <6>1, <6>3, <6>4 DEF FirstTokenIsFirst
        <5> QED BY <5>2, <5>3
      <4>2. CASE ~line.content
        <5>1. Texts' = Texts BY <1>2, <4>2, AppendedChunks
        <5>2. first_token_s' = first_token_s BY <3>1, <4>2 DEF NoteToken
        <5> QED BY <2>0, <2>1, <5>1, <5>2 DEF AgreesWithTranscript, FirstTokenIsFirst
      <4> QED BY <4>1, <4>2
    <3>3. CountsAreLatest'
      <4> SUFFICES ASSUME NEW f \in Counters
                   PROVE  IF Gives(f)' = {} THEN counts'[f] = None
                          ELSE \E i \in Gives(f)' :
                                 /\ counts'[f] = transcript'[i].line.usage[f]
                                 /\ \A j \in Gives(f)' : j <= i
        BY DEF CountsAreLatest
      <4>1. CASE line.usage # None /\ line.usage[f] # None
        <5>1. Gives(f)' = Gives(f) \cup {n} BY <1>2, <2>3, <4>1, AppendedChunks
        <5>2. counts'[f] = line.usage[f] BY <3>1, <4>1 DEF NoteUsage
        <5>3. n \in Gives(f)' /\ counts'[f] = transcript'[n].line.usage[f]
          BY <2>0, <5>1, <5>2
        <5>4. \A j \in Gives(f)' : j <= n
          <6>1. \A j \in Gives(f) : j \in 1 .. Len(transcript) BY <2>1
          <6>2. \A j \in 1 .. Len(transcript) : j <= n BY <2>0
          <6>3. n <= n BY <2>0
          <6> QED BY <5>1, <6>1, <6>2, <6>3
        <5> QED BY <5>3, <5>4
      <4>2. CASE ~(line.usage # None /\ line.usage[f] # None)
        <5>1. Gives(f)' = Gives(f) BY <1>2, <4>2, AppendedChunks
        <5>2. counts'[f] = counts[f] BY <3>1, <4>2 DEF NoteUsage, usage
        <5> QED BY <2>0, <2>1, <5>1, <5>2 DEF AgreesWithTranscript, CountsAreLatest
      <4> QED BY <4>1, <4>2
    <3>4. usage_reported' <=> Usages' # {}
      <4>1. CASE line.usage = None
        BY <1>2, <3>1, <4>1, AppendedChunks DEF NoteUsage, usage, AgreesWithTranscript
      <4>2. CASE line.usage # None
        BY <1>2, <2>3, <3>1, <4>2, AppendedChunks DEF NoteUsage
      <4> QED BY <4>1, <4>2
    <3> QED BY <3>2, <3>3, <3>4 DEF AgreesWithTranscript
  <2> QED BY <2>2, <2>3
<1> QED BY <1>1, <1>2

LEMMA ProgressPreserved == TypeOK /\ Progress /\ [Next]_vars => Progress'
<1> SUFFICES ASSUME TypeOK, Progress, [Next]_vars PROVE Progress' OBVIOUS
<1> USE StreamAssumption DEF TypeOK, Progress, Open, Places, Errors
<1>1. CASE RefuseWithoutSecret /\ UNCHANGED secret
  BY <1>1 DEF RefuseWithoutSecret, times, usage, status
<1>2. CASE Send /\ UNCHANGED secret
  BY <1>2 DEF Send, usage, status
<1>3. CASE Respond /\ UNCHANGED secret
  BY <1>3 DEF Respond, times, usage, status
<1>4. ASSUME NEW line \in Lines, ReadLine(line), UNCHANGED secret PROVE Progress'
  <2>1. pc = "reading" /\ now' = now BY <1>4 DEF ReadLine
  <2>2. CASE ReadChunk(line)
    <3>1. first_token_s' \in {first_token_s, now} BY <2>2 DEF ReadChunk, NoteToken
    <3>2. \/ pc' = pc /\ raising' = raising
          \/ pc' = "closing" /\ (raising' = "other" \/ (success' /\ raising' = raising))
      BY <1>4 DEF ReadLine, Skip, Finish, Throw
    <3> QED BY <2>1, <2>2, <3>1, <3>2 DEF ReadChunk, status
  <2>3. CASE ~ReadChunk(line)
    BY <1>4, <2>1, <2>3 DEF ReadLine, Skip, Finish, times, usage, status
  <2> QED BY <2>2, <2>3
<1>5. CASE EndOfStream /\ UNCHANGED secret
  BY <1>5 DEF EndOfStream, Finish, times, usage
<1>6. ASSUME NEW e \in Exceptions, Break(e) \/ (RefuseStatus /\ e = "http"), UNCHANGED secret
      PROVE  Progress'
  BY <1>6 DEF Break, RefuseStatus, Throw, Exceptions, times, usage, status
<1>7. ASSUME NEW e \in Exceptions, FailToConnect(e) \/ FailToClose(e), UNCHANGED secret
      PROVE  Progress'
  BY <1>7 DEF FailToConnect, FailToClose, Conclude, Empty, Exceptions, usage, status
<1>8. CASE Close /\ UNCHANGED secret
  BY <1>8 DEF Close, Conclude, Empty, Exceptions, usage, status
<1>9. CASE Tick
  BY <1>9 DEF Tick, times, usage, status
<1>10. CASE UNCHANGED vars
  BY <1>10 DEF vars, times, usage, status
<1>11. "http" \in Exceptions BY DEF Exceptions
<1> QED
  BY <1>1, <1>2, <1>3, <1>4, <1>5, <1>6, <1>7, <1>8, <1>9, <1>10, <1>11 DEF Next, Resume, Exit

THEOREM ReaderInvariant == Spec => []IInv
<1>1. IInv /\ [Next]_vars => IInv'
  BY TypePreserved, AgreementPreserved, ProgressPreserved DEF IInv
<1> QED BY InitEstablishesIInv, <1>1, PTL DEF Spec

(* The variables of a call keep their types. *)
THEOREM ReaderTypeCorrect == Spec => []TypeOK
<1>1. IInv => TypeOK BY DEF IInv
<1> QED BY ReaderInvariant, <1>1, PTL

(* Whatever lines an endpoint sends, the loop of _call_endpoint keeps what a *)
(* reader of the whole stream would find.                                    *)
THEOREM ReadsWhatWasSent == Spec => []AgreesWithTranscript
<1>1. IInv => AgreesWithTranscript BY DEF IInv
<1> QED BY ReaderInvariant, <1>1, PTL

LEMMA TextsMeanToken ==
  ASSUME IInv PROVE Texts = {} <=> first_token_s = None
<1>1. ASSUME NEW i \in Texts PROVE transcript[i].at # None
  <2>1. transcript[i].at \in Nat BY <1>1, TranscriptElement DEF IInv, Texts
  <2> QED BY <2>1, StreamAssumption
<1> QED BY <1>1 DEF IInv, AgreesWithTranscript, FirstTokenIsFirst

(* A returned result is a success whose stream was read to the end, with a   *)
(* token inside the call's interval, or it says what went wrong; it says     *)
(* "empty stream" only of a stream without text.                             *)
THEOREM ResultsJustified == Spec => []ResultIsJustified
<1>1. IInv => ResultIsJustified
  BY TextsMeanToken DEF IInv, Progress, ResultIsJustified
<1> QED BY ReaderInvariant, <1>1, PTL

(* The safety part of ImplementsEndpointCall: every step of a call is a step *)
(* of EndpointCall or leaves its variables alone.                            *)
THEOREM RefinesEndpointCall == Spec => Call!Spec
<1> USE DEF Call!Init, Call!Next, Call!vars, Call!Refuse, Call!Send, Call!Answer, Call!End,
            Call!Verdicts, Open
<1>1. Init => Call!Init BY DEF Init
<1>2. IInv /\ [Next]_vars => [Call!Next]_(Call!vars)
  <2> SUFFICES ASSUME IInv, [Next]_vars PROVE [Call!Next]_(Call!vars) OBVIOUS
  <2> USE DEF IInv, TypeOK, Places
  <2>1. CASE RefuseWithoutSecret BY <2>1 DEF RefuseWithoutSecret, times, usage, status
  <2>2. CASE Send BY <2>2 DEF Send, usage, status
  <2>3. CASE Respond BY <2>3 DEF Respond, times, usage, status
  <2>4. ASSUME NEW line \in Lines, ReadLine(line) PROVE [Call!Next]_(Call!vars)
    <3>1. CASE ReadChunk(line)
      <4>1. first_token_s # None => first_token_s' = first_token_s
        BY <3>1 DEF ReadChunk, NoteToken
      <4> QED BY <2>4, <3>1, <4>1 DEF ReadLine, Skip, Finish, ReadChunk, Throw, status
    <3>2. CASE ~ReadChunk(line)
      BY <2>4, <3>2 DEF ReadLine, Skip, Finish, times, usage, status
    <3> QED BY <3>1, <3>2
  <2>5. CASE EndOfStream BY <2>5 DEF EndOfStream, Finish, times, usage
  <2>6. ASSUME NEW e \in Exceptions, Break(e) \/ RefuseStatus
        PROVE  [Call!Next]_(Call!vars)
    BY <2>6 DEF Break, RefuseStatus, Throw, times, usage, status
  <2>7. ASSUME NEW e \in Exceptions, FailToConnect(e) \/ FailToClose(e)
        PROVE  [Call!Next]_(Call!vars)
    BY <2>7 DEF FailToConnect, FailToClose, Conclude, Empty, usage, status
  <2>8. CASE Close BY <2>8 DEF Close, Conclude, Empty, usage, status
  <2>9. CASE Tick BY <2>9 DEF Tick, times, usage, status
  <2>10. CASE UNCHANGED vars BY <2>10 DEF vars, times, usage, status
  <2>11. "http" \in Exceptions BY DEF Exceptions
  <2> QED
    BY <2>1, <2>2, <2>3, <2>4, <2>5, <2>6, <2>7, <2>8, <2>9, <2>10, <2>11 DEF Next, Resume, Exit
<1> QED BY ReaderInvariant, <1>1, <1>2, PTL DEF Spec, Call!Spec
=============================================================================
