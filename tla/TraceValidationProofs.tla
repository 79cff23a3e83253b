------------------------ MODULE TraceValidationProofs ------------------------
(***************************************************************************)
(* Proofs about TraceValidation, for every trace.                          *)
(*                                                                         *)
(* The inductive invariant says what each loop has established about the   *)
(* records before index, and of the search what SearchIsSound says, where  *)
(* each pending call stands, and that the finished requests have no cycle. *)
(***************************************************************************)
EXTENDS TraceValidation, FiniteSetTheorems, FunctionTheorems, SequenceTheorems, TLAPS

Id(i) == trace[i].request_id

(* Every check on a record but the one against the records before it. *)
FieldsAreSound(r) ==
  /\ r.request_id # Bad
  /\ Bad \notin {r.workflow, r.tenant, r.domain, r.prefix}
  /\ r.deps # Bad
  /\ \A i \in DOMAIN r.deps : r.deps[i] \notin {Bad, r.request_id}
  /\ IsInjective(r.deps)
  /\ IsInteger(r.prompt, 1) /\ IsInteger(r.output, 1)
  /\ IsInteger(r.shared, 0) /\ r.shared <= r.prompt
  /\ IsInteger(r.arrival, 0)
  /\ IsInteger(r.deadline, 1)

Shaped == trace \in Seq(ToSet(trace)) /\ \A i \in DOMAIN trace : HasShape(trace[i])

(* A valid trace, without the functions that TraceDag takes it for. *)
IdsDiffer == \A i, j \in DOMAIN trace : Id(i) = Id(j) => i = j

OwnersAgree ==
  \A i \in DOMAIN trace : \A k \in DOMAIN trace[i].deps :
    \E j \in DOMAIN trace :
      /\ Id(j) = trace[i].deps[k]
      /\ trace[j].workflow = trace[i].workflow
      /\ trace[j].tenant = trace[i].tenant
      /\ trace[j].domain = trace[i].domain

NoCycle ==
  \A S \in SUBSET Names :
    S # {} => \E i \in DOMAIN trace : Id(i) \in S /\ ToSet(trace[i].deps) \cap S = {}

IsValid ==
  /\ trace # <<>>
  /\ \A i \in DOMAIN trace : FieldsAreSound(trace[i])
  /\ IdsDiffer /\ OwnersAgree /\ NoCycle
-----------------------------------------------------------------------------
(* Each id has one place when the ids differ. *)
LEMMA PlaceOfId ==
  ASSUME IdsDiffer, NEW i \in DOMAIN trace
  PROVE  Id(i) \in Names /\ Place(Id(i)) = i
BY DEF IdsDiffer, Names, Place, Id

LEMMA NameHasPlace ==
  ASSUME NEW id \in Names
  PROVE  Place(id) \in DOMAIN trace /\ Id(Place(id)) = id
BY DEF Names, Place, Id

(* The domain of a sequence of any elements. *)
LEMMA Domains ==
  ASSUME Shaped
  PROVE  /\ Len(trace) \in Nat /\ DOMAIN trace = 1 .. Len(trace)
         /\ \A i \in DOMAIN trace : trace[i].deps # Bad =>
              /\ Len(trace[i].deps) \in Nat
              /\ DOMAIN trace[i].deps = 1 .. Len(trace[i].deps)
<1>1. Len(trace) \in Nat /\ DOMAIN trace = 1 .. Len(trace)
  BY LenProperties DEF Shaped
<1>2. ASSUME NEW i \in DOMAIN trace, trace[i].deps # Bad
      PROVE  Len(trace[i].deps) \in Nat /\ DOMAIN trace[i].deps = 1 .. Len(trace[i].deps)
  <2>1. trace[i].deps \in Seq(ToSet(trace[i].deps))
    BY <1>2 DEF Shaped, HasShape
  <2> QED BY <2>1, LenProperties
<1> QED BY <1>1, <1>2

(* The record of a name in the instance is the record at its place. *)
LEMMA GraphFields ==
  ASSUME NEW id \in Names
  PROVE  LET r == trace[Place(id)]
         IN  /\ Graph!Deps(id) = ToSet(r.deps)
             /\ Graph!ValidRecord(id) <=>
                  /\ Place(id) \in Nat
                  /\ r.arrival \in Nat
                  /\ r.deadline \in Nat \ {0}
                  /\ r.prompt \in Nat \ {0}
                  /\ r.output \in Nat \ {0}
                  /\ r.shared \in 0 .. r.prompt
                  /\ ToSet(r.deps) \subseteq Names \ {id}
             /\ \A d \in Names : Graph!SameOwner(id, d) <=>
                  /\ r.workflow = trace[Place(d)].workflow
                  /\ r.tenant = trace[Place(d)].tenant
                  /\ r.domain = trace[Place(d)].domain
<1>1. Graph!Deps(id) = ToSet(trace[Place(id)].deps)
  BY DEF Graph!Deps
<1> QED
  BY <1>1 DEF Graph!ValidRecord, Graph!SameOwner

(* What VerdictIsRight asks of an accepted trace, in terms of the trace. *)
LEMMA ValidityMeans ==
  ASSUME Shaped
  PROVE  WellTyped /\ Graph!ValidTrace <=> IsValid
<1> USE Domains
<1>1. ASSUME WellTyped, Graph!ValidTrace PROVE IsValid
  <2>1. IdsDiffer
    BY <1>1 DEF WellTyped, IdsDiffer, Id
  <2>2. trace # <<>>
    BY <1>1 DEF Graph!ValidTrace, Names
  <2>3. ASSUME NEW i \in DOMAIN trace PROVE FieldsAreSound(trace[i])
    <3> DEFINE r == trace[i]
    <3>1. Id(i) \in Names /\ Place(Id(i)) = i
      BY <2>1, PlaceOfId
    <3>2. Graph!ValidRecord(Id(i))
      BY <1>1, <3>1 DEF Graph!ValidTrace
    <3>3. /\ r.arrival \in Nat /\ r.deadline \in Nat \ {0}
          /\ r.prompt \in Nat \ {0} /\ r.output \in Nat \ {0} /\ r.shared \in 0 .. r.prompt
          /\ Id(i) \notin ToSet(r.deps)
      BY <3>1, <3>2, GraphFields
    <3>4. /\ r.deps # Bad /\ IsInjective(r.deps)
          /\ Bad \notin {r.request_id, r.workflow, r.tenant, r.domain, r.prefix}
          /\ Bad \notin ToSet(r.deps)
          /\ Bad \notin {r.arrival, r.deadline, r.prompt, r.output, r.shared}
      BY <1>1 DEF WellTyped
    <3>5. \A k \in DOMAIN r.deps : r.deps[k] \notin {Bad, r.request_id}
      BY <3>3, <3>4 DEF Id, ToSet
    <3> QED
      BY <3>3, <3>4, <3>5 DEF FieldsAreSound, IsInteger
  <2>4. OwnersAgree
    <3> SUFFICES ASSUME NEW i \in DOMAIN trace, NEW k \in DOMAIN trace[i].deps
                 PROVE  \E j \in DOMAIN trace :
                          /\ Id(j) = trace[i].deps[k]
                          /\ trace[j].workflow = trace[i].workflow
                          /\ trace[j].tenant = trace[i].tenant
                          /\ trace[j].domain = trace[i].domain
      BY DEF OwnersAgree
    <3> DEFINE d == trace[i].deps[k]
    <3>1. Id(i) \in Names /\ Place(Id(i)) = i
      BY <2>1, PlaceOfId
    <3>2. d \in Graph!Deps(Id(i))
      BY <3>1, GraphFields DEF ToSet
    <3>3. d \in Names
      <4>1. Graph!ValidRecord(Id(i))
        BY <1>1, <3>1 DEF Graph!ValidTrace
      <4> QED BY <3>1, <3>2, <4>1, GraphFields
    <3>4. Graph!SameOwner(Id(i), d)
      BY <1>1, <3>1, <3>2 DEF Graph!ValidTrace
    <3> HIDE DEF d
    <3>5. Place(d) \in DOMAIN trace /\ Id(Place(d)) = d
      BY <3>3, NameHasPlace
    <3> QED
      BY <3>1, <3>3, <3>4, <3>5, GraphFields DEF d
  <2>5. NoCycle
    <3> SUFFICES ASSUME NEW S \in SUBSET Names, S # {}
                 PROVE  \E i \in DOMAIN trace : Id(i) \in S /\ ToSet(trace[i].deps) \cap S = {}
      BY DEF NoCycle
    <3>1. PICK id \in S : Graph!Deps(id) \cap S = {}
      BY <1>1 DEF Graph!ValidTrace, Graph!Acyclic
    <3> QED
      BY <3>1, NameHasPlace, GraphFields
  <2> QED
    BY <2>1, <2>2, <2>3, <2>4, <2>5 DEF IsValid
<1>2. ASSUME IsValid PROVE WellTyped
  <2>1. ASSUME NEW i \in DOMAIN trace PROVE Bad \notin ToSet(trace[i].deps)
    BY <1>2 DEF IsValid, FieldsAreSound, ToSet
  <2> QED
    BY <1>2, <2>1 DEF WellTyped, IsValid, FieldsAreSound, IsInteger, IdsDiffer, Id
<1>3. ASSUME IsValid PROVE Graph!ValidTrace
  <2>1. Names # {}
    <3>1. Len(trace) # 0
      BY <1>3, EmptySeq DEF IsValid, Shaped
    <3>2. 1 \in DOMAIN trace
      BY <3>1, Domains
    <3> QED BY <3>2 DEF Names
  <2>2. ASSUME NEW id \in Names PROVE Graph!ValidRecord(id)
    <3> DEFINE i == Place(id)
    <3>1. i \in DOMAIN trace /\ Id(i) = id
      BY NameHasPlace
    <3> HIDE DEF i
    <3>2. FieldsAreSound(trace[i]) /\ HasShape(trace[i])
      BY <1>3, <3>1 DEF IsValid, Shaped
    <3>3. ToSet(trace[i].deps) \subseteq Names \ {id}
      <4>1. \A k \in DOMAIN trace[i].deps : trace[i].deps[k] \in Names
        BY <1>3, <3>1 DEF IsValid, OwnersAgree, Names, Id
      <4> QED BY <3>1, <3>2, <4>1 DEF FieldsAreSound, ToSet, Id
    <3>4. /\ trace[i].arrival \in Nat /\ trace[i].deadline \in Nat \ {0}
          /\ trace[i].prompt \in Nat \ {0} /\ trace[i].output \in Nat \ {0}
          /\ trace[i].shared \in 0 .. trace[i].prompt
      BY <3>2 DEF FieldsAreSound, HasShape, IsInteger
    <3>5. i \in Nat
      BY <3>1
    <3> QED
      BY <3>3, <3>4, <3>5, GraphFields DEF i
  <2>3. ASSUME NEW id \in Names, NEW q \in Names,
               [x \in Names |-> Place(x)][id] = [x \in Names |-> Place(x)][q]
        PROVE  id = q
    BY <2>3, NameHasPlace
  <2>4. ASSUME NEW id \in Names, NEW d \in Graph!Deps(id) PROVE Graph!SameOwner(id, d)
    <3>1. Place(id) \in DOMAIN trace /\ Id(Place(id)) = id
      BY NameHasPlace
    <3>2. PICK k \in DOMAIN trace[Place(id)].deps : trace[Place(id)].deps[k] = d
      BY GraphFields DEF ToSet
    <3>3. PICK j \in DOMAIN trace :
            /\ Id(j) = d
            /\ trace[j].workflow = trace[Place(id)].workflow
            /\ trace[j].tenant = trace[Place(id)].tenant
            /\ trace[j].domain = trace[Place(id)].domain
      BY <1>3, <3>1, <3>2 DEF IsValid, OwnersAgree
    <3>4. d \in Names /\ Place(d) = j
      BY <1>3, <3>3, PlaceOfId DEF IsValid
    <3> QED
      BY <3>3, <3>4, GraphFields
  <2>5. Graph!Acyclic
    <3> SUFFICES ASSUME NEW S \in SUBSET Names, S # {}
                 PROVE  \E id \in S : Graph!Deps(id) \cap S = {}
      BY DEF Graph!Acyclic
    <3>1. PICK i \in DOMAIN trace : Id(i) \in S /\ ToSet(trace[i].deps) \cap S = {}
      BY <1>3 DEF IsValid, NoCycle
    <3>2. Place(Id(i)) = i
      BY <1>3, PlaceOfId DEF IsValid
    <3> QED
      BY <3>1, <3>2, GraphFields
  <2> QED
    BY <2>1, <2>2, <2>3, <2>4, <2>5 DEF Graph!ValidTrace
<1> QED
  BY <1>1, <1>2, <1>3
-----------------------------------------------------------------------------
(* The inductive invariant. *)

DepsOf(id) == RecordOf(id).deps

(* The first n records have passed the first loop, which entered them.       *)
Entered(n) ==
  /\ Ids = {Id(i) : i \in 1 .. n}
  /\ \A i \in 1 .. n : FieldsAreSound(trace[i]) /\ by_id[Id(i)] = i

Linked(n) ==
  \A i \in 1 .. n : \A k \in DOMAIN trace[i].deps : LinkIsSound(trace[i], trace[i].deps[k])

Finished == {id \in Ids : state[id] = 2}

(* Every dependency that a pending call has looked at is finished, except    *)
(* the one whose call is pending above it.                                   *)
LookedAt ==
  \A id \in Ids : \A j \in 1 .. cursor[id] - 1 :
    \/ state[DepsOf(id)[j]] = 2
    \/ \E k \in 1 .. Len(stack) - 1 : stack[k] = id /\ j = cursor[id] - 1

FinishedHasNoCycle ==
  \A S \in SUBSET Finished : S # {} => \E id \in S : ToSet(DepsOf(id)) \cap S = {}

Search ==
  /\ state \in [Ids -> 0 .. 2] /\ cursor \in [Ids -> Nat \ {0}]
  /\ \A id \in Ids :
       /\ cursor[id] <= Len(DepsOf(id)) + 1
       /\ state[id] = 1 <=> id \in ToSet(stack)
       /\ state[id] = 0 => cursor[id] = 1
       /\ state[id] = 2 => ToSet(DepsOf(id)) \subseteq Finished
  /\ IsInjective(stack)
  /\ \A k \in 1 .. Len(stack) - 1 :
       cursor[stack[k]] > 1 /\ DepsOf(stack[k])[cursor[stack[k]] - 1] = stack[k + 1]
  /\ \A i \in 1 .. index - 1 : state[Id(i)] # 0
  /\ LookedAt /\ FinishedHasNoCycle

Loops ==
  /\ phase \in Phases /\ index \in 1 .. Len(trace) + 1 /\ stack \in Seq(Ids)
  /\ phase = "records" => Entered(index - 1) /\ stack = <<>>
  /\ phase \in {"dependencies", "cycles", "accepted"} => trace # <<>> /\ Entered(Len(trace))
  /\ phase = "dependencies" => Linked(index - 1) /\ stack = <<>>
  /\ phase \in {"cycles", "accepted"} => Linked(Len(trace))
  /\ phase = "cycles" => Search
  /\ phase = "accepted" => IsValid
  /\ phase = "rejected" => ~IsValid
  /\ \A id \in Ids : by_id[id] \in 1 .. Len(trace)

IInv == Shaped /\ Loops
-----------------------------------------------------------------------------
(* What says something of the trace alone is not changed by a step. *)
LEMMA TraceStays ==
  ASSUME trace' = trace
  PROVE  /\ Shaped' <=> Shaped
         /\ IsValid' <=> IsValid
         /\ \A i : Id(i)' = Id(i)
<1>1. Shaped' <=> Shaped
  BY DEF Shaped
<1>2. \A i : Id(i)' = Id(i)
  BY DEF Id
<1>3. (IdsDiffer' <=> IdsDiffer) /\ (OwnersAgree' <=> OwnersAgree)
  BY DEF IdsDiffer, OwnersAgree, Id
<1>4. NoCycle' <=> NoCycle
  BY DEF NoCycle, Names, Id
<1> QED
  BY <1>1, <1>2, <1>3, <1>4 DEF IsValid

LEMMA RecordsStay ==
  ASSUME UNCHANGED input, NEW n \in Nat
  PROVE  /\ Ids' = Ids
         /\ \A id : RecordOf(id)' = RecordOf(id) /\ DepsOf(id)' = DepsOf(id)
         /\ Entered(n)' <=> Entered(n)
         /\ Linked(n)' <=> Linked(n)
<1>1. trace' = trace /\ by_id' = by_id
  BY DEF input
<1> QED
  BY <1>1 DEF Ids, RecordOf, DepsOf, Entered, Linked, LinkIsSound, Id

(* When all records are entered, an id has its record, and its dependencies, *)
(* if they are linked, are ids.                                              *)
LEMMA IdRecords ==
  ASSUME Shaped, Entered(Len(trace)), NEW id \in Ids
  PROVE  /\ by_id[id] \in DOMAIN trace /\ RecordOf(id).request_id = id
         /\ Len(DepsOf(id)) \in Nat /\ DOMAIN DepsOf(id) = 1 .. Len(DepsOf(id))
         /\ IsInjective(DepsOf(id)) /\ id \notin ToSet(DepsOf(id))
         /\ Linked(Len(trace)) => ToSet(DepsOf(id)) \subseteq Ids
<1>1. PICK i \in 1 .. Len(trace) : id = Id(i)
  BY DEF Entered
<1>2. by_id[id] = i /\ FieldsAreSound(trace[i]) /\ i \in DOMAIN trace
  BY <1>1, Domains DEF Entered
<1>3. RecordOf(id) = trace[i] /\ DepsOf(id) = trace[i].deps
  BY <1>2 DEF RecordOf, DepsOf
<1>4. id \notin ToSet(DepsOf(id)) /\ IsInjective(DepsOf(id))
  BY <1>1, <1>2, <1>3 DEF FieldsAreSound, ToSet, Id
<1>5. Linked(Len(trace)) => ToSet(DepsOf(id)) \subseteq Ids
  BY <1>3 DEF Linked, LinkIsSound, ToSet
<1> QED
  BY <1>1, <1>2, <1>3, <1>4, <1>5, Domains DEF FieldsAreSound, Id

(* The records of a valid trace pass the checks of both loops. *)
LEMMA ValidRecordsPass ==
  ASSUME IsValid, Shaped, NEW i \in 1 .. Len(trace)
  PROVE  /\ Entered(i - 1) => RecordIsSound(trace[i])
         /\ Entered(Len(trace)) =>
              \A k \in DOMAIN trace[i].deps : LinkIsSound(trace[i], trace[i].deps[k])
<1> USE Domains
<1>1. Entered(i - 1) => trace[i].request_id \notin Ids
  BY DEF Entered, IsValid, IdsDiffer, Id
<1>2. ASSUME Entered(Len(trace)), NEW k \in DOMAIN trace[i].deps
      PROVE  LinkIsSound(trace[i], trace[i].deps[k])
  <2>1. PICK j \in DOMAIN trace :
          /\ Id(j) = trace[i].deps[k]
          /\ trace[j].workflow = trace[i].workflow
          /\ trace[j].tenant = trace[i].tenant
          /\ trace[j].domain = trace[i].domain
    BY DEF IsValid, OwnersAgree
  <2>2. Id(j) \in Ids /\ RecordOf(Id(j)) = trace[j]
    BY <1>2 DEF Entered, RecordOf
  <2> QED
    BY <2>1, <2>2 DEF LinkIsSound
<1> QED
  BY <1>1, <1>2 DEF IsValid, FieldsAreSound, RecordIsSound

(* And records that have passed them lack nothing of a valid trace but that  *)
(* there is no cycle.                                                        *)
LEMMA PassedRecordsAreSound ==
  ASSUME Shaped, Entered(Len(trace)), Linked(Len(trace))
  PROVE  /\ \A i \in DOMAIN trace : FieldsAreSound(trace[i])
         /\ IdsDiffer /\ OwnersAgree /\ Names = Ids
<1> USE Domains
<1>1. \A i \in DOMAIN trace : FieldsAreSound(trace[i]) /\ by_id[Id(i)] = i
  BY DEF Entered
<1>2. IdsDiffer
  BY <1>1 DEF IdsDiffer
<1>3. Names = Ids
  BY DEF Names, Entered, Id
<1>4. ASSUME NEW i \in DOMAIN trace, NEW k \in DOMAIN trace[i].deps
      PROVE  \E j \in DOMAIN trace :
               /\ Id(j) = trace[i].deps[k]
               /\ trace[j].workflow = trace[i].workflow
               /\ trace[j].tenant = trace[i].tenant
               /\ trace[j].domain = trace[i].domain
  <2> DEFINE d == trace[i].deps[k]
  <2>1. LinkIsSound(trace[i], d)
    BY DEF Linked
  <2>2. by_id[d] \in DOMAIN trace /\ RecordOf(d).request_id = d
    BY <2>1, IdRecords DEF LinkIsSound
  <2> QED
    BY <2>1, <2>2 DEF LinkIsSound, RecordOf, Id
<1> QED
  BY <1>1, <1>2, <1>3, <1>4 DEF OwnersAgree
-----------------------------------------------------------------------------
(* The first two loops. *)

LEMMA FreshIsSound ==
  ASSUME Shaped, Fresh, phase = "records"
  PROVE  IInv
<1>1. Ids = {} /\ index = 1 /\ stack = <<>>
  BY DEF Fresh, Ids
<1>2. Entered(0)
  BY <1>1 DEF Entered
<1>3. stack \in Seq(Ids) /\ index \in 1 .. Len(trace) + 1
  BY <1>1, EmptySeq, Domains
<1> QED
  BY <1>1, <1>2, <1>3 DEF IInv, Loops, Phases

LEMMA InitEstablishesIInv == Init => IInv
<1>1. Init => Shaped
  BY TracesAssumption DEF Init, Shaped
<1> QED
  BY <1>1, FreshIsSound DEF Init

LEMMA RejectionKeepsIInv ==
  ASSUME IInv, Reject, ~IsValid
  PROVE  IInv'
<1>1. UNCHANGED <<trace, by_id>> /\ phase' = "rejected" /\ index' = index /\ stack' = stack
  BY DEF Reject, input, search
<1>2. Shaped' /\ ~IsValid'
  BY <1>1, TraceStays DEF IInv
<1> QED
  BY <1>1, <1>2 DEF IInv, Loops, Phases, Ids

LEMMA CheckRecordKeepsIInv ==
  ASSUME IInv, CheckRecord
  PROVE  IInv'
<1> DEFINE r == trace[index]
<1>0. /\ Shaped /\ phase = "records" /\ index \in 1 .. Len(trace) /\ Entered(index - 1)
      /\ stack = <<>> /\ \A id \in Ids : by_id[id] \in 1 .. Len(trace)
      /\ Len(trace) \in Nat
  BY Domains DEF IInv, Loops, CheckRecord
<1>1. CASE RecordIsSound(r)
  <2>1. /\ by_id' = [id \in Ids \cup {Id(index)} |-> IF id = Id(index) THEN index ELSE by_id[id]]
        /\ index' = index + 1 /\ trace' = trace /\ phase' = "records" /\ stack' = <<>>
    BY <1>0, <1>1 DEF CheckRecord, search, Id
  <2>2. Shaped' /\ \A i : Id(i)' = Id(i)
    BY <1>0, <2>1, TraceStays
  <2>3. Id(index) \notin Ids /\ FieldsAreSound(trace[index])
    BY <1>1 DEF RecordIsSound, FieldsAreSound, Id
  <2>4. Entered(index - 1)'
    BY <1>0, <2>1, <2>2, <2>3 DEF Entered, Ids
  <2>5. \A id \in Ids' : by_id'[id] \in 1 .. Len(trace')
    BY <1>0, <2>1 DEF Ids
  <2>6. stack' \in Seq(Ids') /\ index' \in 1 .. Len(trace') + 1
    BY <1>0, <2>1, EmptySeq
  <2> QED
    BY <2>1, <2>2, <2>4, <2>5, <2>6 DEF IInv, Loops, Phases
<1>2. CASE ~RecordIsSound(r)
  <2>1. ~IsValid
    BY <1>0, <1>2, ValidRecordsPass
  <2> QED
    BY <1>2, <2>1, RejectionKeepsIInv DEF CheckRecord
<1> QED
  BY <1>1, <1>2

LEMMA CheckLinksKeepsIInv ==
  ASSUME IInv, CheckLinks
  PROVE  IInv'
<1> DEFINE r == trace[index]
<1>0. /\ Shaped /\ phase = "dependencies" /\ index \in 1 .. Len(trace) /\ Entered(Len(trace))
      /\ Linked(index - 1) /\ trace # <<>> /\ stack = <<>>
      /\ \A id \in Ids : by_id[id] \in 1 .. Len(trace) /\ Len(trace) \in Nat
      /\ Len(trace) \in Nat
  BY Domains DEF IInv, Loops, CheckLinks
<1>1. CASE \A k \in DOMAIN r.deps : LinkIsSound(r, r.deps[k])
  <2>1. index' = index + 1 /\ UNCHANGED input /\ phase' = phase /\ stack' = stack
    BY <1>1 DEF CheckLinks, search
  <2>2. trace' = trace /\ by_id' = by_id
    BY <2>1 DEF input
  <2>3. Shaped' /\ Entered(Len(trace))' /\ Ids' = Ids
    BY <1>0, <2>1, <2>2, TraceStays, RecordsStay
  <2>4. Linked(index)
    BY <1>0, <1>1 DEF Linked
  <2>5. Linked(index - 1)'
    BY <1>0, <2>1, <2>2, <2>4 DEF Linked, LinkIsSound, Ids, RecordOf
  <2>6. stack' \in Seq(Ids') /\ index' \in 1 .. Len(trace') + 1
    BY <1>0, <2>1, <2>2, EmptySeq
  <2> QED
    BY <1>0, <2>1, <2>2, <2>3, <2>5, <2>6 DEF IInv, Loops, Phases
<1>2. CASE ~\A k \in DOMAIN r.deps : LinkIsSound(r, r.deps[k])
  <2>1. ~IsValid
    BY <1>0, <1>2, ValidRecordsPass
  <2> QED
    BY <1>2, <2>1, RejectionKeepsIInv DEF CheckLinks
<1> QED
  BY <1>1, <1>2

LEMMA StartLinksKeepsIInv ==
  ASSUME IInv, StartLinks
  PROVE  IInv'
<1>1. /\ phase = "records" /\ trace # <<>> /\ index > Len(trace)
      /\ phase' = "dependencies" /\ index' = 1
      /\ UNCHANGED input /\ stack' = stack
  BY DEF StartLinks, search
<1>2. trace' = trace /\ by_id' = by_id
  BY <1>1 DEF input
<1>3. /\ Shaped /\ Len(trace) \in Nat /\ index = Len(trace) + 1 /\ Entered(Len(trace))
      /\ stack = <<>> /\ \A id \in Ids : by_id[id] \in 1 .. Len(trace)
  <2>1. Shaped /\ Len(trace) \in Nat
    BY Domains DEF IInv
  <2>2. index = Len(trace) + 1
    BY <1>1, <2>1 DEF IInv, Loops
  <2>3. Entered(index - 1) /\ stack = <<>> /\ \A id \in Ids : by_id[id] \in 1 .. Len(trace)
    BY <1>1 DEF IInv, Loops
  <2> QED
    BY <2>1, <2>2, <2>3
<1>4. Shaped' /\ Ids' = Ids /\ Entered(Len(trace))'
  BY <1>1, <1>2, <1>3, TraceStays, RecordsStay
<1>5. Linked(index - 1)'
  BY <1>1 DEF Linked
<1>6. stack' \in Seq(Ids') /\ index' \in 1 .. Len(trace') + 1
  BY <1>1, <1>2, <1>3, EmptySeq
<1> QED
  BY <1>1, <1>2, <1>3, <1>4, <1>5, <1>6 DEF IInv, Loops, Phases

LEMMA StartSearchKeepsIInv ==
  ASSUME IInv, StartSearch
  PROVE  IInv'
<1>1. /\ phase = "dependencies" /\ index > Len(trace)
      /\ phase' = "cycles" /\ index' = 1
      /\ state' = [id \in Ids |-> 0] /\ cursor' = [id \in Ids |-> 1]
      /\ UNCHANGED input /\ stack' = stack
  BY DEF StartSearch
<1>2. trace' = trace /\ by_id' = by_id
  BY <1>1 DEF input
<1>3. /\ Shaped /\ Len(trace) \in Nat /\ trace # <<>> /\ Entered(Len(trace))
      /\ index = Len(trace) + 1 /\ stack = <<>>
      /\ \A id \in Ids : by_id[id] \in 1 .. Len(trace)
  <2>1. Shaped /\ Len(trace) \in Nat
    BY Domains DEF IInv
  <2> QED
    BY <1>1, <2>1 DEF IInv, Loops
<1>4. Linked(Len(trace))
  <2>1. Linked(index - 1)
    BY <1>1 DEF IInv, Loops
  <2> QED
    BY <1>3, <2>1
<1>5. Shaped' /\ Ids' = Ids /\ Entered(Len(trace))' /\ Linked(Len(trace))'
  BY <1>1, <1>2, <1>3, <1>4, TraceStays, RecordsStay
<1>6. Search'
  <2>1. state' \in [Ids -> 0 .. 2]' /\ cursor' \in [Ids -> Nat \ {0}]'
    BY <1>1, <1>5
  <2>2. ASSUME NEW id \in Ids'
        PROVE  /\ cursor'[id] = 1 /\ state'[id] = 0 /\ Len(DepsOf(id))' \in Nat
               /\ id \notin ToSet(stack)'
    <3>1. Len(DepsOf(id)) \in Nat
      BY <1>3, <1>5, IdRecords
    <3>2. DepsOf(id)' = DepsOf(id)
      BY <1>1, RecordsStay
    <3> QED
      BY <1>1, <1>3, <1>5, <3>1, <3>2 DEF ToSet
  <2>3. Finished' = {}
    BY <2>2 DEF Finished
  <2>4. IsInjective(stack)' /\ 1 .. Len(stack') - 1 = {}
    BY <1>1, <1>3 DEF IsInjective
  <2>5. LookedAt' /\ FinishedHasNoCycle'
    BY <2>2, <2>3 DEF LookedAt, FinishedHasNoCycle
  <2> QED
    BY <1>1, <2>1, <2>2, <2>3, <2>4, <2>5 DEF Search
<1>7. stack' \in Seq(Ids') /\ index' \in 1 .. Len(trace') + 1
  BY <1>1, <1>2, <1>3, EmptySeq
<1> QED
  BY <1>1, <1>2, <1>3, <1>5, <1>6, <1>7 DEF IInv, Loops, Phases
-----------------------------------------------------------------------------
(* The search. *)

(* What is known while it runs. *)
Searching ==
  /\ phase = "cycles" /\ trace # <<>>
  /\ Shaped /\ Entered(Len(trace)) /\ Linked(Len(trace)) /\ Search
  /\ Len(trace) \in Nat /\ index \in 1 .. Len(trace) + 1
  /\ stack \in Seq(Ids) /\ Len(stack) \in Nat /\ DOMAIN stack = 1 .. Len(stack)
  /\ \A id \in Ids :
       /\ by_id[id] \in 1 .. Len(trace)
       /\ Len(DepsOf(id)) \in Nat /\ DOMAIN DepsOf(id) = 1 .. Len(DepsOf(id))
       /\ id \notin ToSet(DepsOf(id)) /\ ToSet(DepsOf(id)) \subseteq Ids

LEMMA SearchFacts ==
  ASSUME IInv, phase = "cycles"
  PROVE  Searching
<1>1. /\ Shaped /\ Entered(Len(trace)) /\ Linked(Len(trace)) /\ Search
      /\ index \in 1 .. Len(trace) + 1 /\ stack \in Seq(Ids) /\ trace # <<>>
  BY DEF IInv, Loops
<1>2. Len(trace) \in Nat /\ \A id \in Ids : by_id[id] \in 1 .. Len(trace)
  BY <1>1, Domains DEF IInv, Loops
<1>3. Len(stack) \in Nat /\ DOMAIN stack = 1 .. Len(stack)
  BY <1>1, LenProperties
<1>4. ASSUME NEW id \in Ids
      PROVE  /\ Len(DepsOf(id)) \in Nat /\ DOMAIN DepsOf(id) = 1 .. Len(DepsOf(id))
             /\ id \notin ToSet(DepsOf(id)) /\ ToSet(DepsOf(id)) \subseteq Ids
  BY <1>1, IdRecords
<1> QED
  BY <1>1, <1>2, <1>3, <1>4 DEF Searching

(* Search' is all that a step of the search that goes on has to establish. *)
LEMMA SearchGoesOn ==
  ASSUME Searching, UNCHANGED input, phase' = "cycles",
         index' \in 1 .. Len(trace) + 1, stack' \in Seq(Ids), Search'
  PROVE  IInv'
<1>1. trace' = trace /\ by_id' = by_id
  BY DEF input
<1>2. Shaped' /\ Ids' = Ids /\ Entered(Len(trace))' /\ Linked(Len(trace))'
  BY <1>1, TraceStays, RecordsStay DEF Searching
<1> QED
  BY <1>1, <1>2 DEF IInv, Loops, Phases, Searching

LEMMA LastOfStack ==
  ASSUME Searching, stack # <<>>
  PROVE  /\ Len(stack) \in Nat \ {0} /\ Last(stack) = stack[Len(stack)]
         /\ Last(stack) \in Ids /\ state[Last(stack)] = 1
<1>1. Len(stack) \in Nat \ {0} /\ Last(stack) = stack[Len(stack)]
  BY EmptySeq DEF Searching, Last
<1>2. Last(stack) \in Ids
  BY <1>1, ElementOfSeq DEF Searching
<1>3. Last(stack) \in ToSet(stack)
  BY <1>1 DEF Searching, ToSet
<1>4. \A id \in Ids : state[id] = 1 <=> id \in ToSet(stack)
  BY DEF Searching, Search
<1> QED
  BY <1>1, <1>2, <1>3, <1>4

(* A call on an id not seen before, from the loop or from the innermost      *)
(* pending call.                                                             *)
CallNew(d) ==
  /\ UNCHANGED input
  /\ d \in Ids /\ state[d] = 0
  /\ state' = [state EXCEPT ![d] = 1] /\ stack' = Append(stack, d)
  /\ index' \in 1 .. Len(trace) + 1
  /\ \A i \in 1 .. index' - 1 : i < index \/ Id(i) = d
  /\ \/ stack = <<>> /\ cursor' = cursor
     \/ /\ stack # <<>>
        /\ cursor[Last(stack)] <= Len(DepsOf(Last(stack)))
        /\ DepsOf(Last(stack))[cursor[Last(stack)]] = d
        /\ cursor' = [cursor EXCEPT ![Last(stack)] = @ + 1]

LEMMA CallKeepsSearch ==
  ASSUME Searching, NEW d, CallNew(d)
  PROVE  stack' \in Seq(Ids) /\ Search'
<1> DEFINE n == Len(stack)
           top == Last(stack)
<1>0. d \in Ids /\ state[d] = 0 /\ n \in Nat
  BY DEF Searching, CallNew
<1>1. /\ n \in Nat /\ DOMAIN stack = 1 .. n /\ stack \in Seq(Ids)
      /\ state \in [Ids -> 0 .. 2] /\ cursor \in [Ids -> Nat \ {0}]
      /\ IsInjective(stack)
  BY DEF Searching, Search
<1>2. stack' \in Seq(Ids) /\ Len(stack') = n + 1 /\ DOMAIN stack' = 1 .. n + 1
  BY <1>0, <1>1, AppendProperties, LenProperties DEF CallNew
<1>3. (\A k \in 1 .. n : stack'[k] = stack[k] /\ stack[k] \in Ids) /\ stack'[n + 1] = d
  BY <1>0, <1>1, AppendProperties, ElementOfSeq DEF CallNew
<1>4. Ids' = Ids /\ \A id : DepsOf(id)' = DepsOf(id)
  BY <1>0, RecordsStay DEF CallNew
<1>5. \A id \in Ids : state[id] = 1 <=> id \in ToSet(stack)
  BY DEF Searching, Search
<1>6. d \notin ToSet(stack)
  BY <1>0, <1>5
<1>7. ToSet(stack') = ToSet(stack) \cup {d}
  <2> HIDE DEF n
  <2>1. 1 .. n + 1 = 1 .. n \cup {n + 1}
    BY <1>0
  <2>2. {stack'[k] : k \in 1 .. n + 1} = {stack[k] : k \in 1 .. n} \cup {d}
    BY <2>1, <1>3
  <2> QED
    BY <2>2, <1>1, <1>2 DEF ToSet
<1>8. n > 0 => top = stack[n] /\ top \in Ids /\ top # d /\ state[top] = 1 /\ stack # <<>>
  <2>1. ASSUME n > 0 PROVE stack # <<>>
    BY <2>1
  <2> QED
    BY <1>0, <2>1, LastOfStack
<1> HIDE DEF n, top
<1>9. \A id \in Ids : state'[id] = IF id = d THEN 1 ELSE state[id]
  BY <1>1 DEF CallNew
<1>10. Finished' = Finished
  BY <1>0, <1>4, <1>9 DEF Finished
<1>11. \A id \in Ids : id # top \/ n = 0 => cursor'[id] = cursor[id]
  <2>1. n = 0 => stack = <<>>
    BY <1>1, EmptySeq DEF n
  <2> QED
    BY <1>1, <2>1 DEF CallNew, top
<1>12. n > 0 => cursor'[top] = cursor[top] + 1 /\ DepsOf(top)[cursor[top]] = d
               /\ cursor[top] <= Len(DepsOf(top)) /\ cursor[top] \in Nat \ {0}
  BY <1>1, <1>8 DEF CallNew, top
<1>13. cursor' \in [Ids -> Nat \ {0}]
  BY <1>1 DEF CallNew
<1>14. ASSUME NEW id \in Ids
       PROVE  /\ cursor'[id] <= Len(DepsOf(id)) + 1
              /\ state'[id] = 1 <=> id \in ToSet(stack')
              /\ state'[id] = 0 => cursor'[id] = 1
              /\ state'[id] = 2 => ToSet(DepsOf(id)) \subseteq Finished
  <2>1. /\ cursor[id] <= Len(DepsOf(id)) + 1
        /\ state[id] = 0 => cursor[id] = 1
        /\ state[id] = 2 => ToSet(DepsOf(id)) \subseteq Finished
        /\ Len(DepsOf(id)) \in Nat
    BY DEF Searching, Search
  <2>2. CASE id = top /\ n > 0
    BY <2>1, <2>2, <1>5, <1>7, <1>8, <1>9, <1>12
  <2>3. CASE ~(id = top /\ n > 0)
    <3>1. cursor'[id] = cursor[id]
      BY <2>3, <1>0, <1>11
    <3>2. cursor[id] \in Nat
      BY <1>1
    <3>3. id = d => state'[id] = 1 /\ id \in ToSet(stack')
      BY <1>7, <1>9
    <3>4. id # d => state'[id] = state[id] /\ (id \in ToSet(stack') <=> id \in ToSet(stack))
      BY <1>7, <1>9
    <3> QED
      BY <2>1, <3>1, <3>2, <3>3, <3>4, <1>5
  <2> QED
    BY <2>2, <2>3
<1>15. IsInjective(stack')
  BY <1>1, <1>2, <1>3, <1>6 DEF IsInjective, ToSet
<1>16. ASSUME NEW k \in 1 .. n
       PROVE  cursor'[stack'[k]] > 1 /\ DepsOf(stack'[k])[cursor'[stack'[k]] - 1] = stack'[k + 1]
  <2>1. CASE k = n
    BY <2>1, <1>1, <1>3, <1>8, <1>12
  <2>2. CASE k # n
    <3>1. stack[k] # top /\ stack[k] \in Ids
      <4>1. n > 0 /\ n \in 1 .. n
        BY <1>0
      <4>2. stack[k] # stack[n]
        BY <2>2, <4>1, <1>1 DEF IsInjective
      <4> QED
        BY <4>1, <4>2, <1>3, <1>8
    <3>2. k \in 1 .. n - 1 /\ k + 1 \in 1 .. n
      BY <2>2, <1>0
    <3>3. cursor[stack[k]] > 1 /\ DepsOf(stack[k])[cursor[stack[k]] - 1] = stack[k + 1]
      BY <3>2 DEF Searching, Search, n
    <3>4. cursor'[stack[k]] = cursor[stack[k]]
      BY <3>1, <1>11
    <3>5. stack'[k] = stack[k] /\ stack'[k + 1] = stack[k + 1]
      BY <3>2, <1>3
    <3> QED
      BY <3>3, <3>4, <3>5
  <2> QED
    BY <2>1, <2>2
<1>17. ASSUME NEW i \in 1 .. index' - 1 PROVE state'[Id(i)] # 0
  <2>1. Id(i) \in Ids
    BY DEF Searching, Entered, CallNew
  <2>2. i < index => state[Id(i)] # 0
    BY DEF Searching, Search
  <2>3. i < index \/ Id(i) = d
    BY DEF CallNew
  <2>4. state'[Id(i)] = IF Id(i) = d THEN 1 ELSE state[Id(i)]
    BY <2>1, <1>9
  <2> QED
    BY <2>2, <2>3, <2>4
<1>18. ASSUME NEW id \in Ids, NEW j \in 1 .. cursor'[id] - 1
       PROVE  \/ state'[DepsOf(id)[j]] = 2
              \/ \E k \in 1 .. n : stack'[k] = id /\ j = cursor'[id] - 1
  <2>1. CASE id = top /\ n > 0 /\ j = cursor[top]
    <3>1. n \in 1 .. n
      BY <2>1, <1>0
    <3>2. stack'[n] = id
      BY <2>1, <3>1, <1>3, <1>8
    <3>3. j = cursor'[id] - 1
      BY <2>1, <1>12
    <3> QED
      BY <3>1, <3>2, <3>3
  <2>2. CASE ~(id = top /\ n > 0 /\ j = cursor[top])
    <3>1. j \in 1 .. cursor[id] - 1
      BY <2>2, <1>1, <1>11, <1>12
    <3>2. \/ state[DepsOf(id)[j]] = 2
          \/ \E k \in 1 .. n - 1 : stack[k] = id /\ j = cursor[id] - 1
      BY <3>1 DEF Searching, Search, LookedAt, n
    <3>3. CASE state[DepsOf(id)[j]] = 2
      <4>1. cursor[id] <= Len(DepsOf(id)) + 1 /\ DOMAIN DepsOf(id) = 1 .. Len(DepsOf(id))
            /\ Len(DepsOf(id)) \in Nat /\ ToSet(DepsOf(id)) \subseteq Ids
            /\ cursor[id] \in Nat
        BY <1>1 DEF Searching, Search
      <4>2. DepsOf(id)[j] \in Ids
        BY <4>1, <3>1 DEF ToSet
      <4>3. state'[DepsOf(id)[j]] = 2
        BY <3>3, <4>2, <1>0, <1>9
      <4> QED
        BY <4>3
    <3>4. CASE \E k \in 1 .. n - 1 : stack[k] = id /\ j = cursor[id] - 1
      <4>1. PICK k \in 1 .. n - 1 : stack[k] = id /\ j = cursor[id] - 1
        BY <3>4
      <4>2. k \in 1 .. n /\ n \in 1 .. n /\ k # n
        BY <4>1, <1>0
      <4>3. stack[k] # stack[n]
        BY <4>2, <1>1 DEF IsInjective
      <4>4. id # top
        BY <4>1, <4>2, <4>3, <1>8
      <4>5. cursor'[id] = cursor[id] /\ stack'[k] = id
        BY <4>1, <4>2, <4>4, <1>3, <1>11
      <4> QED
        BY <4>1, <4>2, <4>5
    <3> QED
      BY <3>2, <3>3, <3>4
  <2> QED
    BY <2>1, <2>2
<1>19. LookedAt'
  <2>1. Len(stack') - 1 = n
    BY <1>1, <1>2
  <2> QED
    BY <2>1, <1>4, <1>18 DEF LookedAt
<1>20. FinishedHasNoCycle'
  <2>1. FinishedHasNoCycle
    BY DEF Searching, Search
  <2> QED
    BY <2>1, <1>4, <1>10 DEF FinishedHasNoCycle
<1>21. \A i \in 1 .. index' - 1 : state'[Id(i)'] # 0
  BY <1>17 DEF Id, input, CallNew
<1>22. state' \in [Ids -> 0 .. 2]
  BY <1>1 DEF CallNew
<1>23. \A k \in 1 .. Len(stack') - 1 :
         cursor'[stack'[k]] > 1
         /\ DepsOf(stack[k])'[cursor'[stack'[k]] - 1] = stack'[k + 1]
  <2>1. Len(stack') - 1 = n
    BY <1>1, <1>2
  <2>2. trace' = trace /\ by_id' = by_id
    BY DEF CallNew, input
  <2> QED
    BY <2>1, <2>2, <1>16 DEF DepsOf, RecordOf
<1> QED
  BY <1>2, <1>4, <1>10, <1>13, <1>14, <1>15, <1>19, <1>20, <1>21, <1>22, <1>23 DEF Search

LEMMA RejectEmptyKeepsIInv ==
  ASSUME IInv, RejectEmpty
  PROVE  IInv'
BY RejectionKeepsIInv DEF RejectEmpty, IsValid

LEMMA VisitRequestKeepsIInv ==
  ASSUME IInv, VisitRequest
  PROVE  IInv'
<1> DEFINE d == Id(index)
<1>1. /\ phase = "cycles" /\ stack = <<>> /\ index <= Len(trace)
      /\ Call(d) /\ index' = index + 1 /\ UNCHANGED input /\ cursor' = cursor
  BY DEF VisitRequest, Id
<1>2. Searching
  BY <1>1, SearchFacts
<1>3. index \in 1 .. Len(trace) /\ index' \in 1 .. Len(trace) + 1
  BY <1>1, <1>2 DEF Searching
<1>4. d \in Ids
  BY <1>2, <1>3 DEF Searching, Entered
<1>5. state[d] # 1
  <2>1. ToSet(stack) = {}
    BY <1>1 DEF ToSet
  <2> QED
    BY <1>2, <1>4, <2>1 DEF Searching, Search
<1>6. state[d] \in 0 .. 2
  BY <1>2, <1>4 DEF Searching, Search
<1> HIDE DEF d
<1>7. CASE state[d] = 2
  <2>1. phase' = "cycles" /\ state' = state /\ stack' = stack
    BY <1>1, <1>7 DEF Call
  <2>2. trace' = trace /\ by_id' = by_id
    BY <1>1 DEF input
  <2>3. Finished' = Finished /\ LookedAt' /\ FinishedHasNoCycle'
    BY <1>1, <1>2, <2>1, <2>2
       DEF Searching, Search, Finished, LookedAt, FinishedHasNoCycle, DepsOf, RecordOf, Ids
  <2>4. \A i \in 1 .. index' - 1 : state'[Id(i)] # 0
    <3>1. \A i \in 1 .. index - 1 : state[Id(i)] # 0
      BY <1>2 DEF Searching, Search
    <3>2. \A i \in 1 .. index' - 1 : i \in 1 .. index - 1 \/ i = index
      BY <1>1, <1>3
    <3> QED
      BY <2>1, <1>7, <3>1, <3>2 DEF d
  <2>5. \A i \in 1 .. index' - 1 : state'[Id(i)'] # 0
    BY <2>2, <2>4 DEF Id
  <2>6. Search'
    BY <1>1, <1>2, <2>1, <2>2, <2>3, <2>5 DEF Searching, Search, DepsOf, RecordOf, Ids
  <2>7. stack' \in Seq(Ids)
    BY <1>2, <2>1 DEF Searching
  <2> QED
    BY <1>1, <1>2, <1>3, <2>1, <2>6, <2>7, SearchGoesOn
<1>8. CASE state[d] = 0
  <2>1. phase' = "cycles" /\ state' = [state EXCEPT ![d] = 1] /\ stack' = Append(stack, d)
    BY <1>1, <1>8 DEF Call
  <2>2. \A i \in 1 .. index' - 1 : i < index \/ Id(i) = d
    BY <1>1, <1>3 DEF d
  <2>3. CallNew(d)
    BY <1>1, <1>3, <1>4, <1>8, <2>1, <2>2 DEF CallNew
  <2> QED
    BY <1>1, <1>2, <1>3, <2>1, <2>3, CallKeepsSearch, SearchGoesOn
<1> QED
  BY <1>5, <1>6, <1>7, <1>8

(* A call on an id whose call is pending closes a cycle: the pending calls   *)
(* from that one on have no member without a dependency among them.          *)
LEMMA PendingCallsFormACycle ==
  ASSUME Searching, stack # <<>>, NEW d \in ToSet(stack),
         d \in ToSet(DepsOf(Last(stack)))
  PROVE  ~IsValid
<1> DEFINE n == Len(stack)
<1> SUFFICES ASSUME NoCycle PROVE FALSE
  BY DEF IsValid
<1>1. n \in Nat \ {0} /\ Last(stack) = stack[n] /\ DOMAIN stack = 1 .. n
  BY LastOfStack DEF Searching
<1>2. PICK m \in 1 .. n : stack[m] = d
  BY <1>1 DEF ToSet
<1> HIDE DEF n
<1> DEFINE S == {stack[j] : j \in m .. n}
<1>3. Names = Ids
  BY PassedRecordsAreSound DEF Searching
<1>4. \A j \in 1 .. n : stack[j] \in Ids
  BY ElementOfSeq DEF Searching, n
<1>5. m .. n \subseteq 1 .. n
  BY <1>1
<1>6. S \subseteq Names
  BY <1>3, <1>4, <1>5
<1>7. d \in S
  BY <1>1, <1>2
<1>8. PICK i \in DOMAIN trace : Id(i) \in S /\ ToSet(trace[i].deps) \cap S = {}
  <2> HIDE DEF S
  <2> QED
    BY <1>6, <1>7 DEF NoCycle
<1>9. PICK j \in m .. n : stack[j] = Id(i)
  BY <1>8
<1>10. DepsOf(stack[j]) = trace[i].deps
  BY <1>9, Domains DEF Searching, Entered, DepsOf, RecordOf
<1>11. CASE j = n
  BY <1>1, <1>7, <1>8, <1>10, <1>11
<1>12. CASE j # n
  <2>1. j \in 1 .. n - 1 /\ j \in 1 .. n /\ j + 1 \in m .. n
    BY <1>1, <1>12
  <2>2. cursor[stack[j]] > 1 /\ DepsOf(stack[j])[cursor[stack[j]] - 1] = stack[j + 1]
    BY <2>1 DEF Searching, Search, n
  <2>3. stack[j] \in Ids
    BY <1>4, <2>1
  <2>4. /\ cursor[stack[j]] <= Len(DepsOf(stack[j])) + 1 /\ cursor[stack[j]] \in Nat
        /\ Len(DepsOf(stack[j])) \in Nat
        /\ DOMAIN DepsOf(stack[j]) = 1 .. Len(DepsOf(stack[j]))
    BY <2>3 DEF Searching, Search
  <2>5. cursor[stack[j]] - 1 \in DOMAIN DepsOf(stack[j])
    BY <2>2, <2>4
  <2>6. stack[j + 1] \in ToSet(DepsOf(stack[j]))
    BY <2>2, <2>5 DEF ToSet
  <2>7. stack[j + 1] \in S
    BY <2>1
  <2> QED
    BY <1>8, <1>10, <2>6, <2>7
<1> QED
  BY <1>11, <1>12

LEMMA VisitDependencyKeepsIInv ==
  ASSUME IInv, VisitDependency
  PROVE  IInv'
<1> DEFINE top == Last(stack)
           d   == DepsOf(top)[cursor[top]]
           n   == Len(stack)
<1>1. /\ phase = "cycles" /\ stack # <<>> /\ cursor[top] <= Len(DepsOf(top))
      /\ Call(d) /\ cursor' = [cursor EXCEPT ![top] = @ + 1]
      /\ UNCHANGED input /\ index' = index
  BY DEF VisitDependency, DepsOf
<1>2. Searching
  BY <1>1, SearchFacts
<1>3. n \in Nat \ {0} /\ top = stack[n] /\ top \in Ids /\ state[top] = 1
  BY <1>1, <1>2, LastOfStack
<1>4. /\ Len(DepsOf(top)) \in Nat /\ DOMAIN DepsOf(top) = 1 .. Len(DepsOf(top))
      /\ ToSet(DepsOf(top)) \subseteq Ids
      /\ cursor \in [Ids -> Nat \ {0}] /\ state \in [Ids -> 0 .. 2]
      /\ index \in 1 .. Len(trace) + 1 /\ Len(trace) \in Nat
      /\ DOMAIN stack = 1 .. n /\ stack \in Seq(Ids)
  BY <1>2, <1>3 DEF Searching, Search
<1>5. cursor[top] \in 1 .. Len(DepsOf(top))
  BY <1>1, <1>3, <1>4
<1>6. d \in ToSet(DepsOf(top)) /\ d \in Ids /\ state[d] \in 0 .. 2
  BY <1>4, <1>5 DEF ToSet
<1>7. trace' = trace /\ by_id' = by_id
  BY <1>1 DEF input
<1>8. Ids' = Ids /\ Shaped' /\ (IsValid' <=> IsValid)
  BY <1>2, <1>7, TraceStays DEF Ids, Searching
<1> HIDE DEF d, top, n
<1>9. CASE state[d] = 1
  <2>1. phase' = "rejected" /\ stack' = stack
    BY <1>1, <1>9 DEF Call
  <2>2. d \in ToSet(stack)
    BY <1>2, <1>6, <1>9 DEF Searching, Search
  <2>3. ~IsValid
    BY <1>1, <1>2, <1>6, <2>2, PendingCallsFormACycle DEF top
  <2> QED
    BY <1>1, <1>7, <1>8, <2>1, <2>3 DEF IInv, Loops, Phases
<1>10. CASE state[d] = 0
  <2>1. phase' = "cycles" /\ state' = [state EXCEPT ![d] = 1] /\ stack' = Append(stack, d)
    BY <1>1, <1>10 DEF Call
  <2>2. \A i \in 1 .. index' - 1 : i < index
    BY <1>1, <1>4
  <2>3. CallNew(d)
    BY <1>1, <1>4, <1>6, <1>10, <2>1, <2>2 DEF CallNew, d, top
  <2> QED
    BY <1>1, <1>2, <1>4, <2>1, <2>3, CallKeepsSearch, SearchGoesOn
<1>11. CASE state[d] = 2
  <2>1. phase' = "cycles" /\ state' = state /\ stack' = stack
    BY <1>1, <1>11 DEF Call
  <2>2. Finished' = Finished /\ FinishedHasNoCycle'
    BY <1>2, <1>7, <2>1
       DEF Searching, Search, Finished, FinishedHasNoCycle, DepsOf, RecordOf, Ids
  <2>3. /\ cursor' \in [Ids -> Nat \ {0}] /\ cursor'[top] = cursor[top] + 1
        /\ \A id \in Ids : id # top => cursor'[id] = cursor[id]
    BY <1>1, <1>3, <1>4
  <2>4. \A k \in 1 .. n - 1 : stack[k] # top /\ stack[k] \in Ids
    <3>1. IsInjective(stack)
      BY <1>2 DEF Searching, Search
    <3>2. ASSUME NEW k \in 1 .. n - 1 PROVE stack[k] # stack[n] /\ stack[k] \in Ids
      <4>1. k \in 1 .. n /\ n \in 1 .. n /\ k # n
        BY <1>3
      <4> QED
        BY <1>4, <3>1, <4>1, ElementOfSeq DEF IsInjective, n
    <3> QED
      BY <1>3, <3>2
  <2>5. LookedAt'
    <3> SUFFICES ASSUME NEW id \in Ids, NEW j \in 1 .. cursor'[id] - 1
                 PROVE  \/ state[DepsOf(id)[j]] = 2
                        \/ \E k \in 1 .. n - 1 : stack[k] = id /\ j = cursor'[id] - 1
      BY <1>7, <1>8, <2>1 DEF LookedAt, n, DepsOf, RecordOf
    <3>1. \A q \in 1 .. cursor[id] - 1 :
            \/ state[DepsOf(id)[q]] = 2
            \/ \E k \in 1 .. n - 1 : stack[k] = id /\ q = cursor[id] - 1
      BY <1>2 DEF Searching, Search, LookedAt, n
    <3>2. CASE id # top
      BY <2>3, <3>1, <3>2
    <3>3. CASE id = top /\ j = cursor[top]
      BY <1>11, <3>3 DEF d
    <3>4. CASE id = top /\ j # cursor[top]
      <4>1. j \in 1 .. cursor[id] - 1
        BY <1>3, <1>4, <2>3, <3>4
      <4> QED
        BY <2>4, <3>1, <3>4, <4>1
    <3> QED
      BY <3>2, <3>3, <3>4
  <2>6. ASSUME NEW id \in Ids
        PROVE  cursor'[id] <= Len(DepsOf(id)) + 1 /\ (state[id] = 0 => cursor'[id] = 1)
    <3>1. cursor[id] <= Len(DepsOf(id)) + 1 /\ (state[id] = 0 => cursor[id] = 1)
      BY <1>2 DEF Searching, Search
    <3> QED
      BY <1>1, <1>3, <1>4, <2>3, <3>1
  <2>7. \A k \in 1 .. n - 1 :
          cursor'[stack[k]] > 1 /\ DepsOf(stack[k])[cursor'[stack[k]] - 1] = stack[k + 1]
    <3>1. \A k \in 1 .. n - 1 :
            cursor[stack[k]] > 1 /\ DepsOf(stack[k])[cursor[stack[k]] - 1] = stack[k + 1]
      BY <1>2 DEF Searching, Search, n
    <3> QED
      BY <2>3, <2>4, <3>1
  <2>8. Search'
    <3>1. /\ IsInjective(stack) /\ \A i \in 1 .. index - 1 : state[Id(i)] # 0
          /\ \A id \in Ids : /\ state[id] = 1 <=> id \in ToSet(stack)
                             /\ state[id] = 2 => ToSet(DepsOf(id)) \subseteq Finished
      BY <1>2 DEF Searching, Search
    <3>2. (\A i : Id(i)' = Id(i)) /\ (\A id : DepsOf(id)' = DepsOf(id))
      BY <1>7 DEF Id, DepsOf, RecordOf
    <3>3. \A i \in 1 .. index' - 1 : state'[Id(i)'] # 0
      BY <1>1, <2>1, <3>1, <3>2
    <3>4. \A k \in 1 .. Len(stack') - 1 :
            cursor'[stack'[k]] > 1
            /\ DepsOf(stack[k])'[cursor'[stack'[k]] - 1] = stack'[k + 1]
      BY <1>7, <2>1, <2>7 DEF n, DepsOf, RecordOf
    <3> QED
      BY <1>4, <1>8, <2>1, <2>2, <2>3, <2>5, <2>6, <3>1, <3>2, <3>3, <3>4 DEF Search
  <2> QED
    BY <1>1, <1>2, <1>4, <2>1, <2>8, SearchGoesOn
<1> QED
  BY <1>6, <1>9, <1>10, <1>11

(* A call returns when all that its record depends on is finished, so the    *)
(* finished requests stay free of cycles.                                    *)
LEMMA LeaveKeepsIInv ==
  ASSUME IInv, Leave
  PROVE  IInv'
<1> DEFINE top == Last(stack)
           n   == Len(stack)
<1>1. /\ phase = "cycles" /\ stack # <<>> /\ cursor[top] > Len(DepsOf(top))
      /\ state' = [state EXCEPT ![top] = 2] /\ stack' = Front(stack)
      /\ UNCHANGED input /\ phase' = phase /\ index' = index /\ cursor' = cursor
  BY DEF Leave, DepsOf
<1>2. Searching
  BY <1>1, SearchFacts
<1>3. n \in Nat \ {0} /\ top = stack[n] /\ top \in Ids /\ state[top] = 1
  BY <1>1, <1>2, LastOfStack
<1>4. /\ Len(DepsOf(top)) \in Nat /\ DOMAIN DepsOf(top) = 1 .. Len(DepsOf(top))
      /\ cursor \in [Ids -> Nat \ {0}] /\ state \in [Ids -> 0 .. 2]
      /\ index \in 1 .. Len(trace) + 1 /\ Len(trace) \in Nat
      /\ DOMAIN stack = 1 .. n /\ stack \in Seq(Ids) /\ IsInjective(stack)
      /\ cursor[top] <= Len(DepsOf(top)) + 1
  BY <1>2, <1>3 DEF Searching, Search
<1>5. \A id \in Ids : ToSet(DepsOf(id)) \subseteq Ids /\ id \notin ToSet(DepsOf(id))
  BY <1>2 DEF Searching
<1>6. trace' = trace /\ by_id' = by_id /\ Ids' = Ids
  BY <1>1 DEF input, Ids
<1>7. (\A i : Id(i)' = Id(i)) /\ (\A id : DepsOf(id)' = DepsOf(id))
  BY <1>6 DEF Id, DepsOf, RecordOf
<1>8. /\ stack' \in Seq(Ids) /\ Len(stack') = n - 1 /\ DOMAIN stack' = 1 .. n - 1
      /\ \A k \in 1 .. n - 1 : stack'[k] = stack[k]
  <2>1. stack' = SubSeq(stack, 1, n - 1)
    BY <1>1 DEF Front
  <2>2. \A i \in 1 .. n - 1 : stack[i] \in Ids
    BY <1>3, <1>4, ElementOfSeq
  <2>3. stack' \in Seq(Ids) /\ Len(stack') = n - 1 /\ \A k \in 1 .. n - 1 : stack'[k] = stack[k]
    BY <1>3, <1>4, <2>1, <2>2, SubSeqProperties
  <2> QED
    BY <2>3, LenProperties
<1>9. \A k \in 1 .. n - 1 : stack[k] # top /\ stack[k] \in Ids
  <2>1. ASSUME NEW k \in 1 .. n - 1 PROVE stack[k] # stack[n] /\ stack[k] \in Ids
    <3>1. k \in 1 .. n /\ n \in 1 .. n /\ k # n
      BY <1>3
    <3> QED
      BY <1>4, <3>1, ElementOfSeq DEF IsInjective
  <2> QED
    BY <1>3, <2>1
<1> HIDE DEF top, n
<1>10. \A id \in Ids : state'[id] = IF id = top THEN 2 ELSE state[id]
  BY <1>1, <1>4
<1>11. ToSet(stack') = ToSet(stack) \ {top}
  <2>1. 1 .. n = (1 .. n - 1) \cup {n}
    BY <1>3
  <2>2. {stack'[k] : k \in 1 .. n - 1} = {stack[k] : k \in 1 .. n} \ {top}
    BY <1>3, <1>8, <1>9, <2>1
  <2> QED
    BY <1>4, <1>8, <2>2 DEF ToSet
<1>12. \A id \in Ids : \A q \in 1 .. cursor[id] - 1 :
         \/ state[DepsOf(id)[q]] = 2
         \/ \E k \in 1 .. n - 1 : stack[k] = id /\ q = cursor[id] - 1
  BY <1>2 DEF Searching, Search, LookedAt, n
<1>13. ToSet(DepsOf(top)) \subseteq Finished
  <2>1. \A q \in 1 .. Len(DepsOf(top)) : q \in 1 .. cursor[top] - 1
    BY <1>1, <1>3, <1>4
  <2>2. \A q \in 1 .. Len(DepsOf(top)) : state[DepsOf(top)[q]] = 2
    BY <1>3, <1>9, <1>12, <2>1
  <2> QED
    BY <1>3, <1>4, <1>5, <2>2 DEF ToSet, Finished
<1>14. Finished' = Finished \cup {top}
  BY <1>3, <1>6, <1>10 DEF Finished
<1>15. top \notin Finished
  BY <1>3 DEF Finished
<1>16. \A id \in Finished : ToSet(DepsOf(id)) \subseteq Finished
  BY <1>2 DEF Searching, Search, Finished
<1>17. FinishedHasNoCycle'
  <2> SUFFICES ASSUME NEW S \in SUBSET (Finished \cup {top}), S # {}
               PROVE  \E id \in S : ToSet(DepsOf(id)) \cap S = {}
    BY <1>7, <1>14 DEF FinishedHasNoCycle
  <2>1. CASE S \ {top} = {}
    <3>1. S = {top}
      BY <2>1
    <3> QED
      BY <1>3, <1>5, <3>1
  <2>2. CASE S \ {top} # {}
    <3>1. PICK id \in S \ {top} : ToSet(DepsOf(id)) \cap (S \ {top}) = {}
      BY <1>2, <2>2 DEF Searching, Search, FinishedHasNoCycle
    <3>2. top \notin ToSet(DepsOf(id))
      BY <1>15, <1>16
    <3> QED
      BY <3>1, <3>2
  <2> QED
    BY <2>1, <2>2
<1>18. LookedAt'
  <2> SUFFICES ASSUME NEW id \in Ids, NEW q \in 1 .. cursor[id] - 1
               PROVE  \/ state'[DepsOf(id)[q]] = 2
                      \/ \E k \in 1 .. n - 2 : stack'[k] = id /\ q = cursor[id] - 1
    <3>1. Len(stack') - 1 = n - 2
      BY <1>3, <1>8
    <3> QED
      BY <1>1, <1>6, <1>7, <3>1 DEF LookedAt
  <2>1. DepsOf(id)[q] \in Ids
    <3>1. /\ Len(DepsOf(id)) \in Nat /\ DOMAIN DepsOf(id) = 1 .. Len(DepsOf(id))
          /\ cursor[id] <= Len(DepsOf(id)) + 1
      BY <1>2 DEF Searching, Search
    <3>2. q \in DOMAIN DepsOf(id)
      BY <1>4, <3>1
    <3> QED
      BY <1>5, <3>2 DEF ToSet
  <2>2. CASE state[DepsOf(id)[q]] = 2
    <3>1. state'[DepsOf(id)[q]] = 2
      BY <1>10, <2>1, <2>2
    <3> QED
      BY <3>1
  <2>3. CASE \E k \in 1 .. n - 1 : stack[k] = id /\ q = cursor[id] - 1
    <3>1. PICK k \in 1 .. n - 1 : stack[k] = id /\ q = cursor[id] - 1
      BY <2>3
    <3>2. CASE k = n - 1
      <4>1. DepsOf(stack[k])[cursor[stack[k]] - 1] = stack[k + 1]
        BY <1>2, <3>1 DEF Searching, Search, n
      <4>2. DepsOf(id)[q] = top
        BY <1>3, <3>1, <3>2, <4>1
      <4>3. state'[DepsOf(id)[q]] = 2
        BY <1>3, <1>10, <4>2
      <4> QED
        BY <4>3
    <3>3. CASE k # n - 1
      <4>1. k \in 1 .. n - 2 /\ stack'[k] = id
        BY <1>3, <1>8, <3>1, <3>3
      <4> QED
        BY <3>1, <4>1
    <3> QED
      BY <3>2, <3>3
  <2> QED
    BY <1>12, <2>2, <2>3
<1>19. Search'
  <2>1. IsInjective(stack')
    <3>1. \A a \in 1 .. n - 1 : a \in 1 .. n
      BY <1>3
    <3>2. \A a, b \in 1 .. n : stack[a] = stack[b] => a = b
      BY <1>4 DEF IsInjective
    <3> QED
      BY <1>8, <3>1, <3>2 DEF IsInjective
  <2>2. ASSUME NEW k \in 1 .. Len(stack') - 1
        PROVE  cursor'[stack'[k]] > 1
               /\ DepsOf(stack[k])[cursor'[stack'[k]] - 1] = stack'[k + 1]
    <3>1. k \in 1 .. n - 1 /\ k + 1 \in 1 .. n - 1
      BY <1>3, <1>8
    <3>2. cursor[stack[k]] > 1 /\ DepsOf(stack[k])[cursor[stack[k]] - 1] = stack[k + 1]
      BY <1>2, <3>1 DEF Searching, Search, n
    <3> QED
      BY <1>1, <1>8, <3>1, <3>2
  <2>3. ASSUME NEW k \in 1 .. Len(stack') - 1
        PROVE  DepsOf(stack[k])'[cursor'[stack'[k]] - 1] = stack'[k + 1]
    <3>1. k \in 1 .. n - 1
      BY <1>3, <1>8
    <3>2. stack'[k] = stack[k]
      BY <1>8, <3>1
    <3> QED
      BY <1>6, <2>2, <3>2 DEF DepsOf, RecordOf
  <2>4. ASSUME NEW id \in Ids
        PROVE  /\ cursor[id] <= Len(DepsOf(id)) + 1
               /\ state'[id] = 1 <=> id \in ToSet(stack')
               /\ state'[id] = 0 => cursor[id] = 1
               /\ state'[id] = 2 => ToSet(DepsOf(id)) \subseteq Finished'
    <3>1. /\ cursor[id] <= Len(DepsOf(id)) + 1
          /\ state[id] = 1 <=> id \in ToSet(stack)
          /\ state[id] = 0 => cursor[id] = 1
          /\ state[id] = 2 => ToSet(DepsOf(id)) \subseteq Finished
      BY <1>2 DEF Searching, Search
    <3>2. CASE id = top
      BY <1>10, <1>11, <1>13, <1>14, <3>1, <3>2
    <3>3. CASE id # top
      BY <1>10, <1>11, <1>14, <3>1, <3>3
    <3> QED
      BY <3>2, <3>3
  <2>5. \A i \in 1 .. index' - 1 : state'[Id(i)'] # 0
    <3>1. ASSUME NEW i \in 1 .. index - 1 PROVE state'[Id(i)] # 0
      <4>1. state[Id(i)] # 0
        BY <1>2 DEF Searching, Search
      <4>2. Id(i) \in Ids
        BY <1>2 DEF Searching, Entered
      <4> QED
        BY <1>10, <4>1, <4>2
    <3> QED
      BY <1>1, <1>7, <3>1
  <2>6. state' \in [Ids -> 0 .. 2]
    <3>1. state \in [Ids -> 0 .. 2]
      BY <1>4
    <3>2. state' = [state EXCEPT ![top] = 2] /\ 2 \in 0 .. 2
      BY <1>1
    <3> QED
      BY <3>1, <3>2
  <2> QED
    BY <1>1, <1>4, <1>6, <1>7, <1>17, <1>18, <2>1, <2>2, <2>3, <2>4, <2>5, <2>6 DEF Search
<1> QED
  BY <1>1, <1>2, <1>4, <1>8, <1>19, SearchGoesOn

LEMMA AcceptKeepsIInv ==
  ASSUME IInv, Accept
  PROVE  IInv'
<1>1. /\ phase = "cycles" /\ stack = <<>> /\ index > Len(trace) /\ phase' = "accepted"
      /\ UNCHANGED input /\ index' = index /\ stack' = stack
  BY DEF Accept, search
<1>2. Searching
  BY <1>1, SearchFacts
<1>3. trace' = trace /\ by_id' = by_id
  BY <1>1 DEF input
<1>4. /\ \A i \in DOMAIN trace : FieldsAreSound(trace[i])
      /\ IdsDiffer /\ OwnersAgree /\ Names = Ids
  BY <1>2, PassedRecordsAreSound DEF Searching
<1>5. Finished = Ids
  <2>1. ToSet(stack) = {}
    BY <1>1 DEF ToSet
  <2>2. ASSUME NEW id \in Ids PROVE state[id] = 2
    <3>1. PICK i \in 1 .. Len(trace) : id = Id(i)
      BY <1>2 DEF Searching, Entered
    <3>2. i \in 1 .. index - 1
      BY <1>1, <1>2 DEF Searching
    <3>3. state[id] # 0 /\ state[id] # 1 /\ state[id] \in 0 .. 2
      BY <1>2, <2>1, <3>1, <3>2 DEF Searching, Search
    <3> QED
      BY <3>3
  <2> QED
    BY <2>2 DEF Finished
<1>6. NoCycle
  <2> SUFFICES ASSUME NEW S \in SUBSET Names, S # {}
               PROVE  \E i \in DOMAIN trace : Id(i) \in S /\ ToSet(trace[i].deps) \cap S = {}
    BY DEF NoCycle
  <2>1. PICK id \in S : ToSet(DepsOf(id)) \cap S = {}
    BY <1>2, <1>4, <1>5 DEF Searching, Search, FinishedHasNoCycle
  <2>2. id \in Ids
    BY <1>4
  <2>3. by_id[id] \in DOMAIN trace /\ RecordOf(id).request_id = id
    BY <1>2, <2>2, IdRecords DEF Searching
  <2> QED
    BY <2>1, <2>3 DEF DepsOf, RecordOf, Id
<1>7. IsValid
  BY <1>2, <1>4, <1>6 DEF IsValid, Searching
<1>8. Shaped' /\ IsValid' /\ Ids' = Ids /\ Entered(Len(trace))' /\ Linked(Len(trace))'
  BY <1>1, <1>2, <1>3, <1>7, TraceStays, RecordsStay DEF Searching
<1> QED
  BY <1>1, <1>2, <1>3, <1>8 DEF IInv, Loops, Phases, Searching
-----------------------------------------------------------------------------
LEMMA NextKeepsIInv == IInv /\ [Next]_vars => IInv'
<1> SUFFICES ASSUME IInv, [Next]_vars PROVE IInv'
  OBVIOUS
<1>1. CASE Validate
  BY <1>1, RejectEmptyKeepsIInv, CheckRecordKeepsIInv, StartLinksKeepsIInv,
     CheckLinksKeepsIInv, StartSearchKeepsIInv, VisitRequestKeepsIInv,
     VisitDependencyKeepsIInv, LeaveKeepsIInv, AcceptKeepsIInv DEF Validate
<1>2. CASE UNCHANGED vars
  <2>1. /\ trace' = trace /\ by_id' = by_id /\ phase' = phase /\ index' = index
        /\ state' = state /\ stack' = stack /\ cursor' = cursor
    BY <1>2 DEF vars, input, search
  <2>2. (Shaped' <=> Shaped) /\ (IsValid' <=> IsValid) /\ \A i : Id(i)' = Id(i)
    BY <2>1, TraceStays
  <2>3. Ids' = Ids /\ \A id : DepsOf(id)' = DepsOf(id)
    BY <2>1 DEF Ids, DepsOf, RecordOf
  <2>4. /\ Entered(index - 1)' <=> Entered(index - 1)
        /\ Entered(Len(trace))' <=> Entered(Len(trace))
        /\ Linked(index - 1)' <=> Linked(index - 1)
        /\ Linked(Len(trace))' <=> Linked(Len(trace))
    BY <2>1 DEF Entered, Linked, LinkIsSound, Ids, RecordOf, Id
  <2>5. Finished' = Finished /\ (LookedAt' <=> LookedAt)
        /\ (FinishedHasNoCycle' <=> FinishedHasNoCycle)
    BY <2>1 DEF Finished, LookedAt, FinishedHasNoCycle, Ids, DepsOf, RecordOf
  <2>6. Search' <=> Search
    BY <2>1, <2>5 DEF Search, Ids, DepsOf, RecordOf, Id
  <2> QED
    BY <2>1, <2>2, <2>3, <2>4, <2>6 DEF IInv, Loops
<1> QED
  BY <1>1, <1>2 DEF Next, Exit

LEMMA Invariance == Spec => []IInv
<1>1. Init => IInv
  BY InitEstablishesIInv
<1>2. IInv /\ [Next]_vars => IInv'
  BY NextKeepsIInv
<1> QED
  BY <1>1, <1>2, PTL DEF Spec

(* A record has fewer dependencies than there are ids: they are distinct     *)
(* ids, none its own.                                                        *)
LEMMA FewerDepsThanIds ==
  ASSUME Searching, NEW id \in Ids
  PROVE  Cardinality(Ids) \in Nat /\ Len(DepsOf(id)) < Cardinality(Ids)
<1> DEFINE place == [q \in Ids |-> by_id[q]]
           deps  == [k \in 1 .. Len(DepsOf(id)) |-> DepsOf(id)[k]]
           rest  == Ids \ {id}
<1>1. Len(trace) \in Nat /\ Len(DepsOf(id)) \in Nat
  BY DEF Searching
<1>2. IsFiniteSet(Ids)
  <2>1. \A q \in Ids : by_id[q] \in 1 .. Len(trace) /\ Id(by_id[q]) = q
    BY IdRecords DEF Searching, RecordOf, Id
  <2>2. place \in Injection(Ids, 1 .. Len(trace))
    BY <2>1, Fun_IsInj
  <2> QED
    BY <1>1, <2>2, FS_Injection, FS_Interval
<1>3. deps \in Injection(1 .. Len(DepsOf(id)), rest)
  <2>1. IsInjective(DepsOf(id)) /\ DOMAIN DepsOf(id) = 1 .. Len(DepsOf(id))
    BY IdRecords DEF Searching
  <2>2. \A k \in 1 .. Len(DepsOf(id)) : DepsOf(id)[k] \in rest
    BY <2>1 DEF Searching, ToSet
  <2>3. deps \in [1 .. Len(DepsOf(id)) -> rest]
    BY <2>2
  <2>4. \A a, b \in 1 .. Len(DepsOf(id)) : deps[a] = deps[b] => a = b
    BY <2>1 DEF IsInjective
  <2> QED
    BY <2>3, <2>4, Fun_IsInj
<1>4. /\ Cardinality(Ids) \in Nat
      /\ IsFiniteSet(rest) /\ Cardinality(rest) = Cardinality(Ids) - 1
  BY <1>2, FS_CardinalityType, FS_RemoveElement
<1>5. Cardinality(1 .. Len(DepsOf(id))) <= Cardinality(rest)
  <2> HIDE DEF deps, rest
  <2> QED
    BY <1>3, <1>4, FS_Injection
<1>6. \A n \in Nat : Cardinality(1 .. n) = n
  BY FS_Interval
<1>7. Cardinality(1 .. Len(DepsOf(id))) = Len(DepsOf(id))
  BY <1>1, <1>6
<1> QED
  BY <1>1, <1>4, <1>5, <1>7

(* Whatever trace validate_trace is given, the loops stay inside it, a       *)
(* record is entered at its place, the pending calls of visit are on its     *)
(* records, and no call looks at more dependencies than there are records.   *)
THEOREM TypeCorrect == Spec => []TypeOK
<1>1. IInv => TypeOK
  <2> SUFFICES ASSUME IInv PROVE TypeOK
    OBVIOUS
  <2>1. ASSUME phase = "cycles"
        PROVE  state \in [Ids -> 0 .. 2] /\ cursor \in [Ids -> 1 .. Cardinality(Ids)]
    <3>1. Searching
      BY <2>1, SearchFacts
    <3>2. state \in [Ids -> 0 .. 2] /\ cursor \in [Ids -> Nat \ {0}]
      BY <3>1 DEF Searching, Search
    <3>3. ASSUME NEW id \in Ids PROVE cursor[id] \in 1 .. Cardinality(Ids)
      <4>1. cursor[id] <= Len(DepsOf(id)) + 1 /\ Len(DepsOf(id)) \in Nat
        BY <3>1 DEF Searching, Search
      <4>2. cursor[id] \in Nat \ {0}
        BY <3>2
      <4> QED
        BY <3>1, <4>1, <4>2, FewerDepsThanIds
    <3> QED
      BY <3>2, <3>3
  <2> QED
    BY <2>1 DEF IInv, Loops, TypeOK
<1> QED
  BY <1>1, Invariance, PTL

(* validate_trace decides what it is there to decide, for every trace: what  *)
(* it accepts has sound fields, distinct ids, dependencies that exist within *)
(* the owner's boundary and no cycle, and what it rejects lacks one of these.*)
THEOREM VerdictsAreRight == Spec => []VerdictIsRight
<1>1. IInv => VerdictIsRight
  BY ValidityMeans DEF IInv, Loops, VerdictIsRight
<1> QED
  BY <1>1, Invariance, PTL

(* The depth-first search of validate_trace, while it runs: an id is in      *)
(* progress exactly while its call of visit is pending, each pending call    *)
(* is one of the dependencies of the call below it, and a finished id has    *)
(* only finished dependencies.                                               *)
THEOREM SearchSound == Spec => []SearchIsSound
<1>1. IInv => SearchIsSound
  <2> SUFFICES ASSUME IInv, phase = "cycles" PROVE SearchIsSound
    BY DEF SearchIsSound
  <2>1. Searching
    BY SearchFacts
  <2>2. {id \in Ids : state[id] = 1} = ToSet(stack)
    <3>1. ToSet(stack) \subseteq Ids
      BY <2>1, ElementOfSeq DEF Searching, ToSet
    <3> QED
      BY <2>1, <3>1 DEF Searching, Search
  <2>3. \A id \in Ids : state[id] = 2 => \A d \in ToSet(RecordOf(id).deps) : state[d] = 2
    BY <2>1 DEF Searching, Search, Finished, DepsOf
  <2> QED
    BY <2>1, <2>2, <2>3 DEF SearchIsSound, Searching, Search, DepsOf
<1> QED
  BY <1>1, Invariance, PTL
=============================================================================
