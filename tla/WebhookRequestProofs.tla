---- MODULE WebhookRequestProofs ----
(* The webhook's handler, for any requests and any payloads: what it loops     *)
(* over is what the payload has, and no message is dropped for another's sake. *)
EXTENDS WebhookRequest, PayloadParserProofs

\* What holds of a request wherever its handler is: its list is the one that was
\* parsed, and each message that was tried has failed itself or is kept.
Sound(r) ==
    /\ At(r, "idle") \/ At(r, "check") => request[r].list = <<>> /\ request[r].tried = 0
    /\ At(r, "loop") => Authentic(r)
    /\ Authentic(r) /\ ~At(r, "check") => request[r].list = Parse(request[r].payload)
    /\ request[r].tried <= Len(request[r].list)
    /\ \A n \in 1 .. request[r].tried : n \in request[r].failed \/ Kept(request[r].list[n])
    /\ Authentic(r) /\ At(r, "answered") => request[r].tried = Len(request[r].list)

IInv == TypeOK /\ \A r \in Requests : Sound(r)

-----------------------------------------------------------------------------
(* What is parsed and where it is kept.                                        *)

LEMMA Parsed ==
    ASSUME NEW payload \in SomePayload
    PROVE  payload \in JsonPayloads /\ Parse(payload) \in Seq(ParsedMessage)
<1>1. payload \in JsonPayloads
  <2>1. payload = <<>> \/ \E r \in Requests : payload \in Payloads[r]
    BY DEF SomePayload, NoPayload
  <2>2. <<>> \in JsonPayloads
    BY DEF JsonPayloads
  <2>3. \A r \in Requests : Payloads[r] \subseteq JsonPayloads
    BY WebhookAssumption
  <2> QED BY <2>1, <2>2, <2>3
<1>2. CASE WellTyped(payload)
  BY <1>1, <1>2, ParserFindsTheSupported
<1>3. CASE ~WellTyped(payload)
  BY <1>1, <1>3 DEF Parse
<1> QED BY <1>2, <1>3, <1>1

LEMMA KeyIsKey ==
    ASSUME NEW message \in ParsedMessage, message.phone.word \in Owned
    PROVE  Key(message) \in Keys
<1>1. message.id \in Names
  BY DEF ParsedMessage
<1>2. PICK w \in Words : message.id = Text(w)
  BY <1>1 DEF Names
<1>3. message.id.word \in Words
  BY <1>2 DEF Text
<1> QED BY <1>3 DEF Key, Keys

\* No step takes a row away.
RowsStay == \A k \in Keys : row[k] # "absent" => row'[k] # "absent"

LEMMA KeptStays ==
    ASSUME NEW message \in ParsedMessage, RowsStay,
           message.phone.word \in Owned => row[Key(message)] # "absent"
    PROVE  message.phone.word \in Owned => row'[Key(message)] # "absent"
BY KeyIsKey DEF RowsStay

-----------------------------------------------------------------------------
(* Steps.                                                                      *)

\* A request that does not move.
LEMMA OtherIsSound ==
    ASSUME TypeOK, NEW q \in Requests, Sound(q), RowsStay, request'[q] = request[q]
    PROVE  Sound(q)'
<1> DEFINE list == request[q].list
           tried == request[q].tried
<1>1. list \in Seq(ParsedMessage) /\ tried \in Nat /\ tried <= Len(list)
  BY DEF TypeOK, RequestRecord, Sound
<1>2. \A n \in 1 .. tried : list[n] \in ParsedMessage
  BY <1>1
<1>3. \A n \in 1 .. tried :
        n \in request[q].failed \/ (list[n].phone.word \in Owned => row'[Key(list[n])] # "absent")
  <2>1. \A n \in 1 .. tried :
          n \in request[q].failed \/ (list[n].phone.word \in Owned => row[Key(list[n])] # "absent")
    BY DEF Sound, Kept
  <2> QED BY <1>2, <2>1, KeptStays
<1> QED BY <1>3 DEF Sound, At, Authentic, Kept

SameInput(rec, after) ==
    after.body = rec.body /\ after.signature = rec.signature /\ after.payload = rec.payload

\* The handler has gone on to the next message.
Advanced(rec, after) ==
    /\ SameInput(rec, after) /\ after.step = rec.step
    /\ after.list = rec.list /\ after.tried = rec.tried + 1 /\ rec.failed \subseteq after.failed

\* The loop goes on to the next message, with this one failed or kept.
LEMMA NextIsSound ==
    ASSUME TypeOK, NEW r \in Requests, Sound(r), RowsStay, InLoop(r),
           Advanced(request[r], request'[r]),
           \/ request[r].tried + 1 \in request'[r].failed
           \/ Current(r).phone.word \in Owned => row'[Key(Current(r))] # "absent"
    PROVE  Sound(r)'
<1> DEFINE list == request[r].list
           tried == request[r].tried
           Good(n) == n \in request'[r].failed
                      \/ (list[n].phone.word \in Owned => row'[Key(list[n])] # "absent")
<1>1. /\ list \in Seq(ParsedMessage) /\ tried \in Nat /\ tried < Len(list) /\ Len(list) \in Nat
      /\ request[r].step = "loop"
  BY DEF TypeOK, RequestRecord, InLoop, At
<1>2. \A n \in 1 .. tried : Good(n)
  <2>1. \A n \in 1 .. tried : list[n] \in ParsedMessage
    BY <1>1
  <2>2. \A n \in 1 .. tried :
          n \in request[r].failed \/ (list[n].phone.word \in Owned => row[Key(list[n])] # "absent")
    BY DEF Sound, Kept
  <2>3. request[r].failed \subseteq request'[r].failed
    BY DEF Advanced
  <2> QED BY <2>1, <2>2, <2>3, KeptStays
<1>3. Good(tried + 1)
  BY DEF Current, Place
<1>4. \A n \in 1 .. tried + 1 : Good(n)
  <2>1. \A n \in 1 .. tried + 1 : n \in 1 .. tried \/ n = tried + 1
    BY <1>1
  <2> HIDE DEF Good
  <2> QED BY <1>2, <1>3, <2>1
<1>5. Authentic(r) /\ list = Parse(request[r].payload)
  BY <1>1 DEF Sound, At
<1>6. /\ request'[r].step = "loop" /\ request'[r].list = list /\ request'[r].tried = tried + 1
      /\ SameInput(request[r], request'[r])
  BY <1>1 DEF Advanced
<1> QED BY <1>1, <1>4, <1>5, <1>6 DEF Sound, At, Authentic, Kept, SameInput

\* What the steps make of a request's record.
Arrived(body, signature, payload) ==
    [NoRequest EXCEPT !.step = "check", !.body = body, !.signature = signature,
                      !.payload = payload]

Answered(rec, code) == [rec EXCEPT !.step = "answered", !.code = code]

Looping(rec, list) == [rec EXCEPT !.step = "loop", !.list = list]

Tried(rec) == [rec EXCEPT !.tried = @ + 1]

Counted(rec) == [rec EXCEPT !.tried = @ + 1, !.processed = @ + 1]

Skipped(rec) == [rec EXCEPT !.tried = @ + 1, !.failed = @ \cup {rec.tried + 1}]

LEMMA ArrivedRecord ==
    ASSUME NEW body \in Bodies, NEW signature \in Signatures, NEW payload \in SomePayload
    PROVE  LET after == Arrived(body, signature, payload)
           IN /\ after \in RequestRecord
              /\ after.step = "check" /\ after.list = <<>> /\ after.tried = 0
<1>1. NoRequest \in RequestRecord
  <2>1. <<>> \in Seq(ParsedMessage) /\ NoPayload \in SomePayload
    BY DEF SomePayload
  <2> QED BY <2>1 DEF NoRequest, RequestRecord, Steps, Bodies, Signatures
<1>2. NoRequest.list = <<>> /\ NoRequest.tried = 0
  BY DEF NoRequest
<1>3. "check" \in Steps
  BY DEF Steps
<1>4. Arrived(body, signature, payload) \in RequestRecord
  BY <1>1, <1>3 DEF Arrived, RequestRecord
<1>5. LET after == Arrived(body, signature, payload)
      IN after.step = "check" /\ after.list = NoRequest.list /\ after.tried = NoRequest.tried
  BY <1>1 DEF Arrived, RequestRecord
<1> QED BY <1>2, <1>4, <1>5

LEMMA AnsweredRecord ==
    ASSUME NEW rec \in RequestRecord, NEW code \in {0, 200, 401, 500}
    PROVE  LET after == Answered(rec, code)
           IN /\ after \in RequestRecord /\ SameInput(rec, after) /\ after.step = "answered"
              /\ after.list = rec.list /\ after.tried = rec.tried /\ after.failed = rec.failed
<1>1. "answered" \in Steps
  BY DEF Steps
<1> QED BY <1>1 DEF Answered, SameInput, RequestRecord

LEMMA LoopingRecord ==
    ASSUME NEW rec \in RequestRecord, NEW list \in Seq(ParsedMessage)
    PROVE  LET after == Looping(rec, list)
           IN /\ after \in RequestRecord /\ SameInput(rec, after) /\ after.step = "loop"
              /\ after.list = list /\ after.tried = rec.tried /\ after.failed = rec.failed
<1>1. "loop" \in Steps
  BY DEF Steps
<1> QED BY <1>1 DEF Looping, SameInput, RequestRecord

LEMMA NextRecord ==
    ASSUME NEW rec \in RequestRecord
    PROVE  /\ Tried(rec) \in RequestRecord /\ Advanced(rec, Tried(rec))
           /\ Counted(rec) \in RequestRecord /\ Advanced(rec, Counted(rec))
           /\ Skipped(rec) \in RequestRecord /\ Advanced(rec, Skipped(rec))
           /\ rec.tried + 1 \in Skipped(rec).failed
<1>1. rec.tried + 1 \in Nat /\ rec.processed + 1 \in Nat
      /\ rec.failed \cup {rec.tried + 1} \in SUBSET Nat
  BY DEF RequestRecord
<1>2. Tried(rec) \in RequestRecord
  BY <1>1 DEF Tried, RequestRecord
<1>3. Advanced(rec, Tried(rec))
  BY <1>1 DEF Tried, Advanced, SameInput, RequestRecord
<1>4. Counted(rec) \in RequestRecord
  BY <1>1 DEF Counted, RequestRecord
<1>5. Advanced(rec, Counted(rec))
  BY <1>1 DEF Counted, Advanced, SameInput, RequestRecord
<1>6. Skipped(rec) \in RequestRecord
  BY <1>1 DEF Skipped, RequestRecord
<1>7. Skipped(rec).failed = rec.failed \cup {rec.tried + 1}
  BY <1>1 DEF Skipped, RequestRecord
<1>8. Advanced(rec, Skipped(rec))
  BY <1>1, <1>7 DEF Skipped, Advanced, SameInput, RequestRecord
<1> QED BY <1>2, <1>3, <1>4, <1>5, <1>6, <1>7, <1>8

LEMMA Updated ==
    ASSUME TypeOK, NEW r \in Requests, NEW after \in RequestRecord,
           request' = [request EXCEPT ![r] = after], row' \in [Keys -> Statuses]
    PROVE  TypeOK' /\ request'[r] = after /\ \A q \in Requests \ {r} : request'[q] = request[q]
BY DEF TypeOK

\* A step of r's handler keeps the invariant if it keeps it of r.
LEMMA StepOf ==
    ASSUME IInv, NEW r \in Requests, TypeOK', RowsStay, Sound(r)',
           \A q \in Requests \ {r} : request'[q] = request[q]
    PROVE  IInv'
<1>1. \A q \in Requests \ {r} : Sound(q)'
  BY OtherIsSound DEF IInv
<1> QED BY <1>1 DEF IInv

-----------------------------------------------------------------------------
(* The invariant.                                                              *)

LEMMA DeliverKeeps ==
    ASSUME IInv, NEW r \in Requests, Deliver(r) PROVE IInv'
<1>1. PICK body \in Bodies, signature \in Signatures, payload \in SomePayload :
        request' = [request EXCEPT ![r] = Arrived(body, signature, payload)]
  BY DEF Deliver, SomePayload, Arrived
<1> DEFINE after == Arrived(body, signature, payload)
<1>2. after \in RequestRecord /\ after.step = "check" /\ after.list = <<>> /\ after.tried = 0
  BY ArrivedRecord
<1>3. row' = row /\ row' \in [Keys -> Statuses] /\ TypeOK
  BY DEF Deliver, IInv, TypeOK
<1> HIDE DEF after
<1>4. TypeOK' /\ request'[r] = after /\ \A q \in Requests \ {r} : request'[q] = request[q]
  <2>1. request' = [request EXCEPT ![r] = after]
    BY <1>1 DEF after
  <2> QED BY <1>2, <1>3, <2>1, Updated
<1>5. Sound(r)'
  BY <1>2, <1>4 DEF Sound, At, Authentic
<1> QED BY <1>3, <1>4, <1>5, StepOf DEF RowsStay

\* A handler that answers, after the check or after the loop.
LEMMA AnswerKeeps ==
    ASSUME IInv, NEW r \in Requests, NEW code \in {0, 200, 401, 500}, Answer(r, code), row' = row,
           ~At(r, "idle"),
           Authentic(r) => /\ request[r].list = Parse(request[r].payload)
                           /\ request[r].tried = Len(request[r].list)
    PROVE  IInv'
<1> DEFINE after == Answered(request[r], code)
<1>1. TypeOK /\ request[r] \in RequestRecord /\ row' \in [Keys -> Statuses]
  BY DEF IInv, TypeOK
<1>2. /\ after \in RequestRecord /\ SameInput(request[r], after) /\ after.step = "answered"
      /\ after.list = request[r].list /\ after.tried = request[r].tried
      /\ after.failed = request[r].failed
  BY <1>1, AnsweredRecord
<1>3. request' = [request EXCEPT ![r] = after]
  BY DEF Answer, Answered
<1> HIDE DEF after
<1>4. TypeOK' /\ request'[r] = after /\ \A q \in Requests \ {r} : request'[q] = request[q]
  BY <1>1, <1>2, <1>3, Updated
<1>5. Sound(r)'
  <2>1. Sound(r)
    BY DEF IInv
  <2>2. Authentic(r)' => Authentic(r)
    BY <1>2, <1>4 DEF Authentic, SameInput, At
  <2>3. \A n \in 1 .. after.tried :
          n \in after.failed
          \/ (after.list[n].phone.word \in Owned => row'[Key(after.list[n])] # "absent")
    <3>1. \A n \in 1 .. request[r].tried :
            n \in request[r].failed
            \/ (request[r].list[n].phone.word \in Owned
                  => row[Key(request[r].list[n])] # "absent")
      BY <2>1 DEF Sound, Kept
    <3> QED BY <1>2, <3>1
  <2>4. after.tried <= Len(after.list)
    BY <1>2, <2>1 DEF Sound
  <2>5. Authentic(r)' => after.list = Parse(after.payload) /\ after.tried = Len(after.list)
    BY <1>2, <2>2 DEF SameInput
  <2> QED BY <1>2, <1>4, <2>3, <2>4, <2>5 DEF Sound, At, Kept
<1> QED BY <1>4, <1>5, StepOf DEF RowsStay

LEMMA RefuseKeeps ==
    ASSUME IInv, NEW r \in Requests, Refuse(r) PROVE IInv'
<1>1. PICK code \in {401, 500} : Answer(r, code)
  BY DEF Refuse
<1>2. row' = row /\ ~At(r, "idle") /\ code \in {0, 200, 401, 500}
  BY DEF Refuse, At
<1>3. ~Authentic(r)
  BY DEF Refuse, Authentic, ValidSignature
<1> QED BY <1>1, <1>2, <1>3, AnswerKeeps

LEMMA AcceptKeeps ==
    ASSUME IInv, NEW r \in Requests, Accept(r) PROVE IInv'
<1> DEFINE list == IF request[r].body = "payload" THEN Parse(request[r].payload) ELSE <<>>
<1>1. /\ request[r].step = "check" /\ ValidSignature(request[r].signature)
      /\ row' = row
      /\ IF list = <<>> THEN Answer(r, 200)
         ELSE request' = [request EXCEPT ![r] = Looping(request[r], list)]
  BY DEF Accept, At, Looping
<1>2. TypeOK /\ request[r] \in RequestRecord /\ row' \in [Keys -> Statuses] /\ Sound(r)
  BY <1>1 DEF IInv, TypeOK
<1>3. request[r].list = <<>> /\ request[r].tried = 0
  BY <1>1, <1>2 DEF Sound, At
<1>4. list \in Seq(ParsedMessage)
  <2>1. request[r].payload \in SomePayload
    BY <1>2 DEF RequestRecord
  <2>2. Parse(request[r].payload) \in Seq(ParsedMessage)
    BY <2>1, Parsed
  <2> QED BY <2>2
<1>5. CASE list = <<>>
  <2>1. Authentic(r) => request[r].list = Parse(request[r].payload)
                        /\ request[r].tried = Len(request[r].list)
    BY <1>3, <1>5 DEF Authentic
  <2>2. ~At(r, "idle")
    BY <1>1 DEF At
  <2> QED BY <1>1, <1>5, <2>1, <2>2, AnswerKeeps
<1>6. CASE list # <<>>
  <2> DEFINE after == Looping(request[r], list)
  <2>1. /\ request[r].body = "payload" /\ list = Parse(request[r].payload)
        /\ request' = [request EXCEPT ![r] = after]
    BY <1>1, <1>6
  <2> HIDE DEF list
  <2>2. /\ after \in RequestRecord /\ SameInput(request[r], after) /\ after.step = "loop"
        /\ after.list = list /\ after.tried = request[r].tried
    BY <1>2, <1>4, LoopingRecord
  <2> HIDE DEF after
  <2>3. TypeOK' /\ request'[r] = after /\ \A q \in Requests \ {r} : request'[q] = request[q]
    BY <1>2, <2>1, <2>2, Updated
  <2>4. Authentic(r)' /\ request'[r].list = Parse(request'[r].payload)
    BY <1>1, <2>1, <2>2, <2>3 DEF Authentic, SameInput, At
  <2>5. request'[r].tried = 0 /\ Len(request'[r].list) \in Nat
    BY <1>3, <1>4, <2>2, <2>3
  <2>6. Sound(r)'
    BY <2>2, <2>3, <2>4, <2>5 DEF Sound, At
  <2> QED BY <1>1, <2>3, <2>6, StepOf DEF RowsStay
<1> QED BY <1>5, <1>6

\* A round of the loop, whatever becomes of its message.
LEMMA RoundKeeps ==
    ASSUME IInv, NEW r \in Requests, InLoop(r), RowsStay, row' \in [Keys -> Statuses],
           NEW after \in RequestRecord, request' = [request EXCEPT ![r] = after],
           Advanced(request[r], after),
           \/ request[r].tried + 1 \in after.failed
           \/ Current(r).phone.word \in Owned => row'[Key(Current(r))] # "absent"
    PROVE  IInv'
<1>1. TypeOK /\ Sound(r)
  BY DEF IInv
<1>2. TypeOK' /\ request'[r] = after /\ \A q \in Requests \ {r} : request'[q] = request[q]
  BY <1>1, Updated
<1>3. Sound(r)'
  BY <1>1, <1>2, NextIsSound
<1> QED BY <1>2, <1>3, StepOf

LEMMA CurrentIsParsed ==
    ASSUME TypeOK, NEW r \in Requests, InLoop(r) PROVE Current(r) \in ParsedMessage
<1>1. /\ request[r].list \in Seq(ParsedMessage) /\ request[r].tried \in Nat
      /\ request[r].tried < Len(request[r].list)
  BY DEF TypeOK, RequestRecord, InLoop
<1> QED BY <1>1 DEF Current, Place

LEMMA LoopKeeps ==
    ASSUME IInv, NEW r \in Requests, LoopStep(r) PROVE IInv'
<1>1. TypeOK /\ request[r] \in RequestRecord /\ Sound(r)
  BY DEF IInv, TypeOK
<1>2. /\ Tried(request[r]) \in RequestRecord /\ Advanced(request[r], Tried(request[r]))
      /\ Counted(request[r]) \in RequestRecord /\ Advanced(request[r], Counted(request[r]))
      /\ Skipped(request[r]) \in RequestRecord /\ Advanced(request[r], Skipped(request[r]))
      /\ request[r].tried + 1 \in Skipped(request[r]).failed
  BY <1>1, NextRecord
<1>3. row \in [Keys -> Statuses]
  BY <1>1 DEF TypeOK
<1>4. CASE UnknownTenant(r)
  <2>1. /\ InLoop(r) /\ RowsStay /\ row' = row /\ Current(r).phone.word \notin Owned
        /\ request' = [request EXCEPT ![r] = Tried(request[r])]
    BY <1>4 DEF UnknownTenant, NextMessage, Place, Tried, RowsStay
  <2> QED BY <1>2, <1>3, <2>1, RoundKeeps
<1>5. CASE AlreadyHandled(r)
  <2>1. /\ InLoop(r) /\ RowsStay /\ row' = row /\ row[Key(Current(r))] # "absent"
        /\ request' = [request EXCEPT ![r] = Tried(request[r])]
    BY <1>5 DEF AlreadyHandled, NextMessage, Place, Tried, RowsStay
  <2> QED BY <1>2, <1>3, <2>1, RoundKeeps
<1>6. CASE Handle(r)
  <2>1. /\ InLoop(r) /\ Current(r).phone.word \in Owned
        /\ request' = [request EXCEPT ![r] = Counted(request[r])]
    BY <1>6 DEF Handle, Place, Counted
  <2>2. PICK status \in {"recoverable", "taken"} : row' = [row EXCEPT ![Key(Current(r))] = status]
    BY <1>6 DEF Handle
  <2>3. Key(Current(r)) \in Keys
    BY <1>1, <2>1, CurrentIsParsed, KeyIsKey
  <2>4. /\ row' \in [Keys -> Statuses] /\ RowsStay /\ row'[Key(Current(r))] # "absent"
    BY <1>3, <2>2, <2>3 DEF Statuses, RowsStay
  <2> QED BY <1>2, <2>1, <2>4, RoundKeeps
<1>7. CASE ReceiveFails(r)
  <2>1. InLoop(r) /\ request' = [request EXCEPT ![r] = Skipped(request[r])]
    BY <1>7 DEF ReceiveFails, Place, Skipped
  <2>2. row' \in [Keys -> Statuses] /\ RowsStay
    <3>1. CASE UNCHANGED row
      BY <1>3, <3>1 DEF RowsStay
    <3>2. CASE CommitUnheard(Current(r))
      <4>1. Key(Current(r)) \in Keys
        BY <1>1, <2>1, <3>2, CurrentIsParsed, KeyIsKey DEF CommitUnheard
      <4> QED BY <1>3, <3>2, <4>1 DEF CommitUnheard, Statuses, RowsStay
    <3> QED BY <1>7, <3>1, <3>2 DEF ReceiveFails
  <2> QED BY <1>2, <2>1, <2>2, RoundKeeps
<1>8. CASE Reply(r)
  <2>1. /\ At(r, "loop") /\ request[r].tried = Len(request[r].list) /\ Answer(r, 200)
        /\ row' = row
    BY <1>8 DEF Reply
  <2>2. ~At(r, "idle") /\ ~At(r, "check")
    BY <2>1 DEF At
  <2>3. Authentic(r) => request[r].list = Parse(request[r].payload)
    BY <1>1, <2>2 DEF Sound
  <2> QED BY <2>1, <2>2, <2>3, AnswerKeeps
<1> QED BY <1>4, <1>5, <1>6, <1>7, <1>8 DEF LoopStep

LEMMA RowKeeps ==
    ASSUME IInv, NEW k \in Keys, RowMoves(k) PROVE IInv'
<1>1. PICK status \in {"recoverable", "taken"} : row' = [row EXCEPT ![k] = status]
  BY DEF RowMoves
<1>2. request' = request /\ TypeOK
  BY DEF RowMoves, IInv
<1>3. TypeOK' /\ RowsStay
  BY <1>1, <1>2 DEF TypeOK, RowsStay, Statuses
<1>4. \A q \in Requests : Sound(q)'
  BY <1>2, <1>3, OtherIsSound DEF IInv
<1> QED BY <1>3, <1>4 DEF IInv

LEMMA IInvInit == Init => IInv
<1> SUFFICES ASSUME Init PROVE IInv
  OBVIOUS
<1>1. NoRequest \in RequestRecord
  <2>1. <<>> \in Seq(ParsedMessage) /\ NoPayload \in SomePayload
    BY DEF SomePayload
  <2> QED BY <2>1 DEF NoRequest, RequestRecord, Steps, Bodies, Signatures
<1>2. NoRequest.step = "idle" /\ NoRequest.list = <<>> /\ NoRequest.tried = 0
  BY DEF NoRequest
<1>3. TypeOK
  BY <1>1 DEF Init, TypeOK, Statuses
<1>4. \A r \in Requests : Sound(r)
  BY <1>2 DEF Init, Sound, At, Authentic
<1> QED BY <1>3, <1>4 DEF IInv

LEMMA IInvNext == IInv /\ [Next]_vars => IInv'
<1> SUFFICES ASSUME IInv, [Next]_vars PROVE IInv'
  OBVIOUS
<1>1. ASSUME NEW r \in Requests, Deliver(r) \/ Refuse(r) \/ Accept(r) \/ LoopStep(r) PROVE IInv'
  BY <1>1, DeliverKeeps, RefuseKeeps, AcceptKeeps, LoopKeeps
<1>2. ASSUME NEW k \in Keys, RowMoves(k) PROVE IInv'
  BY <1>2, RowKeeps
<1>3. CASE UNCHANGED vars
  <2>1. request' = request /\ row' = row
    BY <1>3 DEF vars
  <2>2. TypeOK' /\ RowsStay
    BY <2>1 DEF IInv, TypeOK, RowsStay
  <2>3. \A q \in Requests : Sound(q)'
    BY <2>1, <2>2, OtherIsSound DEF IInv
  <2> QED BY <2>2, <2>3 DEF IInv
<1> QED BY <1>1, <1>2, <1>3 DEF Next

\* The handler of a request has the list its payload was parsed into, and what it
\* has tried of it failed or is kept (webhook-routes.ts:63-177).
THEOREM Handling == Spec => []IInv
<1>1. Init => IInv
  BY IInvInit
<1>2. IInv /\ [Next]_vars => IInv'
  BY IInvNext
<1> QED BY <1>1, <1>2, PTL DEF Spec

\* Requests and rows have the values their declarations give them.
THEOREM RequestsAreTyped == Spec => []TypeOK
<1>1. IInv => TypeOK
  BY DEF IInv
<1> QED BY <1>1, Handling, PTL

\* The loop is over the supported messages of the payload, all of them, in its
\* order, each with the last name its own change gives its sender
\* (meta-payload-parser.ts:84-127), for any payload a request can carry.
THEOREM LoopsOverTheSupported == Spec => []ParsesTheSupported
<1>1. IInv => ParsesTheSupported
  <2> SUFFICES ASSUME IInv, NEW r \in Requests, Authentic(r), ~At(r, "check"),
                      WellTyped(request[r].payload)
               PROVE  request[r].list = Reference(request[r].payload)
    BY DEF ParsesTheSupported
  <2>1. request[r].payload \in JsonPayloads
    BY Parsed DEF IInv, TypeOK, RequestRecord
  <2>2. request[r].list = Parse(request[r].payload)
    BY DEF IInv, Sound
  <2> QED BY <2>1, <2>2, ParserFindsTheSupported
<1> QED BY <1>1, Handling, PTL

\* When Meta is told 200, each supported message is kept, or failed itself, or is
\* for nobody's number: none is lost to another's failure
\* (webhook-routes.ts:90-177).
THEOREM FailuresStayAlone == Spec => []OthersAreHandled
<1>1. IInv => OthersAreHandled
  <2> SUFFICES ASSUME IInv, NEW r \in Requests, Acknowledged(r), WellTyped(request[r].payload)
               PROVE  SupportedAreHandled(r)
    BY DEF OthersAreHandled
  <2> DEFINE list == request[r].list
             supported == Reference(request[r].payload)
  <2>1. /\ request[r].payload \in JsonPayloads
        /\ list \in Seq(ParsedMessage)
    BY Parsed DEF IInv, TypeOK, RequestRecord
  <2>2. /\ list = Parse(request[r].payload) /\ request[r].tried = Len(list)
        /\ \A n \in 1 .. request[r].tried : n \in request[r].failed \/ Kept(list[n])
    BY DEF IInv, Sound, Acknowledged, At
  <2>3. list = supported
    BY <2>1, <2>2, ParserFindsTheSupported
  <2>4. DOMAIN list = 1 .. request[r].tried
    BY <2>1, <2>2
  <2>5. \A n \in DOMAIN supported : n \in request[r].failed \/ Kept(supported[n])
    <3> HIDE DEF list, supported
    <3> QED BY <2>2, <2>3, <2>4 DEF Kept
  <2> QED BY <2>5 DEF SupportedAreHandled
<1> QED BY <1>1, Handling, PTL
====
