---- MODULE WebhookRequest ----
(* POST /webhook from the bytes of a request to its answer (webhook-routes.ts, *)
(* signature-service.ts, meta-payload-parser.ts).  EnqueueMessages has the     *)
(* statements of the loop's body and how they interleave with the worker; here *)
(* the body is one step, and what counts is which messages reach it, what      *)
(* becomes of the others when one fails, and what Meta is told.                *)
EXTENDS PayloadParser

CONSTANTS Requests,   \* requests Meta makes, each once
          Payloads,   \* what each of them may carry
          Owned       \* the numbers that belong to a tenant

ASSUME WebhookAssumption ==
    /\ Owned \subseteq Words
    /\ Payloads \in [Requests -> SUBSET JsonPayloads]

VARIABLES request,    \* request -> where its handler is, and what it carries
          row         \* <<number, metaMessageId>> -> status of the message's row

vars == <<request, row>>

\* The signature header of a request: sha256= and hex digits over some body.
Signatures == {"missing", "unprefixed", "not_hex", "short", "other_body", "this_body"}

\* What JSON.parse may be given: a body that is no buffer (not sent as JSON),
\* bytes that are not JSON, or a payload.
Bodies == {"not_a_buffer", "not_json", "payload"}

Steps == {"idle", "check", "loop", "answered"}

NoPayload == <<>>

SomePayload == {NoPayload} \cup UNION {Payloads[r] : r \in Requests}

Keys == Owned \X Words

Statuses == {"absent", "recoverable", "taken"}

\* failed is the places in the list of the messages whose receipt threw.
RequestRecord ==
    [step : Steps, body : Bodies, signature : Signatures, payload : SomePayload,
     list : Seq(ParsedMessage), tried : Nat, processed : Nat, failed : SUBSET Nat,
     code : {0, 200, 401, 500}]

NoRequest ==
    [step |-> "idle", body |-> "not_a_buffer", signature |-> "missing", payload |-> NoPayload,
     list |-> <<>>, tried |-> 0, processed |-> 0, failed |-> {}, code |-> 0]

TypeOK ==
    /\ request \in [Requests -> RequestRecord]
    /\ row \in [Keys -> Statuses]

Init ==
    /\ request = [r \in Requests |-> NoRequest]
    /\ row = [k \in Keys |-> "absent"]

At(r, step) == request[r].step = step

Answer(r, code) ==
    request' = [request EXCEPT ![r] = [@ EXCEPT !.step = "answered", !.code = code]]

\* Meta, or somebody else, calls: the same payload may come in several requests.
Deliver(r) ==
    /\ At(r, "idle")
    /\ \E body \in Bodies, signature \in Signatures :
         \E payload \in IF body = "payload" /\ signature = "this_body" THEN Payloads[r]
                        ELSE {NoPayload} :   \* it is not looked at
           request' = [request EXCEPT ![r] =
             [NoRequest EXCEPT !.step = "check", !.body = body, !.signature = signature,
                               !.payload = payload]]
    /\ UNCHANGED row

\* isValidSignature: the prefix, hex digits, as many as the digest has, and the
\* digest of these bytes under the secret.
ValidSignature(signature) == signature = "this_body"

Refuse(r) ==
    /\ At(r, "check")
    /\ \/ request[r].body = "not_a_buffer" /\ Answer(r, 500)
       \/ /\ request[r].body # "not_a_buffer"
          /\ ~ValidSignature(request[r].signature)
          /\ Answer(r, 401)
    /\ UNCHANGED row

\* The body is JSON or it is not, and the parser finds messages or ignores it.
Accept(r) ==
    LET list == IF request[r].body = "payload" THEN Parse(request[r].payload) ELSE <<>>
    IN /\ At(r, "check")
       /\ request[r].body # "not_a_buffer"
       /\ ValidSignature(request[r].signature)
       /\ IF list = <<>> THEN Answer(r, 200)
          ELSE request' = [request EXCEPT ![r] = [@ EXCEPT !.step = "loop", !.list = list]]
       /\ UNCHANGED row

\* The message the loop is at.
Place(r) == request[r].tried + 1

Current(r) == request[r].list[Place(r)]

Key(message) == <<message.phone.word, message.id.word>>

InLoop(r) == At(r, "loop") /\ request[r].tried < Len(request[r].list)

\* continue
NextMessage(r) == request' = [request EXCEPT ![r] = [@ EXCEPT !.tried = Place(r)]]

\* No tenant has this number.
UnknownTenant(r) ==
    /\ InLoop(r)
    /\ Current(r).phone.word \notin Owned
    /\ NextMessage(r)
    /\ UNCHANGED row

\* A duplicate whose status says that it is being handled, or was.
AlreadyHandled(r) ==
    /\ InLoop(r)
    /\ Current(r).phone.word \in Owned
    /\ row[Key(Current(r))] = "taken"
    /\ NextMessage(r)
    /\ UNCHANGED row

\* A new row, or a duplicate to be retried: counted, enqueued and marked as
\* queued, of which each may fail and leave it to a later delivery or recovery.
\* A row cannot be inserted with an invalid date.
Handle(r) ==
    LET message == Current(r)
        status == row[Key(message)]
    IN /\ InLoop(r)
       /\ message.phone.word \in Owned
       /\ \/ status = "recoverable"
          \/ status = "absent" /\ message.time # "invalid_date"
       /\ request' = [request EXCEPT ![r] =
            [@ EXCEPT !.tried = Place(r), !.processed = request[r].processed + 1]]
       /\ \E after \in {"recoverable", "taken"} : row' = [row EXCEPT ![Key(message)] = after]

\* Mutant of ReceiveFails: the request ends with the message that failed.
ReceiveFailsForAll(r) ==
    /\ InLoop(r)
    /\ Answer(r, 200)
    /\ UNCHANGED row

\* The transaction commits, and its acknowledgement is lost.
CommitUnheard(message) ==
    /\ message.phone.word \in Owned
    /\ message.time # "invalid_date"
    /\ row[Key(message)] = "absent"
    /\ row' = [row EXCEPT ![Key(message)] = "recoverable"]

\* Receiving throws: an invalid date, or the database.  The message is skipped.
ReceiveFails(r) ==
    /\ InLoop(r)
    /\ request' = [request EXCEPT ![r] =
         [@ EXCEPT !.tried = Place(r), !.failed = request[r].failed \cup {Place(r)}]]
    /\ UNCHANGED row \/ CommitUnheard(Current(r))

Reply(r) ==
    /\ At(r, "loop")
    /\ request[r].tried = Len(request[r].list)
    /\ Answer(r, 200)
    /\ UNCHANGED row

\* The rest of the system: rows are handled, and fail.
RowMoves(k) ==
    /\ row[k] # "absent"
    /\ \E status \in {"recoverable", "taken"} : row' = [row EXCEPT ![k] = status]
    /\ UNCHANGED request

LoopStep(r) ==
    UnknownTenant(r) \/ AlreadyHandled(r) \/ Handle(r) \/ ReceiveFails(r) \/ Reply(r)

Next ==
    \/ \E r \in Requests : Deliver(r) \/ Refuse(r) \/ Accept(r) \/ LoopStep(r)
    \/ \E k \in Keys : RowMoves(k)

Spec == Init /\ [][Next]_vars

-----------------------------------------------------------------------------

Authentic(r) ==
    ~At(r, "idle") /\ request[r].body = "payload" /\ ValidSignature(request[r].signature)

Acknowledged(r) == Authentic(r) /\ At(r, "answered") /\ request[r].code = 200

\* The loop is over the supported messages, all of them, in the payload's order,
\* each with the last name its own change gives its sender
\* (meta-payload-parser.ts:84-127): no other change, and no message that is
\* skipped, has a part in what is read of a message.
ParsesTheSupported ==
    \A r \in Requests :
        Authentic(r) /\ ~At(r, "check") /\ WellTyped(request[r].payload)
            => request[r].list = Reference(request[r].payload)

\* docs/backlog.md:619, "A failure in one message does not prevent safe handling
\* of the others": when Meta is answered, each supported message has a row, or
\* failed itself, or was sent to nobody's number (webhook-routes.ts:90-177).
Kept(message) == message.phone.word \in Owned => row[Key(message)] # "absent"

SupportedAreHandled(r) ==
    LET supported == Reference(request[r].payload)
    IN \A n \in DOMAIN supported : n \in request[r].failed \/ Kept(supported[n])

OthersAreHandled ==
    \A r \in Requests :
        Acknowledged(r) /\ WellTyped(request[r].payload) => SupportedAreHandled(r)

\* docs/architecture.md:101-114: the backend persists the message (5) before it
\* returns 200 (9), and names one failure after which it still does, enqueueing
\* "after the message is persisted".
AcknowledgedIsPersisted ==
    \A r \in Requests :
        Acknowledged(r) /\ WellTyped(request[r].payload)
            => LET supported == Reference(request[r].payload)
               IN \A n \in DOMAIN supported : Kept(supported[n])
====
