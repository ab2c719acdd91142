---- MODULE PayloadParser ----
(* meta-payload-parser.ts: which messages a webhook payload carries.  A JSON   *)
(* string is a word with or without blanks around it; of a timestamp only what *)
(* Number() and Date make of it is kept.                                       *)
EXTENDS Sequences, SequencesExt, FiniteSets, Integers

CONSTANTS Words,     \* what is left of strings that are not blank
          NoWord,    \* what is left of the empty string and of blanks
          Absent,    \* a key that is not in the JSON object
          WrongType  \* a value that is no string

\* A JSON value: a string, a missing key, or something the schema rejects.
Text(word) == [word |-> word, padded |-> FALSE]

Padded(word) == [word |-> word, padded |-> TRUE]

Empty == Text(NoWord)

JsonStrings == UNION {{Text(w), Padded(w)} : w \in Words \cup {NoWord}}

Fields == JsonStrings \cup {Absent, WrongType}

Types == {"text", "other"}

Timestamps == {"empty", "not_a_number", "seconds", "out_of_range"}

ASSUME PayloadAssumption ==
    /\ NoWord \notin Words
    /\ Absent # WrongType
    /\ \A value \in {Absent, WrongType} :
         value \notin JsonStrings /\ value \notin Types /\ value \notin Timestamps

\* JavaScript's truthiness of string | undefined.  Blanks are true.
IsTrue(field) == field \notin {Absent, Empty}

Trim(field) == IF field = Absent THEN Absent ELSE Text(field.word)

\* A payload is a sequence of entries, an entry a sequence of changes (a missing
\* array is an empty one), a change [phone, contacts, messages], a contact
\* [waId, name], a message [id, from, type, body, time].  The schema is that of
\* the whole payload: none of it may have a wrong type, and every key is optional
\* but a change's value.  A change without one has the whole payload refused, as one
\* has whose phone is of a wrong type, and is that change here.
ContactValue == [waId : Fields, name : Fields]

MessageValue ==
    [id : Fields, from : Fields, type : Types \cup {Absent, WrongType}, body : Fields,
     time : Timestamps \cup {Absent, WrongType}]

ChangeValue == [phone : Fields, contacts : Seq(ContactValue), messages : Seq(MessageValue)]

JsonPayloads == Seq(Seq(ChangeValue))

ContactTyped(contact) == WrongType \notin {contact.waId, contact.name}

MessageTyped(message) ==
    WrongType \notin {message.id, message.from, message.type, message.body, message.time}

ChangeTyped(change) ==
    /\ change.phone # WrongType
    /\ \A i \in DOMAIN change.contacts : ContactTyped(change.contacts[i])
    /\ \A i \in DOMAIN change.messages : MessageTyped(change.messages[i])

WellTyped(payload) ==
    \A i \in DOMAIN payload : \A j \in DOMAIN payload[i] : ChangeTyped(payload[i][j])

-----------------------------------------------------------------------------

Names == {Text(w) : w \in Words}

Strings == JsonStrings \ {Empty}

ParsedMessage ==
    [phone : Names, id : Names, from : Names, name : Strings \cup {Absent}, text : Strings,
     time : {"no_date", "date", "invalid_date"}]

\* contactNamesByWaId: the Map's set() by set().
SetName(names, contact) ==
    IF IsTrue(contact.waId) /\ IsTrue(contact.name)
    THEN [w \in DOMAIN names \cup {contact.waId} |->
            IF w = contact.waId THEN contact.name ELSE names[w]]
    ELSE names

ContactNames(contacts) ==
    LET names[n \in 0 .. Len(contacts)] ==
            IF n = 0 THEN <<>> ELSE SetName(names[n - 1], contacts[n])
    IN names[Len(contacts)]

\* parseMetaTimestamp.  Seconds that are a number and out of the range of Date
\* become a Date that is invalid, which only shows where it is used.
ParseTimestamp(time) ==
    CASE time \in {Absent, "empty", "not_a_number"} -> "no_date"
      [] time = "seconds" -> "date"
      [] time = "out_of_range" -> "invalid_date"

\* Mutant of Accepted: an id of blanks is an id.
AcceptedUntrimmed(message) ==
    /\ message.type = "text"
    /\ IsTrue(message.id)
    /\ IsTrue(Trim(message.from))
    /\ IsTrue(message.body)

Accepted(message) ==
    /\ message.type = "text"
    /\ IsTrue(Trim(message.id))
    /\ IsTrue(Trim(message.from))
    /\ IsTrue(message.body)

\* Only names by which the number, trimmed, was given as it is are found.
ParseMessage(change, message) ==
    LET names == ContactNames(change.contacts)
    IN [phone |-> Trim(change.phone),
        id    |-> Trim(message.id),
        from  |-> Trim(message.from),
        name  |-> IF Trim(message.from) \in DOMAIN names
                  THEN names[Trim(message.from)] ELSE Absent,
        text  |-> message.body,
        time  |-> ParseTimestamp(message.time)]

\* Each loop's list is what its rounds push, one after the other.
ChangeMessages(change) ==
    IF IsTrue(Trim(change.phone))
    THEN FlattenSeq([k \in DOMAIN change.messages |->
           IF Accepted(change.messages[k]) THEN <<ParseMessage(change, change.messages[k])>>
           ELSE <<>>])
    ELSE <<>>

EntryMessages(entry) == FlattenSeq([j \in DOMAIN entry |-> ChangeMessages(entry[j])])

\* parseMetaWebhookPayload.  "ignored" is the empty list.
Parse(payload) ==
    IF WellTyped(payload)
    THEN FlattenSeq([i \in DOMAIN payload |-> EntryMessages(payload[i])])
    ELSE <<>>

-----------------------------------------------------------------------------
(* What the parser is to find, by position instead of by loop.                 *)

ChangePositions(payload, i, j) == {i} \X {j} \X DOMAIN payload[i][j].messages

Positions(payload) ==
    UNION {UNION {ChangePositions(payload, i, j) : j \in DOMAIN payload[i]} :
             i \in DOMAIN payload}

ChangeAt(payload, p) == payload[p[1]][p[2]]

MessageAt(payload, p) == ChangeAt(payload, p).messages[p[3]]

InOrder(p, q) ==
    \/ p[1] < q[1]
    \/ p[1] = q[1] /\ p[2] < q[2]
    \/ p[1] = q[1] /\ p[2] = q[2] /\ p[3] < q[3]

\* A text message with an id, a sender and a body, sent to some number: the
\* subset of docs/architecture.md:126-132, one message at a time.
IsSupported(change, message) ==
    LET Says(field) == field \notin {Absent, WrongType} /\ field.word # NoWord
    IN /\ MessageTyped(message)
       /\ Says(change.phone) /\ Says(message.id) /\ Says(message.from)
       /\ message.body \notin {Absent, Empty}
       /\ message.type = "text"

SupportedPositions(payload) ==
    {p \in Positions(payload) : IsSupported(ChangeAt(payload, p), MessageAt(payload, p))}

\* The contact's name a message comes with: the last one its own change gives to
\* its sender's number.
NameAt(payload, p) ==
    LET contacts == ChangeAt(payload, p).contacts
        named == {i \in DOMAIN contacts :
                    /\ contacts[i].waId = Text(MessageAt(payload, p).from.word)
                    /\ contacts[i].name \notin {Absent, Empty}}
    IN IF named = {} THEN Absent
       ELSE contacts[CHOOSE i \in named : \A j \in named : j <= i].name

ReadAt(payload, p) ==
    [phone |-> Text(ChangeAt(payload, p).phone.word),
     id    |-> Text(MessageAt(payload, p).id.word),
     from  |-> Text(MessageAt(payload, p).from.word),
     name  |-> NameAt(payload, p),
     text  |-> MessageAt(payload, p).body,
     time  |-> ParseTimestamp(MessageAt(payload, p).time)]

Increasing(order) == \A m, n \in DOMAIN order : m < n => InOrder(order[m], order[n])

\* The supported messages, in the order they have in the payload.
Reference(payload) ==
    LET supported == SupportedPositions(payload)
        order == CHOOSE o \in [1 .. Cardinality(supported) -> supported] : Increasing(o)
    IN [n \in DOMAIN order |-> ReadAt(payload, order[n])]
====
