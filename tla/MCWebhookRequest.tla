---- MODULE MCWebhookRequest ----
(* Payloads for TLC.                                                          *)
EXTENDS WebhookRequest, TLC

CONSTANTS ours, theirs,  \* numbers: a tenant's and nobody's
          i1, i2,        \* metaMessageIds
          alice, ana,    \* a customer's number and names
          hello,         \* a text
          r1             \* the request that may bring any payload

Message(id, from, time) ==
    [id |-> id, from |-> from, type |-> "text", body |-> Text(hello), time |-> time]

First == Message(Text(i1), Text(alice), "seconds")

Second == Message(Text(i2), Text(alice), "seconds")

\* A supported message with any one part of it different.
MessageShapes ==
    {First, Second}
    \cup {[First EXCEPT !.id = f] : f \in {Absent, Padded(NoWord), Padded(i1), WrongType}}
    \cup {[First EXCEPT !.from = f] : f \in {Absent, Padded(alice)}}
    \cup {[First EXCEPT !.type = "other"]}
    \cup {[Second EXCEPT !.body = f] : f \in {Absent, Empty, Padded(NoWord)}}
    \cup {[Second EXCEPT !.time = t] : t \in {Absent, "not_a_number", "out_of_range"}}

Contact(waId, name) == [waId |-> waId, name |-> name]

ContactLists ==
    {<<>>,
     <<Contact(Text(alice), Text(ana))>>,
     <<Contact(Text(alice), Text(ana)), Contact(Text(alice), Padded(ana))>>,
     <<Contact(Text(alice), Text(ana)), Contact(Text(alice), Empty)>>,
     <<Contact(Padded(alice), Text(ana))>>,
     <<Contact(Text(alice), WrongType)>>}

Phones == {Text(ours), Text(theirs), Padded(ours), Padded(NoWord), Absent, WrongType}

Change(phone, contacts, messages) ==
    [phone |-> phone, contacts |-> contacts, messages |-> messages]

Pairs == {<<m, n>> : m \in MessageShapes, n \in MessageShapes}

Changes ==
    {Change(p, c, <<m>>) : p \in Phones, c \in ContactLists, m \in MessageShapes}
    \cup {Change(Text(ours), c, s) : c \in ContactLists, s \in Pairs \cup {<<>>}}

Named == Change(Text(ours), <<Contact(Text(alice), Text(ana))>>, <<First>>)

SomeChanges ==
    {Named, Change(Text(ours), <<>>, <<Second>>), Change(Text(theirs), <<>>, <<First>>),
     Change(Absent, <<Contact(Text(alice), Text(ana))>>, <<Second>>),
     Change(Text(ours), <<>>, <<>>)}

\* One change; two in one entry; one each in two entries; none.
AllPayloads ==
    {<<<<c>>>> : c \in Changes}
    \cup {<<<<c, d>>>> : c \in SomeChanges, d \in SomeChanges}
    \cup {<<<<c>>, <<d>>>> : c \in SomeChanges, d \in SomeChanges}
    \cup {<<>>, <<<<>>>>, <<<<>>, <<Named>>>>}

\* Two messages that are supported, with one between them that is not, or one that
\* has an invalid date.
FewPayloads ==
    {<<<<Change(Text(ours), <<>>, <<First, [First EXCEPT !.id = Padded(NoWord)], Second>>)>>>>,
     <<<<Change(Text(ours), <<>>, <<[First EXCEPT !.time = "out_of_range"], Second>>)>>>>}

\* Any payload, while another request brings one of a few.
AnyAndFew == [r \in Requests |-> IF r = r1 THEN AllPayloads ELSE FewPayloads]

FewForAll == [r \in Requests |-> FewPayloads]
====
