---- MODULE Inbox ----
(* What receiving a message promises, as if each call ran alone: a WhatsApp    *)
(* message is persisted once, in the one active conversation of its sender,    *)
(* and every call that is answered is told of that row.                        *)
CONSTANTS Requests,   \* calls; a row is named after the call that created it
          NoRequest,
          MetaMessages,  \* metaMessageIds
          Customers,
          Sender      \* metaMessageId -> the customer who sent the message

VARIABLES input,         \* call -> the message it delivers
          conversation,  \* customer -> its active conversation
          row,           \* metaMessageId -> the row that persists it
          answer         \* call -> what it returned

vars == <<input, conversation, row, answer>>

NoRow == [message |-> NoRequest, conversation |-> NoRequest]

Answer(kind, r) == [kind |-> kind, row |-> r]

NoAnswer == Answer("none", NoRow)

Failure == Answer("error", NoRow)

Init ==
    /\ input \in [Requests -> MetaMessages]
    /\ conversation = [c \in Customers |-> NoRequest]
    /\ row = [m \in MetaMessages |-> NoRow]
    /\ answer = [r \in Requests |-> NoAnswer]

\* The caller may be told of a failure although the row is there.
Create(r) ==
    LET m == input[r]
        c == Sender[m]
        home == IF conversation[c] = NoRequest THEN r ELSE conversation[c]
        new == [message |-> r, conversation |-> home]
    IN /\ answer[r] = NoAnswer
       /\ row[m] = NoRow
       /\ row' = [row EXCEPT ![m] = new]
       /\ conversation' = [conversation EXCEPT ![c] = home]
       /\ answer' \in {[answer EXCEPT ![r] = Answer("created", new)],
                       [answer EXCEPT ![r] = Failure]}
       /\ UNCHANGED input

Duplicate(r) ==
    /\ answer[r] = NoAnswer
    /\ row[input[r]] # NoRow
    /\ answer' = [answer EXCEPT ![r] = Answer("duplicated", row[input[r]])]
    /\ UNCHANGED <<input, conversation, row>>

Refuse(r) ==
    /\ answer[r] = NoAnswer
    /\ answer' \in {[answer EXCEPT ![r] = Answer("unknown_tenant", NoRow)],
                    [answer EXCEPT ![r] = Failure]}
    /\ UNCHANGED <<input, conversation, row>>

Next == \E r \in Requests : Create(r) \/ Duplicate(r) \/ Refuse(r)

Spec == Init /\ [][Next]_vars
====
