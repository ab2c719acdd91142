---- MODULE ReceiveInbound ----
(* receive-inbound-message-use-case.ts: calls of execute() that run at the     *)
(* same time, in one server or several, each in a READ COMMITTED transaction.  *)
(* One action per SQL statement: it sees what is committed when it starts, an  *)
(* INSERT waits for a concurrent transaction that holds the same unique key,   *)
(* and what a transaction has written is its own until it commits.  Keys and   *)
(* reads all include the tenant, so a message and a customer stand for a pair  *)
(* with their tenant.                                                          *)
CONSTANTS Requests,      \* calls; a row is named after the call that created it
          NoRequest,
          MetaMessages,  \* metaMessageIds that may be delivered, each any number of times
          Customers,
          Sender,        \* metaMessageId -> the customer who sent the message
          Addressed      \* the messages sent to a number some tenant owns

ASSUME ReceiveAssumption ==
    /\ NoRequest \notin Requests
    /\ Sender \in [MetaMessages -> Customers]
    /\ Addressed \subseteq MetaMessages

VARIABLES input,         \* call -> the message it delivers
          call,          \* call -> where it is, and what it has read or written so far
          contactLock,   \* customer -> the call whose transaction holds its contact row
          conversation,  \* customer -> its committed active conversation
          row            \* metaMessageId -> the committed row that persists it

vars == <<input, call, contactLock, conversation, row>>

Ids == Requests \cup {NoRequest}

Row == [message : Ids, conversation : Ids]

NoRow == [message |-> NoRequest, conversation |-> NoRequest]

Kinds == {"none", "created", "duplicated", "unknown_tenant", "error"}

Answer(kind, r) == [kind |-> kind, row |-> r]

NoAnswer == Answer("none", NoRow)

Failure == Answer("error", NoRow)

Steps == {"tenant", "find_message", "upsert_contact", "find_conversation",
          "insert_conversation", "insert_message", "commit", "done"}

CallRecord == [step : Steps, conversation : Ids, answer : [kind : Kinds, row : Row]]

TypeOK ==
    /\ input \in [Requests -> MetaMessages]
    /\ call \in [Requests -> CallRecord]
    /\ contactLock \in [Customers -> Ids]
    /\ conversation \in [Customers -> Ids]
    /\ row \in [MetaMessages -> Row]

Init ==
    /\ input \in [Requests -> MetaMessages]
    /\ call = [r \in Requests |->
                 [step |-> "tenant", conversation |-> NoRequest, answer |-> NoAnswer]]
    /\ contactLock = [c \in Customers |-> NoRequest]
    /\ conversation = [c \in Customers |-> NoRequest]
    /\ row = [m \in MetaMessages |-> NoRow]

From(r) == Sender[input[r]]

At(r, step) == call[r].step = step

Goto(r, step) == call' = [call EXCEPT ![r].step = step]

\* What the call will return is known; its transaction is left to commit.
Conclude(r, answer) == call' = [call EXCEPT ![r].step = "commit", ![r].answer = answer]

Finish(r, answer) == call' = [call EXCEPT ![r].step = "done", ![r].answer = answer]

-----------------------------------------------------------------------------

\* The SELECT that precedes the transaction.
FindTenant(r) ==
    /\ At(r, "tenant")
    /\ IF input[r] \in Addressed
       THEN Goto(r, "find_message")
       ELSE Finish(r, Answer("unknown_tenant", NoRow))
    /\ UNCHANGED <<input, contactLock, conversation, row>>

FindMessage(r) ==
    /\ At(r, "find_message")
    /\ IF row[input[r]] # NoRow
       THEN Conclude(r, Answer("duplicated", row[input[r]]))
       ELSE Goto(r, "upsert_contact")
    /\ UNCHANGED <<input, contactLock, conversation, row>>

\* Mutant of UpsertContact: ON CONFLICT DO NOTHING, which locks nothing.
UpsertContactUnlocked(r) ==
    /\ At(r, "upsert_contact")
    /\ Goto(r, "find_conversation")
    /\ UNCHANGED <<input, contactLock, conversation, row>>

\* INSERT ... ON CONFLICT (tenantId, waId) DO UPDATE: new or updated, the row is
\* locked until the transaction ends, and a concurrent upsert of it waits.
UpsertContact(r) ==
    /\ At(r, "upsert_contact")
    /\ contactLock[From(r)] = NoRequest
    /\ contactLock' = [contactLock EXCEPT ![From(r)] = r]
    /\ Goto(r, "find_conversation")
    /\ UNCHANGED <<input, conversation, row>>

FindConversation(r) ==
    /\ At(r, "find_conversation")
    /\ IF conversation[From(r)] # NoRequest
       THEN call' = [call EXCEPT ![r].step = "insert_message",
                                 ![r].conversation = conversation[From(r)]]
       ELSE Goto(r, "insert_conversation")
    /\ UNCHANGED <<input, contactLock, conversation, row>>

\* A conversation this call has inserted and not committed.
HasNewConversation(r) == ~At(r, "done") /\ call[r].conversation = r

\* INSERT ... ON CONFLICT DO NOTHING; on conflict the winner's row, which never
\* changes, is read and used.
InsertConversation(r) ==
    /\ At(r, "insert_conversation")
    /\ \A q \in Requests \ {r} : HasNewConversation(q) => From(q) # From(r)
    /\ call' = [call EXCEPT
                  ![r].step = "insert_message",
                  ![r].conversation = IF conversation[From(r)] = NoRequest
                                      THEN r ELSE conversation[From(r)]]
    /\ UNCHANGED <<input, contactLock, conversation, row>>

\* A message row this call has inserted and not committed.
HasNewMessage(r) == At(r, "commit") /\ call[r].answer.kind = "created"

NewRow(r) == [message |-> r, conversation |-> call[r].conversation]

\* Mutant of InsertMessage: no unique index on (tenantId, metaMessageId).
InsertMessageAnyway(r) ==
    /\ At(r, "insert_message")
    /\ Conclude(r, Answer("created", NewRow(r)))
    /\ UNCHANGED <<input, contactLock, conversation, row>>

\* INSERT ... ON CONFLICT (tenantId, metaMessageId) DO NOTHING; on conflict the
\* winner's row is read and the call is a duplicate.
InsertMessage(r) ==
    /\ At(r, "insert_message")
    /\ \A q \in Requests \ {r} : HasNewMessage(q) => input[q] # input[r]
    /\ Conclude(r, IF row[input[r]] = NoRow
                   THEN Answer("created", NewRow(r))
                   ELSE Answer("duplicated", row[input[r]]))
    /\ UNCHANGED <<input, contactLock, conversation, row>>

ReleaseLock(r) ==
    contactLock' = [c \in Customers |->
                      IF contactLock[c] = r THEN NoRequest ELSE contactLock[c]]

\* COMMIT.  The acknowledgement may be lost: the call throws, the rows stay.
Commit(r) ==
    /\ At(r, "commit")
    /\ conversation' = IF HasNewConversation(r)
                       THEN [conversation EXCEPT ![From(r)] = r] ELSE conversation
    /\ row' = IF HasNewMessage(r) THEN [row EXCEPT ![input[r]] = NewRow(r)] ELSE row
    /\ ReleaseLock(r)
    /\ Finish(r, call[r].answer) \/ Finish(r, Failure)
    /\ UNCHANGED input

\* Mutant of Rollback: the connection goes back to the pool with its transaction open.
RollbackForgotten(r) ==
    /\ ~At(r, "done")
    /\ Finish(r, Failure)
    /\ UNCHANGED <<input, contactLock, conversation, row>>

\* A statement fails, or the server dies: Postgres undoes the transaction.
Rollback(r) ==
    /\ ~At(r, "done")
    /\ ReleaseLock(r)
    /\ Finish(r, Failure)
    /\ UNCHANGED <<input, conversation, row>>

Statement(r) ==
    \/ FindTenant(r)
    \/ FindMessage(r)
    \/ UpsertContact(r)
    \/ FindConversation(r)
    \/ InsertConversation(r)
    \/ InsertMessage(r)
    \/ Commit(r)

Next == \E r \in Requests : Statement(r) \/ Rollback(r)

Spec == Init /\ [][Next]_vars

\* A statement that need not wait ends.  A waiting one is not assumed to fail:
\* no lock or statement timeout is configured.
FairSpec == Spec /\ \A r \in Requests : WF_vars(Statement(r))

-----------------------------------------------------------------------------

Atomic == INSTANCE Inbox WITH
    answer <- [r \in Requests |-> IF At(r, "done") THEN call[r].answer ELSE NoAnswer]

\* Whatever the overlap of deliveries and redeliveries, and wherever they fail,
\* calls behave as if each ran alone: one row per WhatsApp message, in the one
\* active conversation of its sender, "created" told at most once of it and
\* "duplicated" only of a row that is there
\* (receive-inbound-message-use-case.ts:66-130).
ReceivesAtomically == Atomic!Spec

\* No two transactions end up waiting for each other: every call returns.
CallsReturn == \A r \in Requests : <>At(r, "done")

\* The steps between the upsert of the contact and the end of the transaction.
Inside(r) == call[r].step \in {"find_conversation", "insert_conversation", "insert_message"}

\* The lock on the contact row makes the rest of the transaction a critical
\* section per customer: what it has read of the customer's conversation and
\* means to write of its messages cannot be overtaken.
Serialized ==
    \A r \in Requests :
        /\ Inside(r) \/ HasNewMessage(r) => contactLock[From(r)] = r
        /\ HasNewConversation(r) => contactLock[From(r)] = r

\* What a call has read, and what it is about to write, is still so.
ReadsStillTrue ==
    \A r \in Requests :
        /\ At(r, "insert_conversation") => conversation[From(r)] = NoRequest
        /\ At(r, "insert_message") \/ HasNewMessage(r) =>
             /\ call[r].conversation # NoRequest
             /\ conversation[From(r)] =
                  IF HasNewConversation(r) THEN NoRequest ELSE call[r].conversation
        /\ HasNewMessage(r) => row[input[r]] = NoRow /\ call[r].answer.row = NewRow(r)
        /\ At(r, "commit") /\ ~HasNewMessage(r) =>
             /\ call[r].answer = Answer("duplicated", row[input[r]])
             /\ row[input[r]] # NoRow
             /\ ~HasNewConversation(r)

\* A call that has not concluded has read no conversation yet, or not answered.
CallShape ==
    \A r \in Requests :
        /\ At(r, "commit") \/ (At(r, "done") <=> call[r].answer # NoAnswer)
        /\ ~At(r, "insert_message") /\ ~At(r, "commit") /\ ~At(r, "done")
             => call[r].conversation = NoRequest

\* The conversation of a row is its sender's, and whoever created it is done.
RowsAtHome ==
    /\ \A m \in MetaMessages :
         row[m] # NoRow =>
             /\ row[m].message # NoRequest /\ row[m].conversation # NoRequest
             /\ row[m].conversation = conversation[Sender[m]]
    /\ \A c \in Customers, r \in Requests : conversation[c] = r => At(r, "done")

IInv == TypeOK /\ CallShape /\ Serialized /\ ReadsStillTrue /\ RowsAtHome
====
