---- MODULE RestReads ----
(* GET /conversations and GET /conversations/:id/messages: a client reads a    *)
(* list page by page, each page a request of its own and each of its SELECTs a *)
(* step, while messages go on to arrive and to be answered.  Nothing in src/   *)
(* deletes a row, or changes what the lists are sorted by.                     *)
EXTENDS Integers, Sequences, FiniteSets

CONSTANTS Tenants,
          Conversations, TenantOf,  \* conversation -> its tenant
          Messages, Row,            \* message -> the columns that lists depend on
          Times,                    \* when a conversation may be created
          Null,                     \* in a column
          Absent,                   \* a header or parameter the client leaves out
          Malformed,                \* one that is no uuid, or no whole number
          Nobody,                   \* a uuid of no row
          Offsets,                  \* where a client may begin to read: one below 0 is
                                    \* refused, as one that is no whole number is
          DefaultLimit, MaxLimit    \* 50 and 100 in the code

\* An id is a uuid, which has an order.  createdAt is the start of the
\* transaction that inserts; a reply is inserted after its message was, and has
\* no receivedAt.
ASSUME RestAssumption ==
    /\ Conversations \subseteq Int /\ Messages \subseteq Int /\ Times \subseteq Int
    /\ Offsets \subseteq Int
    /\ IsFiniteSet(Conversations) /\ IsFiniteSet(Messages)
    /\ Tenants \cap {Absent, Malformed, Nobody} = {}
    /\ Conversations \cap {Malformed, Nobody} = {}
    /\ Null \notin Int
    /\ TenantOf \in [Conversations -> Tenants]
    /\ Row \in [Messages -> [conversation : Conversations, replyTo : Messages \cup {Null},
                             receivedAt : Int \cup {Null}, createdAt : Int]]
    /\ \A m \in Messages :
         IF Row[m].replyTo = Null THEN Row[m].receivedAt # Null
         ELSE /\ Row[m].receivedAt = Null
              /\ Row[m].conversation = Row[Row[m].replyTo].conversation
              /\ Row[m].createdAt > Row[Row[m].replyTo].createdAt
    /\ DefaultLimit \in 1 .. MaxLimit
    /\ MaxLimit \in Nat

VARIABLES updatedAt,   \* conversation -> its updatedAt, Null before there is a row
          messages,    \* the rows of messages
          query,       \* what the client asks for
          offset,      \* from where on
          step,        \* where the server is with it
          code,        \* its last answer
          pages,       \* the pages the client has had
          full,        \* whether the last was as long as it could be
          before,      \* the list as it was when the client set out
          ahead        \* the part of it that lay from the client's first offset on

rows == <<updatedAt, messages>>

vars == <<updatedAt, messages, query, offset, step, code, pages, full, before, ahead>>

Resources == {"conversations", "messages"}

Headers == Tenants \cup {Absent, Malformed, Nobody}

Params == Conversations \cup {Malformed, Nobody}

\* What a client may ask for: what is refused, and what is not.
Limits == {Absent, Malformed} \cup 0 .. MaxLimit + 1

Queries == [resource : Resources, tenant : Headers, conversation : Params, limit : Limits]

Steps == {"idle", "tenant", "exists", "list", "answered"}

\* PaginationQuerySchema.
LimitOf(q) == IF q.limit = Absent THEN DefaultLimit ELSE q.limit

\* Mutant of ValidQuery: a limit has no upper bound.
ValidQueryUnbounded(q) == q.limit # Malformed /\ LimitOf(q) >= 1 /\ offset >= 0

ValidQuery(q) == q.limit # Malformed /\ LimitOf(q) \in 1 .. MaxLimit /\ offset >= 0

Granted == step \in {"exists", "list"} \/ code = 200

TypeOK ==
    /\ updatedAt \in [Conversations -> Times \cup {Null}]
    /\ messages \subseteq Messages
    /\ query \in Queries
    /\ offset \in Int
    /\ step \in Steps
    /\ code \in {0, 200, 400, 401, 404, 500}
    /\ pages \in Seq(SUBSET (Conversations \cup Messages))
    /\ full \in BOOLEAN
    /\ before \subseteq Conversations \cup Messages
    /\ ahead \subseteq before
    /\ Granted => /\ LimitOf(query) \in 1 .. MaxLimit
                  /\ offset \in Nat
                  /\ query.tenant \in Tenants

-----------------------------------------------------------------------------
(* What the SELECTs return.                                                    *)

\* ORDER BY updatedAt DESC, createdAt DESC, id: the two times are the same.
ConversationBefore(c, d) ==
    \/ updatedAt[c] > updatedAt[d]
    \/ updatedAt[c] = updatedAt[d] /\ c < d

\* Mutant of Sooner: NULLS FIRST.
SoonerNullsFirst(t, u) == u # Null /\ (t = Null \/ t < u)

\* ASC puts NULL last.
Sooner(t, u) == t # Null /\ (u = Null \/ t < u)

\* ORDER BY receivedAt, createdAt, id.
MessageBefore(m, n) ==
    \/ Sooner(Row[m].receivedAt, Row[n].receivedAt)
    \/ /\ Row[m].receivedAt = Row[n].receivedAt
       /\ \/ Row[m].createdAt < Row[n].createdAt
          \/ Row[m].createdAt = Row[n].createdAt /\ m < n

Before(q, a, b) ==
    IF q.resource = "conversations" THEN ConversationBefore(a, b) ELSE MessageBefore(a, b)

\* Mutant of ListedConversations: listByTenant forgets the tenant.
ListedConversationsOfAll(q) == {c \in Conversations : updatedAt[c] # Null}

\* listByTenant.  A conversation's contact is of its tenant (ReceiveInbound), so
\* the join leaves nothing out.
ListedConversations(q) == {c \in Conversations : updatedAt[c] # Null /\ TenantOf[c] = q.tenant}

\* listMessagesByConversation.
ListedMessages(q) ==
    {m \in messages : /\ Row[m].conversation = q.conversation
                      /\ TenantOf[Row[m].conversation] = q.tenant}

Listed(q) == IF q.resource = "conversations" THEN ListedConversations(q) ELSE ListedMessages(q)

Preceding(q, a) == {b \in Listed(q) : Before(q, b, a)}

Position(q, a) == Cardinality(Preceding(q, a))

\* Mutant of Page: one row too many.
PageOfOneMore(q) == {a \in Listed(q) : Position(q, a) \in offset .. offset + LimitOf(q)}

\* LIMIT and OFFSET.
Page(q) == {a \in Listed(q) : Position(q, a) \in offset .. offset + LimitOf(q) - 1}

-----------------------------------------------------------------------------
(* The requests.                                                               *)

Init ==
    /\ updatedAt = [c \in Conversations |-> Null]
    /\ messages = {}
    /\ query \in Queries
    /\ offset = 0
    /\ step = "idle"
    /\ code = 0
    /\ pages = <<>>
    /\ full = FALSE
    /\ before = {}
    /\ ahead = {}

Goto(next) == step' = next /\ code' = 0

Answer(status) == step' = "answered" /\ code' = status

\* The middleware up to its SELECT.
Request ==
    \/ query.tenant = Absent /\ Answer(401)
    \/ query.tenant = Malformed /\ Answer(400)
    \/ query.tenant \notin {Absent, Malformed} /\ Goto("tenant")

\* What there is to be seen is fixed when the client sets out.
FirstPage ==
    /\ step = "idle"
    /\ offset' \in Offsets
    /\ before' = Listed(query)
    /\ ahead' = {a \in Listed(query) : Position(query, a) >= offset'}
    /\ Request
    /\ UNCHANGED <<rows, query, pages, full>>

\* The client asks on until a page comes back short.
NextPage ==
    /\ step = "answered" /\ code = 200 /\ full
    /\ offset' = offset + LimitOf(query)
    /\ Request
    /\ UNCHANGED <<rows, query, pages, full, before, ahead>>

\* The middleware's SELECT finds no tenant, or the handler refuses a parameter.
Refuse ==
    /\ step = "tenant"
    /\ \/ query.tenant = Nobody /\ Answer(401)
       \/ /\ query.tenant # Nobody
          /\ \/ query.resource = "messages" /\ query.conversation = Malformed
             \/ ~ValidQuery(query)
          /\ Answer(400)
    /\ UNCHANGED <<rows, query, offset, pages, full, before, ahead>>

Accept ==
    /\ step = "tenant"
    /\ query.tenant # Nobody
    /\ ValidQuery(query)
    /\ \/ query.resource = "conversations" /\ Goto("list")
       \/ query.resource = "messages" /\ query.conversation # Malformed /\ Goto("exists")
    /\ UNCHANGED <<rows, query, offset, pages, full, before, ahead>>

\* Mutant of Exists: of any tenant.
ExistsForAnyone(q) == q.conversation \in Conversations /\ updatedAt[q.conversation] # Null

Exists(q) ==
    /\ q.conversation \in Conversations
    /\ updatedAt[q.conversation] # Null
    /\ TenantOf[q.conversation] = q.tenant

\* existsForTenant.
ExistsForTenant ==
    /\ step = "exists"
    /\ \/ Exists(query) /\ Goto("list")
       \/ ~Exists(query) /\ Answer(404)
    /\ UNCHANGED <<rows, query, offset, pages, full, before, ahead>>

\* The positions of a list are 0, 1, ...: the page is full when they go on to the
\* last of it.
List ==
    /\ step = "list"
    /\ pages' = Append(pages, Page(query))
    /\ full' = (Cardinality(Listed(query)) >= offset + LimitOf(query))
    /\ Answer(200)
    /\ UNCHANGED <<rows, query, offset, before, ahead>>

\* A SELECT rejects: nothing catches it before Fastify, which answers 500.
Fail ==
    /\ step \in {"tenant", "exists", "list"}
    /\ Answer(500)
    /\ UNCHANGED <<rows, query, offset, pages, full, before, ahead>>

-----------------------------------------------------------------------------
(* The rest of the system.                                                     *)

client == <<query, offset, step, code, pages, full, before, ahead>>

\* A customer's first message commits with its conversation.
Open(m) ==
    LET c == Row[m].conversation
    IN /\ Row[m].replyTo = Null
       /\ updatedAt[c] = Null
       /\ \E t \in Times : updatedAt' = [updatedAt EXCEPT ![c] = t]
       /\ messages' = messages \cup {m}
       /\ UNCHANGED client

\* Mutant of Arrive: the conversation becomes the latest.
ArriveTouching(m) ==
    LET c == Row[m].conversation
    IN /\ Row[m].replyTo = Null
       /\ updatedAt[c] # Null
       /\ messages' = messages \cup {m}
       /\ \E t \in Times : updatedAt' = [updatedAt EXCEPT ![c] = t]
       /\ UNCHANGED client

Arrive(m) ==
    /\ Row[m].replyTo = Null
    /\ updatedAt[Row[m].conversation] # Null
    /\ messages' = messages \cup {m}
    /\ UNCHANGED <<updatedAt, client>>

Reply(m) ==
    /\ Row[m].replyTo \in messages
    /\ messages' = messages \cup {m}
    /\ UNCHANGED <<updatedAt, client>>

Traffic == \E m \in Messages \ messages : Open(m) \/ Arrive(m) \/ Reply(m)

Next ==
    \/ FirstPage \/ NextPage \/ Refuse \/ Accept \/ ExistsForTenant \/ List \/ Fail
    \/ Traffic

Spec == Init /\ [][Next]_vars

-----------------------------------------------------------------------------

Seen == UNION {pages[i] : i \in DOMAIN pages}

\* README.md:455: REST queries "never return conversations or messages outside
\* that tenant" (conversation-repository.ts:66,124-129).
OwnRowsOnly ==
    \A a \in Seen :
        TenantOf[IF query.resource = "conversations" THEN a ELSE Row[a].conversation]
            = query.tenant

\* README.md:371-372: a conversation of another tenant is answered as one that
\* does not exist is, and at every moment (conversation-service.ts:24-32).
ForeignLooksMissing ==
    step = "answered" /\ query.resource = "messages" /\ code \in {200, 404}
        /\ ~(query.conversation \in Conversations /\ TenantOf[query.conversation] = query.tenant)
    => code = 404 /\ Seen = {}

\* Pages are cut by offset from a list that grows between them
\* (conversation-repository.ts:72-73,131-132): a client that reads to the end has
\* seen every row that was there, from its first offset on, when it set out.
NothingSkipped ==
    step = "answered" /\ code = 200 /\ ~full => ahead \subseteq Seen

\* A row is shown again only because others came in before it, each of which can
\* push one row over a page's edge (conversation-repository.ts:72-73,131-132):
\* whatever offset the client begins at, it is shown no more repeats than rows
\* came in since it set out.
Showings == UNION {{i} \X pages[i] : i \in DOMAIN pages}

RepeatsAreArrivals ==
    Cardinality(Showings) - Cardinality(Seen) <= Cardinality(Listed(query) \ before)

\* Replies have no receivedAt and are sorted apart from what they answer
\* (conversation-repository.ts:130): no reply is shown before its message, unless
\* that lay before the client's first offset or came in behind its back.
AnswersFollow ==
    query.resource = "messages" =>
        \A i \in DOMAIN pages : \A m \in pages[i] :
            Row[m].replyTo \in ahead =>
                \E j \in 1 .. i : /\ Row[m].replyTo \in pages[j]
                                  /\ j = i => MessageBefore(Row[m].replyTo, m)
====
