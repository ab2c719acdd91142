---- MODULE RestReadsProofs ----
(* For any tenants, rows and page sizes: no request shows a row of another     *)
(* tenant or tells its conversations from ones that do not exist, and a client *)
(* that reads a list to the end sees all that was there when it set out.       *)
EXTENDS RestReads, FiniteSetTheorems, TLAPS

-----------------------------------------------------------------------------
(* Lists only grow, and what they hold keeps its place behind what was before  *)
(* it.                                                                         *)

AllRows == Conversations \cup Messages

\* The columns that lists are sorted by.
LEMMA ColumnsTyped ==
    /\ IsFiniteSet(Conversations) /\ IsFiniteSet(Messages)
    /\ \A c \in Conversations : c \in Int /\ TenantOf[c] \in Tenants
    /\ Times \subseteq Int /\ Null \notin Int
    /\ \A m \in Messages : /\ m \in Int
                            /\ Row[m].conversation \in Conversations
                            /\ Row[m].receivedAt \in Int \cup {Null}
                            /\ Row[m].createdAt \in Int
  BY RestAssumption DEF RestAssumption

\* A list is of conversations or of messages, and there are finitely many.
LEMMA ListedFinite ==
    ASSUME TypeOK, NEW q
    PROVE  Listed(q) \subseteq AllRows /\ IsFiniteSet(Listed(q))
<1>1. Listed(q) \subseteq Conversations \/ Listed(q) \subseteq Messages
  BY DEF TypeOK, Listed, ListedConversations, ListedMessages
<1> QED
  BY <1>1, FS_Subset, ColumnsTyped DEF AllRows

\* The same of the next state's list.
LEMMA ListedFiniteNext ==
    ASSUME TypeOK' PROVE IsFiniteSet(Listed(query)')
<1>1. Listed(query)' \subseteq Conversations \/ Listed(query)' \subseteq Messages
  BY DEF TypeOK, Listed, ListedConversations, ListedMessages
<1> QED
  BY <1>1, FS_Subset, ColumnsTyped

\* A position is a number, and the last one is one less than there are rows.
LEMMA PositionBelow ==
    ASSUME TypeOK, NEW q, NEW a \in Listed(q)
    PROVE  Position(q, a) \in Nat /\ Position(q, a) < Cardinality(Listed(q))
<1>1. ~Before(q, a, a)
  <2>1. CASE q.resource = "conversations"
    <3>1. a \in Conversations /\ updatedAt[a] \in Times
      BY <2>1 DEF TypeOK, Listed, ListedConversations
    <3>2. a \in Int /\ updatedAt[a] \in Int
      BY <3>1, ColumnsTyped
    <3> QED
      BY <2>1, <3>2 DEF Before, ConversationBefore
  <2>2. CASE q.resource # "conversations"
    <3>1. a \in Messages
      BY <2>2 DEF TypeOK, Listed, ListedMessages
    <3>2. a \in Int /\ Row[a].receivedAt \in Int \cup {Null} /\ Row[a].createdAt \in Int
      BY <3>1, ColumnsTyped
    <3> QED
      BY <2>2, <3>1, <3>2 DEF Before, MessageBefore, Sooner
  <2> QED
    BY <2>1, <2>2
<1>2. Preceding(q, a) \in SUBSET (Listed(q) \ {a})
  BY <1>1 DEF Preceding
<1>3. /\ IsFiniteSet(Listed(q) \ {a})
      /\ Cardinality(Listed(q) \ {a}) = Cardinality(Listed(q)) - 1
      /\ Cardinality(Listed(q)) \in Nat
  BY ListedFinite, FS_RemoveElement, FS_CardinalityType
<1>4. IsFiniteSet(Preceding(q, a)) /\ Cardinality(Preceding(q, a)) <= Cardinality(Listed(q) \ {a})
  BY <1>2, <1>3, FS_Subset
<1>5. Cardinality(Preceding(q, a)) \in Nat
  BY <1>4, FS_CardinalityType
<1> QED
  BY <1>3, <1>4, <1>5 DEF Position

\* The same of a position in the next state.
LEMMA PositionTypedNext ==
    ASSUME TypeOK', NEW a
    PROVE  Position(query, a)' \in Nat
<1>1. IsFiniteSet(Preceding(query, a)')
  BY ListedFiniteNext, FS_Subset DEF Preceding
<1> QED
  BY <1>1, FS_CardinalityType DEF Position

\* What the rest of the system does.
Grows ==
    /\ messages \subseteq messages'
    /\ \A c \in Conversations : updatedAt[c] # Null => updatedAt'[c] = updatedAt[c]

\* Every step only adds rows.
LEMMA RowsGrow ==
    ASSUME TypeOK, [Next]_vars
    PROVE  Grows
<1>1. CASE FirstPage \/ NextPage \/ Refuse \/ Accept \/ Fail
  BY <1>1 DEF FirstPage, NextPage, Refuse, Accept, Fail, Grows, rows
<1>2. CASE ExistsForTenant \/ List
  BY <1>2 DEF ExistsForTenant, List, Grows, rows
<1>3. ASSUME NEW m \in Messages \ messages, Open(m) \/ Arrive(m) \/ Reply(m) PROVE Grows
  <2>1. CASE Open(m)
    <3>1. Row[m].conversation \in Conversations
      BY ColumnsTyped
    <3> QED
      BY <2>1, <3>1 DEF Open, Grows, TypeOK
  <2>2. CASE Arrive(m)
    BY <2>2 DEF Arrive, Grows
  <2>3. CASE Reply(m)
    BY <2>3 DEF Reply, Grows
  <2> QED
    BY <1>3, <2>1, <2>2, <2>3
<1>4. CASE UNCHANGED vars
  BY <1>4 DEF vars, Grows
<1> QED
  BY <1>1, <1>2, <1>3, <1>4 DEF Next, Traffic

\* So a list keeps its rows, and none moves towards its beginning.
LEMMA ListGrows ==
    ASSUME TypeOK, TypeOK', Grows, query' = query
    PROVE  /\ Listed(query) \subseteq Listed(query)'
           /\ \A a \in Listed(query) : Position(query, a) <= Position(query, a)'
<1>1. Listed(query) \subseteq Listed(query)'
  BY DEF Grows, Listed, ListedConversations, ListedMessages
<1>2. ASSUME NEW a \in Listed(query) PROVE Position(query, a) <= Position(query, a)'
  <2>1. ASSUME NEW b \in Listed(query), Before(query, b, a) PROVE Before(query, b, a)'
    <3>1. CASE query.resource = "conversations"
      BY <2>1, <3>1 DEF Grows, Listed, ListedConversations, Before,
                        ConversationBefore
    <3>2. CASE query.resource # "conversations"
      BY <2>1, <3>2 DEF Before, MessageBefore, Sooner
    <3> QED
      BY <3>1, <3>2
  <2>2. Preceding(query, a) \in SUBSET Preceding(query, a)'
    BY <1>1, <2>1 DEF Preceding
  <2>3. IsFiniteSet(Preceding(query, a)')
    BY ListedFiniteNext, FS_Subset DEF Preceding
  <2> QED
    BY <2>2, <2>3, FS_Subset DEF Position
<1> QED
  BY <1>1, <1>2

-----------------------------------------------------------------------------
(* Types.                                                                      *)

\* The middleware lets no request without a tenant pass, and a code is that of
\* an answer.
Asked ==
    /\ step = "tenant" => query.tenant \in Tenants \cup {Nobody}
    /\ code = 200 => step = "answered"

Typed == TypeOK /\ Asked

\* The constants that types are about.
LEMMA ConstantsTyped ==
    /\ MaxLimit \in Nat /\ DefaultLimit \in 1 .. MaxLimit
    /\ Offsets \subseteq Int
    /\ Tenants \cap {Absent, Malformed, Nobody} = {}
  BY RestAssumption DEF RestAssumption

\* What a request becomes in the middleware.
LEMMA RequestTyped ==
    ASSUME query \in Queries, query' = query, Request
    PROVE  /\ step' \in Steps /\ code' \in {0, 200, 400, 401, 404, 500}
           /\ ~Granted' /\ Asked'
  BY ConstantsTyped
     DEF Request, Answer, Goto, Queries, Headers, Steps, Granted, Asked

\* They hold before the first request.
LEMMA InitTyped ==
    ASSUME Init
    PROVE  Typed
<1>1. updatedAt \in [Conversations -> Times \cup {Null}]
  BY DEF Init
<1>2. pages \in Seq(SUBSET (Conversations \cup Messages))
  BY DEF Init
<1>3. messages \subseteq Messages /\ before \subseteq Conversations \cup Messages
      /\ ahead \subseteq before
  BY DEF Init
<1>4. full \in BOOLEAN
  BY DEF Init
<1>5. query \in Queries /\ offset \in Int /\ step \in Steps /\ code \in {0, 200, 400, 401, 404, 500}
  BY DEF Init, Steps
<1>6. ~Granted /\ Asked
  BY DEF Init, Granted, Asked
<1> QED
  BY <1>1, <1>2, <1>3, <1>4, <1>5, <1>6 DEF Typed, TypeOK

\* Every step keeps the types.
LEMMA TypedStep ==
    ASSUME Typed, [Next]_vars
    PROVE  Typed'
<1> USE DEF Typed
<1>1. CASE FirstPage
  <2>1. step' \in Steps /\ code' \in {0, 200, 400, 401, 404, 500} /\ ~Granted' /\ Asked'
    BY <1>1, RequestTyped DEF FirstPage, TypeOK
  <2>2. before' \subseteq Conversations \cup Messages /\ ahead' \subseteq before'
    BY <1>1, ListedFinite DEF FirstPage, AllRows
  <2> QED
    BY <1>1, <2>1, <2>2, ConstantsTyped DEF FirstPage, TypeOK, rows
<1>2. CASE NextPage
  <2>1. step' \in Steps /\ code' \in {0, 200, 400, 401, 404, 500} /\ ~Granted' /\ Asked'
    BY <1>2, RequestTyped DEF NextPage, TypeOK
  <2>2. offset' \in Int
    BY <1>2 DEF NextPage, TypeOK, Granted
  <2> QED
    BY <1>2, <2>1, <2>2 DEF NextPage, TypeOK, rows
<1>3. CASE Refuse \/ Fail
  BY <1>3 DEF Refuse, Fail, Answer, TypeOK, Asked, Granted, Steps, rows
<1>4. CASE Accept
  BY <1>4, ConstantsTyped
     DEF Accept, Goto, TypeOK, Asked, Granted, ValidQuery, Steps, rows
<1>5. CASE ExistsForTenant
  BY <1>5 DEF ExistsForTenant, Goto, Answer, TypeOK, Asked, Granted, Steps, rows
<1>6. CASE List
  <2>1. Page(query) \subseteq Conversations \cup Messages
    BY ListedFinite DEF Page, AllRows
  <2>2. pages' \in Seq(SUBSET (Conversations \cup Messages))
    BY <1>6, <2>1 DEF List, TypeOK
  <2> QED
    BY <1>6, <2>2 DEF List, Answer, TypeOK, Asked, Granted, Steps, rows
<1>7. ASSUME NEW m \in Messages \ messages, Open(m) \/ Arrive(m) \/ Reply(m) PROVE Typed'
  <2>1. updatedAt' \in [Conversations -> Times \cup {Null}] /\ messages' \subseteq Messages
    BY <1>7 DEF Open, Arrive, Reply, TypeOK
  <2>2. UNCHANGED client
    BY <1>7 DEF Open, Arrive, Reply
  <2> QED
    BY <2>1, <2>2 DEF TypeOK, Asked, Granted, LimitOf, client
<1>8. CASE UNCHANGED vars
  BY <1>8 DEF vars, TypeOK, Asked, Granted, LimitOf
<1> QED
  BY <1>1, <1>2, <1>3, <1>4, <1>5, <1>6, <1>7, <1>8 DEF Next, Traffic

\* Every request's record is well typed, and a limit that was let through lies
\* within the bounds of PaginationQuerySchema (conversation-routes.ts:9-12).
THEOREM TypeCorrect == Spec => []TypeOK
<1>1. Init => Typed
  BY InitTyped
<1>2. Typed /\ [Next]_vars => Typed'
  BY TypedStep
<1> QED
  BY <1>1, <1>2, PTL DEF Spec, Typed

-----------------------------------------------------------------------------
(* A tenant sees its own rows, and only they are there to it.                  *)

OwnConversation ==
    query.conversation \in Conversations /\ TenantOf[query.conversation] = query.tenant

\* What a query may show.
Owned ==
    IF query.resource = "conversations" THEN {c \in Conversations : TenantOf[c] = query.tenant}
    ELSE {m \in Messages : TenantOf[Row[m].conversation] = query.tenant}

OwnPages == \A i \in DOMAIN pages : pages[i] \subseteq Owned

\* existsForTenant stands before every list of messages.
Entitled ==
    query.resource = "messages" /\ (step = "list" \/ pages # <<>>) => OwnConversation

Paged == code = 200 => pages # <<>>

Isolated == OwnPages /\ Entitled /\ Paged

\* Only List shows anything.
LEMMA IsolatedStep ==
    ASSUME Typed, Isolated, [Next]_vars
    PROVE  Isolated'
<1>1. CASE FirstPage
  BY <1>1 DEF FirstPage, Request, Answer, Goto, Isolated, OwnPages, Owned, Entitled,
              OwnConversation, Paged
<1>2. CASE NextPage
  BY <1>2 DEF NextPage, Request, Answer, Goto, Isolated, OwnPages, Owned, Entitled,
              OwnConversation, Paged
<1>3. CASE Refuse \/ Fail
  BY <1>3 DEF Refuse, Fail, Answer, Isolated, OwnPages, Owned, Entitled, OwnConversation, Paged
<1>4. CASE Accept
  BY <1>4 DEF Accept, Goto, Isolated, OwnPages, Owned, Entitled, OwnConversation, Paged
<1>5. CASE ExistsForTenant
  BY <1>5 DEF ExistsForTenant, Exists, Answer, Goto, Isolated, OwnPages, Owned, Entitled,
              OwnConversation, Paged
<1>6. CASE List
  <2>1. Page(query) \subseteq Owned
    BY DEF Typed, TypeOK, Page, Listed, ListedConversations, ListedMessages, Owned
  <2>2. pages \in Seq(SUBSET (Conversations \cup Messages))
           /\ Page(query) \in SUBSET (Conversations \cup Messages)
    BY <2>1 DEF Typed, TypeOK, Owned
  <2>3. pages' = Append(pages, Page(query)) /\ query' = query
    BY <1>6 DEF List
  <2>4. pages' # <<>>
    BY <2>2, <2>3
  <2>5. Owned' = Owned
    BY <2>3 DEF Owned
  <2>6. OwnPages'
    BY <2>1, <2>2, <2>3, <2>5 DEF Isolated, OwnPages
  <2> QED
    BY <1>6, <2>3, <2>4, <2>6 DEF List, Isolated, Entitled, OwnConversation, Paged
<1>7. ASSUME NEW m \in Messages \ messages, Open(m) \/ Arrive(m) \/ Reply(m) PROVE Isolated'
  <2>1. UNCHANGED client
    BY <1>7 DEF Open, Arrive, Reply
  <2> QED
    BY <2>1 DEF client, Isolated, OwnPages, Owned, Entitled, OwnConversation, Paged
<1>8. CASE UNCHANGED vars
  BY <1>8 DEF vars, Isolated, OwnPages, Owned, Entitled, OwnConversation, Paged
<1> QED
  BY <1>1, <1>2, <1>3, <1>4, <1>5, <1>6, <1>7, <1>8 DEF Next, Traffic

\* Both parts of the invariant, of every state.
THEOREM Isolation == Spec => [](Typed /\ Isolated)
<1>1. Init => Typed
  BY InitTyped
<1>2. Init => Isolated
  BY DEF Init, Isolated, OwnPages, Entitled, Paged
<1>3. Typed /\ Isolated /\ [Next]_vars => Typed' /\ Isolated'
  BY TypedStep, IsolatedStep
<1> QED
  BY <1>1, <1>2, <1>3, PTL DEF Spec

\* No request is ever shown a row of another tenant
\* (conversation-repository.ts:70,124-127).
THEOREM OwnRows == Spec => []OwnRowsOnly
<1>1. Isolated => OwnRowsOnly
  BY DEF Isolated, OwnPages, Owned, OwnRowsOnly, Seen
<1> QED
  BY <1>1, Isolation, PTL

\* Nothing in an answer tells another tenant's conversation from one that does
\* not exist (conversation-service.ts:24-32).
THEOREM ForeignIsMissing == Spec => []ForeignLooksMissing
<1>1. ASSUME Isolated PROVE ForeignLooksMissing
  <2>1. ASSUME query.resource = "messages", ~OwnConversation
        PROVE  code # 200 /\ Seen = {}
    <3>1. pages = <<>>
      BY <1>1, <2>1 DEF Isolated, Entitled
    <3> QED
      BY <1>1, <3>1 DEF Isolated, Paged, Seen
  <2> QED
    BY <2>1 DEF ForeignLooksMissing, OwnConversation
<1> QED
  BY <1>1, Isolation, PTL

-----------------------------------------------------------------------------
(* A client that reads to the end misses nothing: what it has not seen yet lies *)
(* behind the edge of its last page, and rows only move away from it.          *)

\* The position up to which the client has read.
Edge == IF code = 200 THEN offset + LimitOf(query) ELSE offset

StillListed == before \subseteq Listed(query)

UnseenAhead == \A a \in ahead \ Seen : Position(query, a) >= Edge

Progressing == StillListed /\ UnseenAhead /\ NothingSkipped

\* A step of the client's changes no list.
LEMMA ListKept ==
    ASSUME UNCHANGED rows, query' = query
    PROVE  /\ Listed(query)' = Listed(query)
           /\ \A a : Position(query, a)' = Position(query, a)
<1>1. Listed(query)' = Listed(query)
  BY DEF rows, Listed, ListedConversations, ListedMessages
<1>2. ASSUME NEW a PROVE Preceding(query, a)' = Preceding(query, a)
  BY <1>1 DEF rows, Preceding, Before, ConversationBefore, MessageBefore, Sooner
<1> QED
  BY <1>1, <1>2 DEF Position

\* A step that shows nothing and leaves the edge where it is.
LEMMA EdgeKept ==
    ASSUME Progressing, UNCHANGED <<rows, query, pages, before, ahead>>, code' # 200,
           offset' = Edge
    PROVE  Progressing'
<1>1. Seen' = Seen /\ Edge' = Edge
  BY DEF Seen, Edge
<1>2. StillListed' /\ UnseenAhead'
  BY <1>1, ListKept DEF Progressing, StillListed, UnseenAhead
<1> QED
  BY <1>2 DEF Progressing, NothingSkipped

\* The page shows what lies between the edge it starts at and the next, and if it
\* is short nothing lies behind.
LEMMA ListProgress ==
    ASSUME Typed, Progressing, List
    PROVE  Progressing'
<1>1. /\ pages \in Seq(SUBSET (Conversations \cup Messages))
      /\ LimitOf(query) \in Nat /\ offset \in Nat /\ code # 200
  BY ConstantsTyped DEF List, Typed, TypeOK, Granted, Asked
<1>2. /\ UNCHANGED <<rows, query, offset, before, ahead>>
      /\ code' = 200 /\ pages' = Append(pages, Page(query))
      /\ full' = (Cardinality(Listed(query)) >= offset + LimitOf(query))
  BY DEF List, Answer
<1>3. Page(query) \in SUBSET (Conversations \cup Messages)
  BY ListedFinite DEF Typed, Page, AllRows
<1>4. Seen' = Seen \cup Page(query)
  <2>1. DOMAIN pages' = DOMAIN pages \cup {Len(pages) + 1}
    BY <1>1, <1>2, <1>3
  <2>2. /\ \A i \in DOMAIN pages : pages'[i] = pages[i]
        /\ pages'[Len(pages) + 1] = Page(query)
    BY <1>1, <1>2, <1>3
  <2> QED
    BY <2>1, <2>2 DEF Seen
<1>5. Edge = offset /\ Edge' = offset + LimitOf(query)
  BY <1>1, <1>2 DEF Edge, LimitOf
<1>6. StillListed'
  BY <1>2, ListKept DEF Progressing, StillListed
<1>7. ASSUME NEW a \in ahead, a \notin Seen'
      PROVE  Position(query, a) >= offset + LimitOf(query)
  <2>1. a \in Listed(query) /\ a \notin Page(query)
    BY <1>4, <1>7 DEF Progressing, StillListed, Typed, TypeOK
  <2>2. Position(query, a) >= offset
    BY <1>4, <1>5, <1>7 DEF Progressing, UnseenAhead
  <2>3. Position(query, a) \in Nat
    BY <2>1, PositionBelow DEF Typed
  <2> QED
    BY <1>1, <2>1, <2>2, <2>3 DEF Page
<1>8. UnseenAhead'
  BY <1>2, <1>5, <1>7, ListKept DEF UnseenAhead
<1>9. ASSUME ~full' PROVE ahead \subseteq Seen'
  <2>1. Cardinality(Listed(query)) < offset + LimitOf(query)
    <3>1. Cardinality(Listed(query)) \in Nat
      BY ListedFinite, FS_CardinalityType DEF Typed
    <3>2. ~(Cardinality(Listed(query)) >= offset + LimitOf(query))
      BY <1>2, <1>9, Zenon
    <3> QED
      BY <1>1, <3>1, <3>2
  <2>2. ASSUME NEW a \in ahead, a \notin Seen' PROVE FALSE
    <3>1. a \in Listed(query)
      BY <2>2 DEF Progressing, StillListed, Typed, TypeOK
    <3>2. /\ Position(query, a) \in Nat /\ Position(query, a) < Cardinality(Listed(query))
          /\ Cardinality(Listed(query)) \in Nat
      BY <3>1, PositionBelow, ListedFinite, FS_CardinalityType DEF Typed
    <3>3. Position(query, a) >= offset + LimitOf(query)
      BY <1>7, <2>2
    <3> QED
      BY <1>1, <2>1, <3>2, <3>3
  <2> QED
    BY <2>2
<1> QED
  BY <1>2, <1>6, <1>8, <1>9 DEF Progressing, NothingSkipped

\* Every step keeps it.
LEMMA ProgressStep ==
    ASSUME Typed, Progressing, [Next]_vars
    PROVE  Progressing'
<1> USE DEF Typed
<1>1. CASE FirstPage
  <2>1. code' # 200
    BY <1>1 DEF FirstPage, Request, Answer, Goto
  <2>2. /\ before' = Listed(query)
        /\ ahead' = {a \in Listed(query) : Position(query, a) >= offset'}
    BY <1>1 DEF FirstPage
  <2>3. StillListed' /\ UnseenAhead'
    BY <1>1, <2>1, <2>2, ListKept DEF FirstPage, StillListed, UnseenAhead, Edge
  <2> QED
    BY <2>1, <2>3 DEF Progressing, NothingSkipped
<1>2. CASE NextPage
  BY <1>2, EdgeKept DEF NextPage, Request, Answer, Goto, Edge
<1>3. CASE Refuse \/ Fail
  BY <1>3, EdgeKept DEF Refuse, Fail, Answer, Edge, Asked
<1>4. CASE Accept
  BY <1>4, EdgeKept DEF Accept, Goto, Edge, Asked
<1>5. CASE ExistsForTenant
  BY <1>5, EdgeKept DEF ExistsForTenant, Goto, Answer, Edge, Asked
<1>6. CASE List
  BY <1>6, ListProgress
<1>7. ASSUME NEW m \in Messages \ messages, Open(m) \/ Arrive(m) \/ Reply(m)
      PROVE  Progressing'
  <2>1. UNCHANGED client
    BY <1>7 DEF Open, Arrive, Reply
  <2>2. TypeOK' /\ Grows
    BY TypedStep, RowsGrow
  <2>3. /\ Listed(query) \subseteq Listed(query)'
        /\ \A a \in Listed(query) : Position(query, a) <= Position(query, a)'
    BY <2>1, <2>2, ListGrows DEF client
  <2>4. StillListed'
    BY <2>1, <2>3 DEF client, Progressing, StillListed
  <2>5. Seen' = Seen /\ Edge' = Edge /\ Edge \in Int
    BY <2>1, ConstantsTyped DEF client, Seen, Edge, LimitOf, TypeOK, Granted
  <2>6. ASSUME NEW a \in ahead, a \notin Seen PROVE Position(query, a)' >= Edge
    <3>1. a \in Listed(query) /\ Position(query, a) >= Edge
      BY <2>6 DEF Progressing, StillListed, UnseenAhead, TypeOK
    <3>2. Position(query, a) \in Int /\ Position(query, a)' \in Int
      BY <2>2, <2>3, <3>1, PositionBelow, PositionTypedNext
    <3> QED
      BY <2>3, <2>5, <3>1, <3>2
  <2>7. UnseenAhead'
    BY <2>1, <2>5, <2>6 DEF client, UnseenAhead
  <2> QED
    BY <2>1, <2>4, <2>5, <2>7 DEF client, Progressing, NothingSkipped
<1>8. CASE UNCHANGED vars
  <2>1. UNCHANGED <<rows, query, pages, before, ahead, code, step, full, offset>>
    BY <1>8 DEF vars, rows
  <2>2. Seen' = Seen /\ Edge' = Edge
    BY <2>1 DEF Seen, Edge, LimitOf
  <2> QED
    BY <2>1, <2>2, ListKept DEF Progressing, StillListed, UnseenAhead, NothingSkipped
<1> QED
  BY <1>1, <1>2, <1>3, <1>4, <1>5, <1>6, <1>7, <1>8 DEF Next, Traffic

\* Whatever is inserted between its pages, a client that has read to the end has
\* seen every row that was there, from its first offset on, when it set out
\* (conversation-repository.ts:72-73,130-131).
THEOREM ReadsAll == Spec => []NothingSkipped
<1>1. Init => Typed /\ Progressing
  <2>1. Init => Progressing
    BY DEF Init, Progressing, StillListed, UnseenAhead, NothingSkipped
  <2> QED
    BY <2>1, InitTyped
<1>2. Typed /\ Progressing /\ [Next]_vars => Typed' /\ Progressing'
  BY TypedStep, ProgressStep
<1> QED
  BY <1>1, <1>2, PTL DEF Spec, Progressing

-----------------------------------------------------------------------------
(* The order of a list, and how many rows lie between two of its positions.    *)

\* One row is before another and so on, and of two one is before the other.
LEMMA Ordered ==
    ASSUME TypeOK, NEW q, NEW a \in Listed(q), NEW b \in Listed(q)
    PROVE  /\ ~Before(q, a, a)
           /\ a # b => Before(q, a, b) \/ Before(q, b, a)
           /\ \A c \in Listed(q) : Before(q, a, b) /\ Before(q, b, c) => Before(q, a, c)
<1>1. CASE q.resource = "conversations"
  <2>1. \A c \in Listed(q) : c \in Conversations /\ updatedAt[c] \in Times
    BY <1>1 DEF TypeOK, Listed, ListedConversations
  <2>2. \A c \in Listed(q) : c \in Int /\ updatedAt[c] \in Int
    BY <2>1, ColumnsTyped
  <2> QED
    BY <1>1, <2>2 DEF Before, ConversationBefore
<1>2. CASE q.resource # "conversations"
  <2>1. \A c \in Listed(q) : /\ c \in Int /\ Row[c].createdAt \in Int
                             /\ Row[c].receivedAt = Null \/ Row[c].receivedAt \in Int
    <3>1. Listed(q) \subseteq Messages
      BY <1>2 DEF TypeOK, Listed, ListedMessages
    <3> QED
      BY <3>1, ColumnsTyped
  <2>2. Null \notin Int
    BY ColumnsTyped
  <2> QED
    BY <1>2, <2>1, <2>2 DEF Before, MessageBefore, Sooner
<1> QED
  BY <1>1, <1>2

\* What is before another row has the smaller position.
LEMMA PositionsOrdered ==
    ASSUME TypeOK, NEW q, NEW a \in Listed(q), NEW b \in Listed(q), Before(q, a, b)
    PROVE  Position(q, a) < Position(q, b)
<1>1. Preceding(q, a) \cup {a} \in SUBSET Preceding(q, b) /\ a \notin Preceding(q, a)
  BY Ordered DEF Preceding
<1>2. IsFiniteSet(Preceding(q, a)) /\ IsFiniteSet(Preceding(q, b))
  <2>1. Preceding(q, a) \subseteq Listed(q) /\ Preceding(q, b) \subseteq Listed(q)
    BY DEF Preceding
  <2> QED
    BY <2>1, ListedFinite, FS_Subset
<1>3. Cardinality(Preceding(q, a) \cup {a}) = Position(q, a) + 1
  BY <1>1, <1>2, FS_AddElement DEF Position
<1>4. Cardinality(Preceding(q, a) \cup {a}) <= Position(q, b)
  BY <1>1, <1>2, FS_Subset DEF Position
<1> QED
  BY <1>3, <1>4, PositionBelow

\* Between two positions there are no more rows than positions.
LEMMA RowsBetween ==
    ASSUME TypeOK, NEW q, NEW first \in Int, NEW next \in Int, first <= next,
           NEW S \in SUBSET Listed(q),
           \A a \in S : Position(q, a) >= first /\ Position(q, a) < next
    PROVE  IsFiniteSet(S) /\ Cardinality(S) \in Nat /\ Cardinality(S) <= next - first
<1> DEFINE positions == first .. next - 1
           position == [a \in S |-> Position(q, a)]
<1>1. IsFiniteSet(S) /\ Cardinality(S) \in Nat
  BY ListedFinite, FS_Subset, FS_CardinalityType
<1>2. IsFiniteSet(positions) /\ Cardinality(positions) = next - first
  <2>1. next - 1 \in Int /\ (next - 1) - first + 1 = next - first
    OBVIOUS
  <2>2. /\ IsFiniteSet(positions)
        /\ Cardinality(positions) = IF first > next - 1 THEN 0 ELSE (next - 1) - first + 1
    BY <2>1, FS_Interval
  <2> QED
    BY <2>1, <2>2
<1>3. position \in [S -> positions]
  BY PositionBelow
<1>4. \A a, b \in S : a # b => position[a] # position[b]
  <2> SUFFICES ASSUME NEW a \in S, NEW b \in S, a # b PROVE Position(q, a) # Position(q, b)
    OBVIOUS
  <2>1. Position(q, a) \in Nat /\ Position(q, b) \in Nat
    BY PositionBelow
  <2>2. Before(q, a, b) \/ Before(q, b, a)
    BY Ordered
  <2> QED
    BY <2>1, <2>2, PositionsOrdered
<1> HIDE DEF positions, position
<1>5. ~(Cardinality(positions) < Cardinality(S))
  BY <1>1, <1>2, <1>3, <1>4, FS_PigeonHole
<1> QED
  BY <1>1, <1>2, <1>5

-----------------------------------------------------------------------------
(* Answers follow their messages, and no more is shown twice than came in.     *)

\* A reply is sorted behind the message it answers, in the same conversation.
LEMMA ReplyFollows ==
    ASSUME NEW m \in Messages, Row[m].replyTo \in Messages
    PROVE  /\ MessageBefore(Row[m].replyTo, m)
           /\ Row[m].replyTo # Null
<1> DEFINE p == Row[m].replyTo
<1>1. p # Null /\ Row[m].receivedAt = Null /\ Row[m].createdAt > Row[p].createdAt
  BY RestAssumption DEF RestAssumption
<1>2. /\ Row[p].receivedAt \in Int \cup {Null}
      /\ Row[p].createdAt \in Int /\ Row[m].createdAt \in Int
  BY ColumnsTyped
<1> QED
  BY <1>1, <1>2 DEF MessageBefore, Sooner

\* The rows in front of the client's first offset.
Passed == before \ ahead

\* Nothing is shown before the client sets out, nor from an offset below 0.
BeginsEmpty == step = "idle" \/ ~(offset >= 0) => pages = <<>>

\* What the client passed over and what it has been shown lie before the edge, and
\* within the list.
ShownBelow ==
    step # "idle" /\ offset >= 0 =>
        /\ IsFiniteSet(Showings)
        /\ Cardinality(Showings) \in Nat /\ Cardinality(Passed) \in Nat
        /\ Cardinality(Passed) + Cardinality(Showings) <= Edge
        /\ Cardinality(Passed) + Cardinality(Showings) <= Cardinality(Listed(query))

Counted == BeginsEmpty /\ ShownBelow /\ AnswersFollow

\* A step of the client's that shows nothing and leaves the edge where it is.
LEMMA CountKept ==
    ASSUME Counted, UNCHANGED <<rows, query, pages, before, ahead>>, Edge' = Edge,
           step # "idle", step' # "idle", offset' >= 0 <=> offset >= 0
    PROVE  Counted'
<1>1. Showings' = Showings /\ Passed' = Passed
  BY DEF Showings, Passed
<1>2. ShownBelow'
  BY <1>1, ListKept DEF Counted, ShownBelow
<1>3. AnswersFollow'
  BY DEF Counted, AnswersFollow, MessageBefore, Sooner
<1>4. BeginsEmpty'
  BY DEF Counted, BeginsEmpty
<1> QED
  BY <1>2, <1>3, <1>4 DEF Counted

\* A page is a run of positions: it adds no more than its limit, and no more than
\* the list has left.
LEMMA PageCounted ==
    ASSUME Typed, Counted, List
    PROVE  ShownBelow'
<1> DEFINE n == Len(pages) + 1
           page == Page(query)
           size == Cardinality(Listed(query))
           taken == Cardinality(Passed) + Cardinality(Showings)
<1>1. /\ pages \in Seq(SUBSET (Conversations \cup Messages))
      /\ LimitOf(query) \in Nat /\ offset \in Nat /\ code # 200
  BY ConstantsTyped DEF List, Typed, TypeOK, Granted, Asked
<1>2. /\ UNCHANGED <<rows, query, offset, before, ahead>>
      /\ code' = 200 /\ pages' = Append(pages, page)
  BY DEF List, Answer
<1>3. page \subseteq Listed(query) /\ page \in SUBSET (Conversations \cup Messages)
  BY ListedFinite DEF Typed, Page, AllRows
<1>4. /\ DOMAIN pages' = DOMAIN pages \cup {n} /\ n \notin DOMAIN pages
      /\ \A i \in DOMAIN pages : pages'[i] = pages[i]
      /\ pages'[n] = page
  BY <1>1, <1>2, <1>3
<1>5. Showings' = Showings \cup ({n} \X page) /\ Showings \cap ({n} \X page) = {}
  BY <1>4 DEF Showings
<1>6. size \in Nat
  BY ListedFinite, FS_CardinalityType DEF Typed
<1>7. /\ IsFiniteSet(Showings) /\ Cardinality(Showings) \in Nat /\ Cardinality(Passed) \in Nat
      /\ taken \in Nat /\ taken <= offset /\ taken <= size
  <2>1. step # "idle" /\ offset >= 0 /\ Edge = offset
    BY <1>1 DEF List, Edge
  <2> QED
    BY <2>1 DEF Counted, ShownBelow
<1>8. \A a \in page : /\ Position(query, a) >= offset
                      /\ Position(query, a) < offset + LimitOf(query)
                      /\ Position(query, a) < size
  BY <1>1, <1>3, PositionBelow DEF Page, Typed
<1>9. IsFiniteSet(page) /\ Cardinality(page) \in Nat /\ Cardinality(page) <= LimitOf(query)
  <2>1. offset \in Int /\ offset + LimitOf(query) \in Int /\ offset <= offset + LimitOf(query)
    BY <1>1
  <2>2. /\ IsFiniteSet(page) /\ Cardinality(page) \in Nat
        /\ Cardinality(page) <= (offset + LimitOf(query)) - offset
    BY <1>3, <1>8, <2>1, RowsBetween DEF Typed
  <2> QED
    BY <1>1, <2>2
<1>10. taken + Cardinality(page) <= size
  <2>1. CASE offset <= size
    <3>1. Cardinality(page) <= size - offset
      BY <1>1, <1>3, <1>6, <1>8, <2>1, RowsBetween DEF Typed
    <3> QED
      BY <1>1, <1>6, <1>7, <1>9, <3>1
  <2>2. CASE ~(offset <= size)
    <3>1. page = {}
      <4> SUFFICES ASSUME NEW a \in page PROVE FALSE
        OBVIOUS
      <4>1. Position(query, a) \in Nat
        BY <1>3, PositionBelow DEF Typed
      <4> QED
        BY <1>1, <1>6, <1>8, <2>2, <4>1
    <3> QED
      BY <1>6, <1>7, <3>1, FS_EmptySet
  <2> QED
    BY <2>1, <2>2
<1>11. IsFiniteSet({n} \X page) /\ Cardinality({n} \X page) = Cardinality(page)
  <2>1. IsFiniteSet({n}) /\ Cardinality({n}) = 1
    BY FS_Singleton
  <2>2. IsFiniteSet({n} \X page) /\ Cardinality({n} \X page) = 1 * Cardinality(page)
    BY <1>9, <2>1, FS_Product
  <2> QED
    BY <1>9, <2>2
<1>12. IsFiniteSet(Showings') /\ Cardinality(Showings') = Cardinality(Showings) + Cardinality(page)
  <2>1. /\ IsFiniteSet(Showings \cup ({n} \X page))
        /\ Cardinality(Showings \cup ({n} \X page)) =
             Cardinality(Showings) + Cardinality({n} \X page) - Cardinality({})
    BY <1>5, <1>7, <1>11, FS_Union
  <2> QED
    BY <1>5, <1>7, <1>9, <1>11, <2>1, FS_EmptySet
<1>13. Edge' = offset + LimitOf(query) /\ Listed(query)' = Listed(query)
  BY <1>2, ListKept DEF Edge, LimitOf
<1>14. Cardinality(Listed(query)') = size /\ Passed' = Passed
  BY <1>2, <1>13 DEF Passed
<1>15. taken' = taken + Cardinality(page)
  BY <1>7, <1>9, <1>12, <1>14
<1> HIDE DEF page, size, n
<1> QED
  BY <1>1, <1>6, <1>7, <1>9, <1>10, <1>12, <1>13, <1>14, <1>15 DEF ShownBelow, size

\* A reply on the page has its message before it there, if that was not seen yet.
LEMMA PageFollows ==
    ASSUME Typed, Progressing, Counted, List
    PROVE  AnswersFollow'
<1> DEFINE n == Len(pages) + 1
<1>1. /\ pages \in Seq(SUBSET (Conversations \cup Messages))
      /\ LimitOf(query) \in Nat /\ offset \in Nat /\ code # 200
  BY ConstantsTyped DEF List, Typed, TypeOK, Granted, Asked
<1>2. UNCHANGED <<query, ahead>> /\ pages' = Append(pages, Page(query))
  BY DEF List
<1>3. Page(query) \subseteq Listed(query) /\ Page(query) \in SUBSET (Conversations \cup Messages)
  BY ListedFinite DEF Typed, Page, AllRows
<1>4. /\ DOMAIN pages = 1 .. Len(pages) /\ DOMAIN pages' = 1 .. n /\ n \in Nat
      /\ \A i \in DOMAIN pages : pages'[i] = pages[i]
      /\ pages'[n] = Page(query)
  BY <1>1, <1>2, <1>3
<1> SUFFICES ASSUME query.resource = "messages", NEW i \in DOMAIN pages', NEW m \in pages'[i],
                    Row[m].replyTo \in ahead
             PROVE  \E j \in 1 .. i : /\ Row[m].replyTo \in pages'[j]
                                      /\ j = i => MessageBefore(Row[m].replyTo, m)
  BY <1>2 DEF AnswersFollow, MessageBefore, Sooner
<1>5. CASE i \in DOMAIN pages
  <2>1. \E j \in 1 .. i : /\ Row[m].replyTo \in pages[j]
                          /\ j = i => MessageBefore(Row[m].replyTo, m)
    BY <1>4, <1>5 DEF Counted, AnswersFollow
  <2> QED
    BY <1>4, <1>5, <2>1
<1>6. CASE i = n
  <2> DEFINE p == Row[m].replyTo
  <2>1. m \in Listed(query) /\ p \in Listed(query) /\ m \in Messages /\ p \in Messages
    <3>1. m \in Listed(query) /\ p \in Listed(query)
      BY <1>3, <1>4, <1>6 DEF Progressing, StillListed, Typed, TypeOK
    <3> QED
      BY <3>1 DEF Listed, ListedMessages, Typed, TypeOK
  <2>2. MessageBefore(p, m)
    BY <2>1, ReplyFollows
  <2>3. CASE p \in Seen
    <3>1. PICK j \in DOMAIN pages : p \in pages[j]
      BY <2>3 DEF Seen
    <3> QED
      BY <1>4, <1>6, <3>1
  <2>4. CASE p \notin Seen
    <3>1. Position(query, p) >= offset
      BY <1>1, <2>4 DEF Progressing, UnseenAhead, Edge
    <3>2. Position(query, p) < Position(query, m)
      <4>1. Before(query, p, m)
        BY <2>2 DEF Before
      <4> QED
        BY <2>1, <4>1, PositionsOrdered DEF Typed
    <3>3. Position(query, m) \in offset .. offset + LimitOf(query) - 1
      BY <1>4, <1>6 DEF Page
    <3>4. Position(query, p) \in Nat /\ Position(query, m) \in Nat
      BY <2>1, PositionBelow DEF Typed
    <3>5. p \in Page(query)
      BY <1>1, <2>1, <3>1, <3>2, <3>3, <3>4 DEF Page
    <3> QED
      BY <1>4, <1>6, <2>2, <3>5
  <2> QED
    BY <2>3, <2>4
<1> QED
  BY <1>4, <1>5, <1>6

\* Every step keeps the count and the order.
LEMMA CountedStep ==
    ASSUME Typed, Progressing, Counted, [Next]_vars
    PROVE  Counted'
<1>1. CASE FirstPage
  <2>1. pages' = <<>> /\ step' # "idle" /\ code' # 200 /\ offset' \in Int
    BY <1>1, ConstantsTyped
       DEF FirstPage, Request, Answer, Goto, Counted, BeginsEmpty, Typed, TypeOK
  <2>2. BeginsEmpty' /\ AnswersFollow'
    BY <2>1 DEF BeginsEmpty, AnswersFollow
  <2>3. ASSUME offset' >= 0
        PROVE  /\ IsFiniteSet(Showings') /\ Cardinality(Showings') = 0
               /\ Cardinality(Passed') \in Nat /\ Cardinality(Passed') <= offset'
               /\ Cardinality(Passed') <= Cardinality(Listed(query)')
    <3>1. Showings' = {}
      BY <2>1 DEF Showings
    <3>2. /\ Passed' \in SUBSET Listed(query)
          /\ \A a \in Passed' : Position(query, a) >= 0 /\ Position(query, a) < offset'
      <4>1. Passed' = {a \in Listed(query) : ~(Position(query, a) >= offset')}
        BY <1>1 DEF FirstPage, Passed
      <4>2. \A a \in Listed(query) : Position(query, a) \in Nat
        BY PositionBelow DEF Typed
      <4> QED
        BY <2>1, <4>1, <4>2
    <3>3. Cardinality(Passed') \in Nat /\ Cardinality(Passed') <= offset' - 0
      BY <2>1, <2>3, <3>2, RowsBetween DEF Typed
    <3>4. Listed(query)' = Listed(query)
      BY <1>1, ListKept DEF FirstPage
    <3>5. Cardinality(Passed') <= Cardinality(Listed(query))
      BY <3>2, ListedFinite, FS_Subset DEF Typed
    <3> QED
      BY <2>1, <3>1, <3>3, <3>4, <3>5, FS_EmptySet
  <2>4. offset' >= 0 => Edge' = offset'
    BY <2>1 DEF Edge
  <2>5. Cardinality(Listed(query)') \in Nat
    BY TypedStep, ListedFiniteNext, FS_CardinalityType DEF Typed
  <2>6. ShownBelow'
    BY <2>1, <2>3, <2>4, <2>5 DEF ShownBelow
  <2> QED
    BY <2>2, <2>6 DEF Counted
<1>2. CASE NextPage
  <2>1. Edge' = Edge
    BY <1>2 DEF NextPage, Request, Answer, Goto, Edge
  <2>2. offset >= 0 /\ offset' >= 0
    BY <1>2, ConstantsTyped DEF NextPage, Typed, TypeOK, Granted
  <2> QED
    BY <1>2, <2>1, <2>2, CountKept DEF NextPage, Request, Answer, Goto
<1>3. CASE Refuse \/ Fail
  <2>1. Edge' = Edge
    BY <1>3 DEF Refuse, Fail, Answer, Edge, Typed, Asked
  <2> QED
    BY <1>3, <2>1, CountKept DEF Refuse, Fail, Answer
<1>4. CASE Accept
  <2>1. Edge' = Edge
    BY <1>4 DEF Accept, Goto, Edge, Typed, Asked
  <2> QED
    BY <1>4, <2>1, CountKept DEF Accept, Goto
<1>5. CASE ExistsForTenant
  <2>1. Edge' = Edge
    BY <1>5 DEF ExistsForTenant, Goto, Answer, Edge, Typed, Asked
  <2> QED
    BY <1>5, <2>1, CountKept DEF ExistsForTenant, Goto, Answer
<1>6. CASE List
  <2>1. offset \in Nat
    BY <1>6 DEF List, Typed, TypeOK, Granted
  <2> QED
    BY <1>6, <2>1, PageCounted, PageFollows DEF List, Answer, Counted, BeginsEmpty
<1>7. ASSUME NEW m \in Messages \ messages, Open(m) \/ Arrive(m) \/ Reply(m)
      PROVE  Counted'
  <2>1. UNCHANGED client
    BY <1>7 DEF Open, Arrive, Reply
  <2>2. TypeOK' /\ Grows
    BY TypedStep, RowsGrow DEF Typed
  <2>3. Listed(query) \subseteq Listed(query)'
    BY <2>1, <2>2, ListGrows DEF client, Typed
  <2>4. /\ Cardinality(Listed(query)) <= Cardinality(Listed(query)')
        /\ Cardinality(Listed(query)) \in Nat /\ Cardinality(Listed(query)') \in Nat
    BY <2>2, <2>3, ListedFinite, ListedFiniteNext, FS_Subset, FS_CardinalityType DEF Typed
  <2>5. Showings' = Showings /\ Passed' = Passed /\ Edge' = Edge
    BY <2>1 DEF client, Showings, Passed, Edge, LimitOf
  <2>6. ShownBelow'
    BY <2>1, <2>4, <2>5 DEF client, Counted, ShownBelow
  <2> QED
    BY <2>1, <2>6 DEF client, Counted, BeginsEmpty, AnswersFollow, MessageBefore, Sooner
<1>8. CASE UNCHANGED vars
  <2>1. UNCHANGED <<rows, query, pages, before, ahead, code, step, offset>>
    BY <1>8 DEF vars, rows
  <2>2. Showings' = Showings /\ Passed' = Passed /\ Edge' = Edge
    BY <2>1 DEF Showings, Passed, Edge, LimitOf
  <2> QED
    BY <2>1, <2>2, ListKept DEF Counted, BeginsEmpty, ShownBelow, AnswersFollow,
                                MessageBefore, Sooner
<1> QED
  BY <1>1, <1>2, <1>3, <1>4, <1>5, <1>6, <1>7, <1>8 DEF Next, Traffic

\* A list's progress, its count and its order together.
THEOREM Reading == Spec => [](Typed /\ Progressing /\ Counted)
<1>1. Init => Typed /\ Progressing /\ Counted
  <2>1. Init => Progressing
    BY DEF Init, Progressing, StillListed, UnseenAhead, NothingSkipped
  <2>2. Init => Counted
    BY DEF Init, Counted, BeginsEmpty, ShownBelow, AnswersFollow
  <2> QED
    BY <2>1, <2>2, InitTyped
<1>2. Typed /\ Progressing /\ Counted /\ [Next]_vars => Typed' /\ Progressing' /\ Counted'
  BY TypedStep, ProgressStep, CountedStep
<1> QED
  BY <1>1, <1>2, PTL DEF Spec

\* Whatever commits between two pages: a reply is not shown before the message it
\* answers, if that was there when the client set out
\* (conversation-repository.ts:130-132).
THEOREM AnswersAreBehind == Spec => []AnswersFollow
BY Reading, PTL DEF Counted

\* Two finite sets together have no more elements than the one and the other.
LEMMA UnionBounded ==
    ASSUME NEW S, NEW T, IsFiniteSet(S), IsFiniteSet(T)
    PROVE  /\ IsFiniteSet(S \cup T) /\ Cardinality(S \cup T) \in Nat
           /\ Cardinality(S \cup T) <= Cardinality(S) + Cardinality(T)
<1>1. /\ IsFiniteSet(S \cup T)
      /\ Cardinality(S \cup T) = Cardinality(S) + Cardinality(T) - Cardinality(S \cap T)
  BY FS_Union
<1>2. Cardinality(S \cap T) \in Nat /\ Cardinality(S) \in Nat /\ Cardinality(T) \in Nat
  BY FS_Intersection, FS_CardinalityType
<1>3. Cardinality(S \cup T) \in Nat
  BY <1>1, FS_CardinalityType
<1> QED
  BY <1>1, <1>2, <1>3

\* As many rows as the client passed over and was shown lie before the edge, and each
\* of them was passed over, has been seen or came in later.
LEMMA RepeatsBounded ==
    ASSUME Typed, Progressing, Counted
    PROVE  RepeatsAreArrivals
<1> DEFINE list == Listed(query)
           unseen == ahead \ Seen
           shown == Cardinality(Showings)
           taken == Cardinality(Passed) + shown
           arrived == list \ before
           known == Passed \cup Seen
<1>1. /\ IsFiniteSet(list) /\ Cardinality(list) \in Nat
      /\ before \subseteq list /\ ahead \subseteq before
  BY ListedFinite, FS_CardinalityType DEF Typed, TypeOK, Progressing, StillListed
<1>2. /\ IsFiniteSet(Seen) /\ Cardinality(Seen) \in Nat
      /\ IsFiniteSet(Passed) /\ Cardinality(Passed) \in Nat
  <2>1. Seen \subseteq Conversations \cup Messages
    BY DEF Seen, Typed, TypeOK
  <2>2. Passed \subseteq list
    BY <1>1 DEF Passed
  <2> QED
    BY <1>1, <2>1, <2>2, ColumnsTyped, FS_Union, FS_Subset, FS_CardinalityType
<1>3. IsFiniteSet(arrived) /\ Cardinality(arrived) \in Nat
  BY <1>1, FS_Difference, FS_CardinalityType
<1>4. CASE pages = <<>>
  <2>1. Showings = {}
    BY <1>4 DEF Showings
  <2> QED
    BY <1>2, <1>3, <2>1, FS_EmptySet DEF RepeatsAreArrivals
<1>5. CASE pages # <<>>
  <2>1. /\ shown \in Nat /\ taken \in Nat /\ taken <= Edge /\ taken <= Cardinality(list)
        /\ Edge \in Int
    BY <1>2, <1>5, ConstantsTyped
       DEF Counted, BeginsEmpty, ShownBelow, Typed, TypeOK, Granted, Edge
  <2>2. unseen \in SUBSET list /\ \A a \in unseen : Position(query, a) >= Edge
    BY <1>1 DEF Progressing, UnseenAhead
  <2>3. \A a \in unseen : Position(query, a) >= taken /\ Position(query, a) < Cardinality(list)
    <3> SUFFICES ASSUME NEW a \in unseen
                 PROVE  Position(query, a) >= taken /\ Position(query, a) < Cardinality(list)
      OBVIOUS
    <3>1. Position(query, a) \in Nat /\ Position(query, a) < Cardinality(list)
      BY <2>2, PositionBelow DEF Typed
    <3> QED
      BY <2>1, <2>2, <3>1
  <2>4. Cardinality(unseen) \in Nat /\ Cardinality(unseen) <= Cardinality(list) - taken
    BY <1>1, <2>1, <2>2, <2>3, RowsBetween DEF Typed
  <2>5. /\ IsFiniteSet(list \ unseen) /\ Cardinality(list \ unseen) \in Nat
        /\ Cardinality(list \ unseen) = Cardinality(list) - Cardinality(unseen)
    <3>1. list \cap unseen = unseen
      BY <2>2
    <3> QED
      BY <1>1, <3>1, FS_Difference, FS_CardinalityType
  <2>6. list \ unseen \in SUBSET (arrived \cup known)
    BY DEF Passed
  <2>7. /\ IsFiniteSet(known) /\ Cardinality(known) \in Nat
        /\ Cardinality(known) <= Cardinality(Passed) + Cardinality(Seen)
    BY <1>2, UnionBounded
  <2>8. /\ IsFiniteSet(arrived \cup known) /\ Cardinality(arrived \cup known) \in Nat
        /\ Cardinality(arrived \cup known) <= Cardinality(arrived) + Cardinality(known)
    BY <1>3, <2>7, UnionBounded
  <2>9. Cardinality(list \ unseen) <= Cardinality(arrived \cup known)
    BY <2>6, <2>8, FS_Subset
  <2> HIDE DEF unseen, list, known
  <2> QED
    BY <1>1, <1>2, <1>3, <2>1, <2>4, <2>5, <2>7, <2>8, <2>9 DEF RepeatsAreArrivals, list
<1> QED
  BY <1>4, <1>5

\* Whatever commits between two pages, and whatever offset the client begins at: no
\* more showings repeat a row than rows came in since it set out
\* (conversation-repository.ts:72-73,131-132).
THEOREM RepeatsComeFromArrivals == Spec => []RepeatsAreArrivals
BY Reading, RepeatsBounded, PTL
====
