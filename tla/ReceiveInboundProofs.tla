---- MODULE ReceiveInboundProofs ----
(* For any calls, messages and customers: concurrent calls of execute()        *)
(* implement Inbox, because the lock on the contact row serializes what each   *)
(* customer's calls read and write.                                            *)
EXTENDS ReceiveInbound, TLAPS

USE ReceiveAssumption DEF At, From, Ids

-----------------------------------------------------------------------------
(* The record of the call that takes a step.                                  *)

AnswerRecord == [kind : Kinds, row : Row]

Becomes(r, step, conv, answer) ==
    /\ call' \in [Requests -> CallRecord]
    /\ call'[r].step = step /\ call'[r].conversation = conv /\ call'[r].answer = answer
    /\ \A q \in Requests : q # r => call'[q] = call[q]

\* A call that goes on keeps what it knows.
LEMMA GotoBecomes ==
    ASSUME TypeOK, NEW r \in Requests, NEW step \in Steps, Goto(r, step)
    PROVE  Becomes(r, step, call[r].conversation, call[r].answer)
  BY DEF TypeOK, Goto, Becomes, CallRecord

\* A call that has its answer keeps its conversation.
LEMMA ConcludeBecomes ==
    ASSUME TypeOK, NEW r \in Requests, NEW answer \in AnswerRecord, Conclude(r, answer)
    PROVE  Becomes(r, "commit", call[r].conversation, answer)
  BY DEF TypeOK, Conclude, Becomes, CallRecord, Steps, AnswerRecord

\* So does a call that returns.
LEMMA FinishBecomes ==
    ASSUME TypeOK, NEW r \in Requests, NEW answer \in AnswerRecord, Finish(r, answer)
    PROVE  Becomes(r, "done", call[r].conversation, answer)
  BY DEF TypeOK, Finish, Becomes, CallRecord, Steps, AnswerRecord

\* A call that has its conversation goes on to insert its message.
LEMMA HousedBecomes ==
    ASSUME TypeOK, NEW r \in Requests, NEW conv \in Ids,
           call' = [call EXCEPT ![r].step = "insert_message", ![r].conversation = conv]
    PROVE  Becomes(r, "insert_message", conv, call[r].answer)
  BY DEF TypeOK, Becomes, CallRecord, Steps

\* The answers that are given.
LEMMA AnswersTyped ==
    /\ Failure \in AnswerRecord /\ Failure.kind = "error"
    /\ NoAnswer \in AnswerRecord /\ NoAnswer.kind = "none"
    /\ Answer("unknown_tenant", NoRow) \in AnswerRecord
    /\ \A w \in Row : /\ Answer("created", w) \in AnswerRecord
                      /\ Answer("duplicated", w) \in AnswerRecord
  BY DEF Failure, NoAnswer, Answer, AnswerRecord, Kinds, Row, NoRow

\* The fields of an answer.
LEMMA AnswerFields ==
    ASSUME NEW kind, NEW w
    PROVE  Answer(kind, w).kind = kind /\ Answer(kind, w).row = w
  BY DEF Answer

-----------------------------------------------------------------------------
(* The invariant.                                                             *)

Rest == <<input, contactLock, conversation, row>>

Facts == CallShape /\ Serialized /\ ReadsStillTrue /\ RowsAtHome

\* A step of a call on its own record, before it is in the critical section.
LEMMA OutsideKeeps ==
    ASSUME IInv, NEW r \in Requests, NEW step \in {"find_message", "upsert_contact", "done"},
           NEW answer \in AnswerRecord,
           call[r].step \in {"tenant", "find_message"},
           Becomes(r, step, call[r].conversation, answer), UNCHANGED Rest,
           step = "done" <=> answer # NoAnswer
    PROVE  IInv'
  <1> USE DEF IInv, Becomes, Rest
  <1>1. TypeOK'
    BY DEF TypeOK
  <1>2. Facts'
    BY DEF Facts, CallShape, Serialized, ReadsStillTrue, RowsAtHome, Inside, HasNewMessage,
           HasNewConversation, NewRow
  <1> QED BY <1>1, <1>2 DEF Facts

\* The SELECT of the tenant.
LEMMA FindTenantKeeps ==
    ASSUME IInv, NEW r \in Requests, FindTenant(r)
    PROVE  IInv'
  <1> USE DEF FindTenant
  <1>1. TypeOK /\ call[r].answer = NoAnswer /\ UNCHANGED Rest
    BY DEF IInv, CallShape, Rest
  <1>2. CASE Goto(r, "find_message")
    BY <1>1, <1>2, GotoBecomes, OutsideKeeps, AnswersTyped DEF Steps
  <1>3. CASE Finish(r, Answer("unknown_tenant", NoRow))
    <2>1. Answer("unknown_tenant", NoRow) # NoAnswer
      BY DEF Answer, NoAnswer
    <2> QED BY <1>1, <1>3, <2>1, FinishBecomes, OutsideKeeps, AnswersTyped
  <1> QED BY <1>2, <1>3

\* The first SELECT of the transaction: a row it finds stays there.
LEMMA FindMessageKeeps ==
    ASSUME IInv, NEW r \in Requests, FindMessage(r)
    PROVE  IInv'
  <1> DEFINE found == row[input[r]]
  <1>1. /\ TypeOK /\ UNCHANGED Rest /\ found \in Row
        /\ call[r].answer = NoAnswer /\ call[r].conversation = NoRequest
    BY DEF FindMessage, IInv, CallShape, Rest, TypeOK
  <1>2. CASE Goto(r, "upsert_contact")
    BY <1>1, <1>2, GotoBecomes, OutsideKeeps, AnswersTyped DEF Steps, FindMessage
  <1>3. CASE found # NoRow /\ Conclude(r, Answer("duplicated", found))
    <2>1. Becomes(r, "commit", NoRequest, Answer("duplicated", found))
      BY <1>1, <1>3, ConcludeBecomes, AnswersTyped
    <2>2. Answer("duplicated", found).kind = "duplicated"
      BY AnswerFields
    <2> HIDE DEF found
    <2>3. TypeOK'
      BY <1>1, <2>1 DEF TypeOK, Becomes, Rest
    <2>4. CallShape' /\ Serialized' /\ RowsAtHome'
      BY <1>1, <2>1, <2>2 DEF IInv, Becomes, Rest, CallShape, Serialized, RowsAtHome, Inside,
         HasNewMessage, HasNewConversation
    <2>5. ReadsStillTrue'
      BY <1>1, <1>3, <2>1, <2>2 DEF IInv, Becomes, Rest, ReadsStillTrue, HasNewMessage,
         HasNewConversation, NewRow, found
    <2> QED BY <2>3, <2>4, <2>5 DEF IInv
  <1> QED BY <1>2, <1>3 DEF FindMessage

\* The upsert enters the critical section of the customer.
LEMMA UpsertContactKeeps ==
    ASSUME IInv, NEW r \in Requests, UpsertContact(r)
    PROVE  IInv'
  <1>1. Becomes(r, "find_conversation", call[r].conversation, call[r].answer)
    BY GotoBecomes DEF IInv, UpsertContact, Steps
  <1> USE <1>1 DEF IInv, Becomes, UpsertContact
  <1>2. TypeOK'
    BY DEF TypeOK
  <1>3. CallShape' /\ RowsAtHome' /\ ReadsStillTrue'
    BY DEF CallShape, RowsAtHome, ReadsStillTrue, HasNewMessage, HasNewConversation, NewRow
  <1>4. Serialized'
    BY DEF TypeOK, CallShape, Serialized, Inside, HasNewMessage, HasNewConversation
  <1> QED BY <1>2, <1>3, <1>4

\* Inside it, the conversation that was read is the conversation.
LEMMA FindConversationKeeps ==
    ASSUME IInv, NEW r \in Requests, FindConversation(r)
    PROVE  IInv'
  <1> DEFINE home == conversation[From(r)]
  <1>1. TypeOK /\ UNCHANGED Rest /\ home \in Ids
    BY DEF FindConversation, IInv, Rest, TypeOK
  <1>2. \/ home # NoRequest /\ Becomes(r, "insert_message", home, call[r].answer)
        \/ home = NoRequest /\ Becomes(r, "insert_conversation", call[r].conversation, call[r].answer)
    BY <1>1, GotoBecomes, HousedBecomes DEF FindConversation, Steps
  <1>3. TypeOK'
    BY <1>1, <1>2 DEF TypeOK, Becomes, Rest
  <1>4. CallShape' /\ RowsAtHome'
    BY <1>1, <1>2 DEF IInv, Becomes, Rest, CallShape, RowsAtHome, FindConversation
  <1>5. Serialized'
    BY <1>1, <1>2 DEF IInv, Becomes, Rest, Serialized, Inside, HasNewMessage, HasNewConversation,
       FindConversation
  <1>6. home # r
    BY DEF FindConversation, IInv, RowsAtHome, TypeOK
  <1>7. ReadsStillTrue'
    BY <1>1, <1>2, <1>6 DEF IInv, Becomes, Rest, ReadsStillTrue, HasNewMessage,
       HasNewConversation, NewRow, FindConversation
  <1> QED BY <1>3, <1>4, <1>5, <1>7 DEF IInv

\* Nobody else can have created the conversation meanwhile.
LEMMA InsertConversationKeeps ==
    ASSUME IInv, NEW r \in Requests, InsertConversation(r)
    PROVE  IInv'
  <1>1. TypeOK /\ UNCHANGED Rest /\ conversation[From(r)] = NoRequest
    BY DEF InsertConversation, IInv, ReadsStillTrue, Rest
  <1>2. Becomes(r, "insert_message", r, call[r].answer)
    BY <1>1, HousedBecomes DEF InsertConversation
  <1>3. TypeOK'
    BY <1>1, <1>2 DEF TypeOK, Becomes, Rest
  <1>4. CallShape' /\ RowsAtHome'
    BY <1>1, <1>2 DEF IInv, Becomes, Rest, CallShape, RowsAtHome, InsertConversation
  <1>5. Serialized'
    BY <1>1, <1>2 DEF IInv, Becomes, Rest, Serialized, Inside, HasNewMessage, HasNewConversation,
       InsertConversation
  <1>6. ReadsStillTrue'
    BY <1>1, <1>2 DEF IInv, Becomes, Rest, ReadsStillTrue, HasNewMessage, HasNewConversation,
       NewRow, InsertConversation
  <1> QED BY <1>3, <1>4, <1>5, <1>6 DEF IInv

\* Nor the message: only holders of the customer's lock write it.
LEMMA InsertMessageKeeps ==
    ASSUME IInv, NEW r \in Requests, InsertMessage(r)
    PROVE  IInv'
  <1> DEFINE found == row[input[r]]
             answer == IF found = NoRow THEN Answer("created", NewRow(r))
                       ELSE Answer("duplicated", found)
  <1>1. /\ TypeOK /\ UNCHANGED Rest /\ found \in Row /\ NewRow(r) \in Row
        /\ call[r].answer = NoAnswer
    BY DEF InsertMessage, IInv, CallShape, Rest, TypeOK, NewRow, CallRecord, Row
  <1>2. answer \in AnswerRecord
    BY <1>1, AnswersTyped
  <1>3. Becomes(r, "commit", call[r].conversation, answer)
    BY <1>1, <1>2, ConcludeBecomes DEF InsertMessage
  <1>4. NewRow(r)' = NewRow(r)
    BY <1>3 DEF NewRow, Becomes
  <1>5. answer.kind = "created" <=> found = NoRow
    BY AnswerFields
  <1>6. found = NoRow => answer.row = NewRow(r)
    BY AnswerFields
  <1>7. found # NoRow => answer = Answer("duplicated", found)
    OBVIOUS
  <1>8. found # NoRow => ~HasNewConversation(r)
    BY DEF InsertMessage, IInv, ReadsStillTrue, RowsAtHome, TypeOK, HasNewConversation
  <1> HIDE DEF answer
  <1>9. TypeOK'
    BY <1>1, <1>3 DEF TypeOK, Becomes, Rest
  <1>10. CallShape' /\ RowsAtHome'
    BY <1>1, <1>3 DEF IInv, Becomes, Rest, CallShape, RowsAtHome, InsertMessage
  <1>11. Serialized'
    BY <1>1, <1>3 DEF IInv, Becomes, Rest, Serialized, Inside, HasNewMessage, HasNewConversation,
       InsertMessage
  <1>12. ReadsStillTrue'
    <2> SUFFICES ASSUME NEW q \in Requests
                 PROVE  ReadsStillTrue!(q)'
      BY DEF ReadsStillTrue
    <2>1. CASE q = r
      BY <1>1, <1>3, <1>4, <1>5, <1>6, <1>7, <1>8, <2>1
         DEF IInv, Becomes, Rest, ReadsStillTrue, HasNewMessage, HasNewConversation, InsertMessage
    <2>2. CASE q # r
      BY <1>1, <1>3, <2>2
         DEF IInv, Becomes, Rest, ReadsStillTrue, HasNewMessage, HasNewConversation, NewRow
    <2> QED BY <2>1, <2>2
  <1> QED BY <1>9, <1>10, <1>11, <1>12 DEF IInv

\* The lock is its holder's to give back.
LEMMA ReleaseLockFrees ==
    ASSUME TypeOK, NEW r \in Requests, ReleaseLock(r)
    PROVE  /\ contactLock' \in [Customers -> Ids]
           /\ \A c \in Customers : contactLock[c] # r => contactLock'[c] = contactLock[c]
  BY DEF TypeOK, ReleaseLock

\* An undone transaction leaves nothing behind.
LEMMA RollbackKeeps ==
    ASSUME IInv, NEW r \in Requests, Rollback(r)
    PROVE  IInv'
  <1>1. /\ TypeOK /\ UNCHANGED <<input, conversation, row>>
        /\ Becomes(r, "done", call[r].conversation, Failure) /\ Failure # NoAnswer
    BY FinishBecomes, AnswersTyped DEF Rollback, IInv
  <1>2. /\ contactLock' \in [Customers -> Ids]
        /\ \A c \in Customers : contactLock[c] # r => contactLock'[c] = contactLock[c]
    BY ReleaseLockFrees DEF Rollback, IInv
  <1>3. TypeOK'
    BY <1>1, <1>2 DEF TypeOK, Becomes
  <1>4. CallShape' /\ RowsAtHome' /\ ReadsStillTrue'
    BY <1>1 DEF IInv, Becomes, CallShape, RowsAtHome, ReadsStillTrue, HasNewMessage,
       HasNewConversation, NewRow
  <1>5. Serialized'
    BY <1>1, <1>2 DEF IInv, TypeOK, Becomes, Serialized, Inside, HasNewMessage, HasNewConversation
  <1> QED BY <1>3, <1>4, <1>5 DEF IInv

-----------------------------------------------------------------------------
(* COMMIT: of a row the call created, or of nothing.                          *)

\* A call that created its message was alone with its customer.
LEMMA CommitCreatedKeeps ==
    ASSUME IInv, NEW r \in Requests, Commit(r), HasNewMessage(r)
    PROVE  IInv'
  <1> DEFINE c == From(r)
             m == input[r]
             home == call[r].conversation
  <1>1. /\ TypeOK /\ UNCHANGED input /\ At(r, "commit")
        /\ home \in Requests /\ contactLock[c] = r /\ row[m] = NoRow
        /\ conversation[c] \in {NoRequest, home} /\ c \in Customers /\ m \in MetaMessages
    BY DEF IInv, Commit, ReadsStillTrue, Serialized, TypeOK, CallRecord, HasNewMessage
  <1>2. PICK answer \in AnswerRecord : Becomes(r, "done", home, answer) /\ answer # NoAnswer
    <2>1. call[r].answer \in AnswerRecord /\ call[r].answer # NoAnswer
      BY <1>1, AnswersTyped DEF TypeOK, CallRecord, AnswerRecord, HasNewMessage
    <2>2. Finish(r, call[r].answer) \/ Finish(r, Failure)
      BY DEF Commit
    <2> QED BY <1>1, <2>1, <2>2, FinishBecomes, AnswersTyped
  <1>3. /\ contactLock' \in [Customers -> Ids]
        /\ \A d \in Customers : contactLock[d] # r => contactLock'[d] = contactLock[d]
    BY <1>1, ReleaseLockFrees DEF Commit
  <1>4. conversation' = [conversation EXCEPT ![c] = home]
    BY <1>1 DEF Commit, TypeOK, IInv, ReadsStillTrue, HasNewConversation
  <1>5. NewRow(r) \in Row /\ NewRow(r).message = r /\ NewRow(r).conversation = home
        /\ row' = [row EXCEPT ![m] = NewRow(r)]
    BY <1>1 DEF Commit, NewRow, Row
  <1>6. TypeOK'
    BY <1>1, <1>2, <1>3, <1>4, <1>5 DEF TypeOK, Becomes
  <1>7. CallShape'
    BY <1>1, <1>2 DEF IInv, Becomes, CallShape
  <1>8. Serialized'
    BY <1>1, <1>2, <1>3 DEF IInv, TypeOK, Becomes, Serialized, Inside, HasNewMessage,
       HasNewConversation
  <1>9. RowsAtHome'
    <2>1. ASSUME NEW n \in MetaMessages, row'[n] # NoRow
          PROVE  /\ row'[n].message # NoRequest /\ row'[n].conversation # NoRequest
                 /\ row'[n].conversation = conversation'[Sender[n]]
      <3>1. CASE n = m
        BY <1>1, <1>4, <1>5, <3>1 DEF TypeOK
      <3>2. CASE n # m
        BY <1>1, <1>4, <1>5, <2>1, <3>2 DEF IInv, TypeOK, RowsAtHome
      <3> QED BY <3>1, <3>2
    <2>2. \A d \in Customers, q \in Requests : conversation'[d] = q => At(q, "done")'
      BY <1>1, <1>2, <1>4 DEF IInv, TypeOK, RowsAtHome, Becomes, ReadsStillTrue, HasNewConversation
    <2> QED BY <2>1, <2>2 DEF RowsAtHome
  <1>10. ASSUME NEW q \in Requests, q # r
         PROVE  ReadsStillTrue!(q)'
    <2>1. CASE contactLock[From(q)] = q
      <3>1. From(q) # c /\ input[q] # m
        BY <1>1, <1>10, <2>1
      <3>2. /\ conversation'[From(q)] = conversation[From(q)] /\ row'[input[q]] = row[input[q]]
            /\ call'[q] = call[q] /\ input' = input
        BY <1>1, <1>2, <1>4, <1>5, <1>10, <3>1 DEF TypeOK, Becomes
      <3> QED BY <3>2 DEF IInv, ReadsStillTrue, HasNewMessage, HasNewConversation, NewRow
    <2>2. CASE contactLock[From(q)] # q
      <3>1. ~Inside(q) /\ ~HasNewMessage(q) /\ call'[q] = call[q] /\ input' = input
        BY <1>1, <1>2, <1>10, <2>2 DEF IInv, Serialized, Becomes
      <3>2. At(q, "commit") => row'[input[q]] = row[input[q]]
        BY <1>1, <1>5, <3>1 DEF IInv, TypeOK, ReadsStillTrue
      <3> QED BY <3>1, <3>2 DEF IInv, ReadsStillTrue, Inside, HasNewMessage, HasNewConversation
    <2> QED BY <2>1, <2>2
  <1>11. ReadsStillTrue!(r)'
    BY <1>2 DEF Becomes, HasNewMessage
  <1>12. ReadsStillTrue'
    BY <1>10, <1>11 DEF ReadsStillTrue
  <1> QED BY <1>6, <1>7, <1>8, <1>9, <1>12 DEF IInv

\* A duplicate commits nothing that others see, except that it lets them in.
LEMMA CommitDuplicateKeeps ==
    ASSUME IInv, NEW r \in Requests, Commit(r), ~HasNewMessage(r)
    PROVE  IInv'
  <1>1. /\ TypeOK /\ UNCHANGED <<input, conversation, row>> /\ At(r, "commit")
        /\ call[r].answer \in AnswerRecord /\ call[r].answer.kind = "duplicated"
    BY AnswerFields DEF IInv, Commit, ReadsStillTrue, TypeOK, CallRecord, AnswerRecord
  <1>2. PICK answer \in AnswerRecord :
           Becomes(r, "done", call[r].conversation, answer) /\ answer # NoAnswer
    BY <1>1, FinishBecomes, AnswersTyped DEF Commit
  <1>3. /\ contactLock' \in [Customers -> Ids]
        /\ \A d \in Customers : contactLock[d] # r => contactLock'[d] = contactLock[d]
    BY <1>1, ReleaseLockFrees DEF Commit
  <1>4. TypeOK'
    BY <1>1, <1>2, <1>3 DEF TypeOK, Becomes
  <1>5. CallShape' /\ RowsAtHome' /\ ReadsStillTrue'
    BY <1>1, <1>2 DEF IInv, Becomes, CallShape, RowsAtHome, ReadsStillTrue, HasNewMessage,
       HasNewConversation, NewRow
  <1>6. Serialized'
    BY <1>1, <1>2, <1>3 DEF IInv, TypeOK, Becomes, Serialized, Inside, HasNewMessage,
       HasNewConversation
  <1> QED BY <1>4, <1>5, <1>6 DEF IInv

\* The invariant holds at first.
LEMMA InitKeeps == Init => IInv
  BY DEF Init, IInv, TypeOK, CallShape, Serialized, ReadsStillTrue, RowsAtHome, Inside,
     HasNewMessage, HasNewConversation, CallRecord, Row, NoRow, Steps, Kinds, Answer, NoAnswer

\* The critical section per customer, what calls know inside it, and the shape
\* of the rows, for every number of calls.
THEOREM ReceiveInvariance == Spec => []IInv
  <1>1. Init => IInv
    BY InitKeeps
  <1>2. ASSUME IInv, [Next]_vars PROVE IInv'
    <2>1. CASE UNCHANGED vars
      BY <1>2, <2>1 DEF vars, IInv, TypeOK, CallShape, Serialized, ReadsStillTrue, RowsAtHome,
         Inside, HasNewMessage, HasNewConversation, NewRow
    <2>2. ASSUME NEW r \in Requests, Statement(r) \/ Rollback(r) PROVE IInv'
      BY <1>2, <2>2, FindTenantKeeps, FindMessageKeeps, UpsertContactKeeps, FindConversationKeeps,
         InsertConversationKeeps, InsertMessageKeeps, CommitCreatedKeeps, CommitDuplicateKeeps,
         RollbackKeeps DEF Statement
    <2> QED BY <1>2, <2>1, <2>2 DEF Next
  <1> QED BY <1>1, <1>2, PTL DEF Spec

-----------------------------------------------------------------------------
(* Refinement: a call takes effect when it commits.                           *)

Answered == [r \in Requests |-> IF At(r, "done") THEN call[r].answer ELSE NoAnswer]

\* What Inbox sees of a state.
Seen == <<input, conversation, row, Answered>>

\* Calls that have not returned have not answered.
LEMMA AnsweredUnchanged ==
    ASSUME NEW r \in Requests, NEW step, NEW conv, NEW answer,
           ~At(r, "done"), step # "done", Becomes(r, step, conv, answer)
    PROVE  UNCHANGED Answered
  BY DEF Answered, Becomes

\* A call that returns answers, once.
LEMMA AnsweredOnce ==
    ASSUME NEW r \in Requests, NEW conv, NEW answer,
           ~At(r, "done"), Becomes(r, "done", conv, answer)
    PROVE  /\ Answered[r] = NoAnswer
           /\ Answered' = [Answered EXCEPT ![r] = answer]
  BY DEF Answered, Becomes

\* The two modules speak of the same rows and answers.
LEMMA SameWords ==
    /\ Atomic!NoRow = NoRow /\ Atomic!NoAnswer = NoAnswer /\ Atomic!Failure = Failure
    /\ \A kind, w : Atomic!Answer(kind, w) = Answer(kind, w)
  BY DEF Atomic!NoRow, NoRow, Atomic!NoAnswer, NoAnswer, Atomic!Failure, Failure,
         Atomic!Answer, Answer

\* A failing call, or one for no tenant, is a call refused.
LEMMA Refused ==
    ASSUME NEW r \in Requests, NEW conv, NEW answer,
           answer \in {Answer("unknown_tenant", NoRow), Failure},
           ~At(r, "done"), Becomes(r, "done", conv, answer), UNCHANGED <<input, conversation, row>>
    PROVE  Atomic!Next
  <1>1. /\ Answered[r] = NoAnswer
        /\ Answered' \in {[Answered EXCEPT ![r] = Answer("unknown_tenant", NoRow)],
                          [Answered EXCEPT ![r] = Failure]}
    BY AnsweredOnce
  <1>2. Atomic!Refuse(r)
    BY <1>1, SameWords DEF Atomic!Refuse, Answered
  <1> QED BY <1>2 DEF Atomic!Next

\* Statements that do not end the call are invisible.
LEMMA StatementInvisible ==
    ASSUME IInv, NEW r \in Requests,
           \/ FindMessage(r) \/ UpsertContact(r) \/ FindConversation(r)
           \/ InsertConversation(r) \/ InsertMessage(r)
    PROVE  UNCHANGED Seen
  <1>1. TypeOK /\ ~At(r, "done") /\ UNCHANGED <<input, conversation, row>>
    BY DEF IInv, FindMessage, UpsertContact, FindConversation, InsertConversation, InsertMessage
  <1>2. /\ call' \in [Requests -> CallRecord]
        /\ call'[r].step # "done" /\ \A q \in Requests : q # r => call'[q] = call[q]
    <2>1. IInv'
      BY FindMessageKeeps, UpsertContactKeeps, FindConversationKeeps, InsertConversationKeeps,
         InsertMessageKeeps
    <2>2. call'[r].step # "done" /\ \A q \in Requests : q # r => call'[q] = call[q]
      BY <1>1 DEF TypeOK, CallRecord, FindMessage, UpsertContact, FindConversation,
         InsertConversation, InsertMessage, Goto, Conclude
    <2> QED BY <2>1, <2>2 DEF IInv, TypeOK
  <1>3. UNCHANGED Answered
    BY <1>1, <1>2 DEF Answered
  <1> QED BY <1>1, <1>3 DEF Seen

\* The commit of a new row is its creation; a lost acknowledgement is a failure.
LEMMA CommitCreates ==
    ASSUME IInv, NEW r \in Requests, Commit(r), HasNewMessage(r)
    PROVE  Atomic!Next
  <1> DEFINE c == From(r)
             home == call[r].conversation
  <1>1. /\ TypeOK /\ ~At(r, "done") /\ UNCHANGED input /\ row[input[r]] = NoRow
        /\ call[r].answer.row = NewRow(r) /\ call[r].answer.kind = "created"
        /\ home # NoRequest /\ conversation[c] = IF home = r THEN NoRequest ELSE home
    BY DEF IInv, Commit, ReadsStillTrue, HasNewMessage, HasNewConversation
  <1>2. call[r].answer = Answer("created", NewRow(r)) /\ call[r].answer \in AnswerRecord
    BY <1>1 DEF TypeOK, CallRecord, Answer, AnswerRecord
  <1>3. home = IF conversation[c] = NoRequest THEN r ELSE conversation[c]
    BY <1>1
  <1>4. /\ row' = [row EXCEPT ![input[r]] = [message |-> r, conversation |-> home]]
        /\ conversation' = [conversation EXCEPT ![c] = home]
    BY <1>1 DEF Commit, NewRow, TypeOK, HasNewConversation
  <1>5. \/ Becomes(r, "done", home, Answer("created", NewRow(r)))
        \/ Becomes(r, "done", home, Failure)
    BY <1>1, <1>2, FinishBecomes, AnswersTyped DEF Commit
  <1>6. /\ Answered[r] = NoAnswer
        /\ Answered' \in {[Answered EXCEPT ![r] = Answer("created", NewRow(r))],
                          [Answered EXCEPT ![r] = Failure]}
    BY <1>1, <1>5, AnsweredOnce
  <1>7. Atomic!Create(r)
    BY <1>1, <1>3, <1>4, <1>6, SameWords DEF Atomic!Create, Answered, NewRow
  <1> QED BY <1>7 DEF Atomic!Next

\* The commit of a duplicate reports the row that is there.
LEMMA CommitDuplicates ==
    ASSUME IInv, NEW r \in Requests, Commit(r), ~HasNewMessage(r)
    PROVE  Atomic!Next
  <1>1. /\ TypeOK /\ ~At(r, "done") /\ UNCHANGED <<input, conversation, row>>
        /\ row[input[r]] # NoRow /\ call[r].answer = Answer("duplicated", row[input[r]])
        /\ call[r].answer \in AnswerRecord
    BY DEF IInv, Commit, ReadsStillTrue, TypeOK, CallRecord, AnswerRecord
  <1>2. CASE Finish(r, Failure)
    BY <1>1, <1>2, FinishBecomes, AnswersTyped, Refused
  <1>3. CASE Finish(r, call[r].answer)
    <2>1. Becomes(r, "done", call[r].conversation, Answer("duplicated", row[input[r]]))
      BY <1>1, <1>3, FinishBecomes
    <2>2. Atomic!Duplicate(r)
      BY <1>1, <2>1, AnsweredOnce, SameWords DEF Atomic!Duplicate, Answered
    <2> QED BY <2>2 DEF Atomic!Next
  <1> QED BY <1>2, <1>3 DEF Commit

\* Concurrent calls behave as calls that run one at a time, whatever fails: one
\* row per message, one active conversation per customer, true answers.
THEOREM ReceivesOneAtATime == Spec => ReceivesAtomically
  <1>1. Init => Atomic!Init
    BY SameWords DEF Init, Atomic!Init
  <1>2. IInv /\ [Next]_vars => [Atomic!Next]_(Atomic!vars)
    <2> SUFFICES ASSUME IInv, [Next]_vars
                 PROVE  Atomic!Next \/ UNCHANGED Seen
      BY DEF Atomic!vars, Seen, Answered
    <2>1. CASE UNCHANGED vars
      BY <2>1 DEF vars, Seen, Answered
    <2>2. ASSUME NEW r \in Requests, Rollback(r) PROVE Atomic!Next
      <3>1. ~At(r, "done") /\ UNCHANGED <<input, conversation, row>>
            /\ Becomes(r, "done", call[r].conversation, Failure)
        BY <2>2, FinishBecomes, AnswersTyped DEF Rollback, IInv
      <3> QED BY <3>1, Refused
    <2>3. ASSUME NEW r \in Requests, FindTenant(r) PROVE Atomic!Next \/ UNCHANGED Seen
      <3>1. TypeOK /\ ~At(r, "done") /\ UNCHANGED <<input, conversation, row>>
        BY <2>3 DEF FindTenant, IInv
      <3>2. CASE Goto(r, "find_message")
        <4>1. Becomes(r, "find_message", call[r].conversation, call[r].answer)
          BY <3>1, <3>2, GotoBecomes DEF Steps
        <4> QED BY <3>1, <4>1, AnsweredUnchanged DEF Seen
      <3>3. CASE Finish(r, Answer("unknown_tenant", NoRow))
        BY <3>1, <3>3, FinishBecomes, AnswersTyped, Refused
      <3> QED BY <2>3, <3>2, <3>3 DEF FindTenant
    <2>4. ASSUME NEW r \in Requests, Statement(r) PROVE Atomic!Next \/ UNCHANGED Seen
      BY <2>3, <2>4, StatementInvisible, CommitCreates, CommitDuplicates DEF Statement
    <2> QED BY <2>1, <2>2, <2>4 DEF Next
  <1> QED BY <1>1, <1>2, ReceiveInvariance, PTL DEF Spec, ReceivesAtomically, Atomic!Spec
====
