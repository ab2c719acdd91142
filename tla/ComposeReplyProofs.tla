---- MODULE ComposeReplyProofs ----
(* For any conversation and executions: the reply on record was composed       *)
(* without sight of another reply to its message, a prompt that says the       *)
(* question twice says something newer in between, and one that leaves out a   *)
(* reply from before the question has as many newer rows as a limit allows.    *)
EXTENDS ComposeReply, FiniteSetTheorems, TLAPS

USE DEF At, Goto, Tick, conversation

\* No execution sees a reply to its message before there is one.
Unanswered ==
    \A e \in Executions :
        reply[MessageOf[e]] = NoReply => Answered(MessageOf[e]) \notin exec[e].history

\* What was read is on record, and what is asked was read.
ReadIsVisible ==
    \A e \in Executions :
        exec[e].history \subseteq Visible /\ exec[e].asked \subseteq exec[e].history

\* A question that is asked twice was not the last row read.
Overtaken ==
    \A e \in Executions :
        Said(MessageOf[e]) \in exec[e].asked
            => \E row \in exec[e].history : TimeOf(row) > TimeOf(Said(MessageOf[e]))

\* Only a transaction that has begun commits.
CommittedHaveTime == \A m \in committed : createdAt[m] # 0

\* Nothing is asked before something is read.
ReadFirst == \A e \in Executions : exec[e].step \in {"idle", "load"} => exec[e].asked = {}

IInv ==
    /\ TypeOK /\ CommittedHaveTime /\ ReadFirst
    /\ ReadIsVisible /\ Unanswered /\ Overtaken /\ RecordedReplyIsFirst

-----------------------------------------------------------------------------

\* An execution belongs to a message.
LEMMA ExecutionOf == \A e \in Executions : MessageOf[e] \in Messages
  BY ComposeAssumption DEF ComposeAssumption

\* Rows are told apart by their kind and message.
LEMMA RowFields ==
    \A m, n : /\ Said(m) # Answered(n)
              /\ Answered(m) = Answered(n) <=> m = n
              /\ Said(m) = Said(n) <=> m = n
              /\ Said(m)[1] = "user" /\ Said(m)[2] = m
              /\ Answered(m)[1] = "assistant" /\ Answered(m)[2] = m
  BY DEF Said, Answered

\* Visible rows are rows.
LEMMA VisibleRows == TypeOK => Visible \subseteq Rows
  BY DEF TypeOK, Visible, Replied, Said, Answered, Rows

\* What is visible stays visible, with the time it has.
Stable ==
    /\ Visible \subseteq Visible'
    /\ \A row \in Visible : TimeOf(row)' = TimeOf(row)

\* Rows are added, and change no more.
LEMMA VisibleStable ==
    ASSUME TypeOK, CommittedHaveTime, committed \subseteq committed',
           \A m \in Messages : createdAt[m] # 0 => createdAt'[m] = createdAt[m],
           \A m \in Messages : reply[m] # NoReply => reply'[m] = reply[m]
    PROVE  Stable
<1>1. Visible \subseteq Visible'
  BY DEF Visible, Replied, TypeOK
<1>2. ASSUME NEW row \in Visible PROVE TimeOf(row)' = TimeOf(row)
  <2>1. CASE \E m \in committed : row = Said(m)
    BY <2>1, RowFields DEF TypeOK, CommittedHaveTime, TimeOf
  <2>2. CASE \E m \in Messages : reply[m] # NoReply /\ row = Answered(m)
    BY <2>2, RowFields DEF TimeOf
  <2> QED
    BY <2>1, <2>2 DEF Visible, Replied
<1> QED
  BY <1>1, <1>2 DEF Stable

\* What an execution has read keeps what it says of it.
LEMMA ReadingKept ==
    ASSUME IInv, TypeOK', Stable, NEW e \in Executions,
           exec'[e].history = exec[e].history, exec'[e].asked = exec[e].asked
    PROVE  /\ exec'[e].history \subseteq Visible' /\ exec'[e].asked \subseteq exec'[e].history
           /\ Said(MessageOf[e]) \in exec'[e].asked
                => \E row \in exec'[e].history : TimeOf(row)' > TimeOf(Said(MessageOf[e]))'
<1>1. exec'[e].history \subseteq Visible' /\ exec'[e].asked \subseteq exec'[e].history
  BY DEF IInv, ReadIsVisible, Stable
<1>2. ASSUME Said(MessageOf[e]) \in exec'[e].asked
      PROVE  \E row \in exec'[e].history : TimeOf(row)' > TimeOf(Said(MessageOf[e]))'
  <2>1. PICK row \in exec[e].history : TimeOf(row) > TimeOf(Said(MessageOf[e]))
    BY <1>2 DEF IInv, Overtaken
  <2>2. row \in Visible /\ Said(MessageOf[e]) \in Visible
    BY <1>2, <2>1 DEF IInv, ReadIsVisible
  <2>3. TimeOf(row)' = TimeOf(row) /\ TimeOf(Said(MessageOf[e]))' = TimeOf(Said(MessageOf[e]))
    BY <2>2 DEF Stable
  <2>4. TimeOf(row)' > TimeOf(Said(MessageOf[e]))'
    BY <2>1, <2>3
  <2> QED
    BY <2>1, <2>4
<1> QED
  BY <1>1, <1>2

-----------------------------------------------------------------------------

\* Every step keeps the types.
LEMMA TypeStep ==
    ASSUME TypeOK, [Next]_vars
    PROVE  TypeOK'
<1>1. ASSUME NEW m \in Messages, Begin(m) \/ Commit(m) PROVE TypeOK'
  BY <1>1 DEF Begin, Commit, TypeOK, Replied
<1>2. ASSUME NEW e \in Executions, Start(e) \/ Throw(e) PROVE TypeOK'
  BY <1>2 DEF Start, Throw, TypeOK, ExecRecord, Steps
<1>3. ASSUME NEW e \in Executions, LoadHistory(e) PROVE TypeOK'
  <2>1. Latest(Visible, HistoryLimit) \subseteq Rows
    BY VisibleRows DEF Latest
  <2> QED
    BY <1>3, <2>1 DEF LoadHistory, TypeOK, ExecRecord, Steps
<1>4. ASSUME NEW e \in Executions, AskForReply(e) PROVE TypeOK'
  <2>1. HistoryMessages(exec[e].history, MessageOf[e]) \subseteq Rows
    BY DEF HistoryMessages, Latest, TypeOK, ExecRecord
  <2>2. PICK documents \in BOOLEAN, asked \in SUBSET Rows :
          exec' = [exec EXCEPT ![e].step = "insert", ![e].asked = asked,
                               ![e].prompted = documents]
    BY <1>4, <2>1 DEF AskForReply
  <2> DEFINE new == [exec[e] EXCEPT !.step = "insert", !.asked = asked, !.prompted = documents]
  <2>3. exec[e] \in ExecRecord
    BY DEF TypeOK
  <2>4. new \in ExecRecord
    BY <2>3 DEF ExecRecord, Steps
  <2>5. exec' = [exec EXCEPT ![e] = new]
    BY <2>2
  <2> HIDE DEF new
  <2>6. exec' \in [Executions -> ExecRecord]
    BY <2>4, <2>5 DEF TypeOK
  <2> QED
    BY <1>4, <2>6 DEF AskForReply, TypeOK
<1>5. ASSUME NEW e \in Executions, InsertOutbound(e) PROVE TypeOK'
  <2> DEFINE new == [exec[e] EXCEPT !.step = "commit", !.at = clock + 1]
  <2>1. exec[e] \in ExecRecord /\ clock + 1 \in Nat
    BY DEF TypeOK
  <2>2. new \in ExecRecord
    BY <2>1 DEF ExecRecord, Steps
  <2>3. exec' = [exec EXCEPT ![e] = new]
    BY <1>5 DEF InsertOutbound
  <2> HIDE DEF new
  <2>4. exec' \in [Executions -> ExecRecord]
    BY <2>2, <2>3 DEF TypeOK
  <2> QED
    BY <1>5, <2>1, <2>4 DEF InsertOutbound, TypeOK
<1>6. ASSUME NEW e \in Executions, CommitOutbound(e) PROVE TypeOK'
  <2>1. exec[e].asked \subseteq Rows /\ exec[e].at \in Nat
    BY DEF TypeOK, ExecRecord
  <2>2. reply' \in [Messages -> ReplyRecord]
    BY <1>6, <2>1 DEF CommitOutbound, Record, TypeOK, ReplyRecord
  <2> QED
    BY <1>6, <2>2 DEF CommitOutbound, TypeOK, ExecRecord, Steps
<1>7. CASE UNCHANGED vars
  BY <1>7 DEF vars, TypeOK
<1> QED
  BY <1>1, <1>2, <1>3, <1>4, <1>5, <1>6, <1>7 DEF Next

\* A step that adds no reply, and at which no execution reads or asks.
LEMMA RowsStep ==
    ASSUME IInv, TypeOK', Stable, CommittedHaveTime', ReadFirst', UNCHANGED reply,
           \A e \in Executions : /\ exec'[e].history = exec[e].history
                                 /\ exec'[e].asked = exec[e].asked
    PROVE  IInv'
<1>1. ReadIsVisible' /\ Overtaken'
  BY ReadingKept DEF ReadIsVisible, Overtaken
<1>2. Unanswered' /\ RecordedReplyIsFirst'
  BY DEF IInv, Unanswered, RecordedReplyIsFirst
<1> QED
  BY <1>1, <1>2 DEF IInv

\* A message's transaction begins, or commits.
LEMMA ReceiveStep ==
    ASSUME IInv, TypeOK', NEW m \in Messages, Begin(m) \/ Commit(m)
    PROVE  IInv'
<1>1. CommittedHaveTime' /\ UNCHANGED <<reply, exec>>
  BY DEF IInv, TypeOK, CommittedHaveTime, Begin, Commit
<1>2. /\ committed \subseteq committed'
      /\ \A n \in Messages : createdAt[n] # 0 => createdAt'[n] = createdAt[n]
  BY DEF IInv, TypeOK, Begin, Commit
<1>3. Stable
  BY <1>1, <1>2, VisibleStable DEF IInv
<1> QED
  BY <1>1, <1>3, RowsStep DEF IInv, ReadFirst

\* An execution begins, starts its INSERT, or throws.
LEMMA StartStep ==
    ASSUME IInv, TypeOK', NEW e \in Executions, Start(e) \/ InsertOutbound(e) \/ Throw(e)
    PROVE  IInv'
<1>1. UNCHANGED <<createdAt, committed, reply>>
  BY DEF Start, InsertOutbound, Throw
<1>2. \A d \in Executions : exec'[d].history = exec[d].history /\ exec'[d].asked = exec[d].asked
  BY DEF IInv, TypeOK, ExecRecord, Start, InsertOutbound, Throw
<1>3. ReadFirst'
  BY DEF IInv, TypeOK, ExecRecord, ReadFirst, Start, InsertOutbound, Throw
<1>4. Stable /\ CommittedHaveTime'
  BY <1>1, VisibleStable DEF IInv, CommittedHaveTime
<1> QED
  BY <1>1, <1>2, <1>3, <1>4, RowsStep

\* What is read is visible, and none of it answers an unanswered question.
LEMMA LoadHistoryStep ==
    ASSUME IInv, TypeOK', NEW e \in Executions, LoadHistory(e)
    PROVE  IInv'
<1>1. UNCHANGED <<createdAt, committed, reply>>
  BY DEF LoadHistory
<1>2. Stable /\ CommittedHaveTime'
  BY <1>1, VisibleStable DEF IInv, CommittedHaveTime
<1>3. /\ exec'[e].history = Latest(Visible, HistoryLimit)
      /\ exec'[e].asked = {} /\ exec'[e].step = "ask"
  BY DEF IInv, TypeOK, ExecRecord, ReadFirst, LoadHistory
<1>4. \A d \in Executions \ {e} : exec'[d] = exec[d]
  BY DEF IInv, TypeOK, LoadHistory
<1>5. exec'[e].history \subseteq Visible /\ exec'[e].history \subseteq Visible'
  BY <1>2, <1>3 DEF Latest, Stable
<1>6. ReadIsVisible' /\ Overtaken'
  BY <1>2, <1>3, <1>4, <1>5, ReadingKept DEF ReadIsVisible, Overtaken
<1>7. reply[MessageOf[e]] = NoReply => Answered(MessageOf[e]) \notin exec'[e].history
  BY <1>5, RowFields DEF Visible, Replied
<1>8. Unanswered' /\ RecordedReplyIsFirst'
  BY <1>1, <1>4, <1>7 DEF IInv, Unanswered, RecordedReplyIsFirst
<1>9. ReadFirst'
  BY <1>3, <1>4 DEF IInv, ReadFirst
<1> QED
  BY <1>2, <1>6, <1>8, <1>9 DEF IInv

\* The question is left out of what is asked before it if it was the last row.
LEMMA AskStep ==
    ASSUME IInv, TypeOK', NEW e \in Executions, AskForReply(e)
    PROVE  IInv'
<1> DEFINE m == MessageOf[e]
           history == exec[e].history
<1>1. UNCHANGED <<createdAt, committed, reply>>
  BY DEF AskForReply
<1>2. Stable /\ CommittedHaveTime'
  BY <1>1, VisibleStable DEF IInv, CommittedHaveTime
<1>3. PICK asked \in SUBSET HistoryMessages(history, m), documents \in BOOLEAN :
        exec' = [exec EXCEPT ![e].step = "insert", ![e].asked = asked,
                             ![e].prompted = documents]
  BY DEF AskForReply
<1>4. exec'[e].history = history /\ exec'[e].asked = asked /\ exec'[e].step = "insert"
  BY <1>3 DEF IInv, TypeOK, ExecRecord
<1>5. \A d \in Executions \ {e} : exec'[d] = exec[d]
  BY <1>3 DEF IInv, TypeOK
<1>6. asked \subseteq history /\ history \subseteq Visible
  BY <1>3 DEF HistoryMessages, Latest, IInv, ReadIsVisible
<1>7. Said(m) \in asked => \E row \in history : TimeOf(row) > TimeOf(Said(m))
  <2>1. ASSUME Said(m) \in asked PROVE Newer(history, Said(m)) # {}
    <3>1. ~IsRepeated(Said(m), history, m)
      BY <1>3, <2>1 DEF HistoryMessages, Latest
    <3> QED
      BY <3>1, RowFields DEF IsRepeated
  <2> QED
    BY <2>1 DEF Newer
<1>8. \A row \in history : TimeOf(row)' = TimeOf(row)
  BY <1>2, <1>6 DEF Stable
<1>9. Said(m) \in asked => \E row \in history : TimeOf(row)' > TimeOf(Said(m))'
  BY <1>6, <1>7, <1>8
<1>10. ReadIsVisible' /\ Overtaken'
  BY <1>2, <1>4, <1>5, <1>6, <1>9, ReadingKept DEF ReadIsVisible, Overtaken, Stable
<1>11. Unanswered' /\ RecordedReplyIsFirst'
  BY <1>1, <1>4, <1>5 DEF IInv, Unanswered, RecordedReplyIsFirst
<1>12. ReadFirst'
  BY <1>4, <1>5 DEF IInv, ReadFirst
<1> QED
  BY <1>2, <1>10, <1>11, <1>12 DEF IInv

\* The first to commit had not read a reply, and nobody replaces what it recorded.
LEMMA CommitStep ==
    ASSUME IInv, TypeOK', NEW e \in Executions, CommitOutbound(e)
    PROVE  IInv'
<1>1. UNCHANGED <<createdAt, committed>> /\ CommittedHaveTime'
  BY DEF CommitOutbound, IInv, CommittedHaveTime
<1>2. \A d \in Executions : exec'[d].history = exec[d].history /\ exec'[d].asked = exec[d].asked
  BY DEF CommitOutbound, IInv, TypeOK, ExecRecord
<1>3. ReadFirst'
  BY DEF CommitOutbound, IInv, TypeOK, ExecRecord, ReadFirst
<1>4. /\ \A n \in Messages : reply[n] # NoReply => reply'[n] = reply[n]
      /\ \A n \in Messages :
           reply'[n] # reply[n] =>
             n = MessageOf[e] /\ reply[n] = NoReply /\ reply'[n].asked = exec[e].asked
  <2>1. CASE reply[MessageOf[e]] = NoReply
    <3>1. reply' = [reply EXCEPT ![MessageOf[e]] = [at |-> exec[e].at, asked |-> exec[e].asked]]
      BY <2>1 DEF CommitOutbound, Record
    <3> QED
      BY <2>1, <3>1, ExecutionOf DEF IInv, TypeOK
  <2>2. CASE reply[MessageOf[e]] # NoReply
    BY <2>2 DEF CommitOutbound
  <2> QED
    BY <2>1, <2>2
<1>5. Stable
  BY <1>1, <1>4, VisibleStable DEF IInv
<1>6. ReadIsVisible' /\ Overtaken'
  BY <1>2, <1>5, ReadingKept DEF ReadIsVisible, Overtaken
<1>7. Unanswered'
  BY <1>2, <1>4, ExecutionOf DEF IInv, Unanswered
<1>8. RecordedReplyIsFirst'
  BY <1>4 DEF IInv, RecordedReplyIsFirst, Unanswered, ReadIsVisible
<1> QED
  BY <1>1, <1>3, <1>6, <1>7, <1>8 DEF IInv

\* A step that changes nothing.
LEMMA StutterStep ==
    ASSUME IInv, TypeOK', UNCHANGED vars
    PROVE  IInv'
<1>1. Stable /\ CommittedHaveTime' /\ ReadFirst'
  BY VisibleStable DEF vars, IInv, CommittedHaveTime, ReadFirst
<1> QED
  BY <1>1, RowsStep DEF vars

\* The invariant holds of every state.
THEOREM Inductive == Spec => []IInv
<1>1. Init => IInv
  <2>1. Init => TypeOK
    BY DEF Init, TypeOK, ReplyRecord, NoReply, ExecRecord, Idle, Steps
  <2> QED
    BY <2>1 DEF Init, IInv, CommittedHaveTime, ReadFirst, ReadIsVisible, Unanswered,
                Overtaken, RecordedReplyIsFirst, Idle, NoReply
<1>2. IInv /\ [Next]_vars => IInv'
  <2> SUFFICES ASSUME IInv, [Next]_vars PROVE IInv'
    OBVIOUS
  <2>1. TypeOK'
    BY TypeStep DEF IInv
  <2> QED
    BY <2>1, ReceiveStep, StartStep, LoadHistoryStep, AskStep, CommitStep, StutterStep
       DEF Next
<1> QED
  BY <1>1, <1>2, PTL DEF Spec

\* The reply that is recorded, and so sent, was composed before any other to the
\* same message was on record (process-inbound-message-use-case.ts:257-275).
THEOREM FirstReply == Spec => []RecordedReplyIsFirst
  BY Inductive, PTL DEF IInv

\* A prompt says the question twice only if something newer stands in between
\* (openai-provider.ts:139-147).
THEOREM AskedOnce == Spec => []QuestionRepeatedOnlyIfOvertaken
<1>1. IInv => QuestionRepeatedOnlyIfOvertaken
  BY DEF IInv, ReadIsVisible, Overtaken, QuestionRepeatedOnlyIfOvertaken, Newer
<1> QED
  BY <1>1, Inductive, PTL

-----------------------------------------------------------------------------
(* A follow-up is answered in the light of the replies before it.              *)

\* What was on record when a message came in is on record.
AnsweredStay == \A m \in Messages : answered[m] \subseteq Replied

\* An execution that has begun answers a message on record, and asks before it inserts.
Begun ==
    \A e \in Executions :
        /\ exec[e].step # "idle" => MessageOf[e] \in committed
        /\ exec[e].prompted => exec[e].step \in {"insert", "commit", "ended"}

FewRows == IsFiniteSet(Visible)

PushedOut(m, limit) == Cardinality(Newer(Visible, Answered(m))) >= limit

\* The limit of the SELECT leaves out a reply from before the question only if so many
\* rows are newer.
HistoryIsLatest ==
    \A e \in Executions : exec[e].step = "ask" =>
        \A m \in answered[MessageOf[e]] :
            Answered(m) \in exec[e].history \/ PushedOut(m, HistoryLimit)

Context == AnsweredStay /\ Begun /\ FewRows /\ HistoryIsLatest /\ FollowUpsAreInContext

\* Every step adds one row at most and keeps what has been written; what was answered
\* when a message came in is settled then.
Appends ==
    /\ \E row : Visible' \subseteq Visible \cup {row}
    /\ committed \subseteq committed'
    /\ \A m \in Messages :
         /\ createdAt[m] # 0 => createdAt'[m] = createdAt[m] /\ answered'[m] = answered[m]
         /\ answered'[m] \in {answered[m], Replied}
         /\ reply[m] # NoReply => reply'[m] = reply[m]

LEMMA NextAppends ==
    ASSUME TypeOK, [Next]_vars PROVE Appends
<1> USE DEF TypeOK
<1>1. ASSUME NEW m \in Messages, Begin(m) PROVE Appends
  <2>1. Visible' = Visible
    BY <1>1 DEF Begin, Visible, Replied
  <2> QED BY <1>1, <2>1 DEF Begin, Appends
<1>2. ASSUME NEW m \in Messages, Commit(m) PROVE Appends
  <2>1. Visible' \subseteq Visible \cup {Said(m)}
    BY <1>2 DEF Commit, Visible, Replied
  <2> QED BY <1>2, <2>1 DEF Commit, Appends
<1>3. ASSUME NEW e \in Executions, CommitOutbound(e) PROVE Appends
  <2>1. CASE reply[MessageOf[e]] = NoReply
    <3>1. /\ UNCHANGED <<createdAt, committed, answered>>
          /\ \A m \in Messages \ {MessageOf[e]} : reply'[m] = reply[m]
      BY <1>3, <2>1 DEF CommitOutbound, Record
    <3>2. Visible' \subseteq Visible \cup {Answered(MessageOf[e])}
      BY <3>1 DEF Visible, Replied
    <3> QED BY <2>1, <3>1, <3>2 DEF Appends
  <2>2. CASE reply[MessageOf[e]] # NoReply
    <3>1. UNCHANGED conversation
      BY <1>3, <2>2 DEF CommitOutbound
    <3>2. Visible' = Visible
      BY <3>1 DEF Visible, Replied
    <3> QED BY <3>1, <3>2 DEF Appends
  <2> QED BY <2>1, <2>2
<1>4. ASSUME UNCHANGED conversation PROVE Appends
  <2>1. Visible' = Visible
    BY <1>4 DEF Visible, Replied
  <2> QED BY <1>4, <2>1 DEF Appends
<1> QED
  BY <1>1, <1>2, <1>3, <1>4
     DEF Next, vars, Start, LoadHistory, AskForReply, Throw, InsertOutbound

\* The rows that are newer than one are counted, and never fewer later.
LEMMA NewerCounted ==
    ASSUME FewRows, NEW rows \in SUBSET Visible, NEW row
    PROVE  /\ Cardinality(Newer(rows, row)) \in Nat
           /\ Cardinality(Newer(Visible, row)) \in Nat
           /\ Cardinality(Newer(rows, row)) <= Cardinality(Newer(Visible, row))
<1>1. Newer(rows, row) \subseteq Newer(Visible, row) /\ Newer(Visible, row) \subseteq Visible
  BY DEF Newer
<1>2. IsFiniteSet(Newer(Visible, row))
  BY <1>1, FS_Subset DEF FewRows
<1> QED BY <1>1, <1>2, FS_Subset, FS_CardinalityType

LEMMA PushedOutKept ==
    ASSUME FewRows, FewRows', Stable, NEW m, Answered(m) \in Visible,
           NEW limit \in Nat, PushedOut(m, limit)
    PROVE  PushedOut(m, limit)'
<1> DEFINE newer == Newer(Visible, Answered(m))
           later == Newer(Visible, Answered(m))'
<1>1. newer \subseteq later
  BY DEF Stable, Newer
<1>2. IsFiniteSet(later)
  <2>1. later \subseteq Visible'
    BY DEF Newer
  <2> QED BY <2>1, FS_Subset DEF FewRows
<1>3. Cardinality(newer) <= Cardinality(later)
  BY <1>1, <1>2, FS_Subset
<1>4. Cardinality(newer) \in Nat /\ Cardinality(later) \in Nat
  BY <1>1, <1>2, FS_Subset, FS_CardinalityType
<1> QED BY <1>3, <1>4 DEF PushedOut

\* What was answered before the message of an execution under way is settled, and on
\* record.
LEMMA AnsweredKept ==
    ASSUME IInv, Context, Appends, NEW e \in Executions, exec[e].step # "idle"
    PROVE  /\ answered'[MessageOf[e]] = answered[MessageOf[e]]
           /\ \A m \in answered[MessageOf[e]] : Answered(m) \in Visible
<1>1. MessageOf[e] \in Messages /\ createdAt[MessageOf[e]] # 0
  BY ExecutionOf DEF Context, Begun, IInv, CommittedHaveTime
<1>2. answered[MessageOf[e]] \subseteq Replied
  BY <1>1 DEF Context, AnsweredStay
<1> QED BY <1>1, <1>2 DEF Appends, Visible

\* Rows go on as they should, whatever the step.
LEMMA RowsContext ==
    ASSUME IInv, Context, Appends
    PROVE  AnsweredStay' /\ FewRows' /\ Stable
<1>1. AnsweredStay'
  <2>1. Replied \subseteq Replied'
    BY DEF Appends, Replied
  <2> QED BY <2>1 DEF Appends, Context, AnsweredStay
<1>2. FewRows'
  <2>1. PICK row : Visible' \subseteq Visible \cup {row}
    BY DEF Appends
  <2>2. IsFiniteSet(Visible \cup {row})
    BY FS_AddElement DEF Context, FewRows
  <2> QED BY <2>1, <2>2, FS_Subset DEF FewRows
<1>3. Stable
  BY VisibleStable DEF Appends, IInv
<1> QED BY <1>1, <1>2, <1>3

\* An execution that neither reads nor asks keeps its context.
LEMMA ContextKept ==
    ASSUME IInv, Context, Appends, NEW e \in Executions,
           exec'[e].history = exec[e].history, exec'[e].asked = exec[e].asked,
           exec'[e].prompted = exec[e].prompted,
           exec'[e].step = "ask" => exec[e].step = "ask"
    PROVE  \A m \in answered'[MessageOf[e]] :
             /\ exec'[e].step = "ask"
                  => Answered(m) \in exec'[e].history \/ PushedOut(m, HistoryLimit)'
             /\ exec'[e].prompted
                  => \/ Answered(m) \in exec'[e].asked
                     \/ PushedOut(m, HistoryLimit)' \/ PushedOut(m, MaxHistory)'
<1> SUFFICES ASSUME NEW m \in answered'[MessageOf[e]],
                    exec[e].step = "ask" \/ exec[e].prompted
             PROVE  /\ exec[e].step = "ask"
                         => Answered(m) \in exec[e].history \/ PushedOut(m, HistoryLimit)'
                    /\ exec[e].prompted
                         => \/ Answered(m) \in exec[e].asked
                            \/ PushedOut(m, HistoryLimit)' \/ PushedOut(m, MaxHistory)'
  OBVIOUS
<1>1. m \in answered[MessageOf[e]] /\ Answered(m) \in Visible
  BY AnsweredKept DEF Context, Begun
<1>2. \A limit \in Nat : PushedOut(m, limit) => PushedOut(m, limit)'
  BY <1>1, RowsContext, PushedOutKept DEF Context
<1>3. HistoryLimit \in Nat /\ MaxHistory \in Nat
  BY ComposeAssumption
<1>4. exec[e].step = "ask" => Answered(m) \in exec[e].history \/ PushedOut(m, HistoryLimit)
  BY <1>1 DEF Context, HistoryIsLatest
<1>5. exec[e].prompted => \/ Answered(m) \in exec[e].asked
                          \/ PushedOut(m, HistoryLimit) \/ PushedOut(m, MaxHistory)
  BY <1>1 DEF Context, FollowUpsAreInContext, PushedOut
<1> QED BY <1>2, <1>3, <1>4, <1>5

\* What the SELECT leaves out has been pushed out of it.
LEMMA LoadInContext ==
    ASSUME IInv, Context, NEW e \in Executions, LoadHistory(e)
    PROVE  \A m \in answered'[MessageOf[e]] :
             Answered(m) \in exec'[e].history \/ PushedOut(m, HistoryLimit)'
<1> SUFFICES ASSUME NEW m \in answered'[MessageOf[e]], Answered(m) \notin exec'[e].history
             PROVE  PushedOut(m, HistoryLimit)'
  OBVIOUS
<1>1. UNCHANGED conversation
      /\ exec'[e].history = Latest(Visible, HistoryLimit)
  BY DEF LoadHistory, IInv, TypeOK
<1>2. Answered(m) \in Visible
  <2>1. m \in Replied
    BY <1>1, ExecutionOf DEF Context, AnsweredStay
  <2> QED BY <2>1 DEF Visible
<1>3. ~(Cardinality(Newer(Visible, Answered(m))) < HistoryLimit)
  BY <1>1, <1>2 DEF Latest
<1>4. Cardinality(Newer(Visible, Answered(m))) \in Nat /\ HistoryLimit \in Nat
  BY NewerCounted, ComposeAssumption DEF Context
<1>5. Newer(Visible, Answered(m))' = Newer(Visible, Answered(m))
  BY <1>1 DEF Visible, Replied, Newer, TimeOf
<1> QED BY <1>3, <1>4, <1>5 DEF PushedOut

\* What the prompt leaves out of the history is the question, or has been pushed out.
LEMMA AskInContext ==
    ASSUME IInv, Context, NEW e \in Executions, AskForReply(e), exec'[e].prompted
    PROVE  \A m \in answered'[MessageOf[e]] :
             \/ Answered(m) \in exec'[e].asked
             \/ PushedOut(m, HistoryLimit)' \/ PushedOut(m, MaxHistory)'
<1> SUFFICES ASSUME NEW m \in answered'[MessageOf[e]], Answered(m) \notin exec'[e].asked,
                    ~PushedOut(m, HistoryLimit)'
             PROVE  PushedOut(m, MaxHistory)'
  OBVIOUS
<1> DEFINE kept == {r \in exec[e].history : ~IsRepeated(r, exec[e].history, MessageOf[e])}
<1>1. UNCHANGED conversation /\ exec[e].step = "ask"
  BY DEF AskForReply
<1>2. Newer(Visible, Answered(m))' = Newer(Visible, Answered(m))
  BY <1>1 DEF Visible, Replied, Newer, TimeOf
<1>3. exec'[e].asked = Latest(kept, MaxHistory)
  <2>1. PICK documents \in BOOLEAN :
          exec' = [exec EXCEPT ![e].step = "insert",
                               ![e].asked = IF documents
                                            THEN HistoryMessages(exec[e].history, MessageOf[e])
                                            ELSE {},
                               ![e].prompted = documents]
    BY DEF AskForReply
  <2>2. exec[e] \in ExecRecord
    BY DEF IInv, TypeOK
  <2>3. exec'[e].prompted = documents
    BY <2>1, <2>2 DEF IInv, TypeOK, ExecRecord
  <2>4. exec'[e].asked = HistoryMessages(exec[e].history, MessageOf[e])
    BY <2>1, <2>2, <2>3 DEF IInv, TypeOK, ExecRecord
  <2> QED BY <2>4 DEF HistoryMessages
<1>4. Answered(m) \in exec[e].history
  <2>1. m \in answered[MessageOf[e]]
    BY <1>1
  <2> QED BY <1>1, <1>2, <2>1 DEF Context, HistoryIsLatest, PushedOut
<1>5. Answered(m) \in kept
  BY <1>4, RowFields DEF IsRepeated
<1>6. kept \in SUBSET Visible
  BY DEF IInv, ReadIsVisible
<1>7. ~(Cardinality(Newer(kept, Answered(m))) < MaxHistory)
  BY <1>3, <1>5 DEF Latest
<1>8. /\ Cardinality(Newer(kept, Answered(m))) \in Nat
      /\ Cardinality(Newer(Visible, Answered(m))) \in Nat
      /\ Cardinality(Newer(kept, Answered(m))) <= Cardinality(Newer(Visible, Answered(m)))
      /\ MaxHistory \in Nat
  BY <1>6, NewerCounted, ComposeAssumption DEF Context
<1> QED BY <1>2, <1>7, <1>8 DEF PushedOut

-----------------------------------------------------------------------------

\* What the executions' steps do to the others, and to one that neither reads nor
\* asks.
LEMMA OthersKept ==
    ASSUME TypeOK, [Next]_vars, NEW e \in Executions, ~LoadHistory(e), ~AskForReply(e)
    PROVE  /\ exec'[e].history = exec[e].history /\ exec'[e].asked = exec[e].asked
           /\ exec'[e].prompted = exec[e].prompted
           /\ exec'[e].step = "ask" => exec[e].step = "ask"
<1>1. CASE \E m \in Messages : Begin(m) \/ Commit(m)
  BY <1>1 DEF Begin, Commit
<1>2. ASSUME NEW d \in Executions, Start(d) \/ Throw(d) \/ CommitOutbound(d)
      PROVE  \E step \in {"load", "ended"} : exec' = [exec EXCEPT ![d].step = step]
  BY <1>2 DEF Start, Throw, CommitOutbound
<1>3. ASSUME NEW d \in Executions, LoadHistory(d) \/ AskForReply(d)
      PROVE  exec'[e] = exec[e]
  BY <1>3 DEF LoadHistory, AskForReply, TypeOK
<1>4. ASSUME NEW d \in Executions, InsertOutbound(d)
      PROVE  /\ exec'[e].history = exec[e].history /\ exec'[e].asked = exec[e].asked
             /\ exec'[e].prompted = exec[e].prompted
             /\ exec'[e].step = "ask" => exec[e].step = "ask"
  BY <1>4 DEF InsertOutbound, TypeOK, ExecRecord
<1>5. CASE UNCHANGED vars
  BY <1>5 DEF vars
<1> QED BY <1>1, <1>2, <1>3, <1>4, <1>5 DEF Next, TypeOK, ExecRecord

\* An execution begins on a message that is on record, and asks on its way to insert.
LEMMA BegunStep ==
    ASSUME IInv, Context, [Next]_vars, Appends
    PROVE  Begun'
<1> USE DEF IInv, Context, Begun, Appends
<1>1. CASE \E m \in Messages : Begin(m) \/ Commit(m)
  BY <1>1 DEF Begin, Commit
<1>2. ASSUME NEW d \in Executions, Start(d) PROVE Begun'
  BY <1>2 DEF Start, TypeOK, ExecRecord
<1>3. ASSUME NEW d \in Executions, Throw(d) \/ LoadHistory(d) PROVE Begun'
  BY <1>3 DEF Throw, LoadHistory, TypeOK, ExecRecord
<1>4. ASSUME NEW d \in Executions, AskForReply(d) PROVE Begun'
  BY <1>4 DEF AskForReply, TypeOK, ExecRecord
<1>5. ASSUME NEW d \in Executions, InsertOutbound(d) PROVE Begun'
  BY <1>5 DEF InsertOutbound, TypeOK, ExecRecord
<1>6. ASSUME NEW d \in Executions, CommitOutbound(d) PROVE Begun'
  BY <1>6 DEF CommitOutbound, TypeOK, ExecRecord
<1>7. CASE UNCHANGED vars
  BY <1>7 DEF vars
<1> QED BY <1>1, <1>2, <1>3, <1>4, <1>5, <1>6, <1>7 DEF Next

LEMMA ContextStep ==
    ASSUME IInv, Context, [Next]_vars
    PROVE  Context'
<1>1. Appends
  BY NextAppends DEF IInv
<1>2. AnsweredStay' /\ FewRows' /\ Begun'
  BY <1>1, RowsContext, BegunStep
<1>3. ASSUME NEW e \in Executions, NEW m \in answered'[MessageOf[e]]
      PROVE  /\ exec'[e].step = "ask"
                  => Answered(m) \in exec'[e].history \/ PushedOut(m, HistoryLimit)'
             /\ exec'[e].prompted
                  => \/ Answered(m) \in exec'[e].asked
                     \/ PushedOut(m, HistoryLimit)' \/ PushedOut(m, MaxHistory)'
  <2>1. CASE LoadHistory(e)
    <3>1. exec'[e].step = "ask" /\ ~exec'[e].prompted
      BY <2>1 DEF LoadHistory, IInv, TypeOK, ExecRecord, Context, Begun
    <3> QED BY <1>3, <2>1, <3>1, LoadInContext
  <2>2. CASE AskForReply(e)
    <3>1. exec'[e].step = "insert"
      BY <2>2 DEF AskForReply, IInv, TypeOK, ExecRecord
    <3> QED BY <1>3, <2>2, <3>1, AskInContext
  <2>3. CASE ~LoadHistory(e) /\ ~AskForReply(e)
    BY <1>1, <1>2, <1>3, <2>3, OthersKept, ContextKept DEF IInv
  <2> QED BY <2>1, <2>2, <2>3
<1>4. HistoryIsLatest'
  BY <1>3 DEF HistoryIsLatest
<1>5. FollowUpsAreInContext'
  BY <1>3 DEF FollowUpsAreInContext, PushedOut
<1> QED BY <1>2, <1>4, <1>5 DEF Context

\* However many messages and executions there are: a prompt leaves out a reply that
\* was on record when its question came in only if rows enough are newer
\* (process-inbound-message-use-case.ts:277-306, openai-provider.ts:131-155).
THEOREM FollowUps == Spec => []FollowUpsAreInContext
<1>1. Init => Context
  <2> SUFFICES ASSUME Init PROVE Context
    OBVIOUS
  <2>1. Visible = {}
    BY DEF Init, Visible, Replied
  <2>2. AnsweredStay /\ Begun /\ HistoryIsLatest /\ FollowUpsAreInContext
    BY DEF Init, AnsweredStay, Begun, HistoryIsLatest, FollowUpsAreInContext, Idle
  <2> QED BY <2>1, <2>2, FS_EmptySet DEF Context, FewRows
<1>2. IInv /\ Context /\ [Next]_vars => Context'
  BY ContextStep
<1> QED BY <1>1, <1>2, Inductive, PTL DEF Spec, Context
====
