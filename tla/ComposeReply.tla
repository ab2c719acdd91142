---- MODULE ComposeReply ----
(* What a reply is composed from (process-inbound-message-use-case.ts:208-306, *)
(* openai-provider.ts): executions that answer the messages of one             *)
(* conversation, some of them the same message, while messages still come in.  *)
(* Pipeline has the rest of an execution.  A transaction's rows have the time  *)
(* of its start as createdAt and are seen from its commit on.                  *)
EXTENDS Integers, FiniteSets

CONSTANTS Messages,
          Text,           \* message -> its text, trimmed
          Executions,
          MessageOf,      \* execution -> the message its job names
          HistoryLimit,   \* conversationHistoryLimit, 8
          MaxHistory      \* maxHistoryMessages, 8

ASSUME ComposeAssumption ==
    /\ MessageOf \in [Executions -> Messages]
    /\ HistoryLimit \in Nat /\ MaxHistory \in Nat

VARIABLES clock,      \* the database's
          createdAt,  \* message -> when the transaction that receives it began, or 0
          committed,  \* the messages whose transaction has committed
          answered,   \* message -> the messages whose replies were seen when it began
          reply,      \* message -> the row that answers it
          exec        \* execution -> where it is, and what it composes from

vars == <<clock, createdAt, committed, answered, reply, exec>>

conversation == <<createdAt, committed, answered, reply>>

\* The rows of the conversation: what the customer said, and what was answered.
Said(m) == <<"user", m>>

Answered(m) == <<"assistant", m>>

Rows == {"user", "assistant"} \X Messages

ReplyRecord == [at : Nat, asked : SUBSET Rows]

NoReply == [at |-> 0, asked |-> {}]

\* history is what was read, asked what of it the prompt repeats, at when the INSERT
\* of the reply started.
Steps == {"idle", "load", "ask", "insert", "commit", "ended"}

ExecRecord == [step : Steps, history : SUBSET Rows, asked : SUBSET Rows,
               prompted : BOOLEAN, at : Nat]

Idle == [step |-> "idle", history |-> {}, asked |-> {}, prompted |-> FALSE, at |-> 0]

TypeOK ==
    /\ clock \in Nat
    /\ createdAt \in [Messages -> Nat]
    /\ committed \subseteq Messages
    /\ answered \in [Messages -> SUBSET Messages]
    /\ reply \in [Messages -> ReplyRecord]
    /\ exec \in [Executions -> ExecRecord]

Init ==
    /\ clock = 0
    /\ createdAt = [m \in Messages |-> 0]
    /\ committed = {}
    /\ answered = [m \in Messages |-> {}]
    /\ reply = [m \in Messages |-> NoReply]
    /\ exec = [e \in Executions |-> Idle]

Tick == clock' = clock + 1

At(e, step) == exec[e].step = step

Goto(e, step) == exec' = [exec EXCEPT ![e].step = step]

TimeOf(row) == IF row[1] = "user" THEN createdAt[row[2]] ELSE reply[row[2]].at

Replied == {m \in Messages : reply[m] # NoReply}

Visible == {Said(m) : m \in committed} \cup {Answered(m) : m \in Replied}

Newer(rows, row) == {r \in rows : TimeOf(r) > TimeOf(row)}

\* Mutant of Latest: the oldest, ORDER BY createdAt without DESC.
Oldest(rows, n) == {r \in rows : Cardinality({s \in rows : TimeOf(s) < TimeOf(r)}) < n}

\* ORDER BY createdAt DESC LIMIT n.
Latest(rows, n) == {r \in rows : Cardinality(Newer(rows, r)) < n}

-----------------------------------------------------------------------------

\* ReceiveInbound's transaction begins, and commits.
Begin(m) ==
    /\ createdAt[m] = 0
    /\ Tick
    /\ createdAt' = [createdAt EXCEPT ![m] = clock + 1]
    /\ answered' = [answered EXCEPT ![m] = Replied]
    /\ UNCHANGED <<committed, reply, exec>>

Commit(m) ==
    /\ createdAt[m] # 0
    /\ m \notin committed
    /\ committed' = committed \cup {m}
    /\ UNCHANGED <<clock, createdAt, answered, reply, exec>>

\* execute() finds the message and no reply to it.
Start(e) ==
    /\ At(e, "idle")
    /\ MessageOf[e] \in committed
    /\ reply[MessageOf[e]] = NoReply
    /\ Goto(e, "load")
    /\ UNCHANGED <<clock, conversation>>

\* loadConversationHistory.
LoadHistory(e) ==
    /\ At(e, "load")
    /\ exec' = [exec EXCEPT ![e].step = "ask", ![e].history = Latest(Visible, HistoryLimit)]
    /\ UNCHANGED <<clock, conversation>>

\* Mutant of IsRepeated: reverse() is forgotten, and what is last is the oldest.
IsRepeatedUnreversed(row, rows, m) ==
    /\ \A r \in rows : TimeOf(r) >= TimeOf(row)
    /\ row[1] = "user"
    /\ Text[row[2]] = Text[m]

\* The last row of the history, if it is the question or reads like it.
IsRepeated(row, rows, m) ==
    /\ Newer(rows, row) = {}
    /\ row[1] = "user"
    /\ Text[row[2]] = Text[m]

\* buildHistoryMessages.
HistoryMessages(rows, m) == Latest({r \in rows : ~IsRepeated(r, rows, m)}, MaxHistory)

\* generateReply.  Without documents the answer is the fallback and no prompt is
\* made; with them, buildMessages puts the question after the history.
AskForReply(e) ==
    /\ At(e, "ask")
    /\ \E documents \in BOOLEAN :
         LET asked == IF documents THEN HistoryMessages(exec[e].history, MessageOf[e]) ELSE {}
         IN exec' = [exec EXCEPT ![e].step = "insert", ![e].asked = asked,
                                 ![e].prompted = documents]
    /\ UNCHANGED <<clock, conversation>>

\* The SELECT, the knowledge base, the provider or the INSERT throws.
Throw(e) ==
    /\ exec[e].step \in {"load", "ask", "insert", "commit"}
    /\ Goto(e, "ended")
    /\ UNCHANGED <<clock, conversation>>

\* INSERT ... ON CONFLICT DO NOTHING is a transaction of its own: createdAt is its
\* start.
InsertOutbound(e) ==
    /\ At(e, "insert")
    /\ Tick
    /\ exec' = [exec EXCEPT ![e].step = "commit", ![e].at = clock + 1]
    /\ UNCHANGED conversation

Record(e) ==
    reply' = [reply EXCEPT ![MessageOf[e]] = [at |-> exec[e].at, asked |-> exec[e].asked]]

\* Mutant of CommitOutbound: ON CONFLICT DO UPDATE.
CommitOutboundAnyway(e) ==
    /\ At(e, "commit")
    /\ Record(e)
    /\ Goto(e, "ended")
    /\ UNCHANGED <<clock, createdAt, committed, answered>>

\* It commits.  Of two that answer one message the second has waited for the first,
\* and finds its row, which is used instead.  That its answer may be lost makes no
\* difference here.
CommitOutbound(e) ==
    /\ At(e, "commit")
    /\ IF reply[MessageOf[e]] = NoReply THEN Record(e) ELSE UNCHANGED reply
    /\ Goto(e, "ended")
    /\ UNCHANGED <<clock, createdAt, committed, answered>>

Next ==
    \/ \E m \in Messages : Begin(m) \/ Commit(m)
    \/ \E e \in Executions :
         Start(e) \/ LoadHistory(e) \/ AskForReply(e) \/ Throw(e)
           \/ InsertOutbound(e) \/ CommitOutbound(e)

Spec == Init /\ [][Next]_vars

-----------------------------------------------------------------------------

\* An execution may read the reply that a concurrent one has just recorded, and
\* answer the customer's question as if it had been answered: that text is never
\* the one on record, which is sent (process-inbound-message-use-case.ts:257-275).
RecordedReplyIsFirst == \A m \in Messages : Answered(m) \notin reply[m].asked

\* The prompt ends with the question.  What comes before says it again only if
\* something newer was on record when the history was read
\* (openai-provider.ts:139-147).
QuestionRepeatedOnlyIfOvertaken ==
    \A e \in Executions :
        Said(MessageOf[e]) \in exec[e].asked => Newer(Visible, Said(MessageOf[e])) # {}

\* A customer who writes again after an answer is understood in its light: the
\* prompt has every reply that was on record when the message came in, short of those
\* that the rows since have pushed over the limit.  A reply that was not yet committed
\* then may be missing, although its createdAt is earlier.
FollowUpsAreInContext ==
    \A e \in Executions : \A m \in answered[MessageOf[e]] :
        exec[e].prompted
        => \/ Answered(m) \in exec[e].asked
           \/ Cardinality(Newer(Visible, Answered(m))) >= HistoryLimit
           \/ Cardinality(Newer(Visible, Answered(m))) >= MaxHistory
====
