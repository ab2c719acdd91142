---- MODULE MessageStore ----
(* The rows of the Postgres table "messages" that the reply pipeline shares:  *)
(* the inbound row of each customer message and the outbound row that         *)
(* answers it.  One operator per UPDATE or INSERT statement of the source;    *)
(* each statement is atomic, as one autocommitted SQL statement is.  The      *)
(* unique index on (tenantId, replyToMessageId) leaves at most one outbound   *)
(* row per inbound message, so a message identifies its outbound row.         *)
EXTENDS MessageIds

CONSTANTS Texts,      \* replies the AI provider may generate
          NoText      \* the content of an outbound row that does not exist

ASSUME NoTextAssumption == NoText \notin Texts

VARIABLES inbound,    \* message -> processingStatus of its inbound row
          outbound    \* message -> its outbound row

storeVars == <<inbound, outbound>>

\* "absent": the row is not there.
InboundStatus ==
    {"absent", "received", "queued", "processing", "reply_generated", "sent", "failed"}

OutboundStatus == {"none", "reply_generated", "sending", "sent", "failed"}

\* stamped: the column sentAt is not null.
OutboundRow == [status : OutboundStatus, text : Texts \cup {NoText}, stamped : BOOLEAN]

NoRow == [status |-> "none", text |-> NoText, stamped |-> FALSE]

StoreTypeOK ==
    /\ inbound \in [Messages -> InboundStatus]
    /\ outbound \in [Messages -> OutboundRow]

StoreInit ==
    /\ inbound = [m \in Messages |-> "absent"]
    /\ outbound = [m \in Messages |-> NoRow]

\* Mutant of Recoverable: a message never enqueued is not looked for.
RecoverableFailedOnly(m) == inbound[m] = "failed"

\* The statuses in which a producer considers a message not yet handled.
Recoverable(m) == inbound[m] \in {"received", "failed"}

SetInbound(m, status) == inbound' = [inbound EXCEPT ![m] = status]

\* INSERT ... ON CONFLICT (tenantId, replyToMessageId) DO NOTHING.
InsertOutbound(m, t) ==
    outbound' = IF outbound[m].status = "none"
                THEN [outbound EXCEPT ![m] =
                        [status |-> "reply_generated", text |-> t, stamped |-> FALSE]]
                ELSE outbound

\* Mutant of ClaimOutbound: the WHERE clause without the status.
ClaimOutboundUnguarded(m) == outbound' = [outbound EXCEPT ![m].status = "sending"]

\* UPDATE ... SET "sending" WHERE processingStatus = "reply_generated" RETURNING *.
ClaimOutbound(m) ==
    /\ outbound[m].status = "reply_generated"
    /\ outbound' = [outbound EXCEPT ![m].status = "sending"]

\* First UPDATE of markReplySent's transaction, by outbound id whatever its status.
StampOutbound(m) ==
    outbound' = [outbound EXCEPT ![m].status = "sent", ![m].stamped = TRUE]

\* Mutant of FailOutbound: the WHERE clause without "sentAt IS NULL".
FailOutboundStamped(m) ==
    outbound' = IF outbound[m].status = "none" THEN outbound
                ELSE [outbound EXCEPT ![m].status = "failed"]

\* UPDATE ... SET "failed" WHERE replyToMessageId = m AND sentAt IS NULL.
FailOutbound(m) ==
    outbound' = IF outbound[m].status = "none" \/ outbound[m].stamped
                THEN outbound
                ELSE [outbound EXCEPT ![m].status = "failed"]
====
