---- MODULE ProcessInbound ----
(* The BullMQ worker (worker.ts) and the use case it runs                      *)
(* (process-inbound-message-use-case.ts).  An execution is one call of the     *)
(* job processor: an async function whose awaits (each SQL statement, the AI   *)
(* provider, the Meta client) are the points where other executions, in this   *)
(* process or another, interleave.  One action per stretch between two awaits  *)
(* that touch shared state.                                                    *)
(*                                                                             *)
(* The job timeout rejects the attempt but cannot stop the promise it races    *)
(* with: the execution goes on, without owning the job.  The same happens      *)
(* when BullMQ believes a live execution stalled.                              *)
EXTENDS MessageStore, JobQueue, Sequences

CONSTANT Faults   \* the faults of the environment this instance is exposed to

FaultKinds ==
    {"timeout",     \* an attempt outlives PROCESS_INBOUND_MESSAGE_JOB_TIMEOUT_MS
     "stall",       \* a live execution fails to renew its lock in time
     "crash",       \* a worker process dies, or shuts down with work in flight
     "finalizer"}   \* an UPDATE of markFinalFailure fails

ASSUME FaultsAssumption == Faults \subseteq FaultKinds

VARIABLES exec,       \* execution -> where it is in execute()
          finalizer,  \* execution -> the markFinalFailure its rejection started
          posts,      \* message -> the replies POSTed to Meta for it, in order
          accepted    \* messages for which Meta accepted a POST

workerVars == <<exec, finalizer, posts, accepted>>

Steps == {"idle", "find_reply", "mark_inbound_sent", "mark_processing",
          "generate", "mark_reply_generated", "mark_sending", "post",
          "response", "mark_sent", "return"}

ExecRecord == [pc : Steps, msg : Messages \cup {NoMessage},
               replied : BOOLEAN, text : Texts \cup {NoText}]

Idle == [pc |-> "idle", msg |-> NoMessage, replied |-> FALSE, text |-> NoText]

FinalizerRecord == [step : {"none", "inbound", "outbound"},
                    msg : Messages \cup {NoMessage}]

NoFinalizer == [step |-> "none", msg |-> NoMessage]

WorkerTypeOK ==
    /\ exec \in [Executions -> ExecRecord]
    /\ finalizer \in [Executions -> FinalizerRecord]
    /\ posts \in [Messages -> Seq(Texts)]
    /\ accepted \subseteq Messages

WorkerInit ==
    /\ exec = [e \in Executions |-> Idle]
    /\ finalizer = [e \in Executions |-> NoFinalizer]
    /\ posts = [m \in Messages |-> <<>>]
    /\ accepted = {}

At(e, step) == exec[e].pc = step

Goto(e, step) == exec' = [exec EXCEPT ![e].pc = step]

-----------------------------------------------------------------------------
(* The processor: execute() from its first read to its return.                *)

\* A worker slot takes a waiting job and calls the processor.
StartAttempt(e, m) ==
    /\ At(e, "idle")
    /\ finalizer[e] = NoFinalizer
    /\ TakeJob(e, m)
    /\ exec' = [exec EXCEPT ![e] =
                  [pc |-> "find_reply", msg |-> m, replied |-> FALSE, text |-> NoText]]
    /\ UNCHANGED <<storeVars, finalizer, posts, accepted>>

\* findInboundMessage, findOutboundReply and the branches on what they return.
\* The columns read of the inbound row never change, so only its existence
\* matters.  The branches that throw (no inbound row; an outbound row "sending" or
\* "failed") are Throw.
FindReply(e) ==
    LET m == exec[e].msg
        next == IF outbound[m].status = "sent" THEN "mark_inbound_sent" ELSE "mark_processing"
    IN /\ At(e, "find_reply")
       /\ inbound[m] # "absent"
       /\ outbound[m].status \notin {"sending", "failed"}
       /\ exec' = [exec EXCEPT ![e].pc = next, ![e].replied = outbound[m].status # "none"]
       /\ UNCHANGED <<storeVars, job, finalizer, posts, accepted>>

MarkInboundSent(e) ==
    /\ At(e, "mark_inbound_sent")
    /\ SetInbound(exec[e].msg, "sent")
    /\ Goto(e, "return")
    /\ UNCHANGED <<outbound, job, finalizer, posts, accepted>>

\* Unconditional on the status the inbound row has by now.
MarkInboundProcessing(e) ==
    /\ At(e, "mark_processing")
    /\ SetInbound(exec[e].msg, "processing")
    /\ Goto(e, IF exec[e].replied THEN "mark_sending" ELSE "generate")
    /\ UNCHANGED <<outbound, job, finalizer, posts, accepted>>

\* History, knowledge base and AI call read nothing the pipeline writes
\* concurrently; their result is any text.  On conflict the row that is there
\* is kept and used: outbound rows are never deleted, so it is always found.
GenerateAndPersistOutbound(e) ==
    /\ At(e, "generate")
    /\ \E t \in Texts : InsertOutbound(exec[e].msg, t)
    /\ Goto(e, "mark_reply_generated")
    /\ UNCHANGED <<inbound, job, finalizer, posts, accepted>>

MarkInboundReplyGenerated(e) ==
    /\ At(e, "mark_reply_generated")
    /\ SetInbound(exec[e].msg, "reply_generated")
    /\ Goto(e, "mark_sending")
    /\ UNCHANGED <<outbound, job, finalizer, posts, accepted>>

\* The claim: of the executions that race here, the UPDATE lets one through
\* and hands it the stored content.  For the others it throws (Throw).
MarkOutboundSending(e) ==
    /\ At(e, "mark_sending")
    /\ ClaimOutbound(exec[e].msg)
    /\ exec' = [exec EXCEPT ![e].pc = "post", ![e].text = outbound[exec[e].msg].text]
    /\ UNCHANGED <<inbound, job, finalizer, posts, accepted>>

\* The request leaves; Meta accepts it or not, and nobody knows yet.
SendTextMessage(e) ==
    LET m == exec[e].msg
    IN /\ At(e, "post")
       /\ posts' = [posts EXCEPT ![m] = Append(@, exec[e].text)]
       /\ accepted' \in {accepted, accepted \cup {m}}
       /\ Goto(e, "response")
       /\ UNCHANGED <<storeVars, job, finalizer>>

\* A 2xx answer.  A refusal, a lost answer and the client's timeout are Throw.
MetaAnswers(e) ==
    /\ At(e, "response")
    /\ exec[e].msg \in accepted
    /\ Goto(e, "mark_sent")
    /\ UNCHANGED <<storeVars, job, finalizer, posts, accepted>>

\* One transaction over both rows.
MarkReplySent(e) ==
    /\ At(e, "mark_sent")
    /\ StampOutbound(exec[e].msg)
    /\ SetInbound(exec[e].msg, "sent")
    /\ Goto(e, "return")
    /\ UNCHANGED <<job, finalizer, posts, accepted>>

\* The promise resolves.  BullMQ completes the job if the execution still owns it.
Return(e) ==
    LET m == exec[e].msg
    IN /\ At(e, "return")
       /\ exec' = [exec EXCEPT ![e] = Idle]
       /\ IF Owns(e, m) THEN RemoveJob(m) ELSE UNCHANGED job
       /\ UNCHANGED <<storeVars, finalizer, posts, accepted>>

-----------------------------------------------------------------------------
(* Rejections, and what the worker's "failed" handler does about them.        *)

\* Mutant of RejectAttempt: the "failed" handler leaves the last attempt alone.
RejectAttemptSilently(e, m) ==
    /\ IF LastAttempt(m) THEN RemoveJob(m) ELSE RetryJob(m)
    /\ UNCHANGED finalizer

\* The attempt of e is rejected: BullMQ schedules the next one or removes the
\* job, and after the last one the handler starts markFinalFailure.
RejectAttempt(e, m) ==
    IF LastAttempt(m)
    THEN /\ RemoveJob(m)
         /\ finalizer' = [finalizer EXCEPT ![e] = [step |-> "inbound", msg |-> m]]
    ELSE /\ RetryJob(m)
         /\ UNCHANGED finalizer

\* Any await may reject: a lost database connection (the statement before it
\* may have committed), an AI or Meta error, a claim that lost, an ambiguous
\* outbound row.  "return" stands for an error reported by a commit that took place.
Throw(e) ==
    /\ ~At(e, "idle")
    /\ exec' = [exec EXCEPT ![e] = Idle]
    /\ IF Owns(e, exec[e].msg)
       THEN RejectAttempt(e, exec[e].msg)
       ELSE UNCHANGED <<job, finalizer>>
    /\ UNCHANGED <<storeVars, posts, accepted>>

\* withJobTimeout: the race is lost, the execution itself goes on.
JobTimeout(e) ==
    /\ "timeout" \in Faults
    /\ ~At(e, "idle")
    /\ Owns(e, exec[e].msg)
    /\ RejectAttempt(e, exec[e].msg)
    /\ UNCHANGED <<storeVars, exec, posts, accepted>>

\* markFinalFailure, first UPDATE: the inbound row, whatever its status.
FinalFailureInbound(e) ==
    /\ finalizer[e].step = "inbound"
    /\ SetInbound(finalizer[e].msg, "failed")
    /\ finalizer' = [finalizer EXCEPT ![e].step = "outbound"]
    /\ UNCHANGED <<outbound, job, exec, posts, accepted>>

\* markFinalFailure, second UPDATE, in no transaction with the first.
FinalFailureOutbound(e) ==
    /\ finalizer[e].step = "outbound"
    /\ FailOutbound(finalizer[e].msg)
    /\ finalizer' = [finalizer EXCEPT ![e] = NoFinalizer]
    /\ UNCHANGED <<inbound, job, exec, posts, accepted>>

\* An UPDATE fails: the handler logs worker_failed_status_update_failed, no more.
FinalFailureLost(e) ==
    /\ "finalizer" \in Faults
    /\ finalizer[e] # NoFinalizer
    /\ finalizer' = [finalizer EXCEPT ![e] = NoFinalizer]
    /\ UNCHANGED <<storeVars, job, exec, posts, accepted>>

-----------------------------------------------------------------------------
(* Lost workers and stalled jobs.                                             *)

\* What runs in the process is gone; the lock of its job is left to expire.
WorkerDies(e) ==
    /\ "crash" \in Faults
    /\ ~At(e, "idle") \/ finalizer[e] # NoFinalizer
    /\ exec' = [exec EXCEPT ![e] = Idle]
    /\ finalizer' = [finalizer EXCEPT ![e] = NoFinalizer]
    /\ LoseOwner(e)
    /\ UNCHANGED <<storeVars, posts, accepted>>

LockExpired(m) ==
    /\ job[m].state = "active"
    /\ job[m].owner = NoExecution \/ "stall" \in Faults

\* The stalled-jobs check puts the job back.
StallCheck(m) ==
    /\ LockExpired(m)
    /\ RequeueStalled(m)
    /\ UNCHANGED <<storeVars, workerVars>>

\* Or gives it up after MaxStalls.  The "failed" event that follows reaches
\* markFinalFailure only if it carries the job and the job's attempts are used up.
GiveUpStalled(m) ==
    /\ LockExpired(m)
    /\ job[m].stalls = MaxStalls
    /\ RemoveJob(m)
    /\ \/ UNCHANGED finalizer
       \/ /\ LastAttempt(m)
          /\ \E e \in Executions :
                /\ At(e, "idle")
                /\ finalizer[e] = NoFinalizer
                /\ finalizer' = [finalizer EXCEPT ![e] = [step |-> "inbound", msg |-> m]]
    /\ UNCHANGED <<storeVars, exec, posts, accepted>>

-----------------------------------------------------------------------------

\* What an execution does as long as it is alive.
Execute(e) ==
    \/ FindReply(e)
    \/ MarkInboundSent(e)
    \/ MarkInboundProcessing(e)
    \/ GenerateAndPersistOutbound(e)
    \/ MarkInboundReplyGenerated(e)
    \/ MarkOutboundSending(e)
    \/ SendTextMessage(e)
    \/ MetaAnswers(e)
    \/ MarkReplySent(e)
    \/ Return(e)
    \/ Throw(e)

FinalFailure(e) == FinalFailureInbound(e) \/ FinalFailureOutbound(e)

WorkerNext ==
    \/ \E e \in Executions, m \in Messages : StartAttempt(e, m)
    \/ \E e \in Executions : Execute(e) \/ JobTimeout(e)
    \/ \E e \in Executions : FinalFailure(e) \/ FinalFailureLost(e) \/ WorkerDies(e)
    \/ \E m \in Messages : StallCheck(m) \/ GiveUpStalled(m)

====
