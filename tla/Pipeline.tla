---- MODULE Pipeline ----
(* The reply pipeline: webhook requests and recovery commands that enqueue,    *)
(* the queue, the worker, and the rows of Postgres they share.  Every step of  *)
(* every process interleaves with every other.                                 *)
EXTENDS ProcessInbound, EnqueueMessages

vars == <<inbound, outbound, job, exec, finalizer, posts, accepted, producer>>

Init == StoreInit /\ QueueInit /\ WorkerInit /\ ProducerInit

WorkerStep == WorkerNext /\ UNCHANGED producer

ProducerStep == ProducerNext /\ UNCHANGED workerVars

Next == WorkerStep \/ ProducerStep

Spec == Init /\ [][Next]_vars

(* Fairness.  Node.js runs every pending continuation and BullMQ fetches       *)
(* waiting jobs and checks for stalled ones periodically, so each live         *)
(* execution, final failure and waiting job makes progress; a producer under   *)
(* way finishes its loop.                                                      *)
WorkerFairness ==
    /\ \A e \in Executions : WF_vars(Execute(e) /\ UNCHANGED producer)
    /\ \A e \in Executions : WF_vars(FinalFailure(e) /\ UNCHANGED producer)
    /\ \A m \in Messages :
         /\ WF_vars((\E e \in Executions : StartAttempt(e, m)) /\ UNCHANGED producer)
         /\ WF_vars((StallCheck(m) \/ GiveUpStalled(m)) /\ UNCHANGED producer)

ProducerFairness ==
    \A p \in Producers :
        WF_vars(/\ \/ \E m \in Messages :
                        \/ p \in WebhookHandlers /\ (Receive(p, m) \/ ReceiveFails(p, m))
                        \/ p \in RecoveryRuns /\ TakeScanned(p, m)
                   \/ EnqueueOne(p)
                /\ UNCHANGED workerVars)

FairSpec == Spec /\ WorkerFairness /\ ProducerFairness

(* An operator who keeps running the recovery command, which does not die for  *)
(* ever before a message's turn, against a queue that does not refuse the same *)
(* message for ever.                                                           *)
OperatorFairness ==
    \A r \in RecoveryRuns :
        /\ WF_vars(Scan(r) /\ UNCHANGED workerVars)
        /\ \A m \in Messages :
             /\ SF_vars(TakeScanned(r, m) /\ UNCHANGED workerVars)
             /\ SF_vars(producer[r].msg = m /\ Enqueue(r) /\ UNCHANGED workerVars)

OperatedSpec == FairSpec /\ OperatorFairness

TypeOK == StoreTypeOK /\ QueueTypeOK /\ WorkerTypeOK /\ ProducerTypeOK

-----------------------------------------------------------------------------
(* Safety.                                                                    *)

\* No retry, overlapping execution, redelivery or recovery makes the worker
\* POST a second reply for a message, and the reply on record is the one the
\* customer got, although executions that overlap may each have generated one of
\* their own (process-inbound-message-use-case.ts:84, :246-271).
OneReplySent ==
    \A m \in Messages : posts[m] \in {<<>>, <<outbound[m].text>>}

\* "sent" is never claimed of a message Meta did not accept, on either row, and
\* the inbound row never claims it before the outbound row does (:370-402).
SentMeansAccepted ==
    \A m \in Messages :
        /\ outbound[m].status = "sent" => m \in accepted
        /\ inbound[m] = "sent" => outbound[m].status = "sent"

\* Once a reply may have reached Meta its row never becomes sendable again, a
\* recorded success is not undone, not even by markFinalFailure, and the text
\* never changes.
ReplyNeverReopens ==
    [][\A m \in Messages :
         /\ outbound[m].status \in {"sending", "failed", "sent"}
              => outbound'[m].status \notin {"none", "reply_generated"}
         /\ outbound[m].status = "sent" => outbound'[m].status = "sent"
         /\ outbound[m].text # NoText => outbound'[m].text = outbound[m].text]_vars

Contract == INSTANCE ReplyOnce WITH
    reply     <- [m \in Messages |-> outbound[m].text],
    sent      <- posts,
    delivered <- accepted,
    confirmed <- {m \in Messages : outbound[m].stamped}

\* The pipeline implements the promise of ReplyOnce.
KeepsContract == Contract!Spec

\* A message the worker has begun and not ended is still some process's
\* business: it has a job, or its final failure is being written.  Otherwise
\* nobody would pick it up again: neither producer touches these statuses.
Unfinished(m) == inbound[m] \in {"processing", "reply_generated"}

Attended(m) ==
    \/ HasJob(m)
    \/ \E e \in Executions : finalizer[e].step = "inbound" /\ finalizer[e].msg = m

UnfinishedIsAttended == \A m \in Messages : Unfinished(m) => Attended(m)

-----------------------------------------------------------------------------
(* The inductive invariant behind OneReplySent, SentMeansAccepted and          *)
(* KeepsContract: the status of the outbound row tells which executions may    *)
(* exist.                                                                      *)

\* A process that is at work works on a message.
AtWork ==
    /\ \A e \in Executions :
         /\ exec[e].pc # "idle" => exec[e].msg \in Messages
         /\ finalizer[e].step # "none" => finalizer[e].msg \in Messages
    /\ \A p \in Producers :
         producer[p].pc \in {"enqueue", "mark_queued"} => producer[p].msg \in Messages

\* The row exists with its text; only markReplySent stamps sentAt.
RowShape ==
    \A m \in Messages :
        /\ outbound[m].status = "none" <=> outbound[m].text = NoText
        /\ outbound[m].status = "sent" <=> outbound[m].stamped

\* Between claiming the reply and recording what became of it.
InFlight(e) == exec[e].pc \in {"post", "response", "mark_sent"}

\* A row that can still be claimed was never posted: the claim is what closes it.
ClaimableIsUnsent ==
    \A m \in Messages :
        outbound[m].status \in {"none", "reply_generated"} => posts[m] = <<>>

\* Whoever is in flight holds a claimed row (at worst failed by a final failure
\* meanwhile), its text, and the record of what it has posted.
ClaimHeld ==
    \A e \in Executions :
        InFlight(e) =>
            LET m == exec[e].msg
            IN /\ outbound[m].status \in {"sending", "failed"}
               /\ outbound[m].text = exec[e].text
               /\ posts[m] = IF exec[e].pc = "post" THEN <<>> ELSE <<exec[e].text>>
               /\ exec[e].pc = "mark_sent" => m \in accepted

\* Of all the executions of a message, one at most is in flight.
SingleSender ==
    \A e, f \in Executions :
        InFlight(e) /\ InFlight(f) /\ exec[e].msg = exec[f].msg => e = f

\* The shortcut for a reply already sent rests on a row that says so.
ShortcutIsSound ==
    \A e \in Executions :
        exec[e].pc = "mark_inbound_sent" => outbound[exec[e].msg].status = "sent"

IInv ==
    /\ TypeOK /\ AtWork /\ RowShape
    /\ ClaimableIsUnsent /\ ClaimHeld /\ SingleSender
    /\ ShortcutIsSound /\ OneReplySent /\ SentMeansAccepted

-----------------------------------------------------------------------------
(* Liveness.                                                                  *)

\* What the worker begins it ends: sent, or failed and so recoverable.
StartedEnds ==
    \A m \in Messages : Unfinished(m) ~> inbound[m] \in {"sent", "failed"}

\* A job does not stay in Redis: it completes, fails or is given up.
JobSettles == \A m \in Messages : HasJob(m) ~> ~HasJob(m)

\* README.md:273: the command is to "recover messages that were persisted but
\* not successfully processed": whichever they are, each gets its turn.
ReceivedIsTaken == \A m \in Messages : inbound[m] = "received" ~> inbound[m] # "received"

\* No process or job works on the message.
AtRest(m) ==
    /\ ~HasJob(m)
    /\ \A e \in Executions : exec[e].msg # m /\ finalizer[e].msg # m
    /\ \A p \in Producers : producer[p].msg # m

\* What a markQueued that comes after the final failure leaves behind: nobody
\* works on the message, and its status has nobody look at it again.
Stranded(m) == inbound[m] = "queued" /\ AtRest(m)

\* With an operator who keeps running the recovery command and a limit that no
\* other messages exhaust: whatever became of its webhook request and of its job, a
\* message that was persisted comes to read sent or failed, unless it is stranded
\* (webhook-routes.ts:136-168, re-enqueue-recoverable-messages-use-case.ts:38-72).
\* It may fail again and again, as one with a closed reply does.
RecoveryEnds ==
    OperatorFairness =>
        \A m \in Messages :
            inbound[m] # "absent" ~> inbound[m] \in {"sent", "failed"} \/ Stranded(m)

-----------------------------------------------------------------------------
(* What the documents say and the code does not do.                           *)

\* README.md:273: the recovery command is to "recover messages that were
\* persisted but not successfully processed".  It selects "received" and
\* "failed": no other unfinished message may be left without a process or a job
\* that works on it, be it queued by a late markQueued, or processing because its
\* final failure was never written.
UnprocessedIsRecoverable ==
    \A m \in Messages : AtRest(m) => inbound[m] \in {"absent", "sent"} \/ Recoverable(m)

\* docs/architecture.md:188-190: a message whose reply went out reads "sent",
\* not "processing" or "reply_generated", once nobody works on it.
AnsweredReadsSent ==
    \A m \in Messages :
        AtRest(m) /\ outbound[m].status = "sent" => ~Unfinished(m)

\* docs/architecture.md:166: "If a reply exists but has not been sent, the
\* worker reuses that reply": a reply is closed only if it may have gone out.
ClosedMayHaveGoneOut ==
    \A m \in Messages : outbound[m].status = "failed" => posts[m] # <<>>
====
