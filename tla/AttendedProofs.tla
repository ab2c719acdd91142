---- MODULE AttendedProofs ----
(* For any messages, executions and producers, as long as nothing times out,   *)
(* stalls, dies or fails to record a final failure: a message the worker has   *)
(* begun and not ended is somebody's business.  Whoever lives has its job to   *)
(* itself, so the only ways out of an unfinished status are the execution's    *)
(* own, and each of them leaves an end, a retry or a final failure behind.     *)
EXTENDS PipelineProofs

\* A live execution has its job to itself, and no final failure beside it.
Owned ==
    \A e \in Executions :
        exec[e].pc # "idle" => Owns(e, exec[e].msg) /\ finalizer[e].step = "none"

\* A job that is being worked on has a worker; it cannot stall.
ActiveIsOwned == \A m \in Messages : job[m].state = "active" => job[m].owner # NoExecution

\* What an execution is about to report as done is done.
ReturnsEnded == \A e \in Executions : exec[e].pc = "return" => ~Unfinished(exec[e].msg)

Attentive == Owned /\ ActiveIsOwned /\ ReturnsEnded /\ UnfinishedIsAttended

\* Nothing is owned and nothing begun in the initial state.
LEMMA InitAttentive == Init => Attentive
  BY DEF Init, StoreInit, QueueInit, WorkerInit, Attentive, Owned, ActiveIsOwned,
         ReturnsEnded, UnfinishedIsAttended, Unfinished, NoJob, Idle

\* A job has one owner: two live executions have two messages.
LEMMA OwnersDiffer ==
    ASSUME Owned, NEW e \in Executions, NEW f \in Executions,
           exec[e].pc # "idle", exec[f].pc # "idle", exec[e].msg = exec[f].msg
    PROVE  e = f
  BY DEF Owned, Owns

-----------------------------------------------------------------------------
(* The steps of a live execution.                                             *)

\* An execution goes on with its message; only its own inbound row may change,
\* and before it returns it has ended it.
GoesOn(e) ==
    /\ exec[e].pc # "idle"
    /\ exec'[e].pc # "idle" /\ exec'[e].msg = exec[e].msg
    /\ \A f \in Executions \ {e} : exec'[f] = exec[f]
    /\ \A m \in Messages \ {exec[e].msg} : inbound'[m] = inbound[m]
    /\ exec'[e].pc = "return" => inbound'[exec[e].msg] = "sent"
    /\ UNCHANGED <<job, finalizer>>

\* Every await of execute() but the one that ends it is a step of that kind.
LEMMA AwaitsGoOn ==
    ASSUME Typed, NEW e \in Executions,
           \/ FindReply(e) \/ MarkInboundSent(e) \/ MarkInboundProcessing(e)
           \/ GenerateAndPersistOutbound(e) \/ MarkInboundReplyGenerated(e)
           \/ MarkOutboundSending(e) \/ SendTextMessage(e) \/ MetaAnswers(e)
           \/ MarkReplySent(e)
    PROVE  GoesOn(e)
  <1> exec \in [Executions -> ExecRecord] /\ (exec[e].pc # "idle" => exec[e].msg \in Messages)
    BY DEF Typed, ExecTyped
  <1> inbound \in [Messages -> InboundStatus]
    BY DEF Typed, StoreTypeOK
  <1> exec[e] \in ExecRecord
    OBVIOUS
  <1> USE DEF GoesOn, At, Goto, SetInbound, storeVars, ExecRecord
  <1>1. CASE FindReply(e) BY <1>1 DEF FindReply
  <1>2. CASE MarkInboundSent(e) BY <1>2 DEF MarkInboundSent
  <1>3. CASE MarkInboundProcessing(e) BY <1>3 DEF MarkInboundProcessing
  <1>4. CASE GenerateAndPersistOutbound(e) BY <1>4 DEF GenerateAndPersistOutbound
  <1>5. CASE MarkInboundReplyGenerated(e) BY <1>5 DEF MarkInboundReplyGenerated
  <1>6. CASE MarkOutboundSending(e) BY <1>6 DEF MarkOutboundSending
  <1>7. CASE SendTextMessage(e) BY <1>7 DEF SendTextMessage
  <1>8. CASE MetaAnswers(e) BY <1>8 DEF MetaAnswers
  <1>9. CASE MarkReplySent(e) BY <1>9 DEF MarkReplySent
  <1> QED BY <1>1, <1>2, <1>3, <1>4, <1>5, <1>6, <1>7, <1>8, <1>9

\* While it goes on its job attends its message; the others have other messages.
LEMMA GoesOnAttentive ==
    ASSUME Typed, Attentive, NEW e \in Executions, GoesOn(e)
    PROVE  Attentive'
  <1> USE DEF GoesOn, Attentive
  <1>1. Owned'
    BY DEF Owned, Owns
  <1>2. ActiveIsOwned'
    BY DEF ActiveIsOwned
  <1>3. ReturnsEnded'
    <2> SUFFICES ASSUME NEW f \in Executions, exec'[f].pc = "return"
                 PROVE  ~Unfinished(exec[f].msg)' /\ exec'[f].msg = exec[f].msg
      BY DEF ReturnsEnded, Unfinished
    <2>1. CASE f = e
      BY <2>1 DEF Unfinished
    <2>2. CASE f # e
      <3>1. exec'[f] = exec[f] /\ exec[f].pc = "return"
        BY <2>2
      <3>2. exec[f].msg \in Messages \ {exec[e].msg}
        BY <2>2, <3>1, OwnersDiffer DEF Typed, ExecTyped
      <3> QED BY <3>1, <3>2 DEF ReturnsEnded, Unfinished
    <2> QED BY <2>1, <2>2
  <1>4. UnfinishedIsAttended'
    <2> SUFFICES ASSUME NEW m \in Messages, Unfinished(m)'
                 PROVE  Attended(m)'
      BY DEF UnfinishedIsAttended
    <2>1. CASE m = exec[e].msg
      BY <2>1 DEF Owned, Owns, Attended, HasJob
    <2>2. CASE m # exec[e].msg
      BY <2>2 DEF UnfinishedIsAttended, Unfinished, Attended, HasJob
    <2> QED BY <2>1, <2>2
  <1> QED BY <1>1, <1>2, <1>3, <1>4

\* A resolved promise ends a message that needs no attention any more.
LEMMA ReturnAttentive ==
    ASSUME Typed, Attentive, NEW e \in Executions, Return(e)
    PROVE  Attentive'
  <1> DEFINE m == exec[e].msg
  <1>1. /\ exec[e].pc = "return" /\ m \in Messages /\ Owns(e, m) /\ ~Unfinished(m)
        /\ exec' = [exec EXCEPT ![e] = Idle] /\ job' = [job EXCEPT ![m] = NoJob]
        /\ UNCHANGED <<inbound, finalizer>>
    BY DEF Return, At, RemoveJob, Attentive, Owned, ReturnsEnded, Typed, ExecTyped, storeVars
  <1>2. exec'[e].pc = "idle" /\ job'[m] = NoJob
        /\ (\A f \in Executions \ {e} : exec'[f] = exec[f])
        /\ (\A n \in Messages \ {m} : job'[n] = job[n])
    BY <1>1 DEF Typed, ExecTyped, QueueTypeOK, Idle
  <1>3. \A f \in Executions \ {e} : exec[f].pc # "idle" => exec[f].msg \in Messages \ {m}
    BY <1>1, OwnersDiffer DEF Attentive, Typed, ExecTyped
  <1>4. Owned'
    BY <1>1, <1>2, <1>3 DEF Attentive, Owned, Owns
  <1>5. ActiveIsOwned'
    BY <1>2 DEF Attentive, ActiveIsOwned, NoJob
  <1>6. ReturnsEnded'
    BY <1>1, <1>2 DEF Attentive, ReturnsEnded, Unfinished
  <1>7. UnfinishedIsAttended'
    BY <1>1, <1>2 DEF Attentive, UnfinishedIsAttended, Unfinished, Attended, HasJob
  <1> QED BY <1>4, <1>5, <1>6, <1>7 DEF Attentive

\* A rejected attempt leaves a waiting job or a final failure behind.
LEMMA ThrowAttentive ==
    ASSUME Typed, Attentive, NEW e \in Executions, Throw(e)
    PROVE  Attentive'
  <1>0. PICK m \in Messages : m = exec[e].msg
    BY DEF Throw, At, Typed, ExecTyped
  <1>1. /\ exec[e].pc # "idle" /\ m = exec[e].msg /\ Owns(e, m) /\ finalizer[e].step = "none"
        /\ exec' = [exec EXCEPT ![e] = Idle] /\ RejectAttempt(e, m) /\ UNCHANGED inbound
    BY <1>0 DEF Throw, At, Attentive, Owned, storeVars
  <1>2. exec'[e].pc = "idle" /\ \A f \in Executions \ {e} : exec'[f] = exec[f]
    BY <1>1 DEF Typed, ExecTyped, Idle
  <1>3. /\ job'[m].state # "active"
        /\ \A n \in Messages \ {m} : job'[n] = job[n]
        /\ \A f \in Executions \ {e} : finalizer'[f] = finalizer[f]
        /\ Attended(m)'
    <2> USE <1>1 DEF Typed, QueueTypeOK, FinalizerTyped
    <2>1. CASE LastAttempt(m)
      BY <2>1 DEF RejectAttempt, RemoveJob, NoJob, Attended, FinalizerRecord
    <2>2. CASE ~LastAttempt(m)
      <3> job[m] \in JobRecord
        OBVIOUS
      <3> QED BY <2>2 DEF RejectAttempt, RetryJob, Attended, HasJob, JobRecord
    <2> QED BY <2>1, <2>2
  <1>4. \A f \in Executions \ {e} : exec[f].pc # "idle" => exec[f].msg \in Messages \ {m}
    BY <1>1, OwnersDiffer DEF Attentive, Typed, ExecTyped
  <1>5. Owned'
    BY <1>2, <1>3, <1>4 DEF Attentive, Owned, Owns
  <1>6. ActiveIsOwned'
    BY <1>3 DEF Attentive, ActiveIsOwned
  <1>7. ReturnsEnded'
    BY <1>1, <1>2 DEF Attentive, ReturnsEnded, Unfinished
  <1>8. UnfinishedIsAttended'
    <2> SUFFICES ASSUME NEW n \in Messages, Unfinished(n)'
                 PROVE  Attended(n)'
      BY DEF UnfinishedIsAttended
    <2>1. CASE n = m
      BY <2>1, <1>3
    <2>2. CASE n # m
      <3>1. Attended(n)
        BY <1>1 DEF Attentive, UnfinishedIsAttended, Unfinished
      <3> QED BY <3>1, <2>2, <1>1, <1>3 DEF Attended, HasJob
    <2> QED BY <2>1, <2>2
  <1> QED BY <1>5, <1>6, <1>7, <1>8 DEF Attentive

-----------------------------------------------------------------------------
(* The other steps of the worker.                                             *)

\* Whoever takes a job takes one nobody owns.
LEMMA StartAttentive ==
    ASSUME Typed, Attentive, NEW e \in Executions, NEW m \in Messages, StartAttempt(e, m)
    PROVE  Attentive'
  <1>1. /\ exec[e].pc = "idle" /\ finalizer[e].step = "none" /\ job[m].state = "waiting"
        /\ UNCHANGED <<inbound, finalizer>>
    BY DEF StartAttempt, At, NoFinalizer, TakeJob, storeVars
  <1>2. /\ exec'[e].pc = "find_reply" /\ exec'[e].msg = m
        /\ \A f \in Executions \ {e} : exec'[f] = exec[f]
    BY DEF StartAttempt, Typed, ExecTyped
  <1>3. /\ job'[m].state = "active" /\ job'[m].owner = e
        /\ \A n \in Messages \ {m} : job'[n] = job[n]
    <2> job \in [Messages -> JobRecord]
      BY DEF Typed, QueueTypeOK
    <2> job[m] \in JobRecord
      OBVIOUS
    <2> QED BY DEF StartAttempt, TakeJob, JobRecord
  <1>4. \A f \in Executions \ {e} : exec[f].pc # "idle" => exec[f].msg \in Messages \ {m}
    BY <1>1 DEF Attentive, Owned, Owns, Typed, ExecTyped
  <1>5. Owned'
    BY <1>1, <1>2, <1>3, <1>4 DEF Attentive, Owned, Owns
  <1>6. ActiveIsOwned'
    BY <1>3, JobQueueAssumption DEF Attentive, ActiveIsOwned
  <1>7. ReturnsEnded'
    BY <1>1, <1>2 DEF Attentive, ReturnsEnded, Unfinished
  <1>8. UnfinishedIsAttended'
    BY <1>1, <1>3 DEF Attentive, UnfinishedIsAttended, Unfinished, Attended, HasJob
  <1> QED BY <1>5, <1>6, <1>7, <1>8 DEF Attentive

\* A final failure ends the message, and only then turns to its reply.
LEMMA FinalFailureAttentive ==
    ASSUME Typed, Attentive, NEW e \in Executions, FinalFailure(e)
    PROVE  Attentive'
  <1> USE DEF Attentive
  <1>1. /\ finalizer \in [Executions -> FinalizerRecord] /\ finalizer[e] \in FinalizerRecord
        /\ inbound \in [Messages -> InboundStatus]
        /\ (finalizer[e].step # "none" => finalizer[e].msg \in Messages)
    BY DEF Typed, FinalizerTyped, StoreTypeOK
  <1>2. UNCHANGED <<job, exec>>
    BY DEF FinalFailure, FinalFailureInbound, FinalFailureOutbound
  <1>3. exec[e].pc = "idle" /\ \A f \in Executions \ {e} : finalizer'[f] = finalizer[f]
    BY <1>1 DEF FinalFailure, FinalFailureInbound, FinalFailureOutbound, Owned
  <1>4. \A m \in Messages : Unfinished(m)' =>
          /\ Unfinished(m)
          /\ finalizer[e].step = "inbound" => finalizer[e].msg # m
    BY <1>1 DEF FinalFailure, FinalFailureInbound, FinalFailureOutbound, SetInbound, Unfinished
  <1>5. Owned'
    BY <1>2, <1>3 DEF Owned, Owns
  <1>6. ActiveIsOwned'
    BY <1>2 DEF ActiveIsOwned
  <1>7. ReturnsEnded'
    <2> SUFFICES ASSUME NEW f \in Executions, exec[f].pc = "return"
                 PROVE  ~Unfinished(exec[f].msg)'
      BY <1>2 DEF ReturnsEnded, Unfinished
    <2>1. PICK m \in Messages : m = exec[f].msg
      BY DEF Typed, ExecTyped
    <2>2. ~Unfinished(m)'
      BY <1>4, <2>1 DEF ReturnsEnded
    <2> QED BY <1>2, <2>1, <2>2 DEF Unfinished
  <1>8. UnfinishedIsAttended'
    <2> SUFFICES ASSUME NEW m \in Messages, Unfinished(m)'
                 PROVE  Attended(m)'
      BY DEF UnfinishedIsAttended
    <2>1. Attended(m) /\ (finalizer[e].step = "inbound" => finalizer[e].msg # m)
      BY <1>4 DEF UnfinishedIsAttended
    <2> QED BY <1>2, <1>3, <2>1 DEF Attended, HasJob
  <1> QED BY <1>5, <1>6, <1>7, <1>8

\* Without faults, and with a worker for each active job, there is nothing else.
LEMMA WorkerAttentive ==
    ASSUME Faults = {}, Typed, Attentive, WorkerStep
    PROVE  Attentive'
  <1>1. ASSUME NEW e \in Executions, NEW m \in Messages, StartAttempt(e, m)
        PROVE  Attentive'
    BY <1>1, StartAttentive
  <1>2. ASSUME NEW e \in Executions, Execute(e) \/ JobTimeout(e)
        PROVE  Attentive'
    <2>1. CASE Return(e) BY <2>1, ReturnAttentive
    <2>2. CASE Throw(e) BY <2>2, ThrowAttentive
    <2>3. ~JobTimeout(e)
      BY DEF JobTimeout
    <2>4. CASE Execute(e) /\ ~Return(e) /\ ~Throw(e)
      <3>1. GoesOn(e)
        BY <2>4, AwaitsGoOn DEF Execute
      <3> QED BY <3>1, GoesOnAttentive
    <2> QED BY <1>2, <2>1, <2>2, <2>3, <2>4
  <1>3. ASSUME NEW e \in Executions, FinalFailure(e) \/ FinalFailureLost(e) \/ WorkerDies(e)
        PROVE  Attentive'
    BY <1>3, FinalFailureAttentive DEF FinalFailureLost, WorkerDies
  <1>4. ASSUME NEW m \in Messages, StallCheck(m) \/ GiveUpStalled(m)
        PROVE  FALSE
    BY <1>4 DEF StallCheck, GiveUpStalled, LockExpired, Attentive, ActiveIsOwned
  <1> QED BY <1>1, <1>2, <1>3, <1>4 DEF WorkerStep, WorkerNext

-----------------------------------------------------------------------------
(* The producers, which touch neither an unfinished row nor a job there is.    *)

\* A row changes to received or queued, a job only from none to waiting.
LEMMA ProducerLeavesAlone ==
    ASSUME Typed, ProducerStep
    PROVE  /\ \A m \in Messages : Unfinished(m)' => Unfinished(m)
           /\ \A m \in Messages : job'[m] = job[m] \/ (~HasJob(m) /\ job'[m].state = "waiting")
           /\ UNCHANGED <<exec, finalizer>>
  <1> inbound \in [Messages -> InboundStatus] /\ job \in [Messages -> JobRecord]
    BY DEF Typed, StoreTypeOK, QueueTypeOK
  <1>1. ASSUME NEW n \in Messages, \/ UNCHANGED inbound
                                   \/ SetInbound(n, "received") \/ SetInbound(n, "queued")
        PROVE  \A m \in Messages : Unfinished(m)' => Unfinished(m)
    BY <1>1 DEF SetInbound, Unfinished
  <1>2. UNCHANGED inbound => \A m \in Messages : Unfinished(m)' => Unfinished(m)
    BY DEF Unfinished
  <1>3. ASSUME NEW n, AddJob(n) \/ UNCHANGED job
        PROVE  \A m \in Messages : job'[m] = job[m] \/ (~HasJob(m) /\ job'[m].state = "waiting")
    BY <1>3 DEF AddJob, HasJob, NoJob
  <1>4. UNCHANGED job
        => \A m \in Messages : job'[m] = job[m] \/ (~HasJob(m) /\ job'[m].state = "waiting")
    OBVIOUS
  <1>5. UNCHANGED <<exec, finalizer>>
    BY DEF ProducerStep, workerVars
  <1>6. ASSUME NEW w \in WebhookHandlers, Deliver(w) PROVE UNCHANGED <<inbound, job>>
    BY <1>6 DEF Deliver, storeVars
  <1>7. ASSUME NEW w \in WebhookHandlers, NEW m \in Messages, Receive(w, m) \/ ReceiveFails(w, m)
        PROVE  (UNCHANGED inbound \/ SetInbound(m, "received")) /\ UNCHANGED job
    BY <1>7 DEF Receive, ReceiveFails
  <1>8. ASSUME NEW r \in RecoveryRuns, Scan(r) \/ \E m \in Messages : TakeScanned(r, m)
        PROVE  UNCHANGED <<inbound, job>>
    BY <1>8 DEF Scan, TakeScanned, storeVars
  <1>9. ASSUME NEW p \in Producers, Enqueue(p) \/ EnqueueFails(p)
        PROVE  UNCHANGED inbound /\ (AddJob(producer[p].msg) \/ UNCHANGED job)
    BY <1>9 DEF Enqueue, EnqueueFails, storeVars
  <1>10. ASSUME NEW p \in Producers, MarkQueued(p) \/ MarkQueuedFails(p) \/ ProducerDies(p)
         PROVE  /\ UNCHANGED job
                /\ \/ UNCHANGED inbound
                   \/ \E m \in Messages : SetInbound(m, "queued")
    <2>1. CASE MarkQueued(p)
      <3>1. producer[p].msg \in Messages
        BY <2>1 DEF MarkQueued, Typed, ProducerTyped
      <3> QED BY <2>1, <3>1 DEF MarkQueued
    <2> QED BY <1>10, <2>1 DEF MarkQueuedFails, ProducerDies, storeVars
  <1>11. CASE \E w \in WebhookHandlers : Deliver(w)
    BY <1>11, <1>2, <1>4, <1>5, <1>6
  <1>12. CASE \E w \in WebhookHandlers, m \in Messages : Receive(w, m) \/ ReceiveFails(w, m)
    BY <1>12, <1>1, <1>4, <1>5, <1>7
  <1>13. CASE \E r \in RecoveryRuns : Scan(r) \/ \E m \in Messages : TakeScanned(r, m)
    BY <1>13, <1>2, <1>4, <1>5, <1>8
  <1>14. CASE \E p \in Producers : Enqueue(p) \/ EnqueueFails(p)
    BY <1>14, <1>2, <1>3, <1>5, <1>9
  <1>15. CASE \E p \in Producers : MarkQueued(p) \/ MarkQueuedFails(p) \/ ProducerDies(p)
    BY <1>15, <1>1, <1>2, <1>4, <1>5, <1>10
  <1> QED
    BY <1>11, <1>12, <1>13, <1>14, <1>15 DEF ProducerStep, ProducerNext, EnqueueOne

\* So nothing that is attended loses its attention to them.
LEMMA ProducerAttentive ==
    ASSUME Typed, Attentive,
           \A m \in Messages : Unfinished(m)' => Unfinished(m),
           \A m \in Messages : job'[m] = job[m] \/ (~HasJob(m) /\ job'[m].state = "waiting"),
           UNCHANGED <<exec, finalizer>>
    PROVE  Attentive'
  <1> USE DEF Attentive
  <1>1. Owned'
    BY DEF Owned, Owns, HasJob, Typed, ExecTyped
  <1>2. ActiveIsOwned'
    BY DEF ActiveIsOwned
  <1>3. ReturnsEnded'
    <2> SUFFICES ASSUME NEW e \in Executions, exec[e].pc = "return"
                 PROVE  ~Unfinished(exec[e].msg)'
      BY DEF ReturnsEnded, Unfinished
    <2>1. PICK m \in Messages : m = exec[e].msg
      BY DEF Typed, ExecTyped
    <2>2. ~Unfinished(m)'
      BY <2>1 DEF ReturnsEnded
    <2> QED BY <2>1, <2>2 DEF Unfinished
  <1>4. UnfinishedIsAttended'
    BY DEF UnfinishedIsAttended, Attended, HasJob
  <1> QED BY <1>1, <1>2, <1>3, <1>4

-----------------------------------------------------------------------------

\* As long as the environment shows none of the four faults, a message the worker
\* has begun and not ended has a job, or its final failure is being written,
\* whatever fails in the worker's calls and whatever the producers do.
THEOREM NobodyForgets ==
    ASSUME Faults = {}
    PROVE  Spec => []UnfinishedIsAttended
  <1>1. Init => Attentive
    BY InitAttentive
  <1>2. Typed /\ Attentive /\ [Next]_vars => Attentive'
    <2> SUFFICES ASSUME Typed, Attentive, [Next]_vars PROVE Attentive'
      OBVIOUS
    <2>1. CASE WorkerStep BY <2>1, WorkerAttentive
    <2>2. CASE ProducerStep BY <2>2, ProducerLeavesAlone, ProducerAttentive
    <2>3. CASE UNCHANGED vars
      BY <2>3 DEF vars, Attentive, Owned, Owns, ActiveIsOwned, ReturnsEnded,
                  UnfinishedIsAttended, Unfinished, Attended, HasJob
    <2> QED BY <2>1, <2>2, <2>3 DEF Next
  <1>3. IInv => Typed
    BY IInvParts
  <1>4. Attentive => UnfinishedIsAttended
    BY DEF Attentive
  <1> QED BY <1>1, <1>2, <1>3, <1>4, Invariance, PTL DEF Spec
====
