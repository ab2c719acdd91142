---- MODULE PipelineProofs ----
(* For any messages, texts, executions and producers, and any faults: the      *)
(* inductive invariant of Pipeline, the safety properties it implies, and that *)
(* every step of Pipeline is a step or a stutter of ReplyOnce.                 *)
EXTENDS Pipeline, TLAPS

FinalizerTyped ==
    /\ finalizer \in [Executions -> FinalizerRecord]
    /\ \A e \in Executions :
         finalizer[e].step # "none" => finalizer[e].msg \in Messages

ExecTyped ==
    /\ exec \in [Executions -> ExecRecord]
    /\ \A e \in Executions : exec[e].pc # "idle" => exec[e].msg \in Messages

ProducerTyped ==
    /\ producer \in [Producers -> ProducerRecord]
    /\ \A p \in Producers : producer[p].pc \in {"enqueue", "mark_queued"}
                              => producer[p].msg \in Messages

\* The two halves of the inductive invariant: what every record may hold, and
\* what it says about the others.
Typed ==
    /\ StoreTypeOK /\ QueueTypeOK /\ ExecTyped /\ FinalizerTyped /\ ProducerTyped
    /\ posts \in [Messages -> Seq(Texts)] /\ accepted \subseteq Messages

Safe ==
    /\ RowShape /\ ClaimableIsUnsent /\ ClaimHeld /\ SingleSender
    /\ ShortcutIsSound /\ OneReplySent /\ SentMeansAccepted

\* The invariant of Pipeline, cut along the two halves of its proof.
LEMMA IInvParts == IInv <=> Typed /\ Safe
  BY DEF IInv, Typed, Safe, TypeOK, AtWork, WorkerTypeOK, ProducerTypeOK, ExecTyped,
         FinalizerTyped, ProducerTyped

USE NoMessageAssumption, NoTextAssumption, JobQueueAssumption, ProducersAssumption

-----------------------------------------------------------------------------
(* Types.  Every action assigns records of the declared shape, and a process   *)
(* that goes to work takes a message with it.                                  *)

\* The initial rows, queue and records have their types.
LEMMA InitTyped == Init => Typed
  BY DEF Init, StoreInit, QueueInit, WorkerInit, ProducerInit, Typed, StoreTypeOK,
         QueueTypeOK, ExecTyped, FinalizerTyped, ProducerTyped, NoRow, NoJob, Idle,
         NoFinalizer, NoWork, OutboundRow, OutboundStatus, InboundStatus, JobRecord,
         ExecRecord, Steps, FinalizerRecord, ProducerRecord

\* The statements on the two rows keep them in shape.
LEMMA StoreOperationsTyped ==
    ASSUME StoreTypeOK, NEW m \in Messages,
           \/ (\E status \in InboundStatus : SetInbound(m, status)) \/ UNCHANGED inbound,
           \/ \E t \in Texts : InsertOutbound(m, t)
           \/ ClaimOutbound(m) \/ StampOutbound(m) \/ FailOutbound(m) \/ UNCHANGED outbound
    PROVE  StoreTypeOK'
  <1> USE DEF StoreTypeOK
  <1>0. inbound' \in [Messages -> InboundStatus]
    BY DEF SetInbound
  <1> outbound[m] \in OutboundRow
    OBVIOUS
  <1> USE DEF OutboundRow, OutboundStatus
  <1>1. ASSUME NEW t \in Texts, InsertOutbound(m, t) PROVE outbound' \in [Messages -> OutboundRow]
    BY <1>1 DEF InsertOutbound
  <1>2. CASE ClaimOutbound(m) BY <1>0, <1>2 DEF ClaimOutbound
  <1>3. CASE StampOutbound(m) BY <1>0, <1>3 DEF StampOutbound
  <1>4. CASE FailOutbound(m) BY <1>0, <1>4 DEF FailOutbound
  <1>5. CASE UNCHANGED outbound BY <1>0, <1>5
  <1> QED BY <1>0, <1>1, <1>2, <1>3, <1>4, <1>5

\* The queue's operations keep its records in shape; attempts and stalls stay
\* under their limits because RetryJob and RequeueStalled are guarded.
LEMMA QueueOperationsTyped ==
    ASSUME QueueTypeOK, NEW m \in Messages,
           \/ AddJob(m) \/ (\E e \in Executions : TakeJob(e, m)) \/ RemoveJob(m)
           \/ (~LastAttempt(m) /\ RetryJob(m)) \/ RequeueStalled(m)
    PROVE  QueueTypeOK'
  <1> USE DEF QueueTypeOK, JobRecord
  <1>1. CASE AddJob(m) BY <1>1 DEF AddJob, NoJob
  <1>2. ASSUME NEW e \in Executions, TakeJob(e, m) PROVE QueueTypeOK'
    BY <1>2 DEF TakeJob
  <1>3. CASE RemoveJob(m) BY <1>3 DEF RemoveJob, NoJob
  <1>4. CASE ~LastAttempt(m) /\ RetryJob(m)
    <2>1. job[m].attempts + 1 \in 0 .. (MaxAttempts - 1)
      BY <1>4 DEF LastAttempt
    <2> QED BY <1>4, <2>1 DEF RetryJob
  <1>5. CASE RequeueStalled(m)
    <2>1. job[m].stalls + 1 \in 0 .. MaxStalls
      BY <1>5 DEF RequeueStalled
    <2> QED BY <1>5, <2>1 DEF RequeueStalled
  <1> QED BY <1>1, <1>2, <1>3, <1>4, <1>5

\* A job whose owner died keeps its type.
LEMMA LoseOwnerTyped ==
    ASSUME QueueTypeOK, NEW e \in Executions, LoseOwner(e)
    PROVE  QueueTypeOK'
  BY DEF QueueTypeOK, JobRecord, LoseOwner

\* A rejected attempt is retried, or final, which gives the finalizer a message.
LEMMA RejectAttemptTyped ==
    ASSUME QueueTypeOK, FinalizerTyped, NEW e \in Executions, NEW m \in Messages,
           RejectAttempt(e, m)
    PROVE  QueueTypeOK' /\ FinalizerTyped'
  <1>1. QueueTypeOK'
    BY QueueOperationsTyped DEF RejectAttempt
  <1>2. FinalizerTyped'
    <2>1. CASE LastAttempt(m)
      BY <2>1 DEF RejectAttempt, FinalizerTyped, FinalizerRecord
    <2>2. CASE ~LastAttempt(m)
      BY <2>2 DEF RejectAttempt, FinalizerTyped
    <2> QED BY <2>1, <2>2
  <1> QED BY <1>1, <1>2

\* An execution that goes on, goes on with its message.
LEMMA GotoTyped ==
    ASSUME ExecTyped, NEW e \in Executions, exec[e].pc # "idle",
           \/ \E step \in Steps : Goto(e, step)
           \/ \E step \in Steps, b \in BOOLEAN :
                exec' = [exec EXCEPT ![e].pc = step, ![e].replied = b]
           \/ \E step \in Steps, t \in Texts :
                exec' = [exec EXCEPT ![e].pc = step, ![e].text = t]
           \/ exec' = [exec EXCEPT ![e] = Idle]
    PROVE  ExecTyped'
  <1> exec[e] \in ExecRecord /\ exec[e].msg \in Messages
    BY DEF ExecTyped
  <1> USE DEF ExecTyped, ExecRecord
  <1>1. ASSUME NEW step \in Steps, Goto(e, step) PROVE ExecTyped'
    BY <1>1 DEF Goto
  <1>2. ASSUME NEW step \in Steps, NEW b \in BOOLEAN,
               exec' = [exec EXCEPT ![e].pc = step, ![e].replied = b]
        PROVE  ExecTyped'
    BY <1>2
  <1>3. ASSUME NEW step \in Steps, NEW t \in Texts,
               exec' = [exec EXCEPT ![e].pc = step, ![e].text = t]
        PROVE  ExecTyped'
    BY <1>3
  <1>4. CASE exec' = [exec EXCEPT ![e] = Idle]
    BY <1>4 DEF Idle, Steps
  <1> QED BY <1>1, <1>2, <1>3, <1>4

\* The text an execution may post is that of a row that exists.
LEMMA InFlightText ==
    ASSUME Typed, Safe, NEW e \in Executions, InFlight(e)
    PROVE  exec[e].text \in Texts
  <1>1. exec[e].msg \in Messages
    BY DEF InFlight, Typed, ExecTyped
  <1>2. outbound[exec[e].msg] \in OutboundRow
    BY <1>1 DEF Typed, StoreTypeOK
  <1> QED BY <1>1, <1>2 DEF Safe, ClaimHeld, RowShape, OutboundRow

\* Each await of execute() leaves rows, queue and records in their types.
LEMMA ExecuteTyped ==
    ASSUME Typed, Safe, NEW e \in Executions, Execute(e), UNCHANGED producer
    PROVE  Typed'
  <1> DEFINE m == exec[e].msg
  <1>1. exec[e].pc # "idle" /\ m \in Messages
    BY DEF Execute, FindReply, MarkInboundSent, MarkInboundProcessing,
           GenerateAndPersistOutbound, MarkInboundReplyGenerated, MarkOutboundSending,
           SendTextMessage, MetaAnswers, MarkReplySent, Return, Throw, At, Typed, ExecTyped
  <1> USE <1>1 DEF Typed
  <1>2. StoreTypeOK'
    <2>1. CASE MarkInboundSent(e) \/ MarkInboundProcessing(e) \/ MarkInboundReplyGenerated(e)
      BY <2>1, StoreOperationsTyped
         DEF MarkInboundSent, MarkInboundProcessing, MarkInboundReplyGenerated, InboundStatus
    <2>2. CASE GenerateAndPersistOutbound(e) \/ MarkOutboundSending(e)
      BY <2>2, StoreOperationsTyped DEF GenerateAndPersistOutbound, MarkOutboundSending
    <2>3. CASE MarkReplySent(e)
      BY <2>3, StoreOperationsTyped DEF MarkReplySent, InboundStatus
    <2>4. CASE UNCHANGED storeVars
      BY <2>4 DEF storeVars, StoreTypeOK
    <2> QED BY <2>1, <2>2, <2>3, <2>4 DEF Execute, FindReply, SendTextMessage, MetaAnswers,
                                          Return, Throw, storeVars
  <1>3. QueueTypeOK' /\ FinalizerTyped'
    <2>1. CASE Return(e)
      <3>1. QueueTypeOK'
        BY <2>1, QueueOperationsTyped DEF Return, QueueTypeOK
      <3> QED BY <2>1, <3>1 DEF Return, FinalizerTyped
    <2>2. CASE Throw(e)
      <3>1. CASE RejectAttempt(e, m)
        BY <3>1, RejectAttemptTyped
      <3>2. CASE UNCHANGED <<job, finalizer>>
        BY <3>2 DEF QueueTypeOK, FinalizerTyped
      <3> QED BY <2>2, <3>1, <3>2 DEF Throw
    <2>3. CASE UNCHANGED <<job, finalizer>>
      BY <2>3 DEF QueueTypeOK, FinalizerTyped
    <2> QED BY <2>1, <2>2, <2>3
            DEF Execute, FindReply, MarkInboundSent, MarkInboundProcessing,
                GenerateAndPersistOutbound, MarkInboundReplyGenerated,
                MarkOutboundSending, SendTextMessage, MetaAnswers, MarkReplySent
  <1>4. ExecTyped'
    <2>1. CASE FindReply(e)
      BY <2>1, GotoTyped DEF FindReply, Steps
    <2>2. CASE MarkOutboundSending(e)
      <3>1. outbound[m].text \in Texts
        BY <2>2 DEF MarkOutboundSending, ClaimOutbound, Safe, RowShape, StoreTypeOK,
                    OutboundRow
      <3> QED BY <2>2, <3>1, GotoTyped DEF MarkOutboundSending, Steps
    <2>3. CASE Return(e) \/ Throw(e)
      BY <2>3, GotoTyped DEF Return, Throw
    <2> QED BY <2>1, <2>2, <2>3, GotoTyped
            DEF Execute, MarkInboundSent, MarkInboundProcessing, GenerateAndPersistOutbound,
                MarkInboundReplyGenerated, SendTextMessage, MetaAnswers, MarkReplySent, Steps
  <1>5. posts' \in [Messages -> Seq(Texts)] /\ accepted' \subseteq Messages
    <2>1. CASE SendTextMessage(e)
      <3>1. exec[e].text \in Texts
        <4>1. InFlight(e)
          BY <2>1 DEF SendTextMessage, At, InFlight
        <4> QED BY <4>1, InFlightText
      <3>2. posts[m] \in Seq(Texts)
        OBVIOUS
      <3>3. Append(posts[m], exec[e].text) \in Seq(Texts)
        BY <3>1, <3>2
      <3> QED BY <2>1, <3>3 DEF SendTextMessage
    <2> QED BY <2>1
            DEF Execute, FindReply, MarkInboundSent, MarkInboundProcessing,
                GenerateAndPersistOutbound, MarkInboundReplyGenerated,
                MarkOutboundSending, MetaAnswers, MarkReplySent, Return, Throw
  <1>6. ProducerTyped'
    BY DEF ProducerTyped
  <1> QED BY <1>2, <1>3, <1>4, <1>5, <1>6

\* So does each step of the worker, the timeouts, final failures and stall
\* checks of worker.ts and BullMQ included.
LEMMA WorkerStepTyped ==
    ASSUME Typed, Safe, WorkerStep
    PROVE  Typed'
  <1> USE DEF WorkerStep, Typed
  <1>0. ProducerTyped'
    BY DEF ProducerTyped
  <1>1. ASSUME NEW e \in Executions, NEW m \in Messages, StartAttempt(e, m)
        PROVE  Typed'
    <2>1. QueueTypeOK'
      BY <1>1, QueueOperationsTyped DEF StartAttempt
    <2>2. ExecTyped'
      BY <1>1 DEF StartAttempt, ExecTyped, ExecRecord, Steps
    <2> QED BY <1>0, <1>1, <2>1, <2>2 DEF StartAttempt, storeVars, StoreTypeOK, FinalizerTyped
  <1>2. ASSUME NEW e \in Executions, Execute(e) PROVE Typed'
    <2> HIDE DEF Typed
    <2> QED BY <1>2, ExecuteTyped
  <1>3. ASSUME NEW e \in Executions, JobTimeout(e) PROVE Typed'
    <2>1. exec[e].msg \in Messages
      BY <1>3 DEF JobTimeout, At, ExecTyped
    <2>2. QueueTypeOK' /\ FinalizerTyped'
      BY <1>3, <2>1, RejectAttemptTyped DEF JobTimeout
    <2> QED BY <1>0, <1>3, <2>2 DEF JobTimeout, storeVars, StoreTypeOK, ExecTyped
  <1>4. ASSUME NEW e \in Executions, FinalFailure(e) \/ FinalFailureLost(e) PROVE Typed'
    <2>1. CASE FinalFailure(e)
      <3>1. finalizer[e].msg \in Messages /\ finalizer[e].step # "none"
        BY <2>1 DEF FinalFailure, FinalFailureInbound, FinalFailureOutbound, FinalizerTyped
      <3>2. StoreTypeOK'
        <4>1. CASE FinalFailureInbound(e)
          BY <3>1, <4>1, StoreOperationsTyped DEF FinalFailureInbound, InboundStatus
        <4>2. CASE FinalFailureOutbound(e)
          BY <3>1, <4>2, StoreOperationsTyped DEF FinalFailureOutbound
        <4> QED BY <2>1, <4>1, <4>2 DEF FinalFailure
      <3>3. FinalizerTyped'
        <4>1. CASE finalizer' = [finalizer EXCEPT ![e].step = "outbound"]
          <5>1. finalizer[e] \in FinalizerRecord
            BY DEF FinalizerTyped
          <5>2. [finalizer[e] EXCEPT !.step = "outbound"] \in FinalizerRecord
            BY <5>1 DEF FinalizerRecord
          <5>3. /\ finalizer'[e].msg = finalizer[e].msg
                /\ \A f \in Executions : f # e => finalizer'[f] = finalizer[f]
            BY <4>1, <5>1 DEF FinalizerTyped, FinalizerRecord
          <5> QED BY <3>1, <4>1, <5>2, <5>3 DEF FinalizerTyped
        <4>2. CASE finalizer' = [finalizer EXCEPT ![e] = NoFinalizer]
          BY <3>1, <4>2 DEF FinalizerTyped, FinalizerRecord, NoFinalizer
        <4> QED BY <2>1, <4>1, <4>2 DEF FinalFailure, FinalFailureInbound, FinalFailureOutbound
      <3> QED BY <1>0, <2>1, <3>2, <3>3
              DEF FinalFailure, FinalFailureInbound, FinalFailureOutbound, QueueTypeOK, ExecTyped
    <2>2. CASE FinalFailureLost(e)
      <3>1. FinalizerTyped'
        BY <2>2 DEF FinalFailureLost, FinalizerTyped, FinalizerRecord, NoFinalizer
      <3> QED BY <1>0, <2>2, <3>1 DEF FinalFailureLost, storeVars, StoreTypeOK, QueueTypeOK,
                                     ExecTyped
    <2> QED BY <1>4, <2>1, <2>2
  <1>5. ASSUME NEW e \in Executions, WorkerDies(e) PROVE Typed'
    <2>1. QueueTypeOK'
      BY <1>5, LoseOwnerTyped DEF WorkerDies
    <2>2. ExecTyped' /\ FinalizerTyped'
      BY <1>5 DEF WorkerDies, ExecTyped, FinalizerTyped, Idle, NoFinalizer, ExecRecord,
                  Steps, FinalizerRecord
    <2> QED BY <1>0, <1>5, <2>1, <2>2 DEF WorkerDies, storeVars, StoreTypeOK
  <1>6. ASSUME NEW m \in Messages, StallCheck(m) PROVE Typed'
    <2>1. QueueTypeOK'
      <3>1. RequeueStalled(m) BY <1>6 DEF StallCheck
      <3> QED BY <3>1, QueueOperationsTyped
    <2> QED BY <1>0, <1>6, <2>1 DEF StallCheck, storeVars, workerVars, StoreTypeOK, ExecTyped,
                             FinalizerTyped
  <1>7. ASSUME NEW m \in Messages, GiveUpStalled(m) PROVE Typed'
    <2>1. QueueTypeOK'
      BY <1>7 DEF GiveUpStalled, RemoveJob, NoJob, QueueTypeOK, JobRecord
    <2>2. FinalizerTyped'
      <3>1. CASE UNCHANGED finalizer
        BY <3>1 DEF FinalizerTyped
      <3>2. ASSUME NEW e \in Executions,
                   finalizer' = [finalizer EXCEPT ![e] = [step |-> "inbound", msg |-> m]]
            PROVE  FinalizerTyped'
        BY <3>2 DEF FinalizerTyped, FinalizerRecord
      <3> QED BY <1>7, <3>1, <3>2 DEF GiveUpStalled
    <2> QED BY <1>0, <1>7, <2>1, <2>2 DEF GiveUpStalled, storeVars, StoreTypeOK, ExecTyped
  <1> QED BY <1>1, <1>2, <1>3, <1>4, <1>5, <1>6, <1>7 DEF WorkerNext

\* The producers: what they write of the rows and the queue, and their records.
LEMMA ContinueTyped ==
    ASSUME ProducerTyped, NEW p \in Producers, NEW todo \in SUBSET Messages,
           NEW m \in Messages, Continue(p, todo) \/ GoEnqueue(p, m)
    PROVE  ProducerTyped'
  <1> USE DEF ProducerTyped, ProducerRecord
  <1>1. CASE Continue(p, todo) BY <1>1 DEF Continue, NoWork
  <1>2. CASE GoEnqueue(p, m) BY <1>2 DEF GoEnqueue
  <1> QED BY <1>1, <1>2

\* So does each step of the webhook's loop and of the recovery command's.
LEMMA ProducerStepTyped ==
    ASSUME Typed, ProducerStep
    PROVE  Typed'
  <1>0. /\ StoreTypeOK /\ QueueTypeOK /\ ProducerTyped
        /\ UNCHANGED workerVars
    BY DEF Typed, ProducerStep
  <1>s. SUFFICES StoreTypeOK' /\ QueueTypeOK' /\ ProducerTyped'
    BY <1>0 DEF Typed, workerVars, ExecTyped, FinalizerTyped
  <1>t. \A p \in Producers : producer[p].todo \in SUBSET Messages
    BY <1>0 DEF ProducerTyped, ProducerRecord
  <1>u. UNCHANGED <<storeVars, job>> => StoreTypeOK' /\ QueueTypeOK'
    BY <1>0 DEF storeVars, StoreTypeOK, QueueTypeOK
  <1>1. ASSUME NEW p \in Producers, Deliver(p) \/ Scan(p)
        PROVE  StoreTypeOK' /\ QueueTypeOK' /\ ProducerTyped'
    <2>1. PICK todo \in SUBSET Messages : Continue(p, todo)
      BY <1>1 DEF Deliver, Scan
    <2>2. ProducerTyped'
      BY <1>0, <2>1 DEF Continue, NoWork, ProducerTyped, ProducerRecord
    <2> QED BY <1>1, <1>u, <2>2 DEF Deliver, Scan
  <1>2. ASSUME NEW p \in Producers, NEW m \in Messages, Receive(p, m) \/ ReceiveFails(p, m)
        PROVE  StoreTypeOK' /\ QueueTypeOK' /\ ProducerTyped'
    <2>1. ProducerTyped'
      BY <1>0, <1>2, <1>t, ContinueTyped DEF Receive, ReceiveFails
    <2>2. StoreTypeOK'
      BY <1>0, <1>2, StoreOperationsTyped DEF Receive, ReceiveFails, InboundStatus
    <2> QED BY <1>0, <1>2, <2>1, <2>2 DEF Receive, ReceiveFails, QueueTypeOK
  <1>3. ASSUME NEW p \in Producers, NEW m \in Messages, TakeScanned(p, m)
        PROVE  StoreTypeOK' /\ QueueTypeOK' /\ ProducerTyped'
    BY <1>0, <1>3, <1>u, <1>t, ContinueTyped DEF TakeScanned
  <1>4. ASSUME NEW p \in Producers, EnqueueOne(p) \/ ProducerDies(p)
        PROVE  StoreTypeOK' /\ QueueTypeOK' /\ ProducerTyped'
    <2> DEFINE m == producer[p].msg
    <2>1. CASE Enqueue(p) \/ EnqueueFails(p)
      <3>1. m \in Messages
        BY <1>0, <2>1 DEF ProducerTyped, Enqueue, EnqueueFails
      <3>2. QueueTypeOK'
        BY <1>0, <2>1, <3>1, QueueOperationsTyped DEF Enqueue, EnqueueFails, QueueTypeOK
      <3>3. ProducerTyped'
        <4>1. CASE Enqueue(p)
          BY <1>0, <3>1, <4>1 DEF Enqueue, ProducerTyped, ProducerRecord
        <4>2. CASE EnqueueFails(p)
          BY <1>0, <1>t, <3>1, <4>2, ContinueTyped DEF EnqueueFails
        <4> QED BY <2>1, <4>1, <4>2
      <3> QED BY <1>0, <2>1, <3>2, <3>3 DEF Enqueue, EnqueueFails, storeVars, StoreTypeOK
    <2>2. CASE MarkQueued(p) \/ MarkQueuedFails(p)
      <3>1. m \in Messages
        BY <1>0, <2>2 DEF ProducerTyped, MarkQueued, MarkQueuedFails
      <3>2. StoreTypeOK'
        <4>1. CASE MarkQueued(p)
          BY <1>0, <3>1, <4>1, StoreOperationsTyped DEF MarkQueued, InboundStatus
        <4>2. CASE MarkQueuedFails(p)
          BY <1>u, <4>2 DEF MarkQueuedFails
        <4> QED BY <2>2, <4>1, <4>2
      <3>3. ProducerTyped'
        BY <1>0, <1>t, <2>2, <3>1, ContinueTyped DEF MarkQueued, MarkQueuedFails
      <3> QED BY <1>0, <2>2, <3>2, <3>3 DEF MarkQueued, MarkQueuedFails, QueueTypeOK
    <2>3. CASE ProducerDies(p)
      <3>1. ProducerTyped'
        BY <1>0, <2>3 DEF ProducerDies, NoWork, ProducerTyped, ProducerRecord
      <3> QED BY <1>u, <2>3, <3>1 DEF ProducerDies
    <2> QED BY <1>4, <2>1, <2>2, <2>3 DEF EnqueueOne
  <1> QED BY <1>1, <1>2, <1>3, <1>4 DEF ProducerStep, ProducerNext, Producers

-----------------------------------------------------------------------------
(* What the records say about each other.                                     *)

\* At first nothing is claimed, sent or reported.
LEMMA InitSafe == Init => Safe
  BY DEF Init, StoreInit, WorkerInit, Safe, RowShape, ClaimableIsUnsent, ClaimHeld,
         SingleSender, ShortcutIsSound, OneReplySent, SentMeansAccepted, InFlight, NoRow, Idle

\* Most steps are calm: they change neither an outbound row nor what Meta has
\* seen, put no execution in flight or on the shortcut, and write "sent" to no
\* inbound row whose reply was not sent.  Safe cannot notice them.
Calm ==
    /\ UNCHANGED <<outbound, posts, accepted>>
    /\ \A e \in Executions : exec'[e] = exec[e] \/
           exec'[e].pc \notin {"post", "response", "mark_sent", "mark_inbound_sent"}
    /\ \A m \in Messages : inbound'[m] = "sent" =>
           inbound[m] = "sent" \/ outbound[m].status = "sent"

\* A step that leaves the outbound rows and the posts alone, and brings nobody
\* nearer to a POST, keeps Safe.
LEMMA CalmStepSafe ==
    ASSUME Safe, Calm
    PROVE  Safe'
  <1> USE DEF Calm, Safe
  <1>1. RowShape' /\ ClaimableIsUnsent' /\ OneReplySent'
    BY DEF RowShape, ClaimableIsUnsent, OneReplySent
  <1>2. ClaimHeld' /\ SingleSender'
    BY DEF ClaimHeld, SingleSender, InFlight
  <1>3. ShortcutIsSound'
    BY DEF ShortcutIsSound
  <1>4. SentMeansAccepted'
    BY DEF SentMeansAccepted
  <1> QED BY <1>1, <1>2, <1>3, <1>4

\* "sent" is written to an inbound row by two statements only.
LEMMA SetInboundElsewhere ==
    ASSUME StoreTypeOK, NEW m \in Messages, NEW status,
           SetInbound(m, status), status # "sent" \/ outbound[m].status = "sent"
    PROVE  \A n \in Messages : inbound'[n] = "sent" =>
               inbound[n] = "sent" \/ outbound[n].status = "sent"
  BY DEF SetInbound, StoreTypeOK

\* Producers touch no outbound row and no execution.
LEMMA ProducerStepCalm ==
    ASSUME Typed, ProducerStep
    PROVE  Calm
  <1>0. StoreTypeOK /\ ProducerTyped /\ UNCHANGED workerVars
    BY DEF Typed, ProducerStep
  <1>1. UNCHANGED outbound
    BY DEF ProducerStep, ProducerNext, Deliver, Receive, ReceiveFails, Scan, TakeScanned,
           EnqueueOne, Enqueue, EnqueueFails, MarkQueued, MarkQueuedFails, ProducerDies,
           storeVars
  <1>2. \/ UNCHANGED inbound
        \/ \E m \in Messages : SetInbound(m, "received") \/ SetInbound(m, "queued")
    <2>1. \A p \in Producers : producer[p].pc = "mark_queued" => producer[p].msg \in Messages
      BY <1>0 DEF ProducerTyped
    <2> QED BY <2>1 DEF ProducerStep, ProducerNext, Deliver, Receive, ReceiveFails, Scan,
                        TakeScanned, EnqueueOne, Enqueue, EnqueueFails, MarkQueued,
                        MarkQueuedFails, ProducerDies, storeVars
  <1> QED BY <1>0, <1>1, <1>2, SetInboundElsewhere DEF Calm, workerVars

\* Most steps of the worker are calm: only FindReply, GenerateAndPersistOutbound,
\* MarkOutboundSending, SendTextMessage, MetaAnswers, MarkReplySent and
\* FinalFailureOutbound are not.
LEMMA CalmWorkerSteps ==
    ASSUME Typed, Safe, NEW e \in Executions,
           \/ \E m \in Messages : StartAttempt(e, m)
           \/ FindReply(e) /\ outbound[exec[e].msg].status # "sent"
           \/ MarkInboundSent(e) \/ MarkInboundProcessing(e) \/ MarkInboundReplyGenerated(e)
           \/ Return(e) \/ Throw(e) \/ JobTimeout(e)
           \/ FinalFailureInbound(e) \/ FinalFailureLost(e) \/ WorkerDies(e)
    PROVE  Calm
  <1>0. StoreTypeOK /\ ExecTyped /\ FinalizerTyped
    BY DEF Typed
  <1>1. CASE \E m \in Messages : StartAttempt(e, m)
    BY <1>0, <1>1 DEF StartAttempt, Calm, storeVars, ExecTyped
  <1>2. CASE FindReply(e) /\ outbound[exec[e].msg].status # "sent"
    BY <1>0, <1>2 DEF FindReply, Calm, storeVars, ExecTyped, ExecRecord
  <1>3. CASE MarkInboundSent(e) \/ MarkInboundProcessing(e) \/ MarkInboundReplyGenerated(e)
    <2> DEFINE m == exec[e].msg
    <2>1. m \in Messages
      BY <1>0, <1>3 DEF MarkInboundSent, MarkInboundProcessing, MarkInboundReplyGenerated, At,
                        ExecTyped
    <2>2. /\ UNCHANGED <<outbound, posts, accepted>>
          /\ \/ SetInbound(m, "processing") \/ SetInbound(m, "reply_generated")
             \/ SetInbound(m, "sent") /\ outbound[m].status = "sent"
      BY <1>3 DEF MarkInboundSent, MarkInboundProcessing, MarkInboundReplyGenerated, At,
                  Safe, ShortcutIsSound
    <2>3. \E step \in {"return", "mark_sending", "generate"} : Goto(e, step)
      BY <1>3 DEF MarkInboundSent, MarkInboundProcessing, MarkInboundReplyGenerated
    <2>4. \A f \in Executions : exec'[f] = exec[f] \/
              exec'[f].pc \notin {"post", "response", "mark_sent", "mark_inbound_sent"}
      BY <1>0, <2>3 DEF Goto, ExecTyped, ExecRecord
    <2> QED BY <1>0, <2>1, <2>2, <2>4, SetInboundElsewhere DEF Calm
  <1>4. CASE Return(e) \/ Throw(e)
    BY <1>0, <1>4 DEF Return, Throw, Calm, Idle, storeVars, ExecTyped, ExecRecord
  <1>5. CASE JobTimeout(e) \/ FinalFailureLost(e)
    BY <1>0, <1>5 DEF JobTimeout, FinalFailureLost, Calm, storeVars
  <1>6. CASE FinalFailureInbound(e)
    <2>1. finalizer[e].msg \in Messages
      BY <1>0, <1>6 DEF FinalFailureInbound, FinalizerTyped
    <2> QED BY <1>0, <1>6, <2>1, SetInboundElsewhere DEF FinalFailureInbound, Calm
  <1>7. CASE WorkerDies(e)
    BY <1>0, <1>7 DEF WorkerDies, Calm, Idle, storeVars, ExecTyped, ExecRecord
  <1> QED BY <1>1, <1>2, <1>3, <1>4, <1>5, <1>6, <1>7

\* The stalled-jobs check is calm: an execution it disowns goes on as it was.
LEMMA StallStepsCalm ==
    ASSUME NEW m \in Messages, StallCheck(m) \/ GiveUpStalled(m)
    PROVE  Calm
  BY DEF StallCheck, GiveUpStalled, Calm, storeVars, workerVars

\* The steps Safe is about.  In each, m is the message of the execution.
LEMMA FindReplySafe ==
    ASSUME Typed, Safe, NEW e \in Executions, FindReply(e),
           outbound[exec[e].msg].status = "sent"
    PROVE  Safe'
  <1>1. exec[e] \in ExecRecord
    BY DEF Typed, ExecTyped
  <1>2. /\ exec' = [exec EXCEPT ![e].pc = "mark_inbound_sent", ![e].replied = TRUE]
        /\ UNCHANGED <<inbound, outbound, posts, accepted>>
    BY DEF FindReply, storeVars
  <1>3. /\ exec'[e].pc = "mark_inbound_sent" /\ exec'[e].msg = exec[e].msg
        /\ \A f \in Executions : f # e => exec'[f] = exec[f]
    BY <1>1, <1>2 DEF Typed, ExecTyped, ExecRecord
  <1>4. \A f \in Executions : InFlight(f)' => exec'[f] = exec[f] /\ InFlight(f)
    BY <1>3 DEF InFlight
  <1>5. ClaimHeld'
    <2> SUFFICES ASSUME NEW f \in Executions, InFlight(f)'
                 PROVE  LET n == exec'[f].msg
                        IN /\ outbound[n].status \in {"sending", "failed"}
                           /\ outbound[n].text = exec'[f].text
                           /\ posts[n] = IF exec'[f].pc = "post" THEN <<>> ELSE <<exec'[f].text>>
                           /\ exec'[f].pc = "mark_sent" => n \in accepted
      BY <1>2 DEF ClaimHeld
    <2> QED BY <1>4 DEF Safe, ClaimHeld
  <1>7. SingleSender'
    BY <1>4 DEF Safe, SingleSender
  <1>6. ShortcutIsSound'
    BY <1>2, <1>3 DEF Safe, ShortcutIsSound
  <1> QED BY <1>2, <1>5, <1>6, <1>7 DEF Safe, RowShape, ClaimableIsUnsent, OneReplySent, SentMeansAccepted

\* A step from one place of execute() to another, seen from the records.
LEMMA GotoMoves ==
    ASSUME ExecTyped, NEW e \in Executions, NEW step \in Steps, Goto(e, step)
    PROVE  /\ exec'[e].pc = step /\ exec'[e].msg = exec[e].msg /\ exec'[e].text = exec[e].text
           /\ \A f \in Executions : f # e => exec'[f] = exec[f]
  <1>1. exec[e] \in ExecRecord
    BY DEF ExecTyped
  <1> QED BY <1>1 DEF Goto, ExecTyped, ExecRecord

\* The row inserted is new, so nobody can be in flight on it.
LEMMA GenerateSafe ==
    ASSUME Typed, Safe, NEW e \in Executions, GenerateAndPersistOutbound(e)
    PROVE  Safe'
  <1> DEFINE m == exec[e].msg
  <1>1. m \in Messages /\ ExecTyped /\ StoreTypeOK
    BY DEF Typed, ExecTyped, GenerateAndPersistOutbound, At
  <1>2. PICK t \in Texts : InsertOutbound(m, t)
    BY DEF GenerateAndPersistOutbound
  <1>3. /\ exec'[e].pc = "mark_reply_generated"
        /\ \A f \in Executions : f # e => exec'[f] = exec[f]
    BY <1>1, GotoMoves DEF GenerateAndPersistOutbound, Steps
  <1>4. UNCHANGED <<inbound, posts, accepted>>
    BY DEF GenerateAndPersistOutbound
  <1>5. \A n \in Messages :
          \/ outbound'[n] = outbound[n]
          \/ /\ n = m /\ outbound[m].status = "none"
             /\ outbound'[m].status = "reply_generated" /\ outbound'[m].text = t
             /\ outbound'[m].stamped = FALSE
    BY <1>1, <1>2 DEF InsertOutbound, StoreTypeOK
  <1>6. RowShape' /\ ClaimableIsUnsent' /\ OneReplySent' /\ SentMeansAccepted'
    BY <1>4, <1>5 DEF Safe, RowShape, ClaimableIsUnsent, OneReplySent, SentMeansAccepted
  <1>7. ClaimHeld' /\ SingleSender' /\ ShortcutIsSound'
    BY <1>1, <1>3, <1>4, <1>5 DEF Safe, ClaimHeld, SingleSender, ShortcutIsSound, InFlight,
                                 ExecTyped
  <1> QED BY <1>6, <1>7 DEF Safe

\* The claim: the row was claimable, so it was not posted and nobody is in
\* flight on it; now the one execution is.
LEMMA MarkOutboundSendingSafe ==
    ASSUME Typed, Safe, NEW e \in Executions, MarkOutboundSending(e)
    PROVE  Safe'
  <1> DEFINE m == exec[e].msg
  <1>1. m \in Messages /\ ExecTyped /\ StoreTypeOK /\ exec[e] \in ExecRecord
    BY DEF Typed, ExecTyped, MarkOutboundSending, At
  <1>2. /\ exec'[e].pc = "post" /\ exec'[e].msg = m /\ exec'[e].text = outbound[m].text
        /\ \A f \in Executions : f # e => exec'[f] = exec[f]
    BY <1>1 DEF MarkOutboundSending, ExecTyped, ExecRecord
  <1>3. /\ outbound[m].status = "reply_generated"
        /\ outbound'[m].status = "sending" /\ outbound'[m].text = outbound[m].text
        /\ outbound'[m].stamped = outbound[m].stamped
        /\ \A n \in Messages : n # m => outbound'[n] = outbound[n]
    <2>1. outbound[m] \in OutboundRow
      BY <1>1 DEF StoreTypeOK
    <2> QED BY <1>1, <2>1 DEF MarkOutboundSending, ClaimOutbound, StoreTypeOK, OutboundRow
  <1>4. UNCHANGED <<inbound, posts, accepted>>
    BY DEF MarkOutboundSending
  <1>5. \A f \in Executions : InFlight(f) => exec[f].msg # m
    BY <1>3 DEF Safe, ClaimHeld
  <1>6. posts[m] = <<>>
    BY <1>1, <1>3 DEF Safe, ClaimableIsUnsent
  <1>7. RowShape' /\ ClaimableIsUnsent' /\ OneReplySent' /\ SentMeansAccepted'
    BY <1>3, <1>4 DEF Safe, RowShape, ClaimableIsUnsent, OneReplySent, SentMeansAccepted
  <1>8. SingleSender'
    BY <1>2, <1>5 DEF Safe, SingleSender, InFlight
  <1>9. ClaimHeld'
    BY <1>2, <1>3, <1>4, <1>5, <1>6 DEF Safe, ClaimHeld, InFlight, Typed, ExecTyped
  <1>10. ShortcutIsSound'
    BY <1>1, <1>2, <1>3 DEF Safe, ShortcutIsSound, ExecTyped
  <1> QED BY <1>7, <1>8, <1>9, <1>10 DEF Safe

\* The POST: by the claim it is the first one.
LEMMA SendTextMessageSafe ==
    ASSUME Typed, Safe, NEW e \in Executions, SendTextMessage(e)
    PROVE  /\ Safe'
           /\ posts[exec[e].msg] = <<>>
           /\ outbound[exec[e].msg].text \in Texts
           /\ posts' = [posts EXCEPT ![exec[e].msg] = <<outbound[exec[e].msg].text>>]
  <1> DEFINE m == exec[e].msg
  <1>1. m \in Messages /\ ExecTyped /\ posts \in [Messages -> Seq(Texts)] /\ exec[e].pc = "post"
    BY DEF Typed, ExecTyped, SendTextMessage, At
  <1>2. /\ posts[m] = <<>> /\ outbound[m].text = exec[e].text
        /\ outbound[m].status \in {"sending", "failed"}
    BY <1>1 DEF Safe, ClaimHeld, InFlight
  <1>3. exec[e].text \in Texts
    <2>1. InFlight(e) BY <1>1 DEF InFlight
    <2> QED BY <2>1, InFlightText
  <1>4. Append(posts[m], exec[e].text) = <<exec[e].text>>
    BY <1>2, <1>3
  <1>5. posts' = [posts EXCEPT ![m] = <<outbound[m].text>>]
    BY <1>1, <1>2, <1>4 DEF SendTextMessage
  <1>6. /\ exec'[e].pc = "response" /\ exec'[e].msg = m /\ exec'[e].text = exec[e].text
        /\ \A f \in Executions : f # e => exec'[f] = exec[f]
    BY <1>1, GotoMoves DEF SendTextMessage, Steps
  <1>7. UNCHANGED <<inbound, outbound>> /\ accepted \subseteq accepted'
    BY DEF SendTextMessage, storeVars
  <1>8. \A f \in Executions : f # e /\ InFlight(f) => exec[f].msg # m
    BY <1>1 DEF Safe, SingleSender, InFlight
  <1>9. RowShape' /\ ClaimableIsUnsent' /\ OneReplySent' /\ SentMeansAccepted'
    <2>1. \A n \in Messages : posts'[n] = IF n = m THEN <<outbound[m].text>> ELSE posts[n]
      BY <1>1, <1>5
    <2>2. RowShape' /\ SentMeansAccepted'
      BY <1>7 DEF Safe, RowShape, SentMeansAccepted
    <2>3. ClaimableIsUnsent'
      BY <1>2, <1>7, <2>1 DEF Safe, ClaimableIsUnsent
    <2>4. OneReplySent'
      BY <1>7, <2>1 DEF Safe, OneReplySent
    <2> QED BY <2>2, <2>3, <2>4
  <1>10. SingleSender'
    <2>1. \A f \in Executions : /\ exec'[f].msg = exec[f].msg
                                /\ InFlight(f)' <=> InFlight(f)
      BY <1>1, <1>6 DEF InFlight
    <2> QED BY <2>1 DEF Safe, SingleSender
  <1>12. ShortcutIsSound'
    BY <1>6, <1>7 DEF Safe, ShortcutIsSound
  <1>11. ClaimHeld'
    <2> SUFFICES ASSUME NEW f \in Executions, InFlight(f)'
                 PROVE  LET n == exec'[f].msg
                        IN /\ outbound[n].status \in {"sending", "failed"}
                           /\ outbound[n].text = exec'[f].text
                           /\ posts'[n] = IF exec'[f].pc = "post" THEN <<>> ELSE <<exec'[f].text>>
                           /\ exec'[f].pc = "mark_sent" => n \in accepted'
      BY <1>7 DEF ClaimHeld
    <2>1. CASE f = e
      BY <1>1, <1>2, <1>5, <1>6, <2>1
    <2>2. CASE f # e
      <3>1. exec'[f] = exec[f] /\ InFlight(f) /\ exec[f].msg \in Messages
        BY <1>1, <1>6, <2>2 DEF InFlight, ExecTyped
      <3>2. posts'[exec[f].msg] = posts[exec[f].msg]
        BY <1>1, <1>5, <1>8, <2>2, <3>1
      <3> QED BY <1>7, <3>1, <3>2 DEF Safe, ClaimHeld
    <2> QED BY <2>1, <2>2
  <1> QED BY <1>2, <1>3, <1>5, <1>9, <1>10, <1>11, <1>12 DEF Safe

\* A 2xx answer reaches only an execution whose POST Meta accepted.
LEMMA MetaAnswersSafe ==
    ASSUME Typed, Safe, NEW e \in Executions, MetaAnswers(e)
    PROVE  Safe'
  <1>1. ExecTyped /\ exec[e].pc = "response" /\ exec[e].msg \in accepted
    BY DEF Typed, MetaAnswers, At
  <1>2. /\ exec'[e].pc = "mark_sent" /\ exec'[e].msg = exec[e].msg
        /\ exec'[e].text = exec[e].text
        /\ \A f \in Executions : f # e => exec'[f] = exec[f]
    BY <1>1, GotoMoves DEF MetaAnswers, Steps
  <1>3. UNCHANGED <<inbound, outbound, posts, accepted>>
    BY DEF MetaAnswers, storeVars
  <1>4. ClaimHeld' /\ SingleSender' /\ ShortcutIsSound'
    BY <1>1, <1>2, <1>3 DEF Safe, ClaimHeld, SingleSender, ShortcutIsSound, InFlight
  <1> QED BY <1>3, <1>4 DEF Safe, RowShape, ClaimableIsUnsent, OneReplySent, SentMeansAccepted

\* The record of success: the execution was the only one in flight on the row.
LEMMA MarkReplySentSafe ==
    ASSUME Typed, Safe, NEW e \in Executions, MarkReplySent(e)
    PROVE  Safe' /\ exec[e].msg \in accepted
  <1> DEFINE m == exec[e].msg
  <1>1. m \in Messages /\ ExecTyped /\ StoreTypeOK /\ exec[e].pc = "mark_sent"
    BY DEF Typed, ExecTyped, MarkReplySent, At
  <1>2. /\ m \in accepted /\ outbound[m].text = exec[e].text
        /\ outbound[m].status \in {"sending", "failed"} /\ posts[m] = <<exec[e].text>>
    BY <1>1 DEF Safe, ClaimHeld, InFlight
  <1>3. /\ exec'[e].pc = "return" /\ \A f \in Executions : f # e => exec'[f] = exec[f]
    BY <1>1, GotoMoves DEF MarkReplySent, Steps
  <1>4. /\ outbound'[m].status = "sent" /\ outbound'[m].text = outbound[m].text
        /\ outbound'[m].stamped = TRUE
        /\ \A n \in Messages : n # m => outbound'[n] = outbound[n]
    <2>1. outbound[m] \in OutboundRow
      BY <1>1 DEF StoreTypeOK
    <2> QED BY <1>1, <2>1 DEF MarkReplySent, StampOutbound, StoreTypeOK, OutboundRow
  <1>5. UNCHANGED <<posts, accepted>> /\ \A n \in Messages : n # m => inbound'[n] = inbound[n]
    BY <1>1 DEF MarkReplySent, SetInbound, StoreTypeOK
  <1>6. \A f \in Executions : f # e /\ InFlight(f) => exec[f].msg # m
    BY <1>1 DEF Safe, SingleSender, InFlight
  <1>7. RowShape' /\ ClaimableIsUnsent' /\ OneReplySent' /\ SentMeansAccepted'
    BY <1>2, <1>4, <1>5 DEF Safe, RowShape, ClaimableIsUnsent, OneReplySent, SentMeansAccepted
  <1>8. SingleSender'
    BY <1>3 DEF Safe, SingleSender, InFlight
  <1>9. ClaimHeld'
    BY <1>1, <1>3, <1>4, <1>5, <1>6 DEF Safe, ClaimHeld, InFlight, ExecTyped
  <1>10. ShortcutIsSound'
    BY <1>1, <1>3, <1>4 DEF Safe, ShortcutIsSound, ExecTyped
  <1> QED BY <1>2, <1>7, <1>8, <1>9, <1>10 DEF Safe

\* A final failure closes the row under whoever is in flight, who may still
\* record success over it; it cannot touch a recorded success.
LEMMA FinalFailureOutboundSafe ==
    ASSUME Typed, Safe, NEW e \in Executions, FinalFailureOutbound(e)
    PROVE  Safe'
  <1> DEFINE m == finalizer[e].msg
  <1>1. m \in Messages /\ ExecTyped /\ StoreTypeOK
    BY DEF Typed, FinalizerTyped, FinalFailureOutbound
  <1>2. UNCHANGED <<inbound, exec, posts, accepted>>
    BY DEF FinalFailureOutbound
  <1>3. \A n \in Messages :
          \/ outbound'[n] = outbound[n]
          \/ /\ outbound[n].status # "none" /\ ~outbound[n].stamped
             /\ outbound'[n].status = "failed" /\ outbound'[n].text = outbound[n].text
             /\ outbound'[n].stamped = outbound[n].stamped
    <2>1. outbound[m] \in OutboundRow
      BY <1>1 DEF StoreTypeOK
    <2> QED BY <1>1, <2>1 DEF FinalFailureOutbound, FailOutbound, StoreTypeOK, OutboundRow
  <1>4. RowShape' /\ ClaimableIsUnsent' /\ OneReplySent' /\ SentMeansAccepted'
    BY <1>2, <1>3 DEF Safe, RowShape, ClaimableIsUnsent, OneReplySent, SentMeansAccepted
  <1>5. SingleSender'
    BY <1>2 DEF Safe, SingleSender, InFlight
  <1>6. ClaimHeld' /\ ShortcutIsSound'
    <2>1. \A f \in Executions : InFlight(f) \/ exec[f].pc = "mark_inbound_sent"
                                  => exec[f].msg \in Messages
      BY <1>1 DEF InFlight, ExecTyped
    <2>2. \A n \in Messages : outbound[n].status = "sent" => outbound'[n] = outbound[n]
      BY <1>3 DEF Safe, RowShape
    <2> QED BY <1>2, <1>3, <2>1, <2>2 DEF Safe, ClaimHeld, ShortcutIsSound, InFlight
  <1> QED BY <1>4, <1>5, <1>6 DEF Safe

\* Every step of the pipeline keeps Safe.
LEMMA StepSafe ==
    ASSUME Typed, Safe, Next
    PROVE  Safe'
  <1>1. CASE ProducerStep
    BY <1>1, ProducerStepCalm, CalmStepSafe
  <1>2. ASSUME NEW e \in Executions, Execute(e) PROVE Safe'
    <2>1. CASE FindReply(e)
      BY <2>1, CalmWorkerSteps, CalmStepSafe, FindReplySafe
    <2>2. CASE MarkInboundSent(e) \/ MarkInboundProcessing(e) \/ MarkInboundReplyGenerated(e)
                 \/ Return(e) \/ Throw(e)
      BY <2>2, CalmWorkerSteps, CalmStepSafe
    <2> QED BY <1>2, <2>1, <2>2, GenerateSafe, MarkOutboundSendingSafe, SendTextMessageSafe,
               MetaAnswersSafe, MarkReplySentSafe DEF Execute
  <1>3. ASSUME NEW e \in Executions,
               \/ \E m \in Messages : StartAttempt(e, m)
               \/ JobTimeout(e) \/ FinalFailureInbound(e) \/ FinalFailureLost(e) \/ WorkerDies(e)
        PROVE  Safe'
    BY <1>3, CalmWorkerSteps, CalmStepSafe
  <1>4. ASSUME NEW e \in Executions, FinalFailureOutbound(e) PROVE Safe'
    BY <1>4, FinalFailureOutboundSafe
  <1>5. ASSUME NEW m \in Messages, StallCheck(m) \/ GiveUpStalled(m) PROVE Safe'
    BY <1>5, StallStepsCalm, CalmStepSafe
  <1> QED BY <1>1, <1>2, <1>3, <1>4, <1>5 DEF Next, WorkerStep, WorkerNext, FinalFailure

\* The invariant speaks of nothing but vars.
LEMMA StutterInvariant == Typed /\ Safe /\ UNCHANGED vars => Typed' /\ Safe'
  <1> SUFFICES ASSUME Typed, Safe, UNCHANGED vars PROVE Typed' /\ Safe'
    OBVIOUS
  <1>1. Typed'
    BY DEF vars, Typed, StoreTypeOK, QueueTypeOK, ExecTyped, FinalizerTyped, ProducerTyped
  <1>2. Calm
    BY DEF vars, Calm
  <1> QED BY <1>1, <1>2, CalmStepSafe

-----------------------------------------------------------------------------
(* The theorems.                                                              *)

\* Every reachable state of Pipeline satisfies the inductive invariant, which
\* TLC checks on small instances as an invariant of the run "safety".
THEOREM Invariance == Spec => []IInv
  <1>1. Init => Typed /\ Safe
    BY InitTyped, InitSafe
  <1>2. Typed /\ Safe /\ [Next]_vars => Typed' /\ Safe'
    BY WorkerStepTyped, ProducerStepTyped, StepSafe, StutterInvariant DEF Next
  <1>3. Spec => [](Typed /\ Safe)
    BY <1>1, <1>2, PTL DEF Spec
  <1> QED BY <1>3, IInvParts, PTL

\* No variable leaves its type.
THEOREM TypeCorrect == Spec => []TypeOK
  <1>1. IInv => TypeOK
    BY DEF IInv
  <1> QED BY <1>1, Invariance, PTL

\* Whatever is retried, redelivered, recovered, timed out or believed stalled,
\* however many executions of a message overlap: at most one POST goes to Meta
\* for it, with the text on record.
THEOREM AtMostOneReply == Spec => []OneReplySent
  <1>1. IInv => OneReplySent
    BY DEF IInv
  <1> QED BY <1>1, Invariance, PTL

\* Neither row says "sent" of a reply Meta did not accept.
THEOREM SentIsTrue == Spec => []SentMeansAccepted
  <1>1. IInv => SentMeansAccepted
    BY DEF IInv
  <1> QED BY <1>1, Invariance, PTL

-----------------------------------------------------------------------------
(* The pipeline implements ReplyOnce, step by step.                           *)

\* What ReplyOnce sees of a state.
Seen == <<[m \in Messages |-> outbound[m].text], posts, accepted,
          {m \in Messages : outbound[m].stamped}>>

\* A step of ReplyOnce on one message is a step of ReplyOnce.
LEMMA ContractStep ==
    ASSUME NEW n \in Messages, Contract!Compose(n) \/ Contract!Send(n) \/ Contract!Confirm(n)
    PROVE  Contract!Next
  BY DEF Contract!Next

\* No row, no POST: where ReplyOnce begins.
LEMMA InitContract == Init => Contract!Init
  BY DEF Init, StoreInit, WorkerInit, NoRow, Contract!Init

\* A status that moves within its row is invisible.
LEMMA QuietRows ==
    ASSUME StoreTypeOK, UNCHANGED <<posts, accepted>>,
           \A m \in Messages : /\ outbound'[m].text = outbound[m].text
                               /\ outbound'[m].stamped = outbound[m].stamped
    PROVE  UNCHANGED Seen
  BY DEF Seen

\* Inserting a reply composes it; losing the insert to another execution is invisible.
LEMMA GenerateComposes ==
    ASSUME Typed, Safe, NEW e \in Executions, GenerateAndPersistOutbound(e)
    PROVE  Contract!Next \/ UNCHANGED Seen
  <1>0. PICK m \in Messages : m = exec[e].msg
    BY DEF Typed, ExecTyped, GenerateAndPersistOutbound, At
  <1>1. m \in Messages /\ StoreTypeOK /\ UNCHANGED <<posts, accepted>>
    BY DEF Typed, GenerateAndPersistOutbound
  <1>2. PICK t \in Texts : InsertOutbound(m, t)
    BY <1>0 DEF GenerateAndPersistOutbound
  <1>3. CASE outbound[m].status = "none"
    <2>1. \A n \in Messages :
            IF n = m THEN outbound'[n].text = t /\ outbound'[n].stamped = FALSE
                     ELSE outbound'[n] = outbound[n]
      BY <1>1, <1>2, <1>3 DEF InsertOutbound, StoreTypeOK
    <2>2. outbound[m].text = NoText /\ ~outbound[m].stamped
      BY <1>1, <1>3 DEF Safe, RowShape
    <2>3. {n \in Messages : outbound'[n].stamped} = {n \in Messages : outbound[n].stamped}
      BY <1>1, <2>1, <2>2
    <2>4. [n \in Messages |-> outbound'[n].text]
            = [[n \in Messages |-> outbound[n].text] EXCEPT ![m] = t]
      BY <1>1, <2>1
    <2>5. Contract!Compose(m)
      BY <1>1, <2>2, <2>3, <2>4 DEF Contract!Compose
    <2> QED BY <1>1, <2>5, ContractStep
  <1>4. CASE outbound[m].status # "none"
    BY <1>1, <1>2, <1>4 DEF InsertOutbound, Seen
  <1> QED BY <1>3, <1>4

\* ReplyOnce does not see who holds a row, or that it failed.
LEMMA ClaimIsInvisible ==
    ASSUME Typed, NEW e \in Executions, MarkOutboundSending(e) \/ FinalFailureOutbound(e)
    PROVE  UNCHANGED Seen
  <1>1. PICK m \in Messages : ClaimOutbound(m) \/ FailOutbound(m)
    BY DEF Typed, ExecTyped, FinalizerTyped, MarkOutboundSending, FinalFailureOutbound, At
  <1>2. StoreTypeOK /\ UNCHANGED <<posts, accepted>> /\ outbound[m] \in OutboundRow
    BY DEF Typed, StoreTypeOK, MarkOutboundSending, FinalFailureOutbound
  <1>3. \A n \in Messages : /\ outbound'[n].text = outbound[n].text
                            /\ outbound'[n].stamped = outbound[n].stamped
    BY <1>1, <1>2 DEF ClaimOutbound, FailOutbound, StoreTypeOK, OutboundRow
  <1> QED BY <1>2, <1>3, QuietRows

\* By the claim, the POST is the one Send of the message.
LEMMA PostSends ==
    ASSUME Typed, Safe, NEW e \in Executions, SendTextMessage(e)
    PROVE  Contract!Next
  <1>0. PICK m \in Messages : m = exec[e].msg
    BY DEF Typed, ExecTyped, SendTextMessage, At
  <1> DEFINE reply == [n \in Messages |-> outbound[n].text]
  <1>1. m \in Messages /\ UNCHANGED outbound /\ accepted' \in {accepted, accepted \cup {m}}
    BY <1>0 DEF SendTextMessage, storeVars
  <1>2. /\ posts[m] = <<>> /\ outbound[m].text \in Texts
        /\ posts' = [posts EXCEPT ![m] = <<outbound[m].text>>]
    BY <1>0, SendTextMessageSafe
  <1>3. reply[m] = outbound[m].text /\ reply[m] # NoText
    BY <1>1, <1>2
  <1>4. Contract!Send(m)
    BY <1>1, <1>2, <1>3 DEF Contract!Send
  <1> QED BY <1>1, <1>4, ContractStep

\* markReplySent reports a reply Meta has accepted.
LEMMA RecordConfirms ==
    ASSUME Typed, Safe, NEW e \in Executions, MarkReplySent(e)
    PROVE  Contract!Next
  <1>0. PICK m \in Messages : m = exec[e].msg
    BY DEF Typed, ExecTyped, MarkReplySent, At
  <1>1. m \in Messages /\ StoreTypeOK /\ UNCHANGED <<posts, accepted>> /\ m \in accepted
    BY <1>0, MarkReplySentSafe DEF Typed, MarkReplySent
  <1>2. /\ outbound'[m].text = outbound[m].text /\ outbound'[m].stamped = TRUE
        /\ \A n \in Messages : n # m => outbound'[n] = outbound[n]
    <2>1. outbound[m] \in OutboundRow
      BY <1>1 DEF StoreTypeOK
    <2> QED BY <1>0, <1>1, <2>1 DEF MarkReplySent, StampOutbound, StoreTypeOK, OutboundRow
  <1>3. [n \in Messages |-> outbound'[n].text] = [n \in Messages |-> outbound[n].text]
    BY <1>2
  <1>4. {n \in Messages : outbound'[n].stamped} = {n \in Messages : outbound[n].stamped} \cup {m}
    BY <1>1, <1>2
  <1>5. Contract!Confirm(m)
    BY <1>1, <1>3, <1>4 DEF Contract!Confirm
  <1> QED BY <1>1, <1>5, ContractStep

\* A calm step changes nothing ReplyOnce sees.
LEMMA CalmIsInvisible == Calm => UNCHANGED Seen
  BY DEF Calm, Seen

\* Every step of the pipeline is a step of ReplyOnce or invisible to it.
LEMMA StepContract ==
    ASSUME Typed, Safe, Next
    PROVE  Contract!Next \/ UNCHANGED Seen
  <1>1. CASE ProducerStep
    BY <1>1, ProducerStepCalm, CalmIsInvisible
  <1>2. ASSUME NEW e \in Executions, Execute(e)
        PROVE  Contract!Next \/ UNCHANGED Seen
    <2>1. CASE FindReply(e) \/ MetaAnswers(e)
      BY <2>1 DEF FindReply, MetaAnswers, storeVars, Seen
    <2>2. CASE MarkInboundSent(e) \/ MarkInboundProcessing(e) \/ MarkInboundReplyGenerated(e)
                 \/ Return(e) \/ Throw(e)
      BY <2>2, CalmWorkerSteps, CalmIsInvisible
    <2> QED BY <1>2, <2>1, <2>2, GenerateComposes, ClaimIsInvisible, PostSends, RecordConfirms
            DEF Execute
  <1>3. ASSUME NEW e \in Executions,
               \/ \E m \in Messages : StartAttempt(e, m)
               \/ JobTimeout(e) \/ FinalFailureInbound(e) \/ FinalFailureLost(e) \/ WorkerDies(e)
        PROVE  UNCHANGED Seen
    BY <1>3, CalmWorkerSteps, CalmIsInvisible
  <1>4. ASSUME NEW e \in Executions, FinalFailureOutbound(e) PROVE UNCHANGED Seen
    BY <1>4, ClaimIsInvisible
  <1>5. ASSUME NEW m \in Messages, StallCheck(m) \/ GiveUpStalled(m) PROVE UNCHANGED Seen
    BY <1>5, StallStepsCalm, CalmIsInvisible
  <1> QED BY <1>1, <1>2, <1>3, <1>4, <1>5 DEF Next, WorkerStep, WorkerNext, FinalFailure

\* Every behaviour of the pipeline, seen through the rows and what Meta got, is
\* a behaviour of ReplyOnce: the reply is composed once, sent at most once, with
\* that text, and confirmed only when Meta has accepted it.
THEOREM ImplementsReplyOnce == Spec => KeepsContract
  <1>1. Init => Contract!Init
    BY InitContract
  <1>2. Typed /\ Safe /\ [Next]_vars => [Contract!Next]_(Contract!vars)
    <2> SUFFICES ASSUME Typed, Safe, [Next]_vars
                 PROVE  Contract!Next \/ UNCHANGED Seen
      BY DEF Contract!vars, Seen
    <2>1. CASE UNCHANGED vars
      BY <2>1 DEF vars, Seen
    <2> QED BY <2>1, StepContract
  <1>3. Spec => []IInv
    BY Invariance
  <1>4. IInv => Typed /\ Safe
    BY IInvParts
  <1> QED BY <1>1, <1>2, <1>3, <1>4, PTL DEF Spec, KeepsContract, Contract!Spec

\* Once a reply may have gone out its row is never sendable again, and neither a
\* recorded success nor a stored text is ever undone.
THEOREM RowsNeverReopen == Spec => ReplyNeverReopens
  <1> DEFINE Kept(m) ==
         /\ outbound[m].status \in {"sending", "failed", "sent"}
              => outbound'[m].status \notin {"none", "reply_generated"}
         /\ outbound[m].status = "sent" => outbound'[m].status = "sent"
         /\ outbound[m].text # NoText => outbound'[m].text = outbound[m].text
  <1>1. ASSUME Typed, Safe, Next, NEW m \in Messages
        PROVE  Kept(m)
    <2>0. StoreTypeOK /\ outbound[m] \in OutboundRow
      BY <1>1 DEF Typed, StoreTypeOK
    <2>1. CASE UNCHANGED outbound
      BY <2>1
    <2>2. ASSUME NEW n \in Messages,
                 \/ \E t \in Texts : InsertOutbound(n, t)
                 \/ ClaimOutbound(n) \/ StampOutbound(n) \/ FailOutbound(n)
          PROVE  Kept(m)
      <3>1. CASE \E t \in Texts : InsertOutbound(n, t)
        BY <1>1, <2>0, <3>1 DEF InsertOutbound, StoreTypeOK, Safe, RowShape
      <3>2. CASE ClaimOutbound(n)
        BY <2>0, <3>2 DEF ClaimOutbound, StoreTypeOK, OutboundRow
      <3>3. CASE StampOutbound(n)
        BY <2>0, <3>3 DEF StampOutbound, StoreTypeOK, OutboundRow
      <3>4. CASE FailOutbound(n)
        BY <1>1, <2>0, <3>4 DEF FailOutbound, StoreTypeOK, OutboundRow, Safe, RowShape
      <3> QED BY <2>2, <3>1, <3>2, <3>3, <3>4
    <2>3. \A e \in Executions :
            /\ exec[e].pc # "idle" => exec[e].msg \in Messages
            /\ finalizer[e].step # "none" => finalizer[e].msg \in Messages
      BY <1>1 DEF Typed, ExecTyped, FinalizerTyped
    <2>4. \/ UNCHANGED outbound
          \/ \E n \in Messages :
               \/ \E t \in Texts : InsertOutbound(n, t)
               \/ ClaimOutbound(n) \/ StampOutbound(n) \/ FailOutbound(n)
      <3>1. CASE ProducerStep
        BY <1>1, <3>1, ProducerStepCalm DEF Calm
      <3>2. ASSUME NEW e \in Executions, Execute(e)
            PROVE  \/ UNCHANGED outbound
                   \/ \E n \in Messages : \/ \E t \in Texts : InsertOutbound(n, t)
                                          \/ ClaimOutbound(n) \/ StampOutbound(n)
        BY <2>3, <3>2
           DEF Execute, FindReply, MarkInboundSent, MarkInboundProcessing,
               GenerateAndPersistOutbound, MarkInboundReplyGenerated, MarkOutboundSending,
               SendTextMessage, MetaAnswers, MarkReplySent, Return, Throw, At, storeVars
      <3>3. ASSUME NEW e \in Executions, FinalFailureOutbound(e)
            PROVE  \E n \in Messages : FailOutbound(n)
        BY <2>3, <3>3 DEF FinalFailureOutbound
      <3>4. ASSUME NEW e \in Executions,
                   \/ \E n \in Messages : StartAttempt(e, n)
                   \/ JobTimeout(e) \/ FinalFailureInbound(e) \/ FinalFailureLost(e)
                   \/ WorkerDies(e)
            PROVE  UNCHANGED outbound
        BY <3>4 DEF StartAttempt, JobTimeout, FinalFailureInbound, FinalFailureLost,
                    WorkerDies, storeVars
      <3>5. ASSUME NEW n \in Messages, StallCheck(n) \/ GiveUpStalled(n)
            PROVE  UNCHANGED outbound
        BY <3>5 DEF StallCheck, GiveUpStalled, storeVars
      <3> QED BY <1>1, <3>1, <3>2, <3>3, <3>4, <3>5
              DEF Next, WorkerStep, WorkerNext, FinalFailure
    <2> QED BY <2>1, <2>2, <2>4
  <1>2. Typed /\ Safe /\ [Next]_vars => [\A m \in Messages : Kept(m)]_vars
    BY <1>1
  <1>3. Spec => []IInv
    BY Invariance
  <1>4. IInv => Typed /\ Safe
    BY IInvParts
  <1> QED BY <1>2, <1>3, <1>4, PTL DEF Spec, ReplyNeverReopens
====
