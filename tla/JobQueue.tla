---- MODULE JobQueue ----
(* The BullMQ queue "process-inbound-message" as the code uses it: one job    *)
(* per message (jobId = tenantId-messageId), a fixed number of attempts, jobs *)
(* removed as soon as they complete or fail for good.  What BullMQ does on    *)
(* its own (locks, stalled jobs) is modelled from its documented behaviour.   *)
EXTENDS Naturals, MessageIds

CONSTANTS Executions,   \* calls of the job processor that may be alive together
          NoExecution,  \* the owner of a job whose lock nobody renews
          MaxAttempts,  \* PROCESS_INBOUND_MESSAGE_ATTEMPTS
          MaxStalls     \* BullMQ's maxStalledCount, left at its default

ASSUME JobQueueAssumption ==
    /\ NoExecution \notin Executions
    /\ MaxAttempts \in Nat \ {0}
    /\ MaxStalls \in Nat

VARIABLE job            \* message -> its job in Redis

JobRecord == [state : {"none", "waiting", "active"},
              attempts : 0 .. (MaxAttempts - 1),
              stalls : 0 .. MaxStalls,
              owner : Executions \cup {NoExecution}]

NoJob == [state |-> "none", attempts |-> 0, stalls |-> 0, owner |-> NoExecution]

QueueTypeOK == job \in [Messages -> JobRecord]

QueueInit == job = [m \in Messages |-> NoJob]

HasJob(m) == job[m].state # "none"

Owns(e, m) == job[m].state = "active" /\ job[m].owner = e

\* queue.add with a jobId that is still in Redis leaves the job as it is.
AddJob(m) ==
    job' = IF HasJob(m) THEN job ELSE [job EXCEPT ![m] = [NoJob EXCEPT !.state = "waiting"]]

\* A worker fetches the job and holds its lock for execution e.
TakeJob(e, m) ==
    /\ job[m].state = "waiting"
    /\ job' = [job EXCEPT ![m].state = "active", ![m].owner = e]

\* removeOnComplete, removeOnFail
RemoveJob(m) == job' = [job EXCEPT ![m] = NoJob]

\* Mutant of LastAttempt: one attempt too many.
LastAttemptLate(m) == job[m].attempts >= MaxAttempts

LastAttempt(m) == job[m].attempts + 1 >= MaxAttempts

\* Mutant of RetryJob: the attempt is not counted.
RetryJobUncounted(m) ==
    job' = [job EXCEPT ![m].state = "waiting", ![m].owner = NoExecution]

\* A rejected attempt with attempts left waits for its backoff and is run again.
RetryJob(m) ==
    job' = [job EXCEPT ![m].state = "waiting", ![m].owner = NoExecution,
                       ![m].attempts = @ + 1]

\* The stalled-jobs check finds an active job whose lock expired and requeues it.
RequeueStalled(m) ==
    /\ job[m].stalls < MaxStalls
    /\ job' = [job EXCEPT ![m].state = "waiting", ![m].owner = NoExecution,
                          ![m].stalls = @ + 1]

\* The process that held the lock is gone; the job stays active until it stalls.
LoseOwner(e) ==
    job' = [m \in Messages |->
              IF Owns(e, m) THEN [job[m] EXCEPT !.owner = NoExecution] ELSE job[m]]
====
