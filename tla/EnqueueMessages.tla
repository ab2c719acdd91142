---- MODULE EnqueueMessages ----
(* The two producers of jobs: the webhook's POST handler (webhook-routes.ts),  *)
(* which persists each message of a delivery and enqueues it, and the recovery *)
(* command (re-enqueue-recoverable-messages-use-case.ts), which enqueues what  *)
(* it finds "received" or "failed".  Both decide from a status they read once, *)
(* then add the job in Redis, then record "queued" in Postgres: two stores, no *)
(* transaction, and each of the calls may fail.                                *)
EXTENDS MessageStore, JobQueue, FiniteSets

CONSTANTS WebhookHandlers,  \* POST /webhook requests in progress
          RecoveryRuns,     \* recovery commands in progress
          RecoveryLimit,    \* at most this many messages per recovery command
          ReceivedAt        \* place of each message in the recovery command's
                            \* order (receivedAt, createdAt, id), which is total

Producers == WebhookHandlers \cup RecoveryRuns

ASSUME ProducersAssumption ==
    /\ WebhookHandlers \cap RecoveryRuns = {}
    /\ RecoveryLimit \in Nat \ {0}
    /\ ReceivedAt \in [Messages -> Nat]
    /\ \A m, n \in Messages : ReceivedAt[m] = ReceivedAt[n] => m = n

VARIABLE producer           \* producer -> where it is in its loop

ProducerRecord == [pc : {"idle", "next", "enqueue", "mark_queued"},
                   todo : SUBSET Messages,
                   msg : Messages \cup {NoMessage}]

NoWork == [pc |-> "idle", todo |-> {}, msg |-> NoMessage]

ProducerTypeOK == producer \in [Producers -> ProducerRecord]

ProducerInit == producer = [p \in Producers |-> NoWork]

\* The loop goes on with what is left, or the producer answers and is done.
Continue(p, todo) ==
    producer' = [producer EXCEPT ![p] =
                   IF todo = {} THEN NoWork ELSE [NoWork EXCEPT !.pc = "next", !.todo = todo]]

GoEnqueue(p, m) ==
    producer' = [producer EXCEPT ![p] =
                   [pc |-> "enqueue", todo |-> @.todo \ {m}, msg |-> m]]

\* Meta delivers messages, new ones or again; their order in the payload is free.
Deliver(w) ==
    /\ producer[w].pc = "idle"
    /\ \E batch \in SUBSET Messages \ {{}} : Continue(w, batch)
    /\ UNCHANGED <<storeVars, job>>

\* ReceiveInboundMessageUseCase creates the row; a row that is there is a
\* duplicate, retried only in a recoverable status and skipped otherwise.
Receive(w, m) ==
    /\ producer[w].pc = "next"
    /\ m \in producer[w].todo
    /\ IF inbound[m] = "absent" THEN SetInbound(m, "received") ELSE UNCHANGED inbound
    /\ IF inbound[m] = "absent" \/ Recoverable(m)
       THEN GoEnqueue(w, m)
       ELSE Continue(w, producer[w].todo \ {m})
    /\ UNCHANGED <<outbound, job>>

\* The use case throws: the message is skipped and the request still answers
\* 200.  The transaction may have committed before its connection was lost.
ReceiveFails(w, m) ==
    /\ producer[w].pc = "next"
    /\ m \in producer[w].todo
    /\ UNCHANGED inbound \/ (inbound[m] = "absent" /\ SetInbound(m, "received"))
    /\ Continue(w, producer[w].todo \ {m})
    /\ UNCHANGED <<outbound, job>>

OlderThan(m, S) == {n \in S : ReceivedAt[n] < ReceivedAt[m]}

\* One SELECT of the recoverable inbound rows, oldest first, up to the limit.
Scan(r) ==
    LET recoverable == {m \in Messages : Recoverable(m)}
    IN /\ producer[r].pc = "idle"
       /\ recoverable # {}
       /\ Continue(r, {m \in recoverable :
                         Cardinality(OlderThan(m, recoverable)) < RecoveryLimit})
       /\ UNCHANGED <<storeVars, job>>

\* The next message of the SELECT's result, as it was when it was read.
TakeScanned(r, m) ==
    /\ producer[r].pc = "next"
    /\ m \in producer[r].todo
    /\ OlderThan(m, producer[r].todo) = {}
    /\ GoEnqueue(r, m)
    /\ UNCHANGED <<storeVars, job>>

Enqueue(p) ==
    /\ producer[p].pc = "enqueue"
    /\ AddJob(producer[p].msg)
    /\ producer' = [producer EXCEPT ![p].pc = "mark_queued"]
    /\ UNCHANGED storeVars

\* queue.add rejects, with the job added or not: the message is skipped.
EnqueueFails(p) ==
    /\ producer[p].pc = "enqueue"
    /\ UNCHANGED job \/ AddJob(producer[p].msg)
    /\ Continue(p, producer[p].todo)
    /\ UNCHANGED storeVars

\* markQueued.  No row in a recoverable status is an error both producers
\* swallow, as they do a failing UPDATE (MarkQueuedFails).
MarkQueued(p) ==
    LET m == producer[p].msg
    IN /\ producer[p].pc = "mark_queued"
       /\ IF Recoverable(m) THEN SetInbound(m, "queued") ELSE UNCHANGED inbound
       /\ Continue(p, producer[p].todo)
       /\ UNCHANGED <<outbound, job>>

MarkQueuedFails(p) ==
    /\ producer[p].pc = "mark_queued"
    /\ Continue(p, producer[p].todo)
    /\ UNCHANGED <<storeVars, job>>

\* The server or the command dies with the request half done.
ProducerDies(p) ==
    /\ producer[p].pc # "idle"
    /\ producer' = [producer EXCEPT ![p] = NoWork]
    /\ UNCHANGED <<storeVars, job>>

EnqueueOne(p) == Enqueue(p) \/ EnqueueFails(p) \/ MarkQueued(p) \/ MarkQueuedFails(p)

ProducerNext ==
    \/ \E w \in WebhookHandlers : Deliver(w)
    \/ \E w \in WebhookHandlers, m \in Messages : Receive(w, m) \/ ReceiveFails(w, m)
    \/ \E r \in RecoveryRuns : Scan(r)
    \/ \E r \in RecoveryRuns, m \in Messages : TakeScanned(r, m)
    \/ \E p \in Producers : EnqueueOne(p) \/ ProducerDies(p)
====
