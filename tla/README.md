# A verification development of the WhatsApp reply pipeline

This directory models the backend in `src/`: a Fastify server that receives
WhatsApp messages from Meta, a BullMQ worker that answers each of them once with
a text from an AI provider, and the Postgres tables and Redis queue they share.
The TLA+ modules are translated from the code, TLC checks them on small
instances, and TLAPS proves the main results for every instance. Paths below are
relative to the repository; `process-inbound` stands for
`src/modules/messages/process-inbound-message-use-case.ts`, `receive-inbound` and
`re-enqueue` for its neighbours.

## 1. The system

| Component | State | Operations | Interacts with |
|---|---|---|---|
| Webhook, `webhook-routes.ts` | none of its own; one loop per request | GET handshake; POST: check signature, parse, and per message receive, enqueue, mark queued | receive-inbound, queue, status service |
| Payload parser, `meta-payload-parser.ts` | none | JSON to a list of text messages | webhook |
| Receiving a message, `receive-inbound` | rows of contacts, conversations, messages | one transaction: find, upsert contact, find or create conversation, insert | Postgres |
| Status service, `message-processing-status-service.ts` | inbound status | `markQueued` | Postgres |
| Recovery command, `re-enqueue` and its CLI | none of its own; one loop per run | SELECT the received and failed, then enqueue and mark queued each | Postgres, queue |
| Queue, `infra/queue` | one job per message in Redis | `add` with a fixed job id; 3 attempts with backoff; removal at the end | producers, worker |
| Worker, `worker.ts` | jobs being executed, final failures being written | run with a timeout; on failure retry or mark the final failure; shutdown | queue, process-inbound |
| Processing, `process-inbound` | inbound status, outbound row | find the reply, mark, generate, claim, POST, record; `markFinalFailure` | Postgres, AI, Meta |
| Meta client, `meta-client.ts` | what Meta has received | POST with a 10 s timeout | Meta |
| AI providers, knowledge base | none | text from history and documents | processing |
| REST API, `modules/conversations`, `modules/tenants` | none | list a tenant's conversations and messages | Postgres |

What is hard here. (1) Every `await` is an interleaving point, and several
processes share the tables. (2) Postgres and Redis are written one after the
other, in no common transaction. (3) The job timeout (`worker.ts:27-44`) rejects
an attempt and cannot stop it: the execution goes on beside its retry. (4) BullMQ
hands a job out again when its lock was not renewed. (5) A POST whose answer is
lost may or may not have reached the customer, and Meta has no idempotency key.
(6) `markFinalFailure` runs after the job is gone and is two separate UPDATEs.
(7) Each producer acts on a status it read earlier. (8) Meta delivers a message
again, also while the first delivery is being handled.

What makes each part correct:

- processing and worker: at most one POST per message, with the stored text; the
  database never says more than Meta has accepted; a begun message ends;
- queue: a job leaves Redis after a bounded number of attempts and stalls;
- producers: if recovery runs, a message that was persisted ends as sent or failed;
  a stale list or status leads to no second reply;
- receiving: one row per Meta message, one active conversation per customer, and
  true answers, under any overlap and failure; no deadlock;
- parser and webhook: exactly the supported text messages, in order, and one that
  fails costs no other its row;
- REST API: no row of another tenant, and pages that together leave nothing out;
- composition of a reply: from the conversation as it was, the question said once;
- knowledge base: editing one document does not take another from a reply.

The full list of hazards, each at its line and with the property that covers it,
is `PROJECT.json` under `hazards`.

## 2. The modules

| Module | Models |
|---|---|
| `MessageIds` | the id that rows, jobs and processes share |
| `MessageStore` | the inbound row and the outbound row of each message; one operator per SQL statement |
| `JobQueue` | the BullMQ queue: job state, attempts, stalls, lock owner |
| `ProcessInbound` | the worker: executions, final failures, POSTs to Meta, timeouts, stalls, crashes |
| `EnqueueMessages` | the webhook's loop and the recovery command's loop |
| `Pipeline` | the composition of the above, its properties, its invariant, its fairness |
| `ReplyOnce` | the abstract promise: compose once, send at most once, confirm what was accepted |
| `PipelineProofs` | theorems about `Pipeline` |
| `ReceiveInbound` | concurrent transactions that receive messages, statement by statement |
| `Inbox` | the abstract, atomic receive |
| `ReceiveInboundProofs` | theorems about `ReceiveInbound` |
| `AttendedProofs` | the theorem about `Pipeline` without faults |
| `PayloadParser` | which messages a payload carries: schema, loops, trimming, names, timestamps; and a reference definition by position |
| `PayloadParserProofs` | the theorem that the loops compute the reference definition, and lemmas on `FlattenSeq` and induction |
| `WebhookRequest` | `POST /webhook` from bytes and signature to the answer, over the messages the parser finds |
| `WebhookRequestProofs` | theorems about `WebhookRequest` |
| `RestReads` | the two GET endpoints: tenant middleware, validation, SELECTs, and a client that reads page after page |
| `RestReadsProofs` | theorems about `RestReads` |
| `ComposeReply` | what a reply is composed from: history, prompt, and the insert that decides whose reply it is |
| `ComposeReplyProofs` | theorems about `ComposeReply` |
| `KnowledgeBase` | loading the documents beside somebody who edits them |
| `KnowledgeBaseProofs` | theorems about `KnowledgeBase` |
| `MC...` | values of the constants and symmetries for TLC |

`Pipeline` is composed by extension: `ProcessInbound` and `EnqueueMessages` both
extend `MessageStore` and `JobQueue`, so an action of either states what it does
to the shared rows and jobs. `Pipeline` uses the receipt of a message as one
action (`Receive`); `ReceiveInbound` is the detail behind it, and implements
`Inbox`, which is that action. `WebhookRequest` takes the body of the webhook's loop,
which `EnqueueMessages` has statement by statement, as one step, and looks at what
surrounds it. `ComposeReply` is the detail of `GenerateAndPersistOutbound`, which
in `Pipeline` chooses any text.

### State and code

- `inbound[m]`: `processingStatus` of the row of customer message `m`, or
  `absent`. `outbound[m]`: the row that answers it: status, text, and whether
  `sentAt` is set. The unique index on `(tenantId, replyToMessageId)`
  (`schema.ts:148-152`) makes this a function of `m`.
- `job[m]`: the job named `tenantId-messageId`. `owner` is the execution that holds
  its lock; an execution whose attempt was rejected, or that lost its lock, is not
  the owner and runs on.
- `exec[e]`: where one call of `execute()` is, with what it has read: the message,
  whether a reply existed, and the claimed text. `finalizer[e]`: where the
  `markFinalFailure` started by that call's rejection is.
- `posts[m]`, `accepted`: what was POSTed to Meta and what Meta took.
- `producer[p]`: where a webhook request or a recovery run is in its loop.

### Actions and code

One action per stretch between two awaits that touch shared state.
`FindReply` reads the outbound row and branches (`process-inbound:39-76`);
`MarkInboundSent`, `MarkInboundProcessing`, `MarkInboundReplyGenerated`,
`MarkOutboundSending` and `MarkReplySent` are the methods of those names;
`GenerateAndPersistOutbound` is AI call and insert, whose conflict branch keeps
the row that is there; `SendTextMessage` and `MetaAnswers` split the POST from its
answer. `Return` is the resolved promise and the removal of a job still owned.
`Throw` is a rejection at any await: the error branches of `execute()`, a failing
statement, a refusal or timeout of Meta, and (at `return`) a commit whose
acknowledgement was lost. `RejectAttempt` is what BullMQ and the `failed` handler
(`worker.ts:60-106`) then do. `JobTimeout` rejects and leaves the execution
running. `StallCheck` and `GiveUpStalled` are BullMQ's stalled-jobs check;
whether the `failed` event after giving up reaches `markFinalFailure` depends on
what BullMQ attaches to it, so both are allowed.

The producers' actions follow the loops line by line: `Receive`, `Enqueue`,
`MarkQueued`, each with the failure its `catch` swallows (`ReceiveFails`,
`EnqueueFails`, `MarkQueuedFails`), and `Scan`, `TakeScanned` for the SELECT and
the loop over its result.

`ReceiveInbound` has one action per statement of the transaction. A statement sees
what is committed; an insert waits for an open transaction with the same unique
key; the upsert of the contact locks its row to the end of the transaction.
On a conflict the code reads the winner's row again; as such rows are never
deleted and their keys never change, insert and second read are one action.

`PayloadParser` describes a JSON string as a word with or without blanks around it
and a timestamp by what `Number()` and `Date` make of it. Payloads (`JsonPayloads`) are
sequences of any length of entries, changes, contacts and messages. `Parse` follows
the three nested loops, each of which is the list of what its rounds push
(`FlattenSeq`), and `ContactNames` the `Map` of names, `set` after `set`; `Accepted`
has the conditions of one message. `Reference` says by position what the loops are
to find.
`WebhookRequest` has for each request where its handler is, what it carries, how far
its loop is and which messages failed (the row of one whose commit went unheard is
there all the same, `CommitUnheard`); `row` is the status of each message's row,
which `RowMoves` (the rest of the system) changes under it.

`RestReads` has one action per SELECT (`Request` to the middleware's, the check that
the conversation exists, the list) and one for each thing that may be inserted
meanwhile (`Open`, `Arrive`, `Reply`). `updatedAt` of a conversation is set when the row
is created and by nothing in `src/` afterwards, so "latest update first" is the
order of creation. `Fail` is a SELECT that rejects: Fastify answers 500, and the
client stops. `pages`, `full`, `before` and `ahead` are the client's: what it has
been shown, whether there may be more, the whole list as it was when it set out,
and the part of that list from the offset it set out with. A negative offset stands
for every one that is refused.

`ComposeReply` has a clock, because rows are sorted by `createdAt`, the start of the
transaction that inserts them, while they are seen from its commit on. `LoadHistory`
is `loadConversationHistory` (`process-inbound:293-306`), `AskForReply` what the providers
keep of it (`openai-provider.ts:133-162`). The transactions of messages (`Begin`,
`Commit`) and of replies (`InsertOutbound`, `CommitOutbound`) each start and commit
in two steps; of two inserts for one message the one that commits first is kept.
`answered` has, for each message, the messages whose replies were on record when its
transaction began.

`KnowledgeBase` reads one directory (`ReadDirectory`) or one document
(`ReadDocument`) at a time, as the awaits of `knowledge-base-service.ts` do, while
documents are written and paths made and removed; `touched` collects which.

### Abstractions

Texts, messages and customers are model values. Tenants are left out of the
pipeline: every key and condition includes the tenant, so a message stands for a
pair. Time is left out of it too: backoff and timeouts are steps that may happen.
Logging, failure reasons and correlation ids are left out. A contact's name is
followed through the parser and not into its row. Bodies of HTTP answers are left
out beside the status code and the rows shown.

## 3. The runs

`Faults` names what the environment may do: `timeout` (an attempt outlives its
60 s), `stall` (a live execution loses its lock), `crash` (a worker dies, or shuts
down without waiting), `finalizer` (an UPDATE of `markFinalFailure` fails).
Failing calls (`Throw`, and the producers' failures) are possible in every run.

| Run | Instance | Shows |
|---|---|---|
| `safety` | 1 message, 2 executions, a request that may come again, 2 attempts, 1 stall, 2 texts, all faults, fairness | `TypeOK`, `IInv`, `OneReplySent`, `SentMeansAccepted`, `ReplyNeverReopens`, that `Pipeline` implements `ReplyOnce`, and that a job leaves Redis |
| `live` | 1 message, failing calls, a request and a recovery command, fairness | an unfinished message always has somebody who will end it, and it ends; with an operator every persisted message ends as sent or failed, or stranded (below) |
| `receive` | 3 calls, 2 customers, 4 messages, one for no tenant, fairness | concurrent receives implement `Inbox`; the invariant behind it; no deadlock, no lock left behind |
| `webhook` | a request with any of some 2000 payloads, and one with one of two | the parser finds what it should; what fails costs only itself |
| `rest` | 2 tenants, 3 conversations, one of 4 messages, limits 0 to 4, first offsets -1 to 1 | refusals, isolation, order and paging, from the beginning of a list and from behind it |
| `compose_reply` | 3 executions, 3 messages, 2 rows of history | whose reply is recorded, and what it was composed from |
| `knowledge_base` | 3 documents and a file of another kind in 3 directories, 2 texts, every tree to start from | what a load that is disturbed still has |

Why the bounds are enough. In the pipeline the store's rows are functions of the
message and no statement names two messages, so one message with every fault shows
what can happen to it. Two executions are the worker's concurrency and give every
pairwise race; two attempts distinguish a retry from a last attempt (three in the
code), one stall is BullMQ's default, two texts distinguish the reply on record from
one that was generated and discarded. The texts are interchangeable, also under
fairness, so `safety` uses their symmetry: no fairness condition and no temporal
property tells one from another. More messages, more executions at once, and recovery
commands beside all faults are what the theorems add (section 4). Three receiving
calls are two that conflict and one that waits for either. A payload with two
changes and two messages has every pair a loop, a `Map` or a flag could mix up;
`webhook` varies one part of a message, a contact or a number at a time, and all
pairs of messages. A list of four read by limits of one to three has full, partial
and empty last pages, arrivals before and behind the page, ties in every column of
the order, and replies, whose `receivedAt` is NULL, to each message. A history of two rows
for five overflows by one row and by more.

Fairness. A live execution goes on, since Node.js runs pending continuations and
every call in it ends or is rejected (the Meta client and the OpenAI client have
timeouts; a lost connection rejects); a final failure likewise. A waiting job is
taken as long as an execution slot is free; the stalled-jobs check runs
periodically. A request or recovery run goes through its loop. Nothing is assumed
of deliveries, of faults, or of failures. `OperatorFairness`, which `RecoveryEnds`
assumes, adds an operator who runs the recovery command again and again, such that it
does not die for ever before a message's turn and `queue.add` does not fail for ever;
of `markQueued` nothing is assumed. `RecoveryEnds` says that a persisted message then
comes to read `sent` or `failed`, a message that only ever fails included, or is
`Stranded`: that case, a late `markQueued`, is real (see `stranded`), and TLC refutes
the property without it.
In `ReceiveInbound` only statements are fair, not failures: no lock timeout is
configured, so a waiting statement is not assumed to give up.

`StartedEnds` and `UnfinishedIsAttended` are checked without timeout, stall and
crash: with them they do not hold (see `late_execution`, and the window between
the removal of the job and `markFinalFailure`, below). Deadlock checking is off in every
run: a system whose messages are all handled, or whose calls have all returned,
rightly stops, as does a client that has read a list to its end; the temporal
properties say what must not stop.

### Disagreements between documents and code

Five runs each show one, as a trace:

- `stranded`: `README.md:273-279` offers the command for messages persisted and
  not processed. A `markQueued` that runs after the job's final failure turns
  `failed` into `queued`; no job is left, and neither the command nor a redelivery
  looks at `queued`.
- `late_execution`: `docs/architecture.md:188-190` gives the meaning of
  `processing` and `sent`. An execution that outlived its timeout writes
  `processing` over the `sent` of its successor, and stops there.
- `closed_unsent`: `docs/architecture.md:166` says a reply not yet sent is reused.
  A final failure closes a reply that was never POSTed, and every later attempt
  refuses it.
- `webhook_dropped`: `docs/architecture.md:107-113` has the message persisted before
  the 200, and a failing enqueue after that as what is still answered 200. A message
  that could not be persisted, because the database failed or its timestamp became
  an invalid `Date` (`meta-payload-parser.ts:134-140`), is skipped with a 200 as well.
- `starved`: `README.md:273` offers the command for messages persisted and not
  processed. It takes the oldest up to its limit, and a message that fails is at
  once among the oldest again: with a limit of one, one such message is all the
  command ever takes.

Four more were met in the code and have no run of their own:

- `docs/final-validation.md:259` says final failure is persisted. The job is gone from
  Redis before `markFinalFailure` has written anything, and nothing waits for it
  (`worker.ts:87-105`): if the worker goes in between, or its UPDATE fails, the message
  reads `processing` or `reply_generated` for good. The same property as in `stranded`
  (`UnprocessedIsRecoverable`) is false of such a message; it needs a crash or a failing
  UPDATE, which the run leaves out so that its trace is the late `markQueued`.
- `README.md:281-283` says the recovery command does not re-enqueue queued,
  processing or sent messages. It enqueues from a list read before its loop
  (`re-enqueue:63-72`), so it does when they moved on in the meantime. No second
  reply follows: that is `AtMostOneReply`.
- `docs/backlog.md:619` says a failure in one message does not prevent the handling
  of the others. One value of a wrong type makes the schema reject the payload
  (`meta-payload-parser.ts:76-80`), and none of its messages is persisted.
  `OthersAreHandled` is about payloads the schema accepts.
- `README.md:509` says the knowledge base may be absent. ENOENT from a nested
  directory that was removed during a load (`knowledge-base-service.ts:47-55`) is
  taken for that too, and every document is left out of the reply.
  `UntouchedIsUsed` is about loads during which the directories stay.

## 4. The proofs

All are about any sets of messages, texts, executions, producers, requests, payloads,
tenants, conversations, rows, directories and files, any number of attempts and stalls
and any limits, under the named assumptions of the modules: sentinels are not members
and no JSON strings, limits are numbers, producers are of one kind, the recovery order
is total, the rows are finitely many and replies belong to the conversation they answer
in, directories form a tree, payloads are JSON values of the schema's keys. Only
`NobodyForgets` is about one set of faults, the empty one.

`PipelineProofs` proves `Spec => []IInv`. The properties alone are not inductive:
that a second POST cannot happen follows from who may hold a row. `IInv` adds that

- a row that can still be claimed was never POSTed (`ClaimableIsUnsent`),
- an execution between claim and record holds a row that is `sending`, or was
  failed under it, knows its text, and knows what it has POSTed (`ClaimHeld`),
- at most one execution per message is there (`SingleSender`),
- the shortcut for a sent reply rests on a sent row (`ShortcutIsSound`),
- a row has a text when it exists and a stamp when it is sent (`RowShape`).

The proof goes in two halves, types (`Typed`) and relations (`Safe`). Steps that
touch no outbound row and bring nobody nearer to a POST are dealt with at once
(`Calm`); the seven others have a lemma each. From `IInv` follow `TypeCorrect`,
`AtMostOneReply`, `SentIsTrue`; with it, step by step, `RowsNeverReopen` and
`ImplementsReplyOnce`: insert is `Compose`, POST is `Send`, `markReplySent` is
`Confirm`, the rest stutters.

`ReceiveInboundProofs` proves the critical section per customer that the lock on
the contact row makes (`ReceiveInvariance`), and from it that concurrent calls
implement `Inbox` (`ReceivesOneAtATime`). A corollary of the invariant is that the
conflict branch of the conversation insert (`receive-inbound:229-246`) cannot be
taken as long as the contact is upserted first.

`AttendedProofs` proves `NobodyForgets`: without faults, an unfinished message has a
job or its final failure is being written. What makes it inductive is that each live
execution owns its job (`Owned`), each active job has an owner (`ActiveIsOwned`), so
none can stall, and an execution about to return has ended its message
(`ReturnsEnded`). Each of the four faults breaks one of these or the property itself.

`RestReadsProofs` proves what reaches a SELECT (`TypeCorrect`), that no row of another
tenant is shown (`OwnRows`) and that a foreign conversation is answered as a missing
one at every moment (`ForeignIsMissing`). `ReadsAll`, that a client which reads
to the end has had every row that was there, from its first offset on, when it set
out, rests on one fact:
rows are only added, so the position of a row in its list only grows
(`PositionBelow`, `RowsGrow`, `ListGrows`), and everything of `ahead` that
has not been shown lies at or behind the offset (`ListKept`, `EdgeKept`,
`ListProgress`). A row that moved forward, as a conversation would if something
updated `updatedAt`, breaks it.

`AnswersAreBehind` says that in the pages a client is given a reply comes behind what
it answers. Both are in one list, in which a reply, whose `receivedAt` is NULL, stands
behind its message (`ReplyFollows`); so a message that is not on the reply's page lies
before the page's offset, and what of `ahead` lies there has been shown (`PageFollows`).
`RepeatsComeFromArrivals` bounds what is shown twice by what has come into the list since
the client set out. A page is a run of positions, so the showings and the rows the
client passed over with its first offset (`Passed`) are together never more than the
places before the edge it has reached, nor than the rows in the list (`RowsBetween`,
`PageCounted`); and each of the rows that fill those places was passed over, has been
seen, or came in since (`RepeatsBounded`). So the rows in front of the first offset
count on both sides and drop out.

`ComposeReplyProofs` proves an invariant (`Inductive`) about what histories and recorded
replies can hold: as long as a message has no row that answers it, no history has
one, and the first insert wins. From it follow `FirstReply` and `AskedOnce`.
`FollowUps` has an invariant of its own (`Context`): a history lacks a reply that was on
record when the question's transaction began only if as many newer rows are on record
as the limit admits (`HistoryIsLatest`). Which replies those are is settled at that
moment (`AnsweredStay`), before the question can be answered, and the rows that are
newer than one become no fewer (`AnsweredKept`, `PushedOutKept`, for which they must be
finitely many, `FewRows`). Nothing is said of a reply whose insert had started then and
not yet committed: its `createdAt` is earlier, and the history may be read without it.

`PayloadParserProofs` proves `ParserFindsTheSupported`: on every payload that passes the
schema `Parse` and `Reference` are equal. The parser's loops are folds over sequences
of any length, so the proof goes by induction, which is done with sets: a set that
has 0, and `n + 1` whenever it has `n`, has all numbers up to any one (`UpTo`, from
`WFMin` and the order of the numbers). It gives the rounds of `FlattenSeq`
(`FlattenRounds`) and of the `Map` (`NamesRounds`), whose entry is the last name given
(`LastNameCounts`). A list `Reads` a set of positions if an increasing enumeration of
them is what was read; lists joined in order read both sets (`ReadsBoth`), so a
flattened list reads them all (`FlattenReads`). Message (`MessageRead`), change, entry
and payload (`ChangeReads`, `EntryReads`, `ParseReads`) each use the one before. At the
end positions have only one increasing enumeration (`OneOrder`), which is therefore
the one `Reference` chooses (`ChosenOrder`).

`WebhookRequestProofs` proves the invariant of the handler (`Handling`): an authentic
request that is past its check has the list its payload was parsed into, each message
it has tried failed itself or is kept, and an answered one has tried all. A row never
disappears (`RowsStay`), so a message that is kept stays kept whatever other requests
and the rest of the system do. With the parser's theorem it gives
`LoopsOverTheSupported` and `FailuresStayAlone`.

`KnowledgeBaseProofs` proves `LoadLeadsOn`, the invariant of a load: as long as no
directory came or went, what is still to be read is there, and each document nobody
touched is below a directory still to be read, listed, or in the context with the text
it has. When no directory is left to be read all have been (`AllRead`), as one that
was passed over would have no way up to the base: this is where the tree is needed.
`UntouchedAreUsed` follows.

Each safety property a run checks is thus a theorem too. Only model-checked is all
liveness (`StartedEnds`, `JobSettles`, `RecoveryEnds`, `CallsReturn`), since the
prover does not handle fairness. The five disagreements of section 3 are traces.

## 5. Not modelled, and the plan

Not modelled: the GET handshake, which compares three strings; HMAC, which is taken
to tell two bodies apart; the truncation of texts and the wording of prompts; the
stub provider's choice of a paragraph; a contact's name and timestamps in its row;
configuration, start-up and logging; the mock of Meta, whose behaviour is part of
what `SendTextMessage` and `Throw` allow. They keep no state, or none a property is
about.

Left for later:

1. The contact's name in `ReceiveInbound`, for requests that are handled out of order.
2. The steps of the pipeline that bring a message nearer to its end, as action
   properties: the safety half of what `StartedEnds` shows under fairness.
