# Formal models of Piki

Piki answers WhatsApp and web messages about BuenPick. This directory holds TLA+
models of its stateful core, the TLC configurations that check them on small
instances, and TLAPS proofs of the main guarantees for instances of any size.
Source paths below are relative to `src/piki/` of the repository.

## The system

| Component | Source | State it keeps | Operations |
|---|---|---|---|
| Meta webhook ingress | `api/meta_webhook.py`, `integrations/meta/` | none of its own | `receive` → `normalize_webhook` → `ingest`: records messages, then applies status callbacks one by one |
| Processing outbox | `db/processing.py` | `processing_status`, `_attempts`, `_available_at`, `_claimed_at` of the inbound rows | `claim_next`, `complete`, `fail` |
| Conversation repository | `db/conversations.py` | conversations, messages | `record_inbound`, `record_outbound`, `find_message`, `recent_messages` |
| Conversation lock | `state/coordination.py` | a Redis key per conversation | `acquire` (SET NX EX), `release` (compare-and-delete) |
| Message deduplicator | `state/coordination.py` | a Redis key per message | `claim`; nobody uses its answer |
| Conversation orchestrator | `conversation/service.py` | none of its own | `respond_persisted` (WhatsApp), `respond` (web), `_compose_reply` |
| Conversation worker | `conversation/worker.py`, `worker/main.py` | the job in progress | `process_once` in a loop, several processes |
| Delivery store and service | `delivery/service.py` | delivery attempts, status events | `claim`, `finalize`, `apply_callback`, `send` |
| Meta delivery adapter | `integrations/meta/delivery.py` | none | `send`: one HTTP request, never retried |
| Handoffs | `db/handoffs.py` | handoff rows, conversation status | `request` |
| Active pick, pick image | `state/active_pick.py`, `use_cases/pick_image.py` | a Redis key per conversation | `set`, `get`, `clear`, `remember`, `resolve`, `prepare` |
| Pending actions | `state/pending_actions.py` | a Redis key per conversation | `set`, `get`, `consume`, `clear` |
| BuenPick client and tools | `integrations/buenpick/`, `tools/`, `evidence/` | none | requests with bounded retries, mapping of results to evidence |
| Response engine | `composition/`, `prompts/` | none | compose, validate grounding, fall back |
| LLM providers | `integrations/llm/` | none | HTTP requests with bounded retries |
| Application, configuration, console | `api/app.py`, `core/`, `web/`, `observability/` | none | wiring |

How they interact: the webhook commits an inbound row and answers 200. A worker
claims the row (PostgreSQL), takes the lock of the conversation (Redis), looks for a
stored reply, requests a handoff or composes a text, stores it, releases the lock,
claims the idempotency key of the delivery (PostgreSQL), posts to Meta, finalizes the
attempt and settles the row. Meta later reports on the request with status callbacks,
which arrive at the webhook in any order, repeatedly and concurrently. There is no
transaction across any two of these steps.

What is hard about it: workers are processes that die between any two steps; a claim
times out while its worker is merely slow, so two workers may be at any two points of
the same job; a lease expires while its holder composes; an answer of Meta may be lost
after the message was sent; callbacks overtake the `finalize` they depend on; handlers
of callbacks overwrite each other; webhooks with several customers lock each other
out; a key in Redis is deleted on the strength of an older read; the LLM and BuenPick
answer anything, late or not at all. What makes it correct:

- the customer is sent at most one reply per message, and the one the history stores;
- a message is reported completed only when Meta acknowledged the reply, and every
  message is settled in the end, once;
- the lock protects its holder for as long as the lease lasts;
- a handoff is durable before it is confirmed to the customer;
- a callback is acknowledged only when it is on record; the state of an attempt advances
  wherever it is decided on a current read; outcomes are reported once;
- a webhook is acknowledged only when all its messages are durable, and all or none are;
- a web chat client gets the stored reply, and a resend never composes again;
- the facts of a reply come from BuenPick's answer to this message, and about orders only
  the customer's own are told; failures of BuenPick and of the LLM end in a reply all the same;
- what a delivery reports is true of Meta, and free text stays inside the service window;
- one open handoff per conversation, exactly while it waits for a human;
- a pending action is consumed once; a photo is one of a pick that was active.

`PROJECT.json` lists the hazards line by line, with the properties aimed at each.

## Modules

| Module | Models | Extends |
|---|---|---|
| `Absent` | `None`: a NULL column, an absent key | |
| `Inbound` | identities of the messages | `Absent` |
| `ConversationScope` | the conversation of each message | `Inbound` |
| `Outbox` | `db/processing.py`, the insert of `record_inbound` | `Inbound` |
| `ConversationLock` | `RedisConversationLock` | `ConversationScope` |
| `DeliveryLedger` | `PostgresDeliveryStore`, `_existing_result` | `Inbound` |
| `MessagePipeline` | `process_once`, `respond_persisted`, `send`, the crash and timing behaviour around them; composes the three above | `Outbox`, `ConversationLock`, `DeliveryLedger` |
| `DeliveryCallbacks` | `ingest`'s status loop over `apply_callback`, request by request | `DeliveryLedger` |
| `ReplyOnce` | abstract: what the pipeline promises about one message | |
| `PipelineRefinement` | the refinement mapping from `MessagePipeline` to `ReplyOnce` | `MessagePipeline` |
| `MetaIngress` | `receive`, `normalize_webhook`, `ingest` with the row locks of `record_inbound`, the dedup keys | `ConversationScope` |
| `WebChat` | `send_message`, `respond`, `_respond_locked` | `ConversationLock` |
| `Handoff` | `HandoffRepository.request`, statement by statement | `ConversationScope` |
| `Composition` | `_compose_reply`, intents, search and evidence, policies, LLM adapters, `ResponseEngine`, grounding and fallback | instances of `HttpCall` |
| `HttpCall` | the retry loop shared by the BuenPick client and both LLM adapters | |
| `OrderLookup` | `get_customer_order`, its proof of ownership, errors and evidence | an instance of `HttpCall` |
| `MetaDelivery` | `DeliveryRequest`, the window of `process_once`, `MetaDeliveryAdapter.send` | `Absent` |
| `ActivePick` | `RedisActivePickStore`, `resolve`, `remember`, `PickImagePreparer.prepare` | `Absent` |
| `PendingAction` | `RedisPendingActionStore` | `Absent` |
| `SharedState` | the components callers share through Redis and PostgreSQL, side by side | `WebChat`, `Handoff`, `PendingAction`, `ActivePick` |
| `ExternalServices` | the components that talk to a service, side by side | `Composition`, `OrderLookup`, `MetaDelivery` |
| `MCMessagePipeline`, `MCDeliveryCallbacks`, `MCMetaIngress`, `MCSharedState`, `MCExternalServices` | instances for TLC | `PipelineRefinement`, `DeliveryCallbacks`, `MetaIngress`, `SharedState`, `ExternalServices` |
| `*Proofs` | theorems, see below | |

`Outbox`, `ConversationLock` and `DeliveryLedger` define what each store operation does
to the columns or keys it owns. The two specifications add the processes that call
them. The operators whose comment begins "A defective" are deliberate bugs; the
specifications never use them, and each is there to show that a property notices it.

`SharedState` and `ExternalServices` each put several components into one specification, and
one run. The components of a group share no variable, only constants (the message ids and
conversations of web chat and handoffs, whose posts and sessions use them in their own way);
`part`, chosen in the initial state,
says whose behaviour it is, and the variables of the others keep their initial values. The
states of such a run are the union, not the product, of those of its components. That
nothing is lost by it is a theorem: every behaviour of the composition is one of each
component (`SharedStateComponents`, `ExternalServicesComponents`), so what is proved of the
component holds of the composition too. In `SharedState` the status of a conversation is
`conversation` in the web chat, where the handoff is one step, and `workflow` in `Handoff`,
where each statement of its transaction is.

### MessagePipeline

A worker's program counter `pc[w]` has one value per `await` another process can
observe:

    idle -claim_next-> acquire -SET NX-> find -> [handoff] -> compose -> record -> release
         -> claim -insert-> post -HTTP-> finalize -> settle -> idle

`unwind` is the `finally` block after an exception, `fail` the `except` clauses of
`process_once`, `down` a dead process. `msg`, `tries`, `text` and `result` are the
locals `job.message`, `job.attempts`, `reply.text` and `result.status`.

Abstractions, and why they are sound:

- Time is reduced to the comparisons the code makes: a row is `due`, a claim is
  `stale`, a lease exists. Each may change whenever the clock could make it change, so
  every setting of the timeouts is covered.
- `claim_next` orders rows by time; the model may return any eligible row, which
  includes the one the code picks.
- The random token of a lease is represented by the worker: a worker makes one
  acquisition at a time, and SET NX refuses another while its key exists.
- A RedisError in `acquire` may hide a SET that was executed; `AcquireRefused` allows
  both.
- A database error rolls its transaction back (`StepRaises`). A commit whose answer is
  lost is covered by a crash after the step. An error in `claim_next` or `fail`, which
  are outside the `try`, ends the process: `Crash`.
- The service window, the HTTP errors and the parsing of Meta's answer are the three
  outcomes of the adapter, with (`PostToMeta`) and without (`RequestNotSent`) the
  request having arrived.
- What composition produces is any member of `Texts`.
- Status callbacks are atomic here; `DeliveryCallbacks` splits them.
- `overrun` and `reclaims` are history variables: messages whose lease ran out on a
  holder, and claims taken over before they were settled. No guard reads them.

### DeliveryCallbacks

A request of the webhook works through the callbacks of its webhook: `read` (the SELECT,
which takes no lock), `commit` (insert of the event, transition, commit), `emit`. The
insert waits for a concurrent one of the same status and the update for a concurrent
update, so the transaction after its read is one step in commit order. A callback whose
attempt has no provider id yet ends the request with 503, an exception or crash ends it
unanswered; in both cases Meta delivers the whole webhook again. The worker appears as
`ClaimAttempt`, `MetaReceives` and `FinalizeAttempt`, with its steps in the same order
as in `MessagePipeline`.

A request between `read` and `commit` is `Stale` when the state it read is no longer that
of the attempt. `raced` is a history variable: the messages whose attempt was written by
such a request. No guard reads it. `CallbacksAdvance` is violated by a stale write; the two
properties `FreshCallbacksAdvance` and `SingleOutcome` say, with any number of requests in
progress, that nothing else can do that: duplicates, late callbacks, redeliveries, deaths
between commit and emit and reads that are still current all leave the promise intact.

### ReplyOnce and its refinement

`ReplyOnce` knows only a phase per message and the replies sent: received, at most one
reply, settled once, completed only after a reply. It lets a reply go out after the
message was given up, since the worker that posts may have been overtaken.
`PipelineRefinement` maps pending and processing to "open" and `sent` to the requests
that reached Meta; every other variable of the pipeline is hidden.

### MetaIngress

A request slot delivers one webhook again and again until it is answered 200. `record`
holds the row locks of all conversations the transaction touched; `RecordInbound` waits
for them, and of two transactions that wait for each other PostgreSQL aborts one
(`DeadlockVictim`), which the route answers with 500. A payload is its type, whether the part of that type is there and what kind of text it has. Callbacks
are reduced to whether their attempt is known; `DeliveryCallbacks` models the rest.
The 503 of `ingest` for a message without a phone number id has no action: the setting is
required to be non-empty (`core/config.py`), and `normalize_webhook` refuses a payload with
any other id as malformed before `ingest` sees it.

### WebChat

One handler per concurrent request: `acquire`, `receive` (first transaction), optional
`handoff`, `compose`, `record` (second transaction), `release`. A failing step and the
end of the process leave what was committed. A message whose request died between its two
transactions is answered 409 for ever; that follows from `ReplayNeverRecomposes`, and the
model shows it as a reachable end. `overrun` marks the handlers whose lease ran out.

A client chooses `message_id` and `conversation_id` independently, so a member of `Posts` is
a pair of both (`IdOf`, `ScopeOf`), and `row` remembers which post inserted the row of an id,
which is unique over all conversations. The lease is that of the post's conversation, the
stored reply that of its id: a client that uses an id again in another conversation gets the
reply of the first. `ConfirmedHandoffIsDurable` therefore speaks of the conversation the
handoff was asked for in.

### Composition, HttpCall, OrderLookup

A text is the set of high-risk tokens and marks grounding looks for; the LLM writes any
draft. `Within` says which tokens contain which as substrings, because that is how grounding
compares them (see the violations below). `PromptLimit` stands for
the length bounds of the prompt and its evidence, `Oversized` for picks whose title, name or
id is beyond the bounds of `EvidenceItem`, and the answer `out_of_bounds` of the LLM for a
text, id or model name beyond those of `CompositionResult`; all three are ValidationErrors
nobody catches, and end the composition in `raised`. A fallback may be cut at 4096
characters, in the middle of a token too (`CutShort`). Left out: wording, and the layout of
prompts. `HttpCall` has one step per request; which
answers are retried is a parameter, the clients differ in 502. In `OrderLookup` BuenPick
is external: it serves an order only to a proof that owns it and never to a blank one.

### MetaDelivery

The customer writes at time 0, the row is written when the webhook gets through, which is
later when Meta had to redeliver it. An error status of Meta is taken as "not accepted".

### Handoff

One session per request, one step per statement, READ COMMITTED: an INSERT waits for a
conflicting uncommitted row, a SELECT sees what is committed by then. A SELECT whose row
was resolved in between raises and rolls back. The operators who claim and resolve are
described in `docs/OPERATOR_CONSOLE_ARCHITECTURE.md` and have no code yet; they are
external actions. `attended` is a history variable: the conversations they acted in. Whoever builds the console has to keep in
mind that `request` sets `needs_human` also when it converges on a handoff that a person
has already claimed.

### ActivePick, PendingAction

One action per Redis command or answer of BuenPick. Keys expire, payloads may be
unreadable, the catalogue changes at any time. `held`, `seen` and `taken` are history
variables. Neither store has a caller in the orchestrator yet; the models let
any number of callers use them concurrently, as other modules of the program would.

## Runs

| Run | Instance | Result |
|---|---|---|
| `pipeline_takeover` | 1 message, 2 workers, 2 attempts, 1 crash, callbacks delivered and failed, fairness | passes: `TypeOK`, `AtMostOnePost`, `CompletedWasAcknowledged`, `RetryBudget`, `SettledIsFinal`, `EveryMessageSettles`, and the refinement `ImplementsReplyOnce` |
| `pipeline_contention` | 2 messages of one conversation (one a handoff), 2 workers, 2 texts, 1 attempt | passes: `PostedReplyIsStored`, `LeaseProtectsHolder`, `HandoffBeforeConfirmation` |
| `callbacks_audit` | 2 messages, 2 requests, single and batched webhooks, 1 failure, fairness | passes: `TypeOK`, `AnsweredMeansAudited`, `StateIsAudited`, `OutcomeEmittedOnce`, `SingleOutcome`, `FreshCallbacksAdvance`, `WebhookEventuallyAnswered` |
| `meta_ingress` | 2 webhooks that lock two conversations in opposite orders, one with an early callback, and a refused one; 1 failure, fairness | passes: `TypeOK`, `AcknowledgedIsDurable`, `RecordingIsAllOrNothing`, `EventuallyAcknowledged` |
| `shared_state` | web chat: 2 posts to one conversation (one a handoff) and one with the id of the first to another, 2 handlers, 2 texts, 1 stop of the process | passes: `AnswersAreTheStoredReply`, `TurnsDoNotOverlap`, `ConfirmedHandoffIsDurable`, `ReplayNeverRecomposes` |
| | handoffs: 4 messages, 3 of them of one conversation, 2 sessions, operators | passes: `OneOpenHandoff`, `NeedsHumanIffOpen` |
| | pending actions: 4 actions, two of them unreadable, 1 reader, any consumers | passes: `ConsumedOnce` |
| | active pick: 2 conversations, 2 picks, 2 calls | passes: `PhotoIsOfTheActivePick`; and `TypeOK` of all four |
| `external_services` | composition: 4 picks (one a surprise bag with a marker in its title, one oversized), 3 tokens, 2 attempts, 2 picks to a prompt, 1 to a fallback | passes: `FactsComeFromThisSearch`, `NothingLeakedOrInvented`, `FailuresGiveAReply`, `RetriesAreBounded` |
| | orders: 2 orders of 2 owners and an unknown one, every pair of proofs, 2 attempts | passes: `OnlyOwnedOrdersAreTold`, `RetriesAreBounded` |
| | delivery: every request, window 2, time to 5, texts around the caption limit | passes: `ResultIsTrue`, `PostedBodyIsComplete`; and `TypeOK` of all three |
| `pipeline_attempts` | 1 message, 1 worker, 2 attempts, 2 crashes | `AttemptsBounded` is violated |
| `pipeline_needs_human` | 2 messages, 1 worker | `NeedsHumanSuppressesReplies` is violated |
| `callbacks_concurrent` | 1 message, 2 requests | `CallbacksAdvance` is violated |
| `grounding_substrings` | as the composition part of `external_services` | `UnsupportedFactsAreBlocked` is violated |
| `malformed_output` | as the composition part of `external_services` | `AnyOutputGivesAReply` is violated |
| `delivery_window` | as the delivery part of `external_services` | `FreeFormInsideWindow` is violated |

Bounds. `MaxAttempts` is a setting of the code. `MaxCrashes` is the only artificial
bound of the pipeline; a takeover needs no crash, as a claim may become stale under a
live worker, so one crash on top is enough for a third worker life to meet two earlier
ones. Two workers are enough for every pairwise race, one message for everything except
contention for a conversation, two texts to tell the posted from the stored one. For
callbacks two requests give every race of a read with a write; the batch of two messages
makes a request stop half way. The proofs remove the bounds for the properties they
cover. Deadlock is checked everywhere except for the callbacks, where Meta may have nothing
left to send; a composition, lookup, delivery or store that has come to its end stutters.
In the other runs two concurrent actors give every pairwise race, a second conversation
shows that nothing crosses over, and the limits (`PromptLimit`, `FallbackLimit`) have both
sides within the four picks. Symmetry is used where no definition tells the values apart and
no liveness is checked: workers and texts in `pipeline_contention`, handlers, texts and two of
the handoffs' messages in `shared_state`. In the web chat two posts of one conversation and
two handlers give every overlap of turns, the third post every use of an id in a second
conversation, before, during and after the turn of the first; that a late release harms
nobody with more handlers than that is left to the proof.

Fairness. `pipeline_takeover`: a worker's awaits end (HTTP clients have timeouts, the
stores answer or raise), so `WorkerStep` is weakly fair; the restart policy `unless-stopped`
of the containers makes `Restart` fair; clocks advance, so `RetryBecomesDue`,
`ClaimBecomesStale` and `LeaseExpires` are fair. Nothing obliges Meta to send or a process
to crash. `callbacks_audit`: requests run to their end, and Meta keeps delivering a
webhook that was not answered with 200, which is strong fairness of `ReceiveWebhook` for
it, since a free handler comes and goes. `meta_ingress`: requests
run and Meta redelivers (weak fairness), attempts that will be finalized are; and a
transaction that waits for a row lock gets it when the lock is released again and again
(strong fairness of `RecordInbound` at each message), which PostgreSQL's queue of waiters
gives. With three webhooks that cross each other in a circle the code has no such guarantee:
timing can make the same one the victim each time, as nothing orders the conversations
before they are locked.

### What the violations show

- `AttemptsBounded`. `PIKI_EVIDENCE.md` speaks of "bounded attempt counts". The maximum is
  compared only in the exception handlers of `process_once`; a claim that goes stale is
  taken over whatever its count, so a message that kills its worker is retried for ever.
  `RetryBudget` is what holds: at most one extra claim per takeover.
- `CallbacksAdvance`. `README.md` promises that callbacks "advance monotonically". With
  two requests in progress, `sent` and `delivered` may both read `accepted`; if `sent`
  commits last the attempt goes back from delivered to sent, and stays there since a
  redelivery of delivered is a duplicate. In the same way both outcomes can be reported. As
  long as no request decides on a stale read the promise holds (`FreshCallbacksAdvance`,
  `SingleOutcome`). A `SELECT ... FOR UPDATE` in `_apply_callback` would restore it.
- `NeedsHumanSuppressesReplies`. `docs/OPERATOR_CONSOLE_ARCHITECTURE.md` says that
  `needs_human` suppresses automated messages. The status is written by `request` and read
  by nothing on the reply path.
- `FreeFormInsideWindow`. `PIKI_DECISIONS.md` (D-031) excludes closed-window traffic that
  looks like ordinary conversation. `claim_next` passes `created_at` of the row as
  `received_at`, so the window starts when the webhook got through and not when the customer
  wrote. Meta, which knows better, then rejects the message.
- `UnsupportedFactsAreBlocked`. `PIKI_DECISIONS.md` (D-025) and G-018 of
  `docs/GOLDEN_BEHAVIORS.md` have grounding reject unsupported currencies, quantities, times
  and URLs. It tests `token not in evidence_corpus`, which is a substring test: a 1 passes
  where only 10 was confirmed. `FactsComeFromThisSearch` is what holds: the token is at least
  a part of one that the search of this message returned.
- `AnyOutputGivesAReply`. The failure matrix of `docs/GOLDEN_BEHAVIORS.md` promises the
  fallback for malformed output of the LLM. Both adapters build `CompositionResult` outside
  their `try`: a text beyond 4096 characters (`llm_max_output_tokens` may be set to 4096
  tokens, which are more), or an id or model name that is empty or beyond 255, is a
  ValidationError, and `ResponseEngine.respond` catches `LLMAdapterError` only.
  `FailuresGiveAReply` is what holds: every other failure of BuenPick and of the LLM ends in
  a reply.

### Observations without a run of their own

- Other ValidationErrors nobody catches, all of which end a composition in `raised`: a pick
  with a title, name or id beyond the bounds of `EvidenceItem`
  (`search_result_evidence` in `evidence/buenpick.py`; the models of BuenPick's answers have
  no such bounds), a blank query, and evidence beyond the bounds of the prompt. A WhatsApp
  message that meets one is retried and then given up.
- A web client that uses a message id again in another conversation gets the reply of the
  first one, a handoff confirmation included, while its own conversation does not wait for a
  human: `find_message` looks the reply up by id alone and the id is unique over all
  conversations.
- `get_customer_order` counts proofs after `strip` and chooses one before it: a phone of blanks
  next to a valid reference is sent instead of the reference. BuenPick refuses, so nothing is
  told to the wrong person (`OnlyOwnedOrdersAreTold`), but the owner is turned away.
- `resolve` and `get` of the active pick delete the key on the strength of an older read: a
  pick set in between is lost, and the customer is asked which one is meant although one was
  selected (G-005). It takes two concurrent calls of one conversation; no caller exists yet.
- A pending action can disappear unseen: `get` deletes a key whose older value it could not
  read, and a GETDEL whose answer is lost has taken the action away.
- The messages of one webhook share `created_at`, and `recent_messages` breaks the tie by the
  random row id: the LLM may read a customer's two messages in reverse.
- A callback about an attempt that was finalized as unknown, which never gets a provider id, has
  its webhook redelivered for as long as Meta does that. The messages that came with it are
  recorded before (`RecordingIsAllOrNothing`).

## Proofs

Proved with TLAPS for every set of messages, conversations, workers, handlers, webhooks,
texts, picks, tokens, orders and callers, and for all limits.

| Theorem | Module | States |
|---|---|---|
| `TypeCorrect` | `MessagePipelineProofs` | `Spec => []TypeOK` |
| `SettledForever`, `RetriesWithinBudget` | `MessagePipelineProofs` | `SettledIsFinal`, `RetryBudget` |
| `PostedAtMostOnce`, `CompletedOnlyIfAcknowledged` | `ReplyOnceProofs` | `AtMostOnePost`, `CompletedWasAcknowledged` |
| `PipelineImplementsReplyOnce` | `ReplyOnceProofs` | `ImplementsReplyOnce` |
| `LeaseProtected`, `PostedIsStored`, `HandoffIsDurable` | `ReplyAgreementProofs` | `LeaseProtectsHolder`, `PostedReplyIsStored`, `HandoffBeforeConfirmation` |
| `CallbackTypeCorrect`, `AnsweredIsAudited`, `StateAudited`, `OutcomeOnce` | `DeliveryCallbacksProofs` | `TypeOK`, `AnsweredMeansAudited`, `StateIsAudited`, `OutcomeEmittedOnce` |
| `FreshAdvance`, `OneOutcomeUnlessRaced` | `DeliveryCallbacksProofs` | `FreshCallbacksAdvance`, `SingleOutcome` |
| `IngressTypeCorrect`, `AcknowledgedDurably`, `RecordedAsAWhole` | `MetaIngressProofs` | `TypeOK`, `AcknowledgedIsDurable`, `RecordingIsAllOrNothing` |
| `AnsweredAsStored`, `TurnsAreSerial`, `ReplaysDoNotRecompose`, `ConfirmedIsDurable` | `SharedStateProofs` (web chat) | `AnswersAreTheStoredReply`, `TurnsDoNotOverlap`, `ReplayNeverRecomposes`, `ConfirmedHandoffIsDurable` |
| `OneOpenAtATime`, `WaitsExactlyWhenOpen` | `SharedStateProofs` (handoffs) | `OneOpenHandoff`, `NeedsHumanIffOpen` |
| `ConsumedAtMostOnce` | `SharedStateProofs` (pending actions) | `ConsumedOnce` |
| `PhotoOfTheActivePick` | `SharedStateProofs` (active pick) | `PhotoIsOfTheActivePick` |
| `SharedStateComponents`, `SharedTypeCorrect` | `SharedStateProofs` | `Spec` implies the specification of each component; `TypeOK` |
| `OnlyOwnedTold` | `ExternalServicesProofs` (order lookup) | `OnlyOwnedOrdersAreTold` |
| `FactsFromThisSearch`, `NothingInvented`, `FailuresEndInAReply` | `ExternalServicesProofs` (composition) | `FactsComeFromThisSearch`, `NothingLeakedOrInvented`, `FailuresGiveAReply` |
| `ResultTrue`, `PostedBodyComplete` | `ExternalServicesProofs` (delivery) | `ResultIsTrue`, `PostedBodyIsComplete` |
| `ExternalServicesComponents`, `ServicesTypeCorrect`, `RetriesBounded` | `ExternalServicesProofs` | `Spec` implies the specification of each component; `TypeOK`; `RetriesAreBounded` |

Every component of the two compositions also has a theorem about its own types
(`ChatTypeCorrect`, `HandoffTypeCorrect` and so on). `DeliveryLedgerProofs` holds the
lemmas about the ledger that the pipeline and the callbacks share.

Assumptions. They are the `ASSUME`s of the modules, which TLC evaluates on every instance:
the constants have their types; `None` is no message, post, worker, text, action or pick, nor one
of the two words it is compared with; numbers of attempts are at least 1; a webhook of
callbacks is a non-empty sequence; a blank is no proof of ownership; the catalogue is
finite (its size is compared with the limits); every token is part of itself; and the LLM's
answers are among those the adapters tell apart. Nothing is assumed about whom an order
belongs to, which tokens contain which, what the LLM writes, or how often anything fails
(the bounds on crashes are any natural number).

The arguments:

- `AtMostOnePost` is not inductive. `DeliveryInv` adds that a worker between the insert
  of the attempt and `finalize` is the only one there for its message (`SoleDeliverer`),
  that the attempt is then pending and nothing was sent before the request
  (`DelivererOK`), and how the records relate to the requests made (`RecordsOK`). The
  unique key makes the first entry exclusive and nothing returns an attempt to none.
- `PostedReplyIsStored` needs `ReplyInv`: before `record_outbound` no reply is stored,
  after it the worker's text is the stored one, both unless the lease was overrun. The
  step `RecordOutbound` uses `LeaseProtectsHolder`, proved first, for two workers at once.
- The refinement maps every step of the pipeline to a step of `ReplyOnce` or to a stutter.
  Only the webhook, the post, `complete` and `fail` change mapped state. The post needs
  `DeliveryInv` (nothing was sent before), completion needs `CompletedWasAcknowledged`, and
  both need that a claimed message has a row and that a deliverer's message is not
  completed (`ClaimedIsRecorded`, with the records of `DeliveryInv`).
- `HandoffInv` of `ReplyAgreementProofs` says that a worker past the handoff, and a stored
  reply, imply the status.
- `SettledIsFinal` follows from the WHERE clauses of the three updates of the outbox.
- `RetryBudget`: every claim is the first, follows a granted retry, or is a takeover, and a
  retry uses up a claim whose number is below the maximum. `BudgetInv` says that the retries
  granted and the live claims with attempts to spare are together no more than the numbers
  below the maximum that were handed out; `fail` trades one such claim for one retry.
- `AuditInv` says that the callbacks a request is done with are on record; `EmitInv` that
  a request about to emit is the only one for that outcome and that it was not emitted.
- `FreshAdvance`: a request whose read is current decides with the state of the attempt, so
  `can_transition` judges the step that is really made. `OneOutcomeUnlessRaced` needs an
  invariant: in an attempt never written on a stale read, an outcome that was emitted, or that
  a request is about to emit, is `Upheld` by the state: it is the state, or was followed by
  `read`. No transition out of such a state reaches the other outcome.
- `IngressInv`: the messages a transaction has passed are staged by it or were recorded
  before, and what it staged belongs to its webhook (`RecordingOK`), so its commit adds
  exactly the messages of the webhook (`CommitIsWhole`); after the commit they are durable
  and the attempts of the callbacks passed are known (`CommittedOK`), so 200 is true. The
  row locks play no part in it: safety does not depend on who is the victim of a deadlock.
- `ChatInv`: a handler between the two transactions is the only one of its message id, whose
  row its own post inserted and which has no reply yet (`TurnsOK`). Only the request that inserts the row gets there,
  so `record_outbound` never meets another text, whatever leases run out. `HoldersOK` (a
  handler past `acquire` owns the lease or is marked) gives `TurnsDoNotOverlap`;
  it survives late releases because `release` compares the token. `HandoffsOK` carries the
  status from the handoff's transaction, in the conversation of the post that inserted the
  row, to the stored reply.
- `HandoffInv` of `SharedStateProofs` adds to `OneOpenHandoff` that an uncommitted row
  excludes every other of its conversation, committed and open or not (`InsertedOK`), and
  that in an unattended conversation a session which converges on an existing row still has
  an open one to point to when it commits (`UnattendedOK`).
- `PendingInv`: an action under the key was written and never taken, and each is written
  once, so GETDEL hands it out once.
- `ActivePickInv`: a call in progress has seen every pick the key of its conversation held
  since it began (`InProgressOK`), a pick taken from the key is one of those, and one about
  to be pictured was confirmed to the call (`PickOK`).
- `LookupInv`: a request is under way only with exactly one proof and carries it (`ProofOK`).
- `ComposeInv`: a reply is a fixed sentence, a fallback or a draft of the LLM, and each is
  truthful (`CannedIsTruthful`, `FallbackIsTruthful`, `GroundedIsTruthful`), the draft because
  it passed `GroundingFailures`. `RouteOK` says that there is no text before the end and that
  there are picks only after a search whose last answer was a list of them. The
  bounds of all three retry loops come from one lemma, `LoopStep`.
- `SendInv`: until Meta is asked nothing was received and the result is none (`TruthOK`),
  and a request that is posted has passed `validate_content` (`ContentOK`).

Only model-checked: the liveness properties `EveryMessageSettles`, `WebhookEventuallyAnswered`
and `EventuallyAcknowledged`, since TLAPS reasons neither about fairness nor about ENABLED;
and the six violations, which are counterexamples. Every other property of the runs is a
theorem.

## Not modelled

- Signatures, secrets and the challenge of the webhook's GET route: a signature is valid or
  not.
- The fields of payloads beyond what a decision reads; prompts, templates and wording;
  the regular expressions of grounding, which are the marks and tokens of `Composition`.
- `get_commerce`, the response mode `JINJA` and the policies other than discovery, handoff
  and explanation: nothing calls them.
- `recent_messages` and the conversation listing, which only read; the health routes, the console, configuration, logging and
  lifecycle events, which have no state of their own.
- Migrations, except the indexes and defaults that the models of the rows state.

## Plan

1. Done: the pipeline with its stores, callbacks and proofs; its refinement of `ReplyOnce`
   with a proof; ingress, web chat, handoffs, composition, order lookup, delivery adapter,
   active picks and pending actions with their runs and the proofs of all their safety
   properties; the compositions and the theorems that relate them to their components.
2. Next: what the web chat promises about one message as an abstract specification
   (recorded, at most one reply, answered with that reply), implemented by `WebChat`; and
   the single handoff step of `WebChat` and `MessagePipeline` as an abstraction of the
   statements of `Handoff`.
