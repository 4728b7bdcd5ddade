# Verification of AegisPay

AegisPay is a payment gateway in Go: merchants create orders over HTTP, payment
channels confirm them by webhook, and merchants are told of paid orders through a
Redis stream.  MySQL holds the orders, Redis the locks and the streams, and several
server processes can share both.  This directory holds TLA+ models of its core, the
TLC runs that check them on small instances, and theorems about them that TLAPS
checks for every instance.

## The system

| Part | State it keeps | Operations | Talks to |
|---|---|---|---|
| Order aggregate (`domain/transaction/entity.go`) | status, success_at, pay URL and channel trade number of an order in memory | `Success`, `Fail`, `Close`, `ToProcessing`, `IsExpired`, `CanChangeTo` | nobody |
| Payment use cases (`application/pay_app.go`) | nothing but the entity that a request has read | `CreatePayOrder`, `MockPaySuccess`, `ProcessWechatCallback`, `ProcessAlipayCallback`, `QueryOrder` | repository, lock, channel gateway, stream |
| Order repository (`persistence/gorm_order_repo.go`) | table `payment_orders` (unique `trade_no`) | `Save`, `Update` (WHERE trade_no alone), lookups, `WithTransactionV2`; `UpdateStatus` (compare-and-set), called by the domain service alone | MySQL pool |
| Redis lock (`mq/lock.go`) | one key for each route and order | `Acquire` (SETNX, 30 s), `Release` (compare-and-delete) | Redis |
| Notification stream (`mq/redis_stream.go`) | `notify_stream`, its group's cursor and pending list | XADD, XREADGROUP, XACK, XPENDING, requeue | Redis |
| Merchant notification (`application/notify_app.go`) | the batch a consumer has read | consumer loop, POST, ack; `ProcessPendingMessages` without a caller | stream, merchant |
| Risk pipeline (`application/copilot_app.go`, `domain/copilot`) | `risk_stream`, risk reports | publish, consume, analyse, save, ack | stream, vector store, model |
| Vector store (`ai_adapter/vector_store.go`) | Milvus collection, bounded list in memory | search, upsert, fallback | Milvus |
| Natural language queries (`ai_adapter/langchain_nl2sql.go`) | none | `AskData`, the checks of the generated SQL | model, MySQL replica |
| Channel abstraction and adapters (`domain/channel`, `channel_adapter`, `interfaces/webhooks`) | none | `CreatePay`, the acceptance of notices and the answer to them | channels |
| Refund aggregate (`domain/transaction/refund_entity.go`) | status and success_at of a refund | `ToProcessing`, `Success`, `Fail` | nobody |
| Transaction domain service (`domain/transaction/service.go`) | entities in its callers' hands, tables `payment_orders` and `refund_orders` | create, get, mark, `UpdatePaymentStatus`; nothing constructs it yet | both repositories |
| Channel service | entities | no use case calls it | - |
| Configuration (`config/config.go`) | the settings | `.env`, environment, YAML and defaults in order | files |
| Server (`cmd/server`) | pool, consumers | start, shutdown | all of the above |

What is hard here is what happens between two external calls: a request reads a row,
loses its lock or its process, and writes back what it read; a call takes effect but
its reply is lost; a consumer stops between a read and an acknowledgement; a request
waits for a connection while it holds another.  What makes each part correct:

- an order's status is one-way, and says the same as the columns beside it;
- confirmations of one order, however many and however overlapping, credit it once and
  queue one notification, for an order that is paid and stays so;
- a lock has one holder while its 30 seconds last, nobody else's late release takes it
  away, and it never stays for ever;
- an entry leaves the pending list only after it was sent, two consumers never send the
  same one, and every entry is handed out;
- what a merchant is told is true, and a channel that is told "success", and so stops
  repeating its confirmation, has confirmed an order that is paid;
- only one of several callers wins a conditional status change, and stale entities that
  are written over a row never make its status and its payment time contradict each other;
- requests do not wait for each other's connections in a circle (creations can, finding
  `pool_deadlock`; nothing else does, and nothing else starves anybody);
- amounts survive their conversions;
- a setting has the value of its highest source; a statement of the language model that
  is no query is never answered; of the notices that are accepted only those that report a
  payment reach the payment use cases.

## Modules

| Module | Models | State and actions against the code |
|---|---|---|
| `PaymentOrder` | `entity.go` | the entity's methods as operators on records; a method that may refuse is a guard `CanXxx` and a value |
| `OrderLifecycle` | what an order promises | abstract specification: status along `CanChangeTo`, one notification after the success |
| `AlipayAmount` | yuan-to-cents in `ProcessAlipayCallback` | closed form of scan, product and truncation in floats of `P` bits |
| `PayApp` | `pay_app.go`, `gorm_order_repo.go`, `lock.go` | `orders` the table, `lock` the Redis keys, `notified` what the stream was given; for each request `pc` (the external call it makes next), `call` and `ent` (the entity in its memory).  One action for each external call with the computation up to the next one |
| `LockTenure` | the tenure of a lock in `lock.go` | `PayApp` with one history variable, `lapsed`: the running handlers whose key Redis has dropped too early |
| `NotifyApp` | `redis_stream.go`, `notify_app.go` | `stream`, `group`, `cursor`, `pel` are Redis's; `hand`, `batch`, `todo` the goroutines'; `posts` and `received` the merchant's view |
| `VectorStore` | `vector_store.go` | `milvus` the shared collection, `memory` each server's bounded list, `kind` which of the two its searches begin with; `learned` is a history variable |
| `RiskApp` | `copilot_app.go`, `langchain_rag.go`, `domain/copilot/service.go`, the risk stream, `gorm_risk_report_repo.go` | extends `VectorStore`; `stream`, `first`, `group`, `cursor`, `pel` are Redis's, `hand`, `seen`, `draft`, `ackIDs` the consumer goroutine's, `reports` the table.  Publish, read, analyse, upsert, save and acknowledge are one action each |
| `ConsumerGroup` | what the consumers want of a Redis stream | abstract specification, implemented by `NotifyApp` and `RiskApp`: entries are handed out in order, each once, and leave the pending set only after they were handled |
| `PaySystem` | both sides and the channel together | `PublishNotify` of `PayApp` is the XADD of `NotifyApp`; `answer` is what a use case returns to `webhook_handler.go`, `acked` the confirmations that were answered "success" |
| `RefundOrder` | `refund_entity.go` | like `PaymentOrder` |
| `TransactionService` | `service.go` of the transaction domain, both repositories, the rows that `CreatePayOrder` inserts and overwrites | extends `ConnPool`: the service's callers are the pool's `Others`, creations its `Creators`; `rows` both tables, `stmt` the statement that a request waits to run, `ent` its entity.  Two histories: `unclaimed` counts how often an order came to a status, less how often a caller was told it moved it out; `forced` has the orders that `UpdateStatus` moved out of SUCCESS.  A call is a step before its connection, one that takes it, and one with its result |
| `ChannelCallback` | `wechat_callback.go`, `alipay_callback.go`, `webhook_handler.go` | which notices are accepted, handed on and answered "success", as operators |
| `Config` | `config.go`, the replica's settings in `langchain_nl2sql.go` | one setting from its four sources, as operators |
| `DataAssistant` | `AskData` in `copilot_app.go` and `langchain_nl2sql.go` | one question from the model's statement to the answer, as operators |
| `ConnPool` | `WithTransactionV2`, `Save`, `SetMaxOpenConns` | what each request waits for and how many connections it holds; a creation takes two at once, and one more for its UPDATE after the gateway has answered |
| `PayAppProofs`, `NotifyAppProofs`, `PaySystemProofs`, `VectorStoreProofs`, `RiskAppProofs`, `ConnPoolProofs`, `TransactionServiceProofs`, `FunctionsProofs` | - | theorems about the module of that name (`FunctionsProofs`: about `MCFunctions` and the modules it checks); `VectorStoreProofs` has the lemmas of the store that `RiskAppProofs` rests on |
| `MC...` | - | values of constants and symmetry for TLC |

A definition whose comment begins "Variant of X" is not part of a specification: it is a
plausible mistake in X, kept to show that a property notices it (PROJECT.json, "mutants").

### Conventions at the boundary

- Every external call may fail before or after it took effect.  What a failing call did,
  it did before it returned: no write arrives after its caller has gone on.
- A request may vanish at any step (`Crash`), which is also how a process stop looks;
  Redis and MySQL keep what they have.
- The Redis client sends a command again whose reply was lost, so one XADD may leave
  up to `MaxSends` entries, and a repeated SETNX meets its own key.
- A lock's value is its slot.  The code uses the clock in nanoseconds; two holders that
  read the same value are not modelled.
- `Blank` is the set of merchant ids that the column's collation compares equal to the
  empty string, which is what the webhooks look for.  With the ids that merchants are
  given it is empty, and the webhooks find nothing (finding `webhook_lookup`); runs that
  set it show what the webhooks do once they find their orders.
- `LockMayLapse` lets a key vanish under a running holder (more than 30 seconds, or a
  Redis that lost it).  `EarlyExpiry` lets an order expire before `CreatePayOrder` is done
  (a gateway slower than `expire_minutes`, or a negative `expire_minutes`).
- In `PayApp` a `call` is a confirmation that was accepted; which notices are is in
  `ChannelCallback`, where a signature holds or does not: how it is computed, and XML and
  form bodies, are outside.
- `TransactionService` has no caller in the code.  Its callers are free, also to ask
  `UpdatePaymentStatus` for any move: neither the service nor the repository looks at
  `CanChangeTo`.  TLC tries the moves on and the one out of SUCCESS (`Moves`); the theorems
  know no such limit.
- In `Config` a value is known by the source it comes from, or by what makes a parser or a
  fallback drop it (empty, unreadable, blanks, a number that is not positive), and in `DataAssistant` a statement
  by what the checks and MySQL look at: only these decide where it goes.
- In `RiskApp` the publication is free, because nothing in the code calls it yet.  What
  the model answers, and which cases resemble a query, is arbitrary.
- A notification is posted to a URL that `pay_app.go` writes into the message itself
  (`http://localhost:8080/api/v1/notify/...`, which the server does not route); the models only
  distinguish whether the POST was accepted.

## What is checked

Each run asks one question.  "States" is what TLC finds; all bounds are in the cfg files.

| Run | Module | States | What it shows |
|---|---|---|---|
| `pay_lapsing` | `MCLockTenure` | 645,447 | two requests, two orders with one out_trade_no, the mock route and Alipay (different keys), locks that lapse: status and `success_at` agree, the channel's data is never lost from an order in payment, nothing settled is reopened, a handler keeps its key until it ends or the key's own time is over, late releases of others or not |
| `pay_system` | `MCPaySystem` | 68,800 | three requests about one order, by the mock route and WeChat, with locks that outlive their holders, and two servers that notify: one handler at a time, one notification and only for a paid order, the abstract lifecycle `OrderLifecycle` is refined, every lock is freed; what a merchant is told is true, and told once per entry; a sender that is answered "success" has confirmed an order that is paid and stays so |
| `notify_scan` | `MCNotifyApp` | 39,589 | two servers on one group with stops, lost replies and the pending scan: an acknowledged entry was posted, batches are disjoint, the abstract `ConsumerGroup` is refined, the stream is drained |
| `risk_pipeline` | `MCRiskApp` | 250,130 | two servers on the risk stream: `ConsumerGroup` is refined, so that an acknowledged event has its report; no event has two, reports are filed under the right trade number with a score in range, past cases are there and never the event's own, failures of Milvus lose no case, every event is read unless as many younger ones as the stream keeps have trimmed it |
| `transaction_service` | `MCTransactionService` | 102,542 | callers of the domain service and creations on two connections, whose last UPDATE takes moved orders back: each arrival of an order at a status is claimed by at most one caller, a payment time stands beside another status only where a caller moved the order out of SUCCESS, refunds stay consistent whatever stale entity is written over them; the pool is exhausted for good by creations only, and every request ends unless they do |
| `functions` | `MCFunctions` | 4,012 | every input of the pure parts: the closed form of the amount conversion is what floating point computes, for five small precisions, and at 53 bits quarters of a yuan survive it (the theorems lift both bounds); settings take their highest usable source and the replica never a hollow one; rejected SQL is not answered; of the accepted notices only those that report a payment reach the use cases, and these are answered "success" only if they were taken |

Six more runs end in a counterexample, and each is a finding:

| Run | Counterexample |
|---|---|
| `lapsed_lock` | a handler whose lock has lapsed writes CLOSED over SUCCESS: `Update` has no condition but the trade number, although the design describes an optimistic lock and a one-way status |
| `lost_notification` | the XADD fails once after the row was committed: every repeated confirmation finds SUCCESS and returns before the XADD, so the merchant is never told |
| `acked_unsent` | a notification whose POST failed is acknowledged with its batch |
| `webhook_lookup` | the WeChat and Alipay handlers look orders up under the merchant id `""`, which no order has |
| `pool_deadlock` | two creations on two connections each hold one in `WithTransactionV2` while `Save` waits for a second; nothing limits how many creations run at a time |
| `alipay_cents` | 0.29 yuan is taken for 28 cents |

### Why the bounds are enough

- Requests about one order interfere in pairs (the one that lost its lock and the one that
  has it, a creation and a handler); a third one is there in `pay_system`
  to find what the pair has left.  Requests return to idle and take up new work, so two
  slots are any number of requests one after the other.  The theorems below lift the
  bound altogether.
- Two orders suffice for a lookup that finds the wrong one of several.  `MaxSends = 2` is
  one repeated XADD.
- Consumers interfere through the cursor and the pending list: two servers, and two
  entries in a batch so that one of them may fail and the other not, or one server may
  take one entry each.  A third entry adds none of these cases.
- A memory of one case and a stream that keeps one event reach their limits with two events:
  the second publication may trim the first event before it is read (`MaxLen = 1`).
- Two connections are the smallest pool that creations can jam although each of them could be
  served alone, and two creations jam it.  The two tables share nothing but the pool, and what
  interferes are pairs, so each behaviour of `MCTransactionService` is one scene: two creations
  beside a caller, two callers on one of the tables, or two callers that move statuses beside a
  creation.  `MaxUnclaimed = 2` lets an order come to a status twice before anybody claims it.
- The inputs of `Config`, `DataAssistant` and `ChannelCallback` are all there are at their level
  of detail, but for the lines of `.env` that name a key: TLC tries two (`MaxLines`), the theorem
  any number.

Symmetry is used in the safety run `pay_lapsing` only, over slots and
trade numbers, which the modules compare with nothing but themselves.
`CHECK_DEADLOCK FALSE` appears only for `MCAlipayAmount` and `MCFunctions`, whose states are a
finite list of inputs.

### Fairness

- `PayApp!FairSpec`: a handler that runs goes on to its next call (calls have timeouts or
  return errors, and each outcome is a step), and Redis drops a key whose 30 seconds are
  over.  Nothing makes a request arrive, a call succeed or an order expire.
- `PayApp!PersistentSpec` is used by `lost_notification` alone.  It grants what the code
  cannot: the channel repeats its confirmation and calls that are tried again and again
  succeed.  The notification is lost even then.
- `NotifyApp!FairSpec` and `RiskApp!FairSpec`: stopped servers are started again, a
  consumer's calls return, and a server that is started again and again lives to its first
  read (5 and 3 seconds after the start) at some time.  Starting again also repeats the
  group creation, but fairness does not make it succeed: the properties begin with `group`.
- `ConnPool!Fairness`, also in `TransactionService`: strong fairness for taking a connection, for
  each request, because `database/sql` serves waiting requests as connections come back; weak
  fairness for what a request does with the connections it has, because the database answers.
  Clients need not give up, gateways need not answer, and no request need arrive.

## What is proved

The eight modules of proofs are checked by TLAPS for every value of the constants: any number of
requests, servers, orders and connections.  Every invariant and every action property of a
passing run is the subject of a theorem.

Of `PayApp` (`PayAppProofs`):

| Theorem | Property | Assumes, beside the constants' types |
|---|---|---|
| `TypeCorrect` | `TypeOK` | - |
| `StampedIffPaid` | `SuccessIsStamped` | - |
| `ChargeIsRecorded` | `ChargedAtChannel` | - |
| `KeysAreKept` | `HolderKeepsKey` of `LockTenure` | - |
| `HolderExclusive` | `HolderIsAlone` | locks do not lapse |
| `SettledStaysSettled` | `NeverReopened` | no order expires before its creation is done |
| `NotifiedOnce` | `NotifiedOnceIfPaid` | both, and webhooks find nothing (`Blank = {}`, as in the code) |
| `ImplementsLifecycle` | `KeepsLifecycle` | the same |
| `StatusMovesForward` | `ForwardOnly` | the same; `lapsed_lock` shows what becomes of it without the first |

The third assumption matters: the mock route and the two webhooks lock different keys, so a
webhook that found its order could confirm it beside the mock route.

**The inductive invariant** of `PayApp` has four layers, each inductive on those before it;
none of the properties is inductive alone, because a step writes what it read earlier, and
only a statement about the entities in the requests' hands says what that was.

1. `Base`: types, and every row and every entity in a request's hand is an order under its
   trade number whose `success_at` agrees with its status and that has the channel's data
   when it is in payment or paid.  `Update` writes whole consistent entities, so the rows
   stay so without any lock.
2. `Exclusion`: who works under a key holds it.  Needs locks that do not lapse.
3. `Creation`: a creation that is not done is alone with its order, whose row is INIT and
   has not expired, and a handler completes only an order past INIT and closes only an
   expired one.  Needs that an
   order does not expire during its creation.
4. `Confirmation`: the handler that holds the key sees the row as it is, so what it read is
   not stale when it writes, and the order is on the queue only when it is paid.

Of the other modules, with no assumption beside the constants' types but where it is named:

| Theorem | Module | Property |
|---|---|---|
| `TypeCorrect` | `NotifyApp` | `TypeOK` |
| `AcknowledgedAreSent` | `NotifyApp` | `AcknowledgedWasPosted` |
| `BatchesDisjoint` | `NotifyApp` | `BatchesAreDisjoint` |
| `ImplementsGroup` | `NotifyApp` | `KeepsGroup` |
| `SentNeverTwice` | `NotifyApp` | no entry is posted twice, given that nothing runs the pending scan (as in the code) |
| `SystemKeepsPayment` | `PaySystem` | its behaviours are behaviours of `PayApp`, whose theorems so hold of it |
| `MerchantsAreToldTheTruth` | `PaySystem` | `ToldIsPaid`, given the three assumptions of `NotifiedOnce` |
| `MerchantsAreToldOnce` | `PaySystem` | `ToldOnce`, given the same |
| `AcknowledgedIsPaid` | `PaySystem` | `AckedIsPaid`, given the same |
| `TypeCorrect` | `RiskApp` | `TypeOK`, with the vector store's types |
| `PrecedentsThere` | `RiskApp` | `PrecedentsAreThere` |
| `CasesKept` | `RiskApp` | `CaseIsKept` of `VectorStore` |
| `ReportedOnce` | `RiskApp` | `ReportedAtMostOnce` |
| `ReportsFiled` | `RiskApp` | `FiledUnderTrade` |
| `ImplementsGroup` | `RiskApp` | `KeepsGroup` |
| `JamsAreCreations` | `ConnPool` | `OnlyCreationsJam` |
| `PoolTypeCorrect` | `ConnPool` | the pool's limit and types |
| `UsesPool` | `TransactionService` | its behaviours are behaviours of `ConnPool`, whose theorems so hold of it |
| `ServiceTypeCorrect` | `TransactionService` | `ServiceTypeOK` |
| `AtMostOneWinner` | `TransactionService` | `OneWinner` |
| `PaidAreSuccess` | `TransactionService` | `PaidIsSuccess` |
| `RefundsAreStamped` | `TransactionService` | `RefundIsStamped` |
| `ClosedFormHolds` | `MCFunctions` | `ClosedFormIsFloatArithmetic`, given amounts below 2^31 cents and precisions of at least 8 bits that hold them exactly |
| `QuartersAreExact` | `MCFunctions` | `QuarterYuanExact`, given the same of `P` |
| `AtMostOneCentShort` | `MCFunctions` | the conversion gives the amount or one cent less, given the same of `P` |
| `SettingsRanked` | `MCFunctions` | `SettingsAreRanked`, for any number of lines in `.env` |
| `RejectedUnanswered` | `MCFunctions` | `RejectedIsNotAnswered` |
| `PaymentsOnly` | `MCFunctions` | `OnlyPaymentsAreTaken` |

`NotifyApp`'s invariant says of each consumer that what is in its batch and no longer in its
hand was sent, and that its hand is empty at the acknowledgement; so the acknowledgement of
the whole batch is one of sent entries.  Batches are disjoint because a read takes an interval
that begins after the group's cursor, and every batch lies at or before it (`BatchIsNext`).
The same facts show each step to be one of `ConsumerGroup`, or none.  That no entry is sent
twice needs a second invariant (`SentOnce`): a read takes only entries that lie after the
cursor, which nobody has sent, and what is still in a hand was not sent by its consumer.  The
pending scan would break it, for it sends without asking who reads.

`PaySystem`'s invariant, `SystemInv`, has the invariants of both sides and two facts that
neither side has: the stream contains, for each order, exactly the entries that the payment
side believes to have queued (`QueueIsStream`), and a use case that is about to return without
an error, or whose sender was answered "success", concerns a row that is paid
(`AnswersAreTrue`).  An entry that a merchant received is in the stream, so its order was
notified, so its row is paid and stays so.  The proof goes through two instances: `PaySystem`
steps are `PayApp` steps or stutters, and the same for `NotifyApp`, which is why the earlier
invariants need no second proof.

`RiskApp`'s invariant says whose hand an unreported event is in: nobody's before it is read,
one consumer's until it is saved, and none after a failure, which is why a second report
cannot be written (`Unreported`); and that what a consumer is about to save was drafted for
the oldest event in its hand (`AtWork`).  That a batch has an oldest and a youngest event,
which TLC computes, is proved from the well-foundedness of the finite intervals
(`OldestIsMember`, `YoungestIsLast`).  The vector store plays no part in it.

`CasesInv` adds the store.  That a case which fell out of the bounded memory is older than all
that is left there holds only if the memory is sorted, and it is sorted only because a server
makes cases in the order of the events: an event of which a case may still be made has none
yet, and is younger than every case its server has (`CasesInOrder`).  This in turn needs that a
server's events are handed out beyond the cursor, which every case lies at or before
(`CasesAreOld`), and that a consumer works from the oldest event in its hand upwards.  The
same fact gives `PrecedentsAreThere` its second half: the search comes before the upsert, so
the event's own case is not there yet.

`TransactionService`'s invariant says of every row and every entity in a request's hand that
its columns agree (`Consistent`), but for an order that a caller moved out of SUCCESS: that row
keeps its payment time, and so does whoever reads it.  So a stale `Update` spoils nothing that
`UpdateStatus` has not spoilt, and the theorem `PaidAreSuccess` names the orders concerned.
`OneWinner` is not inductive; `Claims` adds that the status which an order is in has an arrival
that nobody claimed yet.  A caller that is told it moved the order claims just that one, and
every step that brings the order to a status, the unconditional UPDATE at the end of a creation
included, adds one.

`ConnPool`'s invariant ties what a request holds to its step.  A request that holds a connection
and does not go on is therefore a creation in `save`, with one connection; if the pool is
exhausted and nobody goes on, the holders are as many such creations as there are connections.

**Keys.**  `HolderKeepsKey` follows from one lemma on the steps of `PayApp` (`KeyKept`): a key
with a holder changes only by its holder's release, by the holder's end or by its time.
`Exclusion` above is the case in which keys do not lapse.

**Settings.**  `FirstLineCounts` is by the induction on naturals described next: the fold over the
lines of `.env` leaves the variable as the environment has it, or as the first line sets it.

**The amounts.**  TLC compares the closed form of the conversion with floating point at small
precisions only, because its integers have 32 bits; the theorem holds at 53 too.
`MCAlipayAmount` defines powers of two and the scan of a decimal by recursive functions.  The
library's induction theorems take a predicate as a parameter, which the provers here cannot
instantiate, so `FunctionsProofs` first proves that a set of naturals with 0 that is closed
under successor is all of them (`InductiveSet`), applies it to the set of the n up to which a
recursively defined sequence exists (`ValuesExist`, `Agree`, `Iteration`), and so gets the
equations of `Pow2` and of its remainders modulo 100 (`Pow2Recursion`,
`Pow2Mod100IsRemainder`).  From there it is arithmetic: the scan rounds the quotient of cents
and 100 to the nearest float (`Scan`), the product rounds again, and what truncation leaves
depends on which side of an integer that second rounding falls (`Product`, `Truncated`).
`AtMostOneCentShort` says how wrong the result of `alipay_cents` can be: never above the
amount, never more than a cent below it.

**Only model-checked**: the liveness properties `LockIsFreed`, `StreamIsDrained`,
`EveryEventIsRead` and `EveryRequestEnds`; TLAPS has no proof rules here for fairness and
ENABLED.

## What is not modelled

- The texts of SQL, prompts and answers, signature computation, XML and HTTP bodies,
  dependency construction, routing, logging: a model keeps of them only what decides where
  a call goes.
- `ChannelService`, the channels' `Query` and `Refund`, `FindLatestByTradeNo` and `AcquireLock`,
  which nothing calls and which keep no state of their own; `WechatAdapter`, which nothing
  constructs; `WithTransaction`, which differs from `WithTransactionV2` by its context only.
- `GetDSN` and `GetAddr`, which print settings.
- Two locks with one value, and two servers that give two reports one id in the same
  nanosecond: the second insert fails, which is a failure of `Save` like any other.
- The text of a case, which carries the model's score before it is brought into range.

Limits worth knowing: a key that the environment has with an empty text, or with one that does
not parse, hides its lines of `.env` although it gives no value itself, so that `config.yaml`
decides, below which `.env` never stands according to the documents; an order whose creation could not commit or reach the gateway may
stay behind as an INIT row that nobody was told of; the channel's number of a payment is lost from an order
that was closed while it was created; `UpdatePaymentStatus` moves an order out of SUCCESS if it is
asked to, and leaves `success_at`; several orders of a merchant may have one out_trade_no, and a query or
a confirmation by that number then concerns the oldest row; an order that is never confirmed
stays PROCESSING after its expiry, for nothing scans for it; `notify_stream` is never trimmed; a risk event whose report could not be saved stays pending and is
never read again; an order that expires while it is still being created can come back
from CLOSED to PROCESSING (`EarlyExpiry`, the assumption of `SettledStaysSettled`); a case
written to a server's memory while Milvus was away is not found once Milvus answers.

## Plan

Done: the payment core and its theorems; the notification stream with its theorems and the
abstract `ConsumerGroup` that both streams implement; the risk pipeline and the vector store with
their theorems; the pool; the domain service with `UpdateStatus` and the refunds, with theorems;
the composition with the senders of confirmations and what it promises merchants and channels,
proved; configuration, notices, generated SQL and amounts as operators, with theorems.  Next, in
this order:

1. `QueryShowsOrder`, several orders of one merchant with one out_trade_no: it needs an insert
   whose commit comes later than its id, so that rows appear out of order;
2. two lock values that collide.
