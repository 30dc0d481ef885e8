# Verification of the Rappidex Express backend

TLA+ modules of the backend in this repository (NestJS, MongoDB through TypeORM),
TLC configurations that check them on small instances, and TLAPS proofs. Paths
below are relative to `src/` of the repository.

## The system

One Node process serves couriers ("motoboys"), stores and administrators over
HTTP, polls iFood every 30 seconds, receives iFood's webhook and MenuFlow's calls.
All state is in MongoDB collections; nothing uses transactions. A handler is a
chain of awaited round trips (database, iFood), and any other handler may run at
each await. Two kinds of write matter:

- `updateOne` / `findOneAndUpdate` with a filter and `$inc` / `$set`: atomic on
  one document;
- `repository.save({...copy, field})`: writes every field of a copy read earlier.

| Component | State | Operations | What makes it correct |
|---|---|---|---|
| iFood credits (`ifood/ifood-credits.service.ts`) | three counters in the user document, history rows | add, remove, consume, refund; whole-user saves elsewhere | the counters add up, never go negative, nothing is refunded that was not paid, or twice |
| Delivery lifecycle (`delivery/delivery.service.ts`) | the delivery document: status, courier, store, isActive, five "synced" flags | update, atomic claim, delete, release, clean-up, four iFood events | one winner of a claim, the quota of a courier, flags and final states that agree with iFood, refunds of what is canceled |
| Creation and import (`delivery.service.ts`, `ifood/ifood-import.service.ts`, `ifood-order-link.service.ts`) | deliveries, links, credits, unique indexes | createDelivery, importFromEvents, retry | one delivery and one credit per order, whoever imports it |
| Polling and webhook (`ifood/ifood-auto-polling.service.ts`, `ifood-polling.service.ts`, `ifood-webhook.service.ts`, `ifood-event.service.ts`) | event table, promise queue, scheduler state | poll, deduplicate, acknowledge, process | no event lost or applied twice over crashes and duplicates |
| iFood API clients (`ifood/ifood-orders.service.ts`, `ifood-http.service.ts`, `ifood-auth.service.ts`) | token cache, the queue and last send of each endpoint | notify, verify, cancel; attempts, backoff, pace | attempts bounded, pace kept, tokens alive when used, answers told as they are |
| MenuFlow (`menuflow-integration/`) | pending flag in the delivery, chain of synchronisations | create, cancel, status sync and its retry | no status is lost, news come in order, one delivery per order |
| Listings, settlement (`delivery.service.ts`, `user.service.ts`, `financial-settlement/`) | none of their own | filters, counts, pages | pages skip nothing, counters of different services agree |
| Migration scripts (`scripts/`) | the plan of a run: ids known, maps of ids, rows left | merge, final synchronisation, first copy | all is recovered, references resolve, a rerun changes nothing |
| Users, cities, authentication | user documents | CRUD, sign-in | saves of whole documents lose nothing that others wrote |

They meet in shared documents and calls: creation and cancellation call the
credits service; import, polling and webhook share the event table and the links;
iFood events and HTTP handlers write the same delivery documents; user handlers
write the documents that hold the credits; MenuFlow's flag is set by the handlers of
deliveries and cleared by its synchronisation; a cancellation goes through the HTTP
client; listings read what all of them leave.

Hard behaviour: handlers interleave at every await; whole-document saves of old
copies; a request that dies between two writes; iFood calls that fail, or succeed
and lose the answer; duplicated, reordered and lost events; queues made of chained
promises; timers that race answers; scripts that die between two batches while the
application writes. `PROJECT.json` lists these hazards at their lines.

## Modules

| Module | Models |
|---|---|
| `IfoodCredits` | credits service, and the user saves that carry the counters |
| `IfoodCreditsProofs` | its theorems |
| `MCIfoodCredits` | instance for TLC |
| `DeliveryLifecycle` | handlers that change a delivery, with their calls to iFood |
| `DeliveryLifecycleProofs` | its theorems |
| `MCDeliveryLifecycle` | instances for TLC |
| `ImportLedger` | what the import promises: an order is paid, made and linked once |
| `IfoodImport` | the import and its retries, with the credit, the delivery and the link; implements `ImportLedger` |
| `IfoodImportProofs` | its theorems |
| `MCIfoodImport` | instance for TLC |
| `IfoodEvents` | polling cycle and webhook queue, EXTENDS `IfoodImport` and runs its imports; failures and restarts |
| `IfoodEventsProofs` | its theorems; EXTENDS `IfoodImportProofs` |
| `MCIfoodEvents` | instances for TLC |
| `IfoodClient` | attempts, pace, time limits and tokens of calls to iFood, with the cancellation request as the caller |
| `IfoodClientProofs` | its theorems |
| `MCIfoodClient` | instances for TLC |
| `MenuFlowSync` | MenuFlow's calls, the pending flag as every handler writes it, the synchronisation and its retry |
| `MenuFlowSyncProofs` | its theorems |
| `MCMenuFlowSync` | instance for TLC |
| `HistoryImport` | the scripts that bring old data into PostgreSQL |
| `HistoryImportProofs` | its theorems |
| `MCHistoryImport` | instance for TLC: three untidy sources |
| `Paging` | operators: batches of merchants, pages of a settlement |
| `Listings` | what users are shown of deliveries that change; uses `Paging` |
| `ListingsProofs` | theorems about both |
| `MCListings` | instance for TLC |

### How they correspond to the code

A handler is split at its awaits: an action is what happens between two of them
together with the round trip it ends in. The local variables of the handler that
serves request `r` are `call[r]` / `task[r]`, and `pc[r]` is the round trip it
makes next. Reads that only look at data these handlers never change (users,
cities, links) need no action of their own. A request is served once; a refused
request changes nothing, so in `DeliveryLifecycle` it is simply not begun.
`Interrupt` ends a handler between two round trips: a database error or a restart.

**IfoodCredits.** `account` is the three counters of each company, `history` the
rows of `ifood_credit_history`. The filters of `findOneAndUpdate` are `CanRemove`,
`CanConsume`, `CanGiveBack`, its `$inc` documents `Released`, `Removed`, `Consumed`,
`GivenBack`. A refund takes four round trips (`FindRefund`, `FindConsume`,
`GiveBack`, `RegisterHistory`). `ReadUser` and `SaveUser` stand for every handler
that reads a user and saves it whole: `updateUser`, `resetUserPassword`,
`updateUserNotification`, `unblockUser`, `signIn`, `changePassword`; only
`updateUser` may carry counters (`CounterEdit`). Rows carry no balances: no code
reads them back.

**DeliveryLifecycle.** A document keeps status, courier, store, isActive and the
five flags; `bare` says that the flag fields are still absent, as in a document
that createDelivery wrote. `notified` is what iFood accepted and `ifood` what is
true of the order there. A refused delivery code counts as a success when its payload
has one of the words of `isOrderInTerminalState`; iFood may choose them for an order it has
not closed, so `RefusesAsEnded` is open to every refusal. The steps of `updateDelivery` are `UpdateRead` (with the refusals
of `MayUpdate`), `CountQuota`, `DecideDestination`, `Claim` or else the sync
(`SyncNothing`, `SyncProgress` and `Notify`, `SyncCancel`, `SyncFinish`,
`CheckCanceled`, `ConfirmFinish`), then `MergeCurrent` and `WriteUpdate`
(`persistDeliveryUpdate`), `SaveFlags`, `AskRefund`. Deletion is `DeleteRead`,
`AskCancel`, `Remove`, `AskRefund`; the clean-up `CleanupRead`, `QueryOrder`,
`Remove` for each delivery of its loop; release `ReleaseRead`, `Release` and then
the sync; the events `CancelEventRead`, `ConcludeEventRead`, `StatusEventRead`,
`CancelFailedRead` and their saves. `Save` writes an image as TypeORM does: all of
its fields, absent ones left alone. `Dto[u]` are the bodies user `u` sends,
`Patient` users who wait for an answer before sending the next request, `Closing`
the ways iFood may close an order, and `Ops` the entry points open: these four
make an instance smaller, or state the assumption a property needs.

Abstracted: names, addresses, observations, timestamps, prices; socket and push
messages; logs; the MenuFlow fields (`MenuFlowSync`); blocked or deleted users. An order is linked to its delivery from the start: `IfoodImport` is
about how it comes to be.

**IfoodImport.** `rows` is the event table, `deliveries` and `links` the two
collections, `importing` the set `importingOrderIds`. An importer is one running call
of `importFromEvents`: `task[i]` its batch, the orders left and the one in hand.
`NextOrder` is the head of the loop; `FindLink`, `UpdateLocator`, `AnalyzeOrder`,
`ReadEvents`, `FindRealLink`, `BuildDelivery`, `Consume`, `SaveDelivery`, `CreateLink`
are its round trips in order, `Leave` its `finally`. Imports are started by an event
(`Receive`, refined by `IfoodEvents`), by the end of a polling cycle (`RetryAll`) and
by added credits (`AddCredits`). Constants say whether the two unique indexes exist:
`onModuleInit` only logs when it cannot create them. `ShopOf` may name no company;
`blocked` is the switch of `changeConfigs`, which refuses creations. An order counts
as closed at iFood from the moment it is (`IfoodCloses`), whether or not an event
says so yet. The calls of `createDelivery` by stores and by the debug route
`create-delivery-test` (which goes round `importingOrderIds`) are not part of it,
and neither is the text of a delivery, its locator included.

**IfoodEvents.** `hook` and `cycle` are the locals of the webhook call and the polling
cycle under way, `queue` the calls that wait in the chain of promises. A webhook call is
`TakePost`, `HookFind` and `HookMark` for each event, `HookSort`, `HookApply` for each
closing event, `HookImport`, `HookDone`. A cycle is `StartCycle`, `PollFind`, `PollAck`,
`PollApply`, `PollImport`, `PollMark`, `PollRetry`, `PollDone`: it acknowledges first and
stores last. One poll may list an event more than once (`MaxCopies`): only the targets of
the acknowledgement are freed of copies, so that each copy is looked up, handled and marked,
and the second `PollMark` of an event meets the unique index and ends the cycle. `cycle`
therefore counts copies; their order is left open. `Handle` is the event handlers of the delivery service in one step,
since `DeliveryLifecycle` takes them apart; events that do not end an order only
change the delivery's status there. `HookFails`, `PollFails`, `ImportFails` are round
trips that throw, `Restart` loses what is in memory.

**IfoodClient.** `phase[c]` is where a call of `requestCancellation` is: asking for a
token, about to make an attempt, queued for the pace, waiting its interval, sent, in its
backoff. `stage` is the endpoint it is at (`auth_token`, `reasons`, `cancel`), `queue`
and `lastRequestAt` the promise chain of `waitForEndpointRateLimit`. `Pace` computes the
wait when the predecessor's promise resolves, `Send` records the send and releases the
next. `Fails` is an answer that is repeated (429, 5xx, a broken connection), `TimesOut`
axios giving up, `IsRefused` an answer that is not repeated. Time is `now`; timers go off
when due (`Urgent` holds the clock). iFood issues a token some time before its answer
arrives (`TokenAnswer`), so the client's `expiresAt` is later than iFood's `until`.
`Retry-After` is not read by the code, and a 401 leaves the cached token where it is.

**MenuFlowSync.** `delivery` has the fields that matter here, with `updatedAt` as a clock
of writes. A handler reads a copy (`ReadCopy`) and writes it back whole with the flag set
(`Cancel`, `Release`, `Delete`, `Claim`); an update reads a second time (`MergeRead`,
which also takes its stamp) and writes the first copy (`UpdateWrite`). The chain of
promises `syncQueue` is `chain`; an operation is `MarkPending`, `SyncRead`, the post
(`PostAccepted`, `PostFails`), `ClearPending` or `KeepPending`, and a database call of it
may throw (`SyncThrows`). `RetryFind`, `RetryNext`, `RetryDone` are `retryPending`. A post
that timed out, or whose process died, may reach MenuFlow later (`late`, `Arrive`). What
MenuFlow does with a status (keep the newest by `updatedAt`) is an assumption: `Tell` is
external. `crossed` and `overwritten` record writes the code does not protect: one that
falls between the read and the clearing of the flag, and an update from an older copy.

**HistoryImport.** `source` is what the cursors return, `table` the rows of PostgreSQL. A
run reads what exists (`Start`), plans cities and users (`PlanCities`, `PlanUsers`), and
inserts in the order of `main`, one statement a batch (`InsertBatch`). `Merge` is one
document of `prepareCityMerge` or `prepareUserMerge`; `Candidates` and `Copies` the rows
of the other tables; `InsertDoNothing` and `Upsert` the two `ON CONFLICT` clauses,
`Refused` and `Fail` a statement a unique index refuses. `AppAdds` is the application
writing one row meanwhile: a delivery of an order and its link are two writes, the second
of which may come late or never. `record` stands for the tables that are imported alike (credit
history, settlements, logs, events). Fields are one key, one owner and one link: the
conversion of a field is data.

**Listings** and **Paging.** A document keeps createdAt, a copy of its store and city, its
driver, status and isActive. A where clause is the set of values of each field that it
lets through. `SaveDelivery` may give any status, driver and activity, and the establishment
it had or any user an administrator names: it covers every handler. The establishment of a
delivery may be any user with a city, as nobody looks at the type. A creation takes its createdAt before it is stored (`StartCreation`, `StoreCreation`).
`AskPage` and `ReadPage` are somebody who goes on to the next page until one is short;
that reader is an assumption about the client. `clock` is the createdAt a delivery gets,
which the code puts 3 hours back (`Behind`); `LocalOffset` is how far the server's zone is
ahead of UTC. `Paging` has the two splittings as
functions of a list: `chunkMerchants` and the pages of a settlement.

## Runs

| Run | Instance | Shows |
|---|---|---|
| `credits` | 1 company, 2 orders, 4 requests of any kind, 3 requesters | `Balanced`, `WithinReleased`, `RefundHasConsumption`, `UsedReconciled` |
| `lifecycle_sync` | 1 linked delivery at one of 4 stages, 2 requests of any kind by 2 couriers, a store and an administrator, 9 bodies, deaths | `FlagsAreNotified`, `OriginAfterAssign`, `FinishedIsAnswered`, `RemovalJustified` |
| `lifecycle_claims` | 2 fresh deliveries, one linked, 3 requests by 2 patient couriers and a store, quota 1, no deaths | `OneWinner`, `QuotaHeld`, `CanceledIsRefunded` |
| `import` | 2 orders of 1 store, 3 events (one a cancellation), 2 importers, 1 credit and 1 top-up, no unique index, fairness | `OneDelivery`, `ImplementsLedger`, `EligibleIsLinked` |
| `events_polling` | polling alone; 2 orders, 5 events, up to 2 copies of each in a poll, 1 credit, fairness | `PolledIsStored`, `EndReachesDelivery` |
| `events_both` | polling with up to 2 copies, 2 webhook calls, a top-up; 1 order, placed and cancelled; failures and restarts anywhere | `HandledAsListed`, `OneLink` |
| `menuflow` | 1 order, 2 ids, 3 calls of any kind, one restart, window 2, unique index, fairness | `TypeOK`, `SettledIsKnown`, `OneDeliveryPerOrder`, `NewsInOrder`, `EventuallyKnown` |
| `client` | 2 cancellations of one order, 2 attempts, time limit 1, interval 2 for cancellations, tokens that live 10 with a buffer of 8, fairness | `TypeOK`, `TokenAlive`, `AcceptedIsCancelling`, `SpacedOut`, `EveryCallReturns` |
| `history` | 3 sources with two spellings of a login, references by _id, missing ids and duplicates; 3 modes, batches of 2, one death, an application that adds a city, a user, a delivery or the link of this, fairness | `TypeOK`, `EverythingRecovered`, `ReferencesResolve`, `PreflightSuffices`, `RerunChangesNothing`, `Converges` |
| `listings` | 2 deliveries over 2 days of 2 ticks, 4 users in 2 cities who all may be establishments, a server 1 tick ahead of UTC, 1 save and 1 move, pages of 1 | `PagesComplete`, `SettlementsAgree`, `CountersAgree` |
| `cancel_before_link` | polling and 1 webhook call; 1 order, placed and cancelled; no failures, fairness | violation of `EndReachesDelivery` |
| `refused_cancellation` | 2 cancellations of different orders, with attempts that fail | violation of `RefusedIsKept` |

Bounds. Four requests on one account are two more than any single race here takes:
a consumption, two refunds of it and a save between. Companies share no state.
Two handlers on one delivery, from the stages a longer history leads to, contain
each pair "copy read, other handler writes, copy written"; the final stages are
reached from them. Three requests are what a lost claim takes (two claims and a third
write between) and what exceeding a quota of 1 takes with one to spare.
`lifecycle_claims` uses quota 1 where the code has 2: two deliveries are then enough
to exceed it.

The conditions of `lifecycle_claims` are part of what it shows. `OneWinner` fails
when status events run, since an event saves an old copy over a claim; `QuotaHeld` when
a courier sends two claims at once, which both count before either writes; a courier's note on a free delivery, or moving back a finished
one, is left out for the same reason.

Two importers and two orders are enough for the import: one order is contended by
two, and while one importer holds it the other is free to take the next order or the
last credit. The windows of the retries hold two rows, all eligible ones there are: with
more pending orders than rows (150 and 500 in the code) an old order starves, and
`EligibleIsLinked` does not hold. In `events_both` two webhook calls are what a repeated
post takes; each failure or restart may follow any step, any number of times.

`EndReachesDelivery` and `PolledIsStored` hold of polling alone because the single
cycle handles events and imports orders in turn. With the webhook on, the first one
fails (`cancel_before_link`), and an import started by added credits races a cycle in
the same way; the second fails when the duplicate key of one event ends `PollMark` for
the rest of a batch. The second copy of a polled event does the same, so `PolledIsStored`
exempts the events of a poll that listed one twice (`repeated`); `EndReachesDelivery` holds
over them, since the handlers run before the marking. A restart between `PollAck` and
`PollMark` loses events as well. Two copies are enough for a second one to be handled and to
meet the index.

Three calls of MenuFlow or of other handlers are what its races take: two creations of
one order and a write between, or a copy, another write, and the copy written back, with
a restart at any point. `Window` is 2 where the code has 25: as many rows as there are.
The index is there, as in a database migrated by the scripts; without it two creations
that both find nothing make two deliveries. The copies `crossed` and `overwritten` take
out of `SettledIsKnown` are listed under *Seen*.

The client's times are small integers in the code's proportions: `TokenAlive` needs the
time a token's answer was under way, all attempts with their time limits and backoffs, and
the wait for the pace to fit in the buffer. In the code three attempts of 10 s (four for the
acknowledgement) and their backoffs fit in the 60 s. Timers fire when due: a process that
stands still longer than the buffer is not covered. Two calls are enough for one to wait for
the other's interval, and for a token taken from the cache by the second.

The three sources of `history` hold what the scripts say they repair: a login in two
spellings, references by `_id` and by `id`, documents without an id, duplicates. With
batches of 2 a table takes two or three statements, so that a death falls between them.
One death and one write of the application are what a plan that has gone stale takes.

In `listings` the dashboard cuts days in the server's time zone and the settlement in UTC, a
tick apart, and deliveries of the tick between are there. `SettlementsAgree` accounts for
them: the two sums differ by what is in one day and not in the other (`notShown`,
`notSettled`), and by nothing else. It adds the settlements of all users of the city, of a
type that is a store or not, and compares only while nobody has moved or gone. Two deliveries
are what an order among rows takes, and pages of 1 over them have a first, a full last and an
empty last page; the pages of a settlement hold 1 row and then 2. `PagesComplete` leaves out
equal instants, which the sort by `createdAt` alone does not order.

Fairness of the lifecycle. `FairSpec` demands that a handler begun goes on (`WF` of its next step):
Node resumes an await when the round trip is answered, and every client has a
timeout. It demands nothing of users or of iFood, and a call to iFood may always
fail. Deaths of the process are closed in the runs of liveness properties:
nothing in the code repeats a handler that died.

Fairness of import and events. Imports, webhook calls and cycles go on for the same
reason, and the interval timer starts cycles for ever (`WF` of `RetryAll`, of
`PollStep`). Nothing is demanded of iFood or of stores. `EligibleIsLinked` assumes
that the switch of `changeConfigs` stays open in the end.

Fairness of MenuFlow. The timer of `menuflow-status-sync` fires for ever (`WF` of
`RetryGoesOn`) and an operation of the chain goes on. Strong fairness of the timer's round
trips says that neither the database nor MenuFlow fails for ever; without it nothing can be
promised. The application's own first post has no such assumption: the retry makes up for it.

Fairness of the client. Time passes and the program takes each step it can take. iFood
need not answer: `TimesOut` is a step of axios.

Fairness of the scripts. Somebody starts the merge again until it ends well (`SF` of
`Start("merge")`), which is what IMPORTAR-DADOS-ANTIGOS.md tells an operator to do, and
a run that is not killed goes on.

## Findings

Two runs end in a violation, each of what a line of the repository says:

- `EndReachesDelivery` (`cancel_before_link`): a cancellation handled before the import
  links its order is dropped, and the cancelled order stays a delivery in progress.
- `RefusedIsKept` (`refused_cancellation`): iFood takes a cancellation and the answer is
  lost; the second attempt is answered "already in progress", which the client reports as
  refused. The delivery is kept "para evitar divergência" while iFood cancels the order.

Seen while modelling, without a run. Of deliveries and credits:

- two refunds of one order both pass the look for an earlier row, since
  the index of `ifood_credit_history` is not unique;
- a courier who sends two claims at once passes the quota, as both count before either
  is written;
- a status event saves an old copy over a claim, and a second courier may then win;
- `isOrderInTerminalState` takes any refusal of a delivery code that contains "cancel",
  "already", "finaliz", "finished" or "conclu" for an order that has ended: a delivery whose
  code iFood did not accept is finished when the refusal says, for instance, that a
  cancellation is in progress; and a cancelled order is finished when the query of its status
  fails. `FinishedIsAnswered` therefore names such a refusal among the answers;
- a notification that failed is logged as to be retried, and nothing retries it;
- after a delivery is saved and its link is not, each retry consumes another credit and
  then fails on the unique index;
- events acknowledged by a cycle that fails or is interrupted are lost;
- an event that one poll lists twice is handled twice, and its second `markAsProcessed` meets
  the unique index and ends the cycle: the fresh events after it are acknowledged and never
  stored, so neither readiness nor a retry sees them (ifood-auto-polling.service.spec.ts polls
  such a pair, with a repository that refuses nothing);
- `Retry-After` is not read, and a 401 does not drop the cached token.

Of MenuFlow: a document written between the read and the clearing of the flag loses the
flag, and its newer status is not sent until the next change (`crossed`); an update writes
back its first copy over what others wrote meanwhile (`overwritten`); the retry takes 25
pending rows in no order, so that rows MenuFlow rejects can keep others out.

Of the scripts: a user the application adds under a login the plan is about to insert
leaves the history of that login with an id that has no row (`raced`); a merge that runs after
the application stored a delivery of an order and before it stored the link skips the old
delivery and imports its link, which then names a delivery that is not there, where
IMPORTAR-DADOS-ANTIGOS.md:84 expects none (`LinksFollowDeliveries` asks for a delivery of the
same order in this case); the final synchronisation fails at every run when two
source logins differ only in case; the preflight does not look at duplicate ids of events,
logs and credits. The application in this repository runs on MongoDB, and its package.json
has neither the import command nor a PostgreSQL driver.

Of listings: a delivery whose establishment is no store is counted by the dashboard of its
city and charged only if somebody asks for a settlement of that user; the dashboard's days are
the server's, those of a settlement UTC's, and createdAt is put 3 hours back, so that at
midnight a delivery falls into different days for the two; a delivery awaiting release that already has a driver is in two of the
dashboard's counters; a courier who asks for PENDENTE gets everybody's deliveries of all
the statuses asked for.

## Proofs

`IfoodCreditsProofs` proves, for any companies, orders, requests and amounts:

- `TypeCorrect`: `Spec => []TypeOK`;
- `CountersBalanced` and `CreditsWithinReleased`: under `ConsistentEntry` (whoever
  types counters in types consistent ones: the DTO does not check it);
- `RefundsHaveConsumption`: `Spec => []RefundHasConsumption`;
- `UsedIsReconciled`: `Spec => []UsedReconciled`.

`Balanced` and `WithinReleased` are not inductive: a save puts an old copy back. The
invariant is that the account of each company *and* the copy held by each pending
save are solvent (they add up and no counter is negative); each `$inc` keeps that
because its filter is part of the same atomic update. `RefundHasConsumption` is
inductive because history only grows. `UsedReconciled` counts sets that many steps
change; `ReconciledInv` adds that they are finite and that a request has its row in the
history only when it is done, so that the `$inc` counts a request that was not counted
before, and writing its row (or losing it) counts none anew.

`DeliveryLifecycleProofs` proves, for any users, deliveries, bodies and requests:

- `TypeCorrect`: `Spec => []TypeOK`;
- `FlagsNeverAhead` and `DriverKnownFirst`: `FlagsAreNotified` and `OriginAfterAssign`,
  from documents whose flags are true (`TrueStart`);
- `FinishNeedsIfood` and `RemovalNeedsIfood`: `FinishedIsAnswered` (verified, closed, or
  refused in the words of a closed order) and `RemovalJustified`, from documents that are not closed without iFood
  (`ConfirmedStart`);
- `AtMostOneWinner`: `OneWinner`, when every body names a courier or a status other
  than PENDING (`DecisiveBodies`) and no status event, refused cancellation or release
  runs (`NoStaleSaves`). Without the second one it is false: a status event saves a free copy over a claim.

None of these is inductive: what a handler writes is the copy it read long ago. The
invariants therefore speak of the copies as well. `FlagInv`: the flags of every copy
and those a handler has gathered are accepted by iFood, which never takes one back.
`ClosedInv`: a copy that is FINISHED or inactive is confirmed, and so is each decision
to write FINISHED or to remove, from the step that took it on; this includes that a
synchronisation that fails ends the update. `ClaimInv`: a delivery with a winner is not
free, and no image that a handler may write is. The type invariant carries that a
handler about to claim knows its courier.

`IfoodImportProofs` proves, for any orders, stores, events and importers, and
with or without the unique indexes:

- `TypeCorrect`: `Spec => []TypeOK`;
- `OrderHasOneDelivery` and `OrderHasOneLink`: `OneDelivery` and `OneLink`;
- `ImportsImplementLedger`: `Spec => ImplementsLedger`, that is, every step of the
  imports is a step of `ImportLedger` or leaves it alone.

What an importer found out about its order several round trips ago must still hold when
it writes. `IInv` says why: an order in hand is in `importing` and in no other hand
(`Claims`, `Exclusive`); so it stays unlinked from the look for its link to `CreateLink`,
it is paid once and has no delivery at `SaveDelivery`, and exactly the one just saved at
`CreateLink` (`Standing`); and a paid order is linked or in the hands of an importer at
one of these two steps (`Paid`), so that nobody pays it again. The
assumption is that no handler fails: `Spec` has no failures, and with them
`ImplementsLedger` is false. `events_both` checks what is left then.

`IfoodEventsProofs` extends that to failures and restarts, for any events, orders,
importers, with both channels on:

- `HandledOnce`: `HandledAsListed`, for any number of copies in a poll. The invariant
  `EventsInv`: the webhook stores an event before it handles it and polling acknowledges it
  first, so what a channel handled is stored or acknowledged; what the webhook has still to
  handle it never handled before, and what a cycle handled and what it has left of an event
  together are no more than its poll listed;
- `LinkedOnce`: `OneLink`. `LinkInv` keeps of `IInv` what survives an importer that stops
  half-way: whoever is about to create a link holds the order alone and found it unlinked.

`MenuFlowSyncProofs` proves, for any orders, deliveries, calls, bodies and restarts:

- `TypeCorrect` and `SyncInvHolds`: `Spec => []TypeOK` and `Spec => []SyncInv`;
- `SettledHolds`: `SettledIsKnown`;
- `OneDeliveryHolds`: `OneDeliveryPerOrder`, with the unique index (`UniqueIndex`);
- `NewsComeInOrder`: `NewsInOrder`.

The argument is about versions. Every copy a handler holds, every status under way or
known to MenuFlow, and every late post is a version of its document: its time tells its
status, and none is newer than the document unless an older copy was written over it
(`VersionsFit`). The stamp of a write is new (`StampsFit`), what an operation is sending is what
the document says unless the document was written meanwhile (`SentFits`), and at most one
operation of the chain is past its turn (`TurnInv`). `SettledIsKnown` needs one thing more
than itself: that no late post can undo what MenuFlow believes.

`IfoodClientProofs` proves, for any calls, orders, profiles, intervals and limits:

- `ClientTypeCorrect`: `TypeOK`. `ClientInv` adds what a call has when it needs it: an order, an
  attempt left, an attempt to answer for (`CallsFit`);
- `SendsAreSpaced`: `SpacedOut`. `PaceInv`: whoever waits its interval is the head of the
  endpoint's queue, and wakes no sooner than an interval after the last send;
- `AcceptedIsTrue`: `AcceptedIsCancelling`;
- `TokenStaysAlive`: `TokenAlive`, for finitely many calls and under `BufferSuffices`: the
  margin with which a token is renewed, and the token's life, are longer than all attempts of
  a call, each of which waits for every other call's pace, its time limit and the longest
  backoff (`LongestRound`). `TimeInv` says that a token outlives every round its request may
  still need, counted from the end of the present one: the call's timer, or its place in the
  queue of the endpoint (`LivesOn`, `LivesInQueue`). With the code's constants (3 attempts of at
  most 10 s, backoffs from 200 ms, no pace for these endpoints) that is 43 s, and the margin is
  60 s. The condition is sufficient and not necessary: the run's margin is smaller than it
  asks, and `TokenAlive` holds there all the same.

`ListingsProofs` proves of the two splittings, for any list and limit, that every merchant is
in exactly one batch and none is too long (`MerchantsInOneBatch`), and that the pages of a
settlement hold each row once and in order (`RowsOnOnePage`); and of `Listings`, for any users,
deliveries, queries, days and page lengths:

- `NumbersAgree`: `CountersAgree`. Only the types of the documents are needed: the
  aggregation, its fallback and the where clause of the list select the same deliveries;
- `NothingIsSkipped`: `PagesComplete`. `PagesInv` says what a page turner has left to see:
  while nothing left the list, whatever was in it at the start and was not seen has a rank
  beyond the pages read. A delivery stored meanwhile only moves others to later pages, so a
  rank never falls, and the page just read held every row of its ranks;
- `SettlementsMatch`: `SettlementsAgree`, when each delivery starts in the city of its
  establishment (`StartsInPlace`), whatever the zone of the server. `StoresInv`: until somebody
  moves or goes, this stays so; then the deliveries of a city are those of its users, each
  user's its own, and the sum of the parts is the whole. Two days of different hours differ by
  what each has that the other has not (`SameUnion`). That the pages hold all rows is
  `RowsOnOnePage`. Induction over the pages and over the users is by a least counterexample
  (`LeastNatural`, `SmallestSet`).

`HistoryImportProofs` proves, for any old databases, any rows of the application, any
batches and deaths:

- `ImportTypeCorrect`: `Spec => []TypeOK`, in all modes. `ImportTypes` also says what plans and
  maps hold, and that a run that is over has left no rows;
- `CopyGoesThrough`: `PreflightSuffices`, in all modes, where MongoDB kept the ids of cities and
  users unique (`MongoKeepsIds`), which the preflight does not look at. `CopyInv`: every copied
  row is a document the preflight saw, and rows still to be copied do not disturb each other;
- `MergeRecoversEverything` and `MergeIsIdempotent`: `EverythingRecovered` and
  `RerunChangesNothing`, when the merge alone is run (`Modes = {"merge"}`). `MergeInv`: planned
  cities and users clash with no row and with no other planned row (`Fresh`) unless somebody
  added one behind the plan; while nobody writes, each document is in its table or in the plan
  (`Planned`); once a run has ended well each is in its table, and whatever a later run plans
  clashes with what is there;
- `HistoryIsRemapped`: `ReferencesResolve`, under the same condition, for a source that obeys
  the unique indexes of its entities (`TidySource`), whatever the application writes and when.
  `ReferencesInv` follows a reference to the row it will meet: every id of a user is mapped to
  a row that is in the table or still to come before any history (`Remapped`), and a delivery
  has arrived, is to come before any link, or gave way to one of the same order (`Arrives`).

The plan of a run and a statement of the merge are folds over documents and rows. Their
lemmas go from one prefix to the next (`PlanByPrefix`, `InsertByPrefix`, `OnlyByPrefix`), again
with `LeastNatural` for the induction; `FoldExists` provides the function that a fold stands
for. The condition on the modes is needed for the argument, and nothing is claimed without
it: a row written over by `final` or `copy` may lose the login, the name or the order under which
another document was found again. The run checks these three properties with all modes, on
sources where that costs nothing.

Only model-checked, of what the runs check: what needs fairness (`CanceledIsRefunded`,
`EligibleIsLinked`, `PolledIsStored`, `EndReachesDelivery`, `EventuallyKnown`,
`EveryCallReturns`, `Converges`), which is out of this prover's reach; `QuotaHeld`, which says something of couriers who
wait for their answers only; and the three properties of
`HistoryImport` just named, where other modes are run as well.

## Plan

Done, in this order: `IfoodCredits`; `DeliveryLifecycle`; `IfoodImport` with
`ImportLedger`; `IfoodEvents`; `MenuFlowSync`; `IfoodClient`; `Paging`, `Listings` and
`HistoryImport`. Left, in this order:

1. createDelivery by a store or administrator, and the composition of the import with
   `IfoodCredits` (`credits` in `IfoodImport` is its balance).
2. A composition of lifecycle and credits: a delivery's credit over its whole life.
3. Users: a block lost to the save of an old copy, a deleted user saved back, a token that
   keeps an old type or city.
4. The grouping of merchants by profile, and the order locator.

## Not modelled

Sockets, push and WhatsApp messages (output nothing depends on), the layout of settlement
PDFs and messages, the monthly fee and the PIX key (data), validation and plain listing of users and cities, the
PostgreSQL adapter (no module of the application uses it) and seeds.
