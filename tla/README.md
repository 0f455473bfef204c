# A TLA+ model of the IHMS-OMS checkout orchestrator

IHMS-OMS sells a cart across two services it does not own: KB-IHMS, which holds
stock, and EC-OPS, which takes orders. Neither takes part in a transaction, so
the orchestrator runs a saga: *hold stock → create the order → fulfil the hold*,
with a compensation (release the hold) when the order fails and a reconciliation
(look the order up by its client reference) when nobody knows whether it failed.
This directory models that saga with its stores and upstreams, the catalog the
carts are checked against, the page of the shop on top of them, and the stock
that carts compete for; it checks the models with TLC and proves their
invariants with TLAPS.

Paths are relative to the repository (`src/src/saga/coordinator.py` is the
coordinator, `src/docs/...` the documentation).

## 1. Inventory

| Component | State it keeps | Operations | Talks to |
|---|---|---|---|
| Saga coordinator (`src/src/saga/coordinator.py`) | none of its own: locals across awaits | `place_hold`, `confirm`, `abandon`, `place_order` | stores, gateways, steps |
| Saga steps (`src/src/saga/steps/`) | attempt counter | `find_order_by_reference`, `fulfill_hold_safe`, `release_hold_safe` | gateways |
| Session store (`src/src/session/`) | sessions by id, one `asyncio.Lock` each | `save`, `get`, `lock_for` | coordinator, service |
| Idempotency store (`src/src/saga/idempotency.py`) | confirm responses by session and key | `get`, `put` | coordinator |
| Checkout service (`src/src/checkout/service.py`) | none | create, hold, confirm, place order, abandon, catalog reads | coordinator, catalog, gateways |
| HTTP API (`src/src/api/`) | none | routes, error mapping, headers | service |
| Gateway clients (`src/src/gateway/`) | none | the upstream calls, timeouts, error classes | KB-IHMS, EC-OPS |
| Live catalog (`src/src/catalog/`) | two caches and which one is active, shared by all requests | `refresh`, JSON fallback, reads | KB-IHMS |
| Mock upstreams (`src/docker/mock-upstreams/`) | holds and stock; orders and keys | the REST endpoints | orchestrator |
| Shop (`src/frontend/src/App.tsx`, `api/`, `cart.ts`) | cart, idempotency key, session query, stored checkout | place order, retry, poll, reload, follow the catalog | HTTP API |
| Shop presentation (`src/frontend/src/components/`) | inputs, the one with the focus | pick, type, blur, remove | shop |
| Observability, settings, start-up, scripts | counters, configuration | | |

How they interact. A route calls the service, the service calls the coordinator,
and all of it runs on one event loop: a coroutine runs alone until it awaits.
It awaits an upstream (HTTP, with a client timeout) or a session's lock. The
stores are dictionaries in memory; nothing is persisted.

What is hard in it:

- *Locked and unlocked code on one session.* `confirm`, `place_hold` and
  `abandon` work under the session's lock on a snapshot they read once it is
  held and save after awaits; `place_order` reads the session and may save it
  **without** the lock (`coordinator.py:338-354`).
- *Answers that say nothing.* A timed-out `POST /orders` may have made the order,
  may not have, or may still make it. ADR-008 pins the idempotency key on the
  session and looks the order up before anything else is done with it.
- *Partial failure.* The order is made, fulfil fails: the session is
  `FULFILL_PENDING` and every later call must finish it.
- *Retries of retries.* The client retries with its key, the coordinator retries
  lookups, fulfils and releases, the stores replay recorded answers.
- *Time.* A hold runs out while its session is being confirmed.
- *A shared cache* refreshed by every catalog request and every cart, whose
  replies may overtake each other.
- *A page that forgets.* It may be reloaded, lose an answer or click again while
  the first request is still being worked on; only a key in a ref and a record in
  `sessionStorage` say that two requests are one purchase.
- *Checks that are out of date.* A cart follows a catalog seen earlier, and the
  orchestrator checks stock one await before it asks for the hold.

What makes each part correct:

| Part | Properties |
|---|---|
| Coordinator and stores | every path leaves the lock and none goes in circles; no save undoes an unseen write; store and session agree; answers given stand; a session sells once and closes for good; every request is answered |
| Coordinator and EC-OPS | at most one order per session; no order is forgotten; a sale names an order that is its own; no post while a key is pinned |
| Coordinator and KB-IHMS | no hold is forgotten; only the hold a session names is settled; closing frees the stock, selling keeps it; stock is never freed behind an order; stock is committed only behind an order |
| Catalog | what a request is shown is what KB-IHMS told that request: one look at its stock |
| Shop | a purchase makes one order; what is shown and stored is a saved sale; a pending sale is not forgotten; buttons come back; polling shows the end |
| Carts and stock | nothing is oversold, made or lost; what is sold stays sold; a hold keeps what was asked for; a cart fits the catalog it shows, and so does what it orders |

## 2. Modules

| Module | What it is |
|---|---|
| `CheckoutSaga` | coordinator, steps, stores, service handlers, both upstreams |
| `SessionLifecycle` | the promise to a client: a session opens, reserves, then sells once or closes |
| `CheckoutSagaProofs` | the inductive invariant of `CheckoutSaga`, what follows from it, the refinement |
| `CheckoutSagaStepProofs` | the way of a coroutine from await to await |
| `CheckoutSagaHoldProofs` | holds and orders against sessions |
| `LiveCatalog`, `LiveCatalogProofs` | the shared catalog caches and the requests that refresh and read them |
| `FreshCatalog` | the promise of the catalog: an answer is one look at KB-IHMS's stock |
| `ShopTab`, `ShopTabProofs` | one tab of the page, composed with the whole of `CheckoutSaga` |
| `IhmsStock` | the lines of `place_hold`, and the quantities KB-IHMS keeps |
| `StockLedger` | the promise of KB-IHMS: pieces are on the shelf, held or sold, and none is made or lost |
| `ShopCart` | the cart of a tab and the inputs on it |
| `Storefront` | `IhmsStock` and `ShopCart` composed, with other clients |
| `FoldProofs` | what the folds of the community modules compute, proved |
| `IhmsStockProofs`, `StorefrontProofs` | theorems about merging, stock and carts |
| `MCCheckoutSaga`, `MCLiveCatalog`, `MCShopTab`, `MCStorefront` | small sets and symmetry for TLC |

### CheckoutSaga

**State.** `sess` and `lock` are the session store and its locks; `idem` the
idempotency store; `req` what each request asks for (operation, session, key);
`co` the coroutine of each request: the await it is at, the attempts its retry
loop has failed, its local `session` (`snap`) and `order` (`got`), and in the end
its answer. `hold` and `elapsed` are KB-IHMS, `order` and `late` EC-OPS. A
session's client reference is its correlation id, unique per session, so the
session stands for it.

**Steps.** One step is what a coroutine does between two awaits. An upstream
call and the resumption after it are one step: the effect at the upstream, the
result the client sees, and everything the handler does until its next await.
That order is the only one that matters to the other coroutines, since a
suspended coroutine changes nothing in between; what *does* make a difference,
an effect that comes after the client has given up, has a step of its own
(`LateOrderTakesEffect`). `TakeLock` actions are a step apart from the await
before them; where the code takes a free lock without a pause, that only adds
interleavings.

| Code | Actions |
|---|---|
| routes and service (`api/routes.py`, `checkout/service.py`) | `CreateSession`, `ArriveCart`, `ArriveCheckout`, `ArriveConfirm`, `ArriveAbandon`, `RejectCart`, `ValidateActive`, `ValidateFails` |
| `place_order` | `PlaceOrderReplay`, `PlaceOrderRefused`, `PlaceOrderResumes`, `HoldRequested` |
| `place_hold` | `HoldRefused`, `HoldLocked`, `HoldTooLate`, `StockChecked`, `StockShort`, `HoldCreated`, `HoldCreateFails` |
| `confirm`, lock to first await | `ConfirmReplay`, `ConfirmResumes`, `ConfirmFresh`, `ConfirmRefused` |
| `find_order_by_reference` and its four callers | `LookupFound`, `LookupAgain`, `PreflightEmpty`, `LookupEmpty`, `LookupFails`, `StatusUnknown`, `StillUnknown` |
| `POST /orders` | `CreateOrder`, `CreateOrderReplayed`, `CreateOrderConflict`, `CreateOrderFails`, `CreateOrderTimeout`, `LateOrderTakesEffect` |
| `fulfill_hold_safe` and its four callers | `FulfillSucceeds`, `FulfillTimeout`, `FulfillGivesUp` |
| `abandon`, `release_hold_safe` | `AbandonRefused`, `AbandonCreated`, `AbandonHeld`, `ReleaseSucceeds`, `ReleaseTimeout`, `ReleaseGivesUp` |
| an answer that does not parse | `ReplyUnreadable` |
| KB-IHMS's clock | `TtlElapses` |

Abstracted: carts (a step `StockChecked` or `StockShort` stands for the check of
the lines), customers, prices, headers, status codes beyond what a caller tells
apart, the length of a backoff.

**Faults are constants**, so that a run says what it assumes of the upstreams:

| Constant | TRUE means |
|---|---|
| `EnforceUnique` | EC-OPS refuses a second order of a key or reference (the mock does, and the one of `src/docs/EC-OPS-UPSTREAM.md:13-16`; the frozen EC-OPS of ADR-008, lines 13-14, does not) |
| `ListFiltered` | `GET /orders` honours `client_reference` |
| `FulfillEndpoint` | KB-IHMS has the fulfil endpoint (the mock has; main answers 404) |
| `HoldsExpire` | the TTL of a hold may run out |
| `AmbiguousHolds` | a failed `POST /api/holds` may have made the hold (at once; holds made later are in `IhmsStock`) |
| `AmbiguousErrors` | a failed `POST /orders` (5xx, connection lost) may have made the order |
| `LateOrders` | a timed-out `POST /orders` may take effect later |
| `BadReplies` | a 2xx of EC-OPS or fulfil may have a body that does not validate |

Timeouts with or without effect are always possible for orders, fulfils and
releases.

Before `confirm` takes the lock the service reads the hold at KB-IHMS. Any 200
passes (`ValidateActive`): the status in it is not looked at, so a hold that has
run out is refused there only if KB-IHMS answers 409 (`ValidateFails`), and
otherwise by the check of `expires_at` under the lock.

### SessionLifecycle

Two variables, the stage of each session and its sale. `ImplementsLifecycle`
instantiates it with `stage` derived from the session's state and `sale` its
order id. It promises that a session sells at most once and for ever, that no
two sessions name the same order, and that a pending sale is never closed.

### LiveCatalog

**State.** KB-IHMS's `stock` (which SKUs it sells and how many it has), the two
caches, the active one, and the coroutines of list, SKU and cart requests. Here a
call takes two steps, KB-IHMS serving it (`Serve...`) and the reply arriving
(`...Arrive`), because what is at stake is that replies overtake each other.

| Code | Actions |
|---|---|
| `GET /catalog`, `/catalog/{sku}`, cart of a hold | `Arrive`, and `Read` inside the steps that end a refresh |
| `LiveIhmsCatalog.refresh` in its three modes | `ProductsArrive`, `ProductsEmpty`, `ProductsFail`, `InventoryArrives`, `BothEmpty`, `InventoryFails` |
| JSON fallback (`load_from_json_catalog`) | `Raise` |
| join of the JSON catalog with the inventory | `JoinArrives`, `JoinFails` |
| KB-IHMS | `ServeProducts`, `ServeInventory`, `ServeJoin`, `StockMoves` |

### FreshCatalog

What a client may rely on, without a cache: a request opens, looks at KB-IHMS's
stock (again, if it likes, or in vain), and answers with what that look told,
and of a SKU that it did not tell with a default (unknown, or the JSON fallback's 0).
`ImplementsFresh` instantiates it with the request's
own reply as its `look` and the place it awaits at as its `stage`. It says more
than `AnswerIsOwn`, which compares an answer with the reply of the request: a
`refresh` that took its reply from the cache rather than from KB-IHMS would keep
`AnswerIsOwn` and break `ImplementsFresh`, which is the mutant that goes with it.

### ShopTab

It EXTENDS `CheckoutSaga`: each step of the orchestrator is one of the saga's own
actions (`Serve`, `Elapse`), with what the response to the pending click will say
(`Respond`) fixed when the handler returns.

**State.** `tab` is App's state: whether the cart has a line, the session id, the
key in `idempotencyKeyRef`, and the mutation that is pending. `shown` is the
session data the query has, `stored` the record in `sessionStorage`, `reply` the
response on its way, `sent` the requests sent. `attempts` is history: the clicks
of the current purchase, which starts with a first key and ends with *Continue
shopping* or with a reload that finds nothing stored.

| Code | Actions |
|---|---|
| catalog and cart | `AddToCart`, `RemoveFromCart` |
| `runPlaceOrder`, `usePlaceOrder` | `Click`, `AnswerOk`, `AnswerError`, `AnswerLost` |
| `useSession` and its `refetchInterval` | `LoadSession`, `PollSession` |
| effects that store and clear the checkout | `AnswerOk`, `Cleared` |
| *Continue shopping*, *Retry* | `ContinueShopping`, `Retry` |
| `readStoredCheckout` after a reload | `Reload` |

A click is a request of its own with a session of its own, because
`POST /sessions/checkout` opens one per call. The other requests of the model are
retries of confirm sent from outside the page, as `docs/sequences/checkout.md:79`
describes.

### IhmsStock, ShopCart, Storefront

**State.** `inventory` and `holds` are `MockState` of
`docker/mock-upstreams/ihms/app.py`; `call` is what each buyer has under way at
the orchestrator, with its lines after merging, forgotten once it is answered.
A hold whose request was on its way when the client gave up is `late`; KB-IHMS
makes it at any later time, if it still fits, and nobody learns its id. `seen`, `cart` and `typing` are
the catalog, the cart and the focused input of each tab. `asked`, in a call and
a hold, is history: what the buyer wanted of each product in all.

| Code | Definitions |
|---|---|
| `place_hold`: `merged_quantities` | `Merge`, `Merged`, `PlaceHold` |
| `_assert_sufficient_stock_for_lines` | `StockChecked`, `StockShort`, `CartRejected` |
| `create_hold`, `release_hold`, `fulfill_hold` of KB-IHMS | `Reserve` in `HoldCreated`, `HoldConflict`, `LateHold`; `ReleaseHold`, `FulfillHold` |
| a failed `POST /api/holds` | `HoldFails`, with `Delay` |
| `cart.ts` | `ClampLine`, `Joined`, `Updated`, `Synced`, `SyncCart`, `Displayed` |
| `CatalogGrid.tsx`, `CartPanel.tsx` | `AddToCart`, `Type`, `Blur`, `RemoveLine`, `MayPlace`, `Committed`, `CommittedCart` |
| `App.tsx`: effect on `products`, `runPlaceOrder` | `SeeCatalog`, `PlaceOrder`, `Answered` |
| other clients of `POST /place-order` | `ClientOrders`, `ClientAnswered` |

`StockLedger` is what these calls promise of the stock: for each product, the pieces
on the shelf, in holds and sold. A step moves pieces from the shelf into holds, or
from holds back to the shelf or to sold, and does nothing else, so no repetition
or order of releases and fulfils brings back what was sold. `ImplementsLedger`
instantiates it with the sums over the holds that are `Active` and `Fulfilled`.
`StockConserved`, by comparison, only fixes the total; a release of a fulfilled hold
that put its pieces back would keep it and break `ImplementsLedger`.

Abstracted: a product is its SKU, since the catalogs map them one to one. What
becomes of a hold is the saga's business, so here it may be released or fulfilled
at any time and any number of times, which is more than the saga does. A catalog
reply is KB-IHMS's inventory, or the JSON catalog joined with the inventory, with
zeros, or with unknown stock. A 409 and any other failure of `POST /api/holds`
are one answer to a cart.
A buyer has one call at a time; that a tab forgets a call on reload is the
subject of `ShopTab`. One input has the focus, and the click on a button takes it: the input is
committed first (`Blur`), as the click itself would commit it.

## 3. Runs

In every passing run TLC explores the whole state space, and checks for deadlock.
`Idle` (no request in progress), `StockMoves`, *Retry* of a pending order and
browsing are the only ways to go on without a request, so a coroutine stuck for
ever would not be a deadlock; the liveness runs would find it.

| Run | Instance | Properties |
|---|---|---|
| `saga_core` | 1 session, 3 requests of all five operations, 2 keys, 2 holds, 2 orders, MaxRetries 2; holds expire, errors ambiguous, orders late (548 k states) | `TypeOK`, `LockOwned`, `SnapshotCurrent`, `ClosedHoldIsGone`, `CacheAgrees`, `NoOrphanHold`, `ActsOnNamedHold`, `AnswerStands`, `SoldIsNotReleased`, `EveryStepCounts` |
| `saga_real_upstreams` | the frozen EC-OPS of ADR-008, which enforces nothing, and the KB-IHMS of `IHMS-UPSTREAM.md:13`, without a fulfil endpoint; no abandon (143 k) | `NoDuplicateOrder`, `OrdersFollowed`, `NoReleaseAfterOrder`, `PinnedNeverPosts` |
| `saga_two_sessions` | 2 sessions sharing keys, 3 requests (checkout, confirm, abandon), answers that do not parse, MaxRetries 1 (222 k) | `FinishedHasOrder`, `FulfilledHasOrder`, `ImplementsLifecycle` |
| `saga_live` | 1 session, 3 requests, lost hold answers, answers that do not parse, MaxRetries 1, fair (31 k) | `EveryRequestAnswered` |
| `catalog` | 2 requests, 2 SKUs, one of them in the JSON catalog, stock 0 or 1, fallback on, fair (466 k) | `TypeOK`, `AnswerIsOwn`, `ImplementsFresh`, `EveryCatalogAnswered` |
| `shop` | a tab with 2 clicks and so 2 sessions, 1 retry of confirm, 2 keys, an EC-OPS that enforces keys, late orders, ambiguous errors (444 k) | `ShopTypeOK`, `StoredIsSold`, `ShownIsSaved`, `OneOrderPerPurchase`, `PendingKept` |
| `shop_live` | 1 click and 1 retry, every fault, MaxRetries 2, fair (9 k) | `ClickAnswered`, `PollingShows` |
| `storefront` | 1 tab and 1 client, 2 products with 2 and 1 in stock, 2 holds, quantities up to 2, inputs left blank or set to 2 (766 k) | `StoreTypeOK`, `NeverOversold`, `StockConserved`, `HeldAsAsked`, `CartFits`, `SentFits`, `ImplementsLedger` |

Bounds, and why they suffice. Three requests are two that collide and one that
comes after; a third key or order adds nothing that a second does not, since the
code only compares for equality. `HoldIds` and `OrderIds` bound what the upstreams
ever make: two of each is one more than the code should make for a session. When
they are used up, `POST` can only fail, which is an outcome it always has.
`MaxRetries` is 2 in the code; where a run sets 1, a loop has still a first, a
repeated and a last attempt. Two catalog requests are enough for one to overtake
the other; the other modes and a catalog without fallback are covered by the proof
of `AnswerIsOwn`. Two clicks in `shop` are an attempt and the one that repeats it,
with two holds and two orders so that each may succeed on its own. In `storefront`
two buyers are one more than the stock of the second product serves, two holds let
one be released while the other is kept, and the client's second list has two
lines of one product. A user types nothing or the largest quantity, which is more
than there is of the second product; a number below one is clamped as a zeroed
line is. Everything this run checks is also proved for any sets.
`Sessions`, `Requests`, `Keys`, `HoldIds` and `OrderIds` only occur in equalities
and quantifiers, so permuting them is sound; the liveness runs use no symmetry.

Fairness. `WF(Resume)`: the event loop resumes a coroutine whose call has
returned, and every HTTP call has a client timeout, so it does return.
`SF(TakeLock)`: `asyncio.Lock` wakes its waiters first in, first out, so a
coroutine that waits while the lock is free again and again gets it. Nothing is
assumed of clients, of the hold's clock or of the late orders. In the catalog,
`WF(Step)` for each request, for the same reasons. For the page, `ShopFairness`
adds that a request that was sent arrives, that the answer to a click does unless
the connection is lost, and that not every poll fails, as the browser's timer goes
on (`hooks.ts:29-32`). Nothing is assumed of the user, who may reload for ever.
`RecoveringShopSpec`, which only `find_retry_noop` uses, adds that KB-IHMS's fulfil
succeeds in the end and that the user keeps pressing *Retry*.

### Findings

Each of these runs checks one statement of the documentation that the code does
not keep; TLC finds the execution.

| Run | Property | What happens | The statement |
|---|---|---|---|
| `find_abandon_unknown` | `NoReleaseAfterOrder` | abandon releases the hold of a session whose order status is unknown | ADR-008, line 22 |
| `find_sold_released` | `SoldStaysDeducted` | with a single request, the hold runs out after the check of `expires_at` and before fulfil, whose 404 or 409 counts as success | `IHMS-UPSTREAM.md:30` |
| `find_checkout_retry` | `RetryReconcilesFirst` | the page's second click with its key, after the order's status was unknown, opens a new session and posts again | `FAILURE-SCENARIOS.md:23` |
| `find_retry_noop` | `RetryFinishes` | the Retry button of a pending order calls `runPlaceOrder([])`, which returns before any request | `sequences/checkout.md:78-79` |

More differences show in the models, or on reading, and get no run of their own:

- An error (5xx, connection lost) after EC-OPS has made the order is compensated
  without a lookup, so the stock of an order is freed; `IHMS-UPSTREAM.md:32` says
  that this must not happen. `AmbiguousErrors` switches it on.
- A compensation whose last `DELETE` takes effect without an answer leaves its
  session `HELD`, with no key pinned and no hold. A request that was waiting for
  the lock, or a repeated `place-order`, then sells it, and fulfil's 404 counts
  as success: `SoldStaysDeducted` fails in this way too, once there is a second
  request. It needs no fault switched on.
- A timed-out order may take effect after the last lookup found none and the
  session was compensated; `FAILURE-SCENARIOS.md:22` takes the empty lookup for the
  end of it. `LateOrders` switches it on.
- When the answer to `POST /api/holds` is lost, the next attempt makes another
  hold; `IHMS-UPSTREAM.md:38` speaks of one hold per session. `AmbiguousHolds`.
- The first order of `GET /orders` is taken as the session's without a look at
  its reference (`gateway/ecops.py:104`); ADR-008, lines 12 and 15, looks it up by
  reference. `ListFiltered` FALSE.
- With KB-IHMS unreachable the JSON fallback shows stock 0
  (`catalog/ihms_cache.py:49`) where `README.md:85` promises null.

The passing runs leave out exactly the faults that break what they check:
`NoReleaseAfterOrder` passes without abandon, late orders, ambiguous errors and
unreadable replies, `NoOrphanHold` without lost hold answers. With unreadable
replies a session may be left `HELD`, unpinned, with an order or a fulfilled hold,
and a later abandon closes it, so `ClosedHoldIsGone` is run without them too.
`OneOrderPerPurchase` and `PendingKept` need an EC-OPS that enforces its keys:
the page relies on it, as `find_checkout_retry` shows.

## 4. Proofs

The theorems hold for every value of the constants that satisfies the named
assumptions: any number of sessions, requests, keys, holds, orders, tabs and
products, any `MaxRetries`, every setting of the faults unless said otherwise.

| Theorem | Says |
|---|---|
| **`CheckoutSagaProofs`** | |
| `TypeCorrect` | `Spec => []TypeOK` |
| `SagaInvariant` | `Spec => []SagaInv`, the inductive invariant |
| `LocksAreLeft`, `SnapshotsStayCurrent`, `CacheNeverDisagrees`, `AnswersAreFinal` | `LockOwned`, `SnapshotCurrent`, `CacheAgrees`, `AnswerStands` |
| `SalesAreReal` | `FinishedHasOrder`, if `ListFiltered` |
| `SagaImplementsLifecycle` | `Spec => ImplementsLifecycle`, if `ListFiltered` |
| `PinnedSessionsNeverPost` | `PinnedNeverPosts`, without `LateOrders` |
| **`CheckoutSagaStepProofs`** | |
| `NoHandlerCircles` | `EveryStepCounts`, for every `MaxRetries` |
| **`CheckoutSagaHoldProofs`** | |
| `OnlyNamedHoldsSettle`, `SoldStockStaysSold` | `ActsOnNamedHold`, `SoldIsNotReleased` |
| `NoHoldIsOrphaned` | `NoOrphanHold`, without `AmbiguousHolds` |
| `CommitsHaveOrders` | `FulfilledHasOrder`, if `ListFiltered` |
| `ClosedSessionsGiveBack` | `ClosedHoldIsGone`, without `BadReplies` |
| `OneOrderWhereEnforced` | `NoDuplicateOrder`, if `EnforceUnique`, with every other fault |
| `NoOrderIsForgotten` | `OrdersFollowed`, under `PromptOrders` (below) |
| `OneOrderPerSession` | `NoDuplicateOrder`, under `PromptOrders`: an order takes effect before its client gives up, and not with an error |
| `CompensationIsSafe` | `NoReleaseAfterOrder`, under `PromptOrders` and without abandon |
| **`ShopTabProofs`** | |
| `ShopRunsTheSaga` | `ShopSpec => Spec`: all of the above holds under the page |
| `ShopTypeCorrect`, `ShopInvariant` | `[]ShopTypeOK`, `[]ShopInv`, the inductive invariant |
| `StoredIsAlwaysSold`, `ShownIsAlwaysSaved` | `StoredIsSold`, `ShownIsSaved` |
| `PurchasesMakeOneOrder` | `OneOrderPerPurchase`, if `EnforceUnique` |
| `PendingIsKept` | `PendingKept`, if `EnforceUnique` and `ListFiltered` |
| **`IhmsStockProofs`, `StorefrontProofs`** | |
| `MergingIsRight` | the fold of `place_hold` gives, for every list of lines, one line per product with the sum |
| `StockStepsKeepStock` | every step of a call or of KB-IHMS keeps `StockInv` |
| `StoreTypeCorrect`, `NothingIsOversold`, `StockIsConserved`, `HoldIsWhatWasAsked`, `CartsFit`, `WhatIsSentFits` | the first six properties of the `storefront` run |
| `StockImplementsLedger` | `StoreSpec => ImplementsLedger` |
| **`LiveCatalogProofs`** | |
| `CatalogTypeCorrect`, `CatalogAnswersAreOwn` | `TypeOK` and `AnswerIsOwn` of `LiveCatalog` |
| `CatalogImplementsFresh` | `Spec => ImplementsFresh`, in every mode |

**The saga.** None of the safety properties is inductive by
itself. That a save under the lock undoes nothing (`SnapshotCurrent`) needs to
know that the unlocked save of `place_order` writes what is already there; that
is so because the cache agrees with the session (`CacheAgrees`); the cache
agrees because a record is only written together with the session, by a locked
coroutine whose snapshot is current; and that this coroutine does not overwrite
the record of another sale needs the state its session is in where it awaits
(`PlaceState`). So `SagaInv` is the conjunction

- `TypeOK`;
- `LockOwned`: a session's lock is held by exactly the coroutine that is past it;
- `SnapshotCurrent`: that coroutine's local session is the saved one;
- `SessionShape`: which fields a session has in which state;
- `CacheAgrees`: exactly one record for a sold session, equal to it;
- `PlaceState`: the state of the session, the pinned key and the local order at
  each await;
- `FinishedListed`: the order of a sold session is one EC-OPS lists for it;
- `AnswerStands`: an order id that was answered is still the session's.

`CacheAgrees` also shows that one branch of `confirm` is dead: a `FULFILL_PENDING`
session is never confirmed with its own key without a cached record, so
`coordinator.py:205-218` only ever refuses another key. The model keeps the branch
(`ConfirmResumes`).

The proof goes action by action. Actions that only move a coroutine share a
lemma (`QuietStep`), those of the environment another (`EnvironmentStep`), and
so on for saves, records and lock entries. Refinement follows from the invariant:
each action changes the state of at most one session, and along an edge of
`SessionLifecycle`; that two sessions never name the same order needs the
references at EC-OPS, hence `ListFiltered`.

**Why every request can be answered.** Liveness itself is left to TLC, but what it
rests on in the code is proved for every size. `LockOwned` says that a lock is
held only by a coroutine that is past it, so no early return, exception or
unreadable answer leaves it behind. `StepsLeft` counts the steps a coroutine has
ahead of it at most; `NoHandlerCircles` shows that each step it takes, whatever
its upstreams do, lowers the count, so a request is at most `2 * (MaxRetries + 1) +
8` steps from its answer. The proof first shows which awaits follow which (`Edge`),
action by action (`FrameStep`), then that the count falls along each (`EdgeCounts`,
`AgainCounts`). What remains for TLC is that fair scheduling lets a request take
those steps.

**Holds and orders.** On top of `SagaInv`, small invariants relate the upstreams
to the sessions: `HoldOwned` (a session's hold was made for it), `HoldsKnown` (an
hold is the hold of its owner), `CommitsFollowed` (the hold of an unsold session is
fulfilled only while the request that sells it goes on) and `OrdersFollowed` (a
session with an order is sold, pinned, abandoned, being sold, or its order is being
asked for). Each is inductive only without the fault its theorem excludes.
Two facts need no such assumption. `WhoSettles` finds, for every hold that becomes
fulfilled or released, the request that did it and the session it works on: the
hold is the one the session names, which gives `OnlyNamedHoldsSettle`, and, because a
handler that releases has found its session `HELD` under the lock,
`SoldStockStaysSold`. `OneOrderWhereEnforced` uses only what EC-OPS checks.

**The page.** `ShopInv` adds to `SagaInv` what a page knows: requests for one
session carry one key (`RequestsFit`, `ServerFits`), orders carry the key of a
request (`OrdersFit`), a response or a shown session is that of a sold session
and lags behind it by its completion only (`ViewFits`), what is stored is what is
shown (`StoredFits`), and the clicks of a purchase share the key in the tab or in
the store (`AttemptsFit`). `OneOrderPerPurchase` follows, since all its orders
would have the same key; `PendingKept` since the only step that would overwrite
the record is the answer to another click of the same purchase, whose order
EC-OPS would have made twice.

**Stock and carts.** What a fold computes for every input is proved by induction
over finite sets. `SubsetInductionSet` states that induction for a *set* of sets
instead of an operator, and is proved from the library's well-founded minimum, so
the provers can use it; `FoldExists` derives that the function
by which the community modules define a fold exists, `SumRemove` and `SumAdd` what
a sum does when its set changes. `MergingIsRight` is the same induction along the
lines of a cart. `StockInv` adds one fact to the checked invariants: a call whose
lines are at KB-IHMS has merged all that its buyer asked for (`AsksAll`), so that
KB-IHMS's check of each line alone is a check of the whole. `TabInv` is
`CartTypeOK` with `CartFits`, tab by tab; that an order sends what is shown
follows from `MergingIsRight`, because the items of a cart have one SKU each.

For the ledger, `PiecesIn` is the sum of a product over the holds of a status.
`OneHoldChanges` says what a step that changes one hold does to each sum: the
hold's old share leaves it and its new share joins it. So a reservation, a release
and a fulfil move exactly the quantities of one hold (`MadeHolds`,
`ReleaseReleases`, `FulfillSells`), and a repeated release or fulfil, or a request
on its way (`DelayStutters`), moves none.
`StockConserved` and the refinement are two uses of the one lemma.

**The catalog.** `AnswerIsOwn` is strengthened with what a
coroutine on its way has been told: no reply before KB-IHMS served it, and a
reply while one is in hand. A handler reads the cache in the step that ends its
own refresh, so the answer is made from that reply or from the JSON catalog.
The refinement adds when the reply was made: KB-IHMS's step, which takes the stock
of that moment, is the only one that gives a request a reply (`ServeFresh`), the
others keep it, drop it or answer with it (`SettlesFresh`). It holds although
the caches, which other requests overwrite in between, are what the handler reads.

**Only model-checked.** Liveness (`EveryRequestAnswered`,
`EveryCatalogAnswered`, `ClickAnswered`, `PollingShows`) is beyond the prover,
which handles neither fairness nor `ENABLED` here. Every safety property and every
refinement of the passing runs is proved. The models have no recursive definitions.

## 5. Not modelled

- *Restarts of the orchestrator.* Sessions, locks and records are lost together, so
  nothing inconsistent is left behind in it; the holds run out at KB-IHMS. A
  restart of the page is modelled (`Reload`).
- *Expiry of a hold in `IhmsStock`.* There it is a release at any time; the
  clock is in `CheckoutSaga`.
- *Several tabs of one page in `ShopTab`.* They share nothing: `sessionStorage`
  and the ref belong to a tab.
- *The calls of the frontend's client that no component makes* (hold, confirm,
  abandon): the routes behind them are modelled in `CheckoutSaga`.
- *`LockedSessionStore.mutate`*, which nothing calls, and the mocks' `/_test`
  endpoints, which only the tests do.
- *Presentation, metrics, logging, headers, settings, scripts*: no state that
  a property here depends on.

## 6. Plan

Done: the saga with its promise, the catalog, the page, carts and stock, and the
proofs of every safety property and refinement the runs check. What could follow:

1. A promise of the shop to its customer (a purchase is open, pending or complete,
   with one order), which `ShopTab` implements where EC-OPS enforces its keys, and
   what `ClickAnswered` rests on as a theorem, as `NoHandlerCircles` is for the saga.
2. A refinement from the holds of `CheckoutSaga` to those of `IhmsStock`, which
   would put the quantities under the saga itself; the composed state space is too
   large for TLC, so it would rest on a proof.
3. Several customers in `ShopTab`, each with a tab, against one EC-OPS: the keys of
   the tabs are drawn at random and never meet, so nothing new is expected.
4. The status codes of the routes (`api/errors.py`), which the shop's messages
   depend on, once a property needs to tell them apart.
