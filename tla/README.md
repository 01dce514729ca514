# Formal model of ZentoraBackend

TLA+ modules for the stateful core of the Zentora e-commerce backend (Go,
PostgreSQL, Redis, WebSockets), the TLC instances that check them, and TLAPS
proofs. Paths below are relative to `src/internal/` unless they say otherwise;
`PROJECT.json` maps every definition to the lines it models.

    tlc -config checkout_safety.cfg MCOrderCheckout    # any run of PROJECT.json
    tlapm OrderCheckoutProofs.tla                      # and the other *Proofs modules

## 1. Inventory of the system

The API process (`cmd/api`, `app/server.go`) serves HTTP requests concurrently,
one goroutine each, over one pgx pool (25 connections), one Redis client and one
WebSocket hub. A second process (`cmd/worker`) runs periodic jobs.
Handlers parse, services decide, repositories issue SQL. There is
no in-process lock around business data: correctness rests on what single
SQL statements, transactions and unique indexes guarantee, which is why most of
what can go wrong lies *between* two statements.

| component | state | operations | interacts with | what makes it correct |
|---|---|---|---|---|
| order creation (`service/order`) | orders, order_items | guest order, user order from cart or items | inventory (in its transaction), products and variants (through the pool), cart, e-mail | no overselling; order and reservations all or nothing; every request is answered |
| inventory (`repository/postgres/inventory_repo.go`) | inventory_locations, inventory_items | create/delete location, upsert, adjust, reserve, release, delete | order creation (same rows) | quantities never negative, reservations match orders |
| cart (`service/cart`) | carts, cart_items, Redis entry of 15 s | get, add/update, remove, clear; converted by checkout | order creation, Redis | one active cart; a cart ordered once; nothing lost; cache soon right |
| order reminder worker (`service/worker`) | orders.reminder_sent_at | list, mail, mark; ticker | orders, SMTP | cooldown kept, no false record, pending orders keep being reported |
| WebSocket hub (`websocket`) | clients map, send channels, contexts | register, unregister, broadcast, disconnect, shutdown | auth and notification services, pumps | no panic, no deadlock, no leaked client, broadcasts delivered |
| sessions (`pkg/session`) | Redis copy and `user_sessions` row | create, get (with asynchronous touch and restore), invalidate, refresh, blacklist | auth | a session that was logged out stays out |
| login limits, lockout (`pkg/session/redis_store.go`, `repository/postgres/auth_repo.go`) | Redis counters with TTL, failed-attempt columns | count, check, reset | auth | bounded attempts, limits that end |
| auth flows (`service/auth`) | identities, providers, tokens | register, login, reset, verify, deactivate | sessions, hub, e-mail | one-time tokens used once; a reset ends sessions |
| notifications (`service/notification`) | notifications | create and push, mark read, counts | hub | last pushed count is the true one |
| discounts (`service/catalog/discount.go`) | discounts, targets, redemptions | create, edit, delete, validate and redeem | orders | redemption limit; never more than the order is worth |
| delivery policy (`repository/postgres/delivery.go`) | shipping_methods.policy_version | get, update by compare-and-set | order creation (snapshot) | no lost update |
| addresses (`service/user`) | user_addresses.is_default | create, update, delete, set default | order creation | at most one default |
| categories (`service/catalog/category.go`, closure triggers) | categories, category_closure | create, move, delete | products | tree without cycles, closure = reachability |
| catalogue: products, images, variants, brands, tags, attributes (`service/catalog`) | their tables | CRUD, read-change-write of whole rows, slug retries | merchant feed, discovery, order creation | no orphaned variants; confirmed edits stay |
| wishlist, reviews (`service/wishlist`, `service/review`) | their tables, a Redis copy of the wishlist | get, add, remove, clear; review | orders, Redis | copy soon right; only bought products reviewed |
| metrics refresh (`service/worker/metrics_jobs.go`) | product_metrics, user_category_affinity, product_co_views | refresh on a ticker and on request | discovery reads the tables | tables never go back in time |
| discovery (`service/discovery`) | feeds kept in Redis for two minutes | candidates, fallbacks, cards; suggestions; search tracking | metrics, catalogue | no product twice, nobody else's feed, only products that were active |
| merchant feed (`merchant`) | none: a document per request | full, incremental and public runs in batches | catalogue | every exportable variant once |
| homepage sections, sitemap | homepage_sections; none | reorder; formatting | | |
| e-mail, JWT, middleware, router, config | none that decides behaviour | | | |

The hard behaviours, listed with their lines under `hazards` in `PROJECT.json`:
concurrent checkouts on the same rows, crossed lock orders, a pool that a
transaction needs twice, statements outside the transaction they belong to,
lost acknowledgements, ignored errors, cache fills after invalidations, workers
dying between mail and mark, dropped ticks, unbuffered channels used under a
mutex, channels closed by several owners, asynchronous session writes after a
logout, check-then-act on limits, locks and one-time codes, accounts made by four
statements in no transaction, rows read, changed and written back whole, triggers
that compute on what is committed, documents put together by several queries.

## 2. Modules and their correspondence to the code

| module | models | |
|---|---|---|
| `Inventory` | the stock tables and administrators' statements | extended by the next two |
| `StockLedger` | abstract specification: an order takes all its stock in one step | |
| `OrderCheckout` | `createOrderFromItems`, one transaction per request | implements `StockLedger` |
| `OrderReminder` | `OrderReminderJobService` and order status | |
| `WsHub` | `Hub`, `Client` and the goroutines around them | |
| `CartCheckout` | cart service, cache, tables, checkout from the cart | its order step abstracts `OrderCheckout` |
| `TokenRevocation` | abstract specification: a revoked token is never granted again | |
| `Sessions` | session rows, Redis copies, blacklist, `Auth` middleware, logouts | implements `TokenRevocation` |
| `Accounts` | making accounts and administrators, roles, route groups, login as far as roles go | |
| `PasswordGuard` | login limit and lockout | |
| `PasswordSessions` | change and reset of the password, and the sessions they end | the logout of one session is in `Sessions` |
| `EmailCodes` | codes by mail before registration, and their limits | hands `Accounts` its vouchers |
| `Promotions` | a discount and its redemption | |
| `Addresses` | the default address of a user | |
| `Wishlists` | a wishlist and its Redis copy | |
| `Reviews` | reviews checked against orders | |
| `Categories` | parent links and the closure table of the triggers | |
| `Notifications` | notifications and the unread counts that connections show | its hub abstracts `WsHub` |
| `Edits` | read-change-write of catalogue rows, compare-and-set of the delivery policy | |
| `Ranking` | a set in an order, some positions of a sequence: ORDER BY and the loops that filter rows | used by `MerchantFeed` and `Discovery` |
| `Catalog` | products, images and variants | extended by the next |
| `MerchantFeed` | a feed run over the changing catalogue | |
| `Metrics` | refreshes that overlap | |
| `Discovery` | product feeds and their kept copies | its scores stand for what `Metrics` refreshes |
| `MCServices` | instantiates the fourteen services from `Accounts` on | the theorems about them are about its `Spec` |
| `MCOrderCheckout`, `MCWsHub`, `MCSessions` | values for TLC and symmetry | |
| `OrderCheckoutProofs`, `OrderReminderProofs`, `CartCheckoutProofs`, `SessionsProofs`, `WsHubProofs` | theorems about the module they are named for | section 4 |
| `AuthServicesProofs` | theorems about `Accounts`, `PasswordGuard`, `PasswordSessions`, `EmailCodes` | |
| `UserServicesProofs` | about `Reviews`, `Addresses`, `Promotions`, `Wishlists`, `Notifications` | |
| `CatalogServicesProofs` | about `Metrics`, `Edits`, `Categories`, `MerchantFeed`, `Discovery`, and the types of all fourteen | |

Definitions whose comment begins with *Mutant of* are deliberate faults. No
specification uses them; they stand beside the definition they replace and show
that a property depends on it.

**OrderCheckout.** A request moves through `begin`, then per line `lookup`,
`pick`, `reserve`, then `commit`, and ends `succeeded` or `failed`. `stock` is
the committed table. `held[c][k]` is what the open transaction of `c` has moved
in row `k`, and since quantities are positive it is also the row lock. READ
COMMITTED is modelled as PostgreSQL implements it: an UPDATE looks at the
committed row, skips it at once when the condition fails, otherwise waits for the
lock and looks again. `Begin` and `LookUpLine` need a free pool connection, which
open transactions occupy. `Rollback` is the deferred rollback of every error
return; `Cancel` is a cancelled context or failed statement anywhere;
`CommitUnacknowledged` is a commit whose answer is lost; `DeadlockVictim` is
PostgreSQL's detector. Administrators' statements wait for row locks too.
Deleting a variant is, for checkout, `SetVariantActive` and `DeleteItem`.
Left out: prices and totals, shipping, order numbers, the delivery snapshot (read
before the transaction, its errors have a fallback), e-mails (after the commit,
errors only logged), `incoming_qty` (never read).

**CartCheckout.** One user, several concurrent requests, one step per statement
or Redis command. Redis errors are ignored by the code, so a GET may miss and a
SET or DEL may do nothing. `GetOrCreateActiveCartForUser` is a serializable
transaction backed by a partial unique index; the loser's insert fails. In a
checkout, reading the cart, the order transaction, `ClearCart` and
`MarkCartConverted` are separate steps, and the errors of the last two are
ignored. `owed` is a history variable: quantities accepted from the user and
neither taken out nor ordered.

**OrderReminder.** Time enters only as ages compared with thresholds, so the model
keeps ages that stop growing at their threshold. `lastNudge` is a history
variable: the age of the last digest that really reached the administrator.
Query, mail and each mark may fail, a failing mail may have been delivered, the
ticker drops ticks, `Restart` may happen at any time and runs the job at once,
before a ticker exists.

**WsHub.** Processes: the hub goroutine, a read and a write pump per client, and
request goroutines. Unbuffered channels are rendezvous steps with the hub's select.
`h.mu` is the `locked` field of the jobs of hub and requests. The
select of `SendMessage` has the outcomes of Go: enqueue, skip when the context is
done, panic when the channel is closed (a closed channel is *ready*), overflow
when none is ready. A panic in the hub or a pump ends the process; in a
request `RecoveryMiddleware` recovers it after the deferred unlock. Waiting for
the broadcast buffer is the guard of `QueueBroadcast`; which goroutine waits
(a request or a read pump's handler) is not kept, nor that a waiting writer
keeps new readers out of an `RWMutex`. Subscriptions are to one channel.
`CallHub` stands for the profile update that broadcasts in its own request
and for the two callers of `DisconnectUser`.

**Sessions.** A request passes `Auth` (blacklist, Redis copy, row as fallback) and
then does what it came for; the lookup leaves a touch or a restore behind as a
background job of two commands or one, which may run at any later time. Every
Redis command and statement is a step, and fails where the code lets it. The
copy of a session that was logged out can come back; `RefinesRevocation` shows that
the blacklist, which is written before the logout is answered and outlives the
token, keeps it useless. Logout of all sessions writes no blacklist entry, so
the abstract specification promises nothing about it; what can be said of it is
in `PasswordSessions`. `RefreshSession` has no caller.

**Accounts.** Identity, provider, profile and role are four steps; a request may stop
after any. An account without a role is taken for a `user`. `Login` ignores the error of the
profile query and dereferences what it returned: without a profile it panics after
its session was opened, and so it does when the query fails (`LoginPanics`, and
`AutoLogin` at the end of a registration). `EnsureSuperAdminExists` runs at
every start, also of two processes at once. `email_verified` is never written, so a
resend is never refused, and tokens for `VerifyEmail` need not be kept.

**PasswordGuard.** The Redis counter (INCR, then EXPIRE when it was the first) and the
failure columns are read and written by separate steps of a login. A guess is right
or wrong. `tries` counts the failures since the lock was last lifted, `lost` marks an
EXPIRE that failed or was never sent because the INCR's answer was lost: the
histories the two properties need.

**PasswordSessions.** The password, reset tokens, and per access token the
`auth_sessions` row and its Redis copy. A slot is a goroutine: a login (password
accepted, row, copy), a request that presents a token and the touch or restore it
leaves in the background, a change or reset, and the ending of all sessions that
follows one. That ending is a SCAN that may find a part of the copies, a DEL per key
whose error is ignored, and one UPDATE of the rows; nothing writes the blacklist.
Each may fail, and a lost answer of `UpdateProviderPassword` leaves the new password
without any ending. `missed` records, per ending, the tokens it may not reach: not
found, not deleted, being stored, or used before the rows are revoked. `spared` is
what all endings since the last change have missed.

**EmailCodes.** One address; sending, resending and verifying as Redis commands. A
resend that races a verification may reopen a session that was used up.

**Promotions.** One discount of several orders. `ValidateAndRedeem` is called by no
handler; it is modelled as the service offers it. `loose` marks what two patches
made together: `UpdateRequest.Validate` looks at type and value only when one
request names both, so a percentage above 100 gets in.

**Addresses.** One user. A promotion is a transaction of two UPDATEs under READ
COMMITTED: the clearing one takes its snapshot (`BeginClearing`), waits for locked
rows and locks them (`ClearDefaults`), and a default inserted after the snapshot is
not cleared when `SetAndCommit` makes both visible. A default is stored before its
promotion begins, and the answer to the storing may be lost. `loose` keeps the
defaults whose promotion failed or which a promotion was too old to see. Two
transactions that lock rows crosswise are `Fail` of one of them.

**Wishlists.** One user, one step per statement or command, any answer to a change
may be lost. The `FOR UPDATE` of `GetOrCreateByUser` locks nothing when there is no
row: the second creator fails on the unique key. Deleting a product or a variant
cascades into `wishlist_items` and nobody deletes the copy (`Cascade`), so for half a
minute it still shows what is gone: `deleted` says which items that may be.

**Reviews.** The review window is counted from `updated_at`, which every change of
status restarts, and the unique key is per user and product.

**Categories.** A move is a read, a check against the closure, and one statement with
its trigger, whose own changes become visible at its commit. Two overlapping
moves can make a cycle, or collide on the closure's key and fail: `overlap` marks
them, and `ClosureIsTree` shows that nothing else harms the tree.

**Notifications.** A count is read in one step and delivered in another, by a broadcast
(`Push`), which only reaches connections subscribed to the channel at that moment, or
as the answer to the connection that asked (`Reply`). A new connection is subscribed
to nothing. Creation and deletion push no count, marking through a WebSocket answers
only the asking connection, that handler sends 0 when its query fails, and a marking
whose answer is lost tells nobody: `excused` marks these.

**Edits.** Six kinds of records with the same shape. Those of the catalogue have no
version and undo each other when they overlap (`undone`); the delivery policy
compares its version, and there no confirmed edit is lost.

**Catalog, MerchantFeed.** Every catalogue operation is one transaction; a feed run
is one query per batch, and administrators act between any two. `steady` keeps
what could be exported during the whole run. An incremental run misses changes of
variants, images and stock, because only `products.updated_at` and new variants
count; that is what `updated` records.

**Metrics.** Data are a version number. A refresh of `product_metrics` is a snapshot
and a later write, so an older one can overwrite a newer; the other two tables are
truncated under an exclusive lock and filled from a fresh snapshot.

**Discovery.** Scores and filters are parameters; queries, fallbacks, cards and the
copy in Redis are steps. A fallback is asked for as many products as are missing
and those already found are dropped, so a feed may stay short. Cards are made
without looking at the status again.

## 3. Runs

| run | instance | shows |
|---|---|---|
| `checkout_safety` | 2 requests, 2 variants, 1 location that administrators make and stock, six baskets, all administrator operations | `TypeOK`, `TxAtomic`, `HeldCovered`, `TakenMatchesBasket`, `RefinesLedger` |
| `checkout_pool` | 3 requests, crossed baskets, pool of 3 | `StuckOnlyWhenPoolExhausted` |
| `checkout_progress` | 2 requests, crossed baskets, 2 locations, rows and locations deleted meanwhile | `ReservedEqualsOrders`, `EveryCheckoutFinishes` |
| `cart` | 3 requests of any kind | `OneActiveCart`, `ConvertedWasOrdered`, `LostOnlyByCheckout`, `StaleCacheDisappears` |
| `cart_once` | 3 requests that add or check out | `CartOrderedOnce` is violated |
| `reminder` | 2 orders | `CooldownRespected`, `RecordedWasNudged`, `NudgedUntilResolved` |
| `wshub_safety` | 2 users, send channel of 1 | `TypeOK`, `GoneAreForgotten`, `BroadcastSeesStableMap`, with overflows and panics |
| `wshub_roomy` | 2 connections of one user, channel of 6 | `MappedAreOpen`, `CancelledLeave`, `RequestsReturn` |
| `wshub_panic` | 1 client, channel of 6 | `NoPanic` is violated |
| `wshub_full` | 1 client, channel of 1 | `FullChannelDisconnects` is violated |
| `sessions` | 2 tokens, 2 requests, 1 background job of each kind at a time | `RefinesRevocation` |
| `services` | the fourteen services of `MCServices`, one per behaviour | the properties below, and every module's `TypeOK` |

The services share no state with one another: composing them would multiply
their state spaces and show nothing more. A behaviour of `MCServices` therefore
picks one and stays with it, and each property is that of one service:

| service | instance | property | what it shows |
|---|---|---|---|
| accounts | 2 addresses, 2 identities, 1 voucher, 2 requests | `AdminsWereAppointed`, `ConfirmedPanicOnErrorOnly` | half-made, deleted and re-registered accounts never open administrative routes; a login to a confirmed account panics only when the profile query fails |
| logins | limit and lock at 2, 2 requests | `TriesBounded`, `CounterEnds` | the lock lets each racing request one more guess; a limit is permanent only if its EXPIRE was lost |
| passwords | 2 passwords, 2 access tokens, 1 reset token, 2 goroutines | `OldSessionsRaced` | a session of an older password lives on only if every ending since the change missed it, by an error or by a login, touch or restore of that session |
| codes | 2 verifications, 2 codes, 2 requests | `CodeUsesBounded` | a code is accepted at most once per verification under way |
| promotions | 2 orders worth 100, values 50 and 150 | `BeyondLimitOnlyRaced`, `DiscountWithinOrder` | the limit is passed only by a race or a lowered limit; discounts stay within the order unless type and value were set apart |
| addresses | 3 addresses, 2 requests | `OneDefaultAddress` | two defaults need a promotion that is under way, failed, or was older than the other address |
| wishlists | 2 items, 3 requests | `CopyIsWishlist` | but for items deleted from the catalogue, the copy is wrong only while, or because, an invalidation is missing or overtaken |
| categories | 4 categories, 2 moves | `ClosureIsTree` | closure = reachability with depths, no cycle, unless moves overlapped |
| notifications | 2 notifications, 2 connections, 2 requests | `ShownCountIsRight` | a shown count is wrong only for the reasons listed above |
| edits | six kinds of records, 2 values, 2 requests | `ConfirmedEditsKept` | the delivery policy loses no edit, the catalogue only overlapping ones |
| reviews | 3 items in 2 orders, 2 users, 2 requests | `ReviewsWereEarned` | whatever the order became meanwhile, the review was allowed at a moment of its request |
| metrics | the worker, 2 administrators, 2 changes of the data | `TablesGoForward` | no truncated table goes back; product_metrics only by an overtaken refresh |
| discovery | 2 products, 4 requests, 1 slot | `FeedsAreSound` | no duplicates, no feed of another user, only products active during the request |
| feed | 2 products, 2 variants, 2 images, batches of 1 | `FeedComplete` | every variant exportable throughout is in the document, once and in order |

*Bounds.* Two checkouts and two variants are the least with a crossed lock order
and a lost race for the last unit. A request needs a second connection in each
`lookup`, so two can be past their first line together only with a pool of three:
that is the pool of the runs with two requests, and with three requests the same
pool can both let two of them cross and be exhausted by all.
`MaxInt = 2` makes the column limit
reachable. Two cart ids allow one conversion and a new cart; three requests
allow a checkout, an add and a reader at once. Ages of 2 and 3 with an interval
of 2 put the thresholds out of step with the ticker. In `wshub_safety` a channel of one
overflows on the second message; in `wshub_roomy` six places exceed what
`MaxMessages = 2` can produce (a welcome, two answers to each message), so
overflow is impossible. In `services` two requests are the least that race;
wishlists have a third so that a change can meet two others, and a third address lets
a promotion meet an older default and a newer one. Limits
of 1 or 2 stand for the code's larger ones, so that counters pass them; batches of 1
make every feed of two variants span batches. Discovery has one slot, since
requests meet only in the kept copy, which is written whole. Symmetry, over requests, tokens and
interchangeable things, is used only in `checkout_safety`, `checkout_pool`,
`sessions` and `services`, which have no liveness property.
The proofs remove the bounds where they apply.

*Deadlock.* Cart, hub, session and service runs switch the deadlock check off: all requests may have
ended, the process may have died or stopped, or a bounded supply (tokens, codes,
identities, versions) may be used up. Checkout and reminder keep it
on; administrators and the clock can always act there, so it says little.

*Fairness.* `OrderCheckout`: weak fairness of what service and database do for a
request, since goroutines and connections are scheduled and the deadlock
detector runs by a timer; none for submitting, cancelling, administrators or
losing an acknowledgement. `CartCheckout`: weak fairness of requests and of expiry
(15 s TTL). `OrderReminder`: weak fairness of time and of the worker, strong
fairness of the query and the mail succeeding (tried again on every tick, they are
not down for ever); none for marks succeeding or against restarts.
`WsHub`: weak fairness of each goroutine that can go on; pumps leave their loop
only when context, channel or connection oblige them; the properties
suppose that process and hub keep running. `sessions` and `services` check safety
only: nothing there retries, and what must eventually happen is an expiry of Redis.

### Findings

- `reminder`: the comment of migration 008 promises the customer "at most one nudge
  per order"; `NudgedUntilResolved` shows the worker reporting a pending order to
  the administrator after every cooldown.
- `wshub_panic`: the read pump may answer on a channel `DisconnectUser` has just
  closed; the panic ends the process.
- `wshub_full`: a sender that finds a channel full waits for the hub goroutine
  under `h.mu`, or is the hub goroutine: deadlock instead of a disconnect. If it
  does get through, the unregister closes the channel again and panics.
- `cart_once`: the same cart can be ordered twice.

Two weaker promises are stated as far as they hold. `LostOnlyByCheckout`: an item
added during a checkout is deleted with the ordered ones, or put into the cart
being converted, but nothing else loses one. `StaleCacheDisappears`: a
slow reader may store an old cart after an invalidation, so even the answer to an
add may lack the item, but not for longer than the TTL.

Met while modelling, and contradicted by nothing in the repository or out of the
properties' reach: the retry of a category with another slug has no effect
(`insertCategory` sets the slug again); `AddProductImage` can leave two primary
images; the attribute values of `CreateVariant` are a second transaction;
`resolveDiscount` creates a discount outside the product's transaction;
`UpdateProduct` does not refresh the search document; the feed takes a fixed
discount's percentage for an amount (`merchant_repo.go` 292-297); the entity tag of the public feed contains the
second of its generation, so it hardly ever matches; keys of kept discovery feeds
round prices and ratings to two decimals; a product archived after the candidates
were found, or while its feed is kept, is still shown; a login whose profile query
fails panics and leaves its session open, though nobody has the token; a lost answer
of `UpdateProviderPassword` changes the password and leaves all sessions; a touch or
restore revives the copy of a session that `LogoutAllSessions` has ended, and without a
blacklist entry the token works again; a deleted product stays in the kept wishlist
for half a minute; of two promotions that both succeed, the one with the
older snapshot can leave the newer address a second default; a connection that is not
subscribed keeps the count it once asked for.

Pool exhaustion is no finding, since nothing in the repository denies it:
`StuckOnlyWhenPoolExhausted` shows it to be the *only* way checkouts can all wait,
and `EveryCheckoutFinishes` supposes that a connection stays free.

## 4. Proofs

Every safety invariant and action property that a passing run checks, and both
refinements, are theorems. They hold for every value of the constants that
satisfies the named assumptions, and these say only that inputs are well-typed and
some sets finite: sizes and limits are naturals, positive where the code's are;
markers such as `NoRow`, `None` or `NoJob` are not values they stand for; request
slots, categories and products are finite sets; scores are numbers
(`InventoryAssumption`, `CheckoutAssumption`, `ReminderAssumption`, `CartAssumption`,
`HubAssumption`, `JobAssumption`, `ServicesAssumption`). Two results suppose more and
say so: `ReservedIsOrdered` and `MappedOpen`. The exceptions that properties name
themselves (`overlap`, `undone`, `loose`, `excused`, ...) remain theirs.

Each proof has one shape. A property is seldom inductive; the strengthening is
beside it in the component's module, was checked by TLC on the run's instance, and
is proved to hold at the start and to survive every action, one lemma per action or
group of actions. What follows is why each strengthening is needed.

- **Checkout.** `InvAlways`: `Spec => []Inv`, with
  `Inv == TypeOK /\ TxAtomic /\ RowLockExclusive /\ HeldCovered /\ LineInProgress`.
  `HeldCovered` (no overselling) is not inductive alone. A commit of `d` changes
  rows that `c` holds unless row locks exclude it (`RowLockExclusive`); the commit
  writes well-formed rows only if what is held is covered; a reservation keeps the
  lock reading of `held` only if the line's quantity is positive
  (`LineInProgress`); and a finished request must hold nothing (`TxAtomic`).
  `TypeCorrect`, `RowLocksExclude`, `NoOverselling` and `TransactionsAtomic` follow.
- **Checkout, sums.** `OrdersTakeTheirLines`: by `TakenInv`, an open transaction has
  taken, per variant and over all locations, what the lines before the current one
  ask for. The sums are the library's `FoldFunction`. `SumIs` shows it to be a
  recursive function on the subsets of a finite domain; `SumZero` and `SumChange`
  (changing one summand changes the sum by the difference) are all that the
  steps need. With them `ReservedIsOrdered` shows that reserved quantities
  are what committed orders took, supposing `HandsOff` (nothing is reserved at
  the start, and administrators may create, delete and restock but not write
  `reserved_qty`, which the code lets them) and finitely many requests.
- **Checkout, waiting.** `LocksNeverHalt`: in a set of requests that wait for row
  locks only, each waits for one of the set. A smallest such set waits in a cycle,
  and the deadlock detector resolves it. So if nobody can go on, all
  open transactions are in need of a second connection, and by `PoolBounded` they
  own the whole pool.
- **Refinement of `StockLedger`.** `CheckoutImplementsLedger`: `Spec => RefinesLedger`.
  The map is the identity on stock, locations and placed orders. A commit is an
  abstract `PlaceOrder` taking what was held, enabled because of `HeldCovered`; an
  administrator's step is the same abstract step; the others stutter.
- **Reminder.** `CooldownHolds`, `RecordsAreTrue`. The strengthening
  `MarkingWasNudged` says that what is left to mark was in the digest just sent.
- **Cart.** `SingleActiveCart`, `ConversionFollowsOrder` rest on `ReadBeforeUse`: a
  request holds a cart id wherever it uses one and has no order before its order
  step. `OnlyCheckoutLoses` adds `OwedInv`: until the first order the
  active cart holds exactly what is owed, nothing if there is none; a cart some
  request holds exists, and an unused id has no items.
- **Sessions.** `SessionsSafe`: tokens in `ended` are blacklisted or expired, copies
  in Redis are not of expired tokens, and a request that began after its token's
  logout was answered (`late`) gets past the blacklist only when the token has expired
  (`LateFits`). `LogoutsHold`, the refinement of `TokenRevocation`, follows step by
  step: granting is the hard one, and an expired token finds neither copy nor row.
- **WebSocket hub.** `HubSafe`, from which `HubTypesCorrect`, `GoneForgotten` and
  `StableMap` follow. `JobFits` says what a job under way may still have to do, and
  `LockExcludes` that the holder of the write side of `h.mu` is alone: so a client once
  unregistered is put back by nobody. `MappedOpen` is about channels that cannot overflow
  (`Roomy == SendBuf > 2 * MaxMessages`, the reason for `wshub_roomy`): without
  overflow a client is mapped once, with a channel never closed, and
  whoever closes it holds `h.mu` and takes it out of the map (`MapFits`). That no
  overflow occurs is `ChannelsFit`: what is queued, still to be answered, or waited for
  by a sender never exceeds what the messages sent so far allow.
- **Accounts, codes.** `AccountSafe`: roles belong to what was being created
  (`RolesFitCreation`), a row and a request agree on how far creation went, and what was
  confirmed has its profile, so `ConfirmedPanicsAreErrors`.
  `CodeSafe`: every code has one token,
  the code of an open session is unused, and uses of a code and requests that have
  read it are together no more than the request slots (`ReadersBounded`).
- **Logins, passwords.** `GuardSafe`: the failure column counts at least the `tries`
  until the lock is set (`LockFits`). `PasswordSafe`: a session of an older password that
  is not `spared` has neither copy nor active row, and nobody is about to store it
  (`OldAreGone`). That is made true by the last step of an ending, which needs that what
  an ending in progress does not miss has no copy but those it still has to delete,
  and no one to store it again (`EndingsReach`).
- **Reviews, addresses, discounts, wishlists, notifications.** `ReviewSafe`: a check that
  passed was right when it read. `AddressSafe`: of any two default addresses that are
  not loose one has its promotion still to come (`PairsArePromoted`); to keep that, a
  promotion must find the address it stored in its snapshot unless it was deleted
  (`PromotedRowsWereSeen`), and the rows it has locked must stay (`LockedRowsStay`).
  `PromotionSafe`: until it is overtaken a redemption knows the limit, and once it has
  counted, that there is room below it (`KnowsTheLimit`); a row and its copies are
  worth no more than an order, unless type and value were set apart. `WishlistSafe`
  and `NotificationSafe`: a fill, push or answer under way carries the present list or count,
  or an invalidation or push that corrects it is still to come, or the cause is recorded;
  of the wishlist that holds up to items that the catalogue has deleted, none of which is
  in the table (`ItemsExist`).
- **Metrics, edits.** `MetricSafe`: snapshots are of the past, and the lock that TRUNCATE
  takes admits one writer, whose snapshot is later than the table (`TruncateExcludes`,
  `WritersAreNewest`). `EditSafe`: a version tells the delivery policy's content
  (`VersionsTell`), and a copy that was read is that of the row unless somebody wrote since.
- **Categories.** `CategorySafe`: unless moves overlap, `parent` is a forest and `closure` its paths.
  `TreePaths` characterises the table by single steps (empty paths; longer ones by one
  step up; one length per pair), which the trigger's insert, move and delete keep.
  Back from there to reachability with depths, path lengths are bounded by the number of
  categories (pigeonhole), and the recursive function that walks up exists by an
  induction through finite sets.
- **Merchant feed.** `FeedSafe`: the items are in order and up to the cursor, all `steady` variants up to the cursor
  are among them, and a batch goes on exactly where the
  cursor stands, whatever administrators did in between. The page is the `Limit` first of a finite set in order;
  `InOrder` is that order because counting the elements before one is a bijection.
- **Discovery.** `DiscoverySafe`: a request's list has no repetition and only products that were
  active since it began (`seen`); sorting, filtering, cutting, and appending a fallback of
  new products keep that, and so do copies in Redis.
- **All services.** `ServicesTyped`: `Spec => []TypeOK` of `MCServices`.

Two parts of the proved invariants are no property of a run: `RowLockExclusive`, and
the type invariants of cart and reminder.

*Only model-checked.* Liveness: `EveryCheckoutFinishes`, `NudgedUntilResolved`,
`CancelledLeave`, `RequestsReturn`, `StaleCacheDisappears` rest on fairness, which is out
of the prover's reach. The properties that runs show to be violated are refuted by
TLC's counterexamples. The library's induction theorems take an operator as a
parameter and cannot be used; where data are finite sets or naturals, the proofs
reason instead with a smallest counterexample or with the set of those for which the claim holds. `SetToSortSeq`, `SelectSeq`
and other recursive operators have no facts in the prover, which is why `Ranking` exists.

## 5. Plan

Done: the modules of section 2 and the proofs of section 4. Next:

1. Abstract specifications of more components, with refinements: the wishlist and
   discovery copies as caches of bounded staleness, `Promotions` as a counter.
2. `CartCheckout`'s order step against `OrderCheckout`, and the hub of `Notifications`
   against `WsHub`: so far their abstractions are argued, not proved.
3. Prices and availability in the merchant feed against the catalogue's.
4. The reach of `overlap`: what is left of the category tree after overlapping moves.

## 6. Not modelled

- Cryptography of tokens and passwords, templates, formatting, sitemap, configuration
  and wiring: no state of their own.
- Homepage sections: neither router nor worker reaches service or repository. The same
  holds of `hydration`, `validator`, `LoadProduct` and `LoadVariant` of the merchant
  packages, `RefreshSession`, `DeleteExpiredNotifications` and some notification
  senders; `DeactivateUser` always answers 400.
- What the ranking, metrics and search queries compute: SQL over data of arbitrary
  size. Suggestions only read; tracked searches are rows that only analytics reads.
- Read-only lists and lookups of orders, catalogue, users and reviews.
- Tags and attribute values: rows no modelled property depends on. The comment of
  `FindOrCreateTagTx` calls it safe under concurrent writes; it is one
  statement with one snapshot, which may lack the row that made its insert do nothing,
  and then the request fails.
- PostgreSQL, Redis, SMTP, ImageKit and gorilla/websocket are modelled only as the code
  meets them: statement atomicity, row and table locks, isolation, unique indexes,
  expiring keys, lost answers, failing calls.
