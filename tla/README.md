# Formal models of ai-commerce-platform

TLA+ modules, TLC configurations and TLAPS proofs for the platform in `src/`. The models are
written from the code: every action is a handler, or the part of a handler between two SQL
statements, of the Python source. Paths below are relative to the root of the repository.

To check a run, `tlc -config <run>.cfg <module>`; to check the proofs, `tlapm` with each of
`InventoryProofs.tla`, `CartProofs.tla`, `EventBusProofs.tla`, `IdentityProofs.tla`,
`OrdersProofs.tla`, `CatalogProofs.tla`, `ListingProofs.tla` and `SumLemmas.tla`.

## 1. The system

| Component | Code | State | Operations |
| --- | --- | --- | --- |
| Inventory | `app/inventory` | `inventory_items` (on hand, reserved), `reservations` | create item, adjust, reserve, release, confirm; get |
| Cart | `app/cart` | `carts` (session, customer, soft deletion), `cart_items` | create, claim (bind or merge), add, update, remove, clear; get |
| Orders | `app/orders` | `orders`, `order_items` (snapshot of a cart), `order_adjustments` | place order; get |
| Identity | `app/identity` | customers, addresses (one default), preferences | add, update, remove address; update customer; upsert preferences |
| Catalog | `app/catalog` | categories (a tree), brands, attributes, products, variants | create, update, soft-delete of each; attribute inheritance; listings |
| Event bus | `app/sys_eventbus`, `app/shared/events` | broker life cycle, handlers, consumer thread; Kafka's log and offsets | publish, subscribe, start, stop, consumer loop |
| Audit store | `app/sys_audit`, `app/shared/audit_log` | audit records in MongoDB | record (best effort) |
| Database session | `app/shared/db` | one session and transaction per request | get, list page, create, update, soft delete |
| API helpers | `app/shared/api` | none | cursors, envelopes, error handlers |
| Authentication | `app/shared/auth` | none | token validation |
| Gateway, containers | `kong`, `docker*` | none | deployment |

How they interact. Each domain is an application of its own, with a database of its own. A
route function is a plain `def`, so FastAPI runs it in a thread pool: requests of one domain run
concurrently, each with its own SQLAlchemy session, identity map and PostgreSQL transaction at
READ COMMITTED, which the route commits as its last step. A service calls its repositories, flushes
(this is where statements block on rows and constraints fail), and then, before the commit, tells
the broker and the audit store, both of which swallow failures. Other domains are reached through
ports: cart asks catalog for prices and inventory for availability; orders reads a cart and the
adjustments of an order.
Most adapters of these ports are stubs. Nothing in `app/` subscribes to a topic yet; the broker
that would serve such subscribers is complete.

### What is hard here

- **Read, compute, write across statements.** Inventory takes the stock row with `SELECT ... FOR
  UPDATE SKIP LOCKED` and judges some things before it does; cart locks nothing it reads.
- **Stale identity maps.** A session answers a second query for a row with the object it has: what
  cart decides on may be older than what the same request has just selected.
- **Soft deletion and uniqueness.** Unique constraints count soft-deleted rows, lookups do not.
- **Check, then insert.** Uniqueness is tested by a SELECT in several places and by a constraint
  behind it.
- **Messages before the commit.** An event can announce what is then rolled back, or be lost.
- **Row locks held across a loop.** Merging carts writes one line after the other.
- **A walk of queries.** The schema of a variant is collected category by category, at READ
  COMMITTED, while others edit the tree.
- **Pages.** A list is read in many requests, ordered by a time that is not the time of the commit.
- **Retries.** A client that got no answer repeats its request.
- **The consumer thread.** It shares the broker with the lifespan; offsets are committed in the
  background; stop waits only so long.

### What makes each component correct

- *Inventory*: no update of a stock row is lost; a reservation never takes more than is on hand; the
  reserved counter is the sum of the active reservations; a settled reservation is final; every
  answer is one an atomic account could have given; events and audit records are the committed
  transitions.
- *Cart*: claiming and merging conserve units and leave the customer with one cart; a cart is deleted
  only by the transaction that carries its units over; nothing deleted comes back.
- *Event bus*: messages of a topic are dispatched in order, never again once their offset is committed,
  and only once unless a consumer went away without committing what it read; an offset is committed
  only when its message was handled or is being handled; stop flushes and returns; a failing handler
  does not end consumption.
- *Orders*: the total of an order is what its rows add up to, although the cart changes meanwhile; what
  is announced and audited of an order is what is stored of it.
- *Identity*: a default replaces every other its request could see, and takes effect; nothing removed
  comes back; preferences that were sent are the stored ones.
- *Catalog*: the schema of a variant is the nearest definition of every key along the ancestors; what is
  stored was checked against it; collecting it ends.
- *Lists*: pages continue each other; a row that is there throughout is returned, once; reading ends.

## 2. Modules

| Module | Contents |
| --- | --- |
| `Inventory` | the handlers of `InventoryService`, per SQL statement |
| `StockAccount` | the abstract specification: one atomic step per request |
| `InventoryProofs` | the inductive invariant, safety theorems, the refinement |
| `MCInventory` | instances for TLC |
| `Cart` | the handlers of `CartService`, per SQL statement |
| `CartAccount` | its abstract specification: one operation per undisturbed request |
| `MCCart`, `CartProofs` | instances for TLC; theorems, the refinement |
| `EventBus` | `KafkaMessageBroker`, its thread, and librdkafka and Kafka behind it |
| `MCEventBus` | instances for TLC |
| `EventBusProofs` | theorems about `EventBus` |
| `Identity` | the handlers of `CustomerService` and `AddressService`, per SQL statement |
| `MCIdentity`, `IdentityProofs` | instances for TLC; theorems |
| `Orders` | `OrderService.place_order`, per flush, and the client that retries it |
| `MCOrders`, `OrdersProofs` | instances for TLC; theorems |
| `Catalog` | categories, attribute definitions, products; `VariantService` per SQL statement |
| `MCCatalog`, `CatalogProofs` | instances for TLC; theorems |
| `Listing` | `list_page`, `paginate`, and the client that follows the cursors |
| `MCListing`, `ListingProofs` | instances for TLC; theorems |
| `SumLemmas` | lemmas about sums over finite sets, used by three of the proof modules |

### Inventory

A worker is a thread of the pool; it serves one request (`job`) and its program counter (`pc`) says
how far the handler got: `start`, `read` (a row was read without a lock), `locked` (the stock row is
selected for update), `clear` (no active reservation of the order was found), `written` (everything
is flushed, events are out, the commit is to come). `stored, onHand, reserved, status, held` are the
committed rows, `draft` is a worker's uncommitted image of the stock row, `lock` the row locks,
`events` and `audits` what broker and audit store hold. `LockRow` and `LockMiss` are the two outcomes
of SKIP LOCKED: a row that is locked is answered like one that is absent. An INSERT waits for the
uncommitted INSERT of the same variant (`CreateInsert`, `CreateConflict`). `SettleRead` judges the
status of a reservation before the lock, as `release_reservation` and `confirm_reservation` do, and
`SettleWrite` does not look again. `Permitted` are the CHECK constraints and the INTEGER range.
`Abort` is a failure anywhere: the transaction rolls back, the messages stay out.

`StockAccount` knows no transactions. A request that takes effect does so in one step; any other
answer must be justified by the rows at that instant. "Not found" needs no justification, because a
skipped row is answered so. `Settleable` names the statuses a settlement may start from: only
`reserved` when callers settle a reservation once at a time (`OneSettler`), any settled one else.

### Cart

`state`, `owner` and `qty` are the committed rows. A session token has one row for ever (the unique
constraint ignores soft deletion), so a cart is named by its token. Nothing is selected for update.
`seen` is the session's identity map of line objects: a query returns the object as it was loaded,
not as the row is now. `lock` is the row lock a flushed write holds until the commit; a statement on a
row that another transaction has written is not enabled until that one ends, then it overwrites.
`gone` are the loaded lines whose row has been deleted since: an UPDATE of one fails
(`LineStale`), a DELETE does not. `DeadlockVictim` is PostgreSQL's deadlock detector. `items` is the
collection a merge or a clearing loops over; `said` are the events; `alone` is a history variable: no
other request committed a write while this one was served.

Two reads that follow each other without an await, a lock or a write between them are one step (the
cart and its lines). Prices, discounts and taxes are not kept. The status column is always `active`.
`Unavailable` is every refusal of the catalog and inventory ports.

`CartAccount` is what these handlers promise, without sessions, locks and loops. A request is served or
declined in one step. If nothing else was committed since it began, what it did is one operation on the
rows (`Create`, `Bind`, `Merge`, `Edit`). If something was, transactions at READ COMMITTED that lock
nothing they read promise little, and the account says what is left: a binding names the cart's row but
never revives it (`BindLate`); a merge deletes the cart and writes lines of one cart, possibly the
deleted one, never with 0 (`MergeLate`); an edit touches its own line or cart, an addition leaves at
least its amount, an update its amount and only where a line was, a removal 0 (`EditLate`).
`alone` is a variable of the account too: a request that wrote disturbs every other that is served,
also if it wrote what was there. The rows, `job` and `alone` are mapped to themselves; a commit is the
step that serves.

### EventBus

One process after the other runs the lifespan (`main`), the consumer thread (`thread`) and any number
of publishing requests. Kafka keeps a log per topic and the group's committed offset. librdkafka
delivers an event in any order, possibly more than once, or gives it up (`Expire`); it commits
offsets of what `poll` returned, at any time while the consumer is open and when it is closed.
`Join` is `join(timeout=5.0)`: poll takes a tenth of a second, so only a running handler can outlast
it. `StopClose` is `consumer.close()` (`brokers.py:100-101`): it commits what poll returned, or it
cannot, because Kafka does not answer or the group has expelled the consumer, and returns all the same.
`Rejoin` is an expelled consumer's next poll (a handler outlasted `max.poll.interval.ms`, or heartbeats
were lost for a session): it joins again and reads on from what is committed. `Exit` ends the process,
daemon thread included, `Crash` does so at any point. `begun`, `ended`, `owed` and `lapsed` are history
variables; `lapsed` says that some consumer went away with offsets it had not committed (`Lapse`): in a
crash, in a close that could not commit, or expelled. A group has one process at a time and a topic one
partition, so nobody else is assigned the partitions in between.

### Identity

The account of one customer (`account`), its addresses (`row`: removed, label, default) and its
preferences (`pref`); rows of two customers meet only in an e-mail address that is taken
(`RegisterRefuse`). As in `Inventory`, a worker serves one request in one transaction, and `mine`,
`draft` and `kept` are its uncommitted images of the three. `AccountNothing` is an update that changes no
column: no statement is sent, and no row is locked. `clear_default` is one bulk UPDATE:
`ClearStart` takes its snapshot (`saw`), `ClearRow` writes the rows one by one, each after the
transaction that holds it and only if it is not removed by then, and `ClearDone` applies the UPDATE
to the session's object, as SQLAlchemy does (`Synchronized`). A flush of the ORM writes the columns
that differ from the loaded object on the newest version of the row (`Updated`), also of a row that
was removed since. The unique index on the label counts removed rows; a statement that adds an entry
waits for the writers of rows with that label (`LabelHolders`), and fails with an IntegrityError that
nothing in `add_address` handles (`AddConflict`). `is_default` may be sent as null, which the schema
admits and the column does not (`UpdateConflict`). `Blockers` and `DeadlockVictim` are PostgreSQL's.

### Orders

A submission is a customer's wish to check a cart out; its client sends it up to `MaxAttempts` times
while it has no answer, so it has several attempts, each a thread and a transaction of its own.
`ReadCart` makes the three checks on what the port returns; nothing looks at the cart again. `draft` is
the uncommitted order: `FlushOrder` writes it without items, `FlushItems` adds the items, and
`FlushAdjustments` the adjustments with the recomputed total. `Publish` and `Audit` come next, and
`Commit` last; `Fail` may happen at any point and includes an amount that does not fit its column.
Amounts are counted in half cents, so that rounding by `NUMERIC(10, 2)` (`Stored`) can be seen. The
cart and the adjustment rules are ports whose adapters are stubs: `CartChanges` lets the cart become
anything at any time, `Rulings` are the answers of the rules.

### Catalog

One product and one variant, a tree of categories, and for every category and key an attribute row
(`attribute`: a definition, `Removed` or `None`). The handlers that write one row are one action each:
what they looked up before may be deleted by the time they write, so their guards only ask what the
foreign keys ask. The handlers of `VariantService` are split at their statements: `Resolve` reads the
product, `Collect` and `Climb` are the loop of `_collect_category_attributes`, `Accept` and `Reject`
are `_validate_variant_attributes`, and `Write` stores what was *sent*, while `Validated` is what was
sent merged with what was loaded. A value may be sent as null (`Null`): it is stored like any other, and
the check counts it as missing, whether the key is required or not (`Missing`). `held` and `Trapped` are about the identity map: during a walk the
session holds only the last category, and if that is its own parent, the query returns the object as
loaded, with its stale parent. Names and SKUs are left out: a request refused for one has no effect.

### Listing

The rows of any paginated table. A row gets its `created_at` when its transaction begins (`Insert`)
and becomes visible later (`Commit`), in any order. A client (`Begin`) follows the cursors: services of
nested lists first look their owner up (`Lookup`) and refuse when it is deleted (`Refused`); then, in a
statement of its own that no longer looks at the owner, `Fetch` selects one row more than a page, trims
it, and hands out the key of the last row kept. `steady` is a history
variable: the rows that were in the list since the reading began.

## 3. Runs

| Run | Instance | What it shows |
| --- | --- | --- |
| `inventory_race` | 2 workers, 1 item, 2 orders, quantities 1 and 2, INTEGER up to 2, failures anywhere | `TypeOK`, `NoLostUpdate`, `NeverOversold`, and that the handlers implement `StockAccount` |
| `inventory_settle` | the same without failures, reservations settled once at a time | `Conservation`, `RecordsMatchCommits`, `SettledIsFinal`; every request is answered |
| `inventory_double` | 2 workers, settlements not serialised | **violated**: `Conservation`; two settlements both pass the check made before the lock |
| `cart_race` | 2 workers, 2 carts, 1 variant, 2 customers, INTEGER up to 2, failures anywhere | `ClaimConservesUnits`, `ClaimLeavesOneCart`, `CreatedMeansNew` for requests nothing else commits into; `DeletionCarriesUnits`, `UpdateNeverRevives` whatever commits; the handlers implement `CartAccount` |
| `cart_live` | 2 workers, 1 cart, 2 variants | every request is answered, also when two wait for each other |
| `bus_life` | 2 topics, 2 events, logs of 2 messages; crashes, an unreachable Kafka, a close that cannot commit and an expelled consumer included | `DispatchedInOrder`, `CommittedWasHandled`, `StopDelivers`; `StopReturns`, `MessagesAreHandled` |
| `identity_race` | 2 workers, 2 addresses, 2 labels, 2 keys of which one is public, failures anywhere | `DefaultsWereUnseen`, `DefaultTakesEffect`, `RemovedStaysRemoved` whatever commits; `UpsertTakesEffect`, `AddFailsOnRemovedLabel` for requests nothing else commits into |
| `orders_place` | 1 submission, 2 attempts, carts of 0 to 2 items, 0 to 2 adjustments | `OrderAddsUp`, `MessagesMatchOrders` |
| `orders_retry` | the same | **violated**: `OneOrderPerSubmission`; both attempts place an order |
| `catalog_schema` | 1 seller, 2 categories, 1 key sent with a value, as null or not at all, 2 definitions, 2 attribute rows | `SchemaIsNearest`, `CheckedBeforeStored` for requests nothing else commits into |
| `catalog_walk` | 1 seller, 2 categories, 2 keys, 1 attribute row | `WalksEnd` |
| `listing_pages` | 4 rows, pages of 2, 2 times | `PagesContinue`, `NothingMissed`, `CursorPromises`, `ReadingEnds` |

Each property that passes is also run against a changed definition of the model (a missing lock, a
forgotten check, a swapped order), which must make TLC find it violated; `PROJECT.json` lists them.
The changed forms are in the modules, marked `mutant`.

**Bounds.** `Workers`: every hazard in these handlers is between two transactions, and two suffice
for each of the violations; three would not add a new kind of pair. `Items`, `Orders`, `Carts`,
`Customers`: two of what a handler looks up, one of the rest. `MaxInt` is the largest INTEGER: 2 lets
a sum overflow and a difference go below zero. `Quantities` of 1 and 2 tell sums from overwrites.
`Addresses` and `Labels`:
two addresses can both be defaults or compete for a label. `Categories`: two make a parent, a child,
a category that is its own parent, and a cycle; two attribute rows can declare one key twice. `Ids`
and `PageSize`: four rows are two full pages, or one and a cursor between rows of one time.
`MaxAmount` is the largest amount: the total of one cart fits its column only with a deduction.
`MaxEvents` and `MaxLog`: two messages of one topic have an order, and a duplicated one is second.
Symmetry is used where no property of the run is temporal.

**Fairness.** Inventory: weak fairness of each worker's handler, since the thread pool runs every
request it has accepted; a locked row is skipped, so nothing waits but an INSERT. Cart: strong
fairness, because a statement waits for a row that others may take again and again, and PostgreSQL
serves the waiters of a row in turn. Event bus: weak fairness of a stop that has begun, of the
consumer loop and of librdkafka giving an event up (`message.timeout.ms`); strong fairness of polling
a topic with a message, which librdkafka takes in turn. Catalog: weak fairness of each
seller's handler, as in inventory; `WalksEnd` says itself that the tree has no cycle from some time on.
Listing: weak fairness of the client's next request; its `ReadingEnds` needs no end of the writers'
activity, since the rows and times of an instance are bounded. None is assumed of handlers, of Kafka's
answers or of `stop` being called; `MessagesAreHandled` says itself that handlers come to an end and,
as strong fairness of `AutoCommit`, that a consumer the group expels again and again gets to commit in
between: one that never does reads the same message for ever. `StopReturns` assumes neither.

**Deadlock.** TLC checks it in every run. A model never stops: a worker can always take a request.

## 4. Findings

- `release_reservation` and `confirm_reservation` judge the reservation before they lock the stock row
  (`app/inventory/service.py:199-210, 257-268`): settled twice at once, its units leave the
  reserved counter twice.
- A submission that is repeated after a lost answer places a second order (`app/orders/service.py:77`);
  `docs/adr/011-operation-safety.md:58` says order operations can be retried without duplication.

Observations that no run states, made while the models were written:

- Inventory: the events of a settlement carry the inventory item's id where the event names the variant
  (`service.py:221, 280`). Two concurrent requests of one order for different items can both find no
  active reservation (`:136`).
- Cart: a claim compares the customer with the cart as loaded and then looks the customer's cart up
  (`service.py:256-260`): bound in between, the cart is merged into itself and soft-deleted.
  `items_count` of `CartUpdated` is taken from the collection loaded before the line was added or
  removed (`:380, 491`). Additions to one line overwrite each other (`:346`).
- Event bus: `stop` goes on after five seconds although a handler still runs (`brokers.py:99`), while its
  docstring (`:92-95`) and the domain's `README.md:54-55` promise that it waits. Offsets are committed
  before handling ends (`:79`), so a message whose handler the end of the process cuts off can be
  committed and lost; `CommittedWasHandled` says that no other can. Without any crash, messages are
  handled a second time when the commit in `close()` fails (`:100-101`) or the group expels the
  consumer: nothing tells, and `DispatchedInOrder` says "only once" of no process after that.
- Identity: two concurrent requests for a default leave two (`models.py:63` and the domain's README say
  only one); `DefaultsWereUnseen` is what holds instead. The label of a removed address can never be
  used again: adding it fails with an unhandled IntegrityError, as does `is_default: null`. A
  preference of a customer deleted meanwhile is dropped without an answer (`repository.py:37-39`).
- Orders: the domain's `README.md:84-85` says that adjustments are applied after the order is created
  and "are not included in `total_amount` at placement time". The code applies them within
  `place_order` and adds them to the total before it commits (`app/orders/service.py:123`), as lines
  15, 82 and 101-107 of the same README say. `OrderAddsUp` follows the code: it would be violated by a
  total without adjustments. The event and the audit record carry the total before it is rounded;
  deductions may make it negative, and nothing checks that.
- Catalog: `update` accepts a category's own id or a descendant's as its parent (`service.py:180-230`),
  after which collecting attributes does not end. The domain's `README.md:154-158` and the docstring of
  `_collect_category_attributes` (`:733-735`) promise every definition up to the root. The code stops
  at the first category that is soft-deleted (`:755-756`; `get_by_id` skips it): its own definitions
  still count, those above it do not. `SchemaIsNearest` follows the code: its reference is cut there,
  and one that goes on to the root would be violated, as a category with children can be deleted. A
  variant update checks the merged attributes and
  stores the sent ones (`:957-961`). A product deleted between the check of `create` and
  `_resolve_schema` makes the schema empty (`:834`). The docstring at `:1210` says an attribute
  definition is removed: its row is soft-deleted, and its key can never be declared again. Only the
  first 1000 definitions of a category are collected (`:750`).
- Lists: a row whose transaction began before a cursor's time and commits after it was handed out is
  never listed; a cursor that is not base64 JSON raises an error nobody handles.

## 5. Proofs

Every invariant and every action property of the runs that pass is a theorem.

`SumLemmas` is about `SumFunctionOnSet` of the community modules, with which the models add up what
reservations hold, what an order bills and what carts contain. It is defined by a recursive function,
and the library's induction theorems take an operator, which the provers cannot instantiate; but its
theorems that strict subsets and `<` are well-founded can be used with `WFMin`, which takes a *set*.
`SubsetInduction` is what follows for the subsets of a finite set. From it: the recursive function
exists and is unique (`FoldExists`, `FoldIsUnique`), hence a sum unfolds (`SumUnfolds`), does not depend
on the order (`SumTakesOut`, `SumTakesIn`), looks only at the elements (`SumIsLocal`), and does not
change by more than one for each element when each changes by at most one (`SumOfImage`). The only
assumption is that the set is finite.

`InventoryProofs` holds for every set of workers, items and orders, any quantities, deltas and
`MaxInt`, with or without crashes, lost messages and serialised settlements.

- **Assumptions**: those of `Inventory` (quantities are positive, deltas are integers, `MaxInt` is a
  natural number, the flags are Booleans) and the names stated in `InventoryProofs`.
- **The inductive invariant** `IInv` adds to the types: how far each handler can be with its
  operation (`Control`); a handler past its locking read owns its row, and only such a handler owns
  one (`Owner`, `Owned`); until its commit the draft is the committed row, then that row with the
  request applied (`DraftOK`); what a handler checked still holds (`Checked`); and the assumption on
  callers persists (`Alone`). Type correctness alone is not inductive: that a committed quantity is
  never negative depends on the draft being fresh, hence on the lock.
- **Argument**: `InitIInv`; one lemma per kind of step (`StartIInv`, `LockRowIInv`, `ReadIInv`,
  `CreateInsertIInv`, `WriteIInv`, `CommitIInv`, and `DeclineIInv` for every step that ends without
  effect); `NextIInv` joins them. `Frame` carries the invariant of one worker over steps of another.
- **Theorems**: `Inductive`, `TypeCorrect`, `UpdatesAreNeverLost`, `NothingIsOversold`,
  `SettlementIsFinal`, and `HandlersImplementAccount`: every step of the handlers is a step of
  `StockAccount` or leaves its variables alone, the commit being the step that takes effect.
  `RecordsAreCommits` holds when settlements are serialised, nothing crashes and no message is lost,
  with one lemma for the steps that announce, one for the commit and one for all others
  (`AnnounceRecords`, `CommitRecords`, `OtherRecords`): different transitions have different events
  (`EventsDiffer`), and a commit starts from the status its announced transition leaves (`Checked`).
  `ReservedIsWhatIsHeld` is `Conservation` when settlements are serialised: one lemma per kind of commit
  (`ReserveConserves`, `SettleConserves`, `StockConserves`) says that it changes the counter by what it
  adds to or takes out of the active reservations; without `OneSettler` it is the first finding.

`CartProofs` holds for every set of workers, carts, variants and customers, any quantities and
`MaxInt`, with or without failures.

- **Assumptions**: those of `Cart`: quantities are positive, `MaxInt` is a natural number, no marker
  for something missing is a real one, and a cart is not a line.
- **The inductive invariant** `IInv` has for each worker: where its handler can be with its operation
  (`InHandler`) and what the line and the target it points at are (`Pointed`); which lines it can hold,
  and that only additions can hold a line that is not there (`Holding`, `Updating`); that every line a
  merge has dealt with is locked, uncommitted and at least as large as what was loaded from the cart it
  empties (`Carried`); and what a request that nothing else committed into knows to be unchanged since
  its lookup (`Creating`, `Claiming`).
- **Argument**: `LocalIInv` reduces a step that commits nothing to the worker that takes it (`Frame`
  for the others), with one lemma per group of actions; `LeaveIInv` for every request that ends without
  effect; `CommitFrame` for what the others see of a commit. `OnlyCommitWrites` and `CommitEffect` are
  what the action properties follow from.
- **A second invariant**, `UInv`, rests on the first: only finitely many carts are active, and a claim
  that nothing else committed into has of each variant either moved all units, to a line it holds
  locked, or none (`Moving`); what it has not loaded it reads as it is (`Merging`). The identity map is
  why it is needed: the sum a merge writes is computed from objects, not from rows.
- **A third invariant**, `EInv`, for the refinement: which rows a request of each kind can hold and what
  it has put there (`HoldsOwn`), the line or cart it aims at (`Aiming`), and, while nothing else
  committed, that a cart is created or bound as it was found (`CreatesAlone`), that a line is about to
  get what follows from the committed one (`LineAlone`), and that a clearing has of each line either
  deleted it or still to (`EditsAlone`). `Certain` of `UInv` is needed: a request that loaded a line
  that is gone would not write it.
- **The refinement**: `AlonePerforms` (an undisturbed commit is the operation), `LatePerforms` (any
  commit is within what its kind may write), `CommitServes`; an answer without a commit declines; every
  other step leaves the account's variables alone (`StepImplements`). `DeletionIsFinal` is proved from
  `IInv` and also follows from the account, whose run therefore does not repeat it.
- **Theorems**: `Inductive`, `TypeCorrect`, `MergesCarryUnits`, `DeletedStaysDeleted`,
  `UpdatesNeverRevive`, `ClaimsLeaveOneCart`, `AnnouncedCartsAreNew`, `UnitsInductive`,
  `ClaimsConserveUnits`, `EditsInductive`, `HandlersImplementAccount`.

`EventBusProofs` holds for every set of topics, any bounds and any number of restarts, crashes, failing
closes and expulsions.

- **Assumptions**: `MaxEvents` and `MaxLog` are natural numbers, and `NoMessage` is not a message.
- **The inductive invariant** `IInv` adds to the types: the consumer is open exactly between start
  and the close in `stop`, and the thread is there exactly as long as the process (`Control`); of
  every topic neither what was read in this process nor what was committed is beyond what was
  dispatched, which is in the log (`Offsets`); what was read beyond the committed offset was handled or
  is being handled (`Handled`); and, as long as no consumer went away with uncommitted offsets, a
  subscribed topic is read up to what was dispatched, and a topic not subscribed to, or any after the
  close, is committed up to there (`Settled`). `Settled` is what "only once" rests on, `Handled` what
  "never again once committed" and `CommittedWasHandled` rest on: a reader starts from the committed
  offset, after a restart as after an expulsion, and only a commit brings that up to what was dispatched.
- **Argument**: one lemma per group of steps (`LifeIInv`, `QuietIInv`, `CommitIInv`, `LoopIInv`,
  `RejoinIInv`, `PollIInv`, `SentIInv`, `FreshIInv` for the end of a process), joined in `NextIInv`;
  `OnlyPollGives` singles out the step `DispatchedInOrder` is about, `OnlyReadIsCommitted` the one
  `CommittedWasHandled` is about.
- **Theorems**: `Inductive`, `TypeCorrect`, `DispatchIsInOrder`, `CommittedIsHandled`,
  `NothingLeftBehind`.

`IdentityProofs` holds for every set of workers, addresses, labels, keys and values.

- **Assumptions**: those of `Identity`: the public keys are keys, and the markers for a missing row,
  request or field are none of the real ones.
- **The inductive invariant** `IInv` has for each worker: where its handler can be with its operation
  (`Control`); that a drafted row differs from the committed one only in what its request may change,
  and never takes `removed` back (`Drafted`); that every row its snapshot saw is cleared in its draft,
  removed, or still pending (`Cleared`); what a request that nothing overlaps knows to be unchanged
  since its lookup (`Looked`); which preferences are written, unchanged or still to do (`ToUpsert`,
  `Upserting`); and for each pair of workers that no row is in two drafts (`Apart`), which is what
  keeps a committed row from changing under a draft.
- **Argument**: one lemma per group of actions, `Frame`-style lemmas for the workers that do not move,
  and `CommitIInv`, where `Apart` is used for the rows of others.
- **Theorems**: `Inductive`, `TypeCorrect`, `ClearedWhatItSaw`, `RequestedDefaultIsSet`,
  `RemovalIsFinal`, `PreferencesAreStored`, `ConflictsAreRemoved`.

`OrdersProofs` holds for every set of submissions, carts, contents and rulings and any number of
attempts.

- **Assumptions**: those of `Orders`: a cart has finitely many items, with quantities that are natural
  numbers and amounts of whole cents, the type of their columns (`ContentsAssumption`), and the rules
  answer finitely many adjustments, told apart by their names (`RulingsAssumption`).
- **The inductive invariants**: `IInv` says of an attempt what its draft is at each point of
  `place_order` (`Drafted`), that what was said of it is what its draft says (`Told`), and `Matched`, the
  property itself; `Frame` carries all of it over the steps of another attempt, which only adds messages
  of its own. `AllBilled` adds what the totals of the draft are sums of at each point (`Billed`).
- **Argument**: `StoredOrdersAddUp` compares the stored total, one amount rounded once, with the sum of
  the stored rows, each rounded by itself: line totals are whole cents (`TotalsAreCents`), so rounding
  leaves them, and each adjustment is off by at most half a cent (`StoredIsNear`, `SumOfImage`).
- **Theorems**: `Inductive`, `TypeCorrect`, `ToldWhatIsStored`, `Bills`, `StoredOrdersAddUp`.

`ListingProofs` holds for every finite set of rows, page size and clock. `IInv` adds to the types that
the cursor is not before any returned row and before every steady row that is not returned
(`Progress`). The lemmas about `First` and `Last` are where finiteness is used: among finitely many
keys there are a first and a last, and a set of more than `PageSize` rows has a full page. Theorems:
`Inductive`, `TypeCorrect`, `PagesInOrder`, `Complete`, `CursorsKeepTheirPromise`.

`CatalogProofs` holds for every finite set of categories, and any keys, definitions, kinds,
dictionaries, sellers and attribute rows.

- **Assumptions**: those of `Catalog`: the rows of the category table are finitely many, what may be sent
  are dictionaries, and the markers for something missing or removed are none of the real ones.
- **The first inductive invariant**, `IInv`, is the types, the foreign keys (`References`), and for each
  seller (`Walking`) that it stands at a category row while it collects and climbs, and that the row it
  looked up, the product of a new variant or the variant it changes, is still there, deleted or not
  (`Grounded`). That is what makes an UPDATE after somebody else's soft deletion land on a row.
- **Its argument**: administrators only add rows, change them and mark them (`Grown`), with one lemma per
  table; `SellerMoves` reduces a step of a seller to the place, the request and the category it leaves
  behind, and has a corollary for each shape of step (`GotoIInv`, `StayIInv`, `EndIInv`).
- **The second**, `WInv`, gives a request that nothing interfered with its history (`Walked`): a path
  of some length `n` along the parents (`IsWalk`) along which what it collected is nearest (`Nearest`);
  the session holds a category only if that is its own parent (`Traced`), so that what it answers from
  memory is what the row says. TLC checked it on the instances of both runs with `n` up to 5.
- **Its argument**: one lemma per step of a seller; `UntouchedTracking` for everybody else. When a walk
  ends, its path met no category twice, or it would have repeated itself for ever
  (`EndedWalkIsSimple`); so it is no longer than there are categories (`EndedWalkIsShort`, by the
  pigeonhole principle), the recursive `Ancestry` of the reference is that path
  (`AncestryIsTheWalk`), and the nearest along it is the reference (`NearestAtTheEnd`). `Least` and
  `Upwards` are the inductions this takes, again by `WFMin`. Cycles need no exception: a walk that is
  caught in one does not end, and the theorem is about those that do.
- **Theorems**: `Inductive`, `TypeCorrect`, `WalkCollectsTheNearest`, `StoredWasChecked`.

Only model-checked: liveness (`EveryRequestAnswered`, `StopReturns`, `MessagesAreHandled`, `WalksEnd`,
`ReadingEnds`), which needs ENABLED.

## 6. Not modelled

- Reads that change nothing (`get_inventory`, `get_cart`, `get_order`, profiles), response schemas,
  logging, tracing.
- Prices, discounts and taxes of cart lines: written with the line they belong to, compared with nothing.
- Brands: written and soft-deleted like categories, without a tree; a product refers to one as it does
  to its category.
- Events and audit records of the catalog, audit records of identity: best effort, after the flush, with
  the choice of outcomes that `Inventory` and `Orders` model.
- The composition of orders with cart and inventory: the code does not have it. The adapters of the
  ports (`app/orders/adapters.py`, `app/cart/adapters.py`) are stubs, and orders does not call inventory.
- Token validation and the gateway: no state; migrations: the tables are those of the models.
- The MongoDB client: `record_audit` catches every failure, which is the choice `Lossy` and `lost` make.

## 7. Plan

1. An abstract specification of `Identity`, as `CartAccount` is of `Cart`: which addresses and defaults an
   undisturbed request leaves, and what a disturbed one may write; and the proof that the handlers
   implement it.
