# Verification of the restaurant point-of-sale backend

TLA+ models of the backend in `src/`, the TLC runs that check them, and TLAPS proofs that their
safety properties hold for any number of orders, requests, units, accounts and images and for bills of any
length. `PROJECT.json` maps every definition to the source lines it stands for; this page says how the parts
fit together.

## The system

An Express server over PostgreSQL (Prisma). A request passes the authentication middleware,
which re-reads the caller's `User` row, then a controller, then a service in `src/lib`. There is
no shared memory between requests apart from the image job queue and the upload counter: handlers
meet in the database, where almost every write runs in one Serializable transaction. The exceptions
(Read Committed, or single statements) are where the interesting races are.

| Component | State | Operations | Hard behaviour | Correct when | Module |
|---|---|---|---|---|---|
| Order domain, transitions (`order-domain`, `order-transition-service`, `staff-order-service`, `kitchen-order-service`) | `Order`, `OrderStatusHistory` | status changes by level and version | clerks, kitchen and cashiers acting on the same order from old screens | status, payment, version and history agree | OrderLifecycle |
| Submission (`order-submission-service`, `waiter-order-service`, `qr-public-service`) | `Order` with its idempotency key | QR, waiter and Counter submissions | retries; submission against closing, rotation, QR mode | one order per key, only into an open session | OrderLifecycle, PaymentRequests, TableAccess |
| Settlement (`order-settlement-service`, `table-payment-service`) | `BillSale`, advisory locks | settle a Counter order or a whole table | lost answers, retries that race with their first attempt, rival cashiers, lock order | charged once, told the truth | OrderLifecycle, PaymentRequests |
| Counter checkout (`counter-order-service`) | `Order`, `BillSale` | order and payment in one | as above | as above | OrderLifecycle, PaymentRequests, LegacyCart |
| Refunds (`order-refund-service`) | `OrderRefund` | reserve, finish as COMPLETED or FAILED | kitchen starts while money goes back | a refund is a whole payment of food not begun | OrderLifecycle |
| Table sessions, calls (`table-service`, `service-call-service`) | `TableSession`, `ServiceCall`, `QrPolicy` | open, rotate, close, reissue, call, acknowledge, resolve, set QR mode | write skew and late commits | nothing is left behind a closed session | OrderLifecycle, TableAccess |
| Table administration (`table-admin-service`) | `RestaurantTable` | create, renumber, delete | deletion against opening | an open session has a table in use, numbers differ | TableAccess |
| Legacy cart (`legacy-cart-service`, `legacy-checkout-*`) | `SaleTemp`, `SaleTempDetail` | add, quantity, sizes, remove, checkout | Read Committed handlers against a Serializable checkout | each unit charged once, at most | LegacyCart |
| Pricing and VAT (`order-pricing`, `vat`, `money`) | none (pure) | normal form, price snapshot, tax | rounding, ordering | sums are exact, shares fair | OrderPricing |
| Staff users (`staff-user-service`, `create-first-admin`) | `User` | create, update, remove, bootstrap | write skew, check then insert | an admin remains, names differ | StaffUsers |
| Authentication (`authentication-service`, `password`) | `User.password` | sign-in, rehash | a rehash that ends long after the row was read | a password changes at an admin's request only | StaffUsers |
| Images (`image-variants`, `food-write-service`, `organization-write-service`) | files, job queue, image names in `Food` and `Organization` | upload, variant, save with cleanup | every `await` interleaves; restarts | no orphan, no stuck queue, no deleted reference | ImageStore |
| Upload middleware (`image-upload`) | counter of active uploads | admit, parse, release | every end of a request releases once | no place is lost, none given twice | ImageStore |
| Catalog writes (categories, sizes, tastes) | `FoodType`, `FoodSize`, `Taste` | create, update, remove | autocommit create against removal | | not modelled |
| Reads, reports, receipts, PDF | none | queries and layout | polling cursor against commit order | | not modelled |
| Server, environment, migrations, scripts | process | start, drain, stop | shutdown | | not modelled |

Interactions: submissions and settlements read and lock the session rows that table sessions own;
a settlement of a table closes its session and resolves its call; the legacy checkout issues its bill
through `createAndSettleCounterOrder`; the save of a food or logo calls into the image store after
its row is written.

## The modules

| Module | What a step is | Run by |
|---|---|---|
| `OrderLifecycle` | the commit of a handler, over all rows of orders, bills, refunds and sessions | `counter`, `table` |
| `OrderLifecycleProofs` | theorems about it | |
| `ChargeOnce` | abstract specification: a key or an order is charged at most once; an answer says so only if it was | |
| `PaymentRequests` | one statement group of a payment handler: replay read, snapshot, lock, commit, error handler, retry; implements `ChargeOnce` | `pay_table`, `pay_mixed` |
| `PaymentRequestsProofs` | theorems about it | |
| `TableAccess` | reads before the transaction, snapshot, commit, for the handlers around one table | `access` |
| `TableAccessProofs` | theorems about it | |
| `SellOnce` | abstract specification: what is put into a cart is sold once, whole, or dropped | |
| `LegacyCart` | one statement group of a cart handler or of `endSale`; implements `SellOnce` | `cart`, `cart_units` |
| `LegacyCartProofs` | theorems about it | |
| `StaffUsers` | arrival, check, snapshot, commit of an account request; read and rehash of a sign-in | `staff` |
| `StaffUsersProofs` | theorems about it | |
| `ImageStore` | what the code does between two `await`s | `images`, `images_refs` |
| `ImageStoreProofs` | theorems about it | |
| `OrderPricing` | one more entry in a client's list; everything else is a function | `bill`, `bill_order` |
| `FiniteSums` | lemmas about sums over finite sets | |
| `OrderPricingProofs` | theorems about `OrderPricing` | |

Each `MC…` module extends its component and adds model values and symmetry sets only.
Definitions marked *Variation* are not part of a model: each is the definition after it with one
plausible mistake, kept to show which property notices.

### OrderLifecycle

Since each of its handlers writes in one Serializable transaction, a handler is one step here, and a
handler that refuses, or that is aborted (P2034, P2002), is a stutter. `TableAccess` and
`PaymentRequests` are the justification: they open up the same handlers. An `Order` row holds its
status, version, channel, session, total, bill and history; a session row also holds its latest
service call. `transitionRow` is the trailing update that completes a prepaid Counter order when it is
served; `CloseSessionRow` the common end of closing and settling. QR mode, rate limit, link expiry
and call cooldown only refuse and are left out here. `finishRefund` is called with the key and
reference of its own refund. COUNTER orders that name a table session do not occur: no caller in
`src/` makes one. Unpaid or SUBMITTED Counter orders come from the submission service itself
(`confirmForKitchen = false`), as do rows from before checkout and payment were one.

* `PaymentMatchesStatus`, `KitchenStartIsFinal`, `RefundIsWholePayment`: status, payment and refund agree
  at every commit.
* `AuditTrail`: the history is one gap-free chain of versions that ends in the present status.
* `ClosedSessionSettled`, `BillsAddUp`: a closed session has no live order and no active call, and a bill
  is exactly the sum of the orders on it.
* `MoneyIsFinal`, `EveryWriteIsVersioned`, `ClosedSessionFrozen`: what a step may never do.

`counter` runs two standalone orders with two cashiers and the kitchen, `table` two orders over two
successive sessions of one table with a cashier and a waiter. Two orders are enough for a bill that is shared, two sessions for
an order or a token of an earlier one. `MaxVersion = 5` lets a client name every version of a complete life; `MaxCents` is a little more
than one price, so that the range check of a sum matters.

### PaymentRequests and ChargeOnce

Requests are `settle`, `checkout` and `submit`; a caller's retry is a further request with the same key
and body. A transaction works on the snapshot of its first statement (taken before it waits for
locks), commits only if what it read is current, and otherwise is aborted; `Abort` also stands for
aborts that PostgreSQL decides on for its own reasons. `Lose` is a crash, a time-out or an answer that never
arrives. Versions are relative: existing orders start READY with version 1. `MaxRetry` is 2 in the
code and in `pay_mixed`; `pay_table` uses 1, because liveness is checked there without symmetry.

* `ChargesOnce`: the refinement of `ChargeOnce` (checked in `pay_mixed`; its proof covers tables as well).
* `RefusalIsTrue`: a refusal is the truth about the database at that moment, in particular a
  caller whose own attempt committed is never told that it was refused (checked in `pay_mixed` as well).
* `RefusalIsFinal`: after STALE_VERSION and the like an older attempt with the same key can no longer charge. `QUOTE_CHANGED` is not
  such an answer: the first attempt may still commit on its older catalog (see the hazards).
* `OneOrderPerKey`: a submission is cooked once.
* `EveryRequestEnds` under weak fairness of each handler, which the event loop, database time-outs and
  the bounded retries justify. It fails as soon as the advisory locks are taken in any order
  but the sorted one; PostgreSQL's deadlock detector is not modelled, as the sort makes it unnecessary.

### TableAccess

One table, its sessions, the QR mode, guests and waiters. Serializable transactions fail if a row they
lock or write has changed since the snapshot, or on a dangerous pair of read-write dependencies; longer
cycles, which PostgreSQL also breaks, are let through, so there are more behaviours here than in the
database. A handler that crashes takes no further step. `setQrMode` is a single statement in no
transaction, which is why `FOR SHARE` on the policy row matters. A guest whose link was rotated is told 404
even when retrying an order that is there.

* `OrdersEnterWithAccess`: an order enters only while its session is open, its link current, ordering on.
* `OpenSessionHasTable`: no open session of a deleted table or of one whose number another table has;
  its orders carry that number. `createTable` and the renumbering of other tables compete for numbers
  (`others`); the unique index decides.
* `NothingLeftBehind`: no live order or call remains for a closed session.

Three requests cover two that race and a third that changes what they compare. `MaxRetry = 1` (2 in the
code), `MaxToken = 1`.

### LegacyCart and SellOnce

One cart row (one cashier, table and food) with a detail per unit. Handlers that write in Read Committed
transactions read before they lock; `endSale` is Serializable behind an advisory lock, on
a snapshot that may be older than the lock. The menu is fixed; tastes behave as sizes; the bill that
`createAndSettleCounterOrder` makes is the record of what was charged. `Fail` is a missing row, a
foreign key, a deadlock, a crash or a lost answer.

* `SellsOnce`: the refinement of `SellOnce`. Its `inCart` are the details with their sizes, the bill of a key is its
  sale, and a checkout has asked for one from its arrival. What the handlers do to the cart row, its quantity and
  their own counts is no part of the promise.
* `UnitsChargedOnce`, `PaidMeansCharged`, `ChargesTheCart` say of the rows what the promise is made of; `AddsKeepUnits` that
  adds alone, however many overlap, leave exactly one detail per unit.
* `OneDetailPerUnit`, which a test states, does not (see Findings); the checkout's own comparison of
  quantity and details keeps the disagreement from ever being charged.

### StaffUsers

Starts from an empty table, or from one with an admin whose password is still plain text, as accounts
from before hashing are; `createFirstAdmin` locks the table, so it is one step. A
request is authorised when it arrives and not again. `create` checks the name, hashes the password, then
inserts; the partial unique index decides. There is no retry: a conflict is answered 409.

A password is a word, hashed or not. `signIn` reads the row, compares, and stores the hash of a plain
password by id, in a statement of its own after two slow awaits (`Rehash`), whatever happened to the row since.

* `AdminRemains`, `UsernamesDiffer`, `RemovedStaysRemoved`.
* `PasswordsAreKept`: a hashed password never becomes plain again, and only an admin's update changes it. The
  property names the one exception the code has: a password changed while a sign-in with the old plain
  one was under way is set back to the old word.

Three accounts and three requests: two admins that act on each other, and a newcomer.

### ImageStore

Every `await` ends a step. File names are unique and become known to clients when an upload has ended.
Jobs hold slots and wait in a queue in the server's memory, which `Restart` clears; `torn` remembers
images whose removal was cut short. `Promise.all` over unlinks is one step, and so is the
clean-up of a failed upload, but any of the unlinks in it may fail and leave its file (`UnlinkVariants`,
`UnlinkAll`). A count or an unlink that fails ends the clean-up of that image; `cleanupAfterSave` logs it, nobody
repeats it, and the next image has its turn (`CleanupFails`). A handler whose query or file operation fails
answers with an error (`GiveUp`). `parseImageUpload` lets a few bodies into memory at a time (`MaxUploads`, 2 in
the run and 4 in the code) and gives the place back once, when the response finishes or when the connection
closes, whichever comes first; a handler whose client hung up goes on. Saving the logo removes the old one and counts no references, as in the code.

* `NoOrphanVariant`: a removed image leaves no variant behind, whatever jobs were making one. There are two exceptions, both
  of which the code leaves open: a restart in the middle of the removal, and a failed unlink of a variant.
* `OneJobPerVariant`, `SlotsAreUsed`: the queue does its work once and never stalls.
* `EveryRequestAnswered`: every request is answered and every upload gives its place back, whatever fails (stated as
  "again and again all are answered", the same thing as no answer is taken back), under weak
  fairness of handlers and of jobs (each rendering has a 15 s limit; the upload has a time-out, and Node
  emits `finish` or `close` for every response).
* `DeletedIsUnreferenced` does not hold (see Findings).

`images` has one slot, one place in the queue and one variant, so that slot, queue and refusal all occur
with three requests; `images_refs` has the 2 and 8 of the code and both image fields.

### OrderPricing

Four foods at the demo rates 13.5 % and 25.5 %, one size, two notes, up to three entries. Every list is a state,
and each property compares the code's function with a reference definition of its result:
`SelectionsKept`, `TaxRoundedOncePerRate`, `TaxSharesAreFair`, `OrderOfPlainItemsIsHarmless`. All four are proved for lists
of any length and any menu, rates and notes. Amounts are far
from the limit of safe integers; a bill is of one order (several are concatenated); the
SHA-256 fingerprint is the normal form itself.

CHECK_DEADLOCK is off in all runs: rows and requests are finite and everything may be over.

## Findings

1. `cart_units`: quantity changes that overlap leave a cart whose details do not match its quantity,
   against `src/test/cart.test.js:131`. The handlers count details before they lock the row.
2. `images_refs`: the clean-up of a replaced image can delete a file that a food has just been given
   again, against the comment at `src/lib/food-write-service.js:11`.
3. `bill_order`: entries that differ in their note alone are not brought into a normal order, against the
   comment at `src/lib/order-pricing.js:121`.

## What is proved

Every theorem is `Spec => ...` for any constants that satisfy the named assumptions of its module:
types of the constants, that the "none" values are no members, that accounts are finitely many, and that
there is at least one slot for image jobs. TLC evaluates these assumptions in every run. The inductive
invariants were model-checked before they were proved. Every safety property that a passing run checks is
stated by a theorem.

**OrderLifecycle.** None of the invariants is inductive alone, and each needs some of the others. `IInv` is
the conjunction of the types, `AuditTrail`, `PaymentMatchesStatus`, `RefundIsWholePayment` and `ClosedSessionSettled` with three
strengthenings. `StagedRow` ties `preparingAt`, which the code tests before it cancels, to the history, which
`KitchenStartIsFinal` speaks of. `Placed` says that a row that does not exist belongs to no session and no bill, that a table
order has a session, and that the bill of an order was issued. `RefundOfOwnBill` says that a refund
returns the bill its order is on. `Advance` is used by every handler, so lemmas say once what it
preserves (`AdvanceType`, `AdvanceAudited`, `AdvanceRowOK`, `AdvanceExtends`). Writes to a single order share `OrderStepInv`, writes
to a session `SessionStepInv`; `StepKinds` reduces `Next` to such kinds of step, and `NextInv` combines them.
From `IInv` follow `TypeCorrect`, `HistoryIsAudited`,
`PaymentAgrees`, `KitchenStartCloses`, `RefundsAreWhole`, `ClosedIsSettled` and the action properties
`MoneyStays`, `WritesAreVersioned` and `ClosedStaysClosed`.

`BillsAreSums` rests on `IInv` and on `BillOfSession`: an order on a bill belongs to the session
of that bill, which is closed by then. So an open session has no billed order and the bill of a table
misses none. The sum is computed once, when a bill is issued, and neither the orders on the bill nor their
totals change afterwards, so what the sum is need not be known except for one order (`SumOfOne`).

**PaymentRequests.** `IInv` is `TypeOK`, that an order is billed by one bill that lists it, and for every
handler (`HandlerOK`) that a running one has not answered, that what it asks for is well formed, that its
snapshot is the past of the database (bills are only added), and that one about to answer "committed" has its
bill. `ChargesOnceHolds` is the refinement: initial states map to initial states of `ChargeOnce`, a commit to
`Charge`, an answer to the matching answer, everything else to a stutter.

A handler refuses on a snapshot, and other attempts with its
key may commit before and after. Versions only grow (`Grown`), so a claim that was not chargeable in
a snapshot never is again (`Blocked`); and whoever charged it meanwhile found it chargeable in that same snapshot
(`ChargedMeanwhile`), so the refusal is not given. `OneOrder`, `RefusalsAreFinal` and `RefusalsAreTrue` follow.

**TableAccess.** A transaction decides on its snapshot; `SnapshotHolds` says what its locks and the
serialization check leave true of it until it commits: the session it locks or writes is as it was, no session was
opened under a renumbering or a deletion, no order entered a session that is being closed. A submission
does not lock the table's row, and need not: it cannot change while a session is open, which is part
of the invariant. Theorems: `TypeCorrect`, `OpenHasTable`, `NothingStays`, `EntersWithAccess`.

**LegacyCart.** A snapshot that no write has made stale is the cart as it is, and every unit
charged or in the cart has an id that was given out, so a new id belongs to neither: `ChargedOnce`, `PaidIsCharged`,
`ChargesCart`. For `AddsAreCounted` a second invariant says that, while nobody removes a detail or changes the
quantity from an old count, every add under way has seen all details and wants one more.
`SellsOnceHolds` is the refinement: an added detail is a `Put` of an id never used, a deletion a `Drop`, the commit of a
checkout a `Sell`, its answer a `Tell`. It needs a third invariant (`SInv`): a cart that is there has a quantity above zero
(`CartCounts`), so that a sale is not of nothing; and whoever is about to say "paid" is a checkout that has not
answered (`SaleKnown`).

**StaffUsers.** An account request may act on a stale authorization; but a transaction that can still commit sees its
target as it is and, if it takes an admin away, counts no admin who is gone: `AnAdminRemains`, `NamesDiffer`,
`RemovedStays`, `PasswordsKept`.

**ImageStore.** Slots and queue are counted exactly (`QueueOK`), an entry of the map of pending jobs leads to the live job of
its variant (`PendingOK`), and a job whose original has disappeared is awaited by a removal that has not
swept yet (`RenderOK`). So a removal sees every variant that will ever be made of its image, and one that stays
was left by a failed unlink or a restart, which `torn` records (`VariantsGo`, `EndIsOwn`). `RenderOK` needs that an image which is removed was named before, and that an upload is
unnamed until its job ends (`JobOK`, `NamesDiffer`). Theorems: `TypeCorrect`, `NoOrphans`, `OneJob`, `SlotsUsed`.

**OrderPricing.** The only assumption is `PricingAssumption`: amounts are whole cents, rates are above zero, and size 0,
which stands for no size, costs nothing. A list may have any length. No induction theorem with an operator parameter can be used,
so `FiniteSums` states induction for the set of those numbers, or finite sets, that a claim holds for
(`NumberInduction`, `SetInduction`, by a smallest counterexample) and proves with it that the community modules' sum
over a finite set has one value whatever the order, splits, is monotone and can be renamed. Of the model's own
operators:

* grouping and sorting keep the weight of every selection, and the concatenated units add up to it (`BillAddsUp`):
  `SelectionsKept`;
* the cents that rounding leaves over are at most as many as the units with a part of a cent (`LeftBounded`), and go to those
  with the largest parts (`CentForAPart`, `MoreBearsMore`), so the shares are the rounded total (`TaxesAddUp`):
  `TaxRoundedOncePerRate`, `TaxSharesAreFair`;
* the place of an element in a sorted list is the number of those before it (`Places`), so sorted lists of the same
  lines are equal (`SortedListsAgree`, `SameIntent`): `OrderOfPlainItemsIsHarmless`.

**Only model-checked.** Liveness (`EveryRequestEnds`, `EveryRequestAnswered`) and `ENABLED` are out of this prover's
reach.

## Not modelled

* Catalog writes. Removing a category counts what is in it and deletes in one Serializable transaction, while
  foods, sizes and tastes are created by single statements after a check outside any transaction, so a
  removed category can keep new members. `src/test/food-type.test.js:98` covers a removal after the member exists, and
  not the race. Orders keep snapshots of what they sold, so no order or bill depends on it; the hazard is listed
  without a property.
* The polling cursor. Staff screens ask for rows after the last `updatedAt` they saw, which is the time of a
  statement and not of its commit. Orders in the other modules have versions and no clock.
* `QUOTE_CHANGED` and a waiter's retry after the table was settled are modelled as the code does them (a refusal),
  and no property is about them; the hazards say why.
* Reports, receipts, dashboards and lists change nothing. `reissueToken` derives the link of a session again and
  changes no order. Rate limits, link expiry and the cooldown of calls only refuse.
* Start-up and shutdown: a crash appears as a handler that takes no further step, or as `Restart`.

## Plan

The order followed: orders and money (OrderLifecycle, then PaymentRequests with its abstract
specification), the transactions beneath the atomic steps (TableAccess), the parts that are not Serializable
(LegacyCart, ImageStore), accounts and pricing; then the proofs, module by module, until every safety property
of every run was proved.

Next:

1. A module for the catalog (the removal of a category against the creation of its members) and one for the polling
   cursor.
2. A refinement from `PaymentRequests` and `TableAccess` to `OrderLifecycle`, which today is argued in prose: each
   opens up handlers that are single steps there.
