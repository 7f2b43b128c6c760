# A verification project for essesion

essesion is a shop for neckties: customers buy stock ties, order custom ones,
order samples, design their own, and send ties in for repair. The repository
holds a React store and a React admin (`src/apps/store`, `src/apps/admin`), a
FastAPI service (`src/apps/api`), a rendering worker (`src/apps/worker`), the
database models (`src/db`) and the infrastructure. The shop's rules live in
`src/apps/api/src/api/domains`; the browser's session, cart and checkout live in
`src/packages/api-client`, `src/packages/session-store` and `src/apps/store`,
and are programs of their own: they wait for requests, several tabs share a
cookie and a lock, and the customer changes accounts in the middle.

`tla/` holds TLA+ modules translated from that code, TLC configurations for
small instances of them, and TLAPS proofs about all of them but one.

## 1. Inventory

### The system's parts

| Part | State it keeps | Operations | What is hard about it |
|---|---|---|---|
| Payments (`payments/service.py`, `operation_journal.py`) | `orders.status`, `payment_key`, `paid_at`; a journal row per confirm attempt in `payment_incidents` | `confirm_payment`; `reconcile_from_webhook` | Three transactions around an HTTP call to Toss; crashes, timeouts and 5xx replies in between; webhooks duplicated, delayed, reordered; retries with the same or another key |
| Payment incident queue (`admin/payment_incidents.py`) | status, evidence of `payment_incidents` | `reconcile_incident`, `resolve_incident` | Looks Toss up, corrects the orders, then lets an operator act on evidence up to 15 minutes old |
| Order status machine (`orders/status_machine.py`) | none | `validate_transition` and its tables | Four order types, forward, rollback and cancel edges; edges that touch unpaid or locked orders |
| Orders (`orders/service.py`) | orders, items, coupon reservations, stock, shipment columns | checkout, status edits, repair receipts, purchase confirmation, tracking edits | Writers of `orders.status` that take different locks; a notice decided on after the commit |
| Claims (`claims/service.py`) | claims and two partial unique indexes | file, delete, edit, revive | `create_claim` reads the order without its row lock; edits lock the claim only |
| Claim notifications (outbox) | `claim_notification_logs` | insert with the final edit, background task, retry | A send between a row lock and its commit; tasks die with their process |
| Batch (`batch/router.py`) | none of its own | `auto_confirm_orders`, `cancel_stale_orders`, `cleanup_images` | Run beside everything, skip locked rows, take no advisory lock |
| Coupons (`coupons/`, `orders/service.py`, `admin/coupons.py`) | `user_coupons.status` | reserve, use, restore, issue, revoke | Restored by coupon and not by the order that reserved it |
| Stock (`orders/service.py:381`, `admin/products.py`) | `products.stock`, `product_options.stock` | deduct at checkout, replace options | Concurrent checkouts, option replacement between them |
| Images (`images/`, `batch/router.py:92`) | upload, link, expiry and deletion columns; objects in a bucket | sign, complete, link, expire, clean up | A clean-up in three steps that races with linking; one row shared by lines of a cart and an order |
| Sessions and accounts at the server (`auth/service.py`, `users/router.py`) | refresh tokens, users, identities | login, rotate, revoke, delete account | Rotation from two tabs; reuse as a theft signal |
| Session of a browser (`api-client.ts`, `session-store.ts`, the session provider) | access token and user of every tab; the cookie, the Web Lock and a channel they share | bootstrap, refresh, login, OAuth return, logout, announcements | Every answer may be for a token that is no longer the tab's; a rotation's answer may be lost |
| Cart of a browser (`features/cart`) | the guest's lines in `localStorage`, the account's at the API, a queue of edits | edit, sync at login | GET then PUT of the whole cart, under a session that may change; a PUT that seemed to fail may arrive later; two stores for one list |
| Checkout in a browser (`features/payment`, `pages/order`) | the pending order of a tab in `sessionStorage` | pay, Toss window, confirm, retry, clean up | A chain of awaited calls on behalf of an account that may be gone; pages taken down in mid-chain |
| Phone verification (`auth/phone.py`) | verification records | send, verify | Limits per minute and day; the record is committed before the send and withdrawn after a failure |
| Design sessions (`design/router.py`) | sessions, runs, generation lease | re-render, activate, insert a logo | A worker call outside the transaction, reclaimed after a time; rows remembered in memory |
| Quotes, reviews, inquiries, popups, manual orders, configuration | single rows | forms and edits | An optimistic lock (quotes), one review per order; otherwise single row locks |
| Operators' bulk operations (`admin/operations.py`) | `admin_operation_logs` | idempotent replays | A repeated request must return the first result |
| Worker, other screens, infrastructure | none that the rules depend on | rendering, forms, deployment | See section 7 |

### How they interact

* Everything in the service meets in `orders.status`. Its writers are the
  confirm request, the webhook, the incident queue, the two order batches, the
  operator's status edit, the repair receipts and the purchase confirmation.
  Payment, webhook and batches lock the order rows (`FOR UPDATE`); operators and
  owners take the advisory lock `order:<id>` first; `create_claim` takes the
  advisory lock only.
* Toss is called with no transaction open. What was learned before the call is
  re-read under lock after it. Toss calls back by webhook, whose body is only a
  hint: the handler looks the payment up again.
* Outgoing messages are sent by background tasks after a commit (payment and
  shipping notices, best effort) or through the claim outbox (retried).
* Scheduled jobs call the batch routes; they may overlap and be skipped.
* The tabs of a browser share the refresh cookie, take turns with a Web Lock and
  tell each other of new tokens and of logouts. Cart and checkout never see the
  session change: they capture it, and compare it after every await.
* Lines of a cart and a repair order refer to one image row for a photo; the
  cart's replacement, the removal of lines and the order's linking all write its
  expiry.
* The cart's GET and PUT are two requests. The API takes a lock for the PUT alone,
  and carries out one whose sender no longer waits for it.

### What makes each part correct

Payments: one charge per group, captured money never lost, nothing booked that
was not captured, a booking that is final. Queue: a row is closed only on facts.
Coupons: a coupon pays for one order. Claims: at most one active claim, which
freezes its order. Shipping: the notice is not lost, a shipped order is
eventually completed. Outbox: a notice can always be found and retried, and a
settled one is not sent again. Images: an object that a row still shows is not
deleted, and what expired is deleted in the end. Browser session: a tab shows
the customer it acts for, no tab looks like a thief, no tab loads for ever.
Cart: no line reaches another customer's cart or vanishes unasked (section 6
says when one does). Checkout:
nobody pays for another's order, lines leave a cart only when paid for.
Design: one render at a time. Stock: never sold twice.

## 2. Modules

| Module | What it models | Checked in | Proved in |
|---|---|---|---|
| `OrderStatus` | the order status tables, `validate_transition`, `_post_status` | through the others | |
| `ClaimStatus` | the claim status tables and the edits `admin_update_status` of claims accepts | through the others | |
| `OrderLife` | what all writers of `orders.status` together may do to one order: a contract | `Payment`, `Claims` | `PaymentProofs`, `ClaimsProofs` |
| `GroupLife` | what the browser may count on of a payment group: a contract | `Payment` | `PaymentProofs`, `StoreCheckoutProofs` |
| `TabSession` | what the pages of a tab see of its session: a contract | `StoreSession` | `StoreSessionProofs` |
| `Payment` | checkout, confirm, Toss, webhooks, the incident queue, coupons, status edits, the stale batch | `MCPayment` | `PaymentProofs` |
| `PaymentLedger` | what the money path promises of one group: free, trying, captured, booked | as a property of `Payment` | `PaymentProofs` |
| `Claims` | claims against every writer of the order's status, with the locks each takes | `MCClaims` | `ClaimsProofs` |
| `Shipping` | status, tracking edits, the shipping notice, completion | `MCShipping` | `ShippingProofs` |
| `ClaimOutbox` | the notification rows of a claim, tasks, retries, sends | `MCClaimOutbox` | `ClaimOutboxProofs` |
| `StoreSession` | the tabs of a browser, their tokens, tasks, lock and channel; the server's rotation | `MCStoreSession` | `StoreSessionProofs` |
| `StoreCart` | the guest's cart, the accounts' carts, the queue of edits and syncs | `MCStoreCart` | `StoreCartProofs` |
| `StoreCheckout` | the order form, the Toss window, the page Toss returns to, the pending order | `MCStoreCheckout` | `StoreCheckoutProofs` |
| `Images` | rows and objects of images from the signed upload to the clean-up | `MCImages` | `ImagesProofs` |
| `DesignLease` | the generation lease of a design session | `MCDesignLease` | |

### Contracts

No configuration composes two of the large modules. What they need of each other
is said by three small ones, which one side implements and the other is checked
against:

* `OrderLife`: an order is placed, locked, released or paid, edited along the
  tables, sent in, completed, canceled. `Payment` implements it whatever is late,
  repeated or dies, and `Claims` with all its jobs and locks, so that the jobs of
  `Claims` (`JobLocks`, `JobPays`, `JobReleases`, ...) are the steps a payment
  takes and no others. What it forbids is a writer that acts on a status another
  has changed.
* `GroupLife`: the orders of one checkout are paid once, as a whole and for good,
  or one of them is canceled unpaid and the others are never paid. `Payment`
  implements it; `StoreCheckout` lets a group be paid or die at any moment, as
  the contract does, and asks nothing else of it (`UsesGroups`).
* `TabSession`: a token is installed, its user verified, the session cleared, the
  page loaded, a profile saved. Every tab of `StoreSession` implements it. The
  session actions of `StoreCheckout` are the contract's own, those of `StoreCart`
  the same with the token's revision: both admit each of its steps at any moment,
  up to their bound on events, except that they assume that no profile is saved
  while an account changes (`saves <- FALSE`). Section 6 says what happens then.

### Payment

One customer's payment groups. `status`, `payKey`, `paid`, `applied` and
`arrivedFrom` are columns of `orders` and `order_items` (`arrivedFrom` is what
`repair_previous_statuses` reads back from the status log); `coupon` is
`user_coupons.status`; `open` and `resolved` are the rows of
`payment_incidents` by status, `evidence` those whose stored reconciliation
still allows a resolution. `prov` is the payment's state at Toss; `wire` is a
confirm call as Toss sees it, so that Toss may handle it after the request gave
up. `pc` and `reqKey` are the local state of a request, `hook` and `review` what
a webhook delivery and a review looked up and have not acted on yet.

An action is one transaction, or one step of Toss. `PrepareConfirm` is the lock
with its journal row; the actions from `ConfirmOutcomeUnknown` to
`ConfirmFailedAfterCommit` are the ends of a request, one per branch of
`confirm_payment`; `HookLookup` and the `Webhook...` actions are the two halves
of `reconcile_from_webhook`; `ReviewLookup`, `ReviewConfirms`, `ReviewCancels`,
`ReviewCompares`, `ReviewMismatch`, `ReviewRecords` the transactions of
`reconcile_incident`; `AdminUpdateStatus`, `SubmitRepair` and
`CancelStaleOrders` the other writers of unpaid and just paid orders.

Abstractions: an amount is the group's total or not (`OddKeys`); a webhook's
incident row is named by its type, reason, the status it saw and its key, which
is what its fingerprint tells apart, and a row with any other detail stands for
the same name, so recording may also find it new; ages are not modelled, so the
stale batch may take any pending order; which user asks is left out, checks of
ownership and amount that fail before the lock change nothing. The notices and
logs of a confirmation are left out.

### Claims

`txn[o]` is what the holder of the advisory lock `order:<id>` read and is about
to write, so `create_claim`, a status edit and a purchase confirmation are two
actions each, with `Abort` for a rollback. A payment is `JobLocks` and then
`JobPays` or `JobReleases`; these, `JobWebhookCancels`, `JobCancelsStale` and
`JobAutoConfirms` take the row lock only: they run while a claim is being filed,
and not while the row is held. `IndexesAccept` is the pair
of partial unique indexes. `CancelClaim` and `AdminUpdateClaim` lock the claim.

### Shipping

`courier` and `shippedAt` are the two columns of the order's outbound shipment
(the company's for a repair). `EditTracking` is `admin_update_tracking` up to its
commit, `EditTrackingNotifies` its re-read and notice. `announced` says whether
the notice was sent since the pair was last completed.

### ClaimOutbox

`row[s]` is the notification row for status `s`. `StartTask` is `notify_status`
in a background task, `Retry` the operator's; both continue with `LockRow`
(row lock, comparison, recipient conditions), `Send` and `Record`. `fresh` says
whether the comparison sees the claim as it is or as the session first read it.

### StoreSession

`token`, `user` and `status` are a tab's `accessToken` and session store;
`task[t][k]` is what runs in it: the provider's bootstrap, a second refresh (of
the OAuth callback page, or of the 401 interceptor), a login or logout, and the
check of an announced token. A task's `moved` is the comparison of
`tokenRevision`. `cookie`, `lock` and `inbox` are what the tabs share; `owner`,
`live` and `cause` the server's refresh tokens. `Acquire` to `RefreshFails` are
`refreshStoreAccessToken` under the Web Lock, `Booted` the end of
`bootstrapSession`, `LookAgain`, `MeAnswered` and `MeFails` the loop of
`authenticateCurrentToken`, `Hear` the channel's listener, `Rotate` and
`RevokeAtLogout` the server. `SaveProfile` and `ProfileSaved` are a page that
saves the profile, a telephone number or a consent and puts the answer into the
store (`setUser`), in the tabs of `Savers`. `Load` stands for every reload and redirect: the
tab's memory and its lock are gone, what it had sent is not.

A token stands for the access token and the refresh token issued with it, and
access tokens do not expire by themselves: `Unauthorized` is a 401 at any time.
The single flight of a tab without Web Locks is left out.

### StoreCart

`queue` is `cartUpdateTail`, `at` how far its first task is: GET answered, PUT
sent, PUT done. A task carries the session it captured, and `IsCurrent` is
`isCurrentCartSession`. The actions of the session are those of `TabSession`. A line is its id.
`asked` records which edits were asked for, by whom: the properties compare the
carts with it.

A PUT is one transaction of the API (`Replaced`). When the tab stops waiting for
one that was not carried out (`RequestFails`, `Reload`), it goes to `late`, and
the API may carry it out at any moment after that (`LateReplaced`): between the
GET and the PUT of a later task too, in any order with other such PUTs, or never,
which stands for a request that was lost or refused. `crossed` is history: the
late PUTs for the same account that came while the task under way was between
its GET and its PUT, or between its PUT and the answer. The properties name them
as the one way in which lines are lost unasked.

One tab is modelled; two tabs of a customer would read and replace the cart
across each other in the same way. `cartItemsToInputs` is left out: it drops a
product's line that comes without its product, which the line's foreign key
excludes.

### StoreCheckout

`pays[c]` is a call of `pay` and `confirms[c]` a confirmation with what follows
it, the repair shipment and the removal of the paid lines; each goes on when its
page has been taken down (`mounted` tells the branches that ask). `pending` is
the entry of `sessionStorage` per account, `group` the orders at the API,
`toss` and `url` the group the Toss window and the address bar name. The confirm
request is one step that pays, refuses or fails; what happens inside it is
`Payment`, and `GroupPaid` what happens there without this tab. The customer leaves
the Toss window through `failUrl`, a page load (`TossCancels`), or closes it on
the form, where the rejected call ends (`TossClosed`). Prices that changed end a call; drafts of custom orders are left out.

### Images

`image[i]` is the row, `object` the bucket, `cart[i]` the number of lines of the
customer's cart that show the photo: `PUT /cart` asks for lines with ids of their
own, and lets them share a photo. Actions are the routes that write the row
(`Issue`, `Complete`, the links of quotes, reviews, repair orders and repair
shipments, the two routes of the cart) and the three steps of `cleanup_images`
with its retries. `ReplaceCart` is `PUT /cart`: it claims every photo of the new
cart, or is refused as a whole, and gives an expiry to the photos no line shows
any more. `RemoveFromCart` is `POST /cart/remove`, which gives one to the photos of
the lines that go without a look at the lines that stay; the service offers the
route, its tests use it, the store does not call it. `overlooked` is history: the
photos it left in the cart with an expiry. One customer's cart is modelled, and
their own photos or a guest's that they claim; another customer's are refused. `line` orders rows as the
clean-up's query does, so that a batch of `Limit` rows is fair to those behind.
An expiry is none, ahead or past; a deletion claim none, fresh, or old enough.

### DesignLease

A request's `req[q]` is where `place_design_logo` or a re-render is and what its
SQLAlchemy session remembers of the row. The module exists for its run: see
section 6.

## 3. Runs

Every configuration disables the deadlock check: the bounds on requests and
events make every instance stop, and so may the system when nobody does
anything.

| Run | Instance | Shows |
|---|---|---|
| `pay_any` | one group of two sale orders, two requests, two keys, one webhook at a time, every edit that reaches or leaves an unpaid, locked or just paid sale order (`MoneyEdges`) | what holds whatever operators do: a locked order has an open journal row, a group is paid as a whole and under one key, only captured money is booked, a booking is final; orders and groups keep to `OrderLife` and `GroupLife` |
| `pay_careful` | a sale and a repair order in one group, two requests and keys, edits that leave unpaid and locked orders alone except to cancel them; fair servers | one attempt at a time, one charge, no lost capture, rows closed only when settled, paid orders canceled knowingly, the refinement of `PaymentLedger`, and the liveness of the webhook |
| `pay_coupons` | two groups (a sample that issues a coupon, a sale), two coupons, one request, a key of an odd amount, one webhook, one review | no coupon reserved for nobody, no used coupon usable again; nothing of a wrong amount is booked, and its row is closed only after the money went back |
| `claims_any` | a sale order of two items, three claim rows, all jobs, all claim edits | one active claim per order, one unrejected claim per item and type; the order keeps to `OrderLife` |
| `claims_locked` | the same, payment the only job, no revival of rejected claims | a claim fits the status it was filed on and freezes its order; a canceled order is not confirmed |
| `shipping` | a custom order, two tracking edits, fair batch | the notice is not lost; a shipped order is completed |
| `outbox` | an exchange claim, three deliveries at a time | rows are never missing, never claim an unsent message, settle once |
| `session` | two tabs, one of them saving profiles, two accounts, seven tokens, two events | a tab keeps to `TabSession`; one that saves nothing shows the owner of its token; no rotated cookie is sent unless an answer was lost; loading ends |
| `cart` | two customers of one browser, two lines, four events, three edits, PUTs that arrive after the tab gave them up | carts hold what their customer or a guest put there; lines leave them only when asked, into an account's cart, or through a late PUT |
| `checkout` | two accounts, two lines, two groups, two calls of each kind, three events | lines leave a cart only for a paid group of its customer; the Toss window is its customer's; a handled payment is forgotten |
| `images` | two images of any two kinds, a cart of at most two lines, a bucket that may refuse either image for ever, batches of one row, one event | linked objects are kept; photos in use do not expire, but for one that `POST /cart/remove` overlooked; expired objects are deleted in the end |
| `design_lease` | three requests | violation: two renders at once, see section 6 |

### Bounds

Two requests and two keys are the smallest instance in which an attempt can be
retried with the same key and with another one, and in which a late reply of the
first meets the second. Two orders are the smallest group that can be in a mixed
state; `pay_any` uses two of one type so that they are interchangeable,
`pay_careful` two types, because their post-payment statuses differ. One webhook
delivery at a time is enough for duplicates and stale lookups, since a delivery
can look up, wait for any other step, act, and be repeated for ever. The review
is one for the same reason. Three claim rows allow an active, a completed and a
rejected one to meet; two items are what the per-item index needs. Three
deliveries are a task, a retry that waits for its lock, and one that comes after
both. Counters that only grow (`tasks`, `told` in `ClaimOutbox`) stop at two,
which stands for more.

In `session` a profile may be saved at any time in one tab; one save is under way
at once, which needs no event since it adds nothing that grows. An event is what a customer or the network does (login, OAuth
return, logout, 401, load, lost request); everything that follows of itself is
unbounded. Two of them let a logout, a login or a reload meet a rotation of the
other tab. Seven tokens are never exhausted by two events: an event starts at
most two rotations in its tab and one in the other. In `cart` three edits and
four changes of session are an addition as a guest, a sync and an edit of each
account with the sessions between them; each failed request or load may leave
one PUT behind, so that late PUTs cross later tasks and each other. In `checkout` two groups are what the
older and the newer of a tab need to meet; two calls, a page and its successor.
`images` takes every pair of kinds in its initial states (unordered: the images
differ in nothing else); two lines of a cart show two photos or share one; one row
per batch makes the other wait its turn. The session, cart, checkout and image properties
that are not liveness are proved without these bounds.

Symmetry is used where the module compares the permuted values for equality
only, and never with a liveness property or a refinement that chooses.

### Fairness

`FairSpec` of `Payment`: a running request is served or dies (`WF`); Toss
delivers the webhook of a payment again until a delivery was handled
(`SF` on the lookup; the handler answers 5xx unless it is done); a delivery under
way ends (`WF`), and one that could confirm does not fail every time (`SF`).
Nothing else is fair: no customer retries, no operator acts, no batch runs.
`FairSpec` of `Shipping`: time passes, and the daily job comes back, although it
skips rows that are locked when it runs (`SF`). Operators and the owner are not
fair. `FairSpec` of `StoreSession`: a tab's requests are answered or its
promises settle (a saved profile's need not), it is given the lock it waits for when that is free, and it
hears what was announced (`WF` of `Step`); a request may also fail, which ends it
too. `FairSpec` of `Images`: the daily job comes, claims, tries to delete and
finalises, time makes old claims retried (`WF`), and a deletion tried again and
again succeeds for every object that is not broken (`SF`).

## 4. Proofs

Every safety property of a passing run is also a theorem, for any value of the
constants. Constants are restricted only by the named assumptions of the
modules, which say that null values are not members and that functions have
their domains, and by the hypotheses named below. No theorem uses a bound on
events or edits except as a natural number.

**`PaymentProofs`.** For any orders, groups, coupons, keys, requests, webhooks and
reviews:

* *Whatever operators edit* (`AdminEdges` is arbitrary). `TypeCorrect`.
  `LocksAreJournaled`: an action that closes a journal row must be known to
  release every order of its group, which needs a row's request to have begun
  (`RowHasRequest`); only `PrepareConfirm` locks, with its row, and
  `NoEdgeIntoPaying` says that no status edit does. `PaidTogether`,
  `PaidIsCaptured`, `PaidFits` and `PaidForGood` from `BookInv`: a paid order is
  past `paying`, its key was captured for the right amount, requests that are
  about to book and deliveries and reviews that saw money hold a captured
  payment. None of the four is inductive alone: what a late reply may write
  depends on what a request, delivery or review remembers. `OddReturned` from
  `OddInv`: what was seen canceled is canceled for good (`ProvCanceledIsFinal`),
  evidence about a wrong amount is that it was, a canceled order stays canceled
  (`CanceledIsFinal`), and an odd payment books nothing (`BookInv`).
  `UsedForGood`: no step but a confirmation writes a reserved coupon used, and
  every restoration skips used ones.
  `ContractsKept`, the refinement of both contracts, from `OrdersLive` and
  `GroupsLive`. The first needs that only an order that exists has a payment key
  (`KeyedExists`), as a webhook's cancellation asks for the key and no status.
  The second needs `BookInv` for what is paid, that an order is paid only with
  its whole group locked (`PaidWithItsGroup`), and `CanceledIsFinal`.
* *If operators leave unpaid and locked orders alone* (`Careful`: `AdminEdges
  \subseteq CarefulEdges`). `OneAttempt`, `OneCharge`, `NoMoneyLost`,
  `RowsCloseSettled`, `AdvancedIsPaid` and `PaidIsCanceledKnowingly` from
  `CarefulInv`. Its parts explain why a customer is not charged twice: an active
  attempt has an open row or its group is paid by its key (`AttemptsKnown`),
  there is one per group, and a call that is on its way finds the payment
  unused (`CallsFresh`). Actions are sorted into six kinds (`StepKinds`:
  a lock, a charge, a refusal, a booking, a settling step, a quiet one) and the
  invariant is proved once per kind. `LedgerImplemented`: each kind maps to a
  step of `PaymentLedger` or to none, with `Entry` as the refinement mapping.
* *If no edit touches unpaid orders* (`NoUnpaidEdits`): `CouponsAreHeld`. An
  operator's cancellation does leave a coupon reserved.

**`ClaimsProofs`.** `OneActiveClaimAlways` from the two indexes, stated without
cardinalities (`ActiveIsAlone`, `LiveIsAlone`). `OrdersLive`, with every job and
every edit: what a status edit or a confirmation decided on one read is still a
step of `OrderLife` when it is written (`EditsStand`), because the row is held in
between and the jobs wait for it. With payment the only job
(`Jobs \subseteq {"pay"}`), `ClaimsFitTheirOrder`: the status read before the
insert may have moved by a payment only, to a status that allows the same claims
or, from pending, to the locked one. Without revivals (`NoRevival`), `FrozenByClaim`; with both,
`CanceledIsNotConfirmed`: a confirmation under way has no claim to its order
(`NothingClaimed`), because both hold the advisory lock.

**`ShippingProofs`.** `NoticeIsSent` from `NoticeDue`: a complete pair was
announced or an edit that saw it incomplete is still to announce it.

**`ClaimOutboxProofs`.** `NoticeCanBeFound`, `SentWasTold`, `SettledStaysSettled`:
the row lock excludes, a held row is not settled, and who is past the send has
told the customer.

**`StoreSessionProofs`.** `TabShowsTokenOwner` from `IInv`: whatever a tab holds,
waits for or is told, is a token that was issued, and so its owner will not
change; a check shows a user only if the tab's token is still the one it asked
about. `TabsKeepTheContract`, whoever saves profiles: each step stays, installs a
token, clears, loads, shows the owner of the token or saves (`Moves`), and the
check that shows an owner finds the tab loading or showing already, because a
tab with a token never says that nobody is signed in (`TokenIsShown`).
`NeverLooksLikeTheft` from `LockInv`: the lock is held from the request
to the new cookie, so the cookie is rotated only while the answer that replaces
it is under way, unless an answer was lost.

**`StoreCartProofs`.** `CartIsOwners`, `GuestLinesAreKept`, `AccountLinesAreKept`.
The invariant says of the task under way that what it read is still so when it
writes, but for the late PUTs recorded as `crossed` (`Sent`): tasks take turns,
and a task whose session changed gives up. A PUT that was given up carries only
lines that its account, or a guest, asked for (`LateIsOwned`).

**`StoreCheckoutProofs`.** `CartsAreOwners`, `WindowIsOwners`, `PaidLeavesNothing`.
What a page noted when it was mounted is enough to tell whose pending order it
finds later (`ConfirmOK`), although the account has changed twice since.
`GroupsAreUsed`: the pages move groups as `GroupLife` allows (`UsesGroups`, which
is in no configuration, being short of interest without `Payment`'s half).

**`ImagesProofs`.** `LinkedObjectKeptAlways`, `InUseNeverExpiresAlways`: a row that
has not expired is in no run of the clean-up (`LeftAlone`), and every link of a
quote's or review's image looks at the row again under its lock. A photo that a
repair order took is `linked`, which the cart's routes leave alone; one that lines
show was claimed by the last replacement of the cart, or is `overlooked`.

The type invariants are proved and in no configuration: `TypeCorrect` states those
of `Payment` and `StoreSession`, and those of `Claims`, `Shipping`, `ClaimOutbox`,
`StoreCart`, `StoreCheckout` and `Images` are parts of their `IInv` (of `Images`
and `StoreCart` as much of it as the proofs need).

Only model-checked, being out of the prover's reach: the four liveness
properties (`CapturedEventuallyApplied`, `ShippedEventuallyCompleted`,
`LoadingEnds`, `CleanedUp`). `OrderStatus` and `ClaimStatus` are finite tables
that the proofs expand.

## 5. Plan

Done: the modules of section 2 and the proofs of section 4.

Left, in this order: stock of products and options under concurrent orders and
option replacement, with coupon issue and revocation by operators; phone
verification, whose record and message are two steps; the operation log's
replays and the quotes' optimistic lock; the deletion of an account while its
requests run; the session of the admin application.

## 6. What the models show that the repository does not say

Refuted by a run:

* **Two renders at once** (`design_lease`, `OneRenderPerSession`).
  `place_design_logo` reads the session, imports the logo over HTTP, then locks
  the row and looks at the lease of the object it read before: a `SELECT ... FOR
  UPDATE` does not refresh it. A request that looked before another took the
  lease takes it too. A run whose lease was reclaimed tests the lease in memory
  as well, so its late success overwrites the newer design.

Stated in a module, and shown by adding the property to the configuration named:

* **A discount is spent twice** (`PaidConsumesCoupon`, `pay_coupons.cfg`). When
  Toss refuses a payment, `_unlock` returns the group's coupons to active while
  its orders stay pending with the coupon applied and the price discounted.
  Another checkout reserves and uses the coupon; the first order is then paid
  too, and `_apply_confirmation` passes over a coupon that is not reserved.
  Without refusals, a cancel webhook delivered twice around another order's
  reservation has the same effect: it restores whatever is reserved.
* **The batch cancels a paid order** (`BatchNeverCancelsPaid`, `pay_any.cfg`).
  The status tables let an operator roll a paid order back to pending; it keeps
  its `paid_at` and key, and 30 minutes later it is stale.
* **The batch confirms a canceled order** (`CanceledNeverConfirmed`,
  `claims_any.cfg`). `confirm_purchase` refuses an order with a completed cancel
  claim, `auto_confirm_orders` does not look. It takes a rejected cancel claim,
  an order that ships, and the claim's revival and completion.
* **Delivered orders are never completed** (`DeliveredEventuallyCompleted`,
  `shipping.cfg`). The batch waits for `delivered_at`, which no code writes.
* **A PUT that seemed to fail undoes later edits** (`NoEditUndone`, `cart.cfg`).
  `replace_cart` commits when its client is gone, and `GET /cart` waits for no
  lock. The PUT of line A fails in the tab; the next edit reads a cart without A;
  the late PUT commits; the PUT of line B replaces it, and A is gone. Or the late
  PUT comes last, and B is. In the same way a late PUT may empty the account's
  cart between a sync's PUT and its answer, upon which the tab forgets the
  guest's lines. `AccountLinesKept` and `GuestLinesKept` name these as exceptions.
* **A photo in a cart expires** (`CartPhotosNeverExpire`, `images.cfg`).
  `docs/api-spec/domains.md:76` says that the photo of a tie in use in a cart has
  no expiry. Two lines may show one photo: `PUT /cart` subtracts the photos that
  are still shown from those that expire, `POST /cart/remove` does not. The removal
  of one of the lines gives the photo 24 hours, and unless the cart is replaced by
  then the clean-up deletes what the other line shows.
* **A tab shows the wrong account** (`SwitchesAtLoading`, `session.cfg`).
  `completeAuthentication` compares the token a profile was asked for;
  `setUser`, which the account pages call after they awaited the saving of a
  profile, a telephone number or a consent, does not. A customer who signs out
  and in as somebody else while the answer is under way is shown as the first
  account, authenticated, under the token of the second: the pages and caches are
  the one's and the requests the other's. `docs/reviews/repo-refactor-2026-07.md:93` says that
  a tab changes accounts at the boundary of loading. `TabSession` keeps the case
  (`ProfileSaved`); the cart and the checkout are checked without it.

Reachable in the models, and worth knowing when reading the code:

* After an exception of `toss.confirm` the orders stay locked for the operators;
  `money.md` section 5 still says that they are unlocked.
* A locked order that an operator releases and moves to its post-payment status
  by hand makes a late `_confirm` answer DONE and close its row, with neither key
  nor `paid_at` written: `ClosedMeansSettled` holds in `pay_careful` and not
  under `MoneyEdges`. A `_confirm` that comes after the webhook and after an
  operator advanced an order ends in an error and reopens its row.
* A confirm row whose payment never became DONE at Toss can never be resolved,
  and its group can never be paid; rows of a key mismatch are never consistent.
* `create_claim` reads the order without its row lock: a cancellation claim can
  be filed on an order that a payment has locked meanwhile, although locked
  orders cannot be claimed.
* A batch can complete an order between the check and the insert of a claim, and
  the revival of a rejected claim can commit between an order move's check and
  its commit. That is why `claims_locked` leaves both out.
* A tracking edit and the status change that commits before its re-read both
  send the shipping notice; a claim notice whose commit is lost is sent again.
* `domains.md` section 4 allows claims on locked orders and on repair and custom
  returns; the code's tables do not. The tables of the code are modelled.
* A rotation whose answer is lost leaves the browser with a cookie the server
  has revoked: the next refresh counts as theft and ends every session of the
  customer. A refresh that is refused leaves the cookie where it is.
* An edit of the cart that is asked for while the session loads, or whose GET is
  answered 401, is dropped, and the page has already said that the line is in
  the cart. The sync at login replaces the account's cart by the guest's.
* A form that is mounted again while `createOrder` is under way creates a second
  group, and the later answer is the one that stays pending. After a
  confirmation with an uncertain outcome a changed form makes a second group,
  and both may be paid. The page a payment returns to is taken down whenever a
  token rotates, and confirms again when it comes back. The confirmation of an
  older group clears the pending order of a newer one.
* `claim_reform_image` looks neither at the expiry of an owned row nor at its
  deletion claim: a retry of an old deletion claim deletes the photo of a tie
  that an order uses. That is why `LinkedObjectKept` is about reference images
  and review photos. A repair photo's link compares its expiry with the start of
  its transaction. A reform item cannot stay in a cart once an order has relinked
  its photo: the replacement of the whole cart is refused.

## 7. Not modelled

* Stock, phone verification, the operation log, account deletion: planned above.
* Prices, discounts, addresses and validation of requests: pure functions of one
  request. Masking, logging, listing and search. The refund rows of the incident
  queue, which no code inserts any more.
* The generated API client (`src/packages/api-client/src/*.gen.ts`, some 17,000
  lines): types and one function per route, no state.
* The screens of the store and the admin, most of the repository's TypeScript:
  forms, lists and pictures over queries, whose state is one component's and whose
  operations are requests to the service. What of the browser has state that
  outlives a component, or waits for several requests, is `StoreSession`,
  `StoreCart`, `StoreCheckout` and the upload in `Images`. The admin's session is a
  simpler twin of the store's.
* The worker's geometry, numerical and stateless; deployment; migrations.

So the modules stand for a small share of the repository's lines: the part with
concurrency, failures and money in it.
