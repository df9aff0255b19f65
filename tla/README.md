# A TLA+ model of PIG-web

PIG-web sells shares of pigs that farmers raise. A buyer orders shares of a pig in a WeChat mini
program (or on the web) and pays with the wallet, with WeChat Pay or, outside production, with a mock
payment; the pig is raised, shipped and received, or the order is refunded to the wallet. Farmers log
in with WeChat accounts that are bound to them, check in their daily tasks and weigh their pigs; an
administrator keeps farmers, pigs and tasks. The backend (`backend/`, NestJS, TypeORM, MySQL 8, Redis)
runs as two PM2 processes (`infra/deploy/ecosystem.config.cjs`), so any two requests can interleave at
any database call, on one process (at an `await`) or on both. The client (`frontend/`, uni-app) has
several requests on their way at once, and answers come in any order, late, or never.

This directory states what the program guarantees under those interleavings, under failed
transactions, process exits, repeated WeChat notifications and lost or late answers; it model-checks
that with TLC on small instances, and proves all of it that is safety with TLAPS, the backend's part and
the client's, for instances of any size. File paths below are relative to the repository root, those of
pages to `frontend/src/pages`.

## 1. Inventory

| Component | State | Operations that change it | Hard behaviour |
|---|---|---|---|
| wallet (`backend/src/modules/wallet`) | `wallet` row per user, `wallet_transaction` ledger | `ensureWallet`, `credit`, `debit` | read and write of the balance without lock or version |
| order (`modules/order`) | `order`, `order_payment` rows | `create`, `cancel`, `payByWallet`, `requestRefund`, `markShipped`, `confirmReceived`, `approveRefund`, `mockPay` | check, await, save; two transactions per wallet payment and per refund, with a compensation |
| pay (`modules/pay`) | `order_payment` rows, WeChat's side of an order | `mockPrepay`, `wxPrepay`, `wxNotify` | repeated, concurrent and late notifications |
| pig (`modules/pig`) | the `pig` row: `sold_shares`, `total_shares`, `status`, `weight_kg`, `photos` | none of its own: orders and the foster module write it | written from snapshots by every payment and refund, and by saves of whole entities |
| message (`modules/message`) | `message` rows | `notify`, `markRead`, `markAllRead` | loss is tolerated; must not lie; the list and its count are two reads |
| share (`modules/share`) | `share_invite`, `share_member` | `createInvite`, `join`, `members` | reuse of invites, collisions of codes, concurrent joins, expiry |
| address (`modules/address`) | `address.is_default` | `create`, `update`, `remove` | one default address per user under concurrent edits |
| foster (`modules/foster`) | `farmer`, `farmer_task`, pig rows | `bindFarmerOpenid`, `registerNewFarmer`, `wxLoginByCode`, `checkinTask`, `farmerUpdatePig`, `admin...` edits, `adminCreateTodayTasks` | check-then-save, stale saves, delete and insert as two statements, UTC against local day |
| auth, user (`modules/auth`, `modules/user`) | `user` rows, revocation keys in Redis | `wxLogin`, `devLogin`, `adminLogin`, `refresh`, `logout`, `updateProfile` | keys and tokens that expire, first logins at the same time, profiles saved over corrections |
| farmer (`modules/farmer`) | - | two reads | the list and the count are two reads |
| frontend, session (`utils/request.ts`, `stores`, `pages/login`, `pages/my`) | token and user in storage, user in the store, the stack of pages, the flag against a second redirect | logins, logout, every request (a 401 clears storage), timers | several requests refused at once; answers for an older session |
| frontend, buying (`pages/pig`, `order`, `my/orders`) | refs of the pages, the order that a submission has made | `onSubmit`, loads at `onShow`, the buttons of an order | no button is disabled by the request; two requests per submission; loads that cross |
| frontend, other pages (`messages`, `my/addresses`, `my/profile`, `my/wallet`, `index`, `live`, `farmer`, `share`) | lists, forms, timers | their loads and saves | answers out of order, timers after leaving, parameters between pages |
| frontend, foster (`pages/foster`) | the farmer's identity in storage, lists, forms | login, binding, check-ins, weighing, the administrator's forms, the generation of tasks behind a dialog | answers of a page that was left, forms filled from an old list, a form saved twice |
| feeding, health, upload, redis, common, database | read only, probes, files, formatting, schema | - | - |
| foster-care-page | an older copy of `pages/foster` | - | - |
| infra, scripts | deployments, backups | - | restarts of the backend |

Calls: the order handlers call `WalletService.credit/debit` (own transactions) and
`MessageService.notify` (swallows its errors) and open a business transaction of their own
(`dataSource.transaction`) over `order`, `pig` and `order_payment`. `PayService` reads and writes the
same tables. Nothing is locked explicitly anywhere: the interaction between handlers is the shared
database at REPEATABLE READ. The pages of the client share storage, the store of the session and the
stack of pages, and the backend's rows.

What makes each component correct: the wallet agrees with its ledger and never goes negative; an order
follows its life cycle, is paid once and refunded once, and money moves exactly with it; `sold_shares`
is the sum of what orders hold, whoever else saves the pig; a weight has its photo; a WeChat payment is
booked once; messages are truthful; one valid invite per order and one membership per user; one default
address; an account is one farmer's, a meal has one task, and a check-in is not lost; a token that was
logged out is refused as long as it lives, and the administrator keeps his role. Of the client: the
session is kept until it is logged out or refused, and storage and store are of one user; a buyer pays
one order for one purchase; every page shows what the backend has once its requests are answered,
refuses only what became outdated meanwhile, and does not wait for ever. The hazards, line by line, are
in `PROJECT.json`.

## 2. Modules

| Module | Models | Kind |
|---|---|---|
| `Wallet` | `wallet.service.ts` | specification |
| `MCWallet` | an instance | TLC |
| `OrderFlow` (extends `Wallet`) | `order.service.ts`, `pay.service.ts`, `message.notify` | specification, composes orders, payments, pig shares and the wallet |
| `OrderLifecycle` | what the comments of `order.service.ts` promise | abstract specification |
| `OrderRefinement` | `OrderFlow` implements `OrderLifecycle` | refinement mapping |
| `OrderClaims` | claims of comments and tests that the code breaks | properties |
| `MCOrderFlow` | an instance of the last four | TLC |
| `OrderFlowProofs` | theorems about `Wallet` and `OrderFlow`; the refinement | TLAPS |
| `PigCatalog` | the `pig` row under `order.service.ts` and `foster.service.ts` | specification |
| `MCPigCatalog`; `PigCatalogProofs` | an instance; theorems | TLC; TLAPS |
| `AddressBook` | `address.service.ts` | specification |
| `MCAddressBook`; `AddressBookProofs` | an instance; theorems | TLC; TLAPS |
| `ShareInvite` | `share.service.ts` | specification |
| `MCShareInvite`; `ShareInviteProofs` | an instance; theorems | TLC; TLAPS |
| `AuthTokens` | `auth.service.ts`, `jwt.strategy.ts`, `user.service.ts` | specification |
| `MCAuthTokens`; `AuthTokensProofs` | an instance; theorems, also about `ClientSession` | TLC; TLAPS |
| `FarmerBinding` | farmers and their accounts in `foster.service.ts` | specification |
| `FarmerTasks` (extends it) | tasks and check-ins in `foster.service.ts` | specification |
| `FosterLogin`, `FosterPages` | `foster/login` and `foster/workbench`; the farmer's tab bar | specifications |
| `MCFoster`; `FosterProofs` | an instance of `FarmerBinding`, `FarmerTasks` and these two; theorems about all four | TLC; TLAPS |
| `ClientSession` | `utils/request.ts`, `stores/auth.ts`, the pages of login and `my` | specification, checked as it is |
| `Checkout` | `pig/detail`, `order/confirm`, `order/result` | specification |
| `OrderRows` | the orders as a buyer's pages see them | shared definitions |
| `OrderList`, `OrderDetail` (extend it) | `my/orders`; `order/detail` | specifications |
| `MCOrders`; `BuyingProofs` | an instance of `Checkout`, `OrderList` and `OrderDetail`; theorems | TLC; TLAPS |
| `Messages` | `message.service.ts` and the page of messages | specification |
| `AddressForm`, `ProfileForm`, `WalletPage` | `my/addresses`, `my/profile`, `my/wallet` | specifications |
| `Browse` | `index`, `pig`, `live`, `farmer`, `share/landing`, `my/pigs`, with `pig.service.ts` and `farmer.service.ts` | specification |
| `AdminForms`; `AdminDesk` (extends it) | `foster/admin/pigs`; `foster/admin/farmers` and `foster/admin/tasks`, opened from `foster/admin/index` | specifications |
| `MCPages` | an instance of `Messages`, `AddressForm`, `ProfileForm`, `WalletPage`, `Browse`, `AdminForms` and `AdminDesk` | TLC |
| `PagesProofs` | theorems about the same modules | TLAPS |

`OrderFlow` is about orders and knows of a pig only what payments read and write; `PigCatalog` is about
one table and knows of an order only that it is paid once and refunded once (what can break that is
the subject of `OrderFlow`). The other backend modules share no row with these: `ShareInvite` reads an
order's owner and status, which change under it by an action of its own (`OrderMoves`).

The pages meet each other and other users only through the backend's rows. Each page module has the
rows it reads, the writes of others to them as steps from elsewhere, and the backend's answer to its own
requests as one step; what happens inside a handler is the subject of the backend's modules. Pages that
have nothing in common are therefore checked side by side: in `MCFoster`, `MCOrders` and `MCPages` the
variable `part` says which of them a behaviour is about, and the others stand still at one initial
state.

### How the backend's modules correspond to the code

*Transactions.* MySQL runs at REPEATABLE READ: the first SELECT of a transaction fixes what it reads
(`Begin...` stores it, as `wtx[...].snap` or `snap[r]`). `save` of TypeORM loads the row, compares, and
UPDATEs the columns that differ with absolute values computed in JavaScript. The row lock of an UPDATE
is held until COMMIT, so all writes of a transaction are one step (`Commit...`); no lock connects the
read to the write, which is why they are two steps. A transaction that was opened can always fail
(deadlock, lock timeout, duplicate key, lost connection): `AbortTx`, `TxFailed`.

*Handlers.* In `OrderFlow` a request is a process with a program counter. It is cut at each `await`
behind which another request can have changed what was read. Reads that change nothing are folded into
the step that uses them; the check of a handler that throws before it wrote anything is not a step. A
request runs once, so the rows it inserted are known by it. `Crash` is the exit of the process at any
such point; MySQL then rolls back what was open, and what was committed stays.

*Saves of entities.* Handlers without a transaction load an entity, change it and `save` it: save reads
the row again, UPDATEs every column of the entity that differs from what it read, and INSERTs the
entity when the row is gone. In `PigCatalog`, `AddressBook`, `FarmerBinding` and `FarmerTasks` the load,
the second read and the write are steps of their own where another writer between them makes a
difference: an edit of a farmer's name writes back the `openid` that was loaded, a check-in inserts a
task that was deleted.

*Histories.* What the code guarantees often holds for whoever did not race: `overlapped`
(users), `raced` (orders that are shared, lists of tasks), `contended` (pigs), `crossed` (farmers) and
`waived` (columns of a pig) record that two handlers did, from the steps alone, and never stand in a
guard.

*Data.* Prices and balances are whole amounts; an order, a pig and a user are model values; a
`pig.status` is listed or sold out. `payments` are the `success` rows of `order_payment`; the pending
row of `wxPrepay` is never read. In `PigCatalog` a photo is the weight it shows, and the closed status
stands for every status in which a pig is neither listed nor sold out. An invite's code is a model
value that `DrawFree` and `DrawTaken` choose; the clock of `ShareInvite` counts the days of its expiry,
that of `AuthTokens` seconds, and that of `FarmerTasks` the two parts of a day in China in which the UTC
day is the one before (0:00 to 8:00) or the same. A token of `AuthTokens` is its kind, its user and its
second, as two that agree in these are the same text; its signature is taken as checked, and so are the
credentials of a login. A request with an access token passes `Arrive` (the expiry) and `Validate` (the
list), a refresh `RefreshCheck` (the list) and `RefreshVerify` (the expiry): in that order, with an
`await` between them.

*Outside.* `WxUserPays` is WeChat: it takes one payment per `out_trade_no` and then delivers its
notification as often as the model has requests, concurrently or not, before or after anything else.

### How the client's modules correspond to the code

*Requests.* JavaScript runs one callback at a time, so a step is a tap, a hook of a page, an answer or a
timer, with all that it does until its next `await`. A request is a slot with the call it is, what it
carried and what it will answer; a free slot is the bound on requests at a time. The backend handles it
when it is sent (or, where the page can tell the difference, in steps of its own: the two reads of
`getOverview`, of the list of messages, and of a farmer), and the answer arrives in any order with
others, or the request fails, before or after its handler ran. Nothing in the client cancels a request:
one outlives the page that sent it, and a slot says whether that page is still `here`.

*Pages.* The refs of a page are variables of the same names (with a prefix where two pages use one
name). `onShow`, `onLoad`, `onMounted` and `onUnmounted` are part of the step that opens, shows or
leaves the page. `ClientSession` and `Browse` have the stack of pages; `ClientSession` also queues
navigations, which the platform carries out later, and `navigateTo` fails when the stack is full.

*Builds.* Where the code asks for the platform or the mode (`import.meta.env.MODE`, `#ifdef MP-WEIXIN`),
the build is a variable that is chosen at first and stays.

*Histories.* A page can only be right about what it was told. The variables marked "history" record when
it was not: two loads crossed or one failed (`crossed`, `unseen`, `amiss`; `missed` of `AddressForm`), a
table changed between two reads (`skewed`, `torn`), the user tapped again while a request ran
(`doubled`, `again`, `hurried`, `twice`), an answer for an older session was on its way (`straggled`).
They are set by steps, stand in no guard, and are the exceptions of the properties: each is a way in
which the page really goes wrong.

`FosterPages` keeps its history row by row. An answered load carries the rows that were `missed`: those
written after it had read them, by others or by the page itself. `outdated` has the rows that the page
may have wrong: those that the load shown last missed, that others wrote since, and those of a write
whose answer was lost or whose page was left. So a check-in that a load crosses
(`foster/tasks/index.vue`, where nothing orders `load` and `checkin`) leaves that one row excused and no
other: until the next load it may be shown as open again, with its button, which is what the page really
does.

*Stale writes of orders.* `OrderFlow` shows that a handler which loaded an order can save it over a
later status. To the pages of orders that is a step from elsewhere: `Stale` in `OrderRows` says over
which statuses a handler may write, `OverwriteRow` in `OrderDetail` does so for cancel, payment, refund
and shipment, `OthersOverwrite` in `OrderList` for the wallet payment that comes after a cancellation.
What a user was told before such a write is not held against the page, and a timeline with a time that
its status has no place for (a late payment over a shipment) is excepted from `TimelineInOrder`.

*Browsing.* A pig of `Browse` has any `PigStatus`, and may change from each to each, or be deleted.
`getPigDetail` answers one in any status, so a draft or a closed pig can be brought to the page that
orders; only `sold_out` is refused there. The lists take their first rows (`PageSize`, `Take`: 20 each
in the code), and the answer of a live page that was left starts two intervals that nothing stops.

*Properties of pages.* The invariants of a page are named parts (`ShownIsStored`, `PaidOnce`, ...), and
the module's last definition, `...Inv`, is their conjunction with the type invariant: that is what a run
checks.

## 3. Runs

| Run | Question | Bounds | Result |
|---|---|---|---|
| `wallet` | what survives lost updates of the balance | 2 users (one without a row), 2 concurrent transactions at any time and any number of them, amounts 1 and 2, credits up to 4 per user | holds |
| `order_flow` | what survives every interleaving of orders, payments, refunds, failures and crashes; and is the code right when handlers on one pig do not overlap (`InventoryExact`, `LifecycleSpec`) | 2 orders of one pig with 2 shares that exclude each other, 2 users, 4 requests, 2 in flight | holds |
| `claim_paid_once` | a paid order is not paid again (`backend/test/order.e2e-spec.ts:239`) | 2 requests | violated |
| `pig_catalog` | what do saves of whole entities keep of columns that others write | 1 pig of 2 or 4 shares, 2 orders of 2 shares paid and refunded any number of times, 2 weights, 2 handlers at a time and any number of them | holds |
| `address_book` | does a user keep exactly one default address | 2 users, 5 requests, 2 in flight | holds |
| `share_invite` | one invite in force, the owner always listed | 1 order, its owner and a guest, 2 codes, 2 handlers at a time and any number of them, a clock of 4 ticks with invites of 2 | holds |
| `auth_tokens` | is a logout final, does the administrator keep his role | 2 users, 1 pair of tokens signed at any of 3 seconds, lives of 1 and 2 seconds, 2 handlers at a time and any number of them | holds |
| `foster_work` | whom does a farmer's token speak for; is a meal one task, and a check-in kept; do tasks reach the farmer; do the pages show and save what is theirs | 2 farmers, 2 accounts, 2 tasks of one meal, 2 handlers at a time and any number of them, 2 days in 4 parts; 2 requests of a page at a time, 2 pigs, 1 weight beside none | holds |
| `client_session` | which session is kept, cleared and shown; does a jump to the login page stay blocked | 2 users (one administrator), 2 requests or timers at a time, 2 sessions, 3 pages, 2 queued navigations | holds |
| `client_orders` | is one purchase paid once, are the order pages right, does each go on | 2 submissions, prices and shares of 1 and 2, 2 addresses; 2 orders, 2 tabs, 2 requests of a page at a time | holds |
| `client_pages` | are messages, addresses, profile, wallet, the pages that browse and the administrator's right once they are answered; do forms save what they show, and once | 2 messages, 2 addresses, 1 nickname beside none, a balance up to 3, 3 pigs of whom 2 are filmed, in 2 changes of their status, lists of 2 on the first page and of 1 of a farmer, 4 pages on the stack, 2 answers of live pages that are late or on their way, 2 farmers, 2 requests of a page at a time (1 of `foster/admin/pigs`) | holds |
| `claim_set_default` | the button "make default" of the page of addresses (`my/addresses.vue:30`, and its message at `:296`) does so | as `client_pages` | violated |

*Why the bounds are enough.* Four requests reach every state of the life cycle (pay, request refund,
approve, and one more of any kind against any of them); two in flight are what a race between two
handlers needs, and no guard in the code counts handlers. Two orders of one pig, one of a share and one
of both, make the last share contested. `MaxCredited` bounds the wallet alone; in `OrderFlow` the
number of requests does. A pig of two shares is sold by one order and one of four by both, so that
every run of payments and refunds passes the limit, and an edit of `total_shares` crosses it in both
directions. Five requests build a list of addresses, race on it and remove from it; a user's requests
never touch another's rows, and the second user is there to show it. Two codes make a collision and a
renewal, and a clock of two lifetimes lets an invite expire and a second one be made and expire. Two
orders multiply the states of `share_invite` beyond reason; rows of different orders meet only in the
choice of a code, which one order with two codes has too. One pair of tokens is logged out with or
without its refresh token, by several logouts at once, is refreshed in its second and expires within
the clock, the access token first; a token's key and the requests that come with it are independent of
other tokens. Tokens have no effect on roles beyond the row they name, and the second user shows it.

Two farmers and two accounts are what it takes to swap an account or to share one. Two days in four
parts have a midnight of China and two of UTC between them, and two tasks of a meal are one task and its
replacement. Two requests of a page are two loads that cross, or a load and a save: no page waits for
three. Two sessions are an old one and the one that its late answers meet; three pages let the
fourth fail, four on the stack of `Browse` are the longest way forward and its repetition. Lists of two
and of one are shorter than what they list, as lists of 20 can be; two changes take a pig out of a
status and back into it, and two answers of live pages are one that comes in time and one that does not.
Two submissions are a purchase and its repetition. A wallet of one unit can pay the cheaper share and
not the dearer. Model values that are interchangeable are declared symmetric in runs without liveness,
which is sound for their invariants and action properties.

*Deadlock.* Requests of `order_flow` and `address_book` are one-shot, clocks stop, and a client stops
when the user does nothing more: these runs may end and do not check for deadlock. `wallet` checks it.

*Fairness.* All runs are safety under every schedule, but for three properties.
`TasksReachFarmer` (`foster_work`): weak fairness of the clock, since time passes, and of each step of a
handler that has begun, since a statement returns or fails and the handler then goes on or throws. No
fairness makes anybody generate tasks or open a page.
`JumpsAgain` (`client_session`): weak fairness of the platform (a queued navigation is carried out or
refused and calls `complete`), of the timer of 500 ms, and of requests, which `uni.request` ends after
`timeout: 10000` at the latest. A user taps or does not.
`PagesGoOn` (`client_orders`): weak fairness of each request of the page, for the same reason; the
exception is the mini program's build for development, in which `confirm.vue` has no payment to call and
`submitting` stays set.

*Type invariants.* Those of the backend's modules are proved (section 4) and not repeated in the runs;
those of the pages are the first conjunct of their `...Inv`. So it is with `TokenTruthful`,
`OnlyOwnerIsHost`, `ListedForMembers` and `NothingTakenBack`, proved for all values of the constants.

What the violated runs show. `claim_paid_once`: every check of a status or a balance in the code is made
on a row read before an `await` and not repeated when it is written, so two payments of one order both
pass it. `claim_set_default`: the button sends the whole address, with its `id`, `userId` and times, and
the backend's `ValidationPipe` (`forbidNonWhitelisted`) refuses every such body. The holding runs say
what nevertheless cannot happen: no negative balance, no oversold count, no shipment or refund of an
unpaid order, no second booking of one WeChat payment, no message about something that did not happen,
no second farmer for an account, no session of one user under another's name.

Four more claims can be put to TLC by adding their name to a `.cfg`; each is refuted by the same
kind of overlap. `BalanceMatchesLedger` (`MCWallet`; `docs/03-backend/database.md:271`),
`SharesCounted` (`order.service.ts:51`) and `RefundedOnlyOnce` (`order.service.ts:344`; both
`MCOrderFlow`), `OnlyOrdersMoveShares` (`MCPigCatalog`; `foster.service.ts:345`).

## 4. Proofs

The proof modules prove, for all values of the constants that satisfy the assumptions of the
specifications (any number of users, requests, orders, pigs, codes, farmers, tasks, pages and amounts,
no bound on requests in flight), every invariant, action property and refinement that a passing run
checks. What is left to TLC alone is liveness.

Each argument strengthens the property to an invariant that is inductive. Those of the client hold on
the instances of section 3 too (of `BrowseIndInv` without the types of pages, which are of several kinds
that TLC does not compare).

The backend:

* `WalletInv` strengthens `WalletTypeOK`: the snapshot of an open debit covers its amount and no
  snapshot exceeds what was credited; a user with at most one open transaction and no overlap has the
  current balance as snapshot. `BalanceBacked` and `LedgerExact` follow. Without the part about
  snapshots a commit could write anything.
* `CoreInv` of `OrderFlowProofs` adds that an open business transaction's snapshot leaves room for its
  order (`NeverOversold`: the check and the write use the same snapshot).
* `PaymentInv` ties program counters to rows: a handler that saw `paid` acts on an order with a payment
  row, one past its credit has a refund row. `OnlyPaidIsFulfilled`, `OnlyCreditedIsRefunded`,
  `WxPaymentBookedOnce` and `MessagesAreTruthful` follow.
* `MoneyInFlight` says for each wallet payment which of its three rows exist at each program counter;
  `WalletMoneyAccounted` follows.
* `FlowInv` of `OrderFlowProofs`: a pig that is not contended has one handler at most
  (`LoneHandler`), and what that handler checked is still so when it writes (`ChecksHold`). With the
  count exact (`InventoryExact`), a refund can take its shares off it. So each step of `OrderFlow` is a
  step of `OrderLifecycle` or changes none of its variables, whatever the wallet, WeChat and failures do
  in between. The sum of shares is the cardinality of a set of units, one for each share of each order
  that holds any, so that an order more or less is settled by the library's lemmas on cardinalities,
  without an induction over data.
* `PigInv` says for each handler what the columns it holds still are to the row, as long as their facet
  is not waived: what was loaded agrees with the row (`LoadedRight`), what is going to be written over
  differs from it (`Pending`), and writing it gives a row that is right (`ComparedRight`,
  `CountedRight`). The lemma `WriterKeepsJob` is the heart: of two handlers that hold columns of one
  pig, the second to write either holds none that the first wrote, or its facet is waived. A row that
  is gone and a handler that loaded it imply that all of it is waived, from which `DeletionIsFinal`.
* `CountInv` adds to `PigInv` the orders: `held` counts the units of the orders that are paid
  (`PaidOf`), an order is in the hands of one handler at most, and a payment or refund about to be
  written differs from the row by exactly its shares (`Counting`). `SharesAreExact` follows, and with it
  that no count is negative, which `PigTypes` needs.
* `AddressInv`: a user whose requests never overlapped has at most one request past its start
  (`Sole`), which is at a known distance from the last write (`Located`, `Writes`); `Kept` says where
  the mark is when it is not on a row.
* `ShareInv`: who has passed the check of `createInvite` or `members` is entitled to what it is about to
  write (`Entitled`), the code it drew is free until somebody inserts it (`Vacant`), and of an order
  that was never raced one handler at most creates an invite (`SoleCreator`).
* `TokenInv` of `AuthTokensProofs`: no key expires before its token (`Covered`), because the ttl that a
  logout holds is still enough when Redis gets it (`Warrant`); `LogoutIsFinal` follows from the order in
  which a refresh looks at the list and at the expiry. `RoleInv`: as long as no profile went stale, every
  profile about to be saved has the role of its row (`Standing`); `AdminKeepsRole` follows.
* `BindingInv` of `FosterProofs`: what was answered (`TokenTruthful`) says nothing about what is about
  to be written. `PendingFits` does: for a farmer that was never written under another handler's
  hands, an entity to be saved agrees with the row, and one to be inserted is the only job about its
  farmer; with the unique index (`AccountUnique`) `OneAccountPerFarmer` follows. `TaskInv`: a list that
  is being generated, and on which no other handler was met, is empty (`GenerationAlone`), from which
  `MealsOnce`; a task that a check-in holds was listed (`HeldTaskKnown`), from which `CheckinsKept`.

The client. What a page shows is only as true as the answers on their way, so every invariant below says
of each slot what a request of that kind may carry (`...Fits`), and of the page which slot it waits for.
A slot that is free again tells nothing; that is why a handler's effect on the others is one lemma in
each section (`...Stands`, `...Keeps`), and a step's proof is about its own slot.

* `SessionIndInv` (`AuthTokensProofs`): as long as nothing straggled, every request on its way carries
  the session that storage holds (`NoStranger`). So a refusal clears that session and no other
  (`SessionKept`), and the user in an answer is its user (`UserMatchesToken`). `ShownFits` says what will
  still change a page that shows another user: an answer that has "me" to come, a login's timer, or a
  navigation that was asked for and drops the page. `OpeningStands` keeps `redirecting` set until its
  timer is, with one jump of `request`'s among the navigations queued (`OneRedirect`; the one that
  `landing` adds when a join is refused is not counted). `RefusalClearsItsOwn` states
  the first of these as an action property.
* `CheckoutInv` and `PaidOnce` (`BuyingProofs`): that one order is paid is not inductive. `OneBusy` has
  at most one submission without an answer, and the button locked while there is one; `TapsFit` says
  which of the orders a submission on its way has made; so two paid orders need a tap that `doubled`
  records. `ShowsDefault` and `LoadsFit` say what a load may still write into the form.
* `ListInv`, `DetailInv` (`BuyingProofs`): `RequestsOK` says what a request knows of its order, which
  stays true because no order goes back to a lower rank, but by a stale write, which takes back what the
  requests on their way stood for (`stands`); `NewestFits` which of the loads the list will be;
  `ToldStored` that what the user was told, the backend did; `OrderFits` that an order has times of its
  own, which `AsReached` bounds by its status wherever no stale write left others.
* `LoginInv` (`FosterProofs`) follows from three parts. `HereFits` says of each request where it comes
  from and whom it is about. `AnswerFits` says that an answer which names a farmer was given by a
  backend that knew the account as his; it stays so because a farmer who is bound is given to nobody
  else. `PagesFit` relates the page that is open to storage.
* `FosterIndInv` (`FosterProofs`): an answered load agrees with the table on every row but those it
  missed (`Agrees`, in `PostsFit`), and the page on every row but the outdated ones and those whose
  answer is still to come (`ShownTracks`); so a load that was overtaken may bring back one row, not
  another. `DialogFits`: the photo in the form is of the pig it was opened for, which a save sends.
* `MsgIndInv`, `WalletPageIndInv`, `AddressFormIndInv`, `ProfileIndInv`, `AdminIndInv`, `DeskIndInv`
  (`PagesProofs`): an answered list has its count from one reading (`LineFits`); a load of the wallet
  that nothing crossed has read what there is (`ReadsCurrent`) and is alone (`OneRead`); of the requests
  that create an address one at most is of the open dialog (`OneMade`), of those that hire a farmer or
  generate tasks likewise (`OneHired`, `OneGenerated`); while no two requests of the profile crossed, the
  one on its way belongs to the page that is open (`OneAtATime`).
* `BrowseIndInv` (`PagesProofs`): `StackFits` says which page follows which, with which parameter,
  `ReadsFit` of every page of a farmer on the stack that its reads were true at the state of the catalog
  they name, with as many rows as a list may have. The timers are those of the live pages on the stack,
  counted page by page, and those that leaked: `LiveAppend` gives the count of a stack with one page
  more, so that going forward and back needs no induction.

The assumptions on constants that these proofs use say that placeholders are told apart from data, that
bounds are natural numbers, and that sets which are counted are finite (`OrderListAssumption`,
`CheckoutAssumption`, `OrderDetailAssumption`, `MsgsAssumption`, `HopsAssumption`,
`AddressFormAssumption`, `AdminAssumption`, `DeskAssumption`, `ChoresAreNotPigs`,
`WeightsAreNotStatuses`, `PigsAreNumbered`, `ListsAreBounded`, `SessionAssumption`); each stands in its
specification, and TLC evaluates it on the runs.

Model-checked only: the three liveness properties, `TasksReachFarmer`, `JumpsAgain` and `PagesGoOn`.
Liveness under fairness and ENABLED are out of the prover's reach. That the pages stand side by side in
one run, and that the mutants break what they should, is of course TLC's part too.

## 5. Not modelled

* Backend: reads without effect; signature checks and decryption of WeChat notifications (taken as
  passed), and notifications that report no success (they write nothing); address snapshots, names, texts
  and dates; roundings of amounts; the call for a phone number; configuration, health probes, uploads,
  response wrapping, migrations. Feeding and health have entities that nothing in the code writes.
* Locks: a transaction may always fail, which covers the deadlocks of payments (order row, then pig row)
  with refunds (pig row, then order row); that MySQL resolves them is taken from MySQL.
* Client: the static pages, what is only layout or wording, pull-to-refresh and sharing beyond the invitation's
  code, uploads (one step that succeeds or fails).
* `foster-care-page` is an older copy of `pages/foster` against the same backend. `infra` and `scripts`
  deploy and back up; `OrderFlow` takes from them that two processes run and are restarted.

What follows are things met while modelling that no run states, because no document claims otherwise or
because a shorter form of the same interleaving is above:

* Backend: cancel can overwrite a payment (`order.service.ts:139`); a crash after the debit keeps the
  money of an unpaid order (`:161`; the exception in `WalletPayAccounted`); a repeated WeChat push may tell
  the user twice; a WeChat payment that arrives after a cancellation is refused until WeChat gives up,
  and nothing books it; a refused notification's money stays at the merchant. Two overlapping requests
  can make two default addresses or two invites, and a repeated join can answer an error. A logout
  whose second revocation fails cannot be repeated, since its access token is refused by then; a login in
  the second of a logout of the same user gets the text that was just revoked. A top-up of three
  decimals is rounded in the balance and in the ledger apart. The foster endpoints of the administrator
  are `@Public`.
* Session: `request.ts:128` takes every 401 for an expired session, also that of a wrong password on the
  administrator's login page, which clears the session and opens the buyer's login. `request.ts:56` says
  that several 401s jump to the login page once; `share/landing.vue:150-151` opens it a second time when
  a join is refused, after `request` did, so that one 401 puts two login pages on the stack (`Refused`
  queues both, and `OneRedirect` is about `request`'s own). A `navigateTo`
  beyond ten pages does nothing, without a message.
* Orders: the detail page says that an order is valid for 15 minutes (`order/detail.vue`), and nothing
  expires it. The tab for after-sales lists `refund_pending` only.
* Pages: `foster/pigs` saves the local path of a weighing photo that it never uploads, and fills the
  note from the farmer's name; `foster/admin/pigs` opens every pig with an empty description, makes a
  weight of 0 one of 30, and relists a pig that is sold out when it toggles its status;
  `foster/admin/tasks` generates tasks for a farmer that was removed since the list was loaded, as the
  backend does not look for him; `foster/admin/farmers` keeps its save button active while it saves, and
  a second tap makes a second farmer; `my/profile`
  accepts an avatar whose upload failed; `my/pigs` without a token opens the login page again at every
  return; `index` never reloads on return and falls back to its first pig for a region without one;
  `share/landing` passes an `intent` that no page reads; the order button of `live` does not look at
  `sold_out`; a draft or a closed pig whose address is known has a page with an order button, and only
  `OrderService.create` refuses it; a live page that is left before its answer has two intervals running for
  ever (`live/index.vue:164-170`); a farmer's page counts more pigs than the 20 it lists; a check-in in
  `foster/tasks` can be shown as open again by a load that had read the list before.

## 6. What could come next

1. `ClientSession` with two requests of `my` at once (`Sides` with the wallet as well) and with
   `foster-care-page`'s own session, where it differs from `pages/foster`.
2. Lock orders as a module of their own, instead of a transaction that may always fail.
3. Liveness of payments: a paid WeChat order is eventually booked when deliveries are fair and the order
   stays pending; a wallet payment without a crash eventually settles.
4. The rounding of amounts as operators, for the three decimals above.
5. Action properties of the pages, such as that the status of an order on the page never goes back, with
   proofs from the invariants there are.
