# Univent backend: TLA+ specifications

Univent (NestJS, Prisma over MySQL, Stripe) sells event tickets. The modules in
this directory describe the parts of its server where several requests, a
database, in-process listeners, scheduled jobs and a payment provider meet; TLC
checks them on small instances and TLAPS proves the most important results for
every instance. Paths below are relative to `src/src/`; `orders.service.ts` is
`src/src/models/orders/orders.service.ts`, and so on.

## Inventory

| component | state | operations | module |
|---|---|---|---|
| Order placement (`orders.service.ts: create`) | `orders`, `order_items` | create | Checkout |
| Tickets (`tickets.service.ts`, `tickets.repository.ts`) | `tickets` | createTickets, updateTicket, deleteTicket, find, verify | Checkout |
| Payment synchronisation (`orders.service.ts: getOrder`) | `orders.paymentStatus`, `invoiceId`, `order_items.ticketFileKey` | getOrder, findOrdersWithDetailsByUserId, getTicketFileStream | Payment |
| Stripe payments (`stripe.service.ts`) | `orders.paymentIntentId`, Stripe's intents | createPaymentIntent | Payment |
| Ticket files (`ticket-generation.service.ts`) | PDFs on disk | generateTicket | Payment |
| Promo codes (`promo-codes.service.ts`) | `promo_codes` | create, validate, update, find | Catalogue, Checkout |
| Sessions (`auth.service.ts`, `refresh-token-nonces`, `jwt-clean-scheduler`) | refresh nonces, passwords | register, confirm, login, refresh, logout, reset, clean-up | Accounts |
| Accounts (`users.service.ts`, `user-notification-scheduler`) | `users` | update, change password, avatar, find, delete unactivated | Accounts |
| Events (`events.service.ts`, `events.repository.ts`) | `events`, theme relations | create, update, poster, delete, syncThemes, list | Catalogue, Audience |
| Event chain (attendees, subscriptions, notifications) | three tables | listeners of `order.created`, `eventAttendee.created`, `event.*`, `news.created`; lists, visibility, (un)subscribe | Audience |
| Companies, news | two tables | CRUD | Catalogue, Audience |
| Guards (`auth/guards`, `*-owner.guard.ts`) | none of their own | one answer per request | in the handlers |
| Generic repository, mail, OAuth, Swagger, seeds | none of their own | | |

Components interact in four ways: direct calls inside one request; shared rows
of MySQL, each statement atomic and transactions at REPEATABLE READ; the
in-process event emitter (listeners run after the emitter's `await`s and their
errors are logged and dropped); and Stripe, which is only ever polled, there is
no webhook handler.

The behaviours that are hard are the ones between those: read-check-write
sequences with an `await` in the middle, transactions whose callback uses
another connection, a transaction timeout that does not stop its callback,
two writes that belong together without a transaction, listeners nobody awaits,
swallowed errors, and an external payment state that is copied late.
`PROJECT.json` lists each hazard at the line where it bites.

What makes each component correct, in a sentence:

- Orders and tickets: a ticket is sold once, an order gets exactly its cart at
  the price of the listing, a failed order leaves no trace, every call is
  answered.
- Payments: the order row follows Stripe, a paid order has its tickets and stays
  paid, nobody pays twice, one invoice per payment.
- Sessions: a refresh token is traded once, no session is left that nobody can
  use or end, a password reset ends the sessions before it.
- Accounts: one account per e-mail; the account job deletes no confirmed account
  but one whose confirmation was already under way when the job read.
- Events, companies, promo codes: nothing that was ordered is deleted, themes
  are the ones last set, a code exists once, dates keep their distance.
- Event chain: each buyer becomes an attendee and subscriber once; recipients
  of a notification are the subscribers at the time; lists of attendees respect
  what the event and the attendee allow; changes are announced.
- All controllers: a request is answered with a status the controller documents.

## Modules

| module | models |
|---|---|
| `TicketSale` | the promise of ticket sales: orders take free tickets in one step |
| `Sessions` | the promise of refresh tokens: a session passes from one token to the next in one step |
| `Checkout` | the order transaction and the organiser's ticket operations; implements `TicketSale` |
| `Payment` | getOrder, createPaymentIntent, the invoice/ticket/mail block, Stripe |
| `Requests` | the life of an HTTP request; extended by the next three |
| `Accounts` | AuthController, UsersController, nonces, the two scheduled jobs; implements `Sessions` |
| `Catalogue` | companies, events, themes, promo codes, and what orders hold on to |
| `Audience` | event columns, attendees, subscriptions, news, notifications, the emitter |
| `SumTheorems` | facts about sums over finite sets, for the totals of Checkout |
| `*_proofs` | the theorems of Checkout, Payment, Accounts, Catalogue, Audience; the few of `TicketSale` and `Sessions` are in those modules |
| `MC_*` | the TLC instances |

`Catalogue` and `Audience` cut the controllers of events and companies in two by
what their columns can influence: deletion, dates and themes on one side,
announcements and lists on the other. Each keeps of the other half what it can
notice: `Audience` has `DeleteEvent` as one step, `Catalogue` has `PlaceOrder`
and `StoreTickets` as one step each (`Checkout` has their own steps).

### Checkout

State: `ticket` (rows by id; ABSENT before the insert, DELETED after the
delete), `order` and `totalAmount` (one row at most per POST call),
`promoActive`. Those are the *committed* rows. A POST /orders call walks

    idle -> waiting -> selected -> reserved -> priced -> committed -> announced
                \__________\___________\_________\-> rejected     \-> lost

- `SelectTickets`: the loop over `dto.items` (orders.service.ts:77-96), one
  snapshot read; `picked` holds (cart line, ticket) pairs because
  `findAllTickets` is called once per line and two lines may select the same row.
- `ReserveTickets` / `ReserveConflict`: `updateMany` on committed rows, the row
  locks it takes, and the count check. InnoDB makes `updateMany` see committed
  rows even though the selection saw a snapshot; this is what the design leans
  on. A locked row blocks other writers until the transaction ends, so the model
  keeps the RESERVED status back until `Commit`.
- `ApplyPromoCode` / `PromoCodeRefused`: validatePromoCode on a second
  connection (`FreeConnection`), outside the snapshot.
- `Commit`, `Announce`, `LoseAnswer`: the order rows and the commit; the emit
  after it; a process that dies between the two.
- `Timeout`: maxWait, transaction timeout, lock waits, database errors.
- `UpdateTicketRead` / `UpdateTicketWrite` / `UpdateTicketFails`,
  `DeleteTicket`, `CreateTickets` / `CreateTicket` / `CreateTicketFails` (one
  insert per loop iteration, each visible at once), `UpdatePromoCode`.

Two history variables, never read by an action: `clobbered` (tickets whose
status a stale edit overwrote) and `raced` (tickets retitled or repriced while
an order held them). They turn "correct unless an edit overtook it" into an
exact statement.

### Payment

One order, because orders share no payment state. The order row
(`paymentStatus`, `paymentIntentId`, `invoiceId`), its items' `ticketFileKey`
and `ticketStatus`, and Stripe's `intent`, `refunded`, `invoices`. Ids that are
never reused (uuid keys, intents, invoices) are named by the call that issues
them. A getOrder call walks

    idle -> retrieving -> updating -> invoicing -> recording -> reading -> generating -> committing -> done

- From `invoicing` on, its transaction holds the lock of the order row. The
  ticket keys are written *outside* the transaction (`tx` is undefined at
  orders.service.ts:340), so `GenerateTicket` writes `ticketFileKey` at once
  while `CommitStatus` publishes status and invoice id.
- `Expire` is the transaction timeout (or a lost connection): the lock and the
  writes are gone, the callback runs on until it needs the transaction again.
  A crash of the process has the same effect on the rows as `Expire` followed by
  `InvoiceError` and `SyncFails`.
- `InvoiceError` is the inner catch, `SyncFails` the outer one.
- `SelectedFields` states what the repository's `select` returns. The code also
  reads `order.items` and `order.invoiceId`, which are not in it: the branch
  that would make tickets SOLD or AVAILABLE (`TicketsAfter`) has nothing to
  update and the `!order.invoiceId` guard is always true.

A createPaymentIntent call walks `reusing -> searching -> linking` or
`-> resetting -> creating -> naming`; every catch that continues is an action.
Its two updates inside `$transaction` do not use the transaction's client and
commit one by one. Stripe's search may return any intent of the order or none.

History: `overtaken` marks calls in progress when another call writes the order
row, `lostUpdate` that such a call wrote; `invoiceFailed` that an error was
swallowed. They make the exceptions of the properties exact.

### Requests

A request in `Call` is a record: the operation, the `stage` it is at, the
statuses its controller documents (`docs`, from the `@ApiResponse`s), the `id`
in its path, its `body`, and `memo`, what the service has read. `Admit` is a
handler with its guards and pipes: the request is let in to its first stage, or
answered. `Answer` is a read, which leaves nothing behind and is answered in the
same step. After that every `await` of the service is a stage and an action of
its own, so that anything may happen between two of them. `Goto` and `Reply` end
such a step. A request that ends with a documented status frees its element of
`Call` at once; another answer is kept for one state (`"odd"`), in which
`AnswersAsDocumented` can see it, and `Unhurried` lets nothing else happen
before it is sent. Any number of requests follow one another. `overtaken` is
history: another request has just written what this one is about to write.

### Accounts

State: `user` (with `isEmailVerified`, and `expired` once older than the
confirmation period), `nonce` (the rows, and whether a client holds the token),
`cleaner` and `sweep` (what a run of a scheduled job has still to delete).
Actions, one per await:

- `Register -> CheckEmail -> CreateUser`; `ConfirmEmail -> ConfirmUserEmail`.
- `Login -> CheckCredentials -> OpenSession -> AnswerLogin`: the password is
  compared with the row read, the nonce is inserted later.
- `RefreshAccessToken -> KeepToken`, or `-> Rotate -> FindReplaced ->
  RetireReplaced`: the new nonce is stored before the old one is deleted by id.
- `Logout -> FindSession -> DeleteSession`.
- `ResetPassword -> MailResetToken`; `ConfirmPasswordReset -> StorePassword ->
  RevokeSessions`, two writes without a transaction.
- `UpdatePassword`, `Update`, `UploadAvatar` (not awaited by its controller) and
  the reads of UsersController.
- `CleanRefreshTokens` then `CleanNonce` one by one; `SweepUsers` then
  `DeleteUser` one by one, unconditionally; a user's nonces go with the row.
- `SessionExpires`, `ConfirmationExpires`, `Crash`.

Whether a password is right is an input; what the properties need of passwords
is the history `origin`: what each session replaced, the session a token
belongs to (its first token), and whether its password has been reset since.

The account job deletes by id what it has read, without looking again whether an
account has been confirmed meanwhile. That this is harmless rests on two lengths of
time in two files being one setting, `jwt.expiresIn.confirmEmail`: the age from
which the job deletes, and the life of the confirmation link, which is signed right
after the insert. Hence `ConfirmationExpires` ends both at once
(`expired`), and only a request let in before can still confirm. `awaited` are the
accounts the job is about to delete for which there was such a request when it read.

### Catalogue

State: `company`, `event` (with its themes and dates), `promo`, and `bought`,
what order rows refer to. The foreign keys of `schema.prisma` are in the writes:
`UniqueCompany`, `Restricted`, the cascade of `DeleteEventRow`. Actions: the
handlers; `CheckOwner -> CheckAddress -> CreateCompanyRow`;
`FindCompanyToDelete -> DeleteCompanyRow`; `FindEventToTheme -> ClearThemes ->
FillThemes` (delete, then insert, without a transaction); `FindEventToUpdate ->
WriteEvent`; `FindEventToDelete -> DeleteEventRow`; `FindEventOfCode -> CheckCode
-> StorePromoCode`, whose salted hash no index can compare; `FindCodeToUpdate -> WritePromoCode`; `PlaceOrder`;
`Crash`.

The body of a PATCH of an event (`Patches`) has any of the dates, a company and a
format, because its DTO is a `PartialType` of the one of POST. `WriteEvent` writes
them all (`Patched`): it may move an event to another company, also to one that
is being deleted and has already been found empty (`Closing`), whose deletion then
fails; and a company or format that does not exist fails on its foreign key
(`ForeignKeysHold`) with a 500 that needs no race, one of the exceptions of
`AnswersAsDocumented`. Who may do this is not asked: the route has no owner guard.

History: `torn`, events whose themes a failed or overlapped sync left in
disorder until a sync runs alone; `wanted`, the last list stored; `twin`, codes
that were being created at the same time.

### Audience

State: the announced columns of `event` and its `attendeeVisibility`,
`attendee`, `subscription`, `news`, `ordered`, and `listener`. An emission sets a
free element of `Listener` going: a chain of up to three listeners that run
beside one another and beside all requests.

    order.created        attend:    emitting -> finding -> joining
    eventAttendee.created  subscribe: finding -> adding      (beside notify)
    event.*, news.created  notify:    finding -> reading -> storing

`StoreNotification` is one insert per recipient, in any order, each of which may
fail on its own. Any other query of a listener may fail too (`ListenerFails`), of
the pool's timeout for one while orders hold its connections: the error is logged,
the listener ends, and nothing repeats its work. Of a column two values are kept
(`"unset"` is DRAFT or null). Handlers: create and update of events (`ReadEventToUpdate ->
WriteChange -> AnnounceChange`, the comparison of old and new), the list of
attendees (`OpenList -> ListOneself -> CheckMembership -> ListOthers ->
AnswerList`), an attendee's visibility, subscribe and unsubscribe, news
(`FindNewsSubject -> StoreNews -> AnnounceNews`, which looks the title up after
the insert), `UpdateNotification`; `DeleteEvent` with its cascades; `Crash`.
History: `announced` and `presented`, what listeners were last told; `blurred`,
what a crash or simultaneous updates left untold; `lost`, orders whose listener
died or failed; and, in a chain, `told`, `steady` and `ever` subscribed.

## What the runs check

| run | states | shows |
|---|---|---|
| `checkout` | 331,578 | `TypeOK`, `NoDoubleBooking`, `OrderDeliversCart`: three tickets, two orders of one or two tickets or a repeated title, an organiser who sets any status, deletes and inserts |
| `checkout_listing` | 982,006 | `ChargeMatchesListing`, `NoOrphanReservation`, refinement `ImplementsTicketSale`: two titles, two prices, a promo code, an edit that reprices and one that retitles, a batch of new tickets |
| `checkout_answers` | 4,588 | `RequestsAnswered` under fairness, with a pool of two connections both held by transactions that need a third to validate their promo code |
| `checkout_edit_race` | stops | *violated*: "Sold or reserved tickets cannot be updated" |
| `payment` | 1,370,987 | `PaidForReal`, `MailedLinksWork`, `PaidOrderHasTickets`, `InvoicedOnce`, `PaymentOnRecord`, `SettledStaysSettled`: two getOrder calls, two createPaymentIntent calls, two items |
| `payment_second_charge` | stops | *violated*: a paid order is refused a new payment |
| `payment_tickets` | stops | *violated*: the tickets of a paid order are SOLD |
| `accounts` | 950,419 | `TypeOK` (no nonce without its user), `TokenTradedOnce`, `OrphanSessions`, `ResetEndsSessions`, `ConfirmedAccountsKept`, `AnswersAsDocumented`, `OneWorkingToken`, refinement `ImplementsSessions` |
| `catalogue` | 282,282 | `TypeOK` (references and unique pairs), `OrderedStays`, `ThemesAsListed`, `PromoCodeOnce`, `AnswersAsDocumented` |
| `catalogue_event_dates` | stops | *violated*: an event's end is at least the minimum from its start |
| `audience` | 512,084 | `TypeOK`, `AnnouncedValues`, `ListsRespectVisibility`, `RefusedNewsUnlisted`, `RightPeopleTold`, `AnswersAsDocumented`, and `BuyersAttend` under fairness, with listeners that die or fail |
| `audience_drafts` | stops | *violated*: company followers hear of every published event |

**Exceptions.** Many of these hold only up to a race the code really loses, and
the property names it, through a history variable or a request under way: that
is the content of the property, not a way round it. What such a run shows is
that nothing else goes wrong; the exempted race itself is named, not excluded. These
are: a stale edit of a ticket or its price (`clobbered`, `raced`); a part of a
`createTickets` batch, which is a listing like any other to `TicketSale`; an
invoice error that is swallowed (`invoiceFailed`) and payment updates that overlap
(`overtaken`, `lostUpdate`); a login overlapping a reset, and the session a losing
refresh leaves behind; syncs of themes that overlap or fail (`torn`); equal promo
codes created at once (`twin`); updates of an event that overlap (`blurred`);
settings that change while a list is made; failed inserts of notifications; and,
for statuses, rows that go between two steps of a request. `AnswersAsDocumented` also
has, per module, the set `UndocumentedAnswers`: pairs of an operation and a
status its controller gives in ordinary use and does not document.

**Bounds.** Double booking, overwritten reservations and wrong totals take two
orders and one edit; three tickets let two carts overlap in part. Cash amounts
5 and 10 cents with a 15 percent discount round to both sides. `MC_Checkout.cfg`
has no promo code and one price because neither can influence which ticket is
sold to whom; the listing run has them. Two getOrder calls are what it takes to
repeat an invoice or a file and to write a stale status; two createPaymentIntent
calls, to replace an intent that was paid. In Checkout and Payment each call
happens once in a behaviour: a caller that retries is another call.

`accounts` has one account, three nonces and two requests at a time, of any
number that follow one another: two refreshes of one token need the old nonce
and two new ones, a reset against a login needs one. Two accounts meet in the
unique index on the address alone, which one id that is taken shows as well.
`catalogue` has two requests, two owners, companies and e-mails, for what is unique
among companies and for an event that moves from one to the other (which takes
two companies at the same time), one event and theme, and two promo codes with one
text. Its state constraint `Bounded` keeps the two halves apart: themes and codes
come into play when one company is there and while no request on companies and no
PATCH of the event is under way. Those requests see of an event that it exists and
whose it is, and write neither its themes nor its codes; the proofs know no such bound. Dates matter to no other property
and have a configuration of their own.
`audience` has two accounts, one event, two subscription ids, one piece of news,
two clients and at most two chains of listeners. A behaviour offers one of eight
*mixes* of requests (module `MC_Audience`), chosen so that each property meets
all the writers of what it reads: `Updates` for announcements, `Viewing` and
`Hiding` for lists, `Following` for two subscribers, `Joining` for one buyer's
subscription against a client's, `Buying` for two orders and their two chains,
`Reading` and `Writing` for news and notifications. In `Viewing`, `Hiding` and
`Joining` listeners do not fail and the process dies only when none runs. Ids, clients, chains,
bodies, mixes and `Bounded` are the only bounds; no counter is cut. An insert that finds no
unused id is not taken, except that of `SubscribeBuyer`, which fails.

**Symmetry** (tickets, orders; calls, items, nonces, owners, e-mails, companies, codes)
is used in runs of invariants and of safety properties only.

**Fairness.** `checkout_answers` assumes weak fairness of the steps of an order
call that has arrived, its `Timeout` included. Node runs every continuation,
and Prisma bounds connection waits (pool timeout), the start (`maxWait` 5 s) and
the length (`timeout` 10 s) of a transaction, MySQL lock waits. `audience`
assumes weak fairness of each listener's steps and of the sending of an answer:
the event loop resumes a listener whose query has come back. A query may fail at any time and
is not assumed to (`ListenerFails` is not fair): an order whose listener failed is in `lost`,
and `BuyersAttend` promises its buyer nothing. Nothing is assumed
of clients, organisers or of the process surviving.

**Deadlock** checking is off in the runs of Checkout and Payment: a system whose
clients have sent all their calls has nothing more to do. It is on in the
others, where a client may always send another request.

## Findings

1. *updateTicket is check-then-write* (tickets.service.ts:165). The refusal
   "Sold or reserved tickets cannot be updated" tests a status that may be stale;
   an edit of a ticket reserved in between overwrites it and, setting AVAILABLE,
   puts it on sale again. That is exactly the exception of `NoDoubleBooking`.
2. *A paid order can be charged again* (stripe.service.ts:51).
   createPaymentIntent tests the stored status only. It even retrieves the
   order's intent and sees that it succeeded, but falls through and creates a
   second intent over it; getOrder then follows the second.
3. *Tickets never become SOLD, nor free again* (orders.service.ts:364). The block
   that updates them is guarded by a field the query does not select.
4. *A PATCH may bring an event's end to its start* (date.validator.ts:105). The
   minimum distance is checked between the dates of one body; a body with one
   date passes, and `EventsService.update` writes it beside the stored other.
5. *A draft that is published is never announced* (notifications.listener.ts:18).
   `event.created` of a draft is dropped, and `event.status.changed` reaches the
   subscribers of the event only, not the followers of its company.

## What is proved

`Checkout_proofs` proves, for all values of the constants under the module's
named assumptions:

- `TypesCorrect` (`TypeOK`), `NoTicketSoldTwice` (`NoDoubleBooking`),
  `OrdersDeliverCarts` (`OrderDeliversCart`), `ReservationsBelongToOrders`
  (`NoOrphanReservation`), `ChargesMatchListing` (`ChargeMatchesListing`);
- `CheckoutImplementsTicketSale` (refinement, if no edit body sets AVAILABLE) and,
  through it and `SoldOnceAlways` of `TicketSale`, `TicketsSoldOnce`;
- `PromoCodeNeverRaises`: with the rounding to cents a total with a promo code is
  at most the total without.

`NoDoubleBooking` is not inductive. Its strengthening `IInv` adds: what a
transaction picked fits its cart (`SelectionInv`); what a transaction locked is
AVAILABLE in the committed rows and free of duplicates (`LockInv`, from the
count check); locks are disjoint (`LocksExclusive`); an ordered ticket exists and
is RESERVED unless clobbered (`OwnedInv`), so that no later transaction can lock
it. The refinement maps `soldTo` to the order rows and `onSale` to the AVAILABLE
tickets: `Commit` is `Sell`, creations and edits are `Offer` or `Withdraw`,
everything else stutters.

`ChargesMatchListing` has an invariant of its own on top, `ListingInv`: the
prices and titles a transaction has read, and those an order was computed from,
are the rows' unless an edit `raced` it, and an order's total is the sum of the
prices it was computed from. That a
sum over any finite set is a number, and grows with its summands, is proved in
the lemmas of `SumTheorems` (`SumNat`, `SumMonotone`). The induction over the set is by its
least counterexample: the subsets on which the claim fails have a minimal
element, because being a proper subset is well founded on finite sets, and
removing one element from it gives a smaller one. So no induction principle
with an operator parameter is needed; the fold behind `SumFunction` is a
recursive function, unfolded one element at a time.

`Payment_proofs` proves, for any sets of getOrder and createPaymentIntent calls
and of items, assuming only that the two sets of calls are disjoint and that
`None` is neither a call nor a status (`CallAssumption`):

- `TypeCorrect`, `PaymentsAreReal` (`PaidForReal`), `PaidOrdersHaveTickets`
  (`PaidOrderHasTickets`), `MailedLinksStayValid` (`MailedLinksWork`),
  `OneInvoicePerOrder` (`InvoicedOnce`), `PaymentsOnRecord` (`PaymentOnRecord`)
  and the action property `SettledOrdersStaySettled` (`SettledStaysSettled`).

All follow from one invariant, `IInv` of module `Payment` (`Invariance`), proved
by one lemma per conjunct with one step per action. None of the properties is
inductive, because each depends on what a call read several steps ago:

- `LockInv`: one transaction at a time holds the order row.
- `SyncInv`, `PayInv`: what a call has read, computed and done at each stage.
- `IntentInv`: the intents that the row, a call or the customer knows of exist, and
  the customer has none before the row names one. `PaymentOnRecord` says of the
  payment itself only that, if the order has one intent, it is the one on record:
  with several, one that was paid may be replaced (finding 2).
- `AnswerInv`: a payment or refund that a call has found is still one; hence
  `PaidForReal` although the answer is written late.
- `KeyInv`, `LinkInv`: under the lock, an item is keyed or still to generate, and
  what the call generated is still its own; hence the keys and the mailed links.
- `FreshInv`: the snapshot of a call that was not overtaken *is* the row. This is
  what turns "no lost update" into a fact about values.
- `SettledInv`, `InvoiceInv`: with `FreshInv`, a call that finds the order PAID
  can only write REFUNDED, and the call that invoiced holds the row or has left
  it settled; hence one invoice and no way back from PAID.

TLC checked `IInv` on the instance of `payment` before it was proved. The two
violated claims about payments stay with TLC, which exhibits them.

`Accounts_proofs` proves every property of the run `accounts`, for any sets of
users, addresses, nonces and concurrent requests, assuming only that `None` is
none of them: `Types`, `TradedOnce`, `Orphans`, `ResetRevokes`, `ConfirmedKept`,
`DocumentedAnswers`, `OneWorkingTokenEach` (`OneWorkingToken`) and the refinement
`AccountsImplementSessions` (`ImplementsSessions`). `Invariance` is the inductive invariant behind them:

- `RequestOK`: what a request has found and may rely on at each stage, which
  excuse holds if a row it found has gone since, and that a stage's answers
  are documented. It survives the steps of others because rows only move from
  none to stored to deleted and the unique address only changes under a request
  that is told so (`RowsKept`, `OthersKept`).
- `TradedIn`: a token that replaced another is held only when that one is
  deleted. Two winners would both have deleted one row; hence `TokenTradedOnce`.
- `Attended`: a stored session nobody holds is some request's memo, or has lost
  the race for its predecessor.
- `Outdated`: an outdated session has a reset about to revoke it.

`ConfirmedKept` has an invariant of its own on top, `SweepInv`: what the account job
is about to delete is old and stays old, so that no confirmation of it is let in
any more; hence whatever request is confirming one of these accounts, or has
confirmed it since, was under way when the job read. Each
step of a request is checked to let no new confirmation in (`SweepStands`).

The abstract module `Sessions` has three operations: sign in, trade a working token
for a new one of its session, end any tokens. The mapping takes a token's owner
and session from its row and history, and calls a token *working* if its client
holds it and its row is stored. A refresh is then a trade in the one step that
deletes the old row by id, `RetireReplaced`: until then the new token is in
nobody's hands, and the refresh that loses the race for the row hands its token
to nobody. Logins sign in when they answer; logouts, resets, expiry, both jobs and
the cascade of a deleted account end tokens. The proof needs `HandInv` beside
`IInv`: every row has its session noted (`NoncesBooked`), no two requests under
way hold the same new nonce (`MemosApart`), and a token still to be handed out
belongs to the account and the session it will be handed out for (`Handing`).
`OneWorkingTokenEach` and `SessionsOfOneUser` are theorems of `Sessions` (`OneToken`,
`OneUser`) carried back through the mapping.

`Catalogue_proofs` proves every property of the run `catalogue`, for any number of
everything, assuming that `None` is no id and that no id is both an event's and a
promo code's (`IdAssumption`: both tables number their rows from one, and the
assumption only says which table an id is of): `Types`, `OrderedRows`, `Themes`,
`PromoCodes`, `DocumentedAnswers`. The inductive invariant (`Invariance`) is
again `TypeOK` with one `RequestOK` per request, made of what it has found
(`Findings`), what it has found missing (`Absences`: no equal code unless
overtaken) and how it may be answered (`Replies`); and

- `SyncInv`: between the two writes of a sync that nobody overlaps the event has
  no themes, which is why the list that is inserted is the list that remains;
- `Unborn`: what has never been stored has no history.

`DatesApartUnlessHalfSent` delimits finding 4: in every behaviour whose PATCHes
write both dates of an event or neither (`WholeDates`), `EventDatesApart` holds,
whatever else happens. It rests on `DatesInv`: a request on its way to the row has
a body its DTO has compared.

`Audience_proofs` proves every safety property of the run `audience`, for any
number of clients, events, news, subscriptions and chains of listeners and for
every interleaving, not only the mixes TLC explores: `Types`, `ValuesAnnounced`,
`ListsShown`, `RefusedNews`, `Notified`, `DocumentedAnswers`. It assumes that
`None` is nothing else (`NoneAssumption`), that the company is neither a user nor
an event (`OwnerAssumption`) and that the columns are some of the four that the
code announces (`FieldAssumption`). The inductive invariant (`Invariance`) has:

- `RequestOK` of every request: `Replies` and `Findings` as above; `ListSound`,
  that a list being made holds the viewer alone until the viewer is admitted;
  `Fresh`, that what a request has read (the setting, the old value, the missing
  subscription) is still so unless it was told otherwise.
- `ChainOK` of every chain of listeners: who subscribed before the emission and
  stayed is among the subscribers until they are read, and afterwards among those
  told or to be told; an event that a chain is about has existed. A subscription
  that comes or goes between two steps keeps both halves, and so does the
  cascade of a deletion.
- `References`: what is ordered stays, what news are about exists. Hence the 404
  of `AnnounceNews` means that the database has taken the news off their event.
- `Announcements`: of the updates of a column about to be announced all but one
  have been overtaken, and if that one leaves its value unsaid (the value is the
  one it read), listeners know it already or another announcement is under way.
  `AnnouncedValues` alone is not inductive: it does not say why a silent update
  is harmless.

TLC checked `IInv` in the mixes of `audience` before it was proved.

`AnnouncedUnlessDrafted` delimits finding 5: in every behaviour in which no PATCH
publishes a draft (`NoLatePublication`), `PublishedEventsAnnounced` holds. A
published event is presented, or its creator's request is about to present it,
or a crash has been noted (`PublicationInv`).

Every invariant, action property and refinement of the passing runs is proved.
What TLC alone checks: `BuyersAttend` (unless the process dies or a query of the
listener fails) and `RequestsAnswered`, which need fairness;
and the violated claims, which TLC exhibits. The claims about dates and drafts
are proved under the conditions above. `CheckoutImplementsTicketSale`,
`TicketsSoldOnce` and those two are the only theorems with a condition on what
clients send, and each condition excludes the request behind a finding.

## Plan

Done: `TicketSale`, `Sessions`, `Checkout`, `Payment`, `Requests`, `Accounts`,
`Catalogue`, `Audience`, and their proofs. Left:

- `OrderLifecycle`: composition of Checkout and Payment with
  getTicketFileStream; an abstract ledger of an order (unpaid, paid, refunded)
  that it implements when calls do not overlap.

## Not modelled

- What a list holds and in which order: pagination, filters, query building; the
  generic repository, which no service uses.
- E-mail, OAuth, PDF and QR layout, uploads as files, Swagger, configuration,
  seeds: no state that a request reads back.
- JWT signatures. Requests without a token, which their guard answers 401, are
  enumerated in `Accounts` only. 200 and 201 are one answer, so that a route
  that documents one and sends the other is not told apart.
- Path ids that are not numbers, which a pipe or Prisma refuses before anything
  is written.
- Queries of requests that fail for reasons of their own (listeners and
  transactions have theirs): the rows are left as `Crash` between two steps leaves them,
  and the client gets an undocumented 500.
- The clock: a link and its account grow old together. In the code the link is compared in
  whole seconds of UTC and the account with a local time less the same seconds
  (users.repository.ts:19), so that they may be apart by up to a second, and by
  an hour when clocks change.
- An explicit `null` in an optional field of a PATCH body, which passes
  `@IsOptional` and which Prisma refuses for a required column.
- `updateEvent` of `Audience` changes one column per body; a body with several
  announces each in turn. The company of `Audience` stays and keeps its events
  (`Catalogue` deletes companies and moves events; no announcement depends on where
  an event has moved). A notification is its entry in the history `told`.
- `verifyTicket` only reads; it compares with `ticketFileKey` what the QR code
  fills with `ticket.number` (tickets.service.ts:198). `delete` of an event tests
  a field its query does not select (events.service.ts:171), a guard that never
  fires: in `Catalogue` it is absent and the foreign key answers.
- Two concurrent createTickets calls may give one title two prices
  (tickets.service.ts:63): nothing in the code prevents it.
- Nothing releases the tickets of an order that is never paid: there is no code.
- Lengths of texts: a notification that names two long venues exceeds its
  column. Event publication dates are not checked by the order code, so they are
  absent from Checkout. Cash amounts are integers in cents; `Decimal(10, 2)`
  cannot overflow with the quantities the validators accept.
