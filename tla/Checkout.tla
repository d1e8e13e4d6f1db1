------------------------------ MODULE Checkout ------------------------------
(***************************************************************************)
(* The sale of one event's tickets: the ticket rows, the order transaction *)
(* of OrdersService.create, and the organiser's createTickets,             *)
(* updateTicket and deleteTicket, all running concurrently.                *)
(*                                                                         *)
(* The database is MySQL/InnoDB at its default isolation level, reached    *)
(* through Prisma.  `ticket` and `order` hold the COMMITTED rows.  An      *)
(* order transaction reads the snapshot its first query opens; its         *)
(* updateMany evaluates `status = AVAILABLE` on the committed rows, takes  *)
(* a row lock on every id it examines and keeps it until the transaction   *)
(* ends; a row a transaction has locked cannot be written by anybody else. *)
(* What the transaction wrote is visible to others only after Commit, so a *)
(* rollback just forgets it.                                               *)
(***************************************************************************)
EXTENDS Naturals, Sequences, FiniteSets, FiniteSetsExt

CONSTANTS
    Ticket,        \* ids of ticket rows the event can ever have (a bound)
    Title,         \* ticket types
    Price,         \* prices, in cents
    Request,       \* POST /orders calls
    Cart,          \* the item lists a call may carry
    PromoCode,     \* promo codes of the event
    Discount,      \* discountPercent of each code, in 1/10000
    Edit,          \* PATCH /tickets/:id calls in flight at the same time
    EditDto,       \* the bodies they may carry
    Batch,         \* POST /events/:id/tickets calls in flight at the same time
    BatchDto,      \* the bodies they may carry
    PoolSize,      \* connections of the Prisma pool
    NoCode,        \* an order without a promo code
    NoOrder,       \* a request that has created no order row
    Undefined      \* a field absent from a body; a call slot not in use

TicketStatus == {"SOLD", "RESERVED", "AVAILABLE", "UNAVAILABLE"}

\* A row that was never inserted, and one that was deleted: ids are not reused.
NotARow == {"ABSENT", "DELETED"}

Line == [title : Title, quantity : Nat \ {0}]

ASSUME TicketAssumption ==
    /\ IsFiniteSet(Ticket)
    /\ Price \subseteq Nat \ {0}

\* ValidateNestedArray and IsQuantity: at least one line, positive quantities.
ASSUME CartAssumption ==
    \A c \in Cart : c \in Seq(Line) /\ c # <<>>

ASSUME PromoAssumption ==
    /\ Discount \in [PromoCode -> 0..10000]
    /\ NoCode \notin PromoCode

ASSUME EditAssumption ==
    EditDto \subseteq [status : TicketStatus \cup {Undefined},
                       title  : Title \cup {Undefined},
                       price  : Price \cup {Undefined}]

ASSUME BatchAssumption ==
    BatchDto \subseteq [status   : TicketStatus \cup {Undefined},
                        title    : Title,
                        price    : Price,
                        quantity : Nat \ {0}]

ASSUME UndefinedAssumption ==
    /\ Undefined \notin TicketStatus
    /\ Undefined \notin Title
    /\ Undefined \notin Price
    /\ Undefined \notin [ticket : Ticket, dto : EditDto]
    /\ Undefined \notin [dto : BatchDto, left : Nat \ {0}]

ASSUME PoolAssumption == PoolSize \in Nat \ {0}

-----------------------------------------------------------------------------

VARIABLES
    ticket,        \* rows of the tickets table
    order,         \* the order_items (and promo code) of each request's order row
    totalAmount,   \* and its totalAmount, 0 when there is no order
    promoActive,   \* the promo codes whose isActive is true
    pc,            \* where each POST /orders call is
    cart,          \* its dto.items
    code,          \* its dto.promoCode
    picked,        \* selectedTickets: pairs <<line of the cart, ticket>>
    quoted,        \* the prices selectedTickets carry
    edit,          \* updateTicket calls between their read and their write
    batch,         \* createTickets calls inside their loop
    clobbered,     \* history: tickets whose status an edit wrote over SOLD/RESERVED
    raced          \* history: tickets retitled or repriced while picked or ordered

dbVars  == <<ticket, order, totalAmount, promoActive>>
txVars    == <<pc, cart, code, picked, quoted>>
organiserVars == <<edit, batch, clobbered, raced>>
vars == <<dbVars, txVars, organiserVars>>

Row == [status : TicketStatus \cup NotARow, title : Title, price : Price]

OrderRow == [items : SUBSET (Nat \X Ticket),
             price : [Ticket -> Nat],
             promo : PromoCode \cup {NoCode}]

ASSUME OrderAssumption == NoOrder \notin OrderRow

InTransaction == {"selected", "reserved", "priced"}
Ordered  == {"committed", "announced", "lost"}
Answered == {"announced", "lost", "rejected"}

NoPrices == [t \in Ticket |-> 0]

RowsTypeOK ==
    /\ ticket \in [Ticket -> Row]
    /\ order \in [Request -> OrderRow \cup {NoOrder}]
    /\ promoActive \in SUBSET PromoCode
    /\ pc \in [Request -> {"idle", "waiting"} \cup InTransaction \cup Ordered \cup Answered]
    /\ cart \in [Request -> Cart \cup {<<>>}]
    /\ code \in [Request -> PromoCode \cup {NoCode}]
    /\ picked \in [Request -> SUBSET (Nat \X Ticket)]
    /\ quoted \in [Request -> [Ticket -> Nat]]
    /\ edit \in [Edit -> [ticket : Ticket, dto : EditDto] \cup {Undefined}]
    /\ batch \in [Batch -> [dto : BatchDto, left : Nat \ {0}] \cup {Undefined}]
    /\ clobbered \in SUBSET Ticket
    /\ raced \in SUBSET Ticket

TypeOK == RowsTypeOK /\ totalAmount \in [Request -> Nat]

-----------------------------------------------------------------------------
(* Operators over the current state *)

Exists(t) == ticket[t].status \in TicketStatus

TicketsIn(entries) == {e[2] : e \in entries}

LineTickets(entries, i) == {t \in Ticket : <<i, t>> \in entries}

\* ticketIdsToReserve as a set: the array holds one id per entry of picked[r].
Ids(r) == TicketsIn(picked[r])

\* Row locks an order transaction holds between updateMany and its end.
HoldsLocks(r) == pc[r] \in {"reserved", "priced"}
Locked(t) == \E r \in Request : HoldsLocks(r) /\ t \in Ids(r)

\* Tickets some order_items row references (foreign key, ON DELETE RESTRICT).
Referenced(t) == \E r \in Request : order[r] # NoOrder /\ t \in TicketsIn(order[r].items)

\* Every transaction holds one connection of the pool from begin to end.
FreeConnection == Cardinality({r \in Request : pc[r] \in InTransaction}) < PoolSize

Available(title) ==
    {t \in Ticket : ticket[t].status = "AVAILABLE" /\ ticket[t].title = title}

\* findMany({where, take: limit, orderBy: price asc}); ties in any order.
FindAll(title, limit) ==
    {S \in kSubset(limit, Available(title)) :
        \A t \in S, u \in Available(title) \ S : ticket[t].price <= ticket[u].price}

\* finalPrice: price * (1 - discount), rounded half up to cents.
FinalPrice(price, discount) == (price * (10000 - discount) + 5000) \div 10000

DiscountOf(promo) == IF promo = NoCode THEN 0 ELSE Discount[promo]

TotalAmount(entries, prices, promo) ==
    SumFunction([e \in entries |-> FinalPrice(prices[e[2]], DiscountOf(promo))])

-----------------------------------------------------------------------------
(* POST /orders: OrdersService.create *)

Submit(r) ==
    /\ pc[r] = "idle"
    /\ pc' = [pc EXCEPT ![r] = "waiting"]
    /\ \E c \in Cart : cart' = [cart EXCEPT ![r] = c]
    /\ \E p \in PromoCode \cup {NoCode} : code' = [code EXCEPT ![r] = p]
    /\ UNCHANGED <<dbVars, picked, quoted, organiserVars>>

\* The exception that leaves $transaction rolls it back: its locks and writes go.
Reject(r) ==
    /\ pc' = [pc EXCEPT ![r] = "rejected"]
    /\ picked' = [picked EXCEPT ![r] = {}]
    /\ quoted' = [quoted EXCEPT ![r] = NoPrices]
    /\ UNCHANGED <<dbVars, cart, code, organiserVars>>

\* What the loop over dto.items may select in the snapshot: for each line, as
\* many tickets as it asks for.  Two lines may name the same title.
Selection(r) ==
    LET lines == DOMAIN cart[r] IN
    {entries \in SUBSET (lines \X Ticket) :
        \A i \in lines : LineTickets(entries, i)
                            \in FindAll(cart[r][i].title, cart[r][i].quantity)}

\* The transaction gets a connection and its loop of findAllTickets reads the
\* snapshot; the rows it returns, prices included, are all it will ever read.
SelectTickets(r) ==
    /\ pc[r] = "waiting"
    /\ FreeConnection
    /\ \E entries \in Selection(r) :
        /\ picked' = [picked EXCEPT ![r] = entries]
        /\ quoted' = [quoted EXCEPT ![r] =
                        [t \in Ticket |-> IF t \in TicketsIn(entries)
                                          THEN ticket[t].price ELSE 0]]
    /\ pc' = [pc EXCEPT ![r] = "selected"]
    /\ UNCHANGED <<dbVars, cart, code, organiserVars>>

\* total < quantity for some line: BadRequestException.
NotEnoughTickets(r) ==
    /\ pc[r] = "waiting"
    /\ FreeConnection
    /\ \E i \in DOMAIN cart[r] :
        Cardinality(Available(cart[r][i].title)) < cart[r][i].quantity
    /\ Reject(r)

Reservable_IdsOnly(r) == Ids(r)

\* The rows updateMany({id in ids, status: AVAILABLE}) changes.
Reservable(r) == {t \in Ids(r) : ticket[t].status = "AVAILABLE"}

ReservedAll_Unchecked(r) == Reservable(r) # {}

\* updateResult.count === ticketIdsToReserve.length
ReservedAll(r) == Cardinality(Reservable(r)) = Cardinality(picked[r])

ReserveTickets_OutsideTx(r) ==
    /\ pc[r] = "selected"
    /\ \A t \in Ids(r) : ~Locked(t)
    /\ ReservedAll(r)
    /\ pc' = [pc EXCEPT ![r] = "reserved"]
    /\ ticket' = [t \in Ticket |-> IF t \in Ids(r)
                                   THEN [ticket[t] EXCEPT !.status = "RESERVED"]
                                   ELSE ticket[t]]
    /\ UNCHANGED <<order, totalAmount, promoActive, cart, code, picked, quoted, organiserVars>>

\* updateMany waits for the row locks, then locks and updates.
ReserveTickets(r) ==
    /\ pc[r] = "selected"
    /\ \A t \in Ids(r) : ~Locked(t)
    /\ ReservedAll(r)
    /\ pc' = [pc EXCEPT ![r] = "reserved"]
    /\ UNCHANGED <<dbVars, cart, code, picked, quoted, organiserVars>>

ReserveConflict(r) ==
    /\ pc[r] = "selected"
    /\ \A t \in Ids(r) : ~Locked(t)
    /\ ~ReservedAll(r)
    /\ Reject(r)

\* validatePromoCode reads on another connection of the pool, outside the
\* transaction: it sees the committed isActive of this moment.
ApplyPromoCode(r) ==
    /\ pc[r] = "reserved"
    /\ code[r] # NoCode => FreeConnection /\ code[r] \in promoActive
    /\ pc' = [pc EXCEPT ![r] = "priced"]
    /\ UNCHANGED <<dbVars, cart, code, picked, quoted, organiserVars>>

\* No such code, or it is inactive: NotFound or UnprocessableEntity.
PromoCodeRefused(r) ==
    /\ pc[r] = "reserved"
    /\ code[r] # NoCode
    /\ FreeConnection
    /\ code[r] \notin promoActive
    /\ Reject(r)

\* The order_items rows the transaction inserts.
NewOrder(r) == [items |-> picked[r], price |-> quoted[r], promo |-> code[r]]

NewTotal_FullPrice(r) == TotalAmount(picked[r], quoted[r], NoCode)

NewTotal(r) == TotalAmount(picked[r], quoted[r], code[r])

\* ordersRepository.create, orderItemsRepository.createMany and the commit,
\* which also publishes the RESERVED statuses.
Commit(r) ==
    /\ pc[r] = "priced"
    /\ order' = [order EXCEPT ![r] = NewOrder(r)]
    /\ totalAmount' = [totalAmount EXCEPT ![r] = NewTotal(r)]
    /\ ticket' = [t \in Ticket |-> IF t \in Ids(r)
                                   THEN [ticket[t] EXCEPT !.status = "RESERVED"]
                                   ELSE ticket[t]]
    /\ pc' = [pc EXCEPT ![r] = "committed"]
    /\ picked' = [picked EXCEPT ![r] = {}]
    /\ quoted' = [quoted EXCEPT ![r] = NoPrices]
    /\ UNCHANGED <<promoActive, cart, code, organiserVars>>

\* eventEmitter.emit('order.created') and the 201 answer, after the commit.
Announce(r) ==
    /\ pc[r] = "committed"
    /\ pc' = [pc EXCEPT ![r] = "announced"]
    /\ UNCHANGED <<dbVars, cart, code, picked, quoted, organiserVars>>

Timeout_NoneWhileReserved(r) ==
    /\ pc[r] \in {"waiting", "selected", "priced"}
    /\ Reject(r)

\* maxWait, the 10 s transaction timeout, the pool timeout, a lock wait timeout
\* or any other database error before the commit.
Timeout(r) ==
    /\ pc[r] \in {"waiting"} \cup InTransaction
    /\ Reject(r)

\* The process dies or the connection breaks between the commit and the emit:
\* the order exists, nobody is told.
LoseAnswer(r) ==
    /\ pc[r] = "committed"
    /\ pc' = [pc EXCEPT ![r] = "lost"]
    /\ UNCHANGED <<dbVars, cart, code, picked, quoted, organiserVars>>

-----------------------------------------------------------------------------
(* PATCH /tickets/:id, DELETE /tickets/:id: TicketsService *)

\* The check of updateTicket.
EditAllowed(t) == ticket[t].status \notin {"SOLD", "RESERVED"}

\* findOneTicket and the status check; 404 and 400 change nothing.
UpdateTicketRead(e, t, dto) ==
    /\ edit[e] = Undefined
    /\ Exists(t)
    /\ EditAllowed(t)
    /\ edit' = [edit EXCEPT ![e] = [ticket |-> t, dto |-> dto]]
    /\ UNCHANGED <<dbVars, txVars, batch, clobbered, raced>>

\* The fields the body has replace those of the row; Prisma skips undefined.
Updated(row, dto) ==
    [status |-> IF dto.status = Undefined THEN row.status ELSE dto.status,
     title  |-> IF dto.title  = Undefined THEN row.title  ELSE dto.title,
     price  |-> IF dto.price  = Undefined THEN row.price  ELSE dto.price]

\* Some order has selected the ticket or owns it.
Chosen(t) == Referenced(t) \/ \E r \in Request : t \in Ids(r)

\* ticketsRepository.update({where: {id}}): unconditional, after the row lock.
UpdateTicketWrite(e) ==
    /\ edit[e] # Undefined
    /\ LET t   == edit[e].ticket
           dto == edit[e].dto
       IN  /\ Exists(t)
           /\ ~Locked(t)
           /\ ticket' = [ticket EXCEPT ![t] = Updated(ticket[t], dto)]
           /\ clobbered' = IF dto.status # Undefined /\ ~EditAllowed(t)
                           THEN clobbered \cup {t} ELSE clobbered
           /\ raced' = IF (dto.title # Undefined \/ dto.price # Undefined) /\ Chosen(t)
                       THEN raced \cup {t} ELSE raced
    /\ edit' = [edit EXCEPT ![e] = Undefined]
    /\ UNCHANGED <<order, totalAmount, promoActive, txVars, batch>>

\* The row is gone (P2025), a lock wait timed out or the process died.
UpdateTicketFails(e) ==
    /\ edit[e] # Undefined
    /\ edit' = [edit EXCEPT ![e] = Undefined]
    /\ UNCHANGED <<dbVars, txVars, batch, clobbered, raced>>

\* findOneTicket, then delete by id; the foreign key of order_items refuses to
\* delete a ticket that was ordered.
DeleteTicket(t) ==
    /\ Exists(t)
    /\ ~Locked(t)
    /\ ~Referenced(t)
    /\ ticket' = [ticket EXCEPT ![t].status = "DELETED"]
    /\ UNCHANGED <<order, totalAmount, promoActive, txVars, organiserVars>>

-----------------------------------------------------------------------------
(* POST /events/:id/tickets: TicketsService.createTickets *)

SameTitle(title) == {t \in Ticket : Exists(t) /\ ticket[t].title = title}

\* The tickets of this title all cost the same, and not what the body says.
PriceConflict(dto) ==
    /\ SameTitle(dto.title) # {}
    /\ \A t, u \in SameTitle(dto.title) : ticket[t].price = ticket[u].price
    /\ \E t \in SameTitle(dto.title) : ticket[t].price # dto.price

\* The price check; the event exists in this module.
CreateTickets(b, dto) ==
    /\ batch[b] = Undefined
    /\ ~PriceConflict(dto)
    /\ batch' = [batch EXCEPT ![b] = [dto |-> dto, left |-> dto.quantity]]
    /\ UNCHANGED <<dbVars, txVars, edit, clobbered, raced>>

NewTicketStatus_NoDefault(dto) == dto.status

NewTicketStatus(dto) == IF dto.status = Undefined THEN "UNAVAILABLE" ELSE dto.status

\* One iteration: createTicket inserts one row, in a statement of its own.
CreateTicket(b, t) ==
    /\ batch[b] # Undefined
    /\ ticket[t].status = "ABSENT"
    /\ LET dto == batch[b].dto IN
       ticket' = [ticket EXCEPT ![t] = [status |-> NewTicketStatus(dto),
                                        title  |-> dto.title,
                                        price  |-> dto.price]]
    /\ batch' = [batch EXCEPT ![b] =
                    IF batch[b].left = 1 THEN Undefined
                    ELSE [batch[b] EXCEPT !.left = @ - 1]]
    /\ UNCHANGED <<order, totalAmount, promoActive, txVars, edit, clobbered, raced>>

\* The random ticket number is taken (409), or the process died: the rows the
\* loop has inserted stay.
CreateTicketFails(b) ==
    /\ batch[b] # Undefined
    /\ batch' = [batch EXCEPT ![b] = Undefined]
    /\ UNCHANGED <<dbVars, txVars, edit, clobbered, raced>>

\* PATCH /promo-codes/:id with isActive.
UpdatePromoCode(p) ==
    /\ promoActive' = (promoActive \ {p}) \cup ({p} \ promoActive)
    /\ UNCHANGED <<ticket, order, totalAmount, txVars, organiserVars>>

-----------------------------------------------------------------------------

\* No order and no call in progress; any rows the organiser may have created.
Init ==
    /\ ticket \in [Ticket -> [status : {"AVAILABLE", "UNAVAILABLE", "ABSENT"},
                              title : Title, price : Price]]
    /\ order = [r \in Request |-> NoOrder]
    /\ totalAmount = [r \in Request |-> 0]
    /\ promoActive \in SUBSET PromoCode
    /\ pc = [r \in Request |-> "idle"]
    /\ cart = [r \in Request |-> <<>>]
    /\ code = [r \in Request |-> NoCode]
    /\ picked = [r \in Request |-> {}]
    /\ quoted = [r \in Request |-> NoPrices]
    /\ edit = [e \in Edit |-> Undefined]
    /\ batch = [b \in Batch |-> Undefined]
    /\ clobbered = {}
    /\ raced = {}

\* The steps of a call that the server takes by itself once it has arrived.
OrderHandler(r) ==
    \/ SelectTickets(r)
    \/ NotEnoughTickets(r)
    \/ ReserveTickets(r)
    \/ ReserveConflict(r)
    \/ ApplyPromoCode(r)
    \/ PromoCodeRefused(r)
    \/ Commit(r)
    \/ Announce(r)
    \/ Timeout(r)

EditHandler(e) ==
    \/ \E t \in Ticket, dto \in EditDto : UpdateTicketRead(e, t, dto)
    \/ UpdateTicketWrite(e)
    \/ UpdateTicketFails(e)

BatchHandler(b) ==
    \/ \E dto \in BatchDto : CreateTickets(b, dto)
    \/ \E t \in Ticket : CreateTicket(b, t)
    \/ CreateTicketFails(b)

Next ==
    \/ \E r \in Request : Submit(r) \/ OrderHandler(r) \/ LoseAnswer(r)
    \/ \E e \in Edit : EditHandler(e)
    \/ \E b \in Batch : BatchHandler(b)
    \/ \E t \in Ticket : DeleteTicket(t)
    \/ \E p \in PromoCode : UpdatePromoCode(p)

Spec == Init /\ [][Next]_vars

\* A call that has arrived is answered: node runs every continuation and the
\* database and Prisma bound every wait.  Nothing is assumed of clients, of the
\* organiser, nor that the process survives (LoseAnswer is not a handler step).
FairSpec == Spec /\ \A r \in Request : WF_vars(OrderHandler(r))

-----------------------------------------------------------------------------
(* Properties *)

OrderTickets(r) == TicketsIn(order[r].items)

\* No ticket is in two orders, unless an edit that had read the ticket before it
\* was reserved wrote its status afterwards (updateTicket checks, then writes).
NoDoubleBooking ==
    \A r, s \in Request :
        r # s /\ order[r] # NoOrder /\ order[s] # NoOrder
            => OrderTickets(r) \cap OrderTickets(s) \subseteq clobbered

\* An order has, for every line of its cart, as many tickets as the line asks
\* for, and no ticket twice: the unique (orderId, ticketId) of order_items is
\* never what stops an order whose lines repeat a title; the count check is.
OrderDeliversCart ==
    \A r \in Request : order[r] # NoOrder =>
        /\ \A i \in DOMAIN cart[r] :
              Cardinality(LineTickets(order[r].items, i)) = cart[r][i].quantity
        /\ Cardinality(OrderTickets(r)) = Cardinality(order[r].items)

\* What an order costs is what its tickets cost, less the discount of its code,
\* and its tickets have the titles it asked for, unless an edit of one of them
\* overtook the order between its snapshot and its end.
ChargeMatchesListing ==
    \A r \in Request : order[r] # NoOrder /\ OrderTickets(r) \cap raced = {} =>
        /\ \A e \in order[r].items : ticket[e[2]].title = cart[r][e[1]].title
        /\ totalAmount[r] = TotalAmount(order[r].items,
                                        [t \in Ticket |-> ticket[t].price],
                                        order[r].promo)

\* A RESERVED ticket belongs to an order: an order that fails after updateMany,
\* for its promo code, a timeout or a crash, leaves no ticket reserved.  (When
\* no body sets RESERVED by hand.)
NoOrphanReservation ==
    (\A dto \in EditDto \cup BatchDto : dto.status # "RESERVED") =>
        \A t \in Ticket : ticket[t].status = "RESERVED" => Referenced(t)

\* Every order call gets an answer, also when all the connections of the pool
\* are held by transactions that wait for one more to read the promo code.
RequestsAnswered ==
    \A r \in Request : pc[r] = "waiting" ~> pc[r] \in Answered

\* "Sold or reserved tickets cannot be updated" (tickets.service.ts:161).
ReservedTicketsNotUpdated ==
    [][\A t \in Ticket : ticket[t].status \in {"SOLD", "RESERVED"} =>
            \/ ticket'[t] = ticket[t]
            \/ ticket'[t].status = "DELETED"]_vars

-----------------------------------------------------------------------------
(* Why NoDoubleBooking holds: the inductive invariant *)

\* Entries that are what the request's cart asks for.
FitsCart(r, entries) ==
    /\ entries \subseteq (DOMAIN cart[r]) \X Ticket
    /\ \A i \in DOMAIN cart[r] :
          Cardinality(LineTickets(entries, i)) = cart[r][i].quantity

\* Only a transaction in progress has selected anything; a call has a cart.
SelectionInv ==
    \A r \in Request :
        /\ IF pc[r] \in InTransaction THEN FitsCart(r, picked[r]) ELSE picked[r] = {}
        /\ pc[r] # "idle" => cart[r] \in Cart

\* Since updateMany counted as many rows as there are ids: no id repeats, every
\* ticket was AVAILABLE, and it stays so while the lock is held.
LockInv ==
    \A r \in Request : HoldsLocks(r) =>
        /\ \A t \in Ids(r) : ticket[t].status = "AVAILABLE"
        /\ Cardinality(Ids(r)) = Cardinality(picked[r])

LocksExclusive ==
    \A r, s \in Request : r # s /\ HoldsLocks(r) /\ HoldsLocks(s) => Ids(r) \cap Ids(s) = {}

OrderInv ==
    \A r \in Request :
        /\ order[r] # NoOrder <=> pc[r] \in Ordered
        /\ order[r] # NoOrder =>
              /\ FitsCart(r, order[r].items)
              /\ Cardinality(OrderTickets(r)) = Cardinality(order[r].items)

\* A ticket that was ordered still exists and is RESERVED, unless clobbered.
OwnedInv ==
    \A r \in Request : order[r] # NoOrder =>
        \A t \in OrderTickets(r) :
            /\ Exists(t)
            /\ t \notin clobbered => ticket[t].status = "RESERVED"

\* A ticket is still called and priced as when it was selected, unless raced.
AsListed(r, entries, prices) ==
    \A e \in entries : e[2] \notin raced =>
        /\ ticket[e[2]].title = cart[r][e[1]].title
        /\ ticket[e[2]].price = prices[e[2]]

\* Why ChargeMatchesListing holds: what was selected was there, an order keeps
\* the prices its transaction read, and its total is made of them.
ListingInv ==
    \A r \in Request :
        /\ \A t \in Ids(r) : ticket[t].status # "ABSENT"
        /\ AsListed(r, picked[r], quoted[r])
        /\ order[r] # NoOrder =>
              /\ AsListed(r, order[r].items, order[r].price)
              /\ totalAmount[r] = TotalAmount(order[r].items, order[r].price, order[r].promo)

IInv == /\ RowsTypeOK
        /\ SelectionInv
        /\ LockInv
        /\ LocksExclusive
        /\ OrderInv
        /\ OwnedInv
        /\ NoDoubleBooking

-----------------------------------------------------------------------------
(* Refinement *)

Sale == INSTANCE TicketSale WITH
            onSale <- {t \in Ticket : ticket[t].status = "AVAILABLE"},
            soldTo <- [r \in Request |-> IF order[r] = NoOrder THEN {}
                                        ELSE OrderTickets(r)]

\* No body of an edit puts a ticket back on sale.
NoReopening == \A dto \in EditDto : dto.status # "AVAILABLE"

\* The snapshot reads, the locks, the conditional update and the count check
\* make the concurrent transactions sell tickets as one atomic step would, as
\* long as NoReopening holds.
ImplementsTicketSale == Sale!SaleSpec
=============================================================================
