------------------------------ MODULE Payment ------------------------------
(***************************************************************************)
(* The payment of one order: OrdersService.getOrder, which copies the      *)
(* state of the order's Stripe PaymentIntent into the order row and, the   *)
(* first time it finds it paid, issues the invoice, the ticket files and   *)
(* the confirmation mail; and StripeService.createPaymentIntent, which     *)
(* gives the order the intent the customer pays.  There is no webhook:     *)
(* nothing but a getOrder call learns that a payment happened.             *)
(*                                                                         *)
(* Each call of Sync and Pay happens once.  A uuid, an invoice id and an   *)
(* intent id are never issued twice, so each is named by the call that     *)
(* issues it.  Orders share no payment state: one order is enough.         *)
(***************************************************************************)
EXTENDS Naturals, FiniteSets

CONSTANTS
    Sync,     \* GET /orders/:id calls (also one per order of GET /users/:id/orders)
    Pay,      \* POST /payments/stripe/payment-intents calls for the order
    Item,     \* the order's order_items rows
    None      \* null in a column; no status computed yet

PaymentStatus == {"PENDING", "PAID", "FAILED", "REFUNDED"}
IntentStatus == {"absent", "requires_payment_method", "processing", "succeeded", "canceled"}

Call == Sync \cup Pay

ASSUME CallAssumption ==
    /\ Sync \cap Pay = {}
    /\ None \notin Call
    /\ None \notin PaymentStatus

VARIABLES
    paymentStatus,    \* the order row, committed
    paymentIntentId,
    invoiceId,
    ticketFileKey,    \* of each order item
    ticketStatus,     \* of each item's ticket
    intent,           \* Stripe: the status of each intent
    refunded,         \* Stripe: intents with a succeeded refund of the full amount
    invoices,         \* Stripe: invoices finalized for the order
    handed,           \* intents whose client secret some answer carried
    mailed,           \* <<item, key>> links given to the confirmation mail
    pc,               \* where each call is
    seen,             \* the order row each call has read
    newStatus,        \* of a Sync call
    todo,             \* items its loop has still to generate
    links,            \* generatedTicketsInfo
    found,            \* the intent a Pay call's search returned
    recorded,         \* calls whose transaction has updated invoiceId
    expired,          \* Sync calls whose transaction has been rolled back under them
    invoiceFailed,    \* history: Sync calls that swallowed an invoiceError
    overtaken,        \* history: calls in progress when another one wrote the row
    lostUpdate        \* history: an overtaken call has written the row

row       == <<paymentStatus, paymentIntentId, invoiceId>>
stripe    == <<intent, refunded, invoices>>
effects   == <<ticketFileKey, ticketStatus, handed, mailed>>
syncLocal == <<newStatus, todo, links, recorded, expired, invoiceFailed>>
history   == <<overtaken, lostUpdate>>
vars == <<row, stripe, effects, pc, seen, syncLocal, found, history>>

TransactionStage == {"invoicing", "recording", "reading", "generating", "committing"}
SyncStage == {"retrieving", "updating"} \cup TransactionStage
PayStage  == {"reusing", "searching", "linking", "resetting", "creating", "naming"}
Over      == {"done", "refused"}

Snapshot == [paymentStatus : PaymentStatus, paymentIntentId : Pay \cup {None}]

TypeOK ==
    /\ paymentStatus \in PaymentStatus
    /\ paymentIntentId \in Pay \cup {None}
    /\ invoiceId \in Sync \cup {None}
    /\ ticketFileKey \in [Item -> Sync \cup {None}]
    /\ ticketStatus \in [Item -> {"RESERVED", "SOLD", "AVAILABLE"}]
    /\ intent \in [Pay -> IntentStatus]
    /\ refunded \in SUBSET Pay
    /\ invoices \in SUBSET Sync
    /\ handed \in SUBSET Pay
    /\ mailed \in SUBSET (Item \X Sync)
    /\ pc \in [Call -> {"idle"} \cup SyncStage \cup PayStage \cup Over]
    /\ seen \in [Call -> Snapshot \cup {None}]
    /\ newStatus \in [Sync -> PaymentStatus \cup {None}]
    /\ todo \in [Sync -> SUBSET Item]
    /\ links \in [Sync -> SUBSET Item]
    /\ found \in [Pay -> Pay \cup {None}]
    /\ recorded \in SUBSET Sync
    /\ expired \in SUBSET Sync
    /\ invoiceFailed \in SUBSET Sync
    /\ overtaken \in SUBSET Call
    /\ lostUpdate \in BOOLEAN

-----------------------------------------------------------------------------
(* Operators over the current state *)

\* The call's transaction is open and has updated, hence locked, the order row.
InTransaction(s) == pc[s] \in TransactionStage /\ s \notin expired
RowUnlocked == \A s \in Sync : ~InTransaction(s)

Created == {i \in Pay : intent[i] # "absent"}
Open(i) == intent[i] \in {"requires_payment_method", "processing"}

Goto(c, stage) == pc' = [pc EXCEPT ![c] = stage]

\* Call c makes a write of its own to the order row visible.
Overtake(c) ==
    /\ overtaken' = overtaken \cup {d \in Call \ {c} : pc[d] \notin {"idle"} \cup Over}
    /\ lostUpdate' = (lostUpdate \/ c \in overtaken)

\* What orderWithDetailsSelect selects.  updateOrderPaymentStatus also reads
\* `items` and `invoiceId` of the row it gets: both are undefined.
SelectedFields == {"id", "userId", "paymentIntentId", "paymentStatus", "orderItems"}
ItemsOf == IF "items" \in SelectedFields THEN Item ELSE {}

ReadRow(c) ==
    seen' = [seen EXCEPT ![c] = [paymentStatus   |-> paymentStatus,
                                 paymentIntentId |-> paymentIntentId]]

StatusOf_ProcessingIsPaid(i) ==
    IF i \in refunded THEN "REFUNDED"
    ELSE CASE intent[i] \in {"succeeded", "processing"} -> "PAID"
           [] intent[i] = "requires_payment_method"     -> "PENDING"
           [] OTHER                                     -> "FAILED"

StatusOf_Copied(i) == IF i \in refunded THEN "REFUNDED" ELSE intent[i]

\* newStatus, from the intent and its refunds.
StatusOf(i) ==
    IF i \in refunded THEN "REFUNDED"
    ELSE CASE intent[i] = "succeeded" -> "PAID"
           [] Open(i)                 -> "PENDING"
           [] OTHER                   -> "FAILED"

\* updateTicketStatus(ticketIds of order.items, ..., RESERVED).
TicketsAfter(status) ==
    [i \in Item |->
        IF i \notin ItemsOf \/ ticketStatus[i] # "RESERVED" THEN ticketStatus[i]
        ELSE CASE status = "PAID"                   -> "SOLD"
               [] status \in {"FAILED", "REFUNDED"} -> "AVAILABLE"
               [] OTHER                             -> ticketStatus[i]]

-----------------------------------------------------------------------------
(* getOrder and updateOrderPaymentStatus *)

\* findById; an order without an intent, or refunded, is returned as it is.
GetOrder(s) ==
    /\ pc[s] = "idle"
    /\ ReadRow(s)
    /\ Goto(s, IF paymentIntentId = None \/ paymentStatus = "REFUNDED"
               THEN "done" ELSE "retrieving")
    /\ UNCHANGED <<row, stripe, effects, syncLocal, found, history>>

RetrieveIntent_EveryTime(s) ==
    /\ pc[s] = "retrieving"
    /\ newStatus' = [newStatus EXCEPT ![s] = StatusOf(seen[s].paymentIntentId)]
    /\ Goto(s, "updating")
    /\ UNCHANGED <<row, stripe, effects, seen, todo, links, recorded, expired, invoiceFailed, found, history>>

\* paymentIntents.retrieve and refunds.list: what the two answers together say
\* is what Stripe held at one of the two moments.
RetrieveIntent(s) ==
    /\ pc[s] = "retrieving"
    /\ LET status == StatusOf(seen[s].paymentIntentId) IN
        /\ newStatus' = [newStatus EXCEPT ![s] = status]
        /\ Goto(s, IF status = seen[s].paymentStatus THEN "done" ELSE "updating")
    /\ UNCHANGED <<row, stripe, effects, seen, todo, links, recorded, expired, invoiceFailed, found, history>>

UpdateStatus_NoLock(s) ==
    /\ pc[s] = "updating"
    /\ Goto(s, IF newStatus[s] = "PAID" THEN "invoicing" ELSE "committing")
    /\ UNCHANGED <<row, stripe, effects, seen, syncLocal, found, history>>

\* The transaction's update waits for the row lock and takes it.  The guard
\* `!order.invoiceId` of the invoice block is always true: see SelectedFields.
UpdateStatus(s) ==
    /\ pc[s] = "updating"
    /\ RowUnlocked
    /\ Goto(s, IF newStatus[s] = "PAID" THEN "invoicing" ELSE "committing")
    /\ UNCHANGED <<row, stripe, effects, seen, syncLocal, found, history>>

\* findUserById, the customer, invoices.create and finalizeInvoice.
CreateInvoice(s) ==
    /\ pc[s] = "invoicing"
    /\ invoices' = invoices \cup {s}
    /\ Goto(s, "recording")
    /\ UNCHANGED <<row, intent, refunded, effects, seen, syncLocal, found, history>>

\* The update of invoiceId needs the transaction to be open still.
RecordInvoice(s) ==
    /\ pc[s] = "recording"
    /\ s \notin expired
    /\ recorded' = recorded \cup {s}
    /\ Goto(s, "reading")
    /\ UNCHANGED <<row, stripe, effects, seen, newStatus, todo, links, expired, invoiceFailed,
                   found, history>>

\* findById outside the transaction; items that have a key are skipped.
ReadItems(s) ==
    /\ pc[s] = "reading"
    /\ todo' = [todo EXCEPT ![s] = {i \in Item : ticketFileKey[i] = None}]
    /\ Goto(s, "generating")
    /\ UNCHANGED <<row, stripe, effects, seen, newStatus, links, recorded, expired,
                   invoiceFailed, found, history>>

\* generateTicket and the update of the item, which `tx`, undefined, leaves
\* outside the transaction.
GenerateTicket(s, i) ==
    /\ pc[s] = "generating"
    /\ i \in todo[s]
    /\ ticketFileKey' = [ticketFileKey EXCEPT ![i] = s]
    /\ todo'  = [todo  EXCEPT ![s] = @ \ {i}]
    /\ links' = [links EXCEPT ![s] = @ \cup {i}]
    /\ UNCHANGED <<row, stripe, ticketStatus, handed, mailed, pc, seen, newStatus, recorded, expired,
                   invoiceFailed, found, history>>

SendTickets_AfterFirst(s) ==
    /\ pc[s] = "generating"
    /\ links[s] # {} \/ todo[s] = {}
    /\ mailed' = mailed \cup (links[s] \X {s})
    /\ Goto(s, "committing")
    /\ UNCHANGED <<row, stripe, ticketFileKey, ticketStatus, handed, seen, syncLocal, found, history>>

\* sendTicketConfirmationEmail, not awaited, and sendInvoice.
SendTickets(s) ==
    /\ pc[s] = "generating"
    /\ todo[s] = {}
    /\ mailed' = mailed \cup (links[s] \X {s})
    /\ Goto(s, "committing")
    /\ UNCHANGED <<row, stripe, ticketFileKey, ticketStatus, handed, seen, syncLocal, found, history>>

\* Any exception of the invoice block is logged and forgotten.
InvoiceError(s) ==
    /\ pc[s] \in TransactionStage \ {"committing"}
    /\ invoiceFailed' = invoiceFailed \cup {s}
    /\ Goto(s, "committing")
    /\ UNCHANGED <<row, stripe, effects, seen, newStatus, todo, links, recorded, expired, found, history>>

CommitStatus(s) ==
    /\ pc[s] = "committing"
    /\ s \notin expired
    /\ paymentStatus' = newStatus[s]
    /\ invoiceId' = IF s \in recorded THEN s ELSE invoiceId
    /\ ticketStatus' = TicketsAfter(newStatus[s])
    /\ Overtake(s)
    /\ Goto(s, "done")
    /\ UNCHANGED <<paymentIntentId, stripe, ticketFileKey, handed, mailed, seen, syncLocal, found>>

\* The 10 s of the transaction are over, or its connection is lost: status and
\* invoiceId are rolled back, the callback runs on without noticing.
Expire(s) ==
    /\ InTransaction(s)
    /\ expired' = expired \cup {s}
    /\ UNCHANGED <<row, stripe, effects, pc, seen, newStatus, todo, links, recorded,
                   invoiceFailed, found, history>>

\* The catch around everything returns the order as it was read: a Stripe error,
\* a lock wait or a commit that fails.
SyncFails(s) ==
    /\ \/ pc[s] \in {"retrieving", "updating"}
       \/ pc[s] = "committing" /\ s \in expired
    /\ Goto(s, "done")
    /\ UNCHANGED <<row, stripe, effects, seen, syncLocal, found, history>>

-----------------------------------------------------------------------------
(* createPaymentIntent *)

PayRead_PaidOnly(p) ==
    /\ pc[p] = "idle"
    /\ ReadRow(p)
    /\ Goto(p, CASE paymentStatus = "PAID" -> "refused"
                 [] paymentStatus # "PAID" /\ paymentIntentId # None -> "reusing"
                 [] OTHER -> "searching")
    /\ UNCHANGED <<row, stripe, effects, syncLocal, found, history>>

\* findById and the check of paymentStatus: 400 when PAID or REFUNDED.
PayRead(p) ==
    /\ pc[p] = "idle"
    /\ ReadRow(p)
    /\ Goto(p, IF paymentStatus \in {"PAID", "REFUNDED"} THEN "refused"
               ELSE IF paymentIntentId # None THEN "reusing" ELSE "searching")
    /\ UNCHANGED <<row, stripe, effects, syncLocal, found, history>>

\* The order's intent is open: its secret is the answer.
ReuseIntent(p) ==
    /\ pc[p] = "reusing"
    /\ Open(seen[p].paymentIntentId)
    /\ handed' = handed \cup {seen[p].paymentIntentId}
    /\ Goto(p, "done")
    /\ UNCHANGED <<row, stripe, ticketFileKey, ticketStatus, mailed, seen, syncLocal, found, history>>

\* It is closed, or Stripe fails; the catch ignores it.
ReuseFails(p) ==
    /\ pc[p] = "reusing"
    /\ Goto(p, "searching")
    /\ UNCHANGED <<row, stripe, effects, seen, syncLocal, found, history>>

\* paymentIntents.search is eventually consistent and limited to one result:
\* any intent of the order may be it.  An open one is updated and kept.
SearchIntents(p) ==
    /\ pc[p] = "searching"
    /\ \E i \in Created :
        /\ Open(i)
        /\ found' = [found EXCEPT ![p] = i]
    /\ Goto(p, "linking")
    /\ UNCHANGED <<row, stripe, effects, seen, syncLocal, history>>

LinkIntent(p) ==
    /\ pc[p] = "linking"
    /\ RowUnlocked
    /\ paymentIntentId' = found[p]
    /\ paymentStatus' = "PENDING"
    /\ handed' = handed \cup {found[p]}
    /\ Overtake(p)
    /\ Goto(p, "done")
    /\ UNCHANGED <<invoiceId, stripe, ticketFileKey, ticketStatus, mailed, seen, syncLocal, found>>

\* Nothing indexed yet, a closed intent, or an error the second catch ignores.
SearchFails(p) ==
    /\ pc[p] \in {"searching", "linking"}
    /\ Goto(p, "resetting")
    /\ UNCHANGED <<row, stripe, effects, seen, syncLocal, found, history>>

\* The callback of $transaction ignores the transaction's client: each of its
\* two updates commits by itself and waits for the row lock like any other.
ResetStatus(p) ==
    /\ pc[p] = "resetting"
    /\ RowUnlocked
    /\ paymentStatus' = "PENDING"
    /\ Overtake(p)
    /\ Goto(p, "creating")
    /\ UNCHANGED <<paymentIntentId, invoiceId, stripe, effects, seen, syncLocal, found>>

CreateIntent_Answering(p) ==
    /\ pc[p] = "creating"
    /\ intent' = [intent EXCEPT ![p] = "requires_payment_method"]
    /\ handed' = handed \cup {p}
    /\ Goto(p, "naming")
    /\ UNCHANGED <<row, refunded, invoices, ticketFileKey, ticketStatus, mailed, seen, syncLocal,
                   found, history>>

CreateIntent(p) ==
    /\ pc[p] = "creating"
    /\ intent' = [intent EXCEPT ![p] = "requires_payment_method"]
    /\ Goto(p, "naming")
    /\ UNCHANGED <<row, refunded, invoices, effects, seen, syncLocal, found, history>>

\* The answer is lost when the transaction's 5 s had passed.
NameIntent(p) ==
    /\ pc[p] = "naming"
    /\ RowUnlocked
    /\ paymentIntentId' = p
    /\ handed' \in {handed, handed \cup {p}}
    /\ Overtake(p)
    /\ Goto(p, "done")
    /\ UNCHANGED <<paymentStatus, invoiceId, stripe, ticketFileKey, ticketStatus, mailed, seen,
                   syncLocal, found>>

\* An error of Stripe or of the database inside the callback: 500.
PayFails(p) ==
    /\ pc[p] \in {"resetting", "creating", "naming"}
    /\ Goto(p, "done")
    /\ UNCHANGED <<row, stripe, effects, seen, syncLocal, found, history>>

-----------------------------------------------------------------------------
(* Stripe, its dashboard, and the customer's browser with a client secret *)

Become(i, status) ==
    /\ intent' = [intent EXCEPT ![i] = status]
    /\ UNCHANGED <<row, refunded, invoices, effects, pc, seen, syncLocal, found, history>>

ConfirmPayment(i) == i \in handed /\ intent[i] = "requires_payment_method" /\ Become(i, "processing")
PaymentSucceeds(i) == intent[i] = "processing" /\ Become(i, "succeeded")
PaymentDeclined(i) == intent[i] = "processing" /\ Become(i, "requires_payment_method")
CancelIntent(i) == intent[i] = "requires_payment_method" /\ Become(i, "canceled")

RefundPayment(i) ==
    /\ intent[i] = "succeeded"
    /\ refunded' = refunded \cup {i}
    /\ UNCHANGED <<row, intent, invoices, effects, pc, seen, syncLocal, found, history>>

-----------------------------------------------------------------------------

\* An order just created: OrdersService.create and its reservation.
Init ==
    /\ paymentStatus = "PENDING"
    /\ paymentIntentId = None
    /\ invoiceId = None
    /\ ticketFileKey = [i \in Item |-> None]
    /\ ticketStatus = [i \in Item |-> "RESERVED"]
    /\ intent = [i \in Pay |-> "absent"]
    /\ refunded = {}
    /\ invoices = {}
    /\ handed = {}
    /\ mailed = {}
    /\ pc = [c \in Call |-> "idle"]
    /\ seen = [c \in Call |-> None]
    /\ newStatus = [s \in Sync |-> None]
    /\ todo = [s \in Sync |-> {}]
    /\ links = [s \in Sync |-> {}]
    /\ found = [p \in Pay |-> None]
    /\ recorded = {}
    /\ expired = {}
    /\ invoiceFailed = {}
    /\ overtaken = {}
    /\ lostUpdate = FALSE

SyncNext(s) ==
    \/ GetOrder(s)
    \/ RetrieveIntent(s)
    \/ UpdateStatus(s)
    \/ CreateInvoice(s)
    \/ RecordInvoice(s)
    \/ ReadItems(s)
    \/ \E i \in Item : GenerateTicket(s, i)
    \/ SendTickets(s)
    \/ InvoiceError(s)
    \/ CommitStatus(s)
    \/ Expire(s)
    \/ SyncFails(s)

PayNext(p) ==
    \/ PayRead(p)
    \/ ReuseIntent(p)
    \/ ReuseFails(p)
    \/ SearchIntents(p)
    \/ LinkIntent(p)
    \/ SearchFails(p)
    \/ ResetStatus(p)
    \/ CreateIntent(p)
    \/ NameIntent(p)
    \/ PayFails(p)

StripeNext(i) ==
    \/ ConfirmPayment(i)
    \/ PaymentSucceeds(i)
    \/ PaymentDeclined(i)
    \/ CancelIntent(i)
    \/ RefundPayment(i)

Next ==
    \/ \E s \in Sync : SyncNext(s)
    \/ \E p \in Pay : PayNext(p) \/ StripeNext(p)

Spec == Init /\ [][Next]_vars

-----------------------------------------------------------------------------
(* Properties *)

\* What the order row says was paid was paid, and what it says was refunded was
\* refunded, however stale the answer of Stripe was when it was written.
PaidForReal ==
    /\ paymentStatus = "PAID" => \E i \in Pay : intent[i] = "succeeded"
    /\ paymentStatus = "REFUNDED" => refunded # {}

\* A payment that is under way or made is one the order can learn of: the row names the intent
\* when it is the only one of the order, however its creation, its naming and the answer with
\* its secret were interleaved with other calls, or failed half-way.
PaymentOnRecord ==
    \A i \in Pay :
        /\ intent[i] \in {"processing", "succeeded"}
        /\ \A j \in Pay \ {i} : intent[j] = "absent"
        => paymentIntentId = i

\* Every link of a confirmation mail opens the file the item's key names: no
\* other call generates the item again, unless a transaction was rolled back
\* under the call that holds the order.
MailedLinksWork ==
    expired = {} => \A l \in mailed : ticketFileKey[l[1]] = l[2]

\* Keys are written outside the transaction that makes the order PAID, yet an
\* order that is PAID has all of them, unless an invoiceError was swallowed.
PaidOrderHasTickets ==
    paymentStatus = "PAID" /\ invoiceFailed = {} =>
        \A i \in Item : ticketFileKey[i] # None

SoundInvoices == invoices \ (expired \cup invoiceFailed \cup overtaken)

\* updateOrderPaymentStatus never sees the invoiceId it tests; what stops a
\* second invoice is that the status has changed.  It does, for calls that did
\* not overlap another write of the row, and did not fail half-way.
InvoicedOnce ==
    ~lostUpdate => Cardinality(SoundInvoices) <= 1

\* A paid order stays paid until it is refunded, and a refunded one refunded:
\* only a call that read the row before another one wrote it can undo that.
SettledStaysSettled ==
    [][~lostUpdate' =>
        /\ paymentStatus = "PAID" => paymentStatus' \in {"PAID", "REFUNDED"}
        /\ paymentStatus = "REFUNDED" => paymentStatus' = "REFUNDED"]_vars

\* "This order has already been paid or refunded" (stripe.controller.ts:36): a
\* call that finds the intent of the order already paid creates no other one.
NoSecondCharge ==
    [][\A p \in Pay : pc[p] = "creating" /\ intent'[p] # intent[p] =>
            LET i == seen[p].paymentIntentId
            IN  i # None => intent[i] # "succeeded"]_vars

\* The tickets of a paid order are SOLD (README.md:211, orders.service.ts:363).
PaidTicketsAreSold ==
    paymentStatus = "PAID" => \A i \in Item : ticketStatus[i] = "SOLD"

-----------------------------------------------------------------------------
(* Why they hold: the inductive invariant *)

LockInv == \A s, t \in Sync : InTransaction(s) /\ InTransaction(t) => s = t

\* What a Sync call knows at each stage.
SyncInv ==
    \A s \in Sync :
        /\ pc[s] \in {"idle", "done"} \cup SyncStage
        /\ pc[s] \in SyncStage =>
              /\ seen[s] \in Snapshot
              /\ seen[s].paymentIntentId # None
              /\ seen[s].paymentStatus # "REFUNDED"
        /\ pc[s] \in SyncStage \ {"retrieving"} =>
              newStatus[s] \in PaymentStatus \ {seen[s].paymentStatus}
        /\ pc[s] \in TransactionStage \ {"committing"} => newStatus[s] = "PAID"
        /\ pc[s] \in {"idle", "retrieving", "updating", "invoicing"} => s \notin invoices
        /\ s \in invoices => newStatus[s] = "PAID"
        /\ pc[s] \in {"idle", "retrieving", "updating", "invoicing", "recording", "reading"} =>
              links[s] = {}

\* What a Pay call knows; it has not created its intent before its last stage.
PayInv ==
    \A p \in Pay :
        /\ pc[p] \in {"idle"} \cup PayStage \cup Over
        /\ pc[p] \in PayStage =>
              /\ seen[p] \in Snapshot
              /\ seen[p].paymentStatus \notin {"PAID", "REFUNDED"}
        /\ pc[p] = "reusing" => seen[p].paymentIntentId # None
        /\ pc[p] = "linking" => found[p] # None
        /\ pc[p] \in ({"idle"} \cup PayStage) \ {"naming"} => intent[p] = "absent"

\* The intents the row, the calls and the customer know of exist, and the customer gets to know
\* one only when the row does.
IntentInv ==
    /\ paymentIntentId # None => intent[paymentIntentId] # "absent"
    /\ \A i \in handed : intent[i] # "absent"
    /\ handed # {} => paymentIntentId # None
    /\ \A i \in Pay : intent[i] \in {"processing", "succeeded"} => i \in handed
    /\ \A p \in Pay :
          /\ pc[p] = "reusing" =>
                paymentIntentId # None /\ intent[seen[p].paymentIntentId] # "absent"
          /\ pc[p] = "linking" => intent[found[p]] # "absent"
          /\ pc[p] = "naming" => intent[p] # "absent"

\* A payment or a refund that a call has found stays one.
AnswerInv ==
    \A s \in Sync : pc[s] \in SyncStage \ {"retrieving"} =>
        /\ newStatus[s] = "PAID" => intent[seen[s].paymentIntentId] = "succeeded"
        /\ newStatus[s] = "REFUNDED" => seen[s].paymentIntentId \in refunded

KeyInv ==
    \A s \in Sync :
        /\ pc[s] = "generating" =>
              \A i \in Item : i \in todo[s] \/ ticketFileKey[i] # None
        /\ pc[s] = "committing" /\ newStatus[s] = "PAID" /\ s \notin invoiceFailed =>
              \A i \in Item : ticketFileKey[i] # None

\* With the order row locked nobody else issues keys.
LinkInv ==
    expired = {} => \A s \in Sync : pc[s] = "generating" =>
        /\ \A i \in links[s] : ticketFileKey[i] = s
        /\ \A i \in todo[s] : ticketFileKey[i] = None

\* The snapshot of a call that was not overtaken is the row.
FreshInv ==
    \A c \in Call : pc[c] \in SyncStage \cup PayStage /\ c \notin overtaken =>
        /\ paymentIntentId = seen[c].paymentIntentId
        /\ paymentStatus = IF pc[c] \in {"creating", "naming"} THEN "PENDING"
                                                             ELSE seen[c].paymentStatus

SettledInv ==
    ~lostUpdate =>
        /\ paymentStatus = "PAID" =>
              paymentIntentId # None /\ intent[paymentIntentId] = "succeeded"
        /\ \A s \in Sync \ overtaken :
              pc[s] \in SyncStage \ {"retrieving"} /\ seen[s].paymentStatus = "PAID" =>
                  newStatus[s] = "REFUNDED"

InvoiceInv ==
    ~lostUpdate =>
        /\ \A s, t \in SoundInvoices : s = t
        /\ \A s \in SoundInvoices :
              \/ InTransaction(s)
              \/ pc[s] = "done" /\ paymentStatus \in {"PAID", "REFUNDED"}

IInv == /\ TypeOK
        /\ LockInv
        /\ SyncInv
        /\ PayInv
        /\ IntentInv
        /\ AnswerInv
        /\ PaidForReal
        /\ KeyInv
        /\ PaidOrderHasTickets
        /\ LinkInv
        /\ MailedLinksWork
        /\ FreshInv
        /\ SettledInv
        /\ InvoiceInv
=============================================================================
