--------------------------- MODULE Checkout_proofs ---------------------------
(***************************************************************************)
(* Proofs about Checkout, for any number of tickets, orders, edits and     *)
(* batches: its rows keep their types, no ticket is sold twice, an order   *)
(* delivers its cart and costs what its tickets cost, and the concurrent   *)
(* transactions implement the atomic sale of TicketSale.                   *)
(***************************************************************************)
EXTENDS Checkout, SumTheorems, FunctionTheorems

(* Carts and selections *)

\* A cart has a first line, finitely many lines, and positive quantities.
LEMMA CartLines ==
    ASSUME NEW c \in Cart
    PROVE  /\ IsFiniteSet(DOMAIN c)
           /\ DOMAIN c \subseteq Nat
           /\ 1 \in DOMAIN c
           /\ \A i \in DOMAIN c : c[i].quantity \in Nat \ {0}
<1>1. c \in Seq(Line) /\ c # <<>>
  BY CartAssumption
<1>2. DOMAIN c = 1..Len(c) /\ Len(c) \in Nat /\ Len(c) # 0
  BY <1>1
<1>3. IsFiniteSet(1..Len(c))
  BY <1>2, FS_Interval
<1>4. \A i \in DOMAIN c : c[i] \in Line
  BY <1>1, <1>2
<1> QED
  BY <1>2, <1>3, <1>4 DEF Line

\* What a transaction selected is a finite, non-empty list of tickets.
LEMMA SelectionFinite ==
    ASSUME NEW r \in Request, NEW E, cart[r] \in Cart, FitsCart(r, E)
    PROVE  /\ IsFiniteSet(E)
           /\ E \in SUBSET (Nat \X Ticket)
           /\ TicketsIn(E) # {}
<1>1. /\ IsFiniteSet(DOMAIN cart[r])
      /\ DOMAIN cart[r] \subseteq Nat
      /\ 1 \in DOMAIN cart[r]
      /\ cart[r][1].quantity \in Nat \ {0}
  BY CartLines
<1>2. E \subseteq (DOMAIN cart[r]) \X Ticket
  BY DEF FitsCart
<1>3. IsFiniteSet((DOMAIN cart[r]) \X Ticket)
  BY <1>1, FS_Product, TicketAssumption
<1>4. IsFiniteSet(E)
  BY <1>2, <1>3, FS_Subset
<1>5. E \in SUBSET (Nat \X Ticket)
  BY <1>1, <1>2
<1>6. LineTickets(E, 1) # {}
  BY <1>1, FS_EmptySet DEF FitsCart
<1>7. PICK t \in Ticket : <<1, t>> \in E
  BY <1>6 DEF LineTickets
<1>8. <<1, t>>[2] \in TicketsIn(E)
  BY <1>7 DEF TicketsIn
<1> QED
  BY <1>4, <1>5, <1>8

\* A list of ids names at most as many tickets as it is long.
LEMMA TicketsInBound ==
    ASSUME NEW E \in SUBSET (Nat \X Ticket), IsFiniteSet(E)
    PROVE  /\ TicketsIn(E) \subseteq Ticket
           /\ IsFiniteSet(TicketsIn(E))
           /\ Cardinality(TicketsIn(E)) \in Nat
           /\ Cardinality(E) \in Nat
           /\ Cardinality(TicketsIn(E)) <= Cardinality(E)
<1> DEFINE f == [e \in E |-> e[2]]
<1>1. TicketsIn(E) \subseteq Ticket
  BY DEF TicketsIn
<1>2. f \in [E -> TicketsIn(E)] /\ \A t \in TicketsIn(E) : \E e \in E : f[e] = t
  BY DEF TicketsIn
<1>3. f \in Surjection(E, TicketsIn(E))
  BY <1>2, Fun_IsSurj
<1>4. IsFiniteSet(TicketsIn(E)) /\ Cardinality(TicketsIn(E)) <= Cardinality(E)
  BY <1>3, FS_Surjection
<1> QED
  BY <1>1, <1>4, FS_CardinalityType

\* The count check: when updateMany changed as many rows as there are ids, every
\* id is a different ticket and every one was AVAILABLE.
LEMMA CountCheck ==
    ASSUME NEW r \in Request, cart[r] \in Cart, FitsCart(r, picked[r]), ReservedAll(r)
    PROVE  /\ Reservable(r) = Ids(r)
           /\ Cardinality(Ids(r)) = Cardinality(picked[r])
<1> DEFINE E == picked[r]
<1>1. IsFiniteSet(E) /\ E \in SUBSET (Nat \X Ticket)
  BY SelectionFinite
<1>2. /\ IsFiniteSet(Ids(r))
      /\ Cardinality(Ids(r)) \in Nat
      /\ Cardinality(E) \in Nat
      /\ Cardinality(Ids(r)) <= Cardinality(E)
  BY <1>1, TicketsInBound DEF Ids
<1>3. Reservable(r) \in SUBSET Ids(r)
  BY DEF Reservable
<1>4. /\ Cardinality(Reservable(r)) <= Cardinality(Ids(r))
      /\ Cardinality(Reservable(r)) = Cardinality(Ids(r)) => Reservable(r) = Ids(r)
  BY <1>2, <1>3, FS_Subset
<1>5. Cardinality(Reservable(r)) = Cardinality(E)
  BY DEF ReservedAll
<1> QED
  BY <1>2, <1>4, <1>5

-----------------------------------------------------------------------------
(* Types *)

LEMMA RejectType ==
    ASSUME RowsTypeOK, NEW r \in Request, Reject(r)
    PROVE  RowsTypeOK'
BY DEF RowsTypeOK, Reject, dbVars, organiserVars, NoPrices, Answered

LEMMA TypeInit == Init => RowsTypeOK
BY TicketAssumption DEF Init, RowsTypeOK, Row, NoPrices, NotARow, TicketStatus

LEMMA TypeStep == RowsTypeOK /\ [Next]_vars => RowsTypeOK'
<1> SUFFICES ASSUME RowsTypeOK, [Next]_vars PROVE RowsTypeOK'
  OBVIOUS
<1> USE DEF dbVars, txVars, organiserVars
<1>1. ASSUME NEW r \in Request, Submit(r) PROVE RowsTypeOK'
  BY <1>1 DEF Submit, RowsTypeOK
<1>2. ASSUME NEW r \in Request, SelectTickets(r) PROVE RowsTypeOK'
  <2>1. PICK entries \in Selection(r) :
          /\ picked' = [picked EXCEPT ![r] = entries]
          /\ quoted' = [quoted EXCEPT ![r] =
                          [t \in Ticket |-> IF t \in TicketsIn(entries)
                                            THEN ticket[t].price ELSE 0]]
    BY <1>2 DEF SelectTickets
  <2>2. cart[r] = <<>> \/ cart[r] \in Cart
    BY DEF RowsTypeOK
  <2>3. DOMAIN cart[r] \subseteq Nat
    BY <2>2, CartLines
  <2>4. entries \in SUBSET (Nat \X Ticket)
    BY <2>3 DEF Selection
  <2>5. \A t \in Ticket : ticket[t].price \in Nat
    BY TicketAssumption DEF RowsTypeOK, Row
  <2>6. [t \in Ticket |-> IF t \in TicketsIn(entries)
                          THEN ticket[t].price ELSE 0] \in [Ticket -> Nat]
    BY <2>5
  <2>7. /\ picked' \in [Request -> SUBSET (Nat \X Ticket)]
        /\ quoted' \in [Request -> [Ticket -> Nat]]
    BY <2>1, <2>4, <2>6 DEF RowsTypeOK
  <2> QED
    BY <1>2, <2>7 DEF SelectTickets, RowsTypeOK, InTransaction
<1>3. ASSUME NEW r \in Request,
             \/ NotEnoughTickets(r) \/ ReserveConflict(r)
             \/ PromoCodeRefused(r) \/ Timeout(r)
      PROVE RowsTypeOK'
  BY <1>3, RejectType DEF NotEnoughTickets, ReserveConflict, PromoCodeRefused, Timeout
<1>4. ASSUME NEW r \in Request,
             \/ ReserveTickets(r) \/ ApplyPromoCode(r)
             \/ Announce(r) \/ LoseAnswer(r)
      PROVE RowsTypeOK'
  BY <1>4 DEF ReserveTickets, ApplyPromoCode, Announce, LoseAnswer, RowsTypeOK,
              InTransaction, Ordered
<1>5. ASSUME NEW r \in Request, Commit(r) PROVE RowsTypeOK'
  <2>1. NewOrder(r) \in OrderRow
    BY DEF NewOrder, OrderRow, RowsTypeOK
  <2>2. ASSUME NEW t \in Ticket PROVE [ticket[t] EXCEPT !.status = "RESERVED"] \in Row
    BY DEF RowsTypeOK, Row, TicketStatus
  <2>3. ticket' \in [Ticket -> Row]
    BY <1>5, <2>2 DEF Commit, RowsTypeOK
  <2>4. order' \in [Request -> OrderRow \cup {NoOrder}]
    BY <1>5, <2>1 DEF Commit, RowsTypeOK
  <2> QED
    BY <1>5, <2>3, <2>4 DEF Commit, RowsTypeOK, Ordered, NoPrices
<1>6. ASSUME NEW e \in Edit, EditHandler(e) PROVE RowsTypeOK'
  <2>1. ASSUME NEW t \in Ticket, NEW dto \in EditDto, UpdateTicketRead(e, t, dto)
        PROVE RowsTypeOK'
    BY <2>1 DEF UpdateTicketRead, RowsTypeOK
  <2>2. CASE UpdateTicketWrite(e)
    <3>1. edit[e] \in [ticket : Ticket, dto : EditDto]
      BY <2>2 DEF UpdateTicketWrite, RowsTypeOK
    <3> DEFINE t == edit[e].ticket
               dto == edit[e].dto
    <3>2. t \in Ticket /\ dto \in EditDto
      BY <3>1
    <3>3. Updated(ticket[t], dto) \in Row
      BY <3>2, EditAssumption DEF Updated, RowsTypeOK, Row
    <3>4. ticket' \in [Ticket -> Row]
      BY <2>2, <3>2, <3>3 DEF UpdateTicketWrite, RowsTypeOK
    <3>5. clobbered' \in SUBSET Ticket /\ raced' \in SUBSET Ticket
      BY <2>2, <3>2 DEF UpdateTicketWrite, RowsTypeOK
    <3> QED
      BY <2>2, <3>4, <3>5 DEF UpdateTicketWrite, RowsTypeOK
  <2>3. CASE UpdateTicketFails(e)
    BY <2>3 DEF UpdateTicketFails, RowsTypeOK
  <2> QED
    BY <1>6, <2>1, <2>2, <2>3 DEF EditHandler
<1>7. ASSUME NEW b \in Batch, BatchHandler(b) PROVE RowsTypeOK'
  <2>1. ASSUME NEW dto \in BatchDto, CreateTickets(b, dto) PROVE RowsTypeOK'
    BY <2>1, BatchAssumption DEF CreateTickets, RowsTypeOK
  <2>2. ASSUME NEW t \in Ticket, CreateTicket(b, t) PROVE RowsTypeOK'
    <3>1. batch[b] \in [dto : BatchDto, left : Nat \ {0}]
      BY <2>2 DEF CreateTicket, RowsTypeOK
    <3> DEFINE dto == batch[b].dto
    <3>2. dto \in BatchDto
      BY <3>1
    <3>3. [status |-> NewTicketStatus(dto), title |-> dto.title, price |-> dto.price] \in Row
      BY <3>2, BatchAssumption DEF NewTicketStatus, Row, TicketStatus
    <3>4. ticket' \in [Ticket -> Row]
      BY <2>2, <3>3 DEF CreateTicket, RowsTypeOK
    <3>5. batch[b].left # 1 =>
            [batch[b] EXCEPT !.left = @ - 1] \in [dto : BatchDto, left : Nat \ {0}]
      BY <3>1
    <3> QED
      BY <2>2, <3>1, <3>4, <3>5 DEF CreateTicket, RowsTypeOK
  <2>3. CASE CreateTicketFails(b)
    BY <2>3 DEF CreateTicketFails, RowsTypeOK
  <2> QED
    BY <1>7, <2>1, <2>2, <2>3 DEF BatchHandler
<1>8. ASSUME NEW t \in Ticket, DeleteTicket(t) PROVE RowsTypeOK'
  BY <1>8 DEF DeleteTicket, RowsTypeOK, Row, NotARow
<1>9. ASSUME NEW p \in PromoCode, UpdatePromoCode(p) PROVE RowsTypeOK'
  BY <1>9 DEF UpdatePromoCode, RowsTypeOK
<1>10. CASE UNCHANGED vars
  BY <1>10 DEF vars, RowsTypeOK
<1> QED
  BY <1>1, <1>2, <1>3, <1>4, <1>5, <1>6, <1>7, <1>8, <1>9, <1>10 DEF Next, OrderHandler

\* Every row, and the local state of every call, keeps its type: the columns of
\* tickets, orders and order_items, and what the handlers carry between queries.
THEOREM TypeCorrect == Spec => []RowsTypeOK
<1> QED
  BY TypeInit, TypeStep, PTL DEF Spec

-----------------------------------------------------------------------------
(* The inductive invariant *)

LEMMA IInvInit == Init => IInv
<1> SUFFICES ASSUME Init PROVE IInv
  OBVIOUS
<1>1. \A r \in Request : pc[r] = "idle" /\ picked[r] = {} /\ order[r] = NoOrder
  BY DEF Init
<1> QED
  BY <1>1, TypeInit DEF IInv, SelectionInv, LockInv, LocksExclusive, HoldsLocks, OrderInv,
     OwnedInv, NoDoubleBooking, InTransaction, Ordered

\* Steps that touch neither tickets nor orders nor a POST /orders call.
LEMMA QuietStep ==
    ASSUME IInv, RowsTypeOK', UNCHANGED <<ticket, order, txVars, clobbered>>
    PROVE  IInv'
BY DEF IInv, SelectionInv, LockInv, LocksExclusive, HoldsLocks, OrderInv, OwnedInv,
       NoDoubleBooking, FitsCart, Ids, OrderTickets, Exists, txVars

\* A call that arrives, or that leaves without an order, takes its locks away.
LEMMA RejectStep ==
    ASSUME IInv, RowsTypeOK', NEW r \in Request, Reject(r),
           pc[r] \in {"waiting"} \cup InTransaction
    PROVE  IInv'
<1> USE DEF Reject, dbVars, organiserVars, InTransaction, HoldsLocks, Ids
<1>1. /\ pc \in [Request -> {"idle", "waiting"} \cup InTransaction \cup Ordered \cup Answered]
      /\ picked \in [Request -> SUBSET (Nat \X Ticket)]
  BY DEF IInv, RowsTypeOK
<1>2. SelectionInv'
  BY <1>1 DEF IInv, SelectionInv, FitsCart
<1>3. LockInv' /\ LocksExclusive'
  BY <1>1 DEF IInv, LockInv, LocksExclusive
<1>4. OrderInv'
  BY <1>1 DEF IInv, OrderInv, FitsCart, Ordered, OrderTickets
<1>5. OwnedInv' /\ NoDoubleBooking'
  BY DEF IInv, OwnedInv, NoDoubleBooking, OrderTickets, Exists
<1> QED
  BY <1>2, <1>3, <1>4, <1>5 DEF IInv

LEMMA SubmitStep ==
    ASSUME IInv, RowsTypeOK', NEW r \in Request, Submit(r)
    PROVE  IInv'
<1> USE DEF Submit, dbVars, organiserVars, InTransaction, HoldsLocks, Ids
<1>1. /\ pc \in [Request -> {"idle", "waiting"} \cup InTransaction \cup Ordered \cup Answered]
      /\ cart \in [Request -> Cart \cup {<<>>}]
  BY DEF IInv, RowsTypeOK
<1>2. \A s \in Request : s # r => cart'[s] = cart[s] /\ pc'[s] = pc[s]
  BY <1>1
<1>3. pc'[r] = "waiting" /\ cart'[r] \in Cart
  BY <1>1
<1>4. SelectionInv'
  BY <1>2, <1>3 DEF IInv, SelectionInv, FitsCart
<1>5. LockInv' /\ LocksExclusive'
  BY <1>2, <1>3 DEF IInv, LockInv, LocksExclusive
<1>6. OrderInv'
  BY <1>2, <1>3 DEF IInv, OrderInv, FitsCart, Ordered, OrderTickets
<1>7. OwnedInv' /\ NoDoubleBooking'
  BY DEF IInv, OwnedInv, NoDoubleBooking, OrderTickets, Exists
<1> QED
  BY <1>4, <1>5, <1>6, <1>7 DEF IInv

LEMMA SelectStep ==
    ASSUME IInv, RowsTypeOK', NEW r \in Request, SelectTickets(r)
    PROVE  IInv'
<1> USE DEF SelectTickets, dbVars, organiserVars, InTransaction, HoldsLocks, Ids
<1>1. /\ pc \in [Request -> {"idle", "waiting"} \cup InTransaction \cup Ordered \cup Answered]
      /\ picked \in [Request -> SUBSET (Nat \X Ticket)]
  BY DEF IInv, RowsTypeOK
<1>2. PICK entries \in Selection(r) : picked' = [picked EXCEPT ![r] = entries]
  OBVIOUS
<1>3. FitsCart(r, entries)
  BY <1>2 DEF Selection, FindAll, kSubset, FitsCart
<1>4. SelectionInv'
  BY <1>1, <1>2, <1>3 DEF IInv, SelectionInv, FitsCart
<1>5. LockInv' /\ LocksExclusive'
  BY <1>1, <1>2 DEF IInv, LockInv, LocksExclusive
<1>6. OrderInv'
  BY <1>1 DEF IInv, OrderInv, FitsCart, Ordered, OrderTickets
<1>7. OwnedInv' /\ NoDoubleBooking'
  BY DEF IInv, OwnedInv, NoDoubleBooking, OrderTickets, Exists
<1> QED
  BY <1>4, <1>5, <1>6, <1>7 DEF IInv

\* updateMany: the locks are exclusive because the statement waits for those of
\* others; the tickets are AVAILABLE because it counted them.
LEMMA ReserveStep ==
    ASSUME IInv, RowsTypeOK', NEW r \in Request, ReserveTickets(r)
    PROVE  IInv'
<1> USE DEF ReserveTickets, dbVars, organiserVars, InTransaction
<1>1. pc \in [Request -> {"idle", "waiting"} \cup InTransaction \cup Ordered \cup Answered]
  BY DEF IInv, RowsTypeOK
<1>2. cart[r] \in Cart /\ FitsCart(r, picked[r])
  BY DEF IInv, SelectionInv
<1>3. Reservable(r) = Ids(r) /\ Cardinality(Ids(r)) = Cardinality(picked[r])
  BY <1>2, CountCheck
<1>4. SelectionInv'
  BY <1>1 DEF IInv, SelectionInv, FitsCart
<1>5. LockInv'
  BY <1>1, <1>3 DEF IInv, LockInv, HoldsLocks, Ids, Reservable
<1>6. \A s \in Request : HoldsLocks(s) => Ids(r) \cap Ids(s) = {}
  BY DEF Locked
<1>7. LocksExclusive'
  BY <1>1, <1>6 DEF IInv, LocksExclusive, HoldsLocks, Ids
<1>8. OrderInv'
  BY <1>1 DEF IInv, OrderInv, FitsCart, Ordered, OrderTickets
<1>9. OwnedInv' /\ NoDoubleBooking'
  BY DEF IInv, OwnedInv, NoDoubleBooking, OrderTickets, Exists
<1> QED
  BY <1>4, <1>5, <1>7, <1>8, <1>9 DEF IInv

LEMMA PromoStep ==
    ASSUME IInv, RowsTypeOK', NEW r \in Request, ApplyPromoCode(r)
    PROVE  IInv'
<1> USE DEF ApplyPromoCode, dbVars, organiserVars, InTransaction, HoldsLocks, Ids
<1>1. pc \in [Request -> {"idle", "waiting"} \cup InTransaction \cup Ordered \cup Answered]
  BY DEF IInv, RowsTypeOK
<1>2. SelectionInv' /\ LockInv' /\ LocksExclusive'
  BY <1>1 DEF IInv, SelectionInv, FitsCart, LockInv, LocksExclusive
<1>3. OrderInv' /\ OwnedInv' /\ NoDoubleBooking'
  BY <1>1 DEF IInv, OrderInv, FitsCart, Ordered, OrderTickets, OwnedInv, NoDoubleBooking, Exists
<1> QED
  BY <1>2, <1>3 DEF IInv

LEMMA AnswerStep ==
    ASSUME IInv, RowsTypeOK', NEW r \in Request, Announce(r) \/ LoseAnswer(r)
    PROVE  IInv'
<1> USE DEF Announce, LoseAnswer, dbVars, organiserVars, InTransaction, HoldsLocks, Ids
<1>1. pc \in [Request -> {"idle", "waiting"} \cup InTransaction \cup Ordered \cup Answered]
  BY DEF IInv, RowsTypeOK
<1>2. SelectionInv' /\ LockInv' /\ LocksExclusive'
  BY <1>1 DEF IInv, SelectionInv, FitsCart, LockInv, LocksExclusive
<1>3. OrderInv' /\ OwnedInv' /\ NoDoubleBooking'
  BY <1>1 DEF IInv, OrderInv, FitsCart, Ordered, OrderTickets, OwnedInv, NoDoubleBooking, Exists
<1> QED
  BY <1>2, <1>3 DEF IInv

\* The commit: the tickets were AVAILABLE, so no other order owns one unless an
\* edit clobbered it; the locks of the others are on other tickets.
LEMMA CommitStep ==
    ASSUME IInv, RowsTypeOK', NEW r \in Request, Commit(r)
    PROVE  IInv'
<1> USE DEF organiserVars, InTransaction
<1>1. /\ pc \in [Request -> {"idle", "waiting"} \cup InTransaction \cup Ordered \cup Answered]
      /\ picked \in [Request -> SUBSET (Nat \X Ticket)]
      /\ order \in [Request -> OrderRow \cup {NoOrder}]
      /\ ticket \in [Ticket -> Row]
  BY DEF IInv, RowsTypeOK
<1>2. /\ pc[r] = "priced" /\ HoldsLocks(r)
      /\ pc' = [pc EXCEPT ![r] = "committed"]
      /\ picked' = [picked EXCEPT ![r] = {}]
      /\ order' = [order EXCEPT ![r] = NewOrder(r)]
      /\ UNCHANGED <<cart, clobbered>>
  BY DEF Commit, HoldsLocks
<1>3. /\ FitsCart(r, picked[r])
      /\ \A t \in Ids(r) : ticket[t].status = "AVAILABLE"
      /\ Cardinality(Ids(r)) = Cardinality(picked[r])
      /\ Ids(r) \subseteq Ticket
  <2>1. FitsCart(r, picked[r])
    BY <1>2 DEF IInv, SelectionInv
  <2>2. /\ \A t \in Ids(r) : ticket[t].status = "AVAILABLE"
        /\ Cardinality(Ids(r)) = Cardinality(picked[r])
    BY <1>2 DEF IInv, LockInv
  <2>3. Ids(r) \subseteq Ticket
    BY <1>1 DEF Ids, TicketsIn
  <2> QED
    BY <2>1, <2>2, <2>3
<1>4. NewOrder(r) # NoOrder
  <2>1. NewOrder(r) \in OrderRow
    BY DEF IInv, RowsTypeOK, NewOrder, OrderRow
  <2> QED
    BY <2>1, OrderAssumption
<1>5. /\ order'[r] = NewOrder(r) /\ order'[r].items = picked[r]
      /\ OrderTickets(r)' = Ids(r)
  BY <1>1, <1>2 DEF NewOrder, OrderTickets, Ids
<1>6. \A s \in Request : s # r =>
        /\ order'[s] = order[s] /\ pc'[s] = pc[s] /\ picked'[s] = picked[s]
        /\ OrderTickets(s)' = OrderTickets(s)
  BY <1>1, <1>2 DEF OrderTickets
<1>7. \A t \in Ticket :
        /\ t \in Ids(r) => ticket'[t].status = "RESERVED"
        /\ t \notin Ids(r) => ticket'[t] = ticket[t]
  BY <1>1 DEF Commit, Row
<1>8. SelectionInv'
  BY <1>1, <1>2, <1>6 DEF IInv, SelectionInv, FitsCart
<1>9. LockInv'
  <2> SUFFICES ASSUME NEW s \in Request, HoldsLocks(s)'
               PROVE  /\ \A t \in Ids(s)' : ticket'[t].status = "AVAILABLE"
                      /\ Cardinality(Ids(s)') = Cardinality(picked'[s])
    BY DEF LockInv
  <2>1. s # r
    BY <1>1, <1>2 DEF HoldsLocks
  <2>2. HoldsLocks(s) /\ Ids(s)' = Ids(s) /\ picked'[s] = picked[s]
    BY <1>6, <2>1 DEF HoldsLocks, Ids
  <2>3. Ids(s) \cap Ids(r) = {} /\ Ids(s) \subseteq Ticket
    BY <1>1, <1>2, <2>1, <2>2 DEF IInv, LocksExclusive, Ids, TicketsIn
  <2> QED
    BY <1>7, <2>2, <2>3 DEF IInv, LockInv
<1>10. LocksExclusive'
  BY <1>1, <1>2, <1>6 DEF IInv, LocksExclusive, HoldsLocks, Ids
<1>11. OrderInv'
  BY <1>1, <1>2, <1>3, <1>4, <1>5, <1>6 DEF IInv, OrderInv, FitsCart, Ordered
<1>12. ASSUME NEW s \in Request, s # r, order[s] # NoOrder
       PROVE  \A t \in OrderTickets(s) : Exists(t) /\ (t \notin clobbered => t \notin Ids(r))
  BY <1>3, <1>12 DEF IInv, OwnedInv
<1>13. OwnedInv'
  <2> SUFFICES ASSUME NEW s \in Request, order'[s] # NoOrder, NEW t \in OrderTickets(s)'
               PROVE  Exists(t)' /\ (t \notin clobbered' => ticket'[t].status = "RESERVED")
    BY DEF OwnedInv
  <2>1. CASE s = r
    BY <1>3, <1>5, <1>7, <2>1 DEF Exists, TicketStatus
  <2>2. CASE s # r
    <3>1. order[s] # NoOrder /\ t \in OrderTickets(s)
      BY <1>6, <2>2
    <3>2. t \in Ticket
      BY <1>1, <3>1 DEF OrderTickets, TicketsIn, OrderRow
    <3>3. Exists(t) /\ (t \notin clobbered => ticket[t].status = "RESERVED")
      BY <3>1 DEF IInv, OwnedInv
    <3> QED
      BY <1>2, <1>7, <3>2, <3>3 DEF Exists, TicketStatus
  <2> QED
    BY <2>1, <2>2
<1>14. NoDoubleBooking'
  BY <1>2, <1>5, <1>6, <1>12 DEF IInv, NoDoubleBooking
<1> QED
  BY <1>8, <1>9, <1>10, <1>11, <1>13, <1>14 DEF IInv

\* The organiser's writes: one row that no transaction has locked, and whose
\* clobbering is recorded.
LEMMA EditStep ==
    ASSUME IInv, RowsTypeOK', NEW e \in Edit, UpdateTicketWrite(e)
    PROVE  IInv'
<1> DEFINE t == edit[e].ticket
           dto == edit[e].dto
<1> USE DEF txVars
<1>1. /\ ticket \in [Ticket -> Row]
      /\ order \in [Request -> OrderRow \cup {NoOrder}]
      /\ picked \in [Request -> SUBSET (Nat \X Ticket)]
      /\ t \in Ticket /\ dto \in EditDto
  BY DEF IInv, RowsTypeOK, UpdateTicketWrite
<1>2. /\ ~Locked(t)
      /\ ticket' = [ticket EXCEPT ![t] = Updated(ticket[t], dto)]
      /\ clobbered' = IF dto.status # Undefined /\ ~EditAllowed(t)
                      THEN clobbered \cup {t} ELSE clobbered
      /\ UNCHANGED <<order, txVars>>
  BY DEF UpdateTicketWrite
<1>3. \A u \in Ticket : u # t => ticket'[u] = ticket[u]
  BY <1>1, <1>2
<1>4. /\ ticket'[t].status \in TicketStatus
      /\ dto.status = Undefined => ticket'[t].status = ticket[t].status
  <2>1. dto.status \in TicketStatus \cup {Undefined}
    BY <1>1, EditAssumption
  <2>2. Exists(t)
    BY DEF UpdateTicketWrite
  <2> QED
    BY <1>1, <1>2, <2>1, <2>2 DEF Updated, Exists
<1>5. SelectionInv' /\ LocksExclusive'
  BY <1>2 DEF IInv, SelectionInv, FitsCart, LocksExclusive, HoldsLocks, Ids
<1>6. LockInv'
  <2>1. \A r \in Request : Ids(r) \subseteq Ticket
    BY <1>1 DEF Ids, TicketsIn
  <2> QED
    BY <1>2, <1>3, <2>1 DEF IInv, LockInv, HoldsLocks, Ids, Locked
<1>7. OrderInv'
  BY <1>2 DEF IInv, OrderInv, FitsCart, OrderTickets
<1>8. OwnedInv'
  <2> SUFFICES ASSUME NEW r \in Request, order[r] # NoOrder, NEW u \in OrderTickets(r)
               PROVE  Exists(u)' /\ (u \notin clobbered' => ticket'[u].status = "RESERVED")
    BY <1>2 DEF OwnedInv, OrderTickets
  <2>1. u \in Ticket
    BY <1>1 DEF OrderTickets, TicketsIn, OrderRow
  <2>2. Exists(u) /\ (u \notin clobbered => ticket[u].status = "RESERVED")
    BY DEF IInv, OwnedInv
  <2>3. CASE u = t
    <3>1. u \notin clobbered' => u \notin clobbered /\ (dto.status = Undefined \/ EditAllowed(t))
      BY <1>2, <2>3
    <3> QED
      BY <1>4, <2>2, <2>3, <3>1 DEF EditAllowed, Exists
  <2>4. CASE u # t
    BY <1>2, <1>3, <2>1, <2>2, <2>4 DEF Exists
  <2> QED
    BY <2>3, <2>4
<1>9. NoDoubleBooking'
  BY <1>2 DEF IInv, NoDoubleBooking, OrderTickets
<1> QED
  BY <1>5, <1>6, <1>7, <1>8, <1>9 DEF IInv

\* A row nobody has locked or ordered changes: a delete or an insert.
LEMMA RowStep ==
    ASSUME IInv, RowsTypeOK', NEW t \in Ticket,
           \A u \in Ticket : u # t => ticket'[u] = ticket[u],
           UNCHANGED <<order, txVars, clobbered>>,
           ~Locked(t), ~Referenced(t)
    PROVE  IInv'
<1> USE DEF txVars
<1>1. /\ order \in [Request -> OrderRow \cup {NoOrder}]
      /\ picked \in [Request -> SUBSET (Nat \X Ticket)]
  BY DEF IInv, RowsTypeOK
<1>2. SelectionInv' /\ LocksExclusive' /\ OrderInv' /\ NoDoubleBooking'
  BY DEF IInv, SelectionInv, FitsCart, LocksExclusive, HoldsLocks, Ids, OrderInv,
     OrderTickets, NoDoubleBooking
<1>3. LockInv'
  <2>1. \A r \in Request : Ids(r) \subseteq Ticket
    BY <1>1 DEF Ids, TicketsIn
  <2> QED
    BY <2>1 DEF IInv, LockInv, HoldsLocks, Ids, Locked
<1>4. OwnedInv'
  <2>1. \A r \in Request : order[r] # NoOrder => OrderTickets(r) \subseteq Ticket \ {t}
    BY <1>1 DEF Referenced, OrderTickets, TicketsIn, OrderRow
  <2> QED
    BY <2>1 DEF IInv, OwnedInv, OrderTickets, Exists
<1> QED
  BY <1>2, <1>3, <1>4 DEF IInv

\* A row that is not there yet is neither locked nor ordered.
LEMMA AbsentTicket ==
    ASSUME IInv, NEW t \in Ticket, ticket[t].status = "ABSENT"
    PROVE  ~Locked(t) /\ ~Referenced(t)
BY DEF IInv, LockInv, OwnedInv, Locked, Referenced, OrderTickets, Exists, TicketStatus

LEMMA IInvStep == IInv /\ [Next]_vars => IInv'
<1> SUFFICES ASSUME IInv, [Next]_vars PROVE IInv'
  OBVIOUS
<1> USE DEF dbVars, organiserVars
<1>0. RowsTypeOK'
  BY TypeStep DEF IInv
<1>1. ASSUME NEW r \in Request, Submit(r) \/ OrderHandler(r) \/ LoseAnswer(r) PROVE IInv'
  <2>1. CASE Submit(r)
    BY <1>0, <2>1, SubmitStep
  <2>2. CASE SelectTickets(r)
    BY <1>0, <2>2, SelectStep
  <2>3. CASE NotEnoughTickets(r) \/ ReserveConflict(r) \/ PromoCodeRefused(r) \/ Timeout(r)
    BY <1>0, <2>3, RejectStep DEF NotEnoughTickets, ReserveConflict, PromoCodeRefused,
       Timeout, InTransaction
  <2>4. CASE ReserveTickets(r)
    BY <1>0, <2>4, ReserveStep
  <2>5. CASE ApplyPromoCode(r)
    BY <1>0, <2>5, PromoStep
  <2>6. CASE Commit(r)
    BY <1>0, <2>6, CommitStep
  <2>7. CASE Announce(r) \/ LoseAnswer(r)
    BY <1>0, <2>7, AnswerStep
  <2> QED
    BY <1>1, <2>1, <2>2, <2>3, <2>4, <2>5, <2>6, <2>7 DEF OrderHandler
<1>2. ASSUME NEW e \in Edit, EditHandler(e) PROVE IInv'
  <2>1. CASE UpdateTicketWrite(e)
    BY <1>0, <2>1, EditStep
  <2>2. CASE UNCHANGED <<ticket, order, txVars, clobbered>>
    BY <1>0, <2>2, QuietStep
  <2> QED
    BY <1>2, <2>1, <2>2 DEF EditHandler, UpdateTicketRead, UpdateTicketFails
<1>3. ASSUME NEW b \in Batch, BatchHandler(b) PROVE IInv'
  <2>1. ASSUME NEW t \in Ticket, CreateTicket(b, t) PROVE IInv'
    <3>1. ticket[t].status = "ABSENT" /\ UNCHANGED <<order, txVars, clobbered>>
      BY <2>1 DEF CreateTicket
    <3>2. \A u \in Ticket : u # t => ticket'[u] = ticket[u]
      BY <2>1 DEF CreateTicket, IInv, RowsTypeOK
    <3> QED
      BY <1>0, <3>1, <3>2, AbsentTicket, RowStep
  <2>2. CASE UNCHANGED <<ticket, order, txVars, clobbered>>
    BY <1>0, <2>2, QuietStep
  <2> QED
    BY <1>3, <2>1, <2>2 DEF BatchHandler, CreateTickets, CreateTicketFails
<1>4. ASSUME NEW t \in Ticket, DeleteTicket(t) PROVE IInv'
  <2>1. /\ ~Locked(t) /\ ~Referenced(t)
        /\ UNCHANGED <<order, txVars, clobbered>>
    BY <1>4 DEF DeleteTicket
  <2>2. \A u \in Ticket : u # t => ticket'[u] = ticket[u]
    BY <1>4 DEF DeleteTicket, IInv, RowsTypeOK
  <2> QED
    BY <1>0, <2>1, <2>2, RowStep
<1>5. ASSUME NEW p \in PromoCode, UpdatePromoCode(p) PROVE IInv'
  BY <1>0, <1>5, QuietStep DEF UpdatePromoCode
<1>6. CASE UNCHANGED vars
  BY <1>0, <1>6, QuietStep DEF vars
<1> QED
  BY <1>1, <1>2, <1>3, <1>4, <1>5, <1>6 DEF Next

LEMMA Invariance == Spec => []IInv
<1> QED
  BY IInvInit, IInvStep, PTL DEF Spec

\* OrdersService.create sells no ticket to two orders, however many run at once
\* and whatever fails; only an edit that overtook a reservation can undo that.
THEOREM NoTicketSoldTwice == Spec => []NoDoubleBooking
<1>1. IInv => NoDoubleBooking
  BY DEF IInv
<1> QED
  BY <1>1, Invariance, PTL

\* An order that exists has every ticket its cart asked for, no ticket twice.
THEOREM OrdersDeliverCarts == Spec => []OrderDeliversCart
<1>1. IInv => OrderDeliversCart
  BY DEF IInv, OrderInv, OrderDeliversCart, FitsCart
<1> QED
  BY <1>1, Invariance, PTL

\* The steps that change a ticket or an order row.
LEMMA StepKinds ==
    ASSUME [Next]_vars
    PROVE  \/ UNCHANGED <<ticket, order>>
           \/ \E r \in Request : Commit(r)
           \/ \E e \in Edit : UpdateTicketWrite(e)
           \/ \E b \in Batch, t \in Ticket : CreateTicket(b, t)
           \/ \E t \in Ticket : DeleteTicket(t)
BY DEF Next, vars, dbVars, OrderHandler, EditHandler, BatchHandler, Submit, SelectTickets,
   NotEnoughTickets, ReserveTickets, ReserveConflict, ApplyPromoCode, PromoCodeRefused,
   Announce, LoseAnswer, Timeout, Reject, UpdateTicketRead, UpdateTicketFails,
   CreateTickets, CreateTicketFails, UpdatePromoCode

\* Whatever fails after updateMany, no ticket stays reserved without an order.
THEOREM ReservationsBelongToOrders == Spec => []NoOrphanReservation
<1>1. Init => NoOrphanReservation
  BY DEF Init, NoOrphanReservation
<1>2. IInv /\ NoOrphanReservation /\ [Next]_vars => NoOrphanReservation'
  <2> SUFFICES ASSUME IInv, NoOrphanReservation, [Next]_vars,
                      \A dto \in EditDto \cup BatchDto : dto.status # "RESERVED",
                      NEW t \in Ticket, ticket'[t].status = "RESERVED"
               PROVE  Referenced(t)'
    BY DEF NoOrphanReservation
  <2> USE DEF dbVars
  <2>0. /\ ticket \in [Ticket -> Row]
        /\ order \in [Request -> OrderRow \cup {NoOrder}]
    BY DEF IInv, RowsTypeOK
  <2>1. ASSUME UNCHANGED order, ticket[t].status = "RESERVED" PROVE Referenced(t)'
    BY <2>1 DEF NoOrphanReservation, Referenced
  <2>2. CASE UNCHANGED <<ticket, order>>
    BY <2>1, <2>2
  <2>3. ASSUME NEW r \in Request, Commit(r) PROVE Referenced(t)'
    <3>1. order[r] = NoOrder
      BY <2>3 DEF Commit, IInv, OrderInv, Ordered
    <3>2. order'[r] = NewOrder(r) /\ NewOrder(r) # NoOrder
      BY <2>3, OrderAssumption DEF Commit, NewOrder, OrderRow, IInv, RowsTypeOK
    <3>3. \A s \in Request : s # r => order'[s] = order[s]
      BY <2>3 DEF Commit
    <3>4. CASE t \in Ids(r)
      BY <3>2, <3>4 DEF Referenced, Ids, NewOrder
    <3>5. CASE t \notin Ids(r)
      <4>1. ticket[t].status = "RESERVED"
        BY <2>3, <3>5 DEF Commit
      <4> QED
        BY <3>1, <3>2, <3>3, <4>1 DEF NoOrphanReservation, Referenced
    <3> QED
      BY <3>4, <3>5
  <2>4. ASSUME NEW e \in Edit, UpdateTicketWrite(e) PROVE Referenced(t)'
    <3>1. edit[e].ticket \in Ticket /\ edit[e].dto \in EditDto
      BY <2>4 DEF UpdateTicketWrite, IInv, RowsTypeOK
    <3>2. ticket' = [ticket EXCEPT ![edit[e].ticket] =
                        Updated(ticket[edit[e].ticket], edit[e].dto)] /\ UNCHANGED order
      BY <2>4 DEF UpdateTicketWrite
    <3>3. ticket[t].status = "RESERVED"
      BY <2>0, <3>1, <3>2 DEF Updated
    <3> QED
      BY <2>1, <3>2, <3>3
  <2>5. ASSUME NEW b \in Batch, NEW u \in Ticket, CreateTicket(b, u) PROVE Referenced(t)'
    <3>1. batch[b].dto \in BatchDto
      BY <2>5 DEF CreateTicket, IInv, RowsTypeOK
    <3>2. ticket[t].status = "RESERVED" /\ UNCHANGED order
      BY <2>0, <2>5, <3>1 DEF CreateTicket, NewTicketStatus
    <3> QED
      BY <2>1, <3>2
  <2>6. ASSUME NEW u \in Ticket, DeleteTicket(u) PROVE Referenced(t)'
    <3>1. ticket[t].status = "RESERVED" /\ UNCHANGED order
      BY <2>0, <2>6 DEF DeleteTicket, Row
    <3> QED
      BY <2>1, <3>1
  <2> QED
    BY <2>2, <2>3, <2>4, <2>5, <2>6, StepKinds
<1> QED
  BY <1>1, <1>2, Invariance, PTL DEF Spec

-----------------------------------------------------------------------------
(* Refinement: Checkout implements TicketSale *)

OnSale == {t \in Ticket : ticket[t].status = "AVAILABLE"}
SoldTo == [r \in Request |-> IF order[r] = NoOrder THEN {} ELSE OrderTickets(r)]

\* A commit is the atomic sale of the tickets the transaction had locked.
LEMMA CommitSells ==
    ASSUME IInv, NEW r \in Request, Commit(r)
    PROVE  \E T \in SUBSET Ticket : Sale!Sell(r, T)
<1>1. /\ ticket \in [Ticket -> Row]
      /\ order \in [Request -> OrderRow \cup {NoOrder}]
      /\ picked \in [Request -> SUBSET (Nat \X Ticket)]
      /\ code \in [Request -> PromoCode \cup {NoCode}]
      /\ quoted \in [Request -> [Ticket -> Nat]]
  BY DEF IInv, RowsTypeOK
<1>2. pc[r] = "priced" /\ HoldsLocks(r) /\ order[r] = NoOrder
  BY DEF Commit, HoldsLocks, IInv, OrderInv, Ordered
<1>3. cart[r] \in Cart /\ FitsCart(r, picked[r])
  BY <1>2 DEF IInv, SelectionInv, InTransaction
<1>4. Ids(r) # {}
  BY <1>3, SelectionFinite DEF Ids
<1>5. Ids(r) \subseteq OnSale
  <2>1. Ids(r) \subseteq Ticket
    BY <1>1 DEF Ids, TicketsIn
  <2> QED
    BY <1>2, <2>1 DEF IInv, LockInv, OnSale
<1>6. OnSale' = OnSale \ Ids(r)
  <2>1. \A t \in Ticket : ticket'[t].status =
            IF t \in Ids(r) THEN "RESERVED" ELSE ticket[t].status
    BY <1>1 DEF Commit, Row
  <2> QED
    BY <2>1 DEF OnSale
<1>7. SoldTo' = [SoldTo EXCEPT ![r] = Ids(r)]
  <2>1. order'[r] = NewOrder(r) /\ NewOrder(r) # NoOrder
    BY <1>1, OrderAssumption DEF Commit, NewOrder, OrderRow
  <2>2. \A s \in Request : s # r => order'[s] = order[s]
    BY <1>1 DEF Commit
  <2>3. OrderTickets(r)' = Ids(r)
    BY <2>1 DEF OrderTickets, NewOrder, Ids
  <2> QED
    BY <2>1, <2>2, <2>3 DEF SoldTo, OrderTickets
<1> QED
  BY <1>2, <1>4, <1>5, <1>6, <1>7 DEF Sale!Sell, OnSale, SoldTo

\* What the organiser does to a row either withdraws a ticket, or offers one
\* that no order owns.
LEMMA OrganiserOffers ==
    ASSUME NEW t \in Ticket,
           \A u \in Ticket : u # t => ticket'[u] = ticket[u],
           UNCHANGED order,
           ticket'[t].status = "AVAILABLE" =>
               ticket[t].status = "AVAILABLE" \/ ~Referenced(t)
    PROVE  \E T \in SUBSET Ticket : Sale!Offer(T) \/ Sale!Withdraw(T)
<1>1. SoldTo' = SoldTo
  BY DEF SoldTo, OrderTickets
<1>2. CASE ticket'[t].status = "AVAILABLE" /\ ~Referenced(t)
  <2>1. OnSale' = OnSale \cup {t}
    BY <1>2 DEF OnSale
  <2>2. t \notin UNION {SoldTo[r] : r \in Request}
    BY <1>2 DEF SoldTo, Referenced, OrderTickets
  <2>3. Sale!Offer({t})
    BY <1>1, <2>1, <2>2 DEF Sale!Offer, Sale!Sold, OnSale, SoldTo
  <2> QED
    BY <2>3
<1>3. CASE ticket'[t].status = "AVAILABLE" /\ ticket[t].status = "AVAILABLE"
  <2>1. OnSale' = OnSale \ {}
    BY <1>3 DEF OnSale
  <2> QED
    BY <1>1, <2>1 DEF Sale!Withdraw, OnSale, SoldTo
<1>4. CASE ticket'[t].status # "AVAILABLE"
  <2>1. OnSale' = OnSale \ {t}
    BY <1>4 DEF OnSale
  <2> QED
    BY <1>1, <2>1 DEF Sale!Withdraw, OnSale, SoldTo
<1> QED
  BY <1>2, <1>3, <1>4

LEMMA RefinementStep ==
    ASSUME NoReopening, IInv, [Next]_vars
    PROVE  [Sale!SaleNext]_(Sale!saleVars)
<1> USE DEF dbVars
<1>1. CASE UNCHANGED <<ticket, order>>
  BY <1>1 DEF Sale!saleVars, OrderTickets
<1>2. ASSUME NEW r \in Request, Commit(r) PROVE Sale!SaleNext
  BY <1>2, CommitSells DEF Sale!SaleNext
<1>3. ASSUME NEW e \in Edit, UpdateTicketWrite(e) PROVE Sale!SaleNext
  <2> DEFINE t == edit[e].ticket
             dto == edit[e].dto
  <2>1. t \in Ticket /\ dto \in EditDto /\ ticket \in [Ticket -> Row]
    BY <1>3 DEF IInv, RowsTypeOK, UpdateTicketWrite
  <2>2. ticket' = [ticket EXCEPT ![t] = Updated(ticket[t], dto)] /\ UNCHANGED order
    BY <1>3 DEF UpdateTicketWrite
  <2>3. ticket'[t].status = "AVAILABLE" => ticket[t].status = "AVAILABLE"
    BY <2>1, <2>2 DEF Updated, NoReopening
  <2> QED
    BY <2>1, <2>2, <2>3, OrganiserOffers DEF Sale!SaleNext
<1>4. ASSUME NEW b \in Batch, NEW t \in Ticket, CreateTicket(b, t) PROVE Sale!SaleNext
  <2>1. ~Referenced(t)
    BY <1>4, AbsentTicket DEF CreateTicket
  <2>2. (\A u \in Ticket : u # t => ticket'[u] = ticket[u]) /\ UNCHANGED order
    BY <1>4 DEF CreateTicket, IInv, RowsTypeOK
  <2> QED
    BY <2>1, <2>2, OrganiserOffers DEF Sale!SaleNext
<1>5. ASSUME NEW t \in Ticket, DeleteTicket(t) PROVE Sale!SaleNext
  <2>1. ~Referenced(t) /\ UNCHANGED order
    BY <1>5 DEF DeleteTicket
  <2>2. \A u \in Ticket : u # t => ticket'[u] = ticket[u]
    BY <1>5 DEF DeleteTicket, IInv, RowsTypeOK
  <2> QED
    BY <2>1, <2>2, OrganiserOffers DEF Sale!SaleNext
<1> QED
  BY <1>1, <1>2, <1>3, <1>4, <1>5, StepKinds

\* When no edit puts a ticket back on sale, the concurrent order transactions, the
\* edits, the deletes and the batches sell tickets as TicketSale does in one step.
THEOREM CheckoutImplementsTicketSale ==
    ASSUME NoReopening
    PROVE  Spec => ImplementsTicketSale
<1>1. Init => Sale!SaleInit
  <2> SUFFICES ASSUME Init PROVE Sale!SaleInit
    OBVIOUS
  <2>1. \A r \in Request : order[r] = NoOrder
    BY DEF Init
  <2> QED
    BY <2>1 DEF Sale!SaleInit
<1>2. IInv /\ [Next]_vars => [Sale!SaleNext]_(Sale!saleVars)
  BY RefinementStep
<1> QED
  BY <1>1, <1>2, Invariance, PTL DEF Spec, ImplementsTicketSale, Sale!SaleSpec

\* So no ticket is in two orders and none that is in an order is AVAILABLE, for as long
\* as no edit re-opens a ticket.
THEOREM TicketsSoldOnce ==
    ASSUME NoReopening
    PROVE  Spec => []Sale!SoldOnce
<1>1. Sale!SaleSpec => []Sale!SoldOnce
  BY Sale!SoldOnceAlways
<1> QED
  BY <1>1, CheckoutImplementsTicketSale, PTL DEF ImplementsTicketSale

-----------------------------------------------------------------------------
(* What an order costs *)

\* Steps that leave the listing and what the orders and calls hold of it alone.
LEMMA ListingQuiet ==
    ASSUME ListingInv,
           UNCHANGED <<ticket, order, totalAmount, cart, picked, quoted, raced>>
    PROVE  ListingInv'
BY DEF ListingInv, AsListed, Ids

\* A call that arrives or is refused holds no tickets.
LEMMA ListingNothingPicked ==
    ASSUME ListingInv, NEW r \in Request, picked'[r] = {}, order[r] = NoOrder,
           \A s \in Request : s # r => /\ picked'[s] = picked[s]
                                       /\ quoted'[s] = quoted[s]
                                       /\ cart'[s] = cart[s],
           UNCHANGED <<ticket, order, totalAmount, raced>>
    PROVE  ListingInv'
BY DEF ListingInv, AsListed, Ids, TicketsIn

\* The snapshot: what the loop selects has the title of its line and the price
\* that selectedTickets carry.
LEMMA ListingSelect ==
    ASSUME RowsTypeOK, OrderInv, ListingInv, NEW r \in Request, SelectTickets(r)
    PROVE  ListingInv'
<1>1. PICK E \in Selection(r) :
        /\ picked' = [picked EXCEPT ![r] = E]
        /\ quoted' = [quoted EXCEPT ![r] =
                        [t \in Ticket |-> IF t \in TicketsIn(E) THEN ticket[t].price ELSE 0]]
  BY DEF SelectTickets
<1>2. /\ picked'[r] = E
      /\ quoted'[r] = [t \in Ticket |-> IF t \in TicketsIn(E) THEN ticket[t].price ELSE 0]
      /\ \A s \in Request : s # r => picked'[s] = picked[s] /\ quoted'[s] = quoted[s]
  BY <1>1 DEF RowsTypeOK
<1>3. order[r] = NoOrder /\ UNCHANGED <<ticket, order, totalAmount, cart, raced>>
  BY DEF SelectTickets, OrderInv, Ordered, dbVars, organiserVars
<1>4. ASSUME NEW e \in E
      PROVE  /\ e[2] \in Ticket /\ e[2] \in TicketsIn(E)
             /\ ticket[e[2]].status = "AVAILABLE"
             /\ ticket[e[2]].title = cart[r][e[1]].title
  <2>1. /\ e[1] \in DOMAIN cart[r] /\ e[2] \in Ticket /\ e = <<e[1], e[2]>>
        /\ LineTickets(E, e[1]) \in FindAll(cart[r][e[1]].title, cart[r][e[1]].quantity)
    BY DEF Selection
  <2>2. e[2] \in LineTickets(E, e[1])
    BY <2>1 DEF LineTickets
  <2>3. LineTickets(E, e[1]) \subseteq Available(cart[r][e[1]].title)
    BY <2>1 DEF FindAll, kSubset
  <2> QED
    BY <2>1, <2>2, <2>3 DEF Available, TicketsIn
<1>5. (\A t \in Ids(r) : ticket[t].status # "ABSENT")'
  BY <1>2, <1>3, <1>4 DEF Ids, TicketsIn
<1>6. AsListed(r, picked[r], quoted[r])'
  <2>1. ASSUME NEW e \in E PROVE quoted'[r][e[2]] = ticket[e[2]].price
    BY <1>2, <1>4
  <2> QED
    BY <1>2, <1>3, <1>4, <2>1 DEF AsListed
<1> QED
  BY <1>2, <1>3, <1>5, <1>6 DEF ListingInv, AsListed, Ids

\* The commit writes down the prices it was quoted, and their total.
LEMMA ListingCommit ==
    ASSUME TypeOK, ListingInv, NEW r \in Request, Commit(r)
    PROVE  ListingInv'
<1>1. /\ order'[r] = NewOrder(r) /\ totalAmount'[r] = NewTotal(r)
      /\ picked'[r] = {}
      /\ \A s \in Request : s # r => /\ order'[s] = order[s]
                                     /\ totalAmount'[s] = totalAmount[s]
                                     /\ picked'[s] = picked[s]
                                     /\ quoted'[s] = quoted[s]
      /\ UNCHANGED <<cart, raced>>
  BY DEF Commit, TypeOK, RowsTypeOK, organiserVars
<1>2. \A t \in Ticket : /\ ticket'[t].title = ticket[t].title
                        /\ ticket'[t].price = ticket[t].price
                        /\ ticket[t].status # "ABSENT" => ticket'[t].status # "ABSENT"
  BY DEF Commit, TypeOK, RowsTypeOK, Row
<1>3. /\ order'[r].items = picked[r] /\ order'[r].price = quoted[r]
      /\ totalAmount'[r] = TotalAmount(order'[r].items, order'[r].price, order'[r].promo)
  BY <1>1 DEF NewOrder, NewTotal
<1>4. picked[r] \in SUBSET (Nat \X Ticket)
  BY DEF TypeOK, RowsTypeOK
<1>5. \A t \in Ids(r) : t \in Ticket /\ ticket[t].status # "ABSENT"
  BY <1>4 DEF ListingInv, Ids, TicketsIn
<1>6. AsListed(r, order[r].items, order[r].price)'
  BY <1>1, <1>2, <1>3, <1>4 DEF ListingInv, AsListed
<1>7. ASSUME NEW s \in Request
      PROVE  /\ (\A t \in Ids(s) : ticket[t].status # "ABSENT")'
             /\ AsListed(s, picked[s], quoted[s])'
  <2>1. CASE s = r
    BY <1>1, <2>1 DEF Ids, TicketsIn, AsListed
  <2>2. CASE s # r
    <3>1. picked[s] \in SUBSET (Nat \X Ticket)
      BY DEF TypeOK, RowsTypeOK
    <3> QED
      BY <1>1, <1>2, <2>2, <3>1 DEF ListingInv, Ids, TicketsIn, AsListed
  <2> QED
    BY <2>1, <2>2
<1>8. ASSUME NEW s \in Request, s # r, order'[s] # NoOrder
      PROVE  /\ AsListed(s, order[s].items, order[s].price)'
             /\ totalAmount'[s] = TotalAmount(order'[s].items, order'[s].price, order'[s].promo)
  <2>1. order'[s] = order[s] /\ order[s].items \in SUBSET (Nat \X Ticket)
    BY <1>1, <1>8 DEF TypeOK, RowsTypeOK, OrderRow
  <2> QED
    BY <1>1, <1>2, <1>8, <2>1 DEF ListingInv, AsListed
<1> QED
  BY <1>3, <1>6, <1>7, <1>8 DEF ListingInv

\* The organiser's writes: one row, which was there or that nobody has chosen; if
\* somebody has, a new title or price is recorded.
LEMMA ListingRow ==
    ASSUME RowsTypeOK, ListingInv, NEW t \in Ticket,
           \A u \in Ticket : u # t => ticket'[u] = ticket[u],
           UNCHANGED <<order, totalAmount, txVars>>, raced \subseteq raced',
           \/ ~Chosen(t)
           \/ /\ ticket'[t].status # "ABSENT"
              /\ \/ t \in raced'
                 \/ /\ ticket'[t].title = ticket[t].title
                    /\ ticket'[t].price = ticket[t].price
    PROVE  ListingInv'
<1>1. /\ picked \in [Request -> SUBSET (Nat \X Ticket)]
      /\ order \in [Request -> OrderRow \cup {NoOrder}]
  BY DEF RowsTypeOK
<1>2. UNCHANGED <<cart, picked, quoted>>
  BY DEF txVars
<1>3. ASSUME NEW r \in Request, NEW u \in Ids(r) PROVE ticket'[u].status # "ABSENT"
  <2>1. u \in Ticket /\ ticket[u].status # "ABSENT"
    BY <1>1 DEF ListingInv, Ids, TicketsIn
  <2>2. u = t => Chosen(t)
    BY <1>3 DEF Chosen
  <2> QED
    BY <2>1, <2>2
<1>4. ASSUME NEW r \in Request, NEW E \in SUBSET (Nat \X Ticket), NEW prices,
             AsListed(r, E, prices), t \in TicketsIn(E) => Chosen(t)
      PROVE  \A e \in E : e[2] \notin raced' =>
                /\ ticket'[e[2]].title = cart[r][e[1]].title
                /\ ticket'[e[2]].price = prices[e[2]]
  <2> SUFFICES ASSUME NEW e \in E, e[2] \notin raced'
               PROVE  /\ ticket'[e[2]].title = cart[r][e[1]].title
                      /\ ticket'[e[2]].price = prices[e[2]]
    OBVIOUS
  <2>1. e[2] \in Ticket /\ e[2] \in TicketsIn(E) /\ e[2] \notin raced
    BY DEF TicketsIn
  <2>2. /\ ticket[e[2]].title = cart[r][e[1]].title
        /\ ticket[e[2]].price = prices[e[2]]
    BY <1>4, <2>1 DEF AsListed
  <2> QED
    BY <1>4, <2>1, <2>2
<1>5. ASSUME NEW r \in Request PROVE AsListed(r, picked[r], quoted[r])'
  <2>1. picked[r] \in SUBSET (Nat \X Ticket) /\ AsListed(r, picked[r], quoted[r])
    BY <1>1 DEF ListingInv
  <2>2. t \in TicketsIn(picked[r]) => Chosen(t)
    BY DEF Chosen, Ids
  <2>3. \A e \in picked[r] : e[2] \notin raced' =>
          /\ ticket'[e[2]].title = cart[r][e[1]].title
          /\ ticket'[e[2]].price = quoted[r][e[2]]
    BY <1>4, <2>1, <2>2
  <2> QED
    BY <1>2, <2>3 DEF AsListed
<1>6. ASSUME NEW r \in Request, order[r] # NoOrder
      PROVE  AsListed(r, order[r].items, order[r].price)'
  <2>1. /\ order[r].items \in SUBSET (Nat \X Ticket)
        /\ AsListed(r, order[r].items, order[r].price)
    BY <1>1, <1>6 DEF ListingInv, OrderRow
  <2>2. t \in TicketsIn(order[r].items) => Chosen(t)
    BY <1>6 DEF Chosen, Referenced
  <2>3. \A e \in order[r].items : e[2] \notin raced' =>
          /\ ticket'[e[2]].title = cart[r][e[1]].title
          /\ ticket'[e[2]].price = order[r].price[e[2]]
    BY <1>4, <2>1, <2>2
  <2> QED
    BY <1>2, <2>3 DEF AsListed
<1> QED
  BY <1>2, <1>3, <1>5, <1>6 DEF ListingInv, Ids

\* The discounts a promo code may have, in 1/10000.
Share == 0..10000

\* A discount is a share of the price: what is left is a number of cents, and at
\* most the price.
LEMMA FinalPriceBound ==
    ASSUME NEW price \in Nat, NEW discount \in Share
    PROVE  FinalPrice(price, discount) \in Nat /\ FinalPrice(price, discount) <= price
<1> DEFINE p == price * (10000 - discount)
<1>1. p \in Nat /\ p <= price * 10000
  BY DEF Share
<1> HIDE DEF p
<1>2. (p + 5000) \div 10000 \in Nat /\ (p + 5000) \div 10000 <= price
  BY <1>1
<1> QED
  BY <1>2 DEF FinalPrice, p

LEMMA DiscountRange ==
    ASSUME NEW promo \in PromoCode \cup {NoCode}
    PROVE  DiscountOf(promo) \in Share
<1>1. 0 \in Share
  BY DEF Share
<1>2. Discount \in [PromoCode -> Share]
  BY PromoAssumption DEF Share
<1> QED
  BY <1>1, <1>2, PromoAssumption DEF DiscountOf

\* The summands of a total, with a code and without.
LEMMA Summands ==
    ASSUME NEW E \in SUBSET (Nat \X Ticket), NEW prices \in [Ticket -> Nat],
           NEW promo \in PromoCode \cup {NoCode}, NEW e \in E
    PROVE  /\ FinalPrice(prices[e[2]], DiscountOf(promo)) \in Nat
           /\ FinalPrice(prices[e[2]], DiscountOf(NoCode)) = prices[e[2]]
           /\ FinalPrice(prices[e[2]], DiscountOf(promo)) <= prices[e[2]]
<1>1. PICK price \in Nat : price = prices[e[2]]
  OBVIOUS
<1>2. PICK discount \in Share : discount = DiscountOf(promo)
  BY DiscountRange
<1>3. FinalPrice(price, DiscountOf(NoCode)) = price
  BY DEF FinalPrice, DiscountOf
<1>4. FinalPrice(price, discount) \in Nat /\ FinalPrice(price, discount) <= price
  BY <1>2, FinalPriceBound
<1> QED
  BY <1>1, <1>2, <1>3, <1>4

LEMMA TotalAmountNat ==
    ASSUME NEW E \in SUBSET (Nat \X Ticket), IsFiniteSet(E),
           NEW prices \in [Ticket -> Nat], NEW promo \in PromoCode \cup {NoCode}
    PROVE  TotalAmount(E, prices, promo) \in Nat
<1>1. [e \in E |-> FinalPrice(prices[e[2]], DiscountOf(promo))] \in [E -> Nat]
  BY Summands
<1> QED
  BY <1>1, SumNat DEF TotalAmount

\* A promo code never makes an order dearer, whatever is rounded.
THEOREM PromoCodeNeverRaises ==
    ASSUME NEW E \in SUBSET (Nat \X Ticket), IsFiniteSet(E),
           NEW prices \in [Ticket -> Nat], NEW promo \in PromoCode
    PROVE  TotalAmount(E, prices, promo) <= TotalAmount(E, prices, NoCode)
<1> DEFINE f == [e \in E |-> FinalPrice(prices[e[2]], DiscountOf(promo))]
           h == [e \in E |-> FinalPrice(prices[e[2]], DiscountOf(NoCode))]
<1>1. ASSUME NEW e \in E PROVE f[e] \in Nat /\ h[e] \in Nat /\ f[e] <= h[e]
  BY Summands
<1>2. f \in [E -> Nat] /\ h \in [E -> Nat]
  BY <1>1
<1>3. SumFunction(f) <= SumFunction(h)
  <2> HIDE DEF f, h
  <2> QED
    BY <1>1, <1>2, SumMonotone
<1> QED
  BY <1>3 DEF TotalAmount

-----------------------------------------------------------------------------

LEMMA TypeOKStep ==
    ASSUME IInv, TypeOK, [Next]_vars
    PROVE  TypeOK'
<1>1. RowsTypeOK'
  BY TypeStep DEF TypeOK
<1>2. UNCHANGED totalAmount \/ \E r \in Request : Commit(r)
  BY DEF Next, vars, dbVars, OrderHandler, EditHandler, BatchHandler, Submit, SelectTickets,
     NotEnoughTickets, ReserveTickets, ReserveConflict, ApplyPromoCode, PromoCodeRefused,
     Announce, LoseAnswer, Timeout, Reject, UpdateTicketRead, UpdateTicketWrite,
     UpdateTicketFails, CreateTickets, CreateTicket, CreateTicketFails, DeleteTicket,
     UpdatePromoCode
<1>3. ASSUME NEW r \in Request, Commit(r) PROVE totalAmount' \in [Request -> Nat]
  <2>1. pc[r] = "priced"
    BY <1>3 DEF Commit
  <2>2. cart[r] \in Cart /\ FitsCart(r, picked[r])
    BY <2>1 DEF IInv, SelectionInv, InTransaction
  <2>3. IsFiniteSet(picked[r]) /\ picked[r] \in SUBSET (Nat \X Ticket)
    BY <2>2, SelectionFinite
  <2>4. quoted[r] \in [Ticket -> Nat] /\ code[r] \in PromoCode \cup {NoCode}
    BY DEF TypeOK, RowsTypeOK
  <2>5. NewTotal(r) \in Nat
    BY <2>3, <2>4, TotalAmountNat DEF NewTotal
  <2> QED
    BY <1>3, <2>5 DEF Commit, TypeOK
<1> QED
  BY <1>1, <1>2, <1>3 DEF TypeOK

LEMMA ListingStep ==
    ASSUME IInv, TypeOK, ListingInv, [Next]_vars
    PROVE  ListingInv'
<1> USE DEF dbVars, txVars, organiserVars
<1>0. RowsTypeOK /\ OrderInv
  BY DEF IInv
<1>1. ASSUME NEW r \in Request, Submit(r) \/ OrderHandler(r) \/ LoseAnswer(r)
      PROVE  ListingInv'
  <2>1. CASE Submit(r)
    <3>1. picked[r] = {} /\ order[r] = NoOrder
      BY <2>1 DEF Submit, IInv, SelectionInv, OrderInv, InTransaction, Ordered
    <3>2. \A s \in Request : s # r => cart'[s] = cart[s]
      BY <2>1 DEF Submit
    <3> QED
      BY <2>1, <3>1, <3>2, ListingNothingPicked DEF Submit
  <2>2. CASE SelectTickets(r)
    BY <1>0, <2>2, ListingSelect
  <2>3. CASE NotEnoughTickets(r) \/ ReserveConflict(r) \/ PromoCodeRefused(r) \/ Timeout(r)
    <3>1. Reject(r) /\ pc[r] \in {"waiting"} \cup InTransaction
      BY <2>3 DEF NotEnoughTickets, ReserveConflict, PromoCodeRefused, Timeout, InTransaction
    <3>2. order[r] = NoOrder
      BY <3>1 DEF IInv, OrderInv, InTransaction, Ordered
    <3>3. /\ picked'[r] = {}
          /\ \A s \in Request : s # r => picked'[s] = picked[s] /\ quoted'[s] = quoted[s]
      BY <1>0, <3>1 DEF Reject, RowsTypeOK
    <3> QED
      BY <3>1, <3>2, <3>3, ListingNothingPicked DEF Reject
  <2>4. CASE ReserveTickets(r) \/ ApplyPromoCode(r) \/ Announce(r) \/ LoseAnswer(r)
    BY <2>4, ListingQuiet DEF ReserveTickets, ApplyPromoCode, Announce, LoseAnswer
  <2>5. CASE Commit(r)
    BY <2>5, ListingCommit
  <2> QED
    BY <1>1, <2>1, <2>2, <2>3, <2>4, <2>5 DEF OrderHandler
<1>2. ASSUME NEW e \in Edit, EditHandler(e) PROVE ListingInv'
  <2>1. CASE UpdateTicketWrite(e)
    <3> DEFINE t == edit[e].ticket
               dto == edit[e].dto
    <3>1. t \in Ticket /\ dto \in EditDto /\ ticket \in [Ticket -> Row]
      BY <1>0, <2>1 DEF RowsTypeOK, UpdateTicketWrite
    <3>2. /\ Exists(t)
          /\ ticket' = [ticket EXCEPT ![t] = Updated(ticket[t], dto)]
          /\ raced' = IF (dto.title # Undefined \/ dto.price # Undefined) /\ Chosen(t)
                      THEN raced \cup {t} ELSE raced
          /\ UNCHANGED <<order, totalAmount, txVars>>
      BY <2>1 DEF UpdateTicketWrite
    <3>3. \A u \in Ticket : u # t => ticket'[u] = ticket[u]
      BY <3>1, <3>2
    <3>4. ticket'[t].status # "ABSENT"
      <4>1. dto.status \in TicketStatus \cup {Undefined}
        BY <3>1, EditAssumption
      <4> QED
        BY <3>1, <3>2, <4>1 DEF Updated, Exists, TicketStatus
    <3>5. \/ t \in raced' \/ ~Chosen(t)
          \/ ticket'[t].title = ticket[t].title /\ ticket'[t].price = ticket[t].price
      BY <3>1, <3>2 DEF Updated
    <3>6. raced \subseteq raced'
      BY <3>2
    <3> HIDE DEF t, dto
    <3> QED
      BY <1>0, <3>1, <3>2, <3>3, <3>4, <3>5, <3>6, ListingRow
  <2>2. CASE UNCHANGED <<dbVars, txVars, raced>>
    BY <2>2, ListingQuiet
  <2> QED
    BY <1>2, <2>1, <2>2 DEF EditHandler, UpdateTicketRead, UpdateTicketFails
<1>3. ASSUME NEW b \in Batch, BatchHandler(b) PROVE ListingInv'
  <2>1. ASSUME NEW t \in Ticket, CreateTicket(b, t) PROVE ListingInv'
    <3>1. ticket[t].status = "ABSENT" /\ UNCHANGED <<order, totalAmount, txVars, raced>>
      BY <2>1 DEF CreateTicket
    <3>2. \A u \in Ticket : u # t => ticket'[u] = ticket[u]
      BY <2>1 DEF CreateTicket, IInv, RowsTypeOK
    <3>3. ~Chosen(t)
      BY <3>1, AbsentTicket DEF Chosen, ListingInv
    <3> QED
      BY <1>0, <3>1, <3>2, <3>3, ListingRow
  <2>2. CASE UNCHANGED <<dbVars, txVars, raced>>
    BY <2>2, ListingQuiet
  <2> QED
    BY <1>3, <2>1, <2>2 DEF BatchHandler, CreateTickets, CreateTicketFails
<1>4. ASSUME NEW t \in Ticket, DeleteTicket(t) PROVE ListingInv'
  <2>1. /\ UNCHANGED <<order, totalAmount, txVars, raced>>
        /\ \A u \in Ticket : u # t => ticket'[u] = ticket[u]
    BY <1>0, <1>4 DEF DeleteTicket, RowsTypeOK
  <2>2. /\ ticket'[t].status # "ABSENT"
        /\ ticket'[t].title = ticket[t].title
        /\ ticket'[t].price = ticket[t].price
    BY <1>0, <1>4 DEF DeleteTicket, RowsTypeOK, Row
  <2> QED
    BY <1>0, <2>1, <2>2, ListingRow
<1>5. ASSUME NEW p \in PromoCode, UpdatePromoCode(p) PROVE ListingInv'
  BY <1>5, ListingQuiet DEF UpdatePromoCode
<1>6. CASE UNCHANGED vars
  BY <1>6, ListingQuiet DEF vars
<1> QED
  BY <1>1, <1>2, <1>3, <1>4, <1>5, <1>6 DEF Next

LEMMA ListingInvariance == Spec => [](IInv /\ TypeOK /\ ListingInv)
<1>1. Init => TypeOK /\ ListingInv
  <2> SUFFICES ASSUME Init PROVE TypeOK /\ ListingInv
    OBVIOUS
  <2>1. TypeOK
    BY TypeInit DEF TypeOK, Init
  <2>2. \A r \in Request : picked[r] = {} /\ order[r] = NoOrder
    BY DEF Init
  <2> QED
    BY <2>1, <2>2 DEF ListingInv, AsListed, Ids, TicketsIn
<1> QED
  BY <1>1, IInvInit, IInvStep, TypeOKStep, ListingStep, PTL DEF Spec

\* Every row keeps its type, and what an order costs is a number of cents: the
\* sum of its rounded, discounted prices.
THEOREM TypesCorrect == Spec => []TypeOK
<1> QED
  BY ListingInvariance, PTL

\* Whatever the organiser does meanwhile, an order costs what its tickets cost now,
\* less its discount, and has the titles it asked for, unless an edit of one of
\* its tickets overtook it.
THEOREM ChargesMatchListing == Spec => []ChargeMatchesListing
<1>1. IInv /\ TypeOK /\ ListingInv => ChargeMatchesListing
  <2> SUFFICES ASSUME TypeOK, ListingInv, NEW r \in Request, order[r] # NoOrder,
                      OrderTickets(r) \cap raced = {}
               PROVE  /\ \A e \in order[r].items : ticket[e[2]].title = cart[r][e[1]].title
                      /\ totalAmount[r] = TotalAmount(order[r].items,
                                                      [t \in Ticket |-> ticket[t].price],
                                                      order[r].promo)
    BY DEF ChargeMatchesListing
  <2> DEFINE now == [t \in Ticket |-> ticket[t].price]
  <2>1. /\ AsListed(r, order[r].items, order[r].price)
        /\ totalAmount[r] = TotalAmount(order[r].items, order[r].price, order[r].promo)
    BY DEF ListingInv
  <2>2. order[r].items \in SUBSET (Nat \X Ticket)
    BY DEF TypeOK, RowsTypeOK, OrderRow
  <2>3. ASSUME NEW e \in order[r].items
        PROVE  /\ ticket[e[2]].title = cart[r][e[1]].title
               /\ now[e[2]] = order[r].price[e[2]]
    <3>1. e[2] \in Ticket /\ e[2] \notin raced
      BY <2>2 DEF OrderTickets, TicketsIn
    <3> QED
      BY <2>1, <3>1 DEF AsListed
  <2>4. TotalAmount(order[r].items, order[r].price, order[r].promo)
          = TotalAmount(order[r].items, now, order[r].promo)
    <3> HIDE DEF now
    <3> QED
      BY <2>3 DEF TotalAmount
  <2> QED
    BY <2>1, <2>3, <2>4
<1> QED
  BY <1>1, ListingInvariance, PTL
=============================================================================
