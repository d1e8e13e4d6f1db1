----------------------------- MODULE TicketSale -----------------------------
(***************************************************************************)
(* What selling tickets promises, with no database, no transactions and no *)
(* concurrent handlers: an order takes a non-empty set of tickets that are *)
(* on sale, in one step, and keeps them; the organiser puts tickets that   *)
(* nobody owns on sale and withdraws tickets that are on sale.  Checkout   *)
(* (orders.service.ts, tickets.service.ts) implements it as long as no     *)
(* PATCH re-opens a ticket, see Checkout!ImplementsTicketSale.             *)
(***************************************************************************)
EXTENDS TLAPS

CONSTANTS Ticket,   \* ids of rows of the tickets table
          Request   \* POST /orders calls; each creates at most one order

VARIABLES onSale,   \* the tickets an order may take
          soldTo    \* the tickets of each request's order, {} if it has none

saleVars == <<onSale, soldTo>>

Sold == UNION {soldTo[r] : r \in Request}

SaleTypeOK ==
    /\ onSale \in SUBSET Ticket
    /\ soldTo \in [Request -> SUBSET Ticket]

SaleInit ==
    /\ onSale \in SUBSET Ticket
    /\ soldTo = [r \in Request |-> {}]

\* A request is granted all the tickets it asked for, or does not happen.
Sell(r, tickets) ==
    /\ soldTo[r] = {}
    /\ tickets # {}
    /\ tickets \subseteq onSale
    /\ soldTo' = [soldTo EXCEPT ![r] = tickets]
    /\ onSale' = onSale \ tickets

Offer(tickets) ==
    /\ tickets \cap Sold = {}
    /\ onSale' = onSale \cup tickets
    /\ UNCHANGED soldTo

Withdraw(tickets) ==
    /\ onSale' = onSale \ tickets
    /\ UNCHANGED soldTo

SaleNext ==
    \E tickets \in SUBSET Ticket :
        \/ \E r \in Request : Sell(r, tickets)
        \/ Offer(tickets)
        \/ Withdraw(tickets)

SaleSpec == SaleInit /\ [][SaleNext]_saleVars

-----------------------------------------------------------------------------

\* No ticket belongs to two orders, and none that belongs to an order is on sale.
SoldOnce ==
    /\ \A r, s \in Request : r # s => soldTo[r] \cap soldTo[s] = {}
    /\ onSale \cap Sold = {}

SaleInv == SaleTypeOK /\ SoldOnce

-----------------------------------------------------------------------------
(* Proofs                                                                  *)

LEMMA SaleInitially == SaleInit => SaleInv
BY DEF SaleInit, SaleInv, SaleTypeOK, SoldOnce, Sold

LEMMA SellStep ==
    ASSUME SaleInv, NEW tickets \in SUBSET Ticket, NEW r \in Request, Sell(r, tickets)
    PROVE  SaleInv'
<1> USE DEF SaleInv, SaleTypeOK, SoldOnce
<1>1. SaleTypeOK'
  BY DEF Sell
<1>2. \A s \in Request : soldTo'[s] = IF s = r THEN tickets ELSE soldTo[s]
  BY DEF Sell
<1>3. \A s \in Request : tickets \cap soldTo[s] = {}
  BY DEF Sell, Sold
<1>4. ASSUME NEW s \in Request, NEW q \in Request, s # q PROVE soldTo'[s] \cap soldTo'[q] = {}
  BY <1>2, <1>3, <1>4
<1>5. onSale' \cap Sold' = {}
  <2> SUFFICES ASSUME NEW t \in onSale', NEW s \in Request, t \in soldTo'[s] PROVE FALSE
    BY DEF Sold
  <2>1. t \in onSale /\ t \notin tickets
    BY DEF Sell
  <2> QED
    BY <1>2, <2>1 DEF Sold
<1> QED
  BY <1>1, <1>4, <1>5

LEMMA SaleStep == SaleInv /\ [SaleNext]_saleVars => SaleInv'
<1> SUFFICES ASSUME SaleInv, [SaleNext]_saleVars PROVE SaleInv'
  OBVIOUS
<1>1. ASSUME NEW tickets \in SUBSET Ticket, NEW r \in Request, Sell(r, tickets) PROVE SaleInv'
  BY <1>1, SellStep
<1>2. ASSUME NEW tickets \in SUBSET Ticket, Offer(tickets) \/ Withdraw(tickets) PROVE SaleInv'
  BY <1>2 DEF Offer, Withdraw, SaleInv, SaleTypeOK, SoldOnce, Sold
<1>3. CASE UNCHANGED saleVars
  BY <1>3 DEF saleVars, SaleInv, SaleTypeOK, SoldOnce, Sold
<1> QED
  BY <1>1, <1>2, <1>3 DEF SaleNext

\* Selling in one step never sells a ticket twice, nor offers one that is sold.
THEOREM SoldOnceAlways == SaleSpec => []SoldOnce
<1>1. SaleInv => SoldOnce
  BY DEF SaleInv
<1> QED
  BY <1>1, SaleInitially, SaleStep, PTL DEF SaleSpec
=============================================================================
