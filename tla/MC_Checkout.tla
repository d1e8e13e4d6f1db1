---------------------------- MODULE MC_Checkout ----------------------------
(* Instances of Checkout for TLC. *)
EXTENDS Checkout, TLC

CONSTANTS t1, t2, t3, r1, r2, r3, e1, e2, b1, vip, std, sale, noCode, noOrder, undef

Symmetric == Permutations({t1, t2, t3}) \cup Permutations({r1, r2, r3})
SymmetricSmall == Permutations({t1, t2}) \cup Permutations({r1, r2})

OneTitle == {vip}

\* One line of one or two tickets; two lines that repeat the title.
Carts == { <<[title |-> vip, quantity |-> 1]>>,
           <<[title |-> vip, quantity |-> 2]>>,
           <<[title |-> vip, quantity |-> 1], [title |-> vip, quantity |-> 1]>> }

OneTicketCart == { <<[title |-> vip, quantity |-> 1]>> }

TwoTitles == {vip, std}
MixedCarts == { <<[title |-> vip, quantity |-> 1]>>,
                <<[title |-> vip, quantity |-> 1], [title |-> std, quantity |-> 1]>> }

\* 15 percent of 5 cents and of 10 cents round to different sides.
OnePromo == [p \in {sale} |-> 1500]
NoPromo  == [p \in {} |-> 0]

TwoPrices == {5, 10}
OnePrice  == {5}

Body(status, title, price) == [status |-> status, title |-> title, price |-> price]

\* Bodies that set a status, any status.
StatusEdits == {Body(s, undef, undef) : s \in TicketStatus}
\* A body that raises the price and takes the ticket off sale; one that retitles.
ListingEdits == {Body("UNAVAILABLE", undef, 10), Body(undef, std, undef)}

BatchBody(status, n) == [status |-> status, title |-> vip, price |-> 5, quantity |-> n]
OnSaleBatch  == {BatchBody("AVAILABLE", 2)}
DefaultBatch == {BatchBody(undef, 1)}
=============================================================================
