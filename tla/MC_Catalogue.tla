---------------------------- MODULE MC_Catalogue ----------------------------
(* Instances of Catalogue for TLC. *)
EXTENDS Catalogue, TLC

CONSTANTS o1, o2, m1, m2, k1, k2, e1, e2, p1, p2, t1, t2, x1, c1, c2, none

\* Moments of an event, in hours, and the dates of bodies.
Hours == 0..2
OneHour == {0}
AllDates == [startedAt : Hours \cup {-1}, endedAt : Hours \cup {-1}]
OneDate == {[startedAt |-> 0, endedAt |-> 0]}

Symmetric == Permutations(Call) \cup Permutations(Promo) \cup Permutations(Owner)
             \cup Permutations(Company) \cup Permutations(Email)

InProgress(ops) == \E c \in Call : call[c].op \in ops

\* A behaviour begins with companies and their events, of which there may be two ...
NoCodes ==
  /\ \A p \in Promo : promo[p].row = "none"
  /\ \A e \in Event : wanted[e] = {} /\ e \notin torn
  /\ ~InProgress({"syncThemes", "createPromoCode"})

\* ... and, if there is one, may go on with the themes and codes of its event, which stays in it.
OneCompany ==
  /\ Cardinality({k \in Company : company[k].row # "none"}) = 1
  /\ ~InProgress({"createCompany", "updateCompany", "deleteCompany", "updateEvent"})

Bounded == NoCodes \/ OneCompany
=============================================================================
