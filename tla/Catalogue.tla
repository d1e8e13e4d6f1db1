----------------------------- MODULE Catalogue -----------------------------
(***************************************************************************)
(* Companies, their events, and the themes and promo codes of events: what *)
(* an organiser creates, changes and deletes, against the foreign keys of  *)
(* the schema and the orders that reach the same rows.                     *)
(*                                                                         *)
(* Every await is a step.  Of a request, "id" is the id in the path,       *)
(* "body" what the client sent, "memo" unused.  Accounts are not deleted   *)
(* here: one that owns a company cannot be (Company.owner is Restrict).    *)
(***************************************************************************)
EXTENDS Requests, Integers, FiniteSets

CONSTANTS
  Owner,          \* accounts that register companies
  Email,          \* addresses of companies
  Company, Event, Promo,   \* ids; none is handed out twice
  Theme,          \* ids of table event_themes, which no request changes
  Code,           \* promo codes as customers type them
  Hour,           \* moments an event may start or end at
  Dates,          \* the dates bodies have; -1 for one that is not there
  MinDuration     \* EVENT_CONSTANTS.MIN_DURATION_MINUTES

ASSUME NoneAssumption ==
  None \notin Owner \cup Email \cup Company \cup Event \cup Promo \cup Theme \cup Code
ASSUME IdAssumption == Event \cap Promo = {}
ASSUME HourAssumption ==
  /\ Hour \subseteq Nat /\ MinDuration \in Nat
  /\ Dates \subseteq [startedAt : Hour \cup {-1}, endedAt : Hour \cup {-1}]

VARIABLES
  company,   \* table companies
  event,     \* table events, with its themes
  promo,     \* table promo_codes
  bought,    \* events with a ticket, and promo codes, that an order refers to
  torn,      \* history: events whose themes a failed or overlapped sync has left in disorder
  wanted     \* history: the themes asked for by the last sync that finished

vars == <<call, company, event, promo, bought, torn, wanted>>
tables == <<company, event, promo>>
history == <<torn, wanted>>

RowState == {"none", "stored", "deleted"}   \* what a deleted row held is forgotten
CompanyRow == [row : RowState, owner : Owner \cup {None}, email : Email \cup {None}]
EventRow == [row : RowState, company : Company \cup {None}, themes : SUBSET Theme,
             startedAt : Hour \cup {-1}, endedAt : Hour \cup {-1}, tickets : BOOLEAN]
\* "twin": history, another code was being created at the same time.
PromoRow == [row : RowState, event : Event \cup {None}, code : Code \cup {None},
             isActive : BOOLEAN, twin : BOOLEAN]

NoDates == [startedAt |-> -1, endedAt |-> -1]
NoCompany == [row |-> "none", owner |-> None, email |-> None]
NoEvent == [row |-> "none", company |-> None, themes |-> {}, tickets |-> FALSE,
            startedAt |-> -1, endedAt |-> -1]
NoPromo == [row |-> "none", event |-> None, code |-> None, isActive |-> FALSE, twin |-> FALSE]

\* What a PATCH of an event may hold beside the columns no property reads: its dates, the company
\* it moves to, if any, and whether table event_formats has the format it names, if any.
Patches == [dates : Dates \cup {NoDates}, company : Company \cup {None}, knownFormat : BOOLEAN]
Lists == [themes : SUBSET (Theme \cup {None})]
Switch == [isActive : BOOLEAN]
Body == Email \cup Code \cup Dates \cup Patches \cup Lists \cup Switch \cup {None}

Op == {"none", "createCompany", "updateCompany", "deleteCompany", "createEvent",
       "updateEvent", "syncThemes", "deleteEvent", "createTickets",
       "createPromoCode", "updatePromoCode", "validatePromoCode",
       "read"}
Stage == {"registering", "addressing", "founding", "renaming", "renamed", "closing", "closed",
          "planning", "editing", "edited", "theming", "clearing", "filling", "cancelling",
          "cancelled", "ticketing", "coding", "coded", "storing", "switching", "switched", "read"}

CompanyExists(k) == k # None /\ company[k].row = "stored"
EventExists(e) == e # None /\ event[e].row = "stored"
PromoExists(p) == p # None /\ promo[p].row = "stored"

FindByOwnerId(o) == {k \in Company : CompanyExists(k) /\ company[k].owner = o}
FindByEmail(m) == {k \in Company : CompanyExists(k) /\ company[k].email = m}
EventsOf(k) == {e \in Event : EventExists(e) /\ event[e].company = k}
PromosOf(e) == {p \in Promo : PromoExists(p) /\ promo[p].event = e}
Matching(e, x) == {p \in PromosOf(e) : promo[p].code = x}

Quiet == UNCHANGED <<tables, bought, history>>

-----------------------------------------------------------------------------
(* The rules of the DTOs and the guards.                                   *)

\* CompanyOwnerGuard: an unknown company is 404, another owner's 403.
CompanyOwnerGuard(v, k, inner) ==
  IF ~CompanyExists(k) THEN "NOT_FOUND"
  ELSE IF company[k].owner # v THEN "FORBIDDEN" ELSE inner

Apart(a, b) == a - b >= MinDuration \/ b - a >= MinDuration

\* IsTimeDifferenceGreaterThan looks at the two dates of one body, if both are there.
IsTimeDifferenceGreaterThan(dates) ==
  dates.startedAt = -1 \/ dates.endedAt = -1 \/ Apart(dates.startedAt, dates.endedAt)

\* CreateEventDto requires both dates, UpdateEventDto neither.
CreateEventDto(dates) ==
  dates.startedAt # -1 /\ dates.endedAt # -1 /\ IsTimeDifferenceGreaterThan(dates)
UpdateEventDto(dates) == IsTimeDifferenceGreaterThan(dates)

-----------------------------------------------------------------------------
(* Handlers of CompaniesController, EventsController, PromoCodesController.*)

Documented == {"OK", "BAD_REQUEST", "UNAUTHORIZED", "FORBIDDEN", "NOT_FOUND"}

CreateCompany(c) ==
  /\ \E v \in Owner, m \in Email, valid \in BOOLEAN :
       Admit(c, Arrival("createCompany", {"OK", "BAD_REQUEST", "UNAUTHORIZED", "CONFLICT"},
                        "registering", v, m), ValidationPipe(valid))
  /\ Quiet

UpdateCompany(c) ==
  /\ \E v \in Owner, k \in Company \cup {None}, valid \in BOOLEAN :
       Admit(c, Arrival("updateCompany", Documented, "renaming", k, None),
             CompanyOwnerGuard(v, k, ValidationPipe(valid)))
  /\ Quiet

UploadLogo(c) ==
  /\ \E v \in Owner, k \in Company \cup {None}, file \in BOOLEAN :
       Admit(c, Arrival("updateCompany", Documented, "renaming", k, None),
             CompanyOwnerGuard(v, k, ValidationPipe(file)))
  /\ Quiet

DeleteCompany(c) ==
  /\ \E v \in Owner, k \in Company \cup {None} :
       Admit(c, Arrival("deleteCompany", Documented, "closing", k, None),
             CompanyOwnerGuard(v, k, "OK"))
  /\ Quiet

\* findOne, findAllEvents
FindCompany(c) ==
  /\ \E k \in Company \cup {None} :
       Answer(c, Arrival("read", {"OK", "NOT_FOUND"}, "read", k, None),
              IF CompanyExists(k) THEN "OK" ELSE "NOT_FOUND")
  /\ Quiet

FindCompanyEvents(c) ==
  Answer(c, Arrival("read", {"OK"}, "read", None, None), "OK") /\ Quiet

\* Lists: which rows they hold, and in which order, is left out.
FindAllCompanies(c) ==
  /\ \E valid \in BOOLEAN : Answer(c, Arrival("read", {"OK"}, "read", None, None),
                                   ValidationPipe(valid))
  /\ Quiet

\* The company of the body is nobody's business but the foreign key's.
CreateEvent(c) ==
  /\ \E k \in Company \cup {None}, dates \in Dates :
       Admit(c, Arrival("createEvent", {"OK", "BAD_REQUEST", "UNAUTHORIZED", "FORBIDDEN"},
                        "planning", k, dates), ValidationPipe(CreateEventDto(dates)))
  /\ Quiet

\* UpdateEventDto is a PartialType of CreateEventDto, company and format included.
UpdateEvent(c) ==
  /\ \E e \in Event \cup {None}, patch \in Patches :
       /\ patch.dates \in Dates
       /\ Admit(c, Arrival("updateEvent", Documented, "editing", e, patch),
                ValidationPipe(UpdateEventDto(patch.dates)))
  /\ Quiet

Poster == [dates |-> NoDates, company |-> None, knownFormat |-> TRUE]

UploadPoster(c) ==
  /\ \E e \in Event \cup {None}, file \in BOOLEAN :
       Admit(c, Arrival("updateEvent", Documented, "editing", e, Poster), ValidationPipe(file))
  /\ Quiet

\* None in the list stands for an entry the tables refuse: an unknown theme, or one named twice.
SyncThemes(c) ==
  /\ \E e \in Event \cup {None}, list \in SUBSET (Theme \cup {None}), valid \in BOOLEAN :
       Admit(c, Arrival("syncThemes", Documented, "theming", e, [themes |-> list]),
             ValidationPipe(valid))
  /\ Quiet

DeleteEvent(c) ==
  /\ \E e \in Event \cup {None} :
       Admit(c, Arrival("deleteEvent", Documented, "cancelling", e, None), "OK")
  /\ Quiet

FindEvent(c) ==
  /\ \E e \in Event \cup {None} :
       Answer(c, Arrival("read", {"OK", "NOT_FOUND"}, "read", e, None),
              IF EventExists(e) THEN "OK" ELSE "NOT_FOUND")
  /\ Quiet

FindAllEvents(c) ==
  /\ \E valid \in BOOLEAN : Answer(c, Arrival("read", {"OK", "BAD_REQUEST"}, "read", None, None),
                                   ValidationPipe(valid))
  /\ Quiet

FindAllTickets(c) ==
  /\ \E valid \in BOOLEAN : Answer(c, Arrival("read", {"OK"}, "read", None, None),
                                   ValidationPipe(valid))
  /\ Quiet

FindAllTicketTypes(c) == Answer(c, Arrival("read", {"OK"}, "read", None, None), "OK") /\ Quiet

\* A ticket of another event is as unknown as one nobody has.
FindOneTicket(c) ==
  /\ \E e \in Event, of \in Event \cup {None} :
       Answer(c, Arrival("read", {"OK", "NOT_FOUND"}, "read", e, None),
              IF EventExists(of) /\ event[of].tickets /\ of = e THEN "OK" ELSE "NOT_FOUND")
  /\ Quiet

\* EventThemesController and EventFormatsController: "known" says whether the table has the id.
FindThemes(c) == Answer(c, Arrival("read", {"OK"}, "read", None, None), "OK") /\ Quiet
FindFormats(c) == Answer(c, Arrival("read", {"OK"}, "read", None, None), "OK") /\ Quiet

FindTheme(c) ==
  /\ \E known \in BOOLEAN : Answer(c, Arrival("read", {"OK", "NOT_FOUND"}, "read", None, None),
                                   IF known THEN "OK" ELSE "NOT_FOUND")
  /\ Quiet

FindFormat(c) ==
  /\ \E known \in BOOLEAN : Answer(c, Arrival("read", {"OK", "NOT_FOUND"}, "read", None, None),
                                   IF known THEN "OK" ELSE "NOT_FOUND")
  /\ Quiet

CreateTickets(c) ==
  /\ \E e \in Event \cup {None}, valid \in BOOLEAN :
       Admit(c, Arrival("createTickets", {"OK"}, "ticketing", e, None),
             ValidationPipe(valid))
  /\ Quiet

CreatePromoCode(c) ==
  /\ \E e \in Event \cup {None}, x \in Code, valid \in BOOLEAN :
       Admit(c, Arrival("createPromoCode", {"OK", "BAD_REQUEST", "UNAUTHORIZED", "CONFLICT"},
                        "coding", e, x), ValidationPipe(valid))
  /\ Quiet

FindAllPromoCodes(c) ==
  Answer(c, Arrival("read", {"OK", "UNAUTHORIZED"}, "read", None, None), "OK") /\ Quiet

FindPromoCode(c) ==
  /\ \E p \in Promo \cup {None} :
       Answer(c, Arrival("read", {"OK", "NOT_FOUND", "UNAUTHORIZED"}, "read", p, None),
              IF PromoExists(p) THEN "OK" ELSE "NOT_FOUND")
  /\ Quiet

UpdatePromoCode(c) ==
  /\ \E p \in Promo \cup {None}, isActive, valid \in BOOLEAN :
       Admit(c, Arrival("updatePromoCode", Documented \ {"FORBIDDEN"}, "switching", p,
                        [isActive |-> isActive]),
             ValidationPipe(valid))
  /\ Quiet

-----------------------------------------------------------------------------
(* CompaniesService.                                                       *)

CheckOwner(c) ==
  /\ At(c, "registering")
  /\ IF FindByOwnerId(call[c].id) = {} THEN Goto(c, "addressing") ELSE Reply(c, "CONFLICT")
  /\ Quiet

CheckAddress(c) ==
  /\ At(c, "addressing")
  /\ IF FindByEmail(call[c].body) = {} THEN Goto(c, "founding") ELSE Reply(c, "CONFLICT")
  /\ Quiet

\* Company.ownerId and Company.email are @unique.
UniqueCompany_AsChecked(o, m) == TRUE
UniqueCompany(o, m) == FindByOwnerId(o) = {} /\ FindByEmail(m) = {}

Founding == {c \in Call : At(c, "addressing") \/ At(c, "founding")}

CreateCompanyRow(c) ==
  LET o == call[c].id   m == call[c].body IN
  /\ At(c, "founding")
  /\ IF UniqueCompany(o, m)
     THEN \E k \in Company :
            /\ company[k].row = "none"
            /\ company' = [company EXCEPT ![k] = [row |-> "stored", owner |-> o, email |-> m]]
            /\ call' = [Overtaking(c, Founding) EXCEPT ![c] = Ended(@, "OK")]
     ELSE Reply(c, "INTERNAL_SERVER_ERROR") /\ UNCHANGED company
  /\ UNCHANGED <<event, promo, bought, history>>

\* update and updateLogo find the company, then write fields no property reads.
FindCompanyToUpdate(c) ==
  /\ At(c, "renaming")
  /\ IF CompanyExists(call[c].id) THEN Goto(c, "renamed") ELSE Reply(c, "NOT_FOUND")
  /\ Quiet

WriteCompany(c) ==
  /\ At(c, "renamed")
  /\ Reply(c, IF CompanyExists(call[c].id) THEN "OK" ELSE "INTERNAL_SERVER_ERROR")
  /\ Quiet

\* delete: the events are counted, then the foreign key is the judge.
FindCompanyToDelete_Unchecked(c) ==
  /\ At(c, "closing")
  /\ IF CompanyExists(call[c].id) THEN Goto(c, "closed") ELSE Reply(c, "NOT_FOUND")
  /\ Quiet

FindCompanyToDelete(c) ==
  LET k == call[c].id IN
  /\ At(c, "closing")
  /\ IF ~CompanyExists(k) THEN Reply(c, "NOT_FOUND")
     ELSE IF EventsOf(k) # {} THEN Reply(c, "BAD_REQUEST") ELSE Goto(c, "closed")
  /\ Quiet

DeleteCompanyRow(c) ==
  LET k == call[c].id IN
  /\ At(c, "closed")
  /\ IF CompanyExists(k) /\ EventsOf(k) = {}
     THEN company' = [company EXCEPT ![k] = [NoCompany EXCEPT !.row = "deleted"]] /\ Reply(c, "OK")
     ELSE UNCHANGED company /\ Reply(c, "INTERNAL_SERVER_ERROR")
  /\ UNCHANGED <<event, promo, bought, history>>

-----------------------------------------------------------------------------
(* EventsService.                                                          *)

\* Requests that have counted the events of company k and are about to delete it.
Closing(k) == {c \in Call : At(c, "closed") /\ call[c].id = k}

\* The company and the format of an event are foreign keys; nothing else looks for them.
CreateEventRow(c) ==
  LET k == call[c].id IN
  /\ At(c, "planning")
  /\ IF CompanyExists(k)
     THEN \E e \in Event :
            /\ event[e].row = "none"
            /\ event' = [event EXCEPT ![e] =
                 [row |-> "stored", company |-> k, themes |-> {}, tickets |-> FALSE,
                  startedAt |-> call[c].body.startedAt, endedAt |-> call[c].body.endedAt]]
            /\ call' = [Overtaking(c, Closing(k)) EXCEPT ![c] = Ended(@, "OK")]
     ELSE Reply(c, "INTERNAL_SERVER_ERROR") /\ UNCHANGED event
  /\ UNCHANGED <<company, promo, bought, history>>

\* findById at the head of update, updatePoster, syncThemes, delete and createTickets.
FindEventFirst(c, from, to) ==
  /\ At(c, from)
  /\ IF EventExists(call[c].id) THEN Goto(c, to) ELSE Reply(c, "NOT_FOUND")
  /\ Quiet

FindEventToUpdate(c) == FindEventFirst(c, "editing", "edited")
FindEventToTheme(c) == FindEventFirst(c, "theming", "clearing")

\* findById selects no tickets, so that delete's test of them never fails.
FindEventToDelete(c) == FindEventFirst(c, "cancelling", "cancelled")

\* Columns the patch does not have stay.
Patched(row, patch) ==
  LET start == patch.dates.startedAt   end == patch.dates.endedAt IN
  [row EXCEPT !.company = IF patch.company = None THEN @ ELSE patch.company,
              !.startedAt = IF start = -1 THEN @ ELSE start,
              !.endedAt = IF end = -1 THEN @ ELSE end]

\* The foreign keys of the row that a patch would leave behind.
ForeignKeysHold(patch) ==
  (patch.company = None \/ CompanyExists(patch.company)) /\ patch.knownFormat

\* update writes the whole body: an event may move to another company, and to one that is about to
\* be deleted.
WriteEvent(c) ==
  LET e == call[c].id   patch == call[c].body IN
  /\ At(c, "edited")
  /\ IF EventExists(e) /\ ForeignKeysHold(patch)
     THEN /\ event' = [event EXCEPT ![e] = Patched(@, patch)]
          /\ call' = [Overtaking(c, Closing(patch.company)) EXCEPT ![c] = Ended(@, "OK")]
     ELSE UNCHANGED event /\ Reply(c, "INTERNAL_SERVER_ERROR")
  /\ UNCHANGED <<company, promo, bought, history>>

\* syncThemes deletes every relation of the event, then inserts the list; no transaction.
Filling(e) == {c \in Call : At(c, "filling") /\ call[c].id = e}

ClearThemes_Keep(c) ==
  LET e == call[c].id IN
  /\ At(c, "clearing")
  /\ torn' = IF Filling(e) = {} THEN torn \ {e} ELSE torn \cup {e}
  /\ Goto(c, "filling")
  /\ UNCHANGED <<tables, bought, wanted>>

ClearThemes(c) ==
  LET e == call[c].id IN
  /\ At(c, "clearing")
  /\ event' = [event EXCEPT ![e].themes = {}]
  /\ torn' = IF Filling(e) = {} THEN torn \ {e} ELSE torn \cup {e}
  /\ Goto(c, "filling")
  /\ UNCHANGED <<company, promo, bought, wanted>>

\* The relation is unique and refers to an event and a theme: one bad entry refuses the list.
FillThemes(c) ==
  LET e == call[c].id
      list == call[c].body.themes IN
  /\ At(c, "filling")
  /\ IF EventExists(e) /\ None \notin list /\ list \cap event[e].themes = {}
     THEN /\ event' = [event EXCEPT ![e].themes = @ \cup list]
          /\ wanted' = [wanted EXCEPT ![e] = list]
          /\ Reply(c, "OK")
          /\ UNCHANGED torn
     ELSE /\ torn' = torn \cup {e}
          /\ Reply(c, "INTERNAL_SERVER_ERROR")
          /\ UNCHANGED <<event, wanted>>
  /\ UNCHANGED <<company, promo, bought>>

\* Tickets and promo codes go with their event (Cascade), unless an order refers to one of them
\* (OrderItem.ticket, Order.promoCode: Restrict).
Restricted_Cascade(e) == FALSE
Restricted(e) == e \in bought \/ PromosOf(e) \cap bought # {}

DeleteEventRow(c) ==
  LET e == call[c].id IN
  /\ At(c, "cancelled")
  /\ IF EventExists(e) /\ ~Restricted(e)
     THEN /\ event' = [event EXCEPT ![e] = [NoEvent EXCEPT !.row = "deleted"]]
          /\ promo' = [p \in Promo |-> IF p \in PromosOf(e) THEN [NoPromo EXCEPT !.row = "deleted"]
                                       ELSE promo[p]]
          /\ wanted' = [wanted EXCEPT ![e] = {}]
          /\ Reply(c, "OK")
     ELSE UNCHANGED <<event, promo, wanted>> /\ Reply(c, "INTERNAL_SERVER_ERROR")
  /\ UNCHANGED <<company, bought, torn>>

\* TicketsService.createTickets, in one step here: Checkout has its own steps.
StoreTickets(c) ==
  LET e == call[c].id IN
  /\ At(c, "ticketing")
  /\ \/ /\ EventExists(e)
        /\ event' = [event EXCEPT ![e].tickets = TRUE]
        /\ Reply(c, "OK")
     \/ ~EventExists(e) /\ Reply(c, "NOT_FOUND") /\ UNCHANGED event
     \/ EventExists(e) /\ event[e].tickets /\ Reply(c, "CONFLICT") /\ UNCHANGED event
  /\ UNCHANGED <<company, promo, bought, history>>

-----------------------------------------------------------------------------
(* PromoCodesService.                                                      *)

FindEventOfCode(c) == FindEventFirst(c, "coding", "coded")

\* validatePromoCode compares the code with the hashes of the event until one matches.
ValidateCode(e, x) ==
  IF Matching(e, x) = {} THEN {"NOT_FOUND"}
  ELSE {IF promo[p].isActive THEN "OK" ELSE "UNPROCESSABLE_ENTITY" : p \in Matching(e, x)}

ValidatePromoCode(c) ==
  /\ \E e \in Event \cup {None}, x \in Code, valid \in BOOLEAN :
       \E code \in ValidateCode(e, x) :
         Answer(c, Arrival("validatePromoCode", {"OK", "NOT_FOUND", "UNPROCESSABLE_ENTITY",
                           "UNAUTHORIZED"}, "read", e, x), IF valid THEN code ELSE "BAD_REQUEST")
  /\ Quiet

\* create wants the code not to be found.
CheckCode_ActiveOnly(c) ==
  /\ At(c, "coded")
  /\ \E code \in ValidateCode(call[c].id, call[c].body) :
       IF code = "OK" THEN Reply(c, "CONFLICT") ELSE Goto(c, "storing")
  /\ Quiet

CheckCode(c) ==
  /\ At(c, "coded")
  /\ \E code \in ValidateCode(call[c].id, call[c].body) :
       IF code = "NOT_FOUND" THEN Goto(c, "storing")
       ELSE Reply(c, IF code = "OK" THEN "CONFLICT" ELSE code)
  /\ Quiet

\* The hash is salted: the unique index never sees the same code twice.
StorePromoCode(c) ==
  LET e == call[c].id   x == call[c].body
      rivals == {d \in Call : At(d, "storing") /\ call[d].id = e /\ call[d].body = x} IN
  /\ At(c, "storing")
  /\ IF EventExists(e)
     THEN \E p \in Promo, isActive \in BOOLEAN :
            /\ promo[p].row = "none"
            /\ promo' = [promo EXCEPT ![p] = [row |-> "stored", event |-> e, code |-> x,
                           isActive |-> isActive, twin |-> call[c].overtaken]]
            /\ call' = [Overtaking(c, rivals) EXCEPT ![c] = Ended(@, "OK")]
     ELSE Reply(c, "INTERNAL_SERVER_ERROR") /\ UNCHANGED promo
  /\ UNCHANGED <<company, event, bought, history>>

FindCodeToUpdate(c) ==
  /\ At(c, "switching")
  /\ IF PromoExists(call[c].id) THEN Goto(c, "switched") ELSE Reply(c, "NOT_FOUND")
  /\ Quiet

WritePromoCode(c) ==
  LET p == call[c].id IN
  /\ At(c, "switched")
  /\ IF PromoExists(p)
     THEN promo' = [promo EXCEPT ![p].isActive = call[c].body.isActive] /\ Reply(c, "OK")
     ELSE UNCHANGED promo /\ Reply(c, "INTERNAL_SERVER_ERROR")
  /\ UNCHANGED <<company, event, bought, history>>

-----------------------------------------------------------------------------
\* An order is placed for a ticket of e, with or without a promo code: see Checkout.
PlaceOrder(e, used) ==
  /\ EventExists(e) /\ event[e].tickets
  /\ used \subseteq {p \in PromosOf(e) : promo[p].isActive} /\ Cardinality(used) <= 1
  /\ ~({e} \cup used \subseteq bought)
  /\ bought' = bought \cup {e} \cup used
  /\ UNCHANGED <<call, tables, history>>

\* The process dies and restarts; a sync may have got no further than its first write.
Crash ==
  /\ \E c \in Call : ~Free(c)
  /\ torn' = torn \cup {call[c].id : c \in {d \in Call : At(d, "filling")}}
  /\ call' = [c \in Call |-> Idle]
  /\ UNCHANGED <<tables, bought, wanted>>

Init ==
  /\ call = [c \in Call |-> Idle]
  /\ company = [k \in Company |-> NoCompany]
  /\ event = [e \in Event |-> NoEvent]
  /\ promo = [p \in Promo |-> NoPromo]
  /\ bought = {} /\ torn = {}
  /\ wanted = [e \in Event |-> {}]

CompanyStep(c) ==
  \/ CreateCompany(c) \/ UpdateCompany(c) \/ UploadLogo(c) \/ DeleteCompany(c) \/ FindCompany(c)
  \/ FindCompanyEvents(c) \/ FindAllCompanies(c) \/ CheckOwner(c) \/ CheckAddress(c) \/ CreateCompanyRow(c)
  \/ FindCompanyToUpdate(c) \/ WriteCompany(c) \/ FindCompanyToDelete(c) \/ DeleteCompanyRow(c)

EventStep(c) ==
  \/ CreateEvent(c) \/ UpdateEvent(c) \/ UploadPoster(c) \/ SyncThemes(c) \/ DeleteEvent(c)
  \/ FindAllEvents(c) \/ FindAllTickets(c) \/ FindAllTicketTypes(c) \/ FindOneTicket(c)
  \/ FindThemes(c) \/ FindTheme(c) \/ FindFormats(c) \/ FindFormat(c)
  \/ FindEvent(c) \/ CreateTickets(c) \/ CreateEventRow(c) \/ FindEventToUpdate(c)
  \/ FindEventToTheme(c) \/ FindEventToDelete(c) \/ WriteEvent(c) \/ ClearThemes(c)
  \/ FillThemes(c) \/ DeleteEventRow(c) \/ StoreTickets(c)

PromoStep(c) ==
  \/ CreatePromoCode(c) \/ FindAllPromoCodes(c) \/ FindPromoCode(c) \/ UpdatePromoCode(c)
  \/ ValidatePromoCode(c) \/ FindEventOfCode(c) \/ CheckCode(c) \/ StorePromoCode(c)
  \/ FindCodeToUpdate(c) \/ WritePromoCode(c)

Next ==
  \/ (\E c \in Call : SendOddAnswer(c)) /\ Quiet
  \/ /\ Unhurried
     /\ \/ \E c \in Call : CompanyStep(c) \/ EventStep(c) \/ PromoStep(c)
        \/ \E e \in Event, used \in SUBSET Promo : PlaceOrder(e, used)
        \/ Crash

Spec == Init /\ [][Next]_vars

-----------------------------------------------------------------------------
(* Properties.                                                             *)

\* The tables are well formed: rows refer to stored rows, and no two companies share an owner or
\* an address.
TypeOK ==
  /\ company \in [Company -> CompanyRow]
  /\ event \in [Event -> EventRow]
  /\ promo \in [Promo -> PromoRow]
  /\ bought \subseteq Event \cup Promo /\ torn \subseteq Event
  /\ wanted \in [Event -> SUBSET Theme]
  /\ call \in [Call -> Request(Op, Stage, Owner \cup Company \cup Event \cup Promo \cup {None}, Body,
                               {None})]
  /\ \A e \in Event : EventExists(e) => CompanyExists(event[e].company)
  /\ \A p \in Promo : PromoExists(p) => EventExists(promo[p].event)
  /\ \A k, l \in Company :
       CompanyExists(k) /\ CompanyExists(l) /\ k # l =>
         company[k].owner # company[l].owner /\ company[k].email # company[l].email

\* Whatever organisers delete, and whenever customers order, a ticket or a promo code that an order
\* refers to stays, and so do its event and that event's company (schema.prisma).
OrderedStays ==
  /\ \A e \in Event \cap bought : EventExists(e)
  /\ \A p \in Promo \cap bought : PromoExists(p)
  /\ \A e \in Event \cap bought : CompanyExists(event[e].company)

\* An event has the themes of the last list that was stored, once no sync of it is half done,
\* and unless that sync failed, died or overlapped another (EventsRepository.syncThemes): then
\* the next sync that runs alone puts them right.
ThemesAsListed ==
  \A e \in Event \ torn : Filling(e) = {} => event[e].themes = wanted[e]

\* An event has two promo codes with one text only if they were created at the same time
\* (PromoCodesService.create): no index sees it, and the compared rows are read before the insert.
PromoCodeOnce ==
  \A p, q \in Promo :
    /\ PromoExists(p) /\ PromoExists(q) /\ p # q
    /\ promo[p].event = promo[q].event /\ promo[p].code = promo[q].code
    => promo[p].twin \/ promo[q].twin

\* Answers the controllers do not document whatever happens.  delete's test of the tickets never
\* fails, and the foreign keys answer in its place.
UndocumentedAnswers ==
  {<<"createEvent", "INTERNAL_SERVER_ERROR">>, <<"createTickets", "BAD_REQUEST">>,
   <<"createTickets", "NOT_FOUND">>, <<"createTickets", "CONFLICT">>,
   <<"createPromoCode", "NOT_FOUND">>, <<"createPromoCode", "UNPROCESSABLE_ENTITY">>,
   <<"validatePromoCode", "BAD_REQUEST">>, <<"read", "BAD_REQUEST">>, <<"deleteEvent", "INTERNAL_SERVER_ERROR">>}

Gone(x) ==
  \/ x \in Company /\ company[x].row = "deleted"
  \/ x \in Event /\ event[x].row = "deleted"
  \/ x \in Promo /\ promo[x].row = "deleted"

\* A request is answered with a status its controller documents, unless it lost a race: its row was
\* deleted, another created what it had looked for, or its list of themes was refused or overlapped;
\* or a PATCH of an event names a company or a format that is not there, which nothing looks for
\* before the foreign keys do.
AnswersAsDocumented ==
  \A c \in Call : Odd(c) =>
    \/ Gone(call[c].id) \/ call[c].overtaken
    \/ call[c].op = "updateEvent" /\ ~ForeignKeysHold(call[c].body)
    \/ call[c].op = "syncThemes" /\ (None \in call[c].body.themes \/ call[c].id \in torn)
    \/ <<call[c].op, call[c].answer>> \in UndocumentedAnswers

\* The promise of IsTimeDifferenceGreaterThan: an event's end is at least MinDuration from its start.
EventDatesApart ==
  \A e \in Event : EventExists(e) => Apart(event[e].startedAt, event[e].endedAt)
=============================================================================
