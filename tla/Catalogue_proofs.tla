---------------------------- MODULE Catalogue_proofs ----------------------------
(***************************************************************************)
(* Proofs about Catalogue, for any number of organisers, companies,        *)
(* events, promo codes and requests: the tables stay well formed, what an  *)
(* order refers to is never deleted, the themes of an event are those last *)
(* asked for, promo codes are unique but for races, and answers are        *)
(* documented but for races.                                               *)
(***************************************************************************)
EXTENDS Catalogue, TLAPS

RequestRecord ==
  Request(Op, Stage, Owner \cup Company \cup Event \cup Promo \cup {None}, Body, {None})

-----------------------------------------------------------------------------
(* The inductive invariant                                                 *)

\* Stages by the table their requests have found their row in, or are to look for it.
CompanySeen == {"renamed", "closed"}
EventSeen == {"edited", "clearing", "filling", "cancelled", "coded", "storing"}
PromoSeen == {"switched"}
CompanyLooked == {"renaming", "closing", "planning"}
EventLooked == {"editing", "theming", "cancelling", "ticketing", "coding"}

Excused(r) ==
  \/ Gone(r.id) \/ r.overtaken
  \/ r.op = "updateEvent" /\ ~ForeignKeysHold(r.body)
  \/ r.op = "syncThemes" /\ (None \in r.body.themes \/ r.id \in torn)
  \/ <<r.op, r.answer>> \in UndocumentedAnswers

\* The answers the controller of a request documents, as far as its next steps give them.
Replies(r) ==
  /\ r.stage \notin {"idle", "odd"} => "OK" \in r.docs
  /\ r.stage \in {"registering", "addressing", "coding", "coded"} => "CONFLICT" \in r.docs
  /\ r.stage \in {"renaming", "closing", "editing", "theming", "cancelling", "switching"}
       => "NOT_FOUND" \in r.docs
  /\ r.stage = "closing" => "BAD_REQUEST" \in r.docs
  /\ r.stage = "planning" => r.op = "createEvent"
  /\ r.stage \in {"editing", "edited"} => r.op = "updateEvent"
  /\ r.stage \in {"theming", "clearing", "filling"} => r.op = "syncThemes"
  /\ r.stage \in {"cancelling", "cancelled"} => r.op = "deleteEvent"
  /\ r.stage = "ticketing" => r.op = "createTickets"
  /\ r.stage \in {"coding", "coded", "storing"} => r.op = "createPromoCode"
  /\ r.stage = "odd" => Excused(r)

\* What it was sent and the rows it has seen.
Findings(r) ==
  /\ r.stage \in {"registering", "addressing", "founding"} => r.id \in Owner /\ r.body \in Email
  /\ r.stage = "planning" => r.body \in Dates
  /\ r.stage \in {"editing", "edited"} => r.body \in Patches
  /\ r.stage \in {"theming", "clearing", "filling"} => r.body \in Lists
  /\ r.stage \in {"coding", "coded", "storing"} => r.body \in Code
  /\ r.stage \in {"switching", "switched"} => r.body \in Switch
  /\ r.stage \in CompanyLooked => r.id \in Company \cup {None}
  /\ r.stage \in EventLooked => r.id \in Event \cup {None}
  /\ r.stage = "switching" => r.id \in Promo \cup {None}
  /\ r.stage \in CompanySeen => r.id \in Company /\ company[r.id].row # "none"
  /\ r.stage \in EventSeen => r.id \in Event /\ event[r.id].row # "none"
  /\ r.stage \in PromoSeen => r.id \in Promo /\ promo[r.id].row # "none"

\* What it has found missing, unless another request has told it otherwise.
Absences(r) ==
  \/ r.overtaken
  \/ /\ r.stage \in {"addressing", "founding"} => FindByOwnerId(r.id) = {}
     /\ r.stage = "founding" => FindByEmail(r.body) = {}
     /\ r.stage = "closed" => EventsOf(r.id) = {}
     /\ r.stage = "storing" => Matching(r.id, r.body) = {}

RequestOK(r) == Replies(r) /\ Findings(r) /\ Absences(r)

FillingOf(k, e) == call[k].stage = "filling" /\ call[k].id = e

\* Between the two writes of the only sync an event has no themes; without one, those asked for.
SyncInv ==
  \A e \in Event : e \notin torn =>
    /\ (\A k \in Call : ~FillingOf(k, e)) => event[e].themes = wanted[e]
    /\ \A k \in Call : FillingOf(k, e) =>
         /\ event[e].themes = {}
         /\ \A l \in Call : FillingOf(l, e) => l = k

\* Nobody has asked an event for themes that does not exist yet.
Unborn == \A e \in Event : event[e].row = "none" => wanted[e] = {}

IInv ==
  /\ TypeOK
  /\ \A c \in Call : RequestOK(call[c])
  /\ OrderedStays /\ SyncInv /\ PromoCodeOnce /\ Unborn

-----------------------------------------------------------------------------
(* Requests                                                                *)

\* How a request ends.
LEMMA EndedRequest ==
    ASSUME NEW r \in RequestRecord, NEW code \in Status
    PROVE  /\ Ended(r, code) \in RequestRecord
           /\ code \in r.docs => Ended(r, code) = Idle
           /\ Ended(r, code).stage \in {"idle", "odd"}
           /\ code \in r.docs \/ Excused([r EXCEPT !.answer = code])
                => RequestOK(Ended(r, code))
<1> USE DEF RequestRecord, Request
<1>1. CASE code \in r.docs
  <2>1. Ended(r, code) = Idle
    BY <1>1 DEF Ended
  <2>2. Idle \in RequestRecord /\ Idle.stage = "idle"
    BY DEF Idle, Op, Body
  <2> QED
    BY <1>1, <2>1, <2>2 DEF RequestOK, Replies, Findings, Absences, CompanySeen, EventSeen,
                            PromoSeen, CompanyLooked, EventLooked
<1>2. CASE code \notin r.docs
  <2> DEFINE e == Ended(r, code)
  <2>1. e = [r EXCEPT !.docs = {}, !.stage = "odd", !.answer = code]
    BY <1>2 DEF Ended
  <2>2. e \in RequestRecord /\ e.stage = "odd"
    BY <2>1
  <2>3. Excused([r EXCEPT !.answer = code]) => Excused(e)
    BY <2>1 DEF Excused
  <2> QED
    BY <1>2, <2>2, <2>3 DEF RequestOK, Replies, Findings, Absences, CompanySeen, EventSeen,
                            PromoSeen, CompanyLooked, EventLooked
<1> QED
  BY <1>1, <1>2

LEMMA IdleType == Idle \in RequestRecord
BY DEF Idle, RequestRecord, Request, Op, Body

\* Nobody relies on an idle request.
LEMMA IdleOK ==
    ASSUME NEW c \in Call, call'[c] = Idle
    PROVE  RequestOK(call[c])'
BY DEF RequestOK, Replies, Findings, Absences, Idle, CompanySeen, EventSeen, PromoSeen,
       CompanyLooked, EventLooked

\* Ids are never handed out twice, and rows never come back.
RowsKept ==
  /\ \A k \in Company : /\ company[k].row # "none" => company'[k].row # "none"
                        /\ company[k].row = "deleted" => company'[k].row = "deleted"
  /\ \A e \in Event : /\ event[e].row # "none" => event'[e].row # "none"
                      /\ event[e].row = "deleted" => event'[e].row = "deleted"
  /\ \A p \in Promo : /\ promo[p].row # "none" => promo'[p].row # "none"
                      /\ promo[p].row = "deleted" => promo'[p].row = "deleted"

\* Nothing turns up that request k has found missing, or k is told.
Unsurprised(k) ==
  \/ call'[k].overtaken
  \/ /\ call[k].stage \in {"addressing", "founding"} =>
          \A j \in Company : company'[j].row = "stored" => company'[j] = company[j]
     /\ call[k].stage = "closed" =>
          \A e \in Event : event'[e].row = "stored" /\ event'[e].company = call[k].id =>
            event[e].row = "stored" /\ event[e].company = call[k].id
     /\ call[k].stage = "storing" =>
          \A p \in Promo :
            /\ promo'[p].row = "stored"
            /\ promo'[p].event = call[k].id /\ promo'[p].code = call[k].body
            => /\ promo[p].row = "stored"
               /\ promo[p].event = call[k].id /\ promo[p].code = call[k].body

\* What a request relies on stays true while others step.
LEMMA OthersKept ==
    ASSUME TypeOK, RowsKept, NEW k \in Call, RequestOK(call[k]), Unsurprised(k),
           \/ call'[k] = call[k]
           \/ call'[k] = [call[k] EXCEPT !.overtaken = TRUE],
           call[k].stage # "odd" \/ UNCHANGED <<company, torn>>
    PROVE  RequestOK(call[k])'
<1>1. call[k] \in RequestRecord
  BY DEF TypeOK, RequestRecord
<1>2. /\ call'[k].stage = call[k].stage /\ call'[k].docs = call[k].docs
      /\ call'[k].op = call[k].op /\ call'[k].id = call[k].id
      /\ call'[k].body = call[k].body /\ call'[k].answer = call[k].answer
      /\ call[k].overtaken => call'[k].overtaken
  BY <1>1 DEF RequestRecord, Request
<1>3. Replies(call[k])'
  <2>1. Gone(call[k].id) => Gone(call[k].id)'
    BY <1>2 DEF Gone, RowsKept
  <2>2. call[k].stage = "odd" => Excused(call[k])'
    BY <1>2, <2>1 DEF Excused, RequestOK, Replies, ForeignKeysHold, CompanyExists
  <2> QED
    BY <1>2, <2>2 DEF RequestOK, Replies
<1>4. Findings(call[k])'
  BY <1>2 DEF RequestOK, Findings, RowsKept, CompanySeen, EventSeen, PromoSeen, CompanyLooked,
              EventLooked
<1>5. Absences(call[k])'
  <2> SUFFICES ASSUME ~call'[k].overtaken PROVE Absences(call[k])'
    BY DEF Absences
  <2>1. ~call[k].overtaken
    BY <1>2
  <2>2. call[k].stage \in {"addressing", "founding"} => FindByOwnerId(call[k].id)' = {}
    BY <1>2, <2>1 DEF RequestOK, Absences, Unsurprised, FindByOwnerId, CompanyExists
  <2>3. call[k].stage = "founding" => FindByEmail(call[k].body)' = {}
    BY <1>2, <2>1 DEF RequestOK, Absences, Unsurprised, FindByEmail, CompanyExists
  <2>4. call[k].stage = "closed" => EventsOf(call[k].id)' = {}
    BY <1>2, <2>1 DEF RequestOK, Absences, Unsurprised, EventsOf, EventExists
  <2>5. call[k].stage = "storing" => Matching(call[k].id, call[k].body)' = {}
    BY <1>2, <2>1 DEF RequestOK, Absences, Unsurprised, Matching, PromosOf, PromoExists
  <2> QED
    BY <1>2, <2>2, <2>3, <2>4, <2>5 DEF Absences
<1> QED
  BY <1>3, <1>4, <1>5 DEF RequestOK

OthersStand(c) ==
  \A k \in Call \ {c} : \/ call'[k] = call[k]
                        \/ call'[k] = [call[k] EXCEPT !.overtaken = TRUE]

\* Of the other requests only "overtaken" has changed.
LEMMA OthersFields ==
    ASSUME TypeOK, NEW c \in Call, OthersStand(c), NEW k \in Call, k # c
    PROVE  /\ call'[k] \in RequestRecord
           /\ call'[k].stage = call[k].stage
           /\ call'[k].id = call[k].id
<1>1. call[k] \in RequestRecord
  BY DEF TypeOK, RequestRecord
<1>2. call'[k] = call[k] \/ call'[k] = [call[k] EXCEPT !.overtaken = TRUE]
  BY DEF OthersStand
<1> QED
  BY <1>1, <1>2 DEF RequestRecord, Request

LEMMA RequestsKept ==
    ASSUME IInv, RowsKept, NEW c \in Call, OthersStand(c), RequestOK(call[c])',
           \A k \in Call \ {c} : Unsurprised(k),
           Unhurried \/ UNCHANGED <<company, torn>>
    PROVE  (\A k \in Call : RequestOK(call[k]))'
<1> SUFFICES ASSUME NEW k \in Call, k # c PROVE RequestOK(call[k])'
  OBVIOUS
<1> QED
  BY OthersKept DEF IInv, OthersStand, Unhurried, Odd, At

\* A sync is not disturbed by the steps of other handlers.
LEMMA SyncStands ==
    ASSUME IInv, NEW c \in Call, OthersStand(c), call[c].stage # "filling",
           call'[c].stage # "filling", UNCHANGED <<torn, wanted>>,
           \A e \in Event : event'[e].themes = event[e].themes
    PROVE  SyncInv'
<1>1. \A k \in Call, e \in Event : FillingOf(k, e)' <=> FillingOf(k, e)
  BY OthersFields DEF IInv, FillingOf
<1>2. \A k \in Call, e \in Event :
        (call'[k].stage = "filling" /\ call'[k].id = e) <=> FillingOf(k, e)
  BY <1>1 DEF FillingOf
<1> QED
  BY <1>2 DEF IInv, SyncInv, FillingOf

\* A step of one request that writes no row keeps the invariant when its new state is sound.
LEMMA QuietStep ==
    ASSUME IInv, NEW c \in Call, NEW r \in RequestRecord, RequestOK(r),
           call' = [call EXCEPT ![c] = r], Quiet,
           call[c].stage # "filling", r.stage # "filling"
    PROVE  IInv'
<1> USE DEF Quiet, tables, history
<1>1. TypeOK'
  BY DEF IInv, TypeOK, RequestRecord, CompanyExists, EventExists, PromoExists
<1>2. call'[c] = r /\ OthersStand(c) /\ \A k \in Call \ {c} : call'[k] = call[k]
  BY DEF IInv, TypeOK, OthersStand
<1>3. RowsKept
  BY DEF RowsKept
<1>4. \A k \in Call \ {c} : Unsurprised(k)
  BY <1>2 DEF Unsurprised
<1>5. RequestOK(call[c])'
  <2>1. Replies(r) => Replies(call[c])'
    BY <1>2 DEF Replies, Excused, Gone, ForeignKeysHold, CompanyExists
  <2>2. Findings(r) => Findings(call[c])'
    BY <1>2 DEF Findings
  <2>3. Absences(r) => Absences(call[c])'
    BY <1>2 DEF Absences, FindByOwnerId, FindByEmail, EventsOf, Matching, PromosOf,
                CompanyExists, EventExists, PromoExists
  <2> QED
    BY <2>1, <2>2, <2>3 DEF RequestOK
<1>6. (\A k \in Call : RequestOK(call[k]))'
  BY <1>2, <1>3, <1>4, <1>5, RequestsKept
<1>7. SyncInv'
  BY <1>2, SyncStands
<1> QED
  BY <1>1, <1>6, <1>7 DEF IInv, OrderedStays, PromoCodeOnce, Unborn, CompanyExists,
                          EventExists, PromoExists

-----------------------------------------------------------------------------
(* Handlers                                                                *)

\* A handler lets a sound request in, or answers it as documented or excused.
LEMMA AdmitStep ==
    ASSUME IInv, NEW c \in Call, NEW r \in RequestRecord, NEW code \in Status, Quiet,
           Admit(c, r, code), code = "OK" => RequestOK(r) /\ r.stage # "filling",
           code \in r.docs \/ Excused([r EXCEPT !.answer = code])
    PROVE  IInv'
<1>1. call[c].stage # "filling"
  BY DEF Admit, Free, At
<1>2. CASE code = "OK"
  BY <1>1, <1>2, QuietStep DEF Admit
<1>3. CASE code # "OK"
  <2>1. call' = [call EXCEPT ![c] = Ended(r, code)]
    BY <1>3 DEF Admit
  <2> QED
    BY <1>1, <2>1, EndedRequest, QuietStep
<1> QED
  BY <1>2, <1>3

\* A read is answered at once.
LEMMA ReadStep ==
    ASSUME IInv, NEW c \in Call, Quiet,
           NEW op \in Op, NEW docs \in SUBSET Status, NEW code \in Status,
           NEW id \in Owner \cup Company \cup Event \cup Promo \cup {None}, NEW body \in Body,
           Answer(c, Arrival(op, docs, "read", id, body), code),
           code \in docs \/ <<op, code>> \in UndocumentedAnswers
    PROVE  IInv'
<1> DEFINE r == Arrival(op, docs, "read", id, body)
<1>1. r \in RequestRecord /\ r.op = op /\ r.docs = docs
  BY DEF Arrival, Idle, RequestRecord, Request, Stage
<1>2. code \in r.docs \/ Excused([r EXCEPT !.answer = code])
  BY <1>1 DEF Excused, RequestRecord, Request
<1>3. call[c].stage # "filling" /\ call' = [call EXCEPT ![c] = Ended(r, code)]
  BY DEF Answer, Free, At
<1> HIDE DEF r
<1> QED
  BY <1>1, <1>2, <1>3, EndedRequest, QuietStep

LEMMA HandlersOfCompanies ==
    ASSUME IInv, NEW c \in Call,
           CreateCompany(c) \/ UpdateCompany(c) \/ UploadLogo(c) \/ DeleteCompany(c)
    PROVE  IInv'
<1> USE DEF Status, Op, Stage, Documented
<1>1. CASE CreateCompany(c)
  <2> DEFINE docs == {"OK", "BAD_REQUEST", "UNAUTHORIZED", "CONFLICT"}
  <2>1. PICK v \in Owner, m \in Email, valid \in BOOLEAN :
          Admit(c, Arrival("createCompany", docs, "registering", v, m), ValidationPipe(valid))
    BY <1>1 DEF CreateCompany
  <2> DEFINE r == Arrival("createCompany", docs, "registering", v, m)
             code == ValidationPipe(valid)
  <2>2. /\ r \in RequestRecord /\ r.stage = "registering" /\ r.op = "createCompany"
        /\ r.docs = docs /\ r.id = v /\ r.body = m
    BY DEF Arrival, Idle, RequestRecord, Request, Body, Lists, Switch
  <2>3. code \in Status /\ code \in r.docs
    BY <2>2 DEF ValidationPipe
  <2>4. RequestOK(r)
    BY <2>2 DEF RequestOK, Replies, Findings, Absences, CompanySeen, EventSeen, PromoSeen,
                CompanyLooked, EventLooked, Lists, Switch
  <2>5. Quiet /\ Admit(c, r, code) /\ r.stage # "filling"
    BY <1>1, <2>1, <2>2 DEF CreateCompany
  <2> HIDE DEF docs, r, code
  <2> QED
    BY <2>2, <2>3, <2>4, <2>5, AdmitStep
<1>2. CASE UpdateCompany(c)
  <2> DEFINE docs == Documented
  <2>1. PICK v \in Owner, k \in Company \cup {None}, valid \in BOOLEAN :
          Admit(c, Arrival("updateCompany", docs, "renaming", k, None),
                CompanyOwnerGuard(v, k, ValidationPipe(valid)))
    BY <1>2 DEF UpdateCompany
  <2> DEFINE r == Arrival("updateCompany", docs, "renaming", k, None)
             code == CompanyOwnerGuard(v, k, ValidationPipe(valid))
  <2>2. /\ r \in RequestRecord /\ r.stage = "renaming" /\ r.op = "updateCompany"
        /\ r.docs = docs /\ r.id = k /\ r.body = None
    BY DEF Arrival, Idle, RequestRecord, Request, Body, Lists, Switch
  <2>3. code \in Status /\ code \in r.docs
    BY <2>2 DEF CompanyOwnerGuard, ValidationPipe
  <2>4. RequestOK(r)
    BY <2>2 DEF RequestOK, Replies, Findings, Absences, CompanySeen, EventSeen, PromoSeen,
                CompanyLooked, EventLooked, Lists, Switch
  <2>5. Quiet /\ Admit(c, r, code) /\ r.stage # "filling"
    BY <1>2, <2>1, <2>2 DEF UpdateCompany
  <2> HIDE DEF docs, r, code
  <2> QED
    BY <2>2, <2>3, <2>4, <2>5, AdmitStep
<1>3. CASE UploadLogo(c)
  <2> DEFINE docs == Documented
  <2>1. PICK v \in Owner, k \in Company \cup {None}, file \in BOOLEAN :
          Admit(c, Arrival("updateCompany", docs, "renaming", k, None),
                CompanyOwnerGuard(v, k, ValidationPipe(file)))
    BY <1>3 DEF UploadLogo
  <2> DEFINE r == Arrival("updateCompany", docs, "renaming", k, None)
             code == CompanyOwnerGuard(v, k, ValidationPipe(file))
  <2>2. /\ r \in RequestRecord /\ r.stage = "renaming" /\ r.op = "updateCompany"
        /\ r.docs = docs /\ r.id = k /\ r.body = None
    BY DEF Arrival, Idle, RequestRecord, Request, Body, Lists, Switch
  <2>3. code \in Status /\ code \in r.docs
    BY <2>2 DEF CompanyOwnerGuard, ValidationPipe
  <2>4. RequestOK(r)
    BY <2>2 DEF RequestOK, Replies, Findings, Absences, CompanySeen, EventSeen, PromoSeen,
                CompanyLooked, EventLooked, Lists, Switch
  <2>5. Quiet /\ Admit(c, r, code) /\ r.stage # "filling"
    BY <1>3, <2>1, <2>2 DEF UploadLogo
  <2> HIDE DEF docs, r, code
  <2> QED
    BY <2>2, <2>3, <2>4, <2>5, AdmitStep
<1>4. CASE DeleteCompany(c)
  <2> DEFINE docs == Documented
  <2>1. PICK v \in Owner, k \in Company \cup {None} :
          Admit(c, Arrival("deleteCompany", docs, "closing", k, None),
                CompanyOwnerGuard(v, k, "OK"))
    BY <1>4 DEF DeleteCompany
  <2> DEFINE r == Arrival("deleteCompany", docs, "closing", k, None)
             code == CompanyOwnerGuard(v, k, "OK")
  <2>2. /\ r \in RequestRecord /\ r.stage = "closing" /\ r.op = "deleteCompany"
        /\ r.docs = docs /\ r.id = k /\ r.body = None
    BY DEF Arrival, Idle, RequestRecord, Request, Body, Lists, Switch
  <2>3. code \in Status /\ code \in r.docs
    BY <2>2 DEF CompanyOwnerGuard
  <2>4. RequestOK(r)
    BY <2>2 DEF RequestOK, Replies, Findings, Absences, CompanySeen, EventSeen, PromoSeen,
                CompanyLooked, EventLooked, Lists, Switch
  <2>5. Quiet /\ Admit(c, r, code) /\ r.stage # "filling"
    BY <1>4, <2>1, <2>2 DEF DeleteCompany
  <2> HIDE DEF docs, r, code
  <2> QED
    BY <2>2, <2>3, <2>4, <2>5, AdmitStep
<1> QED
  BY <1>1, <1>2, <1>3, <1>4

LEMMA HandlersOfEvents ==
    ASSUME IInv, NEW c \in Call,
           CreateEvent(c) \/ UpdateEvent(c) \/ UploadPoster(c) \/ SyncThemes(c) \/ DeleteEvent(c)
    PROVE  IInv'
<1> USE DEF Status, Op, Stage, Documented
<1>1. CASE CreateEvent(c)
  <2> DEFINE docs == {"OK", "BAD_REQUEST", "UNAUTHORIZED", "FORBIDDEN"}
  <2>1. PICK k \in Company \cup {None}, dates \in Dates :
          Admit(c, Arrival("createEvent", docs, "planning", k, dates),
                ValidationPipe(CreateEventDto(dates)))
    BY <1>1 DEF CreateEvent
  <2> DEFINE r == Arrival("createEvent", docs, "planning", k, dates)
             code == ValidationPipe(CreateEventDto(dates))
  <2>2. /\ r \in RequestRecord /\ r.stage = "planning" /\ r.op = "createEvent"
        /\ r.docs = docs /\ r.id = k /\ r.body = dates
    BY DEF Arrival, Idle, RequestRecord, Request, Body, Lists, Switch
  <2>3. code \in Status /\ code \in r.docs
    BY <2>2 DEF ValidationPipe
  <2>4. RequestOK(r)
    BY <2>2 DEF RequestOK, Replies, Findings, Absences, CompanySeen, EventSeen, PromoSeen,
                CompanyLooked, EventLooked, Lists, Switch
  <2>5. Quiet /\ Admit(c, r, code) /\ r.stage # "filling"
    BY <1>1, <2>1, <2>2 DEF CreateEvent
  <2> HIDE DEF docs, r, code
  <2> QED
    BY <2>2, <2>3, <2>4, <2>5, AdmitStep
<1>2. CASE UpdateEvent(c)
  <2> DEFINE docs == Documented
  <2>1. PICK e \in Event \cup {None}, patch \in Patches :
          Admit(c, Arrival("updateEvent", docs, "editing", e, patch),
                ValidationPipe(UpdateEventDto(patch.dates)))
    BY <1>2 DEF UpdateEvent
  <2> DEFINE r == Arrival("updateEvent", docs, "editing", e, patch)
             code == ValidationPipe(UpdateEventDto(patch.dates))
  <2>2. /\ r \in RequestRecord /\ r.stage = "editing" /\ r.op = "updateEvent"
        /\ r.docs = docs /\ r.id = e /\ r.body = patch
    BY DEF Arrival, Idle, RequestRecord, Request, Body, Lists, Switch
  <2>3. code \in Status /\ code \in r.docs
    BY <2>2 DEF ValidationPipe
  <2>4. RequestOK(r)
    BY <2>2 DEF RequestOK, Replies, Findings, Absences, CompanySeen, EventSeen, PromoSeen,
                CompanyLooked, EventLooked, Lists, Switch
  <2>5. Quiet /\ Admit(c, r, code) /\ r.stage # "filling"
    BY <1>2, <2>1, <2>2 DEF UpdateEvent
  <2> HIDE DEF docs, r, code
  <2> QED
    BY <2>2, <2>3, <2>4, <2>5, AdmitStep
<1>3. CASE UploadPoster(c)
  <2> DEFINE docs == Documented
  <2>1. PICK e \in Event \cup {None}, file \in BOOLEAN :
          Admit(c, Arrival("updateEvent", docs, "editing", e, Poster), ValidationPipe(file))
    BY <1>3 DEF UploadPoster
  <2> DEFINE r == Arrival("updateEvent", docs, "editing", e, Poster)
             code == ValidationPipe(file)
  <2> Poster \in Patches
    BY DEF Poster, Patches
  <2>2. /\ r \in RequestRecord /\ r.stage = "editing" /\ r.op = "updateEvent"
        /\ r.docs = docs /\ r.id = e /\ r.body = Poster
    BY DEF Arrival, Idle, RequestRecord, Request, Body, Lists, Switch
  <2>3. code \in Status /\ code \in r.docs
    BY <2>2 DEF ValidationPipe
  <2>4. RequestOK(r)
    BY <2>2 DEF RequestOK, Replies, Findings, Absences, CompanySeen, EventSeen, PromoSeen,
                CompanyLooked, EventLooked, Lists, Switch
  <2>5. Quiet /\ Admit(c, r, code) /\ r.stage # "filling"
    BY <1>3, <2>1, <2>2 DEF UploadPoster
  <2> HIDE DEF docs, r, code
  <2> QED
    BY <2>2, <2>3, <2>4, <2>5, AdmitStep
<1>4. CASE SyncThemes(c)
  <2> DEFINE docs == Documented
  <2>1. PICK e \in Event \cup {None}, list \in SUBSET (Theme \cup {None}), valid \in BOOLEAN :
          Admit(c, Arrival("syncThemes", docs, "theming", e, [themes |-> list]),
                ValidationPipe(valid))
    BY <1>4 DEF SyncThemes
  <2> DEFINE r == Arrival("syncThemes", docs, "theming", e, [themes |-> list])
             code == ValidationPipe(valid)
  <2>2. /\ r \in RequestRecord /\ r.stage = "theming" /\ r.op = "syncThemes"
        /\ r.docs = docs /\ r.id = e /\ r.body = [themes |-> list]
    BY DEF Arrival, Idle, RequestRecord, Request, Body, Lists, Switch
  <2>3. code \in Status /\ code \in r.docs
    BY <2>2 DEF ValidationPipe
  <2>4. RequestOK(r)
    BY <2>2 DEF RequestOK, Replies, Findings, Absences, CompanySeen, EventSeen, PromoSeen,
                CompanyLooked, EventLooked, Lists, Switch
  <2>5. Quiet /\ Admit(c, r, code) /\ r.stage # "filling"
    BY <1>4, <2>1, <2>2 DEF SyncThemes
  <2> HIDE DEF docs, r, code
  <2> QED
    BY <2>2, <2>3, <2>4, <2>5, AdmitStep
<1>5. CASE DeleteEvent(c)
  <2> DEFINE docs == Documented
  <2>1. PICK e \in Event \cup {None} :
          Admit(c, Arrival("deleteEvent", docs, "cancelling", e, None), "OK")
    BY <1>5 DEF DeleteEvent
  <2> DEFINE r == Arrival("deleteEvent", docs, "cancelling", e, None)
             code == "OK"
  <2>2. /\ r \in RequestRecord /\ r.stage = "cancelling" /\ r.op = "deleteEvent"
        /\ r.docs = docs /\ r.id = e /\ r.body = None
    BY DEF Arrival, Idle, RequestRecord, Request, Body, Lists, Switch
  <2>3. code \in Status /\ code \in r.docs
    BY <2>2
  <2>4. RequestOK(r)
    BY <2>2 DEF RequestOK, Replies, Findings, Absences, CompanySeen, EventSeen, PromoSeen,
                CompanyLooked, EventLooked, Lists, Switch
  <2>5. Quiet /\ Admit(c, r, code) /\ r.stage # "filling"
    BY <1>5, <2>1, <2>2 DEF DeleteEvent
  <2> HIDE DEF docs, r, code
  <2> QED
    BY <2>2, <2>3, <2>4, <2>5, AdmitStep
<1> QED
  BY <1>1, <1>2, <1>3, <1>4, <1>5

LEMMA HandlersOfOffers ==
    ASSUME IInv, NEW c \in Call,
           CreateTickets(c) \/ CreatePromoCode(c) \/ UpdatePromoCode(c)
    PROVE  IInv'
<1> USE DEF Status, Op, Stage, Documented
<1>1. CASE CreateTickets(c)
  <2> DEFINE docs == {"OK"}
  <2>1. PICK e \in Event \cup {None}, valid \in BOOLEAN :
          Admit(c, Arrival("createTickets", docs, "ticketing", e, None), ValidationPipe(valid))
    BY <1>1 DEF CreateTickets
  <2> DEFINE r == Arrival("createTickets", docs, "ticketing", e, None)
             code == ValidationPipe(valid)
  <2>2. /\ r \in RequestRecord /\ r.stage = "ticketing" /\ r.op = "createTickets"
        /\ r.docs = docs /\ r.id = e /\ r.body = None
    BY DEF Arrival, Idle, RequestRecord, Request, Body, Lists, Switch
  <2>3. code \in Status /\ (code \in r.docs \/ <<"createTickets", code>> \in UndocumentedAnswers)
    BY <2>2 DEF ValidationPipe, UndocumentedAnswers
  <2>4. RequestOK(r)
    BY <2>2 DEF RequestOK, Replies, Findings, Absences, CompanySeen, EventSeen, PromoSeen,
                CompanyLooked, EventLooked, Lists, Switch
  <2>5. Quiet /\ Admit(c, r, code) /\ r.stage # "filling"
    BY <1>1, <2>1, <2>2 DEF CreateTickets
  <2>6. code \in r.docs \/ Excused([r EXCEPT !.answer = code])
    BY <2>2, <2>3 DEF Excused, RequestRecord, Request
  <2> HIDE DEF docs, r, code
  <2> QED
    BY <2>2, <2>3, <2>4, <2>5, <2>6, AdmitStep
<1>2. CASE CreatePromoCode(c)
  <2> DEFINE docs == {"OK", "BAD_REQUEST", "UNAUTHORIZED", "CONFLICT"}
  <2>1. PICK e \in Event \cup {None}, x \in Code, valid \in BOOLEAN :
          Admit(c, Arrival("createPromoCode", docs, "coding", e, x), ValidationPipe(valid))
    BY <1>2 DEF CreatePromoCode
  <2> DEFINE r == Arrival("createPromoCode", docs, "coding", e, x)
             code == ValidationPipe(valid)
  <2>2. /\ r \in RequestRecord /\ r.stage = "coding" /\ r.op = "createPromoCode"
        /\ r.docs = docs /\ r.id = e /\ r.body = x
    BY DEF Arrival, Idle, RequestRecord, Request, Body, Lists, Switch
  <2>3. code \in Status /\ code \in r.docs
    BY <2>2 DEF ValidationPipe
  <2>4. RequestOK(r)
    BY <2>2 DEF RequestOK, Replies, Findings, Absences, CompanySeen, EventSeen, PromoSeen,
                CompanyLooked, EventLooked, Lists, Switch
  <2>5. Quiet /\ Admit(c, r, code) /\ r.stage # "filling"
    BY <1>2, <2>1, <2>2 DEF CreatePromoCode
  <2> HIDE DEF docs, r, code
  <2> QED
    BY <2>2, <2>3, <2>4, <2>5, AdmitStep
<1>3. CASE UpdatePromoCode(c)
  <2> DEFINE docs == Documented \ {"FORBIDDEN"}
  <2>1. PICK p \in Promo \cup {None}, isActive \in BOOLEAN, valid \in BOOLEAN :
          Admit(c, Arrival("updatePromoCode", docs, "switching", p, [isActive |-> isActive]),
                ValidationPipe(valid))
    BY <1>3 DEF UpdatePromoCode
  <2> DEFINE r == Arrival("updatePromoCode", docs, "switching", p, [isActive |-> isActive])
             code == ValidationPipe(valid)
  <2>2. /\ r \in RequestRecord /\ r.stage = "switching" /\ r.op = "updatePromoCode"
        /\ r.docs = docs /\ r.id = p /\ r.body = [isActive |-> isActive]
    BY DEF Arrival, Idle, RequestRecord, Request, Body, Lists, Switch
  <2>3. code \in Status /\ code \in r.docs
    BY <2>2 DEF ValidationPipe
  <2>4. RequestOK(r)
    BY <2>2 DEF RequestOK, Replies, Findings, Absences, CompanySeen, EventSeen, PromoSeen,
                CompanyLooked, EventLooked, Lists, Switch
  <2>5. Quiet /\ Admit(c, r, code) /\ r.stage # "filling"
    BY <1>3, <2>1, <2>2 DEF UpdatePromoCode
  <2> HIDE DEF docs, r, code
  <2> QED
    BY <2>2, <2>3, <2>4, <2>5, AdmitStep
<1> QED
  BY <1>1, <1>2, <1>3

LEMMA ReadsOfCatalogue ==
    ASSUME IInv, NEW c \in Call,
           \/ FindCompany(c) \/ FindCompanyEvents(c) \/ FindAllCompanies(c)
           \/ FindEvent(c) \/ FindAllEvents(c) \/ FindAllTickets(c)
           \/ FindAllTicketTypes(c) \/ FindOneTicket(c) \/ FindThemes(c)
           \/ FindFormats(c) \/ FindTheme(c) \/ FindFormat(c)
           \/ FindAllPromoCodes(c) \/ FindPromoCode(c)
    PROVE  IInv'
<1> USE DEF Status, Op, UndocumentedAnswers
<1>1. CASE FindCompany(c)
  <2> DEFINE docs == {"OK", "NOT_FOUND"}
  <2>1. PICK k \in Company \cup {None} :
          Answer(c, Arrival("read", docs, "read", k, None),
                 IF CompanyExists(k) THEN "OK" ELSE "NOT_FOUND")
    BY <1>1 DEF FindCompany
  <2> DEFINE code == IF CompanyExists(k) THEN "OK" ELSE "NOT_FOUND"
  <2>2. /\ docs \in SUBSET Status /\ code \in Status /\ "read" \in Op
        /\ code \in docs \/ <<"read", code>> \in UndocumentedAnswers
    OBVIOUS
  <2>3. /\ Quiet /\ Answer(c, Arrival("read", docs, "read", k, None), code)
        /\ k \in Owner \cup Company \cup Event \cup Promo \cup {None} /\ None \in Body
    BY <1>1, <2>1 DEF FindCompany, Body
  <2> HIDE DEF docs, code, Status, Op, UndocumentedAnswers
  <2> QED
    BY <2>2, <2>3, ReadStep
<1>2. CASE FindCompanyEvents(c)
  <2> DEFINE docs == {"OK"}
  <2>1. Answer(c, Arrival("read", docs, "read", None, None), "OK")
    BY <1>2 DEF FindCompanyEvents
  <2> DEFINE code == "OK"
  <2>2. /\ docs \in SUBSET Status /\ code \in Status /\ "read" \in Op
        /\ code \in docs \/ <<"read", code>> \in UndocumentedAnswers
    OBVIOUS
  <2>3. /\ Quiet /\ Answer(c, Arrival("read", docs, "read", None, None), code)
        /\ None \in Owner \cup Company \cup Event \cup Promo \cup {None} /\ None \in Body
    BY <1>2, <2>1 DEF FindCompanyEvents, Body
  <2> HIDE DEF docs, code, Status, Op, UndocumentedAnswers
  <2> QED
    BY <2>2, <2>3, ReadStep
<1>3. CASE FindAllCompanies(c)
  <2> DEFINE docs == {"OK"}
  <2>1. PICK valid \in BOOLEAN :
          Answer(c, Arrival("read", docs, "read", None, None),
                 ValidationPipe(valid))
    BY <1>3 DEF FindAllCompanies
  <2> DEFINE code == ValidationPipe(valid)
  <2>2. /\ docs \in SUBSET Status /\ code \in Status /\ "read" \in Op
        /\ code \in docs \/ <<"read", code>> \in UndocumentedAnswers
    BY DEF ValidationPipe
  <2>3. /\ Quiet /\ Answer(c, Arrival("read", docs, "read", None, None), code)
        /\ None \in Owner \cup Company \cup Event \cup Promo \cup {None} /\ None \in Body
    BY <1>3, <2>1 DEF FindAllCompanies, Body
  <2> HIDE DEF docs, code, Status, Op, UndocumentedAnswers
  <2> QED
    BY <2>2, <2>3, ReadStep
<1>4. CASE FindEvent(c)
  <2> DEFINE docs == {"OK", "NOT_FOUND"}
  <2>1. PICK e \in Event \cup {None} :
          Answer(c, Arrival("read", docs, "read", e, None),
                 IF EventExists(e) THEN "OK" ELSE "NOT_FOUND")
    BY <1>4 DEF FindEvent
  <2> DEFINE code == IF EventExists(e) THEN "OK" ELSE "NOT_FOUND"
  <2>2. /\ docs \in SUBSET Status /\ code \in Status /\ "read" \in Op
        /\ code \in docs \/ <<"read", code>> \in UndocumentedAnswers
    OBVIOUS
  <2>3. /\ Quiet /\ Answer(c, Arrival("read", docs, "read", e, None), code)
        /\ e \in Owner \cup Company \cup Event \cup Promo \cup {None} /\ None \in Body
    BY <1>4, <2>1 DEF FindEvent, Body
  <2> HIDE DEF docs, code, Status, Op, UndocumentedAnswers
  <2> QED
    BY <2>2, <2>3, ReadStep
<1>5. CASE FindAllEvents(c)
  <2> DEFINE docs == {"OK", "BAD_REQUEST"}
  <2>1. PICK valid \in BOOLEAN :
          Answer(c, Arrival("read", docs, "read", None, None),
                 ValidationPipe(valid))
    BY <1>5 DEF FindAllEvents
  <2> DEFINE code == ValidationPipe(valid)
  <2>2. /\ docs \in SUBSET Status /\ code \in Status /\ "read" \in Op
        /\ code \in docs \/ <<"read", code>> \in UndocumentedAnswers
    BY DEF ValidationPipe
  <2>3. /\ Quiet /\ Answer(c, Arrival("read", docs, "read", None, None), code)
        /\ None \in Owner \cup Company \cup Event \cup Promo \cup {None} /\ None \in Body
    BY <1>5, <2>1 DEF FindAllEvents, Body
  <2> HIDE DEF docs, code, Status, Op, UndocumentedAnswers
  <2> QED
    BY <2>2, <2>3, ReadStep
<1>6. CASE FindAllTickets(c)
  <2> DEFINE docs == {"OK"}
  <2>1. PICK valid \in BOOLEAN :
          Answer(c, Arrival("read", docs, "read", None, None),
                 ValidationPipe(valid))
    BY <1>6 DEF FindAllTickets
  <2> DEFINE code == ValidationPipe(valid)
  <2>2. /\ docs \in SUBSET Status /\ code \in Status /\ "read" \in Op
        /\ code \in docs \/ <<"read", code>> \in UndocumentedAnswers
    BY DEF ValidationPipe
  <2>3. /\ Quiet /\ Answer(c, Arrival("read", docs, "read", None, None), code)
        /\ None \in Owner \cup Company \cup Event \cup Promo \cup {None} /\ None \in Body
    BY <1>6, <2>1 DEF FindAllTickets, Body
  <2> HIDE DEF docs, code, Status, Op, UndocumentedAnswers
  <2> QED
    BY <2>2, <2>3, ReadStep
<1>7. CASE FindAllTicketTypes(c)
  <2> DEFINE docs == {"OK"}
  <2>1. Answer(c, Arrival("read", docs, "read", None, None), "OK")
    BY <1>7 DEF FindAllTicketTypes
  <2> DEFINE code == "OK"
  <2>2. /\ docs \in SUBSET Status /\ code \in Status /\ "read" \in Op
        /\ code \in docs \/ <<"read", code>> \in UndocumentedAnswers
    OBVIOUS
  <2>3. /\ Quiet /\ Answer(c, Arrival("read", docs, "read", None, None), code)
        /\ None \in Owner \cup Company \cup Event \cup Promo \cup {None} /\ None \in Body
    BY <1>7, <2>1 DEF FindAllTicketTypes, Body
  <2> HIDE DEF docs, code, Status, Op, UndocumentedAnswers
  <2> QED
    BY <2>2, <2>3, ReadStep
<1>8. CASE FindOneTicket(c)
  <2> DEFINE docs == {"OK", "NOT_FOUND"}
  <2>1. PICK e \in Event, of \in Event \cup {None} :
          Answer(c, Arrival("read", docs, "read", e, None),
                 IF EventExists(of) /\ event[of].tickets /\ of = e THEN "OK" ELSE "NOT_FOUND")
    BY <1>8 DEF FindOneTicket
  <2> DEFINE code == IF EventExists(of) /\ event[of].tickets /\ of = e THEN "OK" ELSE "NOT_FOUND"
  <2>2. /\ docs \in SUBSET Status /\ code \in Status /\ "read" \in Op
        /\ code \in docs \/ <<"read", code>> \in UndocumentedAnswers
    OBVIOUS
  <2>3. /\ Quiet /\ Answer(c, Arrival("read", docs, "read", e, None), code)
        /\ e \in Owner \cup Company \cup Event \cup Promo \cup {None} /\ None \in Body
    BY <1>8, <2>1 DEF FindOneTicket, Body
  <2> HIDE DEF docs, code, Status, Op, UndocumentedAnswers
  <2> QED
    BY <2>2, <2>3, ReadStep
<1>9. CASE FindThemes(c)
  <2> DEFINE docs == {"OK"}
  <2>1. Answer(c, Arrival("read", docs, "read", None, None), "OK")
    BY <1>9 DEF FindThemes
  <2> DEFINE code == "OK"
  <2>2. /\ docs \in SUBSET Status /\ code \in Status /\ "read" \in Op
        /\ code \in docs \/ <<"read", code>> \in UndocumentedAnswers
    OBVIOUS
  <2>3. /\ Quiet /\ Answer(c, Arrival("read", docs, "read", None, None), code)
        /\ None \in Owner \cup Company \cup Event \cup Promo \cup {None} /\ None \in Body
    BY <1>9, <2>1 DEF FindThemes, Body
  <2> HIDE DEF docs, code, Status, Op, UndocumentedAnswers
  <2> QED
    BY <2>2, <2>3, ReadStep
<1>10. CASE FindFormats(c)
  <2> DEFINE docs == {"OK"}
  <2>1. Answer(c, Arrival("read", docs, "read", None, None), "OK")
    BY <1>10 DEF FindFormats
  <2> DEFINE code == "OK"
  <2>2. /\ docs \in SUBSET Status /\ code \in Status /\ "read" \in Op
        /\ code \in docs \/ <<"read", code>> \in UndocumentedAnswers
    OBVIOUS
  <2>3. /\ Quiet /\ Answer(c, Arrival("read", docs, "read", None, None), code)
        /\ None \in Owner \cup Company \cup Event \cup Promo \cup {None} /\ None \in Body
    BY <1>10, <2>1 DEF FindFormats, Body
  <2> HIDE DEF docs, code, Status, Op, UndocumentedAnswers
  <2> QED
    BY <2>2, <2>3, ReadStep
<1>11. CASE FindTheme(c)
  <2> DEFINE docs == {"OK", "NOT_FOUND"}
  <2>1. PICK known \in BOOLEAN :
          Answer(c, Arrival("read", docs, "read", None, None),
                 IF known THEN "OK" ELSE "NOT_FOUND")
    BY <1>11 DEF FindTheme
  <2> DEFINE code == IF known THEN "OK" ELSE "NOT_FOUND"
  <2>2. /\ docs \in SUBSET Status /\ code \in Status /\ "read" \in Op
        /\ code \in docs \/ <<"read", code>> \in UndocumentedAnswers
    OBVIOUS
  <2>3. /\ Quiet /\ Answer(c, Arrival("read", docs, "read", None, None), code)
        /\ None \in Owner \cup Company \cup Event \cup Promo \cup {None} /\ None \in Body
    BY <1>11, <2>1 DEF FindTheme, Body
  <2> HIDE DEF docs, code, Status, Op, UndocumentedAnswers
  <2> QED
    BY <2>2, <2>3, ReadStep
<1>12. CASE FindFormat(c)
  <2> DEFINE docs == {"OK", "NOT_FOUND"}
  <2>1. PICK known \in BOOLEAN :
          Answer(c, Arrival("read", docs, "read", None, None),
                 IF known THEN "OK" ELSE "NOT_FOUND")
    BY <1>12 DEF FindFormat
  <2> DEFINE code == IF known THEN "OK" ELSE "NOT_FOUND"
  <2>2. /\ docs \in SUBSET Status /\ code \in Status /\ "read" \in Op
        /\ code \in docs \/ <<"read", code>> \in UndocumentedAnswers
    OBVIOUS
  <2>3. /\ Quiet /\ Answer(c, Arrival("read", docs, "read", None, None), code)
        /\ None \in Owner \cup Company \cup Event \cup Promo \cup {None} /\ None \in Body
    BY <1>12, <2>1 DEF FindFormat, Body
  <2> HIDE DEF docs, code, Status, Op, UndocumentedAnswers
  <2> QED
    BY <2>2, <2>3, ReadStep
<1>13. CASE FindAllPromoCodes(c)
  <2> DEFINE docs == {"OK", "UNAUTHORIZED"}
  <2>1. Answer(c, Arrival("read", docs, "read", None, None), "OK")
    BY <1>13 DEF FindAllPromoCodes
  <2> DEFINE code == "OK"
  <2>2. /\ docs \in SUBSET Status /\ code \in Status /\ "read" \in Op
        /\ code \in docs \/ <<"read", code>> \in UndocumentedAnswers
    OBVIOUS
  <2>3. /\ Quiet /\ Answer(c, Arrival("read", docs, "read", None, None), code)
        /\ None \in Owner \cup Company \cup Event \cup Promo \cup {None} /\ None \in Body
    BY <1>13, <2>1 DEF FindAllPromoCodes, Body
  <2> HIDE DEF docs, code, Status, Op, UndocumentedAnswers
  <2> QED
    BY <2>2, <2>3, ReadStep
<1>14. CASE FindPromoCode(c)
  <2> DEFINE docs == {"OK", "NOT_FOUND", "UNAUTHORIZED"}
  <2>1. PICK p \in Promo \cup {None} :
          Answer(c, Arrival("read", docs, "read", p, None),
                 IF PromoExists(p) THEN "OK" ELSE "NOT_FOUND")
    BY <1>14 DEF FindPromoCode
  <2> DEFINE code == IF PromoExists(p) THEN "OK" ELSE "NOT_FOUND"
  <2>2. /\ docs \in SUBSET Status /\ code \in Status /\ "read" \in Op
        /\ code \in docs \/ <<"read", code>> \in UndocumentedAnswers
    OBVIOUS
  <2>3. /\ Quiet /\ Answer(c, Arrival("read", docs, "read", p, None), code)
        /\ p \in Owner \cup Company \cup Event \cup Promo \cup {None} /\ None \in Body
    BY <1>14, <2>1 DEF FindPromoCode, Body
  <2> HIDE DEF docs, code, Status, Op, UndocumentedAnswers
  <2> QED
    BY <2>2, <2>3, ReadStep
<1> QED
  BY <1>1, <1>2, <1>3, <1>4, <1>5, <1>6, <1>7, <1>8, <1>9, <1>10, <1>11, <1>12, <1>13, <1>14

LEMMA ValidatePromoCodeStep ==
    ASSUME IInv, NEW c \in Call, ValidatePromoCode(c)
    PROVE  IInv'
<1> USE DEF Status, Op, UndocumentedAnswers
<1> DEFINE docs == {"OK", "NOT_FOUND", "UNPROCESSABLE_ENTITY", "UNAUTHORIZED"}
<1>1. PICK e \in Event \cup {None}, x \in Code, valid \in BOOLEAN :
        \E code \in ValidateCode(e, x) :
          Answer(c, Arrival("validatePromoCode", docs, "read", e, x),
                 IF valid THEN code ELSE "BAD_REQUEST")
  BY DEF ValidatePromoCode
<1>2. PICK answer \in ValidateCode(e, x) :
        Answer(c, Arrival("validatePromoCode", docs, "read", e, x),
               IF valid THEN answer ELSE "BAD_REQUEST")
  BY <1>1
<1> DEFINE code == IF valid THEN answer ELSE "BAD_REQUEST"
<1>3. answer \in {"OK", "NOT_FOUND", "UNPROCESSABLE_ENTITY"}
  BY DEF ValidateCode
<1>4. /\ docs \in SUBSET Status /\ code \in Status /\ "validatePromoCode" \in Op
      /\ code \in docs \/ <<"validatePromoCode", code>> \in UndocumentedAnswers
  BY <1>3
<1>5. /\ Quiet /\ Answer(c, Arrival("validatePromoCode", docs, "read", e, x), code)
      /\ e \in Owner \cup Company \cup Event \cup Promo \cup {None} /\ x \in Body
  BY <1>2 DEF ValidatePromoCode, Body
<1> HIDE DEF docs, code, Status, Op, UndocumentedAnswers
<1> QED
  BY <1>4, <1>5, ReadStep

-----------------------------------------------------------------------------
(* Steps of the services that write no row                                 *)

LEMMA ReplyStep ==
    ASSUME IInv, NEW c \in Call, NEW code \in Status, Reply(c, code), Quiet,
           call[c].stage # "filling",
           code \in call[c].docs \/ Excused([call[c] EXCEPT !.answer = code])
    PROVE  IInv'
<1> DEFINE r == Ended(call[c], code)
<1>1. call[c] \in RequestRecord
  BY DEF IInv, TypeOK, RequestRecord
<1>2. r \in RequestRecord /\ RequestOK(r) /\ r.stage # "filling"
  BY <1>1, EndedRequest
<1>3. call' = [call EXCEPT ![c] = r]
  BY DEF Reply
<1> HIDE DEF r
<1> QED
  BY <1>2, <1>3, QuietStep

LEMMA GotoStep ==
    ASSUME IInv, NEW c \in Call, NEW stage \in Stage, Goto(c, stage), Quiet,
           call[c].stage # "filling", stage # "filling",
           RequestOK([call[c] EXCEPT !.stage = stage])
    PROVE  IInv'
<1> DEFINE r == [call[c] EXCEPT !.stage = stage]
<1>1. call[c] \in RequestRecord
  BY DEF IInv, TypeOK, RequestRecord
<1>2. r \in RequestRecord /\ r.stage = stage
  BY <1>1 DEF RequestRecord, Request
<1>3. call' = [call EXCEPT ![c] = r] /\ RequestOK(r)
  BY DEF Goto
<1> HIDE DEF r
<1> QED
  BY <1>2, <1>3, QuietStep

\* What an undocumented answer about a deleted row or of an overtaken request is excused by.
LEMMA Excuses ==
    ASSUME IInv, NEW c \in Call, NEW code \in Status
    PROVE  LET r == [call[c] EXCEPT !.answer = code]
               id == call[c].id IN
           /\ id \in Company /\ company[id].row # "none" /\ ~CompanyExists(id) => Excused(r)
           /\ id \in Event /\ event[id].row # "none" /\ ~EventExists(id) => Excused(r)
           /\ id \in Promo /\ promo[id].row # "none" /\ ~PromoExists(id) => Excused(r)
           /\ call[c].overtaken => Excused(r)
           /\ call[c].op = "updateEvent" /\ ~ForeignKeysHold(call[c].body) => Excused(r)
           /\ <<call[c].op, code>> \in UndocumentedAnswers => Excused(r)
<1> DEFINE r == [call[c] EXCEPT !.answer = code]
           id == call[c].id
<1>1. /\ r.id = id /\ r.overtaken = call[c].overtaken /\ r.op = call[c].op
      /\ r.answer = code /\ r.body = call[c].body
  BY DEF IInv, TypeOK, RequestRecord, Request
<1>2. /\ id \in Company => company[id].row \in RowState /\ id # None
      /\ id \in Event => event[id].row \in RowState /\ id # None
      /\ id \in Promo => promo[id].row \in RowState /\ id # None
  BY NoneAssumption DEF IInv, TypeOK, CompanyRow, EventRow, PromoRow
<1>3. /\ id \in Company /\ company[id].row # "none" /\ ~CompanyExists(id) => Gone(id)
      /\ id \in Event /\ event[id].row # "none" /\ ~EventExists(id) => Gone(id)
      /\ id \in Promo /\ promo[id].row # "none" /\ ~PromoExists(id) => Gone(id)
  BY <1>2 DEF Gone, CompanyExists, EventExists, PromoExists, RowState
<1> HIDE DEF r
<1> QED
  BY <1>1, <1>3 DEF Excused, r

\* What a request knows once it has gone on to its next stage.
LEMMA NextStage ==
    ASSUME IInv, NEW c \in Call, NEW stage \in Stage
    PROVE  LET r == [call[c] EXCEPT !.stage = stage] IN
           /\ r \in RequestRecord /\ r.stage = stage
           /\ r.docs = call[c].docs /\ r.op = call[c].op /\ r.id = call[c].id
           /\ r.body = call[c].body /\ r.overtaken = call[c].overtaken
BY DEF IInv, TypeOK, RequestRecord, Request

LEMMA QuietCompanies ==
    ASSUME IInv, NEW c \in Call,
           \/ CheckOwner(c) \/ CheckAddress(c) \/ FindCompanyToUpdate(c)
           \/ WriteCompany(c) \/ FindCompanyToDelete(c)
    PROVE  IInv'
<1> DEFINE next(stage) == [call[c] EXCEPT !.stage = stage]
<1> USE DEF At, RequestOK
<1>1. RequestOK(call[c])
  BY DEF IInv
<1>2. \A stage \in Stage :
        /\ next(stage).stage = stage
        /\ next(stage).docs = call[c].docs /\ next(stage).op = call[c].op
        /\ next(stage).id = call[c].id /\ next(stage).body = call[c].body
        /\ next(stage).overtaken = call[c].overtaken
  BY NextStage
<1>3. /\ "addressing" \in Stage /\ "founding" \in Stage /\ "renamed" \in Stage
      /\ "closed" \in Stage
      /\ "CONFLICT" \in Status /\ "NOT_FOUND" \in Status /\ "OK" \in Status
      /\ "INTERNAL_SERVER_ERROR" \in Status /\ "BAD_REQUEST" \in Status
  BY DEF Stage, Status
<1>4. CASE CheckOwner(c)
  <2>1. call[c].stage = "registering" /\ Quiet
    BY <1>4 DEF CheckOwner
  <2>2. CASE FindByOwnerId(call[c].id) = {} /\ Goto(c, "addressing")
    <3>1. RequestOK(next("addressing"))
      BY <1>1, <1>2, <1>3, <2>1, <2>2 DEF Replies, Findings, Absences, CompanySeen, EventSeen,
                                          PromoSeen, CompanyLooked, EventLooked
    <3> QED
      BY <1>3, <2>1, <2>2, <3>1, GotoStep
  <2>3. CASE Reply(c, "CONFLICT")
    BY <1>1, <1>3, <2>1, <2>3, ReplyStep DEF Replies
  <2> QED
    BY <1>4, <2>2, <2>3 DEF CheckOwner
<1>5. CASE CheckAddress(c)
  <2>1. call[c].stage = "addressing" /\ Quiet
    BY <1>5 DEF CheckAddress
  <2>2. CASE FindByEmail(call[c].body) = {} /\ Goto(c, "founding")
    <3>1. RequestOK(next("founding"))
      BY <1>1, <1>2, <1>3, <2>1, <2>2 DEF Replies, Findings, Absences, CompanySeen, EventSeen,
                                          PromoSeen, CompanyLooked, EventLooked
    <3> QED
      BY <1>3, <2>1, <2>2, <3>1, GotoStep
  <2>3. CASE Reply(c, "CONFLICT")
    BY <1>1, <1>3, <2>1, <2>3, ReplyStep DEF Replies
  <2> QED
    BY <1>5, <2>2, <2>3 DEF CheckAddress
<1>6. CASE FindCompanyToUpdate(c)
  <2>1. call[c].stage = "renaming" /\ Quiet
    BY <1>6 DEF FindCompanyToUpdate
  <2>2. CASE CompanyExists(call[c].id) /\ Goto(c, "renamed")
    <3>1. RequestOK(next("renamed"))
      BY <1>1, <1>2, <1>3, <2>1, <2>2
         DEF Replies, Findings, Absences, CompanySeen, EventSeen, PromoSeen, CompanyLooked,
             EventLooked, CompanyExists
    <3> QED
      BY <1>3, <2>1, <2>2, <3>1, GotoStep
  <2>3. CASE Reply(c, "NOT_FOUND")
    BY <1>1, <1>3, <2>1, <2>3, ReplyStep DEF Replies
  <2> QED
    BY <1>6, <2>2, <2>3 DEF FindCompanyToUpdate
<1>7. CASE WriteCompany(c)
  <2>1. call[c].stage = "renamed" /\ Quiet
    BY <1>7 DEF WriteCompany
  <2>2. CASE Reply(c, "OK")
    BY <1>1, <1>3, <2>1, <2>2, ReplyStep DEF Replies
  <2>3. CASE ~CompanyExists(call[c].id) /\ Reply(c, "INTERNAL_SERVER_ERROR")
    <3>1. Excused([call[c] EXCEPT !.answer = "INTERNAL_SERVER_ERROR"])
      BY <1>1, <1>3, <2>1, <2>3, Excuses DEF Findings, CompanySeen
    <3> QED
      BY <1>3, <2>1, <2>3, <3>1, ReplyStep
  <2> QED
    BY <1>7, <2>2, <2>3 DEF WriteCompany
<1>8. CASE FindCompanyToDelete(c)
  <2>1. call[c].stage = "closing" /\ Quiet
    BY <1>8 DEF FindCompanyToDelete
  <2>2. CASE CompanyExists(call[c].id) /\ EventsOf(call[c].id) = {} /\ Goto(c, "closed")
    <3>1. RequestOK(next("closed"))
      BY <1>1, <1>2, <1>3, <2>1, <2>2
         DEF Replies, Findings, Absences, CompanySeen, EventSeen, PromoSeen, CompanyLooked,
             EventLooked, CompanyExists
    <3> QED
      BY <1>3, <2>1, <2>2, <3>1, GotoStep
  <2>3. CASE Reply(c, "NOT_FOUND") \/ Reply(c, "BAD_REQUEST")
    BY <1>1, <1>3, <2>1, <2>3, ReplyStep DEF Replies
  <2> QED
    BY <1>8, <2>2, <2>3 DEF FindCompanyToDelete
<1> QED
  BY <1>4, <1>5, <1>6, <1>7, <1>8

LEMMA QuietEvents ==
    ASSUME IInv, NEW c \in Call,
           FindEventToUpdate(c) \/ FindEventToTheme(c) \/ FindEventToDelete(c)
    PROVE  IInv'
<1> DEFINE next(stage) == [call[c] EXCEPT !.stage = stage]
<1> USE DEF At, RequestOK
<1>1. RequestOK(call[c])
  BY DEF IInv
<1>2. \A stage \in Stage :
        /\ next(stage).stage = stage
        /\ next(stage).docs = call[c].docs /\ next(stage).op = call[c].op
        /\ next(stage).id = call[c].id /\ next(stage).body = call[c].body
        /\ next(stage).overtaken = call[c].overtaken
  BY NextStage
<1>3. /\ "edited" \in Stage /\ "clearing" \in Stage /\ "cancelled" \in Stage
      /\ "NOT_FOUND" \in Status
  BY DEF Stage, Status
<1>4. PICK from \in {"editing", "theming", "cancelling"},
          to \in {"edited", "clearing", "cancelled"} :
        /\ FindEventFirst(c, from, to)
        /\ \/ from = "editing" /\ to = "edited"
           \/ from = "theming" /\ to = "clearing"
           \/ from = "cancelling" /\ to = "cancelled"
  BY DEF FindEventToUpdate, FindEventToTheme, FindEventToDelete
<1>5. call[c].stage = from /\ Quiet /\ to \in Stage
  BY <1>3, <1>4 DEF FindEventFirst
<1>6. CASE EventExists(call[c].id) /\ Goto(c, to)
  <2>1. RequestOK(next(to))
    BY <1>1, <1>2, <1>4, <1>5, <1>6
       DEF Replies, Findings, Absences, CompanySeen, EventSeen, PromoSeen, CompanyLooked,
           EventLooked, EventExists
  <2> QED
    BY <1>4, <1>5, <1>6, <2>1, GotoStep
<1>7. CASE Reply(c, "NOT_FOUND")
  BY <1>1, <1>3, <1>4, <1>5, <1>7, ReplyStep DEF Replies
<1> QED
  BY <1>4, <1>6, <1>7 DEF FindEventFirst

LEMMA QuietPromos ==
    ASSUME IInv, NEW c \in Call, FindEventOfCode(c) \/ CheckCode(c) \/ FindCodeToUpdate(c)
    PROVE  IInv'
<1> DEFINE next(stage) == [call[c] EXCEPT !.stage = stage]
<1> USE DEF At, RequestOK
<1>1. RequestOK(call[c])
  BY DEF IInv
<1>2. \A stage \in Stage :
        /\ next(stage).stage = stage
        /\ next(stage).docs = call[c].docs /\ next(stage).op = call[c].op
        /\ next(stage).id = call[c].id /\ next(stage).body = call[c].body
        /\ next(stage).overtaken = call[c].overtaken
  BY NextStage
<1>3. /\ "coded" \in Stage /\ "storing" \in Stage /\ "switched" \in Stage
      /\ "CONFLICT" \in Status /\ "NOT_FOUND" \in Status /\ "UNPROCESSABLE_ENTITY" \in Status
  BY DEF Stage, Status
<1>4. CASE FindEventOfCode(c)
  <2>1. call[c].stage = "coding" /\ Quiet
    BY <1>4 DEF FindEventOfCode, FindEventFirst
  <2>2. CASE EventExists(call[c].id) /\ Goto(c, "coded")
    <3>1. RequestOK(next("coded"))
      BY <1>1, <1>2, <1>3, <2>1, <2>2
         DEF Replies, Findings, Absences, CompanySeen, EventSeen, PromoSeen, CompanyLooked,
             EventLooked, EventExists
    <3> QED
      BY <1>3, <2>1, <2>2, <3>1, GotoStep
  <2>3. CASE Reply(c, "NOT_FOUND")
    <3>1. Excused([call[c] EXCEPT !.answer = "NOT_FOUND"])
      BY <1>1, <1>3, <2>1, Excuses DEF Replies, UndocumentedAnswers
    <3> QED
      BY <1>3, <2>1, <2>3, <3>1, ReplyStep
  <2> QED
    BY <1>4, <2>2, <2>3 DEF FindEventOfCode, FindEventFirst
<1>5. CASE CheckCode(c)
  <2>1. call[c].stage = "coded" /\ Quiet
    BY <1>5 DEF CheckCode
  <2>2. CASE Matching(call[c].id, call[c].body) = {} /\ Goto(c, "storing")
    <3>1. RequestOK(next("storing"))
      BY <1>1, <1>2, <1>3, <2>1, <2>2
         DEF Replies, Findings, Absences, CompanySeen, EventSeen, PromoSeen, CompanyLooked,
             EventLooked
    <3> QED
      BY <1>3, <2>1, <2>2, <3>1, GotoStep
  <2>3. CASE Reply(c, "CONFLICT")
    BY <1>1, <1>3, <2>1, <2>3, ReplyStep DEF Replies
  <2>4. CASE Reply(c, "UNPROCESSABLE_ENTITY")
    <3>1. Excused([call[c] EXCEPT !.answer = "UNPROCESSABLE_ENTITY"])
      BY <1>1, <1>3, <2>1, Excuses DEF Replies, UndocumentedAnswers
    <3> QED
      BY <1>3, <2>1, <2>4, <3>1, ReplyStep
  <2>5. PICK code \in ValidateCode(call[c].id, call[c].body) :
          IF code = "NOT_FOUND" THEN Goto(c, "storing")
          ELSE Reply(c, IF code = "OK" THEN "CONFLICT" ELSE code)
    BY <1>5 DEF CheckCode
  <2>6. /\ code \in {"NOT_FOUND", "OK", "UNPROCESSABLE_ENTITY"}
        /\ code = "NOT_FOUND" => Matching(call[c].id, call[c].body) = {}
    BY <2>5 DEF ValidateCode
  <2> QED
    BY <2>2, <2>3, <2>4, <2>5, <2>6
<1>6. CASE FindCodeToUpdate(c)
  <2>1. call[c].stage = "switching" /\ Quiet
    BY <1>6 DEF FindCodeToUpdate
  <2>2. CASE PromoExists(call[c].id) /\ Goto(c, "switched")
    <3>1. RequestOK(next("switched"))
      BY <1>1, <1>2, <1>3, <2>1, <2>2
         DEF Replies, Findings, Absences, CompanySeen, EventSeen, PromoSeen, CompanyLooked,
             EventLooked, PromoExists
    <3> QED
      BY <1>3, <2>1, <2>2, <3>1, GotoStep
  <2>3. CASE Reply(c, "NOT_FOUND")
    BY <1>1, <1>3, <2>1, <2>3, ReplyStep DEF Replies
  <2> QED
    BY <1>6, <2>2, <2>3 DEF FindCodeToUpdate
<1> QED
  BY <1>4, <1>5, <1>6

-----------------------------------------------------------------------------
(* Steps that write rows                                                   *)

\* The requests after a write that tells the requests in S of it.
LEMMA CallsOvertaken ==
    ASSUME IInv, NEW c \in Call, NEW S, "OK" \in call[c].docs,
           call' = [Overtaking(c, S) EXCEPT ![c] = Ended(@, "OK")]
    PROVE  /\ call' \in [Call -> RequestRecord]
           /\ call'[c] = Idle /\ call'[c].stage = "idle" /\ RequestOK(call[c])'
           /\ OthersStand(c)
           /\ \A k \in S \cap Call : k # c => call'[k].overtaken
<1>1. call \in [Call -> RequestRecord]
  BY DEF IInv, TypeOK, RequestRecord
<1>2. Overtaking(c, S)[c] = call[c]
  BY DEF Overtaking
<1>3. call'[c] = Idle
  BY <1>2 DEF Overtaking, Ended
<1>4. \A k \in Call : k # c => call'[k] = IF k \in S THEN [call[k] EXCEPT !.overtaken = TRUE]
                                          ELSE call[k]
  BY DEF Overtaking
<1>5. \A k \in Call : [call[k] EXCEPT !.overtaken = TRUE] \in RequestRecord
  BY <1>1 DEF RequestRecord, Request
<1>6. call' \in [Call -> RequestRecord]
  <2>1. \A k \in Call : call'[k] \in RequestRecord
    BY <1>1, <1>3, <1>4, <1>5, IdleType
  <2>2. call' = [k \in Call |-> call'[k]]
    BY DEF Overtaking
  <2> QED
    BY <2>1, <2>2
<1>7. ASSUME NEW k \in S \cap Call, k # c PROVE call'[k].overtaken
  <2>1. call'[k] = [call[k] EXCEPT !.overtaken = TRUE] /\ call[k] \in RequestRecord
    BY <1>1, <1>4, <1>7
  <2> QED
    BY <2>1 DEF RequestRecord, Request
<1>8. Idle.stage = "idle"
  BY DEF Idle
<1> QED
  BY <1>3, <1>4, <1>6, <1>7, <1>8, IdleOK DEF OthersStand

\* The requests after a write that tells nobody.
LEMMA CallsReplied ==
    ASSUME IInv, NEW c \in Call, NEW code \in Status, Reply(c, code)
    PROVE  /\ call' \in [Call -> RequestRecord]
           /\ call'[c] = Ended(call[c], code) /\ call'[c].stage # "filling"
           /\ OthersStand(c) /\ \A k \in Call \ {c} : call'[k] = call[k]
           /\ code \in call[c].docs => RequestOK(call[c])'
<1>1. call \in [Call -> RequestRecord]
  BY DEF IInv, TypeOK, RequestRecord
<1>2. /\ call'[c] = Ended(call[c], code)
      /\ \A k \in Call \ {c} : call'[k] = call[k]
  BY <1>1 DEF Reply
<1>3. Ended(call[c], code) \in RequestRecord /\ Ended(call[c], code).stage # "filling"
  BY <1>1, EndedRequest
<1>4. code \in call[c].docs => call'[c] = Idle
  BY <1>1, <1>2, EndedRequest
<1> QED
  BY <1>1, <1>2, <1>3, <1>4, IdleOK DEF OthersStand, Reply

LEMMA CreateCompanyRowStep ==
    ASSUME IInv, Unhurried, NEW c \in Call, CreateCompanyRow(c)
    PROVE  IInv'
<1> DEFINE o == call[c].id
           m == call[c].body
<1>1. /\ call[c].stage = "founding" /\ RequestOK(call[c])
      /\ UNCHANGED <<event, promo, bought, torn, wanted>>
  BY DEF CreateCompanyRow, At, IInv, history
<1>2. o \in Owner /\ m \in Email /\ "OK" \in call[c].docs
  BY <1>1 DEF RequestOK, Findings, Replies
<1>3. "INTERNAL_SERVER_ERROR" \in Status
  BY DEF Status
<1>4. ASSUME UniqueCompany(o, m), NEW k \in Company, company[k].row = "none",
             company' = [company EXCEPT ![k] = [row |-> "stored", owner |-> o, email |-> m]],
             call' = [Overtaking(c, Founding) EXCEPT ![c] = Ended(@, "OK")]
      PROVE  IInv'
  <2>1. /\ call' \in [Call -> RequestRecord]
        /\ call'[c].stage = "idle" /\ RequestOK(call[c])' /\ OthersStand(c)
        /\ \A d \in Founding \cap Call : d # c => call'[d].overtaken
    BY <1>2, <1>4, CallsOvertaken
  <2>2. /\ company'[k] = [row |-> "stored", owner |-> o, email |-> m]
        /\ \A l \in Company \ {k} : company'[l] = company[l]
    BY <1>4 DEF IInv, TypeOK
  <2>3. k # None
    BY NoneAssumption
  <2>4. company' \in [Company -> CompanyRow]
    BY <1>2, <1>4 DEF IInv, TypeOK, CompanyRow, RowState
  <2>5. \A l \in Company : CompanyExists(l) => l # k /\ company'[l] = company[l] /\ l # None
    BY <1>4, <2>2 DEF CompanyExists
  <2>6. \A l \in Company : company'[l].row = "stored" /\ l # k =>
          CompanyExists(l) /\ company[l].owner # o /\ company[l].email # m
    BY <1>4, <2>2, NoneAssumption DEF UniqueCompany, FindByOwnerId, FindByEmail, CompanyExists
  <2>7. TypeOK'
    <3>1. \A e \in Event : EventExists(e)' => CompanyExists(event[e].company)'
      BY <1>1, <2>2, <2>3 DEF IInv, TypeOK, EventExists, CompanyExists, EventRow
    <3>2. \A p \in Promo : PromoExists(p)' => EventExists(promo[p].event)'
      BY <1>1 DEF IInv, TypeOK, EventExists, PromoExists
    <3>3. \A l, n \in Company : CompanyExists(l)' /\ CompanyExists(n)' /\ l # n =>
            company'[l].owner # company'[n].owner /\ company'[l].email # company'[n].email
      BY <2>2, <2>6 DEF IInv, TypeOK, CompanyExists
    <3> QED
      BY <1>1, <2>1, <2>4, <3>1, <3>2, <3>3 DEF IInv, TypeOK, RequestRecord
  <2>8. RowsKept
    BY <1>1, <1>4, <2>2 DEF RowsKept
  <2>9. \A d \in Call \ {c} : Unsurprised(d)
    BY <1>1, <2>1 DEF Unsurprised, Founding, At
  <2>10. (\A d \in Call : RequestOK(call[d]))'
    BY <1>1, <2>1, <2>8, <2>9, RequestsKept
  <2>11. SyncInv'
    BY <1>1, <2>1, SyncStands
  <2>12. OrderedStays'
    BY <1>1, <2>2, <2>3, <2>5 DEF IInv, OrderedStays, EventExists, PromoExists, CompanyExists,
                                  TypeOK, EventRow
  <2>13. PromoCodeOnce' /\ Unborn'
    BY <1>1 DEF IInv, PromoCodeOnce, Unborn, PromoExists
  <2> QED
    BY <2>7, <2>10, <2>11, <2>12, <2>13 DEF IInv
<1>5. CASE ~UniqueCompany(o, m) /\ Reply(c, "INTERNAL_SERVER_ERROR") /\ UNCHANGED company
  <2>1. call[c].overtaken
    BY <1>1, <1>5 DEF RequestOK, Absences, UniqueCompany
  <2>2. Excused([call[c] EXCEPT !.answer = "INTERNAL_SERVER_ERROR"])
    BY <1>3, <2>1, Excuses
  <2> QED
    BY <1>1, <1>3, <1>5, <2>2, ReplyStep DEF Quiet, tables, history
<1> QED
  BY <1>4, <1>5 DEF CreateCompanyRow

LEMMA DeleteCompanyRowStep ==
    ASSUME IInv, Unhurried, NEW c \in Call, DeleteCompanyRow(c)
    PROVE  IInv'
<1> DEFINE k == call[c].id
<1>1. /\ call[c].stage = "closed" /\ RequestOK(call[c])
      /\ UNCHANGED <<event, promo, bought, torn, wanted>>
  BY DEF DeleteCompanyRow, At, IInv, history
<1>2. k \in Company /\ company[k].row # "none" /\ "OK" \in call[c].docs
  BY <1>1 DEF RequestOK, Findings, Replies, CompanySeen
<1>3. "INTERNAL_SERVER_ERROR" \in Status /\ "OK" \in Status
  BY DEF Status
<1>4. CASE /\ CompanyExists(k) /\ EventsOf(k) = {} /\ Reply(c, "OK")
           /\ company' = [company EXCEPT ![k] = [NoCompany EXCEPT !.row = "deleted"]]
  <2>1. /\ call' \in [Call -> RequestRecord]
        /\ call'[c].stage # "filling" /\ RequestOK(call[c])' /\ OthersStand(c)
        /\ \A d \in Call \ {c} : call'[d] = call[d]
    BY <1>2, <1>3, <1>4, CallsReplied
  <2>2. /\ company'[k] = [row |-> "deleted", owner |-> None, email |-> None]
        /\ \A l \in Company \ {k} : company'[l] = company[l]
    BY <1>2, <1>4 DEF IInv, TypeOK, NoCompany
  <2>3. company' \in [Company -> CompanyRow]
    BY <1>4 DEF IInv, TypeOK, CompanyRow, RowState, NoCompany
  <2>4. \A e \in Event : EventExists(e) => event[e].company # k
    BY <1>4 DEF EventsOf
  <2>5. TypeOK'
    <3>1. \A e \in Event : EventExists(e)' => CompanyExists(event[e].company)'
      BY <1>1, <2>2, <2>4 DEF IInv, TypeOK, EventExists, CompanyExists, EventRow
    <3>2. \A p \in Promo : PromoExists(p)' => EventExists(promo[p].event)'
      BY <1>1 DEF IInv, TypeOK, EventExists, PromoExists
    <3>3. \A l, n \in Company : CompanyExists(l)' /\ CompanyExists(n)' /\ l # n =>
            company'[l].owner # company'[n].owner /\ company'[l].email # company'[n].email
      BY <2>2 DEF IInv, TypeOK, CompanyExists
    <3> QED
      BY <1>1, <2>1, <2>3, <3>1, <3>2, <3>3 DEF IInv, TypeOK, RequestRecord
  <2>6. RowsKept
    BY <1>1, <1>4, <2>2 DEF RowsKept, CompanyExists
  <2>7. \A d \in Call \ {c} : Unsurprised(d)
    BY <1>1, <2>2 DEF Unsurprised
  <2>8. (\A d \in Call : RequestOK(call[d]))'
    BY <1>1, <2>1, <2>6, <2>7, RequestsKept
  <2>9. SyncInv'
    BY <1>1, <2>1, SyncStands
  <2>10. OrderedStays'
    BY <1>1, <2>2, <2>4 DEF IInv, OrderedStays, EventExists, PromoExists, CompanyExists, TypeOK,
                            EventRow
  <2>11. PromoCodeOnce' /\ Unborn'
    BY <1>1 DEF IInv, PromoCodeOnce, Unborn, PromoExists
  <2> QED
    BY <2>5, <2>8, <2>9, <2>10, <2>11 DEF IInv
<1>5. CASE /\ ~CompanyExists(k) \/ EventsOf(k) # {}
           /\ Reply(c, "INTERNAL_SERVER_ERROR") /\ UNCHANGED company
  <2>1. ~CompanyExists(k) \/ call[c].overtaken
    BY <1>1, <1>5 DEF RequestOK, Absences
  <2>2. Excused([call[c] EXCEPT !.answer = "INTERNAL_SERVER_ERROR"])
    BY <1>2, <1>3, <2>1, Excuses
  <2> QED
    BY <1>1, <1>3, <1>5, <2>2, ReplyStep DEF Quiet, tables, history
<1> QED
  BY <1>4, <1>5 DEF DeleteCompanyRow

\* A write to events that stay with their companies disturbs nothing but their themes.
LEMMA EventsEdited ==
    ASSUME IInv, NEW c \in Call, call' \in [Call -> RequestRecord], OthersStand(c),
           event' \in [Event -> EventRow],
           \A e \in Event : event'[e].row = event[e].row /\ event'[e].company = event[e].company,
           UNCHANGED <<company, promo, bought>>, torn' \subseteq Event,
           wanted' \in [Event -> SUBSET Theme],
           \A e \in Event : event[e].row = "none" => wanted'[e] = wanted[e]
    PROVE  /\ TypeOK' /\ RowsKept /\ \A d \in Call \ {c} : Unsurprised(d)
           /\ OrderedStays' /\ PromoCodeOnce' /\ Unborn'
<1>1. \A e \in Event \cup {None} : EventExists(e)' <=> EventExists(e)
  BY NoneAssumption DEF EventExists
<1>2. TypeOK'
  <2>1. \A e \in Event : EventExists(e)' => CompanyExists(event[e].company)'
    BY <1>1 DEF IInv, TypeOK, CompanyExists
  <2>2. \A p \in Promo : PromoExists(p)' => EventExists(promo[p].event)'
    BY <1>1 DEF IInv, TypeOK, PromoExists, PromoRow
  <2>3. \A l, n \in Company : CompanyExists(l)' /\ CompanyExists(n)' /\ l # n =>
          company'[l].owner # company'[n].owner /\ company'[l].email # company'[n].email
    BY DEF IInv, TypeOK, CompanyExists
  <2> QED
    BY <2>1, <2>2, <2>3 DEF IInv, TypeOK, RequestRecord
<1>3. RowsKept
  BY DEF RowsKept
<1>4. \A d \in Call \ {c} : Unsurprised(d)
  BY DEF Unsurprised
<1>5. OrderedStays'
  BY <1>1 DEF IInv, OrderedStays, CompanyExists, PromoExists
<1>6. PromoCodeOnce'
  BY DEF IInv, PromoCodeOnce, PromoExists
<1>7. Unborn'
  BY DEF IInv, Unborn
<1> QED
  BY <1>2, <1>3, <1>4, <1>5, <1>6, <1>7

\* The rows after a write to the row of one event.
LEMMA RowWritten ==
    ASSUME IInv, NEW e \in Event, NEW row \in EventRow,
           row.row = event[e].row, row.company = event[e].company,
           event' = [event EXCEPT ![e] = row]
    PROVE  /\ event' \in [Event -> EventRow] /\ event'[e] = row
           /\ \A x \in Event : /\ event'[x].row = event[x].row
                               /\ event'[x].company = event[x].company
                               /\ x # e => event'[x].themes = event[x].themes
BY DEF IInv, TypeOK

\* The row that a PATCH leaves behind.
LEMMA PatchedRow ==
    ASSUME NEW row \in EventRow, NEW patch \in Patches
    PROVE  LET new == Patched(row, patch) IN
           /\ new \in EventRow /\ new.row = row.row /\ new.themes = row.themes
           /\ new.company = IF patch.company = None THEN row.company ELSE patch.company
<1> DEFINE start == patch.dates.startedAt
           end == patch.dates.endedAt
<1>1. start \in Hour \cup {-1} /\ end \in Hour \cup {-1}
  BY HourAssumption DEF Patches, NoDates
<1>2. patch.company \in Company \cup {None}
  BY DEF Patches
<1> HIDE DEF start, end
<1> QED
  BY <1>1, <1>2 DEF Patched, EventRow, start, end

\* An event may move to another company, of which the requests that are closing it are told.
LEMMA WriteEventStep ==
    ASSUME IInv, NEW c \in Call, WriteEvent(c)
    PROVE  IInv'
<1> DEFINE e == call[c].id
           patch == call[c].body
<1>1. /\ call[c].stage = "edited" /\ RequestOK(call[c])
      /\ UNCHANGED <<company, promo, bought, torn, wanted>>
  BY DEF WriteEvent, At, IInv, history
<1>2. /\ e \in Event /\ event[e].row # "none" /\ "OK" \in call[c].docs
      /\ patch \in Patches /\ call[c].op = "updateEvent"
  BY <1>1 DEF RequestOK, Findings, Replies, EventSeen
<1>3. "INTERNAL_SERVER_ERROR" \in Status
  BY DEF Status
<1> DEFINE row == Patched(event[e], patch)
           k == patch.company
<1>4. CASE /\ EventExists(e) /\ ForeignKeysHold(patch)
           /\ event' = [event EXCEPT ![e] = row]
           /\ call' = [Overtaking(c, Closing(k)) EXCEPT ![c] = Ended(@, "OK")]
  <2>1. /\ call' \in [Call -> RequestRecord]
        /\ call'[c].stage = "idle" /\ RequestOK(call[c])' /\ OthersStand(c)
        /\ \A d \in Closing(k) \cap Call : d # c => call'[d].overtaken
    BY <1>2, <1>4, CallsOvertaken
  <2>2. event[e] \in EventRow
    BY <1>2 DEF IInv, TypeOK
  <2>3. /\ row \in EventRow /\ row.row = event[e].row /\ row.themes = event[e].themes
        /\ row.company = IF k = None THEN event[e].company ELSE k
    BY <1>2, <2>2, PatchedRow
  <2> HIDE DEF row
  <2>4. /\ event' \in [Event -> EventRow] /\ event'[e] = row
        /\ \A x \in Event \ {e} : event'[x] = event[x]
    BY <1>2, <1>4, <2>3 DEF IInv, TypeOK
  <2>5. \A x \in Event : /\ event'[x].row = event[x].row
                         /\ event'[x].themes = event[x].themes
                         /\ \/ event'[x].company = event[x].company
                            \/ event'[x].company = k /\ CompanyExists(k)
    BY <1>4, <2>3, <2>4 DEF ForeignKeysHold
  <2> HIDE DEF k
  <2>6. \A x \in Event \cup {None} : EventExists(x)' <=> EventExists(x)
    BY <2>5, NoneAssumption DEF EventExists
  <2>7. \A x \in Event : CompanyExists(event[x].company) => CompanyExists(event[x].company)'
    BY <1>1, <2>5 DEF CompanyExists
  <2>8. TypeOK'
    <3>1. \A x \in Event : EventExists(x)' => CompanyExists(event[x].company)'
      BY <2>6, <2>7 DEF IInv, TypeOK
    <3>2. \A p \in Promo : PromoExists(p)' => EventExists(promo[p].event)'
      BY <1>1, <2>6 DEF IInv, TypeOK, PromoExists, PromoRow
    <3>3. \A l, n \in Company : CompanyExists(l)' /\ CompanyExists(n)' /\ l # n =>
            company'[l].owner # company'[n].owner /\ company'[l].email # company'[n].email
      BY <1>1 DEF IInv, TypeOK, CompanyExists
    <3> QED
      BY <1>1, <2>1, <2>4, <3>1, <3>2, <3>3 DEF IInv, TypeOK, RequestRecord
  <2>9. RowsKept
    BY <1>1, <2>5 DEF RowsKept
  <2>10. ASSUME NEW d \in Call \ {c} PROVE Unsurprised(d)
    <3>1. call[d].stage = "closed" /\ call[d].id = k => call'[d].overtaken
      BY <2>1 DEF At, Closing
    <3>2. call[d].id # k => \A x \in Event : event'[x].row = "stored"
            /\ event'[x].company = call[d].id =>
                 event[x].row = "stored" /\ event[x].company = call[d].id
      BY <2>5
    <3> QED
      BY <1>1, <3>1, <3>2 DEF Unsurprised
  <2>11. (\A d \in Call : RequestOK(call[d]))'
    BY <1>1, <2>1, <2>9, <2>10, RequestsKept
  <2>12. SyncInv'
    BY <1>1, <2>1, <2>5, SyncStands
  <2>13. OrderedStays'
    BY <1>1, <2>6, <2>7 DEF IInv, OrderedStays, PromoExists
  <2>14. PromoCodeOnce' /\ Unborn'
    BY <1>1, <2>5 DEF IInv, PromoCodeOnce, Unborn, PromoExists
  <2> QED
    BY <2>8, <2>11, <2>12, <2>13, <2>14 DEF IInv
<1>5. CASE /\ ~EventExists(e) \/ ~ForeignKeysHold(patch)
           /\ UNCHANGED event /\ Reply(c, "INTERNAL_SERVER_ERROR")
  <2>1. Excused([call[c] EXCEPT !.answer = "INTERNAL_SERVER_ERROR"])
    BY <1>2, <1>3, <1>5, Excuses
  <2> QED
    BY <1>1, <1>3, <1>5, <2>1, ReplyStep DEF Quiet, tables, history
<1> QED
  BY <1>4, <1>5 DEF WriteEvent

LEMMA StoreTicketsStep ==
    ASSUME IInv, NEW c \in Call, StoreTickets(c)
    PROVE  IInv'
<1> DEFINE e == call[c].id
<1>1. /\ call[c].stage = "ticketing" /\ RequestOK(call[c])
      /\ UNCHANGED <<company, promo, bought, torn, wanted>>
  BY DEF StoreTickets, At, IInv, history
<1>2. e \in Event \cup {None} /\ "OK" \in call[c].docs /\ call[c].op = "createTickets"
  BY <1>1 DEF RequestOK, Findings, Replies, EventLooked
<1>3. "NOT_FOUND" \in Status /\ "CONFLICT" \in Status /\ "OK" \in Status
  BY DEF Status
<1>4. CASE EventExists(e) /\ event' = [event EXCEPT ![e].tickets = TRUE] /\ Reply(c, "OK")
  <2>1. /\ call' \in [Call -> RequestRecord]
        /\ call'[c].stage # "filling" /\ RequestOK(call[c])' /\ OthersStand(c)
    BY <1>2, <1>3, <1>4, CallsReplied
  <2>2. e \in Event /\ event \in [Event -> EventRow]
    BY <1>2, <1>4 DEF IInv, TypeOK, EventExists
  <2> DEFINE row == [event[e] EXCEPT !.tickets = TRUE]
  <2>3. /\ event' \in [Event -> EventRow]
        /\ \A x \in Event : /\ event'[x].row = event[x].row
                            /\ event'[x].company = event[x].company
                            /\ event'[x].themes = event[x].themes
    <3>1. /\ row \in EventRow /\ row.row = event[e].row
          /\ row.company = event[e].company /\ row.themes = event[e].themes
      BY <2>2 DEF EventRow
    <3>2. event' = [event EXCEPT ![e] = row]
      BY <1>4
    <3> HIDE DEF row
    <3> QED
      BY <2>2, <3>1, <3>2, RowWritten
  <2>4. /\ TypeOK' /\ RowsKept /\ \A d \in Call \ {c} : Unsurprised(d)
        /\ OrderedStays' /\ PromoCodeOnce' /\ Unborn'
    BY <1>1, <2>1, <2>3, EventsEdited DEF IInv, TypeOK
  <2>5. (\A d \in Call : RequestOK(call[d]))'
    BY <1>1, <2>1, <2>4, RequestsKept
  <2>6. SyncInv'
    BY <1>1, <2>1, <2>3, SyncStands
  <2> QED
    BY <2>4, <2>5, <2>6 DEF IInv
<1>5. ASSUME NEW code \in {"NOT_FOUND", "CONFLICT"}, Reply(c, code), UNCHANGED event
      PROVE  IInv'
  <2>1. Excused([call[c] EXCEPT !.answer = code])
    BY <1>2, <1>3, <1>5, Excuses DEF UndocumentedAnswers
  <2> QED
    BY <1>1, <1>3, <1>5, <2>1, ReplyStep DEF Quiet, tables, history
<1> QED
  BY <1>4, <1>5 DEF StoreTickets

LEMMA ClearThemesStep ==
    ASSUME IInv, Unhurried, NEW c \in Call, ClearThemes(c)
    PROVE  IInv'
<1> DEFINE e == call[c].id
           r == [call[c] EXCEPT !.stage = "filling"]
<1>1. /\ call[c].stage = "clearing" /\ RequestOK(call[c])
      /\ UNCHANGED <<company, promo, bought, wanted>>
      /\ event' = [event EXCEPT ![e].themes = {}]
      /\ torn' = IF Filling(e) = {} THEN torn \ {e} ELSE torn \cup {e}
      /\ call' = [call EXCEPT ![c] = r]
  BY DEF ClearThemes, Goto, At, IInv
<1>2. e \in Event /\ event[e].row # "none"
  BY <1>1 DEF RequestOK, Findings, EventSeen
<1>3. event \in [Event -> EventRow] /\ call \in [Call -> RequestRecord]
  BY DEF IInv, TypeOK, RequestRecord
<1>4. /\ r \in RequestRecord /\ r.stage = "filling" /\ r.docs = call[c].docs
      /\ r.op = call[c].op /\ r.id = e /\ r.body = call[c].body
  <2>1. "filling" \in Stage
    BY DEF Stage
  <2> QED
    BY <2>1, NextStage
<1>5. /\ call' \in [Call -> RequestRecord] /\ OthersStand(c)
      /\ call'[c] = r /\ \A k \in Call \ {c} : call'[k] = call[k]
  <2> HIDE DEF r
  <2> QED
    BY <1>1, <1>3, <1>4 DEF OthersStand
<1>6. /\ event' \in [Event -> EventRow] /\ event'[e].themes = {}
      /\ \A x \in Event : /\ event'[x].row = event[x].row
                          /\ event'[x].company = event[x].company
                          /\ x # e => event'[x].themes = event[x].themes
  <2> DEFINE row == [event[e] EXCEPT !.themes = {}]
  <2>1. /\ row \in EventRow /\ row.row = event[e].row
        /\ row.company = event[e].company /\ row.themes = {}
    BY <1>2, <1>3 DEF EventRow
  <2>2. event' = [event EXCEPT ![e] = row]
    BY <1>1
  <2> HIDE DEF row
  <2> QED
    BY <1>2, <2>1, <2>2, RowWritten
<1>7. torn' \subseteq Event
  BY <1>1, <1>2 DEF IInv, TypeOK
<1>8. /\ TypeOK' /\ RowsKept /\ \A d \in Call \ {c} : Unsurprised(d)
      /\ OrderedStays' /\ PromoCodeOnce' /\ Unborn'
  BY <1>1, <1>5, <1>6, <1>7, EventsEdited DEF IInv, TypeOK
<1>9. RequestOK(call[c])'
  <2>1. /\ "OK" \in r.docs /\ r.op = "syncThemes" /\ r.body \in Lists
    BY <1>1, <1>4 DEF RequestOK, Replies, Findings
  <2>2. event'[r.id].row # "none" /\ r.id \in Event
    BY <1>2, <1>4, <1>6
  <2> HIDE DEF r
  <2>3. Replies(call[c])'
    BY <1>4, <1>5, <2>1 DEF Replies
  <2>4. Findings(call[c])'
    BY <1>4, <1>5, <2>1, <2>2 DEF Findings, CompanySeen, EventSeen, PromoSeen, CompanyLooked,
                                  EventLooked
  <2>5. Absences(call[c])'
    BY <1>4, <1>5 DEF Absences
  <2> QED
    BY <2>3, <2>4, <2>5 DEF RequestOK
<1>10. (\A d \in Call : RequestOK(call[d]))'
  BY <1>5, <1>8, <1>9, RequestsKept
<1>11. SyncInv'
  <2>1. /\ call'[c].stage = "filling" /\ call'[c].id = e /\ ~FillingOf(c, e)
        /\ \A k \in Call, x \in Event : k # c \/ x # e =>
             ((call'[k].stage = "filling" /\ call'[k].id = x) <=> FillingOf(k, x))
    BY <1>1, <1>4, <1>5 DEF FillingOf
  <2>2. ASSUME e \notin torn' PROVE \A k \in Call : ~FillingOf(k, e)
    BY <1>1, <2>2 DEF Filling, FillingOf, At
  <2>3. \A x \in Event \ {e} : x \in torn' <=> x \in torn
    BY <1>1
  <2>4. ASSUME NEW x \in Event, x \notin torn', x # e
        PROVE  /\ (\A k \in Call : ~(call'[k].stage = "filling" /\ call'[k].id = x)) =>
                    event'[x].themes = wanted'[x]
               /\ \A k \in Call : call'[k].stage = "filling" /\ call'[k].id = x =>
                    /\ event'[x].themes = {}
                    /\ \A l \in Call : call'[l].stage = "filling" /\ call'[l].id = x => l = k
    <3>1. /\ (\A k \in Call : ~FillingOf(k, x)) => event[x].themes = wanted[x]
          /\ \A k \in Call : FillingOf(k, x) =>
               /\ event[x].themes = {}
               /\ \A l \in Call : FillingOf(l, x) => l = k
      BY <2>3, <2>4 DEF IInv, SyncInv
    <3>2. event'[x].themes = event[x].themes /\ wanted' = wanted
      BY <1>1, <1>6, <2>4
    <3>3. \A k \in Call : (call'[k].stage = "filling" /\ call'[k].id = x) <=> FillingOf(k, x)
      BY <2>1, <2>4
    <3> QED
      BY <3>1, <3>2, <3>3
  <2>5. ASSUME e \notin torn'
        PROVE  /\ ~(\A k \in Call : ~(call'[k].stage = "filling" /\ call'[k].id = e))
               /\ \A k \in Call : call'[k].stage = "filling" /\ call'[k].id = e => k = c
    <3>1. \A k \in Call : ~FillingOf(k, e)
      BY <2>2, <2>5
    <3>2. \A k \in Call \ {c} : ~(call'[k].stage = "filling" /\ call'[k].id = e)
      BY <1>2, <2>1, <3>1
    <3> QED
      BY <2>1, <3>2
  <2> QED
    BY <1>6, <2>4, <2>5 DEF SyncInv, FillingOf
<1> QED
  BY <1>8, <1>10, <1>11 DEF IInv

LEMMA FillThemesStep ==
    ASSUME IInv, Unhurried, NEW c \in Call, FillThemes(c)
    PROVE  IInv'
<1> DEFINE e == call[c].id
           list == call[c].body.themes
<1>1. /\ call[c].stage = "filling" /\ RequestOK(call[c]) /\ FillingOf(c, e)
      /\ UNCHANGED <<company, promo, bought>>
  BY DEF FillThemes, At, IInv, FillingOf
<1>2. /\ e \in Event /\ event[e].row # "none" /\ "OK" \in call[c].docs
      /\ list \in SUBSET (Theme \cup {None}) /\ call[c].op = "syncThemes"
  BY <1>1 DEF RequestOK, Findings, Replies, EventSeen, Lists
<1>3. "INTERNAL_SERVER_ERROR" \in Status /\ "OK" \in Status
  BY DEF Status
<1>4. call[c] \in RequestRecord /\ event[e] \in EventRow
  BY <1>2 DEF IInv, TypeOK, RequestRecord
<1>5. ASSUME NEW code \in Status, Reply(c, code)
      PROVE  \A k \in Call, x \in Event :
               (call'[k].stage = "filling" /\ call'[k].id = x) <=> (FillingOf(k, x) /\ k # c)
  BY <1>5, CallsReplied DEF FillingOf
<1>6. CASE /\ None \notin list /\ Reply(c, "OK") /\ torn' = torn
           /\ event' = [event EXCEPT ![e].themes = @ \cup list]
           /\ wanted' = [wanted EXCEPT ![e] = list]
  <2>1. /\ call' \in [Call -> RequestRecord]
        /\ call'[c].stage # "filling" /\ RequestOK(call[c])' /\ OthersStand(c)
    BY <1>2, <1>3, <1>6, CallsReplied
  <2>2. list \in SUBSET Theme
    BY <1>2, <1>6
  <2> DEFINE row == [event[e] EXCEPT !.themes = @ \cup list]
  <2>3. /\ row \in EventRow /\ row.row = event[e].row /\ row.company = event[e].company
        /\ row.themes = event[e].themes \cup list
    BY <1>4, <2>2 DEF EventRow
  <2>4. event' = [event EXCEPT ![e] = row]
    BY <1>6
  <2> HIDE DEF row
  <2>5. /\ event' \in [Event -> EventRow] /\ event'[e] = row
        /\ \A x \in Event : /\ event'[x].row = event[x].row
                            /\ event'[x].company = event[x].company
                            /\ x # e => event'[x].themes = event[x].themes
    BY <1>2, <2>3, <2>4, RowWritten
  <2>6. /\ wanted' \in [Event -> SUBSET Theme] /\ wanted'[e] = list
        /\ \A x \in Event : x # e => wanted'[x] = wanted[x]
    <3> HIDE DEF list
    <3> QED
      BY <1>2, <1>6, <2>2 DEF IInv, TypeOK
  <2>7. torn' \subseteq Event /\ \A x \in Event : event[x].row = "none" => wanted'[x] = wanted[x]
    BY <1>2, <1>6, <2>6 DEF IInv, TypeOK
  <2>8. /\ TypeOK' /\ RowsKept /\ \A d \in Call \ {c} : Unsurprised(d)
        /\ OrderedStays' /\ PromoCodeOnce' /\ Unborn'
    BY <1>1, <2>1, <2>5, <2>6, <2>7, EventsEdited
  <2>9. (\A d \in Call : RequestOK(call[d]))'
    BY <2>1, <2>8, RequestsKept
  <2>10. SyncInv'
    <3>1. \A k \in Call, x \in Event :
            (call'[k].stage = "filling" /\ call'[k].id = x) <=> (FillingOf(k, x) /\ k # c)
      BY <1>3, <1>5, <1>6
    <3>2. ASSUME e \notin torn'
          PROVE  /\ event'[e].themes = wanted'[e]
                 /\ \A k \in Call : ~(call'[k].stage = "filling" /\ call'[k].id = e)
      <4>1. event[e].themes = {} /\ \A k \in Call : FillingOf(k, e) => k = c
        BY <1>1, <1>2, <1>6, <3>2 DEF IInv, SyncInv
      <4> HIDE DEF list
      <4> QED
        BY <1>2, <2>3, <2>5, <2>6, <3>1, <4>1
    <3>3. ASSUME NEW x \in Event, x \notin torn', x # e
          PROVE  /\ event'[x].themes = event[x].themes /\ wanted'[x] = wanted[x] /\ x \notin torn
                 /\ \A k \in Call :
                      (call'[k].stage = "filling" /\ call'[k].id = x) <=> FillingOf(k, x)
      BY <1>6, <2>5, <2>6, <3>1, <3>3 DEF FillingOf
    <3> QED
      BY <3>2, <3>3 DEF IInv, SyncInv, FillingOf
  <2> QED
    BY <2>8, <2>9, <2>10 DEF IInv
<1>7. CASE /\ Reply(c, "INTERNAL_SERVER_ERROR") /\ torn' = torn \cup {e}
           /\ UNCHANGED <<event, wanted>>
  <2>1. /\ call' \in [Call -> RequestRecord] /\ call'[c].stage # "filling" /\ OthersStand(c)
        /\ call'[c] = Ended(call[c], "INTERNAL_SERVER_ERROR")
    BY <1>3, <1>7, CallsReplied
  <2>2. torn' \subseteq Event
    BY <1>2, <1>7 DEF IInv, TypeOK
  <2>3. event' \in [Event -> EventRow] /\ wanted' \in [Event -> SUBSET Theme]
    BY <1>7 DEF IInv, TypeOK
  <2>4. /\ TypeOK' /\ RowsKept /\ \A d \in Call \ {c} : Unsurprised(d)
        /\ OrderedStays' /\ PromoCodeOnce' /\ Unborn'
    BY <1>1, <1>7, <2>1, <2>2, <2>3, EventsEdited
  <2>5. RequestOK(call[c])'
    <3>1. CASE "INTERNAL_SERVER_ERROR" \in call[c].docs
      BY <1>3, <1>7, <3>1, CallsReplied
    <3>2. CASE "INTERNAL_SERVER_ERROR" \notin call[c].docs
      <4>1. call'[c].stage = "odd" /\ call'[c].id = e /\ call'[c].op = "syncThemes"
        BY <1>2, <1>4, <2>1, <3>2 DEF Ended, RequestRecord, Request
      <4>2. Excused(call[c])'
        BY <1>7, <4>1 DEF Excused
      <4> QED
        BY <4>1, <4>2 DEF RequestOK, Replies, Findings, Absences, CompanySeen, EventSeen,
                          PromoSeen, CompanyLooked, EventLooked
    <3> QED
      BY <3>1, <3>2
  <2>6. (\A d \in Call : RequestOK(call[d]))'
    BY <2>1, <2>4, <2>5, RequestsKept
  <2>7. SyncInv'
    <3>1. \A k \in Call, x \in Event :
            (call'[k].stage = "filling" /\ call'[k].id = x) <=> (FillingOf(k, x) /\ k # c)
      BY <1>3, <1>5, <1>7
    <3>2. \A k \in Call, x \in Event : x \notin torn' =>
            ((call'[k].stage = "filling" /\ call'[k].id = x) <=> FillingOf(k, x))
      BY <1>7, <3>1 DEF FillingOf
    <3> QED
      BY <1>7, <3>2 DEF IInv, SyncInv, FillingOf
  <2> QED
    BY <2>4, <2>6, <2>7 DEF IInv
<1> QED
  BY <1>6, <1>7 DEF FillThemes

LEMMA CreateEventRowStep ==
    ASSUME IInv, NEW c \in Call, CreateEventRow(c)
    PROVE  IInv'
<1> DEFINE k == call[c].id
           dates == call[c].body
<1>1. /\ call[c].stage = "planning" /\ RequestOK(call[c])
      /\ UNCHANGED <<company, promo, bought, torn, wanted>>
  BY DEF CreateEventRow, At, IInv, history
<1>2. /\ k \in Company \cup {None} /\ "OK" \in call[c].docs /\ call[c].op = "createEvent"
      /\ dates \in Dates
  BY <1>1 DEF RequestOK, Findings, Replies, CompanyLooked
<1>3. "INTERNAL_SERVER_ERROR" \in Status
  BY DEF Status
<1> DEFINE row == [row |-> "stored", company |-> k, themes |-> {}, tickets |-> FALSE,
                   startedAt |-> dates.startedAt, endedAt |-> dates.endedAt]
<1>4. ASSUME NEW e \in Event, event[e].row = "none", CompanyExists(k),
             event' = [event EXCEPT ![e] = row],
             call' = [Overtaking(c, Closing(k)) EXCEPT ![c] = Ended(@, "OK")]
      PROVE  IInv'
  <2>1. /\ call' \in [Call -> RequestRecord]
        /\ call'[c].stage = "idle" /\ RequestOK(call[c])' /\ OthersStand(c)
        /\ \A d \in Closing(k) \cap Call : d # c => call'[d].overtaken
    BY <1>2, <1>4, CallsOvertaken
  <2>2. k \in Company
    BY <1>2, <1>4 DEF CompanyExists
  <2>3. dates.startedAt \in Hour \cup {-1} /\ dates.endedAt \in Hour \cup {-1}
    BY <1>2, HourAssumption DEF NoDates
  <2>4. /\ row \in EventRow /\ row.row = "stored" /\ row.company = k /\ row.themes = {}
    BY <2>2, <2>3 DEF EventRow, RowState
  <2>5. /\ event' \in [Event -> EventRow] /\ event'[e].row = "stored"
        /\ event'[e].company = k /\ event'[e].themes = {}
        /\ \A x \in Event \ {e} : event'[x] = event[x]
    <3> HIDE DEF row
    <3> QED
      BY <1>4, <2>4 DEF IInv, TypeOK
  <2>6. \A x \in Event \cup {None} : EventExists(x) => EventExists(x)' /\ x # e
    BY <1>4, <2>5 DEF EventExists
  <2>7. TypeOK'
    <3>1. ASSUME NEW x \in Event, EventExists(x)' PROVE CompanyExists(event[x].company)'
      BY <1>1, <1>4, <2>5, <3>1 DEF IInv, TypeOK, EventExists, CompanyExists
    <3>2. \A p \in Promo : PromoExists(p)' => EventExists(promo[p].event)'
      BY <1>1, <2>6 DEF IInv, TypeOK, PromoExists, PromoRow
    <3>3. \A l, n \in Company : CompanyExists(l)' /\ CompanyExists(n)' /\ l # n =>
            company'[l].owner # company'[n].owner /\ company'[l].email # company'[n].email
      BY <1>1 DEF IInv, TypeOK, CompanyExists
    <3> QED
      BY <1>1, <2>1, <2>5, <3>1, <3>2, <3>3 DEF IInv, TypeOK, RequestRecord
  <2>8. RowsKept
    BY <1>1, <1>4, <2>5 DEF RowsKept
  <2>9. ASSUME NEW d \in Call \ {c} PROVE Unsurprised(d)
    <3>1. call[d].stage = "closed" /\ call[d].id = k => call'[d].overtaken
      BY <2>1 DEF At, Closing
    <3>2. call[d].id # k => \A x \in Event : event'[x].row = "stored"
            /\ event'[x].company = call[d].id => event'[x] = event[x]
      BY <2>5
    <3> QED
      BY <1>1, <3>1, <3>2 DEF Unsurprised
  <2>10. (\A d \in Call : RequestOK(call[d]))'
    BY <1>1, <2>1, <2>8, <2>9, RequestsKept
  <2>11. SyncInv'
    <3>1. \A d \in Call, x \in Event :
            (call'[d].stage = "filling" /\ call'[d].id = x) <=> FillingOf(d, x)
      BY <1>1, <2>1, OthersFields DEF IInv, FillingOf
    <3>2. \A d \in Call : ~FillingOf(d, e)
      BY <1>4 DEF IInv, RequestOK, Findings, EventSeen, FillingOf
    <3>3. wanted'[e] = {}
      BY <1>1, <1>4 DEF IInv, Unborn
    <3> QED
      <4>1. ASSUME NEW x \in Event, x \notin torn', x # e
            PROVE  event'[x].themes = event[x].themes /\ wanted'[x] = wanted[x] /\ x \notin torn
        BY <1>1, <2>5, <4>1
      <4>2. event'[e].themes = wanted'[e]
        BY <2>5, <3>3
      <4> QED
        BY <3>1, <3>2, <4>1, <4>2 DEF IInv, SyncInv, FillingOf
  <2>12. OrderedStays'
    BY <1>1, <2>5, <2>6 DEF IInv, OrderedStays, PromoExists, CompanyExists
  <2>13. PromoCodeOnce' /\ Unborn'
    BY <1>1, <2>5 DEF IInv, PromoCodeOnce, Unborn, PromoExists
  <2> QED
    BY <2>7, <2>10, <2>11, <2>12, <2>13 DEF IInv
<1>5. CASE Reply(c, "INTERNAL_SERVER_ERROR") /\ UNCHANGED event
  <2>1. Excused([call[c] EXCEPT !.answer = "INTERNAL_SERVER_ERROR"])
    BY <1>2, <1>3, Excuses DEF UndocumentedAnswers
  <2> QED
    BY <1>1, <1>3, <1>5, <2>1, ReplyStep DEF Quiet, tables, history
<1> QED
  BY <1>4, <1>5 DEF CreateEventRow

LEMMA DeleteEventRowStep ==
    ASSUME IInv, NEW c \in Call, DeleteEventRow(c)
    PROVE  IInv'
<1> DEFINE e == call[c].id
<1>1. /\ call[c].stage = "cancelled" /\ RequestOK(call[c])
      /\ UNCHANGED <<company, bought, torn>>
  BY DEF DeleteEventRow, At, IInv
<1>2. /\ e \in Event /\ event[e].row # "none" /\ "OK" \in call[c].docs
      /\ call[c].op = "deleteEvent"
  BY <1>1 DEF RequestOK, Findings, Replies, EventSeen
<1>3. "INTERNAL_SERVER_ERROR" \in Status /\ "OK" \in Status
  BY DEF Status
<1>4. CASE /\ EventExists(e) /\ ~Restricted(e) /\ Reply(c, "OK")
           /\ event' = [event EXCEPT ![e] = [NoEvent EXCEPT !.row = "deleted"]]
           /\ promo' = [p \in Promo |->
                IF p \in PromosOf(e) THEN [NoPromo EXCEPT !.row = "deleted"] ELSE promo[p]]
           /\ wanted' = [wanted EXCEPT ![e] = {}]
  <2>1. /\ call' \in [Call -> RequestRecord]
        /\ call'[c].stage # "filling" /\ RequestOK(call[c])' /\ OthersStand(c)
        /\ \A d \in Call \ {c} : call'[d] = call[d]
    BY <1>2, <1>3, <1>4, CallsReplied
  <2> DEFINE goneEvent == [NoEvent EXCEPT !.row = "deleted"]
             gonePromo == [NoPromo EXCEPT !.row = "deleted"]
  <2>2. goneEvent \in EventRow /\ goneEvent.row = "deleted" /\ goneEvent.themes = {}
    BY DEF NoEvent, EventRow, RowState
  <2>3. gonePromo \in PromoRow /\ gonePromo.row = "deleted"
    BY DEF NoPromo, PromoRow, RowState
  <2>4. /\ event' = [event EXCEPT ![e] = goneEvent]
         /\ promo' = [p \in Promo |-> IF p \in PromosOf(e) THEN gonePromo ELSE promo[p]]
    BY <1>4
  <2> HIDE DEF goneEvent, gonePromo
  <2>5. /\ event' \in [Event -> EventRow] /\ event'[e].row = "deleted"
        /\ event'[e].themes = {} /\ \A x \in Event \ {e} : event'[x] = event[x]
    BY <1>2, <2>2, <2>4 DEF IInv, TypeOK
  <2>6. /\ promo' \in [Promo -> PromoRow]
        /\ \A p \in PromosOf(e) : promo'[p].row = "deleted"
        /\ \A p \in Promo \ PromosOf(e) : promo'[p] = promo[p]
    BY <2>3, <2>4 DEF IInv, TypeOK, PromosOf
  <2>7. /\ wanted' \in [Event -> SUBSET Theme] /\ wanted'[e] = {}
        /\ \A x \in Event \ {e} : wanted'[x] = wanted[x]
    BY <1>2, <1>4 DEF IInv, TypeOK
  <2>8. \A x \in Event \cup {None} : EventExists(x)' <=> EventExists(x) /\ x # e
    BY <1>2, <2>5 DEF EventExists
  <2>9. \A p \in Promo : /\ PromoExists(p)' <=> PromoExists(p) /\ promo[p].event # e
                         /\ PromoExists(p)' => promo'[p] = promo[p]
    BY <2>6 DEF PromoExists, PromosOf
  <2>10. TypeOK'
    <3>1. \A x \in Event : EventExists(x)' => CompanyExists(event[x].company)'
      BY <1>1, <2>5, <2>8 DEF IInv, TypeOK, CompanyExists
    <3>2. \A p \in Promo : PromoExists(p)' => EventExists(promo[p].event)'
      BY <2>8, <2>9 DEF IInv, TypeOK, PromoRow
    <3>3. \A l, n \in Company : CompanyExists(l)' /\ CompanyExists(n)' /\ l # n =>
            company'[l].owner # company'[n].owner /\ company'[l].email # company'[n].email
      BY <1>1 DEF IInv, TypeOK, CompanyExists
    <3> QED
      BY <1>1, <2>1, <2>5, <2>6, <2>7, <3>1, <3>2, <3>3 DEF IInv, TypeOK, RequestRecord
  <2>11. RowsKept
    BY <1>1, <1>4, <2>5, <2>6 DEF RowsKept, EventExists, PromosOf, PromoExists
  <2>12. \A d \in Call \ {c} : Unsurprised(d)
    BY <1>1, <2>5, <2>6 DEF Unsurprised
  <2>13. (\A d \in Call : RequestOK(call[d]))'
    BY <1>1, <2>1, <2>11, <2>12, RequestsKept
  <2>14. SyncInv'
    <3>1. \A d \in Call, x \in Event :
            (call'[d].stage = "filling" /\ call'[d].id = x) <=> FillingOf(d, x)
      BY <1>1, <2>1, OthersFields DEF IInv, FillingOf
    <3> QED
      <4>1. ASSUME NEW x \in Event, x \notin torn', x # e
            PROVE  event'[x].themes = event[x].themes /\ wanted'[x] = wanted[x] /\ x \notin torn
        BY <1>1, <2>5, <2>7, <4>1
      <4>2. ASSUME NEW x \in Event, x \notin torn'
            PROVE  /\ (\A d \in Call : ~FillingOf(d, x)) => event'[x].themes = wanted'[x]
                   /\ \A d \in Call : FillingOf(d, x) =>
                        /\ event'[x].themes = {}
                        /\ \A l \in Call : FillingOf(l, x) => l = d
        <5>1. /\ (\A d \in Call : ~FillingOf(d, x)) => event[x].themes = wanted[x]
              /\ \A d \in Call : FillingOf(d, x) =>
                   /\ event[x].themes = {}
                   /\ \A l \in Call : FillingOf(l, x) => l = d
          BY <1>1, <4>2 DEF IInv, SyncInv
        <5> QED
          BY <2>5, <2>7, <4>1, <4>2, <5>1
      <4> QED
        BY <3>1, <4>2 DEF SyncInv, FillingOf
  <2>15. OrderedStays'
    <3>1. e \notin bought /\ \A p \in Promo \cap bought : ~(p \in PromosOf(e))
      BY <1>4 DEF Restricted
    <3> QED
      BY <1>1, <2>5, <2>8, <2>9, <3>1 DEF IInv, OrderedStays, CompanyExists, PromosOf
  <2>16. PromoCodeOnce'
    BY <2>9 DEF IInv, PromoCodeOnce
  <2>17. Unborn'
    BY <2>5, <2>7 DEF IInv, Unborn
  <2> QED
    BY <2>10, <2>13, <2>14, <2>15, <2>16, <2>17 DEF IInv
<1>5. CASE UNCHANGED <<event, promo, wanted>> /\ Reply(c, "INTERNAL_SERVER_ERROR")
  <2>1. Excused([call[c] EXCEPT !.answer = "INTERNAL_SERVER_ERROR"])
    BY <1>2, <1>3, Excuses DEF UndocumentedAnswers
  <2> QED
    BY <1>1, <1>3, <1>5, <2>1, ReplyStep DEF Quiet, tables, history
<1> QED
  BY <1>4, <1>5 DEF DeleteEventRow

LEMMA StorePromoCodeStep ==
    ASSUME IInv, NEW c \in Call, StorePromoCode(c)
    PROVE  IInv'
<1> DEFINE e == call[c].id
           x == call[c].body
           rivals == {d \in Call : At(d, "storing") /\ call[d].id = e /\ call[d].body = x}
<1>1. /\ call[c].stage = "storing" /\ RequestOK(call[c])
      /\ UNCHANGED <<company, event, bought, torn, wanted>>
  BY DEF StorePromoCode, At, IInv, history
<1>2. /\ e \in Event /\ event[e].row # "none" /\ "OK" \in call[c].docs /\ x \in Code
  BY <1>1 DEF RequestOK, Findings, Replies, EventSeen
<1>3. "INTERNAL_SERVER_ERROR" \in Status
  BY DEF Status
<1>4. ASSUME NEW p \in Promo, NEW isActive \in BOOLEAN, promo[p].row = "none", EventExists(e),
             promo' = [promo EXCEPT ![p] = [row |-> "stored", event |-> e, code |-> x,
                         isActive |-> isActive, twin |-> call[c].overtaken]],
             call' = [Overtaking(c, rivals) EXCEPT ![c] = Ended(@, "OK")]
      PROVE  IInv'
  <2>1. /\ call' \in [Call -> RequestRecord]
        /\ call'[c].stage = "idle" /\ RequestOK(call[c])' /\ OthersStand(c)
        /\ \A d \in rivals \cap Call : d # c => call'[d].overtaken
    BY <1>2, <1>4, CallsOvertaken
  <2> DEFINE row == [row |-> "stored", event |-> e, code |-> x, isActive |-> isActive,
                     twin |-> call[c].overtaken]
  <2>2. call[c].overtaken \in BOOLEAN
    BY DEF IInv, TypeOK, Request
  <2>3. /\ row \in PromoRow /\ row.row = "stored" /\ row.event = e /\ row.code = x
        /\ row.twin = call[c].overtaken
    BY <1>2, <2>2 DEF PromoRow, RowState
  <2>4. /\ promo' \in [Promo -> PromoRow] /\ promo'[p] = row
        /\ \A q \in Promo \ {p} : promo'[q] = promo[q]
    <3> HIDE DEF row
    <3>1. promo' = [promo EXCEPT ![p] = row]
      BY <1>4 DEF row
    <3> QED
      BY <2>3, <3>1 DEF IInv, TypeOK
  <2> HIDE DEF row
  <2>5. \A q \in Promo : /\ PromoExists(q) => PromoExists(q)' /\ q # p
                         /\ PromoExists(q)' => q = p \/ PromoExists(q)
    BY <1>4, <2>4 DEF PromoExists
  <2>6. TypeOK'
    <3>1. \A q \in Promo : PromoExists(q)' => EventExists(promo[q].event)'
      BY <1>1, <1>4, <2>3, <2>4, <2>5 DEF IInv, TypeOK, EventExists
    <3> QED
      BY <1>1, <2>1, <2>4, <3>1 DEF IInv, TypeOK, RequestRecord, CompanyExists, EventExists
  <2>7. RowsKept
    BY <1>1, <1>4, <2>3, <2>4 DEF RowsKept
  <2>8. ASSUME NEW d \in Call \ {c} PROVE Unsurprised(d)
    <3>1. call[d].stage = "storing" /\ call[d].id = e /\ call[d].body = x => call'[d].overtaken
      BY <2>1 DEF At
    <3>2. call[d].id # e \/ call[d].body # x =>
            \A q \in Promo : promo'[q].event = call[d].id /\ promo'[q].code = call[d].body =>
              promo'[q] = promo[q]
      BY <2>3, <2>4
    <3> QED
      BY <1>1, <3>1, <3>2 DEF Unsurprised
  <2>9. (\A d \in Call : RequestOK(call[d]))'
    BY <1>1, <2>1, <2>7, <2>8, RequestsKept
  <2>10. SyncInv'
    BY <1>1, <2>1, SyncStands
  <2>11. OrderedStays'
    BY <1>1, <2>5 DEF IInv, OrderedStays, EventExists, CompanyExists
  <2>12. PromoCodeOnce'
    <3>1. ASSUME NEW q \in Promo, PromoExists(q), promo[q].event = e, promo[q].code = x
          PROVE  promo'[p].twin
      <4>1. q \in Matching(e, x)
        BY <3>1 DEF Matching, PromosOf
      <4>2. call[c].overtaken
        BY <1>1, <4>1 DEF RequestOK, Absences
      <4> QED
        BY <2>3, <2>4, <4>2
    <3> QED
      BY <2>3, <2>4, <2>5, <3>1 DEF IInv, PromoCodeOnce
  <2>13. Unborn'
    BY <1>1 DEF IInv, Unborn
  <2> QED
    BY <2>6, <2>9, <2>10, <2>11, <2>12, <2>13 DEF IInv
<1>5. CASE ~EventExists(e) /\ Reply(c, "INTERNAL_SERVER_ERROR") /\ UNCHANGED promo
  <2>1. Excused([call[c] EXCEPT !.answer = "INTERNAL_SERVER_ERROR"])
    BY <1>2, <1>3, <1>5, Excuses
  <2> QED
    BY <1>1, <1>3, <1>5, <2>1, ReplyStep DEF Quiet, tables, history
<1> QED
  BY <1>4, <1>5 DEF StorePromoCode

LEMMA WritePromoCodeStep ==
    ASSUME IInv, NEW c \in Call, WritePromoCode(c)
    PROVE  IInv'
<1> DEFINE p == call[c].id
           isActive == call[c].body.isActive
<1>1. /\ call[c].stage = "switched" /\ RequestOK(call[c])
      /\ UNCHANGED <<company, event, bought, torn, wanted>>
  BY DEF WritePromoCode, At, IInv, history
<1>2. p \in Promo /\ promo[p].row # "none" /\ "OK" \in call[c].docs /\ isActive \in BOOLEAN
  BY <1>1 DEF RequestOK, Findings, Replies, PromoSeen, Switch
<1>3. "INTERNAL_SERVER_ERROR" \in Status /\ "OK" \in Status
  BY DEF Status
<1>4. CASE promo' = [promo EXCEPT ![p].isActive = isActive] /\ Reply(c, "OK")
  <2>1. /\ call' \in [Call -> RequestRecord]
        /\ call'[c].stage # "filling" /\ RequestOK(call[c])' /\ OthersStand(c)
    BY <1>2, <1>3, <1>4, CallsReplied
  <2> DEFINE row == [promo[p] EXCEPT !.isActive = isActive]
  <2>2. /\ row \in PromoRow /\ row.row = promo[p].row /\ row.event = promo[p].event
        /\ row.code = promo[p].code /\ row.twin = promo[p].twin
    BY <1>2 DEF IInv, TypeOK, PromoRow
  <2>3. promo' = [promo EXCEPT ![p] = row]
    BY <1>4
  <2> HIDE DEF row
  <2>4. /\ promo' \in [Promo -> PromoRow]
        /\ \A q \in Promo :
             /\ promo'[q].row = promo[q].row /\ promo'[q].event = promo[q].event
             /\ promo'[q].code = promo[q].code /\ promo'[q].twin = promo[q].twin
    BY <1>2, <2>2, <2>3 DEF IInv, TypeOK
  <2>5. TypeOK'
    <3>1. \A q \in Promo : PromoExists(q)' => EventExists(promo[q].event)'
      BY <1>1, <2>4 DEF IInv, TypeOK, PromoExists, EventExists
    <3> QED
      BY <1>1, <2>1, <2>4, <3>1 DEF IInv, TypeOK, RequestRecord, CompanyExists, EventExists
  <2>6. RowsKept
    BY <1>1, <2>4 DEF RowsKept
  <2>7. \A d \in Call \ {c} : Unsurprised(d)
    BY <1>1, <2>4 DEF Unsurprised
  <2>8. (\A d \in Call : RequestOK(call[d]))'
    BY <1>1, <2>1, <2>6, <2>7, RequestsKept
  <2>9. SyncInv'
    BY <1>1, <2>1, SyncStands
  <2>10. OrderedStays'
    BY <1>1, <2>4 DEF IInv, OrderedStays, EventExists, CompanyExists, PromoExists
  <2>11. PromoCodeOnce'
    BY <2>4 DEF IInv, PromoCodeOnce, PromoExists
  <2>12. Unborn'
    BY <1>1 DEF IInv, Unborn
  <2> QED
    BY <2>5, <2>8, <2>9, <2>10, <2>11, <2>12 DEF IInv
<1>5. CASE ~PromoExists(p) /\ Reply(c, "INTERNAL_SERVER_ERROR") /\ UNCHANGED promo
  <2>1. Excused([call[c] EXCEPT !.answer = "INTERNAL_SERVER_ERROR"])
    BY <1>2, <1>3, <1>5, Excuses
  <2> QED
    BY <1>1, <1>3, <1>5, <2>1, ReplyStep DEF Quiet, tables, history
<1> QED
  BY <1>4, <1>5 DEF WritePromoCode

-----------------------------------------------------------------------------
(* Orders, crashes and answers on their way                                *)

LEMMA PlaceOrderStep ==
    ASSUME IInv, NEW e \in Event, NEW used \in SUBSET Promo, PlaceOrder(e, used)
    PROVE  IInv'
<1>1. /\ EventExists(e) /\ used \subseteq PromosOf(e) /\ bought' = bought \cup {e} \cup used
      /\ UNCHANGED <<call, company, event, promo, torn, wanted>>
  BY DEF PlaceOrder, tables, history
<1>2. TypeOK'
  BY <1>1 DEF IInv, TypeOK, CompanyExists, EventExists, PromoExists
<1>3. ASSUME NEW k \in Call PROVE RequestOK(call[k])'
  <2>1. RowsKept /\ Unsurprised(k) /\ RequestOK(call[k])
    BY <1>1 DEF RowsKept, Unsurprised, IInv
  <2> QED
    BY <1>1, <2>1, OthersKept DEF IInv
<1>4. OrderedStays'
  <2>1. \A x \in Event \cap bought' : x \in bought \/ x = e
    BY <1>1, IdAssumption
  <2>2. \A p \in Promo \cap bought' : p \in bought \/ p \in PromosOf(e)
    BY <1>1, IdAssumption
  <2> QED
    BY <1>1, <2>1, <2>2 DEF IInv, TypeOK, OrderedStays, PromosOf, EventExists, CompanyExists,
                            PromoExists
<1>5. SyncInv' /\ PromoCodeOnce' /\ Unborn'
  BY <1>1 DEF IInv, SyncInv, FillingOf, PromoCodeOnce, Unborn, PromoExists
<1> QED
  BY <1>2, <1>3, <1>4, <1>5 DEF IInv

LEMMA CrashStep ==
    ASSUME IInv, Crash
    PROVE  IInv'
<1>1. /\ UNCHANGED <<company, event, promo, bought, wanted>>
      /\ torn' = torn \cup {call[c].id : c \in {d \in Call : At(d, "filling")}}
      /\ call' = [c \in Call |-> Idle]
  BY DEF Crash, tables
<1>2. \A c \in Call : At(c, "filling") => call[c].id \in Event
  BY DEF At, IInv, RequestOK, Findings, EventSeen
<1>3. torn' \subseteq Event
  BY <1>1, <1>2 DEF IInv, TypeOK
<1>4. call' \in [Call -> RequestRecord]
  BY <1>1, IdleType
<1>5. TypeOK'
  BY <1>1, <1>3, <1>4 DEF IInv, TypeOK, RequestRecord, CompanyExists, EventExists, PromoExists
<1>6. \A c \in Call : RequestOK(call[c])'
  BY <1>1, IdleOK
<1>7. \A c \in Call : call'[c].stage = "idle"
  BY <1>1 DEF Idle
<1>8. SyncInv'
  <2>1. ASSUME NEW e \in Event, e \notin torn'
        PROVE  e \notin torn /\ \A k \in Call : ~FillingOf(k, e)
    BY <1>1, <2>1 DEF FillingOf, At
  <2> QED
    BY <1>1, <1>7, <2>1 DEF IInv, SyncInv, FillingOf
<1>9. OrderedStays' /\ PromoCodeOnce' /\ Unborn'
  BY <1>1 DEF IInv, OrderedStays, PromoCodeOnce, Unborn, EventExists, CompanyExists, PromoExists
<1> QED
  BY <1>5, <1>6, <1>8, <1>9 DEF IInv

LEMMA OddAnswerStep ==
    ASSUME IInv, NEW c \in Call, SendOddAnswer(c), Quiet
    PROVE  IInv'
<1>1. /\ call[c].stage = "odd" /\ call' = [call EXCEPT ![c] = Idle]
      /\ UNCHANGED <<company, event, promo, bought, torn, wanted>>
  BY DEF SendOddAnswer, Odd, At, Quiet, tables, history
<1>2. /\ call' \in [Call -> RequestRecord] /\ call'[c] = Idle /\ OthersStand(c)
      /\ \A k \in Call \ {c} : call'[k] = call[k]
  BY <1>1, IdleType DEF IInv, TypeOK, RequestRecord, OthersStand
<1>3. TypeOK'
  BY <1>1, <1>2 DEF IInv, TypeOK, RequestRecord, CompanyExists, EventExists, PromoExists
<1>4. RowsKept /\ \A k \in Call \ {c} : Unsurprised(k)
  BY <1>1 DEF RowsKept, Unsurprised
<1>5. (\A k \in Call : RequestOK(call[k]))'
  BY <1>1, <1>2, <1>4, IdleOK, RequestsKept
<1>6. SyncInv'
  BY <1>1, <1>2, SyncStands DEF Idle
<1>7. OrderedStays' /\ PromoCodeOnce' /\ Unborn'
  BY <1>1 DEF IInv, OrderedStays, PromoCodeOnce, Unborn, EventExists, CompanyExists, PromoExists
<1> QED
  BY <1>3, <1>5, <1>6, <1>7 DEF IInv

LEMMA StutterStep ==
    ASSUME IInv, UNCHANGED vars
    PROVE  IInv'
<1>1. UNCHANGED <<call, company, event, promo, bought, torn, wanted>>
  BY DEF vars
<1>2. TypeOK'
  BY <1>1 DEF IInv, TypeOK, CompanyExists, EventExists, PromoExists
<1>3. ASSUME NEW k \in Call PROVE RequestOK(call[k])'
  <2>1. RowsKept /\ Unsurprised(k) /\ RequestOK(call[k])
    BY <1>1 DEF RowsKept, Unsurprised, IInv
  <2> QED
    BY <1>1, <2>1, OthersKept DEF IInv
<1>4. OrderedStays' /\ SyncInv' /\ PromoCodeOnce' /\ Unborn'
  BY <1>1 DEF IInv, OrderedStays, SyncInv, FillingOf, PromoCodeOnce, Unborn, EventExists,
              CompanyExists, PromoExists
<1> QED
  BY <1>2, <1>3, <1>4 DEF IInv

-----------------------------------------------------------------------------
(* Theorems                                                                *)

LEMMA InvInit == Init => IInv
<1> SUFFICES ASSUME Init PROVE IInv
  OBVIOUS
<1>1. /\ call = [c \in Call |-> Idle]
      /\ company = [k \in Company |-> NoCompany]
      /\ event = [e \in Event |-> NoEvent]
      /\ promo = [p \in Promo |-> NoPromo]
      /\ bought = {} /\ torn = {} /\ wanted = [e \in Event |-> {}]
  BY DEF Init
<1>2. /\ NoCompany \in CompanyRow /\ NoCompany.row = "none"
      /\ NoEvent \in EventRow /\ NoEvent.row = "none" /\ NoEvent.themes = {}
      /\ NoPromo \in PromoRow /\ NoPromo.row = "none"
  BY DEF NoCompany, NoEvent, NoPromo, CompanyRow, EventRow, PromoRow, RowState
<1>3. \A c \in Call : call[c].stage = "idle"
  <2>1. Idle.stage = "idle"
    BY DEF Idle
  <2> QED
    BY <1>1, <2>1
<1>4. TypeOK
  <2>1. call \in [Call -> RequestRecord]
    BY <1>1, IdleType
  <2>2. /\ company \in [Company -> CompanyRow] /\ event \in [Event -> EventRow]
        /\ promo \in [Promo -> PromoRow] /\ wanted \in [Event -> SUBSET Theme]
    BY <1>1, <1>2
  <2>3. /\ \A k \in Company : ~CompanyExists(k)
        /\ \A e \in Event : ~EventExists(e)
        /\ \A p \in Promo : ~PromoExists(p)
    BY <1>1, <1>2 DEF CompanyExists, EventExists, PromoExists
  <2> QED
    BY <1>1, <2>1, <2>2, <2>3 DEF TypeOK, RequestRecord
<1>5. ASSUME NEW c \in Call PROVE RequestOK(call[c])
  BY <1>3 DEF RequestOK, Replies, Findings, Absences, CompanySeen, EventSeen, PromoSeen,
              CompanyLooked, EventLooked
<1>6. OrderedStays /\ SyncInv /\ Unborn
  BY <1>1, <1>2, <1>3 DEF OrderedStays, SyncInv, FillingOf, Unborn
<1>7. PromoCodeOnce
  BY <1>1, <1>2 DEF PromoCodeOnce, PromoExists
<1> QED
  BY <1>4, <1>5, <1>6, <1>7 DEF IInv

LEMMA InvStep == IInv /\ [Next]_vars => IInv'
<1> SUFFICES ASSUME IInv, [Next]_vars PROVE IInv'
  OBVIOUS
<1>1. ASSUME NEW c \in Call, SendOddAnswer(c), Quiet PROVE IInv'
  BY <1>1, OddAnswerStep
<1>2. ASSUME Unhurried, NEW c \in Call, CompanyStep(c) PROVE IInv'
  BY <1>2, HandlersOfCompanies, ReadsOfCatalogue, QuietCompanies, CreateCompanyRowStep,
     DeleteCompanyRowStep DEF CompanyStep
<1>3. ASSUME Unhurried, NEW c \in Call, EventStep(c) PROVE IInv'
  BY <1>3, HandlersOfEvents, HandlersOfOffers, ReadsOfCatalogue, QuietEvents, CreateEventRowStep,
     WriteEventStep, ClearThemesStep, FillThemesStep, DeleteEventRowStep, StoreTicketsStep
  DEF EventStep
<1>4. ASSUME Unhurried, NEW c \in Call, PromoStep(c) PROVE IInv'
  BY <1>4, HandlersOfOffers, ReadsOfCatalogue, ValidatePromoCodeStep, QuietPromos,
     StorePromoCodeStep, WritePromoCodeStep DEF PromoStep
<1>5. ASSUME NEW e \in Event, NEW used \in SUBSET Promo, PlaceOrder(e, used) PROVE IInv'
  BY <1>5, PlaceOrderStep
<1>6. CASE Crash
  BY <1>6, CrashStep
<1>7. CASE UNCHANGED vars
  BY <1>7, StutterStep
<1> QED
  BY <1>1, <1>2, <1>3, <1>4, <1>5, <1>6, <1>7 DEF Next

\* What every reachable state of the catalogue satisfies, whatever requests, orders and crashes
\* interleave.
THEOREM Invariance == Spec => []IInv
<1> QED
  BY InvInit, InvStep, PTL DEF Spec

\* The tables stay well formed: a stored event belongs to a stored company, a stored promo code to
\* a stored event, and no two companies share an owner or an address, whichever checks race.
THEOREM Types == Spec => []TypeOK
<1>1. IInv => TypeOK
  BY DEF IInv
<1> QED
  BY <1>1, Invariance, PTL

\* What an order refers to is never deleted, and neither are its event and that event's company:
\* deleteEvent and deleteCompany may run at any moment between an order's steps.
THEOREM OrderedRows == Spec => []OrderedStays
<1>1. IInv => OrderedStays
  BY DEF IInv
<1> QED
  BY <1>1, Invariance, PTL

\* Syncs of any number of lists leave an event with the last list stored, except after one that
\* failed, crashed or overlapped another, until the next that runs alone.
THEOREM Themes == Spec => []ThemesAsListed
<1>1. IInv => ThemesAsListed
  BY DEF IInv, SyncInv, ThemesAsListed, Filling, FillingOf, At
<1> QED
  BY <1>1, Invariance, PTL

\* Only promo codes created at the same time can share their text within an event.
THEOREM PromoCodes == Spec => []PromoCodeOnce
<1>1. IInv => PromoCodeOnce
  BY DEF IInv
<1> QED
  BY <1>1, Invariance, PTL

\* A request is answered as its controller documents, unless it lost a race or is one of the
\* listed exceptions.
THEOREM DocumentedAnswers == Spec => []AnswersAsDocumented
<1>1. IInv => AnswersAsDocumented
  BY DEF IInv, RequestOK, Replies, Excused, AnswersAsDocumented, Odd, At
<1> QED
  BY <1>1, Invariance, PTL

-----------------------------------------------------------------------------
(* The dates of events.  EventDatesApart does not hold: a PATCH with one   *)
(* of the two dates passes IsTimeDifferenceGreaterThan whatever the other, *)
(* stored date is.  Nothing else breaks it, as is proved here: create,     *)
(* PATCHes with both dates, the poster, themes, tickets and deletions, in  *)
(* any order, keep the two dates of every event apart.                     *)

\* No PATCH that is written brings one date only.
WholeDates ==
  \A c \in Call : WriteEvent(c) =>
    (call[c].body.dates.startedAt = -1 <=> call[c].body.dates.endedAt = -1)

\* What the DTOs have checked of a request on its way to the event's row.
DatesChecked(r) ==
  /\ r.stage = "planning" => CreateEventDto(r.body)
  /\ r.stage \in {"editing", "edited"} => UpdateEventDto(r.body.dates)

CallsChecked == \A k \in Call : DatesChecked(call[k])
DatesInv == EventDatesApart /\ CallsChecked

LEMMA ArrivalFields ==
    ASSUME NEW op, NEW docs, NEW stage, NEW id, NEW body, NEW code
    PROVE  LET r == Arrival(op, docs, stage, id, body) IN
           /\ r.stage = stage /\ r.body = body
           /\ Ended(r, code).stage \in {"idle", "odd"}
BY DEF Arrival, Ended, Idle

LEMMA OneCallChecked ==
    ASSUME IInv, CallsChecked, NEW c \in Call, OthersStand(c), DatesChecked(call'[c])
    PROVE  CallsChecked'
<1> SUFFICES ASSUME NEW k \in Call PROVE DatesChecked(call[k])'
  BY DEF CallsChecked
<1>1. CASE k = c
  BY <1>1 DEF DatesChecked
<1>2. CASE k # c
  <2>1. call[k] \in RequestRecord
    BY DEF IInv, TypeOK, RequestRecord
  <2>2. call'[k] = call[k] \/ call'[k] = [call[k] EXCEPT !.overtaken = TRUE]
    BY <1>2 DEF OthersStand
  <2>3. call'[k].stage = call[k].stage /\ call'[k].body = call[k].body
    BY <2>1, <2>2 DEF RequestRecord, Request
  <2> QED
    BY <2>3 DEF CallsChecked, DatesChecked
<1> QED
  BY <1>1, <1>2

LEMMA CallReplaced ==
    ASSUME IInv, CallsChecked, NEW c \in Call, NEW r, call' = [call EXCEPT ![c] = r],
           DatesChecked(r)
    PROVE  CallsChecked'
<1>1. call'[c] = r /\ OthersStand(c)
  BY DEF IInv, TypeOK, OthersStand
<1> QED
  BY <1>1, OneCallChecked

LEMMA AdmitChecked ==
    ASSUME IInv, CallsChecked, NEW c \in Call, NEW op, NEW docs, NEW stage, NEW id, NEW body,
           NEW code,
           \/ Admit(c, Arrival(op, docs, stage, id, body), code)
           \/ Answer(c, Arrival(op, docs, stage, id, body), code),
           /\ stage = "planning" /\ code = "OK" => CreateEventDto(body)
           /\ stage \in {"editing", "edited"} /\ code = "OK" => UpdateEventDto(body.dates)
    PROVE  CallsChecked'
<1> DEFINE r == Arrival(op, docs, stage, id, body)
<1>1. /\ r.stage = stage /\ r.body = body
      /\ Ended(r, code).stage \in {"idle", "odd"}
  BY ArrivalFields
<1>2. DatesChecked(Ended(r, code)) /\ (code = "OK" => DatesChecked(r))
  <2> HIDE DEF r
  <2> QED
    BY <1>1 DEF DatesChecked
<1>3. \/ code = "OK" /\ call' = [call EXCEPT ![c] = r]
      \/ call' = [call EXCEPT ![c] = Ended(r, code)]
  BY DEF Admit, Answer
<1> HIDE DEF r
<1> QED
  BY <1>2, <1>3, CallReplaced

LEMMA ReplyChecked ==
    ASSUME IInv, CallsChecked, NEW c \in Call, NEW code, Reply(c, code)
    PROVE  CallsChecked'
<1>1. call[c] \in RequestRecord
  BY DEF IInv, TypeOK, RequestRecord
<1>2. Ended(call[c], code).stage \in {"idle", "odd"}
  BY <1>1 DEF Ended, Idle, RequestRecord, Request
<1>3. DatesChecked(Ended(call[c], code))
  BY <1>2 DEF DatesChecked
<1> QED
  BY <1>3, CallReplaced DEF Reply

LEMMA GotoChecked ==
    ASSUME IInv, CallsChecked, NEW c \in Call, NEW stage \in Stage, Goto(c, stage),
           stage \notin {"planning", "editing"}, stage = "edited" => At(c, "editing")
    PROVE  CallsChecked'
<1> DEFINE r == [call[c] EXCEPT !.stage = stage]
<1>1. r.stage = stage /\ r.body = call[c].body
  BY NextStage
<1>2. call' = [call EXCEPT ![c] = r]
  BY DEF Goto
<1> HIDE DEF r
<1>3. DatesChecked(r)
  BY <1>1 DEF CallsChecked, DatesChecked, At
<1> QED
  BY <1>2, <1>3, CallReplaced

\* The request that has written is answered, and others are told.
LEMMA OvertakingChecked ==
    ASSUME IInv, CallsChecked, NEW c \in Call, NEW losers, NEW code,
           call' = [Overtaking(c, losers) EXCEPT ![c] = Ended(@, code)]
    PROVE  CallsChecked'
<1>1. call[c] \in RequestRecord
  BY DEF IInv, TypeOK, RequestRecord
<1>2. Ended(call[c], code).stage \in {"idle", "odd"}
  BY <1>1 DEF Ended, Idle, RequestRecord, Request
<1>3. DatesChecked(Ended(call[c], code))
  BY <1>2 DEF DatesChecked
<1>4. call'[c] = Ended(call[c], code) /\ OthersStand(c)
  BY DEF Overtaking, OthersStand
<1> QED
  BY <1>3, <1>4, OneCallChecked

\* The other requests have no dates for the DTO to check.
LEMMA AdmitPlain ==
    ASSUME IInv, CallsChecked, NEW c \in Call, NEW op, NEW docs, NEW stage, NEW id, NEW body,
           NEW code, Admit(c, Arrival(op, docs, stage, id, body), code),
           stage \notin {"planning", "editing", "edited"}
    PROVE  CallsChecked'
BY AdmitChecked

LEMMA AnswerPlain ==
    ASSUME IInv, CallsChecked, NEW c \in Call, NEW op, NEW docs, NEW id, NEW body,
           NEW code, Answer(c, Arrival(op, docs, "read", id, body), code)
    PROVE  CallsChecked'
BY AdmitChecked

DatesStand ==
  \A e \in Event : event'[e].row = "stored" =>
    /\ event[e].row = "stored"
    /\ event'[e].startedAt = event[e].startedAt /\ event'[e].endedAt = event[e].endedAt

LEMMA DatesKept ==
    ASSUME EventDatesApart, DatesStand PROVE EventDatesApart'
BY DEF EventDatesApart, EventExists, DatesStand, Apart

\* What handlers let in has passed the DTO; no handler writes a row.
LEMMA HandlersChecked ==
    ASSUME IInv, DatesInv, NEW c \in Call,
           \/ CreateCompany(c) \/ UpdateCompany(c) \/ UploadLogo(c) \/ DeleteCompany(c)
           \/ CreateEvent(c) \/ UpdateEvent(c) \/ UploadPoster(c) \/ SyncThemes(c)
           \/ DeleteEvent(c) \/ CreateTickets(c) \/ CreatePromoCode(c) \/ UpdatePromoCode(c)
    PROVE  CallsChecked' /\ UNCHANGED event
<1> USE DEF DatesInv, ValidationPipe
<1>1. CASE CreateEvent(c)
  <2>1. PICK k \in Company \cup {None}, dates \in Dates :
          Admit(c, Arrival("createEvent", {"OK", "BAD_REQUEST", "UNAUTHORIZED", "FORBIDDEN"},
                           "planning", k, dates), ValidationPipe(CreateEventDto(dates)))
    BY <1>1 DEF CreateEvent
  <2> QED
    BY <1>1, <2>1, AdmitChecked DEF CreateEvent, Quiet, tables
<1>2. CASE UpdateEvent(c)
  <2>1. PICK e \in Event \cup {None}, patch \in Patches :
          Admit(c, Arrival("updateEvent", Documented, "editing", e, patch),
                ValidationPipe(UpdateEventDto(patch.dates)))
    BY <1>2 DEF UpdateEvent
  <2> QED
    BY <1>2, <2>1, AdmitChecked DEF UpdateEvent, Quiet, tables
<1>3. CASE UploadPoster(c)
  <2>1. PICK e \in Event \cup {None}, file \in BOOLEAN :
          Admit(c, Arrival("updateEvent", Documented, "editing", e, Poster),
                ValidationPipe(file))
    BY <1>3 DEF UploadPoster
  <2>2. UpdateEventDto(Poster.dates)
    BY DEF Poster, UpdateEventDto, IsTimeDifferenceGreaterThan, NoDates
  <2> QED
    BY <1>3, <2>1, <2>2, AdmitChecked DEF UploadPoster, Quiet, tables
<1>4. CASE \/ CreateCompany(c) \/ UpdateCompany(c) \/ UploadLogo(c) \/ DeleteCompany(c)
           \/ SyncThemes(c) \/ DeleteEvent(c) \/ CreateTickets(c) \/ CreatePromoCode(c)
           \/ UpdatePromoCode(c)
  <2>1. UNCHANGED event
    BY <1>4 DEF CreateCompany, UpdateCompany, UploadLogo, DeleteCompany, SyncThemes,
       DeleteEvent, CreateTickets, CreatePromoCode, UpdatePromoCode, Quiet, tables
  <2>2. CASE CreateCompany(c) \/ UpdateCompany(c) \/ UploadLogo(c) \/ DeleteCompany(c)
    BY <2>1, <2>2, AdmitPlain
       DEF CreateCompany, UpdateCompany, UploadLogo, DeleteCompany
  <2>3. CASE SyncThemes(c)
    BY <2>1, <2>3, AdmitPlain DEF SyncThemes
  <2>4. CASE DeleteEvent(c)
    BY <2>1, <2>4, AdmitPlain DEF DeleteEvent
  <2>5. CASE CreateTickets(c)
    BY <2>1, <2>5, AdmitPlain DEF CreateTickets
  <2>6. CASE CreatePromoCode(c)
    BY <2>1, <2>6, AdmitPlain DEF CreatePromoCode
  <2>7. CASE UpdatePromoCode(c)
    BY <2>1, <2>7, AdmitPlain DEF UpdatePromoCode
  <2> QED
    BY <1>4, <2>1, <2>2, <2>3, <2>4, <2>5, <2>6, <2>7
<1> QED
  BY <1>1, <1>2, <1>3, <1>4

LEMMA ReadsChecked ==
    ASSUME IInv, DatesInv, NEW c \in Call,
           \/ FindCompany(c) \/ FindCompanyEvents(c) \/ FindAllCompanies(c) \/ FindEvent(c)
           \/ FindAllEvents(c) \/ FindAllTickets(c) \/ FindAllTicketTypes(c) \/ FindOneTicket(c)
           \/ FindThemes(c) \/ FindTheme(c) \/ FindFormats(c) \/ FindFormat(c)
           \/ FindAllPromoCodes(c) \/ FindPromoCode(c) \/ ValidatePromoCode(c)
    PROVE  CallsChecked' /\ UNCHANGED event
<1> USE DEF DatesInv
<1>1. UNCHANGED event
  BY DEF FindCompany, FindCompanyEvents, FindAllCompanies, FindEvent, FindAllEvents,
     FindAllTickets, FindAllTicketTypes, FindOneTicket, FindThemes, FindTheme, FindFormats,
     FindFormat, FindAllPromoCodes, FindPromoCode, ValidatePromoCode, Quiet, tables
<1>2. CASE FindCompany(c) \/ FindCompanyEvents(c) \/ FindAllCompanies(c) \/ FindEvent(c)
  BY <1>1, <1>2, AnswerPlain
     DEF FindCompany, FindCompanyEvents, FindAllCompanies, FindEvent
<1>3. CASE FindAllEvents(c) \/ FindAllTickets(c) \/ FindAllTicketTypes(c) \/ FindOneTicket(c)
  BY <1>1, <1>3, AnswerPlain
     DEF FindAllEvents, FindAllTickets, FindAllTicketTypes, FindOneTicket
<1>4. CASE FindThemes(c) \/ FindTheme(c) \/ FindFormats(c) \/ FindFormat(c)
  BY <1>1, <1>4, AnswerPlain
     DEF FindThemes, FindTheme, FindFormats, FindFormat
<1>5. CASE FindAllPromoCodes(c) \/ FindPromoCode(c) \/ ValidatePromoCode(c)
  BY <1>1, <1>5, AnswerPlain
     DEF FindAllPromoCodes, FindPromoCode, ValidatePromoCode
<1> QED
  BY <1>1, <1>2, <1>3, <1>4, <1>5

\* The services' steps that write no event.
LEMMA ServicesChecked ==
    ASSUME IInv, DatesInv, NEW c \in Call,
           \/ CheckOwner(c) \/ CheckAddress(c) \/ CreateCompanyRow(c) \/ FindCompanyToUpdate(c)
           \/ WriteCompany(c) \/ FindCompanyToDelete(c) \/ DeleteCompanyRow(c)
           \/ FindEventToUpdate(c) \/ FindEventToTheme(c) \/ FindEventToDelete(c)
           \/ FindEventOfCode(c) \/ CheckCode(c) \/ StorePromoCode(c) \/ FindCodeToUpdate(c)
           \/ WritePromoCode(c)
    PROVE  CallsChecked' /\ UNCHANGED event
<1> USE DEF DatesInv
<1>1. UNCHANGED event
  BY DEF CheckOwner, CheckAddress, CreateCompanyRow, FindCompanyToUpdate, WriteCompany,
     FindCompanyToDelete, DeleteCompanyRow, FindEventToUpdate, FindEventToTheme,
     FindEventToDelete, FindEventFirst, FindEventOfCode, CheckCode, StorePromoCode,
     FindCodeToUpdate, WritePromoCode, Quiet, tables
<1>2. /\ {"addressing", "founding", "renamed", "closed", "edited", "clearing", "cancelled",
          "coded", "storing", "switched"} \subseteq Stage
  BY DEF Stage
<1>3. CASE CheckOwner(c) \/ CheckAddress(c) \/ FindCompanyToUpdate(c)
  BY <1>1, <1>2, <1>3, ReplyChecked, GotoChecked
     DEF CheckOwner, CheckAddress, FindCompanyToUpdate
<1>4. CASE WriteCompany(c) \/ FindCompanyToDelete(c) \/ DeleteCompanyRow(c)
  BY <1>1, <1>2, <1>4, ReplyChecked, GotoChecked
     DEF WriteCompany, FindCompanyToDelete, DeleteCompanyRow
<1>5. CASE FindEventToUpdate(c) \/ FindEventToTheme(c) \/ FindEventToDelete(c) \/ FindEventOfCode(c)
  BY <1>1, <1>2, <1>5, ReplyChecked, GotoChecked
     DEF FindEventToUpdate, FindEventToTheme, FindEventToDelete, FindEventOfCode, FindEventFirst
<1>6. CASE CheckCode(c) \/ FindCodeToUpdate(c) \/ WritePromoCode(c)
  BY <1>1, <1>2, <1>6, ReplyChecked, GotoChecked
     DEF CheckCode, FindCodeToUpdate, WritePromoCode
<1>7. CASE CreateCompanyRow(c) \/ StorePromoCode(c)
  BY <1>1, <1>2, <1>7, ReplyChecked, OvertakingChecked
     DEF CreateCompanyRow, StorePromoCode
<1> QED
  BY <1>1, <1>3, <1>4, <1>5, <1>6, <1>7

\* The writes to events that leave their dates alone, or take them with the row.
LEMMA DatesAlone ==
    ASSUME IInv, DatesInv, NEW c \in Call,
           ClearThemes(c) \/ FillThemes(c) \/ DeleteEventRow(c) \/ StoreTickets(c)
    PROVE  CallsChecked' /\ DatesStand
<1> USE DEF DatesInv
<1>1. CallsChecked'
  <2>1. "filling" \in Stage
    BY DEF Stage
  <2> QED
    BY <2>1, ReplyChecked, GotoChecked DEF ClearThemes, FillThemes, DeleteEventRow, StoreTickets
<1>2. \A e \in Event : event[e] \in EventRow
  BY DEF IInv, TypeOK
<1>3. DatesStand
  <2> DEFINE x == call[c].id
             Same(r) == /\ r.row = event[x].row
                        /\ r.startedAt = event[x].startedAt /\ r.endedAt = event[x].endedAt
  <2>1. x \in Event => \A themes : Same([event[x] EXCEPT !.themes = themes])
    BY <1>2 DEF EventRow
  <2>2. x \in Event => Same([event[x] EXCEPT !.tickets = TRUE])
    BY <1>2 DEF EventRow
  <2>3. CASE ClearThemes(c)
    <3>1. event' = [event EXCEPT ![x] = [event[x] EXCEPT !.themes = {}]]
      BY <2>3 DEF ClearThemes
    <3> QED
      BY <1>2, <2>1, <3>1 DEF DatesStand, IInv, TypeOK
  <2>4. CASE FillThemes(c)
    <3>1. PICK themes : \/ UNCHANGED event
                        \/ event' = [event EXCEPT ![x] = [event[x] EXCEPT !.themes = themes]]
      BY <2>4 DEF FillThemes
    <3> DEFINE row == [event[x] EXCEPT !.themes = themes]
    <3>2. x \in Event => Same(row)
      BY <2>1
    <3> HIDE DEF row
    <3> QED
      BY <3>1, <3>2 DEF row, DatesStand, IInv, TypeOK
  <2>5. CASE DeleteEventRow(c)
    <3>1. \/ UNCHANGED event
          \/ event' = [event EXCEPT ![x] = [NoEvent EXCEPT !.row = "deleted"]]
      BY <2>5 DEF DeleteEventRow
    <3>2. [NoEvent EXCEPT !.row = "deleted"].row = "deleted"
      BY DEF NoEvent
    <3> QED
      BY <3>1, <3>2 DEF DatesStand, IInv, TypeOK
  <2>6. CASE StoreTickets(c)
    <3>1. \/ UNCHANGED event
          \/ event' = [event EXCEPT ![x] = [event[x] EXCEPT !.tickets = TRUE]]
      BY <2>6 DEF StoreTickets
    <3> QED
      BY <2>2, <3>1 DEF DatesStand, IInv, TypeOK
  <2> QED
    BY <2>3, <2>4, <2>5, <2>6
<1> QED
  BY <1>1, <1>3

\* A new event has the two dates of a body the DTO has checked.
LEMMA CreatedApart ==
    ASSUME IInv, DatesInv, NEW c \in Call, CreateEventRow(c)
    PROVE  CallsChecked' /\ EventDatesApart'
<1> USE DEF DatesInv
<1> DEFINE dates == call[c].body
<1>1. CallsChecked'
  BY ReplyChecked, OvertakingChecked DEF CreateEventRow
<1>2. Apart(dates.startedAt, dates.endedAt)
  BY DEF CreateEventRow, At, CallsChecked, DatesChecked, CreateEventDto,
         IsTimeDifferenceGreaterThan
<1>3. CASE UNCHANGED event
  BY <1>1, <1>3, DatesKept DEF DatesStand
<1>4. CASE event' # event
  <2>1. PICK e \in Event :
          event' = [event EXCEPT ![e] =
                 [row |-> "stored", company |-> call[c].id, themes |-> {}, tickets |-> FALSE,
                  startedAt |-> dates.startedAt, endedAt |-> dates.endedAt]]
    BY <1>4 DEF CreateEventRow
  <2>2. \A x \in Event : \/ event'[x] = event[x]
                         \/ /\ event'[x].startedAt = dates.startedAt
                            /\ event'[x].endedAt = dates.endedAt
    BY <2>1 DEF IInv, TypeOK
  <2> QED
    BY <1>1, <1>2, <2>2 DEF EventDatesApart, EventExists, Apart
<1> QED
  BY <1>1, <1>3, <1>4

\* A PATCH with both dates writes two the DTO has compared; one with neither writes none.
LEMMA WrittenApart ==
    ASSUME IInv, DatesInv, WholeDates, NEW c \in Call, WriteEvent(c)
    PROVE  CallsChecked' /\ EventDatesApart'
<1> USE DEF DatesInv
<1> DEFINE patch == call[c].body
           dates == patch.dates
           e == call[c].id
           row == Patched(event[e], patch)
<1>1. CallsChecked'
  BY ReplyChecked, OvertakingChecked DEF WriteEvent
<1>2. CASE UNCHANGED event
  BY <1>1, <1>2, DatesKept DEF DatesStand
<1>3. CASE event' # event
  <2>1. EventExists(e) /\ event' = [event EXCEPT ![e] = row]
    BY <1>3 DEF WriteEvent
  <2>2. e \in Event
    BY DEF WriteEvent, At, IInv, RequestOK, Findings, EventSeen
  <2>3. (dates.startedAt = -1 <=> dates.endedAt = -1) /\ UpdateEventDto(dates)
    BY DEF WholeDates, WriteEvent, At, CallsChecked, DatesChecked
  <2>4. Apart(event[e].startedAt, event[e].endedAt)
    BY <2>1, <2>2 DEF EventDatesApart
  <2>5. event[e] \in EventRow
    BY <2>2 DEF IInv, TypeOK
  <2>6. /\ row.startedAt = IF dates.startedAt = -1 THEN event[e].startedAt ELSE dates.startedAt
        /\ row.endedAt = IF dates.endedAt = -1 THEN event[e].endedAt ELSE dates.endedAt
    BY <2>5 DEF Patched, EventRow
  <2> HIDE DEF row
  <2>7. Apart(row.startedAt, row.endedAt)
    BY <2>3, <2>4, <2>6 DEF UpdateEventDto, IsTimeDifferenceGreaterThan
  <2>8. \A x \in Event : event'[x] = event[x] \/ event'[x] = row
    BY <2>1 DEF IInv, TypeOK
  <2> QED
    BY <1>1, <2>1, <2>7, <2>8 DEF EventDatesApart, EventExists, Apart
<1> QED
  BY <1>1, <1>2, <1>3

LEMMA DatesStep ==
    ASSUME IInv, DatesInv, [Next]_vars, WholeDates
    PROVE  DatesInv'
<1>1. ASSUME CallsChecked', DatesStand PROVE DatesInv'
  BY <1>1, DatesKept DEF DatesInv
<1>2. ASSUME CallsChecked', UNCHANGED event PROVE DatesInv'
  BY <1>1, <1>2 DEF DatesStand
<1>3. ASSUME NEW c \in Call, SendOddAnswer(c), Quiet PROVE DatesInv'
  <2>1. DatesChecked(Idle)
    BY DEF DatesChecked, Idle
  <2> QED
    BY <1>2, <1>3, <2>1, CallReplaced DEF SendOddAnswer, Quiet, tables, DatesInv
<1>4. ASSUME NEW c \in Call, CompanyStep(c) PROVE DatesInv'
  BY <1>2, <1>4, HandlersChecked, ReadsChecked, ServicesChecked DEF CompanyStep
<1>5. ASSUME NEW c \in Call, EventStep(c) PROVE DatesInv'
  <2>1. CASE CreateEventRow(c) \/ WriteEvent(c)
    BY <2>1, CreatedApart, WrittenApart DEF DatesInv
  <2>2. CASE ClearThemes(c) \/ FillThemes(c) \/ DeleteEventRow(c) \/ StoreTickets(c)
    BY <1>1, <2>2, DatesAlone
  <2> QED
    BY <1>2, <1>5, <2>1, <2>2, HandlersChecked, ReadsChecked, ServicesChecked DEF EventStep
<1>6. ASSUME NEW c \in Call, PromoStep(c) PROVE DatesInv'
  BY <1>2, <1>6, HandlersChecked, ReadsChecked, ServicesChecked DEF PromoStep
<1>7. ASSUME NEW e \in Event, NEW used \in SUBSET Promo, PlaceOrder(e, used) PROVE DatesInv'
  BY <1>2, <1>7 DEF PlaceOrder, tables, DatesInv, CallsChecked, DatesChecked
<1>8. CASE Crash
  <2>1. \A k \in Call : call'[k] = Idle /\ Idle.stage = "idle"
    BY <1>8 DEF Crash, Idle
  <2> QED
    BY <1>2, <1>8, <2>1 DEF Crash, tables, CallsChecked, DatesChecked
<1>9. CASE UNCHANGED vars
  BY <1>2, <1>9 DEF vars, DatesInv, CallsChecked, DatesChecked
<1> QED
  BY <1>3, <1>4, <1>5, <1>6, <1>7, <1>8, <1>9 DEF Next

\* The end of an event is at least MinDuration from its start, however requests interleave, as
\* long as no PATCH brings one of the two dates without the other.
THEOREM DatesApartUnlessHalfSent == Spec /\ [][WholeDates]_vars => []EventDatesApart
<1>1. Init => DatesInv
  <2> SUFFICES ASSUME Init PROVE DatesInv
    OBVIOUS
  <2>1. \A e \in Event : ~EventExists(e)
    BY DEF Init, EventExists, NoEvent
  <2>2. \A c \in Call : call[c].stage = "idle"
    BY DEF Init, Idle
  <2> QED
    BY <2>1, <2>2 DEF DatesInv, EventDatesApart, CallsChecked, DatesChecked
<1>2. IInv /\ DatesInv /\ [Next]_vars /\ [WholeDates]_vars => DatesInv'
  <2>1. UNCHANGED vars => (DatesInv => DatesInv')
    BY DEF vars, DatesInv, CallsChecked, DatesChecked, EventDatesApart, EventExists
  <2> QED
    BY <2>1, DatesStep
<1>3. DatesInv => EventDatesApart
  BY DEF DatesInv
<1> QED
  BY <1>1, <1>2, <1>3, Invariance, PTL DEF Spec
=============================================================================
