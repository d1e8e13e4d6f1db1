------------------------------ MODULE Audience ------------------------------
(***************************************************************************)
(* Who hears of what: attendees and the lists of them, subscriptions, news *)
(* and notifications.  Handlers emit events ('order.created' and the like) *)
(* whose listeners run beside the requests that follow; nobody awaits them *)
(* and nothing repeats them.                                               *)
(*                                                                         *)
(* Of a request, "id" is the row or the subject it is about, "body" what   *)
(* the client sent, "memo" what the service has read.  Accounts and the    *)
(* company stay; Accounts and Catalogue have the rest of their life.       *)
(***************************************************************************)
EXTENDS Requests, Integers, FiniteSets

CONSTANTS
  User, Owner,     \* accounts, and the one that owns the company
  Company,         \* a company
  Event, News, Subscription,   \* ids; none is handed out twice
  Field,           \* the columns of an event whose changes are announced
  Listener         \* chains of listeners under way at one time

ASSUME NoneAssumption ==
  None \notin Call \cup User \cup Event \cup News \cup Subscription \cup {Company}
ASSUME OwnerAssumption == Owner \in User /\ Company \notin User \cup Event
ASSUME FieldAssumption ==
  "status" \in Field /\ Field \subseteq {"status", "startedAt", "ticketsAvailableFrom", "venue"}

VARIABLES
  event, attendee, subscription, news,   \* tables of these names
  ordered,     \* pairs <<e, u>>: u has ordered a ticket of e
  listener,    \* listeners under way
  announced,   \* history: the last value of each field that listeners were told
  presented,   \* history: events listeners were told of with 'event.created'
  blurred,     \* history: what a crash, or updates of one field at one time, left untold
  lost         \* history: orders whose listener failed, or died with the process

vars == <<call, event, attendee, subscription, news, ordered, listener,
          announced, presented, blurred, lost>>
rows == <<attendee, subscription, news>>
history == <<announced, presented, blurred, lost>>

Subject == Event \cup {Company}
RowState == {"none", "stored", "deleted"}
Visibility == {"EVERYONE", "ATTENDEES_ONLY", "NOBODY"}

\* Of a column two values are enough; "unset" is DRAFT, or null.
Value == {"unset", "set"}
EventRow == [row : RowState, attendeeVisibility : Visibility, value : [Field -> Value]]
AttendeeRow == {"none", "visible", "hidden"}
SubscriptionRow == [row : RowState, user : User \cup {None}, subject : Subject \cup {None}]

\* "refused": history, the author was told that it could not be published.
NewsRow == [row : RowState, author : User \cup {None}, subject : Subject \cup {None},
            refused : BOOLEAN]

\* The listeners that one event of the emitter sets going, each idle or at one of its awaits.
\* "about" is the event the notifications refer to, "user" the buyer; "ids" the recipients still
\* without their notification; history: "told" those who have it, "steady" and "ever" who has been
\* subscribed all the time since the emission, but for failed inserts, and who at any.
Chain == [subject : Subject \cup {None}, about : Event \cup {None}, user : User \cup {None},
          attend : {"idle", "emitting", "finding", "joining"},
          subscribe : {"idle", "finding", "adding"},
          notify : {"idle", "finding", "reading", "storing"},
          ids : SUBSET User, told : SUBSET User, steady : SUBSET User, ever : SUBSET User]
Silent == [subject |-> None, about |-> None, user |-> None, attend |-> "idle",
           subscribe |-> "idle", notify |-> "idle", ids |-> {}, told |-> {}, steady |-> {},
           ever |-> {}]

\* Bodies: a new event; one changed column; an attendee's new visibility; who asks.
Changes == [field : Field \cup {"attendeeVisibility"}, value : Value \cup Visibility]
Body == EventRow \cup Changes \cup [user : User, visible : BOOLEAN] \cup User \cup {None}

\* Memos: a column's value before an update; a list of attendees being made; a new row.
Lists == [visibility : Visibility, list : SUBSET User]
Memo == [old : Value] \cup Lists \cup News \cup {None}

Op == {"none", "createEvent", "updateEvent", "getAttendees", "updateAttendee", "subscribe",
       "unsubscribe", "createNews", "updateNews", "deleteNews", "updateNotification", "read"}
Stage == {"creating", "presenting", "editing", "writing", "announcing", "opening", "own", "member",
          "others", "listed", "showing", "finding", "checking", "adding", "leaving", "left",
          "drafting", "publishing", "titling", "rewriting", "rewritten", "removing", "removed",
          "read"}

EventExists(e) == e \in Event /\ event[e].row = "stored"
SubjectExists(x) == x = Company \/ EventExists(x)
NewsExists(n) == n # None /\ news[n].row = "stored"
Subscriptions(u, x) == {s \in Subscription : subscription[s].row = "stored"
                          /\ subscription[s].user = u /\ subscription[s].subject = x}

\* findAllUserIdsByEntityId.  The variant has the where clause of an unknown entity type: none.
FindAllUserIds_Unfiltered(x) == {u \in User : \E y \in Subject : Subscriptions(u, y) # {}}
FindAllUserIds(x) == {u \in User : Subscriptions(u, x) # {}}

Quiet == UNCHANGED <<event, rows, ordered, listener, history>>

-----------------------------------------------------------------------------
(* Guards.                                                                 *)

OwnershipGuard(exists, mine, inner) ==
  IF ~exists THEN "NOT_FOUND" ELSE IF ~mine THEN "FORBIDDEN" ELSE inner

CompanyOwnerGuard(v, k, inner) == OwnershipGuard(k = Company, v = Owner, inner)
AttendeeGuard(v, e, u, inner) ==
  OwnershipGuard(e # None /\ attendee[e][u] # "none", u = v, inner)
SubscriptionOwnerGuard(v, s, inner) ==
  OwnershipGuard(s # None /\ subscription[s].row = "stored", subscription[s].user = v, inner)
NewsOwnerGuard(v, n, inner) == OwnershipGuard(NewsExists(n), news[n].author = v, inner)

\* u is the recipient of the notification, None if there is no such notification.
NotificationOwnerGuard(v, u, inner) == OwnershipGuard(u # None, u = v, inner)

-----------------------------------------------------------------------------
(* Handlers.  Events: what Catalogue leaves out of their columns.          *)

Documented == {"OK", "BAD_REQUEST", "UNAUTHORIZED", "FORBIDDEN", "NOT_FOUND"}

CreateEvent(c) ==
  /\ \E row \in EventRow :
       /\ row.row = "stored"
       /\ Admit(c, Arrival("createEvent", {"OK", "BAD_REQUEST", "UNAUTHORIZED", "FORBIDDEN"},
                           "creating", Company, row), "OK")
  /\ Quiet

\* One changed column per body.
UpdateEvent(c) ==
  /\ \E e \in Event, change \in Changes :
       /\ change.value \in IF change.field = "attendeeVisibility" THEN Visibility ELSE Value
       /\ Admit(c, Arrival("updateEvent", Documented, "editing", e, change), "OK")
  /\ Quiet

\* The viewer is None for a client without a token: the route is public.
GetEventAttendees(c) ==
  /\ \E e \in Event, viewer \in User \cup {None} :
       Admit(c, Arrival("getAttendees", {"OK"}, "opening", e, viewer), "OK")
  /\ Quiet

UpdateAttendee(c) ==
  /\ \E v, u \in User, e \in Event \cup {None}, visible, valid \in BOOLEAN :
       Admit(c, Arrival("updateAttendee", Documented, "showing", e,
                        [user |-> u, visible |-> visible]),
             AttendeeGuard(v, e, u, ValidationPipe(valid)))
  /\ Quiet

Subscribe(c) ==
  /\ \E v \in User, x \in Subject, valid \in BOOLEAN :
       Admit(c, Arrival("subscribe",
                        {"OK", "BAD_REQUEST", "UNAUTHORIZED", "NOT_FOUND", "CONFLICT"},
                        "finding", x, v), ValidationPipe(valid))
  /\ Quiet

Unsubscribe(c) ==
  /\ \E v \in User, s \in Subscription \cup {None} :
       Admit(c, Arrival("unsubscribe", {"OK", "UNAUTHORIZED", "FORBIDDEN", "NOT_FOUND"},
                        "leaving", s, v), SubscriptionOwnerGuard(v, s, "OK"))
  /\ Quiet

ReadSubject(c, x, docs) ==
  /\ Answer(c, Arrival("read", docs, "read", x, None),
            IF SubjectExists(x) THEN "OK" ELSE "NOT_FOUND")
  /\ Quiet

GetEventSubscriptionInfo(c) == \E e \in Event : ReadSubject(c, e, {"OK", "NOT_FOUND"})
GetCompanySubscriptionInfo(c) ==
  \E k \in {Company, None} : ReadSubject(c, k, {"OK", "NOT_FOUND"})
FindEventNews(c) == \E e \in Event : ReadSubject(c, e, {"OK"})
FindCompanyNews(c) == \E k \in {Company, None} : ReadSubject(c, k, {"OK"})

\* Anybody with an account writes news of an event, its owner news of a company.
CreateEventNews(c) ==
  /\ \E v \in User, e \in Event, valid \in BOOLEAN :
       Admit(c, Arrival("createNews", Documented, "drafting", e, v), ValidationPipe(valid))
  /\ Quiet

CreateCompanyNews(c) ==
  /\ \E v \in User, k \in {Company, None}, valid \in BOOLEAN :
       Admit(c, Arrival("createNews", Documented, "drafting", k, v),
             CompanyOwnerGuard(v, k, ValidationPipe(valid)))
  /\ Quiet

FindNews(c) ==
  /\ \E n \in News \cup {None} :
       Answer(c, Arrival("read", {"OK", "NOT_FOUND"}, "read", n, None),
              IF NewsExists(n) THEN "OK" ELSE "NOT_FOUND")
  /\ Quiet

UpdateNews(c) ==
  /\ \E v \in User, n \in News \cup {None}, valid \in BOOLEAN :
       Admit(c, Arrival("updateNews", Documented, "rewriting", n, None),
             NewsOwnerGuard(v, n, ValidationPipe(valid)))
  /\ Quiet

DeleteNews(c) ==
  /\ \E v \in User, n \in News \cup {None} :
       Admit(c, Arrival("deleteNews", Documented, "removing", n, None),
             NewsOwnerGuard(v, n, "OK"))
  /\ Quiet

\* The guard has shown the service's lookup what it looks for.
UpdateNotification(c) ==
  /\ \E v \in User, u \in User \cup {None}, valid \in BOOLEAN :
       Answer(c, Arrival("updateNotification", {"OK", "FORBIDDEN", "NOT_FOUND"}, "read", u, None),
              NotificationOwnerGuard(v, u, ValidationPipe(valid)))
  /\ Quiet

-----------------------------------------------------------------------------
(* EventsService: rows and announcements.  An emission takes a listener    *)
(* that is free, a bound the code does not have.                           *)

Notifying(x, about) ==
  [Silent EXCEPT !.subject = x, !.about = about, !.notify = "finding",
                 !.steady = FindAllUserIds(x), !.ever = FindAllUserIds(x)]

Emit(chain) ==
  LET free == {l \in Listener : listener[l] = Silent} IN
  free # {} /\ listener' = [listener EXCEPT ![CHOOSE l \in free : TRUE] = chain]

StoreEvent(c) ==
  /\ At(c, "creating")
  /\ \E e \in Event :
       /\ event[e].row = "none"
       /\ event' = [event EXCEPT ![e] = call[c].body]
       /\ announced' = [announced EXCEPT ![e] = call[c].body.value]
       /\ call' = [call EXCEPT ![c].id = e, ![c].stage = "presenting"]
  /\ UNCHANGED <<rows, ordered, listener, presented, blurred, lost>>

\* NotificationsListener drops 'event.created' of a draft.
PresentEvent(c) ==
  LET e == call[c].id IN
  /\ At(c, "presenting")
  /\ IF call[c].body.value["status"] = "unset" THEN UNCHANGED <<listener, presented>>
     ELSE Emit(Notifying(Company, e)) /\ presented' = presented \cup {e}
  /\ Reply(c, "OK")
  /\ UNCHANGED <<event, rows, ordered, announced, blurred, lost>>

ReadEventToUpdate(c) ==
  LET e == call[c].id   f == call[c].body.field IN
  /\ At(c, "editing")
  /\ IF ~EventExists(e) THEN Reply(c, "NOT_FOUND")
     ELSE call' = [call EXCEPT ![c].stage = "writing",
            ![c].memo = IF f \in Field THEN [old |-> event[e].value[f]] ELSE None]
  /\ Quiet

\* History: those whose work on a column, or on a list, this write makes stale.
Affected(e, f) ==
  {c \in Call : call[c].id = e /\
     IF f = "attendeeVisibility" THEN call[c].stage \in {"own", "member", "others", "listed"}
     ELSE call[c].stage \in {"writing", "announcing"} /\ call[c].body.field = f}

WriteChange(c) ==
  LET e == call[c].id   change == call[c].body IN
  /\ At(c, "writing")
  /\ IF ~EventExists(e)
     THEN Reply(c, "INTERNAL_SERVER_ERROR") /\ UNCHANGED event
     ELSE IF change.field = "attendeeVisibility"
     THEN /\ event' = [event EXCEPT ![e].attendeeVisibility = change.value]
          /\ call' = [Overtaking(c, Affected(e, change.field)) EXCEPT ![c] = Ended(@, "OK")]
     ELSE /\ event' = [event EXCEPT ![e].value[change.field] = change.value]
          /\ call' = [Overtaking(c, Affected(e, change.field)) EXCEPT ![c].stage = "announcing"]
  /\ UNCHANGED <<rows, ordered, listener, history>>

\* update emits for a field that the body has, and not as null, if its value is a new one.  The
\* variant takes a ticketsAvailableFrom that was null for one that has not changed.
Announces_Null(f, old, new) ==
  old # new /\ (f = "ticketsAvailableFrom" => new # "unset" /\ old # "unset")
Announces(f, old, new) == old # new /\ (f = "ticketsAvailableFrom" => new # "unset")

AnnounceChange(c) ==
  LET e == call[c].id   f == call[c].body.field   new == call[c].body.value IN
  /\ At(c, "announcing")
  /\ IF Announces(f, call[c].memo.old, new)
     THEN Emit(Notifying(e, e)) /\ announced' = [announced EXCEPT ![e][f] = new]
     ELSE UNCHANGED <<listener, announced>>
  /\ blurred' = [blurred EXCEPT ![e] =
       IF call[c].overtaken THEN @ \cup {f}
       ELSE IF Announces(f, call[c].memo.old, new) THEN @ \ {f} ELSE @]
  /\ Reply(c, "OK")
  /\ UNCHANGED <<event, rows, ordered, presented, lost>>

\* EventsController.delete: the tables refuse if a ticket has been ordered, and otherwise take the
\* subscriptions along (Cascade) and the event off its news (SetNull).
DetachNews_Keep(e) == news
DetachNews(e) == [n \in News |-> IF news[n].subject = e THEN [news[n] EXCEPT !.subject = None]
                                 ELSE news[n]]
CascadeSubscriptions(e) ==
  [s \in Subscription |-> IF subscription[s].subject = e
     THEN [row |-> "deleted", user |-> None, subject |-> None] ELSE subscription[s]]

NoEvent == [row |-> "none", attendeeVisibility |-> "EVERYONE", value |-> [f \in Field |-> "unset"]]

DeleteEvent(e) ==
  /\ EventExists(e) /\ \A u \in User : <<e, u>> \notin ordered
  /\ event' = [event EXCEPT ![e] = [NoEvent EXCEPT !.row = "deleted"]]
  /\ subscription' = CascadeSubscriptions(e)
  /\ news' = DetachNews(e)
  /\ listener' = [l \in Listener |->
       IF listener[l].subject = e THEN [listener[l] EXCEPT !.steady = {}] ELSE listener[l]]
  /\ announced' = [announced EXCEPT ![e] = NoEvent.value]
  /\ blurred' = [blurred EXCEPT ![e] = {}]
  /\ presented' = presented \ {e}
  /\ UNCHANGED <<call, attendee, ordered, lost>>

-----------------------------------------------------------------------------
(* EventAttendeesService.                                                  *)

Joined(e, u) == attendee[e][u] # "none"

\* findVisibleByEventId
Visible_All(e) == {u \in User : Joined(e, u)}
Visible(e) == {u \in User : attendee[e][u] = "visible"}

\* getEventAttendees: the event's setting is read first, the attendees later.
OpenList(c) ==
  LET e == call[c].id IN
  /\ At(c, "opening")
  /\ IF ~EventExists(e) THEN Reply(c, "NOT_FOUND")
     ELSE call' = [call EXCEPT ![c].stage = "own",
            ![c].memo = [visibility |-> event[e].attendeeVisibility, list |-> {}]]
  /\ Quiet

After(visibility, viewer) ==
  CASE visibility = "EVERYONE" -> "others"
    [] visibility = "ATTENDEES_ONLY" /\ viewer # None -> "member"
    [] OTHER -> "listed"

ListOneself(c) ==
  LET e == call[c].id   v == call[c].body IN
  /\ At(c, "own")
  /\ call' = [call EXCEPT ![c].memo.list = IF v # None /\ Joined(e, v) THEN {v} ELSE {},
                          ![c].stage = After(call[c].memo.visibility, v)]
  /\ Quiet

CheckMembership(c) ==
  /\ At(c, "member")
  /\ Goto(c, IF Joined(call[c].id, call[c].body) THEN "others" ELSE "listed")
  /\ Quiet

ListOthers(c) ==
  /\ At(c, "others")
  /\ call' = [call EXCEPT ![c].memo.list = @ \cup (Visible(call[c].id) \ {call[c].body}),
                          ![c].stage = "listed"]
  /\ Quiet

AnswerList(c) == At(c, "listed") /\ Reply(c, "OK") /\ Quiet

\* The attendee stays: nothing calls deleteByEventIdAndUserId, and an ordered event is not deleted.
SetVisibility(c) ==
  LET e == call[c].id   u == call[c].body.user IN
  /\ At(c, "showing")
  /\ attendee' = [attendee EXCEPT ![e][u] = IF call[c].body.visible THEN "visible" ELSE "hidden"]
  /\ call' = [Overtaking(c, {d \in Call : At(d, "listed") /\ call[d].id = e})
                EXCEPT ![c] = Ended(@, "OK")]
  /\ UNCHANGED <<event, subscription, news, ordered, listener, history>>

-----------------------------------------------------------------------------
(* SubscriptionsService.                                                   *)

\* Subscription's two @@unique pairs; "connect" wants the user and the subject.
Accepts_AsChecked(u, x) == SubjectExists(x)
Accepts(u, x) == SubjectExists(x) /\ Subscriptions(u, x) = {}
Unused == {s \in Subscription : subscription[s].row = "none"}
Insert(u, x) ==
  /\ Unused # {}
  /\ subscription' = [subscription EXCEPT ![CHOOSE s \in Unused : TRUE] =
                        [row |-> "stored", user |-> u, subject |-> x]]

\* History: what a change of the subscriptions means to the requests and emissions under way.
Adding(u, x) == {c \in Call : At(c, "adding") /\ call[c].id = x /\ call[c].body = u}
Hearing(x, u) ==
  [l \in Listener |-> IF listener[l].subject = x /\ listener[l].notify # "idle"
                      THEN [listener[l] EXCEPT !.ever = @ \cup {u}] ELSE listener[l]]
Leaving(x, u) ==
  [l \in Listener |-> IF listener[l].subject = x
                      THEN [listener[l] EXCEPT !.steady = @ \ {u}] ELSE listener[l]]

FindSubject(c) ==
  /\ At(c, "finding")
  /\ IF SubjectExists(call[c].id) THEN Goto(c, "checking") ELSE Reply(c, "NOT_FOUND")
  /\ Quiet

CheckSubscription_Skip(c) == At(c, "checking") /\ Goto(c, "adding") /\ Quiet

CheckSubscription(c) ==
  /\ At(c, "checking")
  /\ IF Subscriptions(call[c].body, call[c].id) = {} THEN Goto(c, "adding")
     ELSE Reply(c, "CONFLICT")
  /\ Quiet

AddSubscription(c) ==
  LET x == call[c].id   u == call[c].body IN
  /\ At(c, "adding")
  /\ IF Accepts(u, x)
     THEN /\ Insert(u, x)
          /\ listener' = Hearing(x, u)
          /\ call' = [Overtaking(c, Adding(u, x)) EXCEPT ![c] = Ended(@, "OK")]
     ELSE Reply(c, "INTERNAL_SERVER_ERROR") /\ UNCHANGED <<subscription, listener>>
  /\ UNCHANGED <<event, attendee, news, ordered, history>>

FindSubscription(c) ==
  /\ At(c, "leaving")
  /\ IF subscription[call[c].id].row = "stored" THEN Goto(c, "left") ELSE Reply(c, "NOT_FOUND")
  /\ Quiet

RemoveSubscription(c) ==
  LET s == call[c].id IN
  /\ At(c, "left")
  /\ IF subscription[s].row = "stored"
     THEN /\ subscription' = [subscription EXCEPT ![s] =
               [row |-> "deleted", user |-> None, subject |-> None]]
          /\ listener' = Leaving(subscription[s].subject, subscription[s].user)
          /\ Reply(c, "OK")
     ELSE Reply(c, "INTERNAL_SERVER_ERROR") /\ UNCHANGED <<subscription, listener>>
  /\ UNCHANGED <<event, attendee, news, ordered, history>>

-----------------------------------------------------------------------------
(* NewsService.                                                            *)

FindNewsSubject(c) ==
  /\ At(c, "drafting")
  /\ IF SubjectExists(call[c].id) THEN Goto(c, "publishing") ELSE Reply(c, "NOT_FOUND")
  /\ Quiet

StoreNews(c) ==
  LET x == call[c].id IN
  /\ At(c, "publishing")
  /\ IF SubjectExists(x)
     THEN \E n \in News :
            /\ news[n].row = "none"
            /\ news' = [news EXCEPT ![n] = [row |-> "stored", author |-> call[c].body,
                                            subject |-> x, refused |-> FALSE]]
            /\ call' = [call EXCEPT ![c].memo = n, ![c].stage = "titling"]
     ELSE Reply(c, "INTERNAL_SERVER_ERROR") /\ UNCHANGED news
  /\ UNCHANGED <<event, attendee, subscription, ordered, listener, history>>

\* The arguments of emit look the title up once more, and throw if it has gone.
AnnounceNews(c) ==
  LET x == call[c].id   n == call[c].memo IN
  /\ At(c, "titling")
  /\ IF SubjectExists(x)
     THEN /\ Emit(Notifying(x, IF x = Company THEN None ELSE x))
          /\ Reply(c, "OK") /\ UNCHANGED news
     ELSE /\ news' = [news EXCEPT ![n].refused = news[n].row = "stored"]
          /\ Reply(c, "NOT_FOUND") /\ UNCHANGED listener
  /\ UNCHANGED <<event, attendee, subscription, ordered, history>>

FindNewsFirst(c, from, to) ==
  /\ At(c, from)
  /\ IF NewsExists(call[c].id) THEN Goto(c, to) ELSE Reply(c, "NOT_FOUND")
  /\ Quiet

FindNewsToUpdate(c) == FindNewsFirst(c, "rewriting", "rewritten")
FindNewsToDelete(c) == FindNewsFirst(c, "removing", "removed")

\* Title and description are all that update changes.
WriteNews(c) ==
  /\ At(c, "rewritten")
  /\ Reply(c, IF NewsExists(call[c].id) THEN "OK" ELSE "INTERNAL_SERVER_ERROR")
  /\ Quiet

RemoveNews(c) ==
  LET n == call[c].id IN
  /\ At(c, "removed")
  /\ IF NewsExists(n)
     THEN /\ news' = [news EXCEPT ![n] = [row |-> "deleted", author |-> None, subject |-> None,
                                          refused |-> FALSE]]
          /\ Reply(c, "OK")
     ELSE Reply(c, "INTERNAL_SERVER_ERROR") /\ UNCHANGED news
  /\ UNCHANGED <<event, attendee, subscription, ordered, listener, history>>

-----------------------------------------------------------------------------
(* Listeners.  What they throw goes no further: see ListenerFails.         *)

\* OrdersService.create commits; 'order.created' is emitted later (Checkout has the rest).
PlaceOrder(e, u) ==
  /\ EventExists(e)
  /\ ordered' = ordered \cup {<<e, u>>}
  /\ Emit([Silent EXCEPT !.subject = e, !.user = u, !.attend = "emitting"])
  /\ UNCHANGED <<call, event, rows, history>>

\* A chain whose listeners are all idle is over.
Settled(chain) ==
  IF chain.attend = "idle" /\ chain.subscribe = "idle" /\ chain.notify = "idle" THEN Silent
  ELSE chain

Advance(l, chain) == listener' = [listener EXCEPT ![l] = Settled(chain)]
Only(l, chain) == Advance(l, chain) /\ UNCHANGED <<call, event, rows, ordered, history>>

EmitOrderCreated(l) ==
  /\ listener[l].attend = "emitting"
  /\ Only(l, [listener[l] EXCEPT !.attend = "finding"])

\* createByEventIdAndUserId; user and event stay, so that their lookups find them unless they fail.
\* The variant looks for the event's attendees, whoever they are.
FindAttendee_AnyUser(l) ==
  LET k == listener[l] IN
  /\ k.attend = "finding"
  /\ Only(l, [k EXCEPT !.attend =
                IF \E u \in User : Joined(k.subject, u) THEN "idle" ELSE "joining"])

FindAttendee(l) ==
  LET k == listener[l] IN
  /\ k.attend = "finding"
  /\ Only(l, [k EXCEPT !.attend = IF Joined(k.subject, k.user) THEN "idle" ELSE "joining"])

\* The insert, and the emission of 'eventAttendee.created' to two listeners.
JoinEvent(l) ==
  LET k == listener[l]
      hearers == FindAllUserIds(k.subject) IN
  /\ k.attend = "joining"
  /\ IF Joined(k.subject, k.user)
     THEN Advance(l, [k EXCEPT !.attend = "idle"]) /\ UNCHANGED attendee
     ELSE /\ attendee' = [attendee EXCEPT ![k.subject][k.user] = "visible"]
          /\ Advance(l, [k EXCEPT !.attend = "idle", !.about = k.subject,
                                  !.subscribe = "finding", !.notify = "finding",
                                  !.steady = hearers, !.ever = hearers])
  /\ UNCHANGED <<call, event, subscription, news, ordered, history>>

\* SubscriptionsListener
FindBuyersSubscription(l) ==
  LET k == listener[l] IN
  /\ k.subscribe = "finding"
  /\ Only(l, [k EXCEPT !.subscribe =
                IF Subscriptions(k.user, k.subject) = {} THEN "adding" ELSE "idle"])

\* When the bound on ids is reached, the insert fails as it would without its database.
SubscribeBuyer(l) ==
  LET k == listener[l] IN
  /\ k.subscribe = "adding"
  /\ IF Accepts(k.user, k.subject) /\ Unused # {}
     THEN /\ Insert(k.user, k.subject)
          /\ listener' = [Hearing(k.subject, k.user) EXCEPT
               ![l] = Settled([@ EXCEPT !.subscribe = "idle"])]
          /\ call' = Overtaking(None, Adding(k.user, k.subject))
     ELSE Advance(l, [k EXCEPT !.subscribe = "idle"]) /\ UNCHANGED <<call, subscription>>
  /\ UNCHANGED <<event, attendee, news, ordered, history>>

\* findAllUserIdsByEntityId: the subject first, then its subscribers.
FindNotified(l) ==
  LET k == listener[l] IN
  /\ k.notify = "finding"
  /\ Only(l, [k EXCEPT !.notify = IF SubjectExists(k.subject) THEN "reading" ELSE "idle"])

ReadRecipients(l) ==
  LET k == listener[l]   ids == FindAllUserIds(k.subject) IN
  /\ k.notify = "reading"
  /\ Only(l, [k EXCEPT !.ids = ids, !.notify = IF ids = {} THEN "idle" ELSE "storing"])

\* One insert per recipient, all under way at once; Notification.event is a foreign key, and one
\* insert that fails stops none of the others.
StoreNotification(l) ==
  LET k == listener[l] IN
  /\ k.notify = "storing"
  /\ \E u \in k.ids, stored \in BOOLEAN :
       /\ stored => k.about = None \/ EventExists(k.about)
       /\ Only(l, [k EXCEPT !.ids = @ \ {u}, !.told = IF stored THEN @ \cup {u} ELSE @,
                            !.steady = IF stored THEN @ ELSE @ \ {u},
                            !.notify = IF k.ids = {u} THEN "idle" ELSE "storing"])

\* A query of a listener fails, with a timeout of the pool for one: the listener ends where it is,
\* its error goes to the log, and nothing tries once more.
ListenerFails(l) ==
  LET k == listener[l] IN
  \/ /\ k.attend \in {"finding", "joining"}
     /\ lost' = lost \cup {<<k.subject, k.user>>}
     /\ Advance(l, [k EXCEPT !.attend = "idle"])
     /\ UNCHANGED <<call, event, rows, ordered, announced, presented, blurred>>
  \/ k.subscribe # "idle" /\ Only(l, [k EXCEPT !.subscribe = "idle"])
  \/ k.notify \in {"finding", "reading"} /\ Only(l, [k EXCEPT !.notify = "idle"])

-----------------------------------------------------------------------------
\* The process dies: requests, and what listeners had not done, are gone for good.
Crash ==
  /\ call' = [c \in Call |-> Idle]
  /\ listener' = [l \in Listener |-> Silent]
  /\ lost' = lost \cup {<<listener[l].subject, listener[l].user>> :
                          l \in {k \in Listener : listener[k].attend # "idle"}}
  /\ blurred' = [e \in Event |-> blurred[e]
       \cup {call[c].body.field : c \in {d \in Call : At(d, "announcing") /\ call[d].id = e}}
       \cup {"created" : c \in {d \in Call : At(d, "presenting") /\ call[d].id = e}}]
  /\ UNCHANGED <<event, rows, ordered, announced, presented>>

Init ==
  /\ call = [c \in Call |-> Idle]
  /\ event = [e \in Event |-> NoEvent]
  /\ attendee = [e \in Event |-> [u \in User |-> "none"]]
  /\ subscription = [s \in Subscription |-> [row |-> "none", user |-> None, subject |-> None]]
  /\ news = [n \in News |-> [row |-> "none", author |-> None, subject |-> None, refused |-> FALSE]]
  /\ ordered = {} /\ presented = {} /\ lost = {}
  /\ listener = [l \in Listener |-> Silent]
  /\ announced = [e \in Event |-> NoEvent.value]
  /\ blurred = [e \in Event |-> {}]

Begin(c) ==
  \/ CreateEvent(c) \/ UpdateEvent(c) \/ GetEventAttendees(c) \/ UpdateAttendee(c)
  \/ Subscribe(c) \/ Unsubscribe(c) \/ GetEventSubscriptionInfo(c)
  \/ GetCompanySubscriptionInfo(c) \/ CreateEventNews(c) \/ CreateCompanyNews(c)
  \/ FindEventNews(c) \/ FindCompanyNews(c) \/ FindNews(c) \/ UpdateNews(c) \/ DeleteNews(c)
  \/ UpdateNotification(c)

Continue(c) ==
  \/ StoreEvent(c) \/ PresentEvent(c) \/ ReadEventToUpdate(c) \/ WriteChange(c)
  \/ AnnounceChange(c) \/ OpenList(c) \/ ListOneself(c) \/ CheckMembership(c) \/ ListOthers(c)
  \/ AnswerList(c) \/ SetVisibility(c) \/ FindSubject(c) \/ CheckSubscription(c)
  \/ AddSubscription(c) \/ FindSubscription(c) \/ RemoveSubscription(c) \/ FindNewsSubject(c)
  \/ StoreNews(c) \/ AnnounceNews(c) \/ FindNewsToUpdate(c) \/ FindNewsToDelete(c)
  \/ WriteNews(c) \/ RemoveNews(c)

ListenerStep(l) ==
  \/ EmitOrderCreated(l) \/ FindAttendee(l) \/ JoinEvent(l) \/ FindBuyersSubscription(l)
  \/ SubscribeBuyer(l) \/ FindNotified(l) \/ ReadRecipients(l) \/ StoreNotification(l)

Next ==
  \/ (\E c \in Call : SendOddAnswer(c)) /\ Quiet
  \/ /\ Unhurried
     /\ \/ \E c \in Call : (Free(c) /\ Begin(c)) \/ Continue(c)
        \/ \E l \in Listener : ListenerStep(l) \/ ListenerFails(l)
        \/ \E e \in Event, u \in User : PlaceOrder(e, u)
        \/ \E e \in Event : DeleteEvent(e)
        \/ Crash

Spec == Init /\ [][Next]_vars

\* While the process lives, its event loop resumes every listener whose await has come back, and
\* sends every answer.  Queries need not fail, and need not succeed.
Fairness ==
  /\ \A l \in Listener : WF_vars(Unhurried /\ ListenerStep(l))
  /\ WF_vars((\E c \in Call : SendOddAnswer(c)) /\ Quiet)

FairSpec == Spec /\ Fairness

-----------------------------------------------------------------------------
(* Properties.                                                             *)

\* The tables are well formed: attendees have ordered, and their events stay; what is subscribed
\* to exists, and nobody has subscribed to it twice, request or listener.
TypeOK ==
  /\ event \in [Event -> EventRow]
  /\ attendee \in [Event -> [User -> AttendeeRow]]
  /\ subscription \in [Subscription -> SubscriptionRow]
  /\ news \in [News -> NewsRow]
  /\ presented \subseteq Event
  /\ ordered \subseteq Event \X User /\ lost \subseteq ordered
  /\ listener \in [Listener -> Chain]
  /\ announced \in [Event -> [Field -> Value]]
  /\ blurred \in [Event -> SUBSET (Field \cup {"created"})]
  /\ call \in [Call -> Request(Op, Stage, Subject \cup Subscription \cup News \cup User \cup {None},
                               Body, Memo)]
  /\ \A e \in Event, u \in User : Joined(e, u) => EventExists(e) /\ <<e, u>> \in ordered
  /\ \A s, t \in Subscription : subscription[s].row = "stored" =>
       /\ SubjectExists(subscription[s].subject)
       /\ subscription[t] = subscription[s] => s = t

\* What listeners were last told of a column is what the event's row holds, unless a crash or
\* updates at one time came between (EventsService.update).  A ticketsAvailableFrom that becomes
\* null is the one change nobody hears of.
AnnouncedValues ==
  \A e \in Event, f \in Field :
    \/ ~EventExists(e) \/ f \in blurred[e]
    \/ \E c \in Call : At(c, "announcing") /\ call[c].id = e /\ call[c].body.field = f
    \/ announced[e][f] = event[e].value[f]
    \/ f = "ticketsAvailableFrom" /\ event[e].value[f] = "unset"

\* Whoever is listed beside the viewer is shown under the event's setting and their own, however
\* the reads of getEventAttendees and the updates interleave, unless one came after the read.
ListsRespectVisibility ==
  \A c \in Call : At(c, "listed") /\ ~call[c].overtaken =>
    \A u \in call[c].memo.list \ {call[c].body} :
      /\ attendee[call[c].id][u] = "visible"
      /\ \/ event[call[c].id].attendeeVisibility = "EVERYONE"
         \/ /\ event[call[c].id].attendeeVisibility = "ATTENDEES_ONLY"
            /\ call[c].body # None /\ Joined(call[c].id, call[c].body)

\* News whose author was answered 404 although they are stored are on no event's list
\* (NewsService.create).
RefusedNewsUnlisted == \A n \in News : news[n].refused => news[n].subject = None

\* Whoever subscribed before an emission and stays is notified, once the recipients have been read
\* and if their own insert does not fail; and nobody is who has not been subscribed at any moment
\* of it (NotificationsService.createNotification).
RightPeopleTold ==
  \A l \in Listener :
    LET k == listener[l] IN
    k.notify = "storing" /\ (k.about = None \/ EventExists(k.about)) =>
      k.steady \subseteq k.ids \cup k.told /\ k.ids \cup k.told \subseteq k.ever

\* Whoever orders a ticket becomes an attendee (EventAttendeesListener), unless the process dies
\* after the commit or a query of the listener fails: it drops the error, and nothing emits
\* 'order.created' once more.
BuyersAttend ==
  \A e \in Event, u \in User : <<e, u>> \in ordered ~> Joined(e, u) \/ <<e, u>> \in lost

\* Answers the controllers do not document whatever happens.
UndocumentedAnswers ==
  {<<"getAttendees", "NOT_FOUND">>, <<"read", "NOT_FOUND">>,
   <<"updateNotification", "BAD_REQUEST">>}

Gone(x) ==
  \/ x \in Event /\ event[x].row = "deleted"
  \/ x \in Subscription /\ subscription[x].row = "deleted"
  \/ x \in News /\ news[x].row = "deleted"

\* A request is answered with a status its controller documents, unless what it is about was
\* deleted meanwhile, or a subscription that was made after the check is there before it.
AnswersAsDocumented ==
  \A c \in Call : Odd(c) =>
    \/ Gone(call[c].id)
    \/ call[c].op = "subscribe" /\ call[c].overtaken
    \/ <<call[c].op, call[c].answer>> \in UndocumentedAnswers

\* What the README says of notifications: company followers hear of a new event (README.md, "New
\* event announcements for company followers"), once it is published.
PublishedEventsAnnounced ==
  \A e \in Event : EventExists(e) /\ event[e].value["status"] = "set" =>
    e \in presented \/ "created" \in blurred[e] \/ \E c \in Call : call[c].id = e
=============================================================================
