----------------------------- MODULE MC_Audience -----------------------------
(***************************************************************************)
(* Instances of Audience for TLC.  A behaviour offers one mix: requests,   *)
(* orders and listeners that read what one another write.                  *)
(***************************************************************************)
EXTENDS Audience

CONSTANTS u1, u2, e1, k1, n1, s1, s2, l1, l2, c1, c2, none

VARIABLE offered

\* "by": what each of two clients may ask for, one request after the other; "buyers": who may order.
Mix(first, second, buyers, listeners) ==
  [by |-> [c \in {c1, c2} |-> IF c = c1 THEN first ELSE second],
   buyers |-> buyers, listeners |-> listeners]

Updates == Mix({"createEvent", "updateEvent"}, {"updateEvent"}, {}, {l1})
Viewing == Mix({"createEvent", "getAttendees"}, {"updateEvent"}, User, {l1})
Hiding == Mix({"createEvent", "getAttendees"}, {"updateAttendee"}, User, {l1})
Following ==
  Mix({"createEvent", "subscribe"}, {"subscribe", "unsubscribe"}, {}, {})
Joining == Mix({"createEvent"}, {"subscribe", "unsubscribe"}, {u1}, {l1})
Buying == Mix({"createEvent"}, {}, User, {l1, l2})
Reading == Mix({"createEvent", "createNews"}, {"subscribe", "updateNotification"}, {}, {l1})
Writing == Mix({"createEvent", "createNews", "updateNews", "deleteNews"},
               {"createNews", "deleteNews", "read"}, {}, {l1})

\* Columns that change are those of Updates, settings those of Viewing.
Bodies(c, op) ==
  CASE op = "createEvent" /\ offered = Updates ->
         {row \in EventRow : row.row = "stored" /\ row.attendeeVisibility = "EVERYONE"
                               /\ row.value["ticketsAvailableFrom"] = "unset"}
    [] op = "createEvent" /\ offered = Hiding ->
         {[NoEvent EXCEPT !.row = "stored", !.attendeeVisibility = v] :
            v \in Visibility \ {"NOBODY"}}
    [] op = "createEvent" -> {[NoEvent EXCEPT !.row = "stored"]}
    [] op = "updateEvent" /\ offered = Updates ->
         [field : IF c = c1 THEN Field ELSE {"ticketsAvailableFrom"}, value : Value]
    [] op = "updateEvent" -> [field : {"attendeeVisibility"}, value : {"EVERYONE", "NOBODY"}]
    [] OTHER -> {call'[c].body}

Asked(c) ==
  LET by == offered.by[c] IN
  \/ "createEvent" \in by /\ (\E e \in Event : event[e].row = "none") /\ CreateEvent(c)
  \/ "updateEvent" \in by /\ UpdateEvent(c)
  \/ "getAttendees" \in by /\ GetEventAttendees(c)
  \/ "updateAttendee" \in by /\ UpdateAttendee(c)
  \/ "subscribe" \in by /\ Subscribe(c)
  \/ "unsubscribe" \in by /\ Unsubscribe(c)
  \/ "createNews" \in by /\ (CreateEventNews(c) \/ CreateCompanyNews(c))
  \/ "updateNews" \in by /\ UpdateNews(c)
  \/ "deleteNews" \in by /\ DeleteNews(c)
  \/ "updateNotification" \in by /\ UpdateNotification(c)
  \/ /\ "read" \in by
     /\ \/ GetEventSubscriptionInfo(c) \/ GetCompanySubscriptionInfo(c)
        \/ FindEventNews(c) \/ FindCompanyNews(c) \/ FindNews(c)

Mixes == {Updates, Viewing, Hiding, Following, Joining, Buying, Reading, Writing}

MCInit == Init /\ offered \in Mixes

\* Beside lists and subscriptions, listeners neither die nor fail.
Sparing == {Viewing, Hiding, Joining}

\* Next, with the requests of the mix only.
MCNext ==
  /\ \/ (\E c \in Call : SendOddAnswer(c)) /\ Quiet
     \/ /\ Unhurried
        /\ \/ \E c \in Call : (Free(c) /\ Asked(c)) \/ Continue(c)
           \/ \E l \in Listener : ListenerStep(l)
           \/ \E e \in Event, u \in offered.buyers : PlaceOrder(e, u)
           \/ \E e \in Event : DeleteEvent(e)
           \/ offered \notin Sparing /\ \E l \in Listener : ListenerFails(l)
           \/ (offered \in Sparing => \A l \in Listener : listener[l] = Silent) /\ Crash
  /\ UNCHANGED offered
MCSpec == MCInit /\ [][MCNext]_<<vars, offered>> /\ Fairness

\* The bodies and the chains of listeners of the mix.
Offered ==
  /\ \A c \in Call : Free(c) /\ call'[c].op # "none" => call'[c].body \in Bodies(c, call'[c].op)
  /\ \A l \in Listener \ offered.listeners : listener'[l] = Silent
=============================================================================
