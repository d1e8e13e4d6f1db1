-------------------------- MODULE Audience_proofs --------------------------
(***************************************************************************)
(* Proofs about Audience, for any number of accounts, events, requests and *)
(* listeners, and any mix of them: what listeners are told is what the     *)
(* tables hold, lists respect the settings, notifications reach those who  *)
(* have subscribed, and answers are documented but for races.              *)
(***************************************************************************)
EXTENDS Audience, TLAPS

RequestRecord ==
  Request(Op, Stage, Subject \cup Subscription \cup News \cup User \cup {None}, Body, Memo)

-----------------------------------------------------------------------------
(* The inductive invariant                                                 *)

Excused(r) ==
  \/ Gone(r.id)
  \/ r.op = "subscribe" /\ r.overtaken
  \/ <<r.op, r.answer>> \in UndocumentedAnswers

\* The answers the controller of a request documents, as far as its next steps give them.
Replies(r) ==
  /\ r.stage \notin {"idle", "odd"} => "OK" \in r.docs
  /\ r.stage \in {"editing", "finding", "leaving", "drafting", "publishing", "titling",
                  "rewriting", "removing"} => "NOT_FOUND" \in r.docs
  /\ r.stage \in {"finding", "checking"} => "CONFLICT" \in r.docs
  /\ r.stage = "opening" => r.op = "getAttendees"
  /\ r.stage \in {"finding", "checking", "adding"} => r.op = "subscribe"
  /\ r.stage = "odd" => Excused(r)

\* Stages by what their requests are about.
Listing == {"own", "member", "others", "listed"}
EventStages == {"presenting", "editing", "writing", "announcing", "opening", "showing"} \cup Listing
EventSeen == {"presenting", "writing", "announcing"} \cup Listing
SubjectStages == {"finding", "checking", "adding", "publishing", "titling"}
SubjectSeen == SubjectStages \ {"finding"}

\* What a request was sent, and the rows it has seen.
Findings(r) ==
  /\ r.stage \in {"creating", "presenting"} => r.body \in EventRow /\ r.body.row = "stored"
  /\ r.stage \in {"editing", "writing", "announcing"} =>
       /\ r.body \in Changes
       /\ r.body.value \in IF r.body.field = "attendeeVisibility" THEN Visibility ELSE Value
  /\ r.stage \in EventStages => r.id \in Event
  /\ r.stage \in EventSeen => event[r.id].row # "none"
  /\ r.stage \in {"writing", "announcing"} /\ r.body.field \in Field => r.memo \in [old : Value]
  /\ r.stage = "announcing" => r.body.field \in Field
  /\ r.stage \in Listing \cup {"opening"} => r.body \in User \cup {None}
  /\ r.stage \in Listing => r.memo \in Lists
  /\ r.stage = "showing" => /\ r.body \in [user : User, visible : BOOLEAN]
                            /\ attendee[r.id][r.body.user] # "none"
  /\ r.stage \in SubjectStages \cup {"drafting"} => r.body \in User
  /\ r.stage \in SubjectStages => r.id \in Subject
  /\ r.stage = "drafting" => r.id \in Subject \cup {None}
  /\ r.stage \in SubjectSeen /\ r.id \in Event => event[r.id].row # "none"
  /\ r.stage \in {"leaving", "left"} => r.id \in Subscription /\ subscription[r.id].row # "none"
  /\ r.stage \in {"rewriting", "removing"} => r.id \in News \cup {None}
  /\ r.stage \in {"rewritten", "removed"} => r.id \in News /\ news[r.id].row # "none"
  /\ r.stage = "titling" => /\ r.memo \in News /\ news[r.memo].row # "none"
                            /\ news[r.memo].subject \in {r.id, None}

\* The viewer may see who else attends.
Admitted(r) ==
  \/ r.memo.visibility = "EVERYONE"
  \/ r.memo.visibility = "ATTENDEES_ONLY" /\ r.body # None /\ Joined(r.id, r.body)

\* A list being made: the viewer alone at first, then whoever shows up.
ListSound(r) ==
  /\ r.stage \in {"own", "member", "others"} => r.memo.list \subseteq {r.body}
  /\ r.stage = "member" => r.memo.visibility = "ATTENDEES_ONLY" /\ r.body # None
  /\ r.stage = "others" => Admitted(r)
  /\ r.stage = "listed" /\ ~r.overtaken =>
       \A u \in r.memo.list \ {r.body} : attendee[r.id][u] = "visible" /\ Admitted(r)

\* What a request has read is still so, unless it was told otherwise.
Fresh(r) ==
  \/ r.overtaken
  \/ /\ r.stage = "adding" => Subscriptions(r.body, r.id) = {}
     /\ r.stage \in Listing /\ EventExists(r.id) =>
          event[r.id].attendeeVisibility = r.memo.visibility
     /\ r.stage = "writing" /\ r.body.field \in Field /\ EventExists(r.id) =>
          event[r.id].value[r.body.field] = r.memo.old
     /\ r.stage = "announcing" /\ EventExists(r.id) =>
          event[r.id].value[r.body.field] = r.body.value

RequestOK(r) == Replies(r) /\ Findings(r) /\ ListSound(r) /\ Fresh(r)

\* Listeners know whom they are about, and who has been subscribed since the emission.
ChainOK(k) ==
  /\ k.attend # "idle" => k.subscribe = "idle" /\ k.notify = "idle" /\ k.told = {}
  /\ k.attend # "idle" \/ k.subscribe # "idle" =>
       /\ k.subject \in Event /\ k.user \in User
       /\ <<k.subject, k.user>> \in ordered
  /\ k.notify # "idle" => k.subject \in Subject
  /\ k.about \in Event => event[k.about].row # "none"
  /\ k.notify \in {"finding", "reading"} =>
       /\ k.told = {}
       /\ k.steady \subseteq FindAllUserIds(k.subject)
       /\ FindAllUserIds(k.subject) \subseteq k.ever
  /\ k.notify = "storing" /\ (k.about = None \/ EventExists(k.about)) =>
       k.steady \subseteq k.ids \cup k.told /\ k.ids \cup k.told \subseteq k.ever

\* References between the tables.
References ==
  /\ \A e \in Event, u \in User : <<e, u>> \in ordered => EventExists(e)
  /\ \A n \in News : news[n].subject # None => SubjectExists(news[n].subject)

AnnouncingOf(k, e, f) == call[k].stage = "announcing" /\ call[k].id = e /\ call[k].body.field = f

\* Listeners know the value, or it is one of the exceptions.
Known(e, f) ==
  \/ f \in blurred[e]
  \/ announced[e][f] = event[e].value[f]
  \/ f = "ticketsAvailableFrom" /\ event[e].value[f] = "unset"

\* Of the updates of a column about to be announced all but the last know that they were overtaken;
\* what that one leaves unsaid is known.
AnnouncementsOf(e, f) ==
  /\ \A k, l \in Call : AnnouncingOf(k, e, f) /\ AnnouncingOf(l, e, f) /\ k # l =>
       call[k].overtaken \/ call[l].overtaken
  /\ EventExists(e) =>
       /\ Known(e, f) \/ \E k \in Call : AnnouncingOf(k, e, f)
       /\ \A k \in Call :
            AnnouncingOf(k, e, f) /\ ~call[k].overtaken /\ call[k].memo.old = call[k].body.value =>
              Known(e, f) \/ \E l \in Call : AnnouncingOf(l, e, f) /\ l # k

Announcements == \A e \in Event, f \in Field : AnnouncementsOf(e, f)

IInv ==
  /\ TypeOK
  /\ \A c \in Call : RequestOK(call[c])
  /\ \A l \in Listener : ChainOK(listener[l])
  /\ References /\ RefusedNewsUnlisted /\ Announcements

-----------------------------------------------------------------------------
(* Requests                                                                *)

\* How a request ends.
LEMMA EndedRequest ==
    ASSUME NEW r \in RequestRecord, NEW code \in Status
    PROVE  /\ Ended(r, code) \in RequestRecord
           /\ code \in r.docs => Ended(r, code) = Idle
           /\ Ended(r, code).stage \in {"idle", "odd"}
           /\ code \in r.docs \/ Excused([r EXCEPT !.answer = code])
                => RequestOK(Ended(r, code))
<1> USE DEF RequestRecord, Request, Listing, EventStages, EventSeen, SubjectStages, SubjectSeen
<1>1. CASE code \in r.docs
  <2>1. Ended(r, code) = Idle
    BY <1>1 DEF Ended
  <2>2. Idle \in RequestRecord /\ Idle.stage = "idle"
    BY DEF Idle, Op, Body, Memo
  <2> QED
    BY <1>1, <2>1, <2>2 DEF RequestOK, Replies, Findings, ListSound, Fresh
<1>2. CASE code \notin r.docs
  <2> DEFINE e == Ended(r, code)
  <2>1. e = [r EXCEPT !.docs = {}, !.stage = "odd", !.answer = code]
    BY <1>2 DEF Ended
  <2>2. e \in RequestRecord /\ e.stage = "odd"
    BY <2>1
  <2>3. Excused([r EXCEPT !.answer = code]) => Excused(e)
    BY <2>1 DEF Excused
  <2> QED
    BY <1>2, <2>2, <2>3 DEF RequestOK, Replies, Findings, ListSound, Fresh
<1> QED
  BY <1>1, <1>2

LEMMA IdleType == Idle \in RequestRecord
BY DEF Idle, RequestRecord, Request, Op, Body, Memo

\* Nobody relies on an idle request.
LEMMA IdleOK ==
    ASSUME NEW c \in Call, call'[c] = Idle
    PROVE  RequestOK(call[c])'
BY DEF RequestOK, Replies, Findings, ListSound, Fresh, Idle, Listing, EventStages, EventSeen,
       SubjectStages, SubjectSeen

\* Ids are never handed out twice, rows never come back, attendees never leave, and news lose
\* their subject at most.
RowsKept ==
  /\ \A e \in Event : /\ event[e].row # "none" => event'[e].row # "none"
                      /\ event[e].row = "deleted" => event'[e].row = "deleted"
                      /\ \A u \in User : attendee[e][u] # "none" => attendee'[e][u] # "none"
  /\ \A s \in Subscription :
       /\ subscription[s].row # "none" => subscription'[s].row # "none"
       /\ subscription[s].row = "deleted" => subscription'[s].row = "deleted"
  /\ \A n \in News :
       /\ news[n].row # "none" => /\ news'[n].row # "none"
                                  /\ news'[n].subject \in {news[n].subject, None}
       /\ news[n].row = "deleted" => news'[n].row = "deleted"

\* What request k has read does not change, or k is told.
Undisturbed(k) ==
  \/ call'[k].overtaken
  \/ /\ call[k].stage = "adding" =>
          \A s \in Subscription :
            /\ subscription'[s].row = "stored"
            /\ subscription'[s].user = call[k].body /\ subscription'[s].subject = call[k].id
            => subscription[s] = subscription'[s]
     /\ call[k].stage \in Listing /\ event'[call[k].id].row = "stored" =>
          /\ event[call[k].id].row = "stored"
          /\ event'[call[k].id].attendeeVisibility = event[call[k].id].attendeeVisibility
     /\ call[k].stage = "listed" =>
          \A u \in User :
            attendee[call[k].id][u] = "visible" => attendee'[call[k].id][u] = "visible"
     /\ /\ call[k].stage \in {"writing", "announcing"} /\ call[k].body.field \in Field
        /\ event'[call[k].id].row = "stored"
        => /\ event[call[k].id].row = "stored"
           /\ event'[call[k].id].value[call[k].body.field]
                = event[call[k].id].value[call[k].body.field]

\* What a request relies on stays true while others step.
LEMMA OthersKept ==
    ASSUME TypeOK, RowsKept, NEW k \in Call, RequestOK(call[k]), Undisturbed(k),
           \/ call'[k] = call[k]
           \/ call'[k] = [call[k] EXCEPT !.overtaken = TRUE]
    PROVE  RequestOK(call[k])'
<1>1. call[k] \in RequestRecord
  BY DEF TypeOK, RequestRecord
<1>2. /\ call'[k].stage = call[k].stage /\ call'[k].docs = call[k].docs
      /\ call'[k].op = call[k].op /\ call'[k].id = call[k].id
      /\ call'[k].body = call[k].body /\ call'[k].answer = call[k].answer
      /\ call'[k].memo = call[k].memo
      /\ call[k].overtaken => call'[k].overtaken
  BY <1>1 DEF RequestRecord, Request
<1>3. Replies(call[k])'
  <2>1. Gone(call[k].id) => Gone(call[k].id)'
    BY <1>2 DEF Gone, RowsKept
  <2>2. call[k].stage = "odd" => Excused(call[k])'
    BY <1>2, <2>1 DEF Excused, RequestOK, Replies
  <2> QED
    BY <1>2, <2>2 DEF RequestOK, Replies
<1>4. Findings(call[k])'
  <2>1. Findings(call[k])
    BY DEF RequestOK
  <2> USE DEF Listing, EventStages, EventSeen, SubjectStages, SubjectSeen
  <2>2. call[k].stage \in EventSeen => event'[call[k].id].row # "none"
    BY <2>1 DEF Findings, RowsKept
  <2>3. call[k].stage = "showing" => attendee'[call[k].id][call[k].body.user] # "none"
    BY <2>1 DEF Findings, RowsKept
  <2>4. call[k].stage \in SubjectSeen /\ call[k].id \in Event => event'[call[k].id].row # "none"
    BY <2>1 DEF Findings, RowsKept
  <2>5. call[k].stage \in {"leaving", "left"} => subscription'[call[k].id].row # "none"
    BY <2>1 DEF Findings, RowsKept
  <2>6. call[k].stage \in {"rewritten", "removed"} => news'[call[k].id].row # "none"
    BY <2>1 DEF Findings, RowsKept
  <2>7. call[k].stage = "titling" => /\ news'[call[k].memo].row # "none"
                                     /\ news'[call[k].memo].subject \in {call[k].id, None}
    BY <2>1 DEF Findings, RowsKept
  <2> QED
    BY <1>2, <2>1, <2>2, <2>3, <2>4, <2>5, <2>6, <2>7 DEF Findings
<1>5. ListSound(call[k])'
  <2>1. ListSound(call[k]) /\ Findings(call[k])
    BY DEF RequestOK
  <2>2. call[k].stage \in Listing /\ Admitted(call[k]) => Admitted(call[k])'
    BY <1>2, <2>1 DEF Admitted, Joined, RowsKept, Findings, EventStages
  <2>3. call[k].stage = "listed" /\ ~call'[k].overtaken =>
          \A u \in call[k].memo.list \ {call[k].body} :
            attendee'[call[k].id][u] = "visible" /\ Admitted(call[k])'
    <3> SUFFICES ASSUME call[k].stage = "listed", ~call'[k].overtaken,
                        NEW u \in call[k].memo.list \ {call[k].body}
                 PROVE  attendee'[call[k].id][u] = "visible" /\ Admitted(call[k])'
      OBVIOUS
    <3>1. u \in User
      BY <2>1 DEF Findings, Listing, Lists
    <3> QED
      BY <1>2, <2>1, <2>2, <3>1 DEF ListSound, Undisturbed, Listing
  <2> QED
    BY <1>2, <2>1, <2>2, <2>3 DEF ListSound, Listing
<1>6. Fresh(call[k])'
  <2> SUFFICES ASSUME ~call'[k].overtaken PROVE Fresh(call[k])'
    BY DEF Fresh
  <2>1. ~call[k].overtaken /\ Fresh(call[k]) /\ Findings(call[k])
    BY <1>2 DEF RequestOK
  <2>2. call[k].stage = "adding" => Subscriptions(call[k].body, call[k].id)' = {}
    BY <1>2, <2>1 DEF Fresh, Undisturbed, Subscriptions
  <2>3. call[k].stage \in Listing /\ EventExists(call[k].id)' =>
          event'[call[k].id].attendeeVisibility = call[k].memo.visibility
    BY <1>2, <2>1 DEF Fresh, Undisturbed, EventExists
  <2>4. call[k].stage = "writing" /\ call[k].body.field \in Field /\ EventExists(call[k].id)' =>
          event'[call[k].id].value[call[k].body.field] = call[k].memo.old
    BY <1>2, <2>1 DEF Fresh, Undisturbed, EventExists
  <2>5. call[k].stage = "announcing" /\ EventExists(call[k].id)' =>
          event'[call[k].id].value[call[k].body.field] = call[k].body.value
    BY <1>2, <2>1 DEF Fresh, Undisturbed, EventExists, Findings
  <2> QED
    BY <1>2, <2>2, <2>3, <2>4, <2>5 DEF Fresh
<1> QED
  BY <1>3, <1>4, <1>5, <1>6 DEF RequestOK

OthersStand(c) ==
  \A k \in Call \ {c} : \/ call'[k] = call[k]
                        \/ call'[k] = [call[k] EXCEPT !.overtaken = TRUE]

\* Of the other requests only "overtaken" has changed.
LEMMA OthersFields ==
    ASSUME TypeOK, NEW c, OthersStand(c), NEW k \in Call, k # c
    PROVE  /\ call'[k] \in RequestRecord
           /\ call'[k].stage = call[k].stage /\ call'[k].id = call[k].id
           /\ call'[k].body = call[k].body /\ call'[k].memo = call[k].memo
           /\ call[k].overtaken => call'[k].overtaken
<1>1. call[k] \in RequestRecord
  BY DEF TypeOK, RequestRecord
<1>2. call'[k] = call[k] \/ call'[k] = [call[k] EXCEPT !.overtaken = TRUE]
  BY DEF OthersStand
<1> QED
  BY <1>1, <1>2 DEF RequestRecord, Request

LEMMA RequestsKept ==
    ASSUME IInv, RowsKept, NEW c, OthersStand(c), c \in Call => RequestOK(call[c])',
           \A k \in Call \ {c} : Undisturbed(k)
    PROVE  (\A k \in Call : RequestOK(call[k]))'
<1> SUFFICES ASSUME NEW k \in Call, k # c PROVE RequestOK(call[k])'
  OBVIOUS
<1> QED
  BY OthersKept DEF IInv, OthersStand

-----------------------------------------------------------------------------
(* Listeners and announcements                                             *)

\* A listener relies on rows that stay, and on the subscriptions.
LEMMA ChainKept ==
    ASSUME TypeOK, NEW l \in Listener, NEW k \in Chain, ChainOK(k), listener'[l] = k,
           UNCHANGED subscription, RowsKept, ordered \subseteq ordered', TypeOK'
    PROVE  ChainOK(listener[l])'
<1>1. FindAllUserIds(k.subject)' = FindAllUserIds(k.subject)
  BY DEF FindAllUserIds, Subscriptions
<1>2. FindAllUserIds(listener[l].subject)' = FindAllUserIds(k.subject)
  BY <1>1 DEF FindAllUserIds, Subscriptions
<1>3. k.about \in Event => event[k.about].row # "none"
  BY DEF ChainOK
<1>4. EventExists(k.about)' => EventExists(k.about)
  BY <1>3 DEF EventExists, RowsKept, TypeOK, EventRow, RowState
<1>5. EventExists(listener[l].about)' => EventExists(k.about)
  BY <1>4 DEF EventExists
<1>6. k.about \in Event => event'[k.about].row # "none"
  BY <1>3 DEF RowsKept
<1> QED
  BY <1>2, <1>5, <1>6 DEF ChainOK

LEMMA ChainsKept ==
    ASSUME IInv, TypeOK', RowsKept, UNCHANGED subscription, ordered \subseteq ordered',
           \A l \in Listener : ChainOK(listener'[l])
    PROVE  (\A l \in Listener : ChainOK(listener[l]))'
<1> SUFFICES ASSUME NEW l \in Listener PROVE ChainOK(listener[l])'
  OBVIOUS
<1>1. PICK k : k = listener'[l]
  OBVIOUS
<1>2. k \in Chain /\ ChainOK(k)
  BY <1>1 DEF TypeOK
<1> QED
  BY <1>1, <1>2, ChainKept DEF IInv

\* Announcements rest on the requests that announce and on the values, old, new and told.
LEMMA AnnouncementsKeptOf ==
    ASSUME IInv, NEW e \in Event, NEW f \in Field, NEW c, OthersStand(c),
           c \in Call => call[c].stage # "announcing" /\ call'[c].stage # "announcing",
           EventExists(e)' => /\ EventExists(e)
                              /\ announced'[e][f] = announced[e][f] /\ blurred'[e] = blurred[e]
                              /\ event'[e].value[f] = event[e].value[f]
    PROVE  AnnouncementsOf(e, f)'
<1>1. \A k \in Call : AnnouncingOf(k, e, f)' <=> AnnouncingOf(k, e, f)
  BY OthersFields DEF IInv, AnnouncingOf
<1>2. \A k \in Call : AnnouncingOf(k, e, f) =>
        /\ call[k].overtaken => call'[k].overtaken
        /\ call'[k].memo = call[k].memo /\ call'[k].body = call[k].body
  BY OthersFields DEF IInv, AnnouncingOf
<1>3. EventExists(e)' => EventExists(e) /\ (Known(e, f) => Known(e, f)')
  BY DEF Known
<1>4. \A k \in Call :
        (call'[k].stage = "announcing" /\ call'[k].id = e /\ call'[k].body.field = f)
          <=> AnnouncingOf(k, e, f)
  BY <1>1 DEF AnnouncingOf
<1> HIDE DEF Known
<1> QED
  BY <1>2, <1>3, <1>4 DEF IInv, Announcements, AnnouncementsOf, AnnouncingOf

LEMMA AnnouncementsKept ==
    ASSUME IInv, NEW c, OthersStand(c),
           c \in Call => call[c].stage # "announcing" /\ call'[c].stage # "announcing",
           UNCHANGED <<announced, blurred>>,
           \A e \in Event : event'[e].row = "stored" =>
             event[e].row = "stored" /\ event'[e].value = event[e].value
    PROVE  Announcements'
<1> SUFFICES ASSUME NEW e \in Event, NEW f \in Field PROVE AnnouncementsOf(e, f)'
  BY DEF Announcements
<1>1. EventExists(e)' => EventExists(e) /\ event'[e].value = event[e].value
  BY DEF EventExists
<1> QED
  BY <1>1, AnnouncementsKeptOf

\* A step of one request that writes no row keeps the invariant when its new state is sound.
LEMMA QuietStep ==
    ASSUME IInv, NEW c \in Call, NEW r \in RequestRecord, RequestOK(r),
           call' = [call EXCEPT ![c] = r], Quiet,
           call[c].stage # "announcing", r.stage # "announcing"
    PROVE  IInv'
<1> USE DEF Quiet, rows, history
<1>1. TypeOK'
  BY DEF IInv, TypeOK, RequestRecord, EventExists, SubjectExists, Joined
<1>2. call'[c] = r /\ OthersStand(c) /\ \A k \in Call \ {c} : call'[k] = call[k]
  BY DEF IInv, TypeOK, OthersStand
<1>3. RowsKept
  BY DEF RowsKept
<1>4. \A k \in Call \ {c} : Undisturbed(k)
  BY <1>2 DEF Undisturbed
<1>5. RequestOK(call[c])'
  <2>1. Replies(r) => Replies(call[c])'
    BY <1>2 DEF Replies, Excused, Gone
  <2>2. Findings(r) => Findings(call[c])'
    BY <1>2 DEF Findings
  <2>3. ListSound(r) => ListSound(call[c])'
    BY <1>2 DEF ListSound, Admitted, Joined
  <2>4. Fresh(r) => Fresh(call[c])'
    BY <1>2 DEF Fresh, Subscriptions, EventExists
  <2> QED
    BY <2>1, <2>2, <2>3, <2>4 DEF RequestOK
<1>6. (\A k \in Call : RequestOK(call[k]))'
  BY <1>2, <1>3, <1>4, <1>5, RequestsKept
<1>7. \A l \in Listener : ChainOK(listener'[l])
  BY DEF IInv
<1>8. (\A l \in Listener : ChainOK(listener[l]))'
  BY <1>1, <1>3, <1>7, ChainsKept
<1>9. Announcements'
  BY <1>2, AnnouncementsKept
<1> QED
  BY <1>1, <1>6, <1>8, <1>9 DEF IInv, References, RefusedNewsUnlisted, EventExists, SubjectExists

-----------------------------------------------------------------------------
(* Handlers                                                                *)

\* A handler lets a sound request in, or answers it as documented or excused.
LEMMA AdmitStep ==
    ASSUME IInv, NEW c \in Call, NEW r \in RequestRecord, NEW code \in Status, Quiet,
           Admit(c, r, code), code = "OK" => RequestOK(r) /\ r.stage # "announcing",
           code \in r.docs \/ Excused([r EXCEPT !.answer = code])
    PROVE  IInv'
<1>1. call[c].stage # "announcing"
  BY DEF Admit, Free, At
<1>2. CASE code = "OK"
  BY <1>1, <1>2, QuietStep DEF Admit
<1>3. CASE code # "OK"
  <2>1. call' = [call EXCEPT ![c] = Ended(r, code)]
    BY <1>3 DEF Admit
  <2> QED
    BY <1>1, <2>1, EndedRequest, QuietStep
<1> QED
  BY <1>2, <1>3

\* A read is answered at once.
LEMMA ReadStep ==
    ASSUME IInv, NEW c \in Call, Quiet,
           NEW op \in Op, NEW docs \in SUBSET Status, NEW code \in Status,
           NEW id \in Subject \cup Subscription \cup News \cup User \cup {None},
           Answer(c, Arrival(op, docs, "read", id, None), code),
           code \in docs \/ <<op, code>> \in UndocumentedAnswers
    PROVE  IInv'
<1> DEFINE r == Arrival(op, docs, "read", id, None)
<1>1. r \in RequestRecord /\ r.op = op /\ r.docs = docs
  BY DEF Arrival, Idle, RequestRecord, Request, Stage, Body, Memo
<1>2. code \in r.docs \/ Excused([r EXCEPT !.answer = code])
  BY <1>1 DEF Excused, RequestRecord, Request
<1>3. call[c].stage # "announcing" /\ call' = [call EXCEPT ![c] = Ended(r, code)]
  BY DEF Answer, Free, At
<1> HIDE DEF r
<1> QED
  BY <1>1, <1>2, <1>3, EndedRequest, QuietStep

LEMMA HandlersOfEvents ==
    ASSUME IInv, NEW c \in Call,
           CreateEvent(c) \/ UpdateEvent(c) \/ GetEventAttendees(c) \/ UpdateAttendee(c)
    PROVE  IInv'
<1> USE DEF Status, Op, Stage, Documented, Subject
<1>1. CASE CreateEvent(c)
  <2> DEFINE docs == {"OK", "BAD_REQUEST", "UNAUTHORIZED", "FORBIDDEN"}
  <2>1. PICK row \in EventRow :
          /\ row.row = "stored"
          /\ Admit(c, Arrival("createEvent", docs, "creating", Company, row), "OK")
    BY <1>1 DEF CreateEvent
  <2> DEFINE r == Arrival("createEvent", docs, "creating", Company, row)
             code == "OK"
  <2>2. /\ r \in RequestRecord /\ r.stage = "creating" /\ r.op = "createEvent" /\ r.docs = docs
        /\ r.id = Company /\ r.body = row /\ ~r.overtaken
    BY DEF Arrival, Idle, RequestRecord, Request, Body, Memo
  <2>3. code \in Status /\ code \in r.docs
    BY <2>2
  <2>4. RequestOK(r)
    BY <2>1, <2>2 DEF RequestOK, Replies, Findings, ListSound, Fresh, Listing, EventStages,
                      EventSeen, SubjectStages, SubjectSeen
  <2>5. Quiet /\ Admit(c, r, code) /\ r.stage # "announcing"
    BY <1>1, <2>1, <2>2 DEF CreateEvent
  <2> HIDE DEF docs, r, code
  <2> QED
    BY <2>2, <2>3, <2>4, <2>5, AdmitStep
<1>2. CASE UpdateEvent(c)
  <2> DEFINE docs == Documented
  <2>1. PICK e \in Event, change \in Changes :
          /\ change.value \in IF change.field = "attendeeVisibility" THEN Visibility ELSE Value
          /\ Admit(c, Arrival("updateEvent", docs, "editing", e, change), "OK")
    BY <1>2 DEF UpdateEvent
  <2> DEFINE r == Arrival("updateEvent", docs, "editing", e, change)
             code == "OK"
  <2>2. /\ r \in RequestRecord /\ r.stage = "editing" /\ r.op = "updateEvent" /\ r.docs = docs
        /\ r.id = e /\ r.body = change /\ ~r.overtaken
    BY DEF Arrival, Idle, RequestRecord, Request, Body, Memo
  <2>3. code \in Status /\ code \in r.docs
    BY <2>2
  <2>4. RequestOK(r)
    BY <2>1, <2>2 DEF RequestOK, Replies, Findings, ListSound, Fresh, Listing, EventStages,
                      EventSeen, SubjectStages, SubjectSeen
  <2>5. Quiet /\ Admit(c, r, code) /\ r.stage # "announcing"
    BY <1>2, <2>1, <2>2 DEF UpdateEvent
  <2> HIDE DEF docs, r, code
  <2> QED
    BY <2>2, <2>3, <2>4, <2>5, AdmitStep
<1>3. CASE GetEventAttendees(c)
  <2> DEFINE docs == {"OK"}
  <2>1. PICK e \in Event, viewer \in User \cup {None} :
          Admit(c, Arrival("getAttendees", docs, "opening", e, viewer), "OK")
    BY <1>3 DEF GetEventAttendees
  <2> DEFINE r == Arrival("getAttendees", docs, "opening", e, viewer)
             code == "OK"
  <2>2. /\ r \in RequestRecord /\ r.stage = "opening" /\ r.op = "getAttendees" /\ r.docs = docs
        /\ r.id = e /\ r.body = viewer /\ ~r.overtaken
    BY DEF Arrival, Idle, RequestRecord, Request, Body, Memo
  <2>3. code \in Status /\ code \in r.docs
    BY <2>2
  <2>4. RequestOK(r)
    BY <2>2 DEF RequestOK, Replies, Findings, ListSound, Fresh, Listing, EventStages, EventSeen,
                SubjectStages, SubjectSeen
  <2>5. Quiet /\ Admit(c, r, code) /\ r.stage # "announcing"
    BY <1>3, <2>1, <2>2 DEF GetEventAttendees
  <2> HIDE DEF docs, r, code
  <2> QED
    BY <2>2, <2>3, <2>4, <2>5, AdmitStep
<1>4. CASE UpdateAttendee(c)
  <2> DEFINE docs == Documented
  <2>1. PICK v, u \in User, e \in Event \cup {None}, visible, valid \in BOOLEAN :
          Admit(c, Arrival("updateAttendee", docs, "showing", e, [user |-> u, visible |-> visible]),
                AttendeeGuard(v, e, u, ValidationPipe(valid)))
    BY <1>4 DEF UpdateAttendee
  <2> DEFINE r == Arrival("updateAttendee", docs, "showing", e, [user |-> u, visible |-> visible])
             code == AttendeeGuard(v, e, u, ValidationPipe(valid))
  <2>2. /\ r \in RequestRecord /\ r.stage = "showing" /\ r.op = "updateAttendee" /\ r.docs = docs
        /\ r.id = e /\ r.body = [user |-> u, visible |-> visible] /\ ~r.overtaken
    BY DEF Arrival, Idle, RequestRecord, Request, Body, Memo
  <2>3. code \in Status /\ code \in r.docs
    BY <2>2 DEF AttendeeGuard, OwnershipGuard, ValidationPipe
  <2>4. code = "OK" => RequestOK(r)
    BY <2>2 DEF RequestOK, Replies, Findings, ListSound, Fresh, Listing, EventStages, EventSeen,
                SubjectStages, SubjectSeen, AttendeeGuard, OwnershipGuard,
                Joined
  <2>5. Quiet /\ Admit(c, r, code) /\ r.stage # "announcing"
    BY <1>4, <2>1, <2>2 DEF UpdateAttendee
  <2> HIDE DEF docs, r, code
  <2> QED
    BY <2>2, <2>3, <2>4, <2>5, AdmitStep
<1> QED
  BY <1>1, <1>2, <1>3, <1>4

LEMMA HandlersOfSubscriptions ==
    ASSUME IInv, NEW c \in Call,
           Subscribe(c) \/ Unsubscribe(c)
    PROVE  IInv'
<1> USE DEF Status, Op, Stage, Documented, Subject
<1>1. CASE Subscribe(c)
  <2> DEFINE docs == {"OK", "BAD_REQUEST", "UNAUTHORIZED", "NOT_FOUND", "CONFLICT"}
  <2>1. PICK v \in User, x \in Subject, valid \in BOOLEAN :
          Admit(c, Arrival("subscribe", docs, "finding", x, v), ValidationPipe(valid))
    BY <1>1 DEF Subscribe
  <2> DEFINE r == Arrival("subscribe", docs, "finding", x, v)
             code == ValidationPipe(valid)
  <2>2. /\ r \in RequestRecord /\ r.stage = "finding" /\ r.op = "subscribe" /\ r.docs = docs
        /\ r.id = x /\ r.body = v /\ ~r.overtaken
    BY DEF Arrival, Idle, RequestRecord, Request, Body, Memo
  <2>3. code \in Status /\ code \in r.docs
    BY <2>2 DEF ValidationPipe
  <2>4. RequestOK(r)
    BY <2>2 DEF RequestOK, Replies, Findings, ListSound, Fresh, Listing, EventStages, EventSeen,
                SubjectStages, SubjectSeen
  <2>5. Quiet /\ Admit(c, r, code) /\ r.stage # "announcing"
    BY <1>1, <2>1, <2>2 DEF Subscribe
  <2> HIDE DEF docs, r, code
  <2> QED
    BY <2>2, <2>3, <2>4, <2>5, AdmitStep
<1>2. CASE Unsubscribe(c)
  <2> DEFINE docs == {"OK", "UNAUTHORIZED", "FORBIDDEN", "NOT_FOUND"}
  <2>1. PICK v \in User, s \in Subscription \cup {None} :
          Admit(c, Arrival("unsubscribe", docs, "leaving", s, v),
                SubscriptionOwnerGuard(v, s, "OK"))
    BY <1>2 DEF Unsubscribe
  <2> DEFINE r == Arrival("unsubscribe", docs, "leaving", s, v)
             code == SubscriptionOwnerGuard(v, s, "OK")
  <2>2. /\ r \in RequestRecord /\ r.stage = "leaving" /\ r.op = "unsubscribe" /\ r.docs = docs
        /\ r.id = s /\ r.body = v /\ ~r.overtaken
    BY DEF Arrival, Idle, RequestRecord, Request, Body, Memo
  <2>3. code \in Status /\ code \in r.docs
    BY <2>2 DEF SubscriptionOwnerGuard, OwnershipGuard
  <2>4. code = "OK" => RequestOK(r)
    BY <2>2 DEF RequestOK, Replies, Findings, ListSound, Fresh, Listing, EventStages, EventSeen,
                SubjectStages, SubjectSeen, SubscriptionOwnerGuard, OwnershipGuard
  <2>5. Quiet /\ Admit(c, r, code) /\ r.stage # "announcing"
    BY <1>2, <2>1, <2>2 DEF Unsubscribe
  <2> HIDE DEF docs, r, code
  <2> QED
    BY <2>2, <2>3, <2>4, <2>5, AdmitStep
<1> QED
  BY <1>1, <1>2

LEMMA HandlersOfNews ==
    ASSUME IInv, NEW c \in Call,
           CreateEventNews(c) \/ CreateCompanyNews(c) \/ UpdateNews(c) \/ DeleteNews(c)
    PROVE  IInv'
<1> USE DEF Status, Op, Stage, Documented, Subject
<1>1. CASE CreateEventNews(c)
  <2> DEFINE docs == Documented
  <2>1. PICK v \in User, e \in Event, valid \in BOOLEAN :
          Admit(c, Arrival("createNews", docs, "drafting", e, v), ValidationPipe(valid))
    BY <1>1 DEF CreateEventNews
  <2> DEFINE r == Arrival("createNews", docs, "drafting", e, v)
             code == ValidationPipe(valid)
  <2>2. /\ r \in RequestRecord /\ r.stage = "drafting" /\ r.op = "createNews" /\ r.docs = docs
        /\ r.id = e /\ r.body = v /\ ~r.overtaken
    BY DEF Arrival, Idle, RequestRecord, Request, Body, Memo
  <2>3. code \in Status /\ code \in r.docs
    BY <2>2 DEF ValidationPipe
  <2>4. RequestOK(r)
    BY <2>2 DEF RequestOK, Replies, Findings, ListSound, Fresh, Listing, EventStages, EventSeen,
                SubjectStages, SubjectSeen
  <2>5. Quiet /\ Admit(c, r, code) /\ r.stage # "announcing"
    BY <1>1, <2>1, <2>2 DEF CreateEventNews
  <2> HIDE DEF docs, r, code
  <2> QED
    BY <2>2, <2>3, <2>4, <2>5, AdmitStep
<1>2. CASE CreateCompanyNews(c)
  <2> DEFINE docs == Documented
  <2>1. PICK v \in User, k \in {Company, None}, valid \in BOOLEAN :
          Admit(c, Arrival("createNews", docs, "drafting", k, v),
                CompanyOwnerGuard(v, k, ValidationPipe(valid)))
    BY <1>2 DEF CreateCompanyNews
  <2> DEFINE r == Arrival("createNews", docs, "drafting", k, v)
             code == CompanyOwnerGuard(v, k, ValidationPipe(valid))
  <2>2. /\ r \in RequestRecord /\ r.stage = "drafting" /\ r.op = "createNews" /\ r.docs = docs
        /\ r.id = k /\ r.body = v /\ ~r.overtaken
    BY DEF Arrival, Idle, RequestRecord, Request, Body, Memo
  <2>3. code \in Status /\ code \in r.docs
    BY <2>2 DEF CompanyOwnerGuard, OwnershipGuard, ValidationPipe
  <2>4. RequestOK(r)
    BY <2>2 DEF RequestOK, Replies, Findings, ListSound, Fresh, Listing, EventStages, EventSeen,
                SubjectStages, SubjectSeen
  <2>5. Quiet /\ Admit(c, r, code) /\ r.stage # "announcing"
    BY <1>2, <2>1, <2>2 DEF CreateCompanyNews
  <2> HIDE DEF docs, r, code
  <2> QED
    BY <2>2, <2>3, <2>4, <2>5, AdmitStep
<1>3. CASE UpdateNews(c)
  <2> DEFINE docs == Documented
  <2>1. PICK v \in User, n \in News \cup {None}, valid \in BOOLEAN :
          Admit(c, Arrival("updateNews", docs, "rewriting", n, None),
                NewsOwnerGuard(v, n, ValidationPipe(valid)))
    BY <1>3 DEF UpdateNews
  <2> DEFINE r == Arrival("updateNews", docs, "rewriting", n, None)
             code == NewsOwnerGuard(v, n, ValidationPipe(valid))
  <2>2. /\ r \in RequestRecord /\ r.stage = "rewriting" /\ r.op = "updateNews" /\ r.docs = docs
        /\ r.id = n /\ r.body = None /\ ~r.overtaken
    BY DEF Arrival, Idle, RequestRecord, Request, Body, Memo
  <2>3. code \in Status /\ code \in r.docs
    BY <2>2 DEF NewsOwnerGuard, OwnershipGuard, ValidationPipe
  <2>4. RequestOK(r)
    BY <2>2 DEF RequestOK, Replies, Findings, ListSound, Fresh, Listing, EventStages, EventSeen,
                SubjectStages, SubjectSeen
  <2>5. Quiet /\ Admit(c, r, code) /\ r.stage # "announcing"
    BY <1>3, <2>1, <2>2 DEF UpdateNews
  <2> HIDE DEF docs, r, code
  <2> QED
    BY <2>2, <2>3, <2>4, <2>5, AdmitStep
<1>4. CASE DeleteNews(c)
  <2> DEFINE docs == Documented
  <2>1. PICK v \in User, n \in News \cup {None} :
          Admit(c, Arrival("deleteNews", docs, "removing", n, None), NewsOwnerGuard(v, n, "OK"))
    BY <1>4 DEF DeleteNews
  <2> DEFINE r == Arrival("deleteNews", docs, "removing", n, None)
             code == NewsOwnerGuard(v, n, "OK")
  <2>2. /\ r \in RequestRecord /\ r.stage = "removing" /\ r.op = "deleteNews" /\ r.docs = docs
        /\ r.id = n /\ r.body = None /\ ~r.overtaken
    BY DEF Arrival, Idle, RequestRecord, Request, Body, Memo
  <2>3. code \in Status /\ code \in r.docs
    BY <2>2 DEF NewsOwnerGuard, OwnershipGuard
  <2>4. RequestOK(r)
    BY <2>2 DEF RequestOK, Replies, Findings, ListSound, Fresh, Listing, EventStages, EventSeen,
                SubjectStages, SubjectSeen
  <2>5. Quiet /\ Admit(c, r, code) /\ r.stage # "announcing"
    BY <1>4, <2>1, <2>2 DEF DeleteNews
  <2> HIDE DEF docs, r, code
  <2> QED
    BY <2>2, <2>3, <2>4, <2>5, AdmitStep
<1> QED
  BY <1>1, <1>2, <1>3, <1>4

LEMMA ReadsOfAudience ==
    ASSUME IInv, NEW c \in Call,
           \/ GetEventSubscriptionInfo(c) \/ GetCompanySubscriptionInfo(c) \/ FindEventNews(c)
           \/ FindCompanyNews(c) \/ FindNews(c) \/ UpdateNotification(c)
    PROVE  IInv'
<1> USE DEF Subject
<1>1. "read" \in Op /\ "updateNotification" \in Op
  BY DEF Op
<1>2. \A x \in Subject \cup {None}, docs \in SUBSET Status :
        "OK" \in docs /\ ReadSubject(c, x, docs) => IInv'
  <2> SUFFICES ASSUME NEW x \in Subject \cup {None}, NEW docs \in SUBSET Status, "OK" \in docs,
                      ReadSubject(c, x, docs)
               PROVE  IInv'
    OBVIOUS
  <2> DEFINE code == IF SubjectExists(x) THEN "OK" ELSE "NOT_FOUND"
  <2>1. code \in Status /\ (code \in docs \/ <<"read", code>> \in UndocumentedAnswers)
    BY DEF Status, UndocumentedAnswers
  <2>2. Quiet /\ Answer(c, Arrival("read", docs, "read", x, None), code)
    BY DEF ReadSubject
  <2> HIDE DEF code
  <2> QED
    BY <1>1, <2>1, <2>2, ReadStep
<1>3. {"OK"} \in SUBSET Status /\ {"OK", "NOT_FOUND"} \in SUBSET Status
  BY DEF Status
<1>4. CASE \/ GetEventSubscriptionInfo(c) \/ GetCompanySubscriptionInfo(c) \/ FindEventNews(c)
           \/ FindCompanyNews(c)
  BY <1>2, <1>3, <1>4 DEF GetEventSubscriptionInfo, GetCompanySubscriptionInfo, FindEventNews,
                          FindCompanyNews
<1>5. CASE FindNews(c)
  <2>1. PICK n \in News \cup {None} :
          Answer(c, Arrival("read", {"OK", "NOT_FOUND"}, "read", n, None),
                 IF NewsExists(n) THEN "OK" ELSE "NOT_FOUND")
    BY <1>5 DEF FindNews
  <2> DEFINE code == IF NewsExists(n) THEN "OK" ELSE "NOT_FOUND"
  <2>2. code \in {"OK", "NOT_FOUND"} /\ code \in Status
    BY DEF Status
  <2>3. Quiet /\ Answer(c, Arrival("read", {"OK", "NOT_FOUND"}, "read", n, None), code)
    BY <1>5, <2>1 DEF FindNews
  <2> HIDE DEF code
  <2> QED
    BY <1>1, <1>3, <2>2, <2>3, ReadStep
<1>6. CASE UpdateNotification(c)
  <2> DEFINE docs == {"OK", "FORBIDDEN", "NOT_FOUND"}
  <2>1. PICK v \in User, u \in User \cup {None}, valid \in BOOLEAN :
          Answer(c, Arrival("updateNotification", docs, "read", u, None),
                 NotificationOwnerGuard(v, u, ValidationPipe(valid)))
    BY <1>6 DEF UpdateNotification
  <2> DEFINE code == NotificationOwnerGuard(v, u, ValidationPipe(valid))
  <2>2. /\ code \in Status /\ docs \in SUBSET Status
        /\ code \in docs \/ <<"updateNotification", code>> \in UndocumentedAnswers
    BY DEF NotificationOwnerGuard, OwnershipGuard, ValidationPipe, Status, UndocumentedAnswers
  <2>3. Quiet /\ Answer(c, Arrival("updateNotification", docs, "read", u, None), code)
    BY <1>6, <2>1 DEF UpdateNotification
  <2> HIDE DEF code, docs
  <2> QED
    BY <1>1, <2>2, <2>3, ReadStep
<1> QED
  BY <1>4, <1>5, <1>6

-----------------------------------------------------------------------------
(* Steps of the services that write no row                                 *)

LEMMA ReplyStep ==
    ASSUME IInv, NEW c \in Call, NEW code \in Status, Reply(c, code), Quiet,
           call[c].stage # "announcing",
           code \in call[c].docs \/ Excused([call[c] EXCEPT !.answer = code])
    PROVE  IInv'
<1> DEFINE r == Ended(call[c], code)
<1>1. call[c] \in RequestRecord
  BY DEF IInv, TypeOK, RequestRecord
<1>2. r \in RequestRecord /\ RequestOK(r) /\ r.stage # "announcing"
  BY <1>1, EndedRequest
<1>3. call' = [call EXCEPT ![c] = r]
  BY DEF Reply
<1> HIDE DEF r
<1> QED
  BY <1>2, <1>3, QuietStep

\* Request c at another stage, with another memo.
Moved(c, stage, memo) == [call[c] EXCEPT !.stage = stage, !.memo = memo]

LEMMA MovedFields ==
    ASSUME IInv, NEW c \in Call, NEW stage \in Stage, NEW memo \in Memo
    PROVE  LET r == Moved(c, stage, memo) IN
           /\ r \in RequestRecord /\ r.stage = stage /\ r.memo = memo
           /\ r.docs = call[c].docs /\ r.op = call[c].op /\ r.id = call[c].id
           /\ r.body = call[c].body /\ r.overtaken = call[c].overtaken
BY DEF IInv, TypeOK, RequestRecord, Request, Moved

LEMMA MoveStep ==
    ASSUME IInv, NEW c \in Call, NEW stage \in Stage, NEW memo \in Memo, Quiet,
           call' = [call EXCEPT ![c] = Moved(c, stage, memo)],
           call[c].stage # "announcing", stage # "announcing",
           RequestOK(Moved(c, stage, memo))
    PROVE  IInv'
<1>1. Moved(c, stage, memo) \in RequestRecord /\ Moved(c, stage, memo).stage = stage
  BY MovedFields
<1> QED
  BY <1>1, QuietStep

LEMMA GotoStep ==
    ASSUME IInv, NEW c \in Call, NEW stage \in Stage, Goto(c, stage), Quiet,
           call[c].stage # "announcing", stage # "announcing",
           RequestOK(Moved(c, stage, call[c].memo))
    PROVE  IInv'
<1>1. call[c] \in RequestRecord /\ call[c].memo \in Memo
  BY DEF IInv, TypeOK, RequestRecord, Request
<1>2. [call[c] EXCEPT !.stage = stage] = Moved(c, stage, call[c].memo)
  BY <1>1 DEF Moved, RequestRecord, Request
<1>3. call' = [call EXCEPT ![c] = Moved(c, stage, call[c].memo)]
  BY <1>2 DEF Goto
<1> QED
  BY <1>1, <1>3, MoveStep

\* What an undocumented answer is excused by.
LEMMA Excuses ==
    ASSUME IInv, NEW c \in Call, NEW code \in Status
    PROVE  LET r == [call[c] EXCEPT !.answer = code]
               id == call[c].id IN
           /\ id \in Event /\ event[id].row # "none" /\ ~EventExists(id) => Excused(r)
           /\ id \in Subscription /\ subscription[id].row # "none"
                /\ subscription[id].row # "stored" => Excused(r)
           /\ id \in News /\ news[id].row # "none" /\ ~NewsExists(id) => Excused(r)
           /\ call[c].op = "subscribe" /\ call[c].overtaken => Excused(r)
           /\ <<call[c].op, code>> \in UndocumentedAnswers => Excused(r)
<1> DEFINE r == [call[c] EXCEPT !.answer = code]
           id == call[c].id
<1>1. r.id = id /\ r.overtaken = call[c].overtaken /\ r.op = call[c].op /\ r.answer = code
  BY DEF IInv, TypeOK, RequestRecord, Request
<1>2. /\ id \in Event => event[id].row \in RowState
      /\ id \in Subscription => subscription[id].row \in RowState
      /\ id \in News => news[id].row \in RowState /\ id # None
  BY NoneAssumption DEF IInv, TypeOK, EventRow, SubscriptionRow, NewsRow
<1>3. /\ id \in Event /\ event[id].row # "none" /\ ~EventExists(id) => Gone(id)
      /\ id \in Subscription /\ subscription[id].row # "none"
           /\ subscription[id].row # "stored" => Gone(id)
      /\ id \in News /\ news[id].row # "none" /\ ~NewsExists(id) => Gone(id)
  BY <1>2 DEF Gone, EventExists, NewsExists, RowState
<1> HIDE DEF r
<1> QED
  BY <1>1, <1>3 DEF Excused, r

\* A subject that has been seen and is gone is an event that was deleted.
LEMMA SubjectGone ==
    ASSUME IInv, NEW c \in Call, call[c].stage \in SubjectSeen, ~SubjectExists(call[c].id)
    PROVE  /\ call[c].id \in Event /\ event[call[c].id].row # "none" /\ ~EventExists(call[c].id)
BY DEF IInv, RequestOK, Findings, SubjectExists, Subject, SubjectSeen, SubjectStages

LEMMA QuietSubscriptions ==
    ASSUME IInv, NEW c \in Call,
           FindSubject(c) \/ CheckSubscription(c) \/ FindSubscription(c)
    PROVE  IInv'
<1> DEFINE next(stage) == Moved(c, stage, call[c].memo)
<1> USE DEF At, RequestOK, Listing, EventStages, EventSeen, SubjectStages, SubjectSeen
<1>1. RequestOK(call[c]) /\ call[c].memo \in Memo
  BY DEF IInv, TypeOK, Request
<1>2. \A stage \in Stage :
        /\ next(stage).stage = stage /\ next(stage).memo = call[c].memo
        /\ next(stage).docs = call[c].docs /\ next(stage).op = call[c].op
        /\ next(stage).id = call[c].id /\ next(stage).body = call[c].body
        /\ next(stage).overtaken = call[c].overtaken
  BY <1>1, MovedFields
<1>3. /\ "checking" \in Stage /\ "adding" \in Stage /\ "left" \in Stage
      /\ "CONFLICT" \in Status /\ "NOT_FOUND" \in Status
  BY DEF Stage, Status
<1>4. CASE FindSubject(c)
  <2>1. call[c].stage = "finding" /\ Quiet
    BY <1>4 DEF FindSubject
  <2>2. CASE SubjectExists(call[c].id) /\ Goto(c, "checking")
    <3>1. RequestOK(next("checking"))
      BY <1>1, <1>2, <1>3, <2>1, <2>2, OwnerAssumption
         DEF Replies, Findings, ListSound, Fresh, SubjectExists, EventExists
    <3> QED
      BY <1>3, <2>1, <2>2, <3>1, GotoStep
  <2>3. CASE Reply(c, "NOT_FOUND")
    BY <1>1, <1>3, <2>1, <2>3, ReplyStep DEF Replies
  <2> QED
    BY <1>4, <2>2, <2>3 DEF FindSubject
<1>5. CASE CheckSubscription(c)
  <2>1. call[c].stage = "checking" /\ Quiet
    BY <1>5 DEF CheckSubscription
  <2>2. CASE Subscriptions(call[c].body, call[c].id) = {} /\ Goto(c, "adding")
    <3>1. RequestOK(next("adding"))
      BY <1>1, <1>2, <1>3, <2>1, <2>2 DEF Replies, Findings, ListSound, Fresh
    <3> QED
      BY <1>3, <2>1, <2>2, <3>1, GotoStep
  <2>3. CASE Reply(c, "CONFLICT")
    BY <1>1, <1>3, <2>1, <2>3, ReplyStep DEF Replies
  <2> QED
    BY <1>5, <2>2, <2>3 DEF CheckSubscription
<1>6. CASE FindSubscription(c)
  <2>1. call[c].stage = "leaving" /\ Quiet
    BY <1>6 DEF FindSubscription
  <2>2. CASE Goto(c, "left")
    <3>1. RequestOK(next("left"))
      BY <1>1, <1>2, <1>3, <2>1, <2>2 DEF Replies, Findings, ListSound, Fresh
    <3> QED
      BY <1>3, <2>1, <2>2, <3>1, GotoStep
  <2>3. CASE Reply(c, "NOT_FOUND")
    BY <1>1, <1>3, <2>1, <2>3, ReplyStep DEF Replies
  <2> QED
    BY <1>6, <2>2, <2>3 DEF FindSubscription
<1> QED
  BY <1>4, <1>5, <1>6

LEMMA QuietNews ==
    ASSUME IInv, NEW c \in Call,
           FindNewsSubject(c) \/ FindNewsToUpdate(c) \/ FindNewsToDelete(c) \/ WriteNews(c)
    PROVE  IInv'
<1> DEFINE next(stage) == Moved(c, stage, call[c].memo)
<1> USE DEF At, RequestOK, Listing, EventStages, EventSeen, SubjectStages, SubjectSeen
<1>1. RequestOK(call[c]) /\ call[c].memo \in Memo
  BY DEF IInv, TypeOK, Request
<1>2. \A stage \in Stage :
        /\ next(stage).stage = stage /\ next(stage).memo = call[c].memo
        /\ next(stage).docs = call[c].docs /\ next(stage).op = call[c].op
        /\ next(stage).id = call[c].id /\ next(stage).body = call[c].body
        /\ next(stage).overtaken = call[c].overtaken
  BY <1>1, MovedFields
<1>3. /\ "publishing" \in Stage /\ "rewritten" \in Stage /\ "removed" \in Stage
      /\ "OK" \in Status /\ "NOT_FOUND" \in Status /\ "INTERNAL_SERVER_ERROR" \in Status
  BY DEF Stage, Status
<1>4. CASE FindNewsSubject(c)
  <2>1. call[c].stage = "drafting" /\ Quiet
    BY <1>4 DEF FindNewsSubject
  <2>2. CASE SubjectExists(call[c].id) /\ Goto(c, "publishing")
    <3>1. call[c].id \in Subject
      BY <2>2 DEF SubjectExists, EventExists, Subject
    <3>2. RequestOK(next("publishing"))
      BY <1>1, <1>2, <1>3, <2>1, <2>2, <3>1, OwnerAssumption
         DEF Replies, Findings, ListSound, Fresh, SubjectExists, EventExists
    <3> QED
      BY <1>3, <2>1, <2>2, <3>2, GotoStep
  <2>3. CASE Reply(c, "NOT_FOUND")
    BY <1>1, <1>3, <2>1, <2>3, ReplyStep DEF Replies
  <2> QED
    BY <1>4, <2>2, <2>3 DEF FindNewsSubject
<1>5. ASSUME NEW from \in {"rewriting", "removing"}, NEW to \in {"rewritten", "removed"},
             FindNewsFirst(c, from, to)
      PROVE  IInv'
  <2>1. call[c].stage = from /\ Quiet
    BY <1>5 DEF FindNewsFirst
  <2>2. CASE NewsExists(call[c].id) /\ Goto(c, to)
    <3>1. call[c].id \in News /\ news[call[c].id].row # "none"
      BY <1>1, <2>1, <2>2 DEF Findings, NewsExists
    <3>2. to \in Stage /\ to # "announcing" /\ from # "announcing"
      BY <1>3
    <3> DEFINE r == next(to)
    <3>3. /\ r.stage = to /\ r.memo = call[c].memo /\ r.docs = call[c].docs
          /\ r.op = call[c].op /\ r.id = call[c].id /\ r.body = call[c].body
      BY <1>2, <3>2
    <3>4. "OK" \in call[c].docs
      BY <1>1, <2>1 DEF Replies
    <3> HIDE DEF r
    <3>5. RequestOK(r)
      BY <3>1, <3>3, <3>4 DEF Replies, Findings, ListSound, Fresh
    <3> QED
      BY <2>1, <2>2, <3>2, <3>5, GotoStep DEF r
  <2>3. CASE Reply(c, "NOT_FOUND")
    BY <1>1, <1>3, <2>1, <2>3, ReplyStep DEF Replies
  <2> QED
    BY <1>5, <2>2, <2>3 DEF FindNewsFirst
<1>6. CASE FindNewsToUpdate(c) \/ FindNewsToDelete(c)
  BY <1>5, <1>6 DEF FindNewsToUpdate, FindNewsToDelete
<1>7. CASE WriteNews(c)
  <2>1. call[c].stage = "rewritten" /\ Quiet
    BY <1>7 DEF WriteNews
  <2>2. CASE Reply(c, "OK")
    BY <1>1, <1>3, <2>1, <2>2, ReplyStep DEF Replies
  <2>3. CASE ~NewsExists(call[c].id) /\ Reply(c, "INTERNAL_SERVER_ERROR")
    <3>1. Excused([call[c] EXCEPT !.answer = "INTERNAL_SERVER_ERROR"])
      BY <1>1, <1>3, <2>1, <2>3, Excuses DEF Findings
    <3> QED
      BY <1>3, <2>1, <2>3, <3>1, ReplyStep
  <2> QED
    BY <1>7, <2>2, <2>3 DEF WriteNews
<1> QED
  BY <1>4, <1>6, <1>7

\* Only these functions of the record of a request are in question when a list is made.
LEMMA QuietLists ==
    ASSUME IInv, NEW c \in Call,
           OpenList(c) \/ ListOneself(c) \/ CheckMembership(c) \/ ListOthers(c) \/ AnswerList(c)
    PROVE  IInv'
<1> DEFINE e == call[c].id
           v == call[c].body
           memo == call[c].memo
<1> USE DEF At, RequestOK, Listing, EventStages, EventSeen, SubjectStages, SubjectSeen
<1>1. RequestOK(call[c]) /\ memo \in Memo /\ call \in [Call -> RequestRecord]
  BY DEF IInv, TypeOK, Request, RequestRecord
<1>2. \A stage \in Stage, m \in Memo :
        /\ Moved(c, stage, m).stage = stage /\ Moved(c, stage, m).memo = m
        /\ Moved(c, stage, m).docs = call[c].docs /\ Moved(c, stage, m).op = call[c].op
        /\ Moved(c, stage, m).id = e /\ Moved(c, stage, m).body = v
        /\ Moved(c, stage, m).overtaken = call[c].overtaken
  BY <1>1, MovedFields
<1>3. /\ "own" \in Stage /\ "member" \in Stage /\ "others" \in Stage /\ "listed" \in Stage
      /\ "NOT_FOUND" \in Status /\ "OK" \in Status
      /\ Lists \subseteq Memo
  BY DEF Stage, Status, Memo
<1>4. CASE OpenList(c)
  <2>1. call[c].stage = "opening" /\ Quiet
    BY <1>4 DEF OpenList
  <2>2. e \in Event /\ v \in User \cup {None} /\ event[e].attendeeVisibility \in Visibility
    BY <1>1, <2>1 DEF Findings, IInv, TypeOK, EventRow
  <2>3. CASE /\ EventExists(e)
             /\ call' = [call EXCEPT ![c].stage = "own",
                  ![c].memo = [visibility |-> event[e].attendeeVisibility, list |-> {}]]
    <3> DEFINE m == [visibility |-> event[e].attendeeVisibility, list |-> {}]
    <3>1. m \in Lists /\ m.list = {} /\ m.visibility = event[e].attendeeVisibility
      BY <2>2 DEF Lists
    <3>2. call' = [call EXCEPT ![c] = Moved(c, "own", m)]
      BY <2>3 DEF Moved
    <3> HIDE DEF m
    <3>3. RequestOK(Moved(c, "own", m))
      BY <1>1, <1>2, <1>3, <2>1, <2>2, <2>3, <3>1
         DEF Replies, Findings, ListSound, Fresh, EventExists
    <3> QED
      BY <1>3, <2>1, <3>1, <3>2, <3>3, MoveStep
  <2>4. CASE Reply(c, "NOT_FOUND")
    <3>1. <<call[c].op, "NOT_FOUND">> \in UndocumentedAnswers
      BY <1>1, <2>1 DEF Replies, UndocumentedAnswers
    <3>2. Excused([call[c] EXCEPT !.answer = "NOT_FOUND"])
      BY <1>3, <3>1, Excuses
    <3> QED
      BY <1>3, <2>1, <2>4, <3>2, ReplyStep
  <2> QED
    BY <1>4, <2>3, <2>4 DEF OpenList
<1>5. CASE ListOneself(c)
  <2> DEFINE list == IF v # None /\ Joined(e, v) THEN {v} ELSE {}
             m == [memo EXCEPT !.list = list]
             stage == After(memo.visibility, v)
  <2>1. call[c].stage = "own" /\ Quiet
    BY <1>5 DEF ListOneself
  <2>2. memo \in Lists /\ v \in User \cup {None} /\ e \in Event
    BY <1>1, <2>1 DEF Findings
  <2>3. list \subseteq {v} /\ list \subseteq User
    BY <2>2
  <2>4. m \in Lists /\ m.list = list /\ m.visibility = memo.visibility
    BY <2>2, <2>3 DEF Lists
  <2>5. /\ stage \in {"others", "member", "listed"}
        /\ stage = "others" => memo.visibility = "EVERYONE"
        /\ stage = "member" => memo.visibility = "ATTENDEES_ONLY" /\ v # None
    BY DEF After
  <2>6. call' = [call EXCEPT ![c].memo.list = list, ![c].stage = stage]
    BY <1>5 DEF ListOneself
  <2>7. call' = [call EXCEPT ![c] = Moved(c, stage, m)]
    BY <1>1, <2>2, <2>6 DEF Moved, RequestRecord, Request
  <2> HIDE DEF list, m, stage
  <2>8. RequestOK(Moved(c, stage, m))
    <3>1. Replies(Moved(c, stage, m))
      BY <1>1, <1>2, <1>3, <2>1, <2>4, <2>5 DEF Replies
    <3>2. Findings(Moved(c, stage, m))
      BY <1>1, <1>2, <1>3, <2>1, <2>2, <2>4, <2>5 DEF Findings
    <3>3. ListSound(Moved(c, stage, m))
      BY <1>1, <1>2, <1>3, <2>1, <2>3, <2>4, <2>5 DEF ListSound, Admitted
    <3>4. Fresh(Moved(c, stage, m))
      BY <1>1, <1>2, <1>3, <2>1, <2>4, <2>5 DEF Fresh
    <3> QED
      BY <3>1, <3>2, <3>3, <3>4
  <2> QED
    BY <1>3, <2>1, <2>4, <2>5, <2>7, <2>8, MoveStep
<1>6. CASE CheckMembership(c)
  <2>1. call[c].stage = "member" /\ Quiet
    BY <1>6 DEF CheckMembership
  <2>2. CASE Joined(e, v) /\ Goto(c, "others")
    <3>1. RequestOK(Moved(c, "others", memo))
      BY <1>1, <1>2, <1>3, <2>1, <2>2 DEF Replies, Findings, ListSound, Fresh, Admitted
    <3> QED
      BY <1>3, <2>1, <2>2, <3>1, GotoStep
  <2>3. CASE Goto(c, "listed")
    <3>1. RequestOK(Moved(c, "listed", memo))
      BY <1>1, <1>2, <1>3, <2>1, <2>3 DEF Replies, Findings, ListSound, Fresh
    <3> QED
      BY <1>3, <2>1, <2>3, <3>1, GotoStep
  <2> QED
    BY <1>6, <2>2, <2>3 DEF CheckMembership
<1>7. CASE ListOthers(c)
  <2> DEFINE list == memo.list \cup (Visible(e) \ {v})
             m == [memo EXCEPT !.list = list]
  <2>1. call[c].stage = "others" /\ Quiet
    BY <1>7 DEF ListOthers
  <2>2. memo \in Lists /\ v \in User \cup {None} /\ e \in Event
    BY <1>1, <2>1 DEF Findings
  <2>3. list \subseteq User /\ \A u \in list \ {v} : attendee[e][u] = "visible"
    BY <1>1, <2>1, <2>2 DEF Visible, Lists, ListSound
  <2>4. m \in Lists /\ m.list = list /\ m.visibility = memo.visibility
    BY <2>2, <2>3 DEF Lists
  <2>5. call' = [call EXCEPT ![c] = Moved(c, "listed", m)]
    BY <1>1, <1>7, <2>2 DEF Moved, RequestRecord, Request, ListOthers
  <2> HIDE DEF list, m
  <2>6. Admitted(call[c]) => Admitted(Moved(c, "listed", m))
    BY <1>2, <1>3, <2>4 DEF Admitted
  <2>7. RequestOK(Moved(c, "listed", m))
    BY <1>1, <1>2, <1>3, <2>1, <2>2, <2>3, <2>4, <2>6 DEF Replies, Findings, ListSound, Fresh
  <2> QED
    BY <1>3, <2>1, <2>4, <2>5, <2>7, MoveStep
<1>8. CASE AnswerList(c)
  <2>1. call[c].stage = "listed" /\ Quiet /\ Reply(c, "OK")
    BY <1>8 DEF AnswerList
  <2> QED
    BY <1>1, <1>3, <2>1, ReplyStep DEF Replies
<1> QED
  BY <1>4, <1>5, <1>6, <1>7, <1>8

LEMMA ReadEventToUpdateStep ==
    ASSUME IInv, NEW c \in Call, ReadEventToUpdate(c)
    PROVE  IInv'
<1> DEFINE e == call[c].id
           f == call[c].body.field
           memo == IF f \in Field THEN [old |-> event[e].value[f]] ELSE None
<1> USE DEF RequestOK, Listing, EventStages, EventSeen, SubjectStages, SubjectSeen
<1>1. /\ call[c].stage = "editing" /\ RequestOK(call[c]) /\ Quiet
      /\ call \in [Call -> RequestRecord]
  BY DEF ReadEventToUpdate, At, IInv, TypeOK, RequestRecord
<1>2. e \in Event /\ event[e] \in EventRow
  BY <1>1 DEF Findings, IInv, TypeOK
<1>3. /\ f \in Field => memo \in [old : Value] /\ memo.old = event[e].value[f]
      /\ memo \in Memo
  BY <1>2 DEF EventRow, Memo
<1>4. "writing" \in Stage /\ "NOT_FOUND" \in Status
  BY DEF Stage, Status
<1>5. CASE EventExists(e) /\ call' = [call EXCEPT ![c].stage = "writing", ![c].memo = memo]
  <2>1. call' = [call EXCEPT ![c] = Moved(c, "writing", memo)]
    BY <1>5 DEF Moved
  <2> DEFINE r == Moved(c, "writing", memo)
  <2>2. /\ r.stage = "writing" /\ r.memo = memo
        /\ r.docs = call[c].docs /\ r.op = call[c].op /\ r.id = e /\ r.body = call[c].body
    BY <1>3, <1>4, MovedFields
  <2> HIDE DEF r, memo
  <2>3. RequestOK(r)
    <3>1. Replies(r) /\ ListSound(r)
      BY <1>1, <2>2 DEF Replies, ListSound
    <3>2. Findings(r)
      BY <1>1, <1>2, <1>3, <1>5, <2>2 DEF Findings, EventExists
    <3>3. Fresh(r)
      BY <1>3, <2>2 DEF Fresh
    <3> QED
      BY <3>1, <3>2, <3>3
  <2> QED
    BY <1>1, <1>3, <1>4, <2>1, <2>3, MoveStep DEF r
<1>6. CASE Reply(c, "NOT_FOUND")
  BY <1>1, <1>4, <1>6, ReplyStep DEF Replies
<1> QED
  BY <1>5, <1>6 DEF ReadEventToUpdate

-----------------------------------------------------------------------------
(* Steps of the services that write                                        *)

\* The requests after a write that tells the requests in S of it.
LEMMA CallsOvertaken ==
    ASSUME IInv, NEW c \in Call, NEW S, "OK" \in call[c].docs,
           call' = [Overtaking(c, S) EXCEPT ![c] = Ended(@, "OK")]
    PROVE  /\ call' \in [Call -> RequestRecord]
           /\ call'[c] = Idle /\ call'[c].stage = "idle" /\ RequestOK(call[c])'
           /\ OthersStand(c)
           /\ \A k \in S \cap Call : k # c => call'[k].overtaken
<1>1. call \in [Call -> RequestRecord]
  BY DEF IInv, TypeOK, RequestRecord
<1>2. Overtaking(c, S)[c] = call[c]
  BY DEF Overtaking
<1>3. call'[c] = Idle
  BY <1>2 DEF Overtaking, Ended
<1>4. \A k \in Call : k # c => call'[k] = IF k \in S THEN [call[k] EXCEPT !.overtaken = TRUE]
                                          ELSE call[k]
  BY DEF Overtaking
<1>5. \A k \in Call : [call[k] EXCEPT !.overtaken = TRUE] \in RequestRecord
  BY <1>1 DEF RequestRecord, Request
<1>6. call' \in [Call -> RequestRecord]
  <2>1. \A k \in Call : call'[k] \in RequestRecord
    BY <1>1, <1>3, <1>4, <1>5, IdleType
  <2>2. call' = [k \in Call |-> call'[k]]
    BY DEF Overtaking
  <2> QED
    BY <2>1, <2>2
<1>7. ASSUME NEW k \in S \cap Call, k # c PROVE call'[k].overtaken
  <2>1. call'[k] = [call[k] EXCEPT !.overtaken = TRUE] /\ call[k] \in RequestRecord
    BY <1>1, <1>4, <1>7
  <2> QED
    BY <2>1 DEF RequestRecord, Request
<1>8. Idle.stage = "idle"
  BY DEF Idle
<1> QED
  BY <1>3, <1>4, <1>6, <1>7, <1>8, IdleOK DEF OthersStand

\* The requests after a write that tells nobody.
LEMMA CallsReplied ==
    ASSUME IInv, NEW c \in Call, NEW code \in Status, Reply(c, code)
    PROVE  /\ call' \in [Call -> RequestRecord]
           /\ call'[c] = Ended(call[c], code) /\ call'[c].stage \in {"idle", "odd"}
           /\ OthersStand(c) /\ \A k \in Call \ {c} : call'[k] = call[k]
           /\ code \in call[c].docs => RequestOK(call[c])'
<1>1. call \in [Call -> RequestRecord]
  BY DEF IInv, TypeOK, RequestRecord
<1>2. /\ call'[c] = Ended(call[c], code)
      /\ \A k \in Call \ {c} : call'[k] = call[k]
  BY <1>1 DEF Reply
<1>3. Ended(call[c], code) \in RequestRecord /\ Ended(call[c], code).stage \in {"idle", "odd"}
  BY <1>1, EndedRequest
<1>4. code \in call[c].docs => call'[c] = Idle
  BY <1>1, <1>2, EndedRequest
<1> QED
  BY <1>1, <1>2, <1>3, <1>4, IdleOK DEF OthersStand, Reply

\* An emission sets off a sound chain.
LEMMA NotifyingOK ==
    ASSUME TypeOK, NEW x \in Subject, NEW about \in Event \cup {None},
           about \in Event => event[about].row # "none"
    PROVE  Notifying(x, about) \in Chain /\ ChainOK(Notifying(x, about))
<1>1. FindAllUserIds(x) \subseteq User
  BY DEF FindAllUserIds
<1>2. Silent \in Chain
  BY DEF Silent, Chain
<1> DEFINE k == Notifying(x, about)
<1>3. /\ k \in Chain /\ k.subject = x /\ k.about = about /\ k.notify = "finding"
      /\ k.attend = Silent.attend /\ k.subscribe = Silent.subscribe /\ k.told = Silent.told
      /\ k.steady = FindAllUserIds(x) /\ k.ever = FindAllUserIds(x)
  BY <1>1, <1>2 DEF Notifying, Chain
<1>4. Silent.attend = "idle" /\ Silent.subscribe = "idle" /\ Silent.told = {}
  BY DEF Silent
<1> HIDE DEF k
<1>5. ChainOK(k)
  BY <1>3, <1>4 DEF ChainOK
<1> QED
  BY <1>3, <1>5 DEF k

LEMMA EmitOK ==
    ASSUME IInv, NEW chain \in Chain, ChainOK(chain), Emit(chain)
    PROVE  /\ listener' \in [Listener -> Chain]
           /\ \A l \in Listener : ChainOK(listener'[l])
<1>1. PICK l \in Listener : listener' = [listener EXCEPT ![l] = chain]
  BY DEF Emit
<1> QED
  BY <1>1 DEF IInv, TypeOK

LEMMA StoreEventStep ==
    ASSUME IInv, NEW c \in Call, StoreEvent(c)
    PROVE  IInv'
<1> DEFINE row == call[c].body
<1>1. /\ call[c].stage = "creating" /\ RequestOK(call[c])
      /\ UNCHANGED <<attendee, subscription, news, ordered, listener, presented, blurred, lost>>
  BY DEF StoreEvent, At, IInv, rows
<1>2. row \in EventRow /\ row.row = "stored" /\ "OK" \in call[c].docs
  BY <1>1 DEF RequestOK, Findings, Replies
<1>3. PICK e \in Event :
        /\ event[e].row = "none"
        /\ event' = [event EXCEPT ![e] = row]
        /\ announced' = [announced EXCEPT ![e] = row.value]
        /\ call' = [call EXCEPT ![c].id = e, ![c].stage = "presenting"]
  BY DEF StoreEvent
<1>4. call \in [Call -> RequestRecord] /\ event \in [Event -> EventRow]
      /\ announced \in [Event -> [Field -> Value]]
  BY DEF IInv, TypeOK, RequestRecord
<1> DEFINE r == [call[c] EXCEPT !.id = e, !.stage = "presenting"]
<1>5. /\ r \in RequestRecord /\ r.stage = "presenting" /\ r.id = e /\ r.body = row
      /\ r.docs = call[c].docs
  <2>1. call[c] \in RequestRecord /\ e \in Subject /\ "presenting" \in Stage
    BY <1>4 DEF Stage, Subject
  <2> QED
    BY <2>1 DEF RequestRecord, Request
<1>6. call' = [call EXCEPT ![c] = r]
  BY <1>3
<1>7. /\ call' \in [Call -> RequestRecord] /\ call'[c] = r
      /\ \A k \in Call \ {c} : call'[k] = call[k]
  BY <1>4, <1>5, <1>6
<1> HIDE DEF r
<1>8. /\ event'[e] = row /\ event' \in [Event -> EventRow]
      /\ \A d \in Event \ {e} : event'[d] = event[d]
  BY <1>2, <1>3, <1>4
<1>9. announced' \in [Event -> [Field -> Value]] /\ announced'[e] = row.value
      /\ \A d \in Event \ {e} : announced'[d] = announced[d]
  BY <1>2, <1>3, <1>4 DEF EventRow
<1> HIDE DEF row
<1>10. \A x : SubjectExists(x) => SubjectExists(x)'
  BY <1>2, <1>3, <1>8 DEF SubjectExists, EventExists
<1>11. TypeOK'
  <2>1. \A d \in Event, u \in User : Joined(d, u)' => EventExists(d)' /\ <<d, u>> \in ordered'
    BY <1>1, <1>2, <1>3, <1>8 DEF IInv, TypeOK, Joined, EventExists
  <2>2. \A s, t \in Subscription : subscription'[s].row = "stored" =>
          /\ SubjectExists(subscription[s].subject)'
          /\ subscription'[t] = subscription'[s] => s = t
    <3>1. \A s \in Subscription : subscription[s].row = "stored" =>
            SubjectExists(subscription[s].subject)
      BY DEF IInv, TypeOK
    <3>2. \A s \in Subscription :
            SubjectExists(subscription[s].subject) => SubjectExists(subscription[s].subject)'
      BY <1>1, <1>10 DEF SubjectExists, EventExists
    <3> QED
      BY <1>1, <3>1, <3>2 DEF IInv, TypeOK
  <2> QED
    BY <1>1, <1>7, <1>8, <1>9, <2>1, <2>2 DEF IInv, TypeOK, RequestRecord
<1>12. RowsKept
  BY <1>1, <1>2, <1>3, <1>8 DEF RowsKept
<1>13. RequestOK(call[c])'
  BY <1>2, <1>5, <1>7, <1>8
     DEF RequestOK, Replies, Findings, ListSound, Fresh, Listing, EventStages, EventSeen,
         SubjectStages, SubjectSeen
<1>14. ASSUME NEW k \in Call \ {c} PROVE Undisturbed(k)
  <2>1. call[k].stage \in EventSeen => call[k].id \in Event /\ call[k].id # e
    BY <1>3 DEF IInv, RequestOK, Findings, EventSeen, EventStages
  <2> QED
    BY <1>1, <1>7, <1>8, <2>1 DEF Undisturbed, EventSeen
<1>15. (\A k \in Call : RequestOK(call[k]))'
  BY <1>7, <1>12, <1>13, <1>14, RequestsKept DEF OthersStand
<1>16. (\A l \in Listener : ChainOK(listener[l]))'
  BY <1>1, <1>11, <1>12, ChainsKept DEF IInv
<1>17. References' /\ RefusedNewsUnlisted'
  <2>1. \A n \in News : SubjectExists(news[n].subject) => SubjectExists(news[n].subject)'
    BY <1>1, <1>10 DEF SubjectExists, EventExists
  <2> QED
    BY <1>1, <1>2, <1>8, <2>1 DEF IInv, References, RefusedNewsUnlisted, EventExists
<1>18. Announcements'
  <2> SUFFICES ASSUME NEW d \in Event, NEW f \in Field PROVE AnnouncementsOf(d, f)'
    BY DEF Announcements
  <2>1. CASE d = e
    <3>1. \A k \in Call : ~AnnouncingOf(k, e, f)'
      BY <1>3, <1>5, <1>7 DEF AnnouncingOf, IInv, RequestOK, Findings, EventSeen, EventStages
    <3>2. Known(d, f)'
      BY <1>8, <1>9, <2>1 DEF Known
    <3> QED
      BY <2>1, <3>1, <3>2 DEF AnnouncementsOf, AnnouncingOf
  <2>2. CASE d # e
    <3>1. EventExists(d)' => EventExists(d)
      BY <1>8, <2>2 DEF EventExists
    <3> QED
      BY <1>1, <1>5, <1>7, <1>8, <1>9, <2>2, <3>1, AnnouncementsKeptOf DEF OthersStand
  <2> QED
    BY <2>1, <2>2
<1> QED
  BY <1>11, <1>15, <1>16, <1>17, <1>18 DEF IInv

\* Steps that leave the tables alone: one request, the listeners and the histories of emissions.
LEMMA TablesStand ==
    ASSUME IInv, NEW c, call' \in [Call -> RequestRecord], c \in Call => RequestOK(call[c])',
           \A k \in Call \ {c} : call'[k] = call[k],
           UNCHANGED <<event, attendee, subscription, news, ordered>>, lost' \subseteq ordered,
           listener' \in [Listener -> Chain], \A l \in Listener : ChainOK(listener'[l]),
           presented' \subseteq Event, announced' \in [Event -> [Field -> Value]],
           blurred' \in [Event -> SUBSET (Field \cup {"created"})], Announcements'
    PROVE  IInv'
<1>1. TypeOK'
  BY DEF IInv, TypeOK, RequestRecord, EventExists, SubjectExists, Joined
<1>2. RowsKept
  BY DEF RowsKept
<1>3. OthersStand(c) /\ \A k \in Call \ {c} : Undisturbed(k)
  BY DEF OthersStand, Undisturbed
<1>4. (\A k \in Call : RequestOK(call[k]))'
  BY <1>2, <1>3, RequestsKept
<1>5. (\A l \in Listener : ChainOK(listener[l]))'
  BY <1>1, <1>2, ChainsKept
<1> QED
  BY <1>1, <1>4, <1>5 DEF IInv, References, RefusedNewsUnlisted, EventExists, SubjectExists

LEMMA PresentEventStep ==
    ASSUME IInv, NEW c \in Call, PresentEvent(c)
    PROVE  IInv'
<1> DEFINE e == call[c].id
<1>1. /\ call[c].stage = "presenting" /\ Reply(c, "OK") /\ RequestOK(call[c])
      /\ UNCHANGED <<event, attendee, subscription, news, ordered, announced, blurred, lost>>
      /\ \/ UNCHANGED <<listener, presented>>
         \/ Emit(Notifying(Company, e)) /\ presented' = presented \cup {e}
  BY DEF PresentEvent, At, IInv, rows
<1>2. e \in Event /\ event[e].row # "none" /\ "OK" \in call[c].docs /\ "OK" \in Status
  BY <1>1 DEF RequestOK, Replies, Findings, EventStages, EventSeen, Status
<1>3. /\ call' \in [Call -> RequestRecord] /\ RequestOK(call[c])'
      /\ call'[c].stage # "announcing" /\ OthersStand(c)
      /\ \A k \in Call \ {c} : call'[k] = call[k]
  BY <1>1, <1>2, CallsReplied
<1>4. Notifying(Company, e) \in Chain /\ ChainOK(Notifying(Company, e))
  <2>1. Company \in Subject
    BY DEF Subject
  <2> QED
    BY <1>2, <2>1, NotifyingOK DEF IInv
<1>5. listener' \in [Listener -> Chain] /\ \A l \in Listener : ChainOK(listener'[l])
  BY <1>1, <1>4, EmitOK DEF IInv, TypeOK
<1>6. presented' \subseteq Event
  BY <1>1, <1>2 DEF IInv, TypeOK
<1>7. Announcements'
  BY <1>1, <1>3, AnnouncementsKept
<1>8. /\ announced' \in [Event -> [Field -> Value]] /\ lost' \subseteq ordered
      /\ blurred' \in [Event -> SUBSET (Field \cup {"created"})]
  BY <1>1 DEF IInv, TypeOK
<1> QED
  BY <1>1, <1>3, <1>5, <1>6, <1>7, <1>8, TablesStand

LEMMA AnnounceChangeStep ==
    ASSUME IInv, NEW c \in Call, AnnounceChange(c)
    PROVE  IInv'
<1> DEFINE e == call[c].id
           f == call[c].body.field
           old == call[c].memo.old
           new == call[c].body.value
<1>1. /\ call[c].stage = "announcing" /\ Reply(c, "OK") /\ RequestOK(call[c])
      /\ UNCHANGED <<event, attendee, subscription, news, ordered, presented, lost>>
  BY DEF AnnounceChange, At, IInv, rows
<1>2. /\ e \in Event /\ event[e].row # "none" /\ f \in Field /\ f # "attendeeVisibility"
      /\ new \in Value /\ "OK" \in call[c].docs /\ "OK" \in Status
  BY <1>1, FieldAssumption DEF RequestOK, Replies, Findings, EventStages, EventSeen, Status
<1>3. /\ call' \in [Call -> RequestRecord] /\ RequestOK(call[c])'
      /\ call'[c].stage # "announcing" /\ OthersStand(c)
      /\ \A k \in Call \ {c} : call'[k] = call[k]
  BY <1>1, <1>2, CallsReplied
<1> DEFINE telling == Announces(f, old, new)
<1>4. /\ IF telling THEN Emit(Notifying(e, e)) /\ announced' = [announced EXCEPT ![e][f] = new]
         ELSE UNCHANGED <<listener, announced>>
      /\ blurred' = [blurred EXCEPT ![e] = IF call[c].overtaken THEN @ \cup {f}
                                           ELSE IF telling THEN @ \ {f} ELSE @]
  BY DEF AnnounceChange
<1>5. Notifying(e, e) \in Chain /\ ChainOK(Notifying(e, e))
  <2>1. e \in Subject
    BY <1>2 DEF Subject
  <2> QED
    BY <1>2, <2>1, NotifyingOK DEF IInv
<1>6. listener' \in [Listener -> Chain] /\ \A l \in Listener : ChainOK(listener'[l])
  BY <1>4, <1>5, EmitOK DEF IInv, TypeOK
<1>7. /\ announced \in [Event -> [Field -> Value]]
      /\ blurred \in [Event -> SUBSET (Field \cup {"created"})]
  BY DEF IInv, TypeOK
<1>8. /\ announced' \in [Event -> [Field -> Value]]
      /\ announced'[e][f] = IF telling THEN new ELSE announced[e][f]
      /\ \A d \in Event, g \in Field : d # e \/ g # f => announced'[d][g] = announced[d][g]
  <2> HIDE DEF telling
  <2>1. CASE telling
    <3> HIDE DEF e, f, new
    <3>1. announced' = [announced EXCEPT ![e][f] = new]
      BY <1>4, <2>1
    <3> QED
      BY <1>2, <1>7, <2>1, <3>1
  <2>2. CASE ~telling
    BY <1>4, <1>7, <2>2
  <2> QED
    BY <2>1, <2>2
<1>9. /\ blurred' \in [Event -> SUBSET (Field \cup {"created"})]
      /\ call[c].overtaken => f \in blurred'[e]
      /\ ~call[c].overtaken /\ ~telling => blurred'[e] = blurred[e]
      /\ \A d \in Event, g \in Field : d # e \/ g # f => (g \in blurred'[d] <=> g \in blurred[d])
  BY <1>2, <1>4, <1>7
<1>10. \A k \in Call, d \in Event, g \in Field :
         k # c => (AnnouncingOf(k, d, g)' <=> AnnouncingOf(k, d, g))
  BY <1>3 DEF AnnouncingOf
<1>11. \A d \in Event, g \in Field : ~AnnouncingOf(c, d, g)'
  BY <1>3 DEF AnnouncingOf
<1>12. Announcements'
  <2> SUFFICES ASSUME NEW d \in Event, NEW g \in Field PROVE AnnouncementsOf(d, g)'
    BY DEF Announcements
  <2>1. AnnouncementsOf(d, g)
    BY DEF IInv, Announcements
  <2>2. /\ EventExists(d)' <=> EventExists(d)
        /\ event'[d].value[g] = event[d].value[g]
    BY <1>1 DEF EventExists
  <2>3. \A k, l \in Call : AnnouncingOf(k, d, g)' /\ AnnouncingOf(l, d, g)' /\ k # l =>
          call'[k].overtaken \/ call'[l].overtaken
    BY <1>3, <1>10, <1>11, <2>1 DEF AnnouncementsOf
  <2>4. CASE d # e \/ g # f
    <3>1. Known(d, g)' <=> Known(d, g)
      BY <1>8, <1>9, <2>2, <2>4 DEF Known
    <3>2. ~AnnouncingOf(c, d, g)
      BY <2>4 DEF AnnouncingOf
    <3> HIDE DEF Known
    <3>3. \A k \in Call : AnnouncingOf(k, d, g)' <=> AnnouncingOf(k, d, g)
      BY <1>10, <1>11, <3>2
    <3>4. \A k \in Call : AnnouncingOf(k, d, g) => call'[k] = call[k]
      BY <1>3, <3>2
    <3> QED
      BY <2>1, <2>2, <2>3, <3>1, <3>3, <3>4 DEF AnnouncementsOf
  <2>5. CASE d = e /\ g = f
    <3>1. AnnouncingOf(c, d, g)
      BY <1>1, <2>5 DEF AnnouncingOf
    <3> SUFFICES ASSUME EventExists(d)
                 PROVE  /\ Known(d, g)' \/ \E k \in Call : AnnouncingOf(k, d, g)'
                        /\ \A k \in Call :
                             /\ AnnouncingOf(k, d, g)' /\ ~call'[k].overtaken
                             /\ call'[k].memo.old = call'[k].body.value
                             => Known(d, g)' \/ \E l \in Call : AnnouncingOf(l, d, g)' /\ l # k
      BY <2>2, <2>3 DEF AnnouncementsOf
    <3>2. CASE call[c].overtaken
      BY <1>9, <2>5, <3>2 DEF Known
    <3>3. CASE ~call[c].overtaken
      <4>1. event[e].value[f] = new
        BY <1>1, <2>5, <3>3 DEF RequestOK, Fresh, EventExists
      <4>2. CASE telling
        <5>1. announced'[d][g] = new
          BY <1>8, <2>5, <4>2
        <5>2. event'[d].value[g] = new
          BY <2>2, <2>5, <4>1
        <5> QED
          BY <5>1, <5>2 DEF Known
      <4>3. CASE ~telling /\ f = "ticketsAvailableFrom" /\ new = "unset"
        BY <2>2, <2>5, <4>1, <4>3 DEF Known
      <4>4. CASE ~telling /\ old = new
        <5>1. Known(d, g) \/ \E l \in Call : AnnouncingOf(l, d, g) /\ l # c
          BY <2>1, <2>5, <3>1, <3>3, <4>4 DEF AnnouncementsOf
        <5>2. Known(d, g) => Known(d, g)'
          BY <1>8, <1>9, <2>2, <2>5, <3>3, <4>4 DEF Known
        <5>3. \A k \in Call : AnnouncingOf(k, d, g)' => call'[k].overtaken
          BY <1>3, <1>10, <1>11, <2>1, <3>1, <3>3 DEF AnnouncementsOf
        <5> QED
          BY <1>10, <5>1, <5>2, <5>3
      <4> QED
        BY <4>2, <4>3, <4>4 DEF Announces
    <3> QED
      BY <3>2, <3>3
  <2> QED
    BY <2>4, <2>5
<1> QED
  BY <1>1, <1>3, <1>6, <1>8, <1>9, <1>12, TablesStand DEF IInv, TypeOK

LEMMA WriteChangeStep ==
    ASSUME IInv, NEW c \in Call, WriteChange(c)
    PROVE  IInv'
<1> DEFINE e == call[c].id
           f == call[c].body.field
           new == call[c].body.value
<1>1. /\ call[c].stage = "writing" /\ RequestOK(call[c])
      /\ UNCHANGED <<attendee, subscription, news, ordered, listener, announced, presented,
                     blurred, lost>>
      /\ call \in [Call -> RequestRecord] /\ event \in [Event -> EventRow]
  BY DEF WriteChange, At, IInv, TypeOK, rows, history, RequestRecord
<1>2. /\ e \in Event /\ event[e].row # "none" /\ call[c].body \in Changes
      /\ new \in IF f = "attendeeVisibility" THEN Visibility ELSE Value
      /\ f \in Field \cup {"attendeeVisibility"} /\ "attendeeVisibility" \notin Field
      /\ "OK" \in call[c].docs /\ "OK" \in Status /\ "INTERNAL_SERVER_ERROR" \in Status
  BY <1>1, FieldAssumption
     DEF RequestOK, Replies, Findings, EventStages, EventSeen, Status, Changes
<1>3. CASE ~EventExists(e) /\ Reply(c, "INTERNAL_SERVER_ERROR") /\ UNCHANGED event
  <2>1. Excused([call[c] EXCEPT !.answer = "INTERNAL_SERVER_ERROR"])
    BY <1>2, <1>3, Excuses
  <2> QED
    BY <1>1, <1>2, <1>3, <2>1, ReplyStep DEF Quiet, rows, history
\* What both kinds of change have in common.
<1>4. ASSUME EventExists(e), NEW row \in EventRow, row.row = "stored",
             event' = [event EXCEPT ![e] = row], call' \in [Call -> RequestRecord],
             OthersStand(c), RequestOK(call[c])', \A k \in Call \ {c} : Undisturbed(k),
             Announcements'
      PROVE  IInv'
  <2>1. /\ event' \in [Event -> EventRow] /\ event'[e] = row
        /\ \A d \in Event \ {e} : event'[d] = event[d]
    BY <1>1, <1>2, <1>4
  <2>2. \A x : EventExists(x)' <=> EventExists(x)
    BY <1>4, <2>1 DEF EventExists
  <2>3. \A x : SubjectExists(x)' <=> SubjectExists(x)
    BY <2>2 DEF SubjectExists
  <2>4. TypeOK'
    <3>1. \A d \in Event, u \in User : Joined(d, u)' => EventExists(d)' /\ <<d, u>> \in ordered'
      BY <1>1, <2>2 DEF IInv, TypeOK, Joined
    <3>2. \A s, t \in Subscription : subscription'[s].row = "stored" =>
            /\ SubjectExists(subscription[s].subject)'
            /\ subscription'[t] = subscription'[s] => s = t
      BY <1>1, <2>3 DEF IInv, TypeOK, SubjectExists, EventExists
    <3> QED
      BY <1>1, <1>4, <2>1, <3>1, <3>2 DEF IInv, TypeOK, RequestRecord
  <2>5. RowsKept
    BY <1>1, <1>4, <2>1 DEF RowsKept, EventExists
  <2>6. (\A k \in Call : RequestOK(call[k]))'
    BY <1>4, <2>5, RequestsKept
  <2>7. (\A l \in Listener : ChainOK(listener[l]))'
    BY <1>1, <2>4, <2>5, ChainsKept DEF IInv
  <2>8. References' /\ RefusedNewsUnlisted'
    BY <1>1, <2>2, <2>3 DEF IInv, References, RefusedNewsUnlisted, EventExists, SubjectExists
  <2> QED
    BY <1>4, <2>4, <2>6, <2>7, <2>8 DEF IInv
<1>5. CASE /\ EventExists(e) /\ f = "attendeeVisibility"
           /\ event' = [event EXCEPT ![e].attendeeVisibility = new]
           /\ call' = [Overtaking(c, Affected(e, f)) EXCEPT ![c] = Ended(@, "OK")]
  <2> DEFINE row == [event[e] EXCEPT !.attendeeVisibility = new]
  <2>1. row \in EventRow /\ row.row = "stored" /\ row.value = event[e].value
    BY <1>1, <1>2, <1>5 DEF EventRow, EventExists
  <2>2. event' = [event EXCEPT ![e] = row]
    BY <1>5
  <2>3. /\ event'[e] = row /\ \A d \in Event \ {e} : event'[d] = event[d]
    BY <1>1, <1>2, <2>2
  <2> HIDE DEF row
  <2>4. /\ call' \in [Call -> RequestRecord] /\ call'[c].stage = "idle" /\ RequestOK(call[c])'
        /\ OthersStand(c)
        /\ \A k \in Affected(e, f) \cap Call : k # c => call'[k].overtaken
    BY <1>2, <1>5, CallsOvertaken
  <2>5. ASSUME NEW k \in Call \ {c} PROVE Undisturbed(k)
    <3>1. call[k].stage \in EventSeen => call[k].id \in Event
      BY DEF IInv, RequestOK, Findings, EventSeen, EventStages
    <3>2. call[k].stage \in Listing /\ call[k].id = e => call'[k].overtaken
      BY <1>5, <2>4 DEF Affected, Listing
    <3> QED
      BY <1>1, <1>5, <2>1, <2>3, <3>1, <3>2 DEF Undisturbed, EventSeen, EventExists
  <2>6. Announcements'
    <3>1. \A d \in Event : event'[d].row = "stored" =>
            event[d].row = "stored" /\ event'[d].value = event[d].value
      BY <1>5, <2>1, <2>3 DEF EventExists
    <3> QED
      BY <1>1, <2>4, <3>1, AnnouncementsKept
  <2> QED
    BY <1>4, <1>5, <2>1, <2>2, <2>4, <2>5, <2>6
<1>6. CASE /\ EventExists(e) /\ f # "attendeeVisibility"
           /\ event' = [event EXCEPT ![e].value[f] = new]
           /\ call' = [Overtaking(c, Affected(e, f)) EXCEPT ![c].stage = "announcing"]
  <2> DEFINE row == [event[e] EXCEPT !.value[f] = new]
             r == [call[c] EXCEPT !.stage = "announcing"]
  <2>1. f \in Field /\ new \in Value
    BY <1>2, <1>6
  <2>2. /\ row \in EventRow /\ row.row = "stored" /\ row.value[f] = new
        /\ row.attendeeVisibility = event[e].attendeeVisibility
        /\ \A g \in Field \ {f} : row.value[g] = event[e].value[g]
    BY <1>1, <1>2, <1>6, <2>1 DEF EventRow, EventExists
  <2>3. event' = [event EXCEPT ![e] = row]
    BY <1>6
  <2>4. /\ event'[e] = row /\ \A d \in Event \ {e} : event'[d] = event[d]
    BY <1>1, <1>2, <2>3
  <2>5. /\ r \in RequestRecord /\ r.stage = "announcing" /\ r.id = e /\ r.body = call[c].body
        /\ r.memo = call[c].memo /\ r.docs = call[c].docs /\ r.overtaken = call[c].overtaken
    BY <1>1 DEF RequestRecord, Request, Stage
  <2>6. /\ call'[c] = r
        /\ \A k \in Call \ {c} :
             call'[k] = IF k \in Affected(e, f) THEN [call[k] EXCEPT !.overtaken = TRUE]
                        ELSE call[k]
        /\ call' = [k \in Call |-> call'[k]]
    BY <1>6 DEF Overtaking
  <2> HIDE DEF row, r
  <2>7. ASSUME NEW k \in Call
        PROVE  /\ [call[k] EXCEPT !.overtaken = TRUE] \in RequestRecord
               /\ [call[k] EXCEPT !.overtaken = TRUE].overtaken
    <3>1. call[k] \in RequestRecord
      BY <1>1
    <3> QED
      BY <3>1 DEF RequestRecord, Request
  <2>8. call' \in [Call -> RequestRecord] /\ OthersStand(c)
    <3>1. \A k \in Call : call'[k] \in RequestRecord
      BY <1>1, <2>5, <2>6, <2>7
    <3> QED
      BY <2>6, <3>1 DEF OthersStand
  <2>9. \A k \in Call \ {c} :
          call[k].stage \in {"writing", "announcing"} /\ call[k].id = e /\ call[k].body.field = f
            => call'[k].overtaken
    <3> SUFFICES ASSUME NEW k \in Call \ {c}, call[k].stage \in {"writing", "announcing"},
                        call[k].id = e, call[k].body.field = f
                 PROVE  call'[k].overtaken
      OBVIOUS
    <3>1. k \in Affected(e, f)
      BY <1>6 DEF Affected
    <3>2. call'[k] = [call[k] EXCEPT !.overtaken = TRUE]
      BY <2>6, <3>1
    <3> QED
      BY <2>7, <3>2
  <2>10. RequestOK(call[c])'
    <3>1. Replies(call[c])' /\ ListSound(call[c])'
      BY <1>2, <2>5, <2>6 DEF Replies, ListSound
    <3>2. Findings(call[c])'
      BY <1>1, <1>2, <2>1, <2>2, <2>4, <2>5, <2>6
         DEF RequestOK, Findings, Listing, EventStages, EventSeen, SubjectStages, SubjectSeen
    <3>3. Fresh(call[c])'
      BY <2>2, <2>4, <2>5, <2>6 DEF Fresh, Listing
    <3> QED
      BY <3>1, <3>2, <3>3 DEF RequestOK
  <2>11. ASSUME NEW k \in Call \ {c} PROVE Undisturbed(k)
    <3>1. call[k].stage \in EventSeen => call[k].id \in Event
      BY DEF IInv, RequestOK, Findings, EventSeen, EventStages
    <3> QED
      BY <1>1, <1>6, <2>2, <2>4, <2>9, <3>1 DEF Undisturbed, EventSeen, Listing, EventExists
  <2>12. \A k \in Call, d \in Event, g \in Field :
           AnnouncingOf(k, d, g)' <=> (AnnouncingOf(k, d, g) \/ (k = c /\ d = e /\ g = f))
    BY <1>1, <2>5, <2>6, <2>8, OthersFields DEF IInv, AnnouncingOf
  <2>13. \A k \in Call : /\ call'[k].memo = call[k].memo /\ call'[k].body = call[k].body
                         /\ call[k].overtaken => call'[k].overtaken
    BY <2>5, <2>6, <2>8, OthersFields DEF IInv
  <2>14. \A d \in Event : EventExists(d)' <=> EventExists(d)
    BY <1>6, <2>2, <2>4 DEF EventExists
  <2>15. Announcements'
    <3> SUFFICES ASSUME NEW d \in Event, NEW g \in Field PROVE AnnouncementsOf(d, g)'
      BY DEF Announcements
    <3>1. AnnouncementsOf(d, g)
      BY DEF IInv, Announcements
    <3>2. CASE d # e \/ g # f
      <4>1. event'[d].value[g] = event[d].value[g]
        BY <2>2, <2>4, <3>2
      <4>2. Known(d, g)' <=> Known(d, g)
        BY <1>1, <4>1 DEF Known
      <4> HIDE DEF Known
      <4>3. \A k \in Call : AnnouncingOf(k, d, g)' <=> AnnouncingOf(k, d, g)
        BY <2>12, <3>2
      <4> QED
        BY <2>13, <2>14, <3>1, <4>2, <4>3 DEF AnnouncementsOf
    <3>3. CASE d = e /\ g = f
      <4>1. AnnouncingOf(c, d, g)' /\ ~AnnouncingOf(c, d, g)
        BY <1>1, <2>12, <3>3 DEF AnnouncingOf
      <4>2. \A k \in Call \ {c} : AnnouncingOf(k, d, g)' => call'[k].overtaken
        BY <2>9, <2>12, <3>3 DEF AnnouncingOf
      <4>3. ASSUME ~call'[c].overtaken, call[c].memo.old = call[c].body.value, EventExists(d)
            PROVE  Known(d, g)' \/ \E l \in Call : AnnouncingOf(l, d, g)' /\ l # c
        <5>1. event[e].value[f] = call[c].memo.old
          <6>1. ~call[c].overtaken /\ Fresh(call[c])
            BY <1>1, <2>5, <2>6, <4>3 DEF RequestOK
          <6> QED
            BY <1>1, <1>6, <2>1, <6>1 DEF Fresh
        <5>2. event'[e].value[f] = event[e].value[f]
          BY <2>2, <2>4, <4>3, <5>1
        <5>3. Known(d, g) => Known(d, g)'
          BY <1>1, <3>3, <5>2 DEF Known
        <5> QED
          BY <2>12, <3>1, <4>1, <4>3, <5>3 DEF AnnouncementsOf
      <4> HIDE DEF Known
      <4> QED
        BY <2>13, <2>14, <4>1, <4>2, <4>3 DEF AnnouncementsOf
    <3> QED
      BY <3>2, <3>3
  <2>16. row \in EventRow /\ row.row = "stored" /\ EventExists(e)
    BY <1>6, <2>2
  <2> QED
    BY <1>4, <2>3, <2>8, <2>10, <2>11, <2>15, <2>16
<1> QED
  BY <1>3, <1>5, <1>6 DEF WriteChange

LEMMA SetVisibilityStep ==
    ASSUME IInv, NEW c \in Call, SetVisibility(c)
    PROVE  IInv'
<1> DEFINE e == call[c].id
           u == call[c].body.user
           shown == IF call[c].body.visible THEN "visible" ELSE "hidden"
           S == {d \in Call : At(d, "listed") /\ call[d].id = e}
<1>1. /\ call[c].stage = "showing" /\ RequestOK(call[c])
      /\ attendee' = [attendee EXCEPT ![e][u] = shown]
      /\ call' = [Overtaking(c, S) EXCEPT ![c] = Ended(@, "OK")]
      /\ UNCHANGED <<event, subscription, news, ordered, listener, announced, presented, blurred,
                     lost>>
  BY DEF SetVisibility, At, IInv, history
<1>2. e \in Event /\ u \in User /\ attendee[e][u] # "none" /\ "OK" \in call[c].docs
  BY <1>1 DEF RequestOK, Replies, Findings, EventStages
<1>3. /\ attendee' \in [Event -> [User -> AttendeeRow]]
      /\ \A d \in Event, v \in User :
           /\ attendee'[d][v] # "none" <=> attendee[d][v] # "none"
           /\ d # e => attendee'[d][v] = attendee[d][v]
  <2>1. shown \in AttendeeRow /\ shown # "none"
    BY DEF AttendeeRow
  <2>2. attendee \in [Event -> [User -> AttendeeRow]]
    BY DEF IInv, TypeOK
  <2> HIDE DEF e, u, shown
  <2> QED
    BY <1>1, <1>2, <2>1, <2>2
<1>4. /\ call' \in [Call -> RequestRecord] /\ call'[c].stage = "idle" /\ RequestOK(call[c])'
      /\ OthersStand(c) /\ \A k \in S \cap Call : k # c => call'[k].overtaken
  BY <1>1, <1>2, CallsOvertaken
<1>5. TypeOK'
  <2>1. \A d \in Event, v \in User : Joined(d, v)' => EventExists(d)' /\ <<d, v>> \in ordered'
    BY <1>1, <1>3 DEF IInv, TypeOK, Joined, EventExists
  <2>2. \A s, t \in Subscription : subscription'[s].row = "stored" =>
          /\ SubjectExists(subscription[s].subject)'
          /\ subscription'[t] = subscription'[s] => s = t
    BY <1>1 DEF IInv, TypeOK, SubjectExists, EventExists
  <2> QED
    BY <1>1, <1>3, <1>4, <2>1, <2>2 DEF IInv, TypeOK, RequestRecord
<1>6. RowsKept
  BY <1>1, <1>3 DEF RowsKept
<1>7. ASSUME NEW k \in Call \ {c} PROVE Undisturbed(k)
  <2>1. call[k].stage = "listed" => call[k].id \in Event
    BY DEF IInv, RequestOK, Findings, EventStages, Listing
  <2>2. call[k].stage = "listed" /\ call[k].id = e => call'[k].overtaken
    BY <1>4 DEF At
  <2> QED
    BY <1>1, <1>3, <2>1, <2>2 DEF Undisturbed
<1>8. (\A k \in Call : RequestOK(call[k]))'
  BY <1>4, <1>6, <1>7, RequestsKept
<1>9. (\A l \in Listener : ChainOK(listener[l]))'
  BY <1>1, <1>5, <1>6, ChainsKept DEF IInv
<1>10. Announcements'
  BY <1>1, <1>4, AnnouncementsKept
<1> QED
  BY <1>1, <1>5, <1>8, <1>9, <1>10
     DEF IInv, References, RefusedNewsUnlisted, EventExists, SubjectExists

LEMMA NoEventType ==
    NoEvent \in EventRow /\ [NoEvent EXCEPT !.row = "deleted"] \in EventRow
<1>1. NoEvent \in EventRow
  BY DEF NoEvent, EventRow, RowState, Visibility, Value
<1> QED
  BY <1>1 DEF EventRow, RowState

LEMMA DeleteEventStep ==
    ASSUME IInv, NEW e \in Event, DeleteEvent(e)
    PROVE  IInv'
<1> DEFINE gone == [NoEvent EXCEPT !.row = "deleted"]
<1>1. /\ EventExists(e) /\ \A u \in User : <<e, u>> \notin ordered
      /\ event' = [event EXCEPT ![e] = gone]
      /\ subscription' = CascadeSubscriptions(e) /\ news' = DetachNews(e)
      /\ listener' = [l \in Listener |-> IF listener[l].subject = e
                                         THEN [listener[l] EXCEPT !.steady = {}] ELSE listener[l]]
      /\ announced' = [announced EXCEPT ![e] = NoEvent.value]
      /\ blurred' = [blurred EXCEPT ![e] = {}]
      /\ presented' = presented \ {e}
      /\ UNCHANGED <<call, attendee, ordered, lost>>
  BY DEF DeleteEvent
<1>2. TypeOK
  BY DEF IInv
<1>3. gone \in EventRow /\ gone.row = "deleted" /\ NoEvent.value \in [Field -> Value]
  <2>1. [NoEvent EXCEPT !.row = "deleted"].row = "deleted"
    BY NoEventType DEF EventRow
  <2> QED
    BY <2>1, NoEventType DEF EventRow
<1> HIDE DEF gone
<1>4. /\ event' \in [Event -> EventRow] /\ event'[e] = gone
      /\ \A d \in Event \ {e} : event'[d] = event[d]
  BY <1>1, <1>2, <1>3 DEF TypeOK
<1>5. /\ announced' \in [Event -> [Field -> Value]]
      /\ \A d \in Event \ {e} : announced'[d] = announced[d]
      /\ blurred' \in [Event -> SUBSET (Field \cup {"created"})]
      /\ \A d \in Event \ {e} : blurred'[d] = blurred[d]
      /\ presented' \subseteq Event
  BY <1>1, <1>2, <1>3 DEF TypeOK
<1>6. \A x : EventExists(x)' <=> EventExists(x) /\ x # e
  BY <1>1, <1>3, <1>4 DEF EventExists
<1>7. Company # e
  BY OwnerAssumption
<1>8. \A x : SubjectExists(x)' <=> SubjectExists(x) /\ x # e
  BY <1>6, <1>7 DEF SubjectExists
<1>9. /\ subscription' \in [Subscription -> SubscriptionRow]
      /\ \A s \in Subscription :
           IF subscription[s].subject = e THEN subscription'[s].row = "deleted"
           ELSE subscription'[s] = subscription[s]
  <2>1. [row |-> "deleted", user |-> None, subject |-> None] \in SubscriptionRow
    BY DEF SubscriptionRow, RowState
  <2> QED
    BY <1>1, <1>2, <2>1 DEF CascadeSubscriptions, TypeOK
<1>10. /\ news' \in [News -> NewsRow]
       /\ \A n \in News : /\ news'[n].row = news[n].row /\ news'[n].refused = news[n].refused
                          /\ news'[n].subject = IF news[n].subject = e THEN None
                                                ELSE news[n].subject
  <2>1. ASSUME NEW n \in News
        PROVE  /\ news'[n] \in NewsRow
               /\ news'[n].row = news[n].row /\ news'[n].refused = news[n].refused
               /\ news'[n].subject = IF news[n].subject = e THEN None ELSE news[n].subject
    <3>1. news[n] \in NewsRow
      BY <1>2 DEF TypeOK
    <3>2. news'[n] = IF news[n].subject = e THEN [news[n] EXCEPT !.subject = None] ELSE news[n]
      BY <1>1 DEF DetachNews
    <3> QED
      BY <3>1, <3>2 DEF NewsRow
  <2>2. news' = [n \in News |-> news'[n]]
    BY <1>1 DEF DetachNews
  <2> QED
    BY <2>1, <2>2
<1>11. listener' \in [Listener -> Chain]
  <2>1. \A l \in Listener : [listener[l] EXCEPT !.steady = {}] \in Chain
    <3> TAKE l \in Listener
    <3>1. listener[l] \in Chain
      BY <1>2 DEF TypeOK
    <3> QED
      BY <3>1 DEF Chain
  <2> QED
    BY <1>1, <1>2, <2>1 DEF TypeOK
<1>12. TypeOK'
  <2>1. \A d \in Event, u \in User : Joined(d, u)' => EventExists(d)' /\ <<d, u>> \in ordered'
    BY <1>1, <1>2, <1>6 DEF TypeOK, Joined
  <2>2. ASSUME NEW s \in Subscription, NEW t \in Subscription, subscription'[s].row = "stored"
        PROVE  /\ SubjectExists(subscription[s].subject)'
               /\ subscription'[t] = subscription'[s] => s = t
    <3>1. subscription'[s] = subscription[s] /\ subscription[s].subject # e
      BY <1>9, <2>2
    <3>2. SubjectExists(subscription[s].subject) /\ (subscription[t] = subscription[s] => s = t)
      BY <1>2, <2>2, <3>1 DEF TypeOK
    <3>3. subscription'[t] = subscription'[s] => subscription'[t] = subscription[t]
      BY <1>9, <2>2
    <3>4. SubjectExists(subscription[s].subject)'
      BY <1>4, <1>6, <3>1, <3>2 DEF SubjectExists, EventExists
    <3> QED
      BY <3>1, <3>2, <3>3, <3>4
  <2> QED
    BY <1>1, <1>2, <1>4, <1>5, <1>9, <1>10, <1>11, <2>1, <2>2 DEF TypeOK
<1>13. RowsKept
  BY <1>1, <1>3, <1>4, <1>9, <1>10 DEF RowsKept
<1>14. ASSUME NEW k \in Call PROVE RequestOK(call[k])'
  <2>1. call[k].stage \in EventSeen => call[k].id \in Event
    BY DEF IInv, RequestOK, Findings, EventSeen, EventStages
  <2>2. Undisturbed(k)
    BY <1>1, <1>3, <1>4, <1>9, <2>1 DEF Undisturbed, EventSeen
  <2> QED
    BY <1>1, <1>2, <1>13, <2>2, OthersKept DEF IInv
<1>15. ASSUME NEW l \in Listener PROVE ChainOK(listener[l])'
  <2> DEFINE k == listener[l]
             h == listener'[l]
  <2>1. k \in Chain /\ ChainOK(k)
    BY <1>2 DEF IInv, TypeOK
  <2>2. /\ h.subject = k.subject /\ h.about = k.about /\ h.user = k.user /\ h.attend = k.attend
        /\ h.subscribe = k.subscribe /\ h.notify = k.notify /\ h.ids = k.ids /\ h.told = k.told
        /\ h.ever = k.ever /\ h.steady = IF k.subject = e THEN {} ELSE k.steady
    BY <1>1, <2>1 DEF Chain
  <2>3. k.about \in Event => event'[k.about].row # "none"
    BY <1>13, <2>1 DEF ChainOK, RowsKept
  <2>4. /\ k.subject = e => FindAllUserIds(k.subject)' = {}
        /\ k.subject # e => FindAllUserIds(k.subject)' = FindAllUserIds(k.subject)
    <3>1. \A u \in User :
            /\ k.subject = e => Subscriptions(u, k.subject)' = {}
            /\ k.subject # e => Subscriptions(u, k.subject)' = Subscriptions(u, k.subject)
      BY <1>9, <2>2 DEF Subscriptions
    <3> QED
      BY <2>2, <3>1 DEF FindAllUserIds
  <2>5. FindAllUserIds(listener[l].subject)' =
          IF k.subject = e THEN {} ELSE FindAllUserIds(k.subject)
    BY <2>2, <2>4 DEF FindAllUserIds, Subscriptions
  <2>6. EventExists(listener[l].about)' => EventExists(k.about)
    BY <1>6, <2>2 DEF EventExists
  <2> QED
    BY <1>1, <2>1, <2>2, <2>3, <2>5, <2>6 DEF ChainOK
<1>16. References'
  <2>1. \A n \in News : news'[n].subject # None => SubjectExists(news[n].subject)'
    <3> SUFFICES ASSUME NEW n \in News, news'[n].subject # None
                 PROVE  SubjectExists(news[n].subject)'
      OBVIOUS
    <3>1. news'[n].subject = news[n].subject /\ news[n].subject # e
      BY <1>10
    <3>2. SubjectExists(news[n].subject)
      BY <3>1 DEF IInv, References
    <3> QED
      BY <1>4, <3>1, <3>2 DEF SubjectExists, EventExists
  <2> QED
    BY <1>1, <1>6, <2>1 DEF IInv, References
<1>17. RefusedNewsUnlisted'
  BY <1>10 DEF IInv, RefusedNewsUnlisted
<1>18. Announcements'
  <2> SUFFICES ASSUME NEW d \in Event, NEW f \in Field PROVE AnnouncementsOf(d, f)'
    BY DEF Announcements
  <2>1. PICK c : c \notin Call
    BY NoSetContainsEverything
  <2>2. OthersStand(c)
    BY <1>1 DEF OthersStand
  <2> QED
    BY <1>4, <1>5, <1>6, <2>1, <2>2, AnnouncementsKeptOf
<1> QED
  BY <1>12, <1>14, <1>15, <1>16, <1>17, <1>18 DEF IInv

-----------------------------------------------------------------------------
(* Subscriptions                                                           *)

\* A new subscription is nobody's second one.
LEMMA InsertOK ==
    ASSUME IInv, NEW u \in User, NEW x \in Subject, Accepts(u, x), Insert(u, x),
           UNCHANGED <<event, attendee, news, ordered, presented, announced, blurred, lost>>,
           listener' \in [Listener -> Chain], call' \in [Call -> RequestRecord]
    PROVE  /\ TypeOK' /\ RowsKept
           /\ \A s \in Subscription : subscription'[s].row = "stored" =>
                \/ subscription'[s] = subscription[s]
                \/ subscription'[s].user = u /\ subscription'[s].subject = x
           /\ \A y : FindAllUserIds(y)' = FindAllUserIds(y) \cup (IF y = x THEN {u} ELSE {})
<1> DEFINE s == CHOOSE i \in Unused : TRUE
           new == [row |-> "stored", user |-> u, subject |-> x]
<1>1. /\ s \in Subscription /\ subscription[s].row = "none"
      /\ subscription' = [subscription EXCEPT ![s] = new]
      /\ SubjectExists(x) /\ Subscriptions(u, x) = {}
  BY DEF Insert, Unused, Accepts
<1>2. subscription \in [Subscription -> SubscriptionRow] /\ TypeOK
  BY DEF IInv, TypeOK
<1>3. new \in SubscriptionRow /\ new.row = "stored" /\ new.user = u /\ new.subject = x
  BY DEF SubscriptionRow, RowState
<1> HIDE DEF s, new
<1>4. /\ subscription' \in [Subscription -> SubscriptionRow] /\ subscription'[s] = new
      /\ \A t \in Subscription \ {s} : subscription'[t] = subscription[t]
  BY <1>1, <1>2, <1>3
<1>5. TypeOK'
  <2>1. ASSUME NEW t \in Subscription, subscription'[t].row = "stored"
        PROVE  SubjectExists(subscription[t].subject)'
    <3>1. SubjectExists(subscription'[t].subject)
      BY <1>1, <1>2, <1>3, <1>4, <2>1 DEF TypeOK
    <3> QED
      BY <3>1 DEF SubjectExists, EventExists
  <2>2. ASSUME NEW t \in Subscription \ {s} PROVE subscription'[t] # new
    <3>1. subscription[t] = new => t \in Subscriptions(u, x)
      BY <1>3 DEF Subscriptions
    <3> QED
      BY <1>1, <1>4, <3>1
  <2>3. \A t, r \in Subscription : subscription'[r].row = "stored" =>
          (subscription'[t] = subscription'[r] => r = t)
    BY <1>2, <1>4, <2>2 DEF TypeOK
  <2> QED
    BY <1>2, <1>4, <2>1, <2>3 DEF TypeOK, RequestRecord, EventExists, Joined
<1>6. RowsKept
  BY <1>1, <1>3, <1>4 DEF RowsKept
<1>7. \A t \in Subscription : subscription'[t].row = "stored" =>
        \/ subscription'[t] = subscription[t]
        \/ subscription'[t].user = u /\ subscription'[t].subject = x
  BY <1>3, <1>4
<1>8. ASSUME NEW y
      PROVE  FindAllUserIds(y)' = FindAllUserIds(y) \cup (IF y = x THEN {u} ELSE {})
  <2>1. \A v \in User : Subscriptions(v, y)' =
                          Subscriptions(v, y) \cup (IF y = x /\ v = u THEN {s} ELSE {})
    BY <1>1, <1>3, <1>4 DEF Subscriptions
  <2> QED
    BY <2>1 DEF FindAllUserIds
<1> QED
  BY <1>5, <1>6, <1>7, <1>8

\* Emissions under way learn of a new subscriber.
LEMMA HearingOK ==
    ASSUME IInv, NEW u \in User, NEW x \in Subject, NEW l \in Listener,
           UNCHANGED <<event, ordered>>,
           \A y : FindAllUserIds(y)' = FindAllUserIds(y) \cup (IF y = x THEN {u} ELSE {}),
           NEW h, h = Hearing(x, u)[l]
    PROVE  h \in Chain /\ ChainOK(h)'
<1>1. PICK k : k = listener[l]
  OBVIOUS
<1>2. k \in Chain /\ ChainOK(k)
  BY <1>1 DEF IInv, TypeOK
<1>3. h = IF k.subject = x /\ k.notify # "idle" THEN [k EXCEPT !.ever = @ \cup {u}] ELSE k
  BY <1>1 DEF Hearing
<1>4. /\ h \in Chain /\ h.subject = k.subject /\ h.about = k.about /\ h.user = k.user
      /\ h.attend = k.attend /\ h.subscribe = k.subscribe /\ h.notify = k.notify
      /\ h.ids = k.ids /\ h.told = k.told /\ h.steady = k.steady
      /\ h.ever = IF k.subject = x /\ k.notify # "idle" THEN k.ever \cup {u} ELSE k.ever
  BY <1>2, <1>3 DEF Chain
<1>5. FindAllUserIds(h.subject)' = FindAllUserIds(k.subject)
                                     \cup (IF k.subject = x THEN {u} ELSE {})
  BY <1>4
<1>6. EventExists(h.about)' <=> EventExists(k.about)
  BY <1>4 DEF EventExists
<1>7. k.about \in Event => event'[k.about].row # "none"
  BY <1>2 DEF ChainOK
<1> QED
  BY <1>2, <1>4, <1>5, <1>6, <1>7 DEF ChainOK

LEMMA AddSubscriptionStep ==
    ASSUME IInv, NEW c \in Call, AddSubscription(c)
    PROVE  IInv'
<1> DEFINE x == call[c].id
           u == call[c].body
<1>1. /\ call[c].stage = "adding" /\ RequestOK(call[c])
      /\ UNCHANGED <<event, attendee, news, ordered, announced, presented, blurred, lost>>
  BY DEF AddSubscription, At, IInv, history
<1>2. /\ x \in Subject /\ u \in User /\ "OK" \in call[c].docs /\ call[c].op = "subscribe"
      /\ "INTERNAL_SERVER_ERROR" \in Status
  BY <1>1 DEF RequestOK, Replies, Findings, SubjectStages, Status
<1>3. CASE /\ Accepts(u, x) /\ Insert(u, x) /\ listener' = Hearing(x, u)
           /\ call' = [Overtaking(c, Adding(u, x)) EXCEPT ![c] = Ended(@, "OK")]
  <2>1. /\ call' \in [Call -> RequestRecord] /\ call'[c].stage = "idle" /\ RequestOK(call[c])'
        /\ OthersStand(c) /\ \A k \in Adding(u, x) \cap Call : k # c => call'[k].overtaken
    BY <1>2, <1>3, CallsOvertaken
  <2>2. listener' \in [Listener -> Chain]
    <3>1. \A l \in Listener : [listener[l] EXCEPT !.ever = @ \cup {u}] \in Chain
      <4> TAKE l \in Listener
      <4>1. listener[l] \in Chain
        BY DEF IInv, TypeOK
      <4> QED
        BY <1>2, <4>1 DEF Chain
    <3> QED
      BY <1>3, <3>1 DEF Hearing, IInv, TypeOK
  <2>3. /\ TypeOK' /\ RowsKept
        /\ \A s \in Subscription : subscription'[s].row = "stored" =>
             \/ subscription'[s] = subscription[s]
             \/ subscription'[s].user = u /\ subscription'[s].subject = x
        /\ \A y : FindAllUserIds(y)' = FindAllUserIds(y) \cup (IF y = x THEN {u} ELSE {})
    BY <1>1, <1>2, <1>3, <2>1, <2>2, InsertOK
  <2>4. ASSUME NEW k \in Call \ {c} PROVE Undisturbed(k)
    <3>1. call[k].stage = "adding" /\ call[k].id = x /\ call[k].body = u => call'[k].overtaken
      BY <2>1 DEF Adding, At
    <3> QED
      BY <1>1, <2>3, <3>1 DEF Undisturbed
  <2>5. (\A k \in Call : RequestOK(call[k]))'
    BY <2>1, <2>3, <2>4, RequestsKept
  <2>6. ASSUME NEW l \in Listener PROVE ChainOK(listener[l])'
    <3>1. PICK h : h = Hearing(x, u)[l]
      OBVIOUS
    <3>2. ChainOK(h)' /\ listener'[l] = h
      BY <1>1, <1>2, <1>3, <2>3, <3>1, HearingOK
    <3> QED
      BY <3>2 DEF ChainOK, FindAllUserIds, Subscriptions, EventExists
  <2>7. Announcements'
    BY <1>1, <2>1, AnnouncementsKept
  <2> QED
    BY <1>1, <2>3, <2>5, <2>6, <2>7
       DEF IInv, References, RefusedNewsUnlisted, EventExists, SubjectExists
<1>4. CASE /\ ~Accepts(u, x) /\ Reply(c, "INTERNAL_SERVER_ERROR")
           /\ UNCHANGED <<subscription, listener>>
  <2>1. Excused([call[c] EXCEPT !.answer = "INTERNAL_SERVER_ERROR"])
    <3>1. CASE ~SubjectExists(x)
      BY <1>1, <1>2, <3>1, SubjectGone, Excuses DEF SubjectSeen, SubjectStages
    <3>2. CASE Subscriptions(u, x) # {}
      BY <1>1, <1>2, <3>2, Excuses DEF RequestOK, Fresh
    <3> QED
      BY <1>4, <3>1, <3>2 DEF Accepts
  <2> QED
    BY <1>1, <1>2, <1>4, <2>1, ReplyStep DEF Quiet, rows, history
<1> QED
  BY <1>3, <1>4 DEF AddSubscription

LEMMA RemoveSubscriptionStep ==
    ASSUME IInv, NEW c \in Call, RemoveSubscription(c)
    PROVE  IInv'
<1> DEFINE s == call[c].id
           x == subscription[s].subject
           u == subscription[s].user
           old == [row |-> "deleted", user |-> None, subject |-> None]
<1>1. /\ call[c].stage = "left" /\ RequestOK(call[c]) /\ TypeOK
      /\ UNCHANGED <<event, attendee, news, ordered, announced, presented, blurred, lost>>
  BY DEF RemoveSubscription, At, IInv, history
<1>2. /\ s \in Subscription /\ subscription[s].row # "none" /\ "OK" \in call[c].docs
      /\ "OK" \in Status /\ "INTERNAL_SERVER_ERROR" \in Status
  BY <1>1 DEF RequestOK, Replies, Findings, Status
<1>3. CASE /\ subscription[s].row = "stored" /\ subscription' = [subscription EXCEPT ![s] = old]
           /\ listener' = Leaving(x, u) /\ Reply(c, "OK")
  <2>1. /\ call' \in [Call -> RequestRecord] /\ RequestOK(call[c])'
        /\ call'[c].stage # "announcing" /\ OthersStand(c)
        /\ \A k \in Call \ {c} : call'[k] = call[k]
    BY <1>2, <1>3, CallsReplied
  <2>2. old \in SubscriptionRow /\ old.row = "deleted"
    BY DEF SubscriptionRow, RowState
  <2> HIDE DEF old
  <2>3. /\ subscription' \in [Subscription -> SubscriptionRow] /\ subscription'[s] = old
        /\ \A t \in Subscription \ {s} : subscription'[t] = subscription[t]
    BY <1>1, <1>2, <1>3, <2>2 DEF TypeOK
  <2>4. ASSUME NEW l \in Listener
        PROVE  /\ listener'[l] = IF listener[l].subject = x
                                 THEN [listener[l] EXCEPT !.steady = @ \ {u}] ELSE listener[l]
               /\ listener[l] \in Chain /\ listener'[l] \in Chain /\ ChainOK(listener[l])
    <3>1. listener[l] \in Chain /\ ChainOK(listener[l])
      BY <1>1 DEF IInv, TypeOK
    <3>2. listener'[l] = IF listener[l].subject = x
                         THEN [listener[l] EXCEPT !.steady = @ \ {u}] ELSE listener[l]
      BY <1>3 DEF Leaving
    <3> QED
      BY <3>1, <3>2 DEF Chain
  <2>5. listener' \in [Listener -> Chain]
    BY <1>3, <2>4 DEF Leaving
  <2>6. TypeOK'
    <3>1. ASSUME NEW t \in Subscription, subscription'[t].row = "stored"
          PROVE  SubjectExists(subscription[t].subject)' /\ subscription'[t] = subscription[t]
      <4>1. subscription'[t] = subscription[t]
        BY <2>2, <2>3, <3>1
      <4>2. SubjectExists(subscription[t].subject)
        BY <1>1, <3>1, <4>1 DEF TypeOK
      <4> QED
        BY <1>1, <4>1, <4>2 DEF SubjectExists, EventExists
    <3>2. \A r, t \in Subscription : subscription'[t].row = "stored" =>
            (subscription'[r] = subscription'[t] => t = r)
      <4> SUFFICES ASSUME NEW r \in Subscription, NEW t \in Subscription,
                          subscription'[t].row = "stored", subscription'[r] = subscription'[t]
                   PROVE  t = r
        OBVIOUS
      <4>1. subscription'[t] = subscription[t] /\ subscription'[r] = subscription[r]
        BY <3>1
      <4> QED
        BY <1>1, <4>1 DEF TypeOK
    <3> QED
      BY <1>1, <2>1, <2>3, <2>5, <3>1, <3>2 DEF TypeOK, RequestRecord, EventExists, Joined
  <2>7. RowsKept
    BY <1>1, <1>3, <2>2, <2>3 DEF RowsKept
  <2>8. \A k \in Call \ {c} : Undisturbed(k)
    BY <1>1, <2>2, <2>3 DEF Undisturbed
  <2>9. (\A k \in Call : RequestOK(call[k]))'
    BY <2>1, <2>7, <2>8, RequestsKept
  <2>10. \A y : /\ FindAllUserIds(y)' \subseteq FindAllUserIds(y)
                /\ \A v \in FindAllUserIds(y) : (y = x /\ v = u) \/ v \in FindAllUserIds(y)'
    <3>1. \A y, v : Subscriptions(v, y)' = Subscriptions(v, y) \ {s}
      BY <2>2, <2>3 DEF Subscriptions
    <3>2. \A y, v : s \in Subscriptions(v, y) => y = x /\ v = u
      BY DEF Subscriptions
    <3> QED
      BY <3>1, <3>2 DEF FindAllUserIds
  <2>11. ASSUME NEW l \in Listener PROVE ChainOK(listener[l])'
    <3>1. PICK k : k = listener[l]
      OBVIOUS
    <3>2. PICK h : h = listener'[l]
      OBVIOUS
    <3>3. /\ h.subject = k.subject /\ h.about = k.about /\ h.user = k.user
          /\ h.attend = k.attend /\ h.subscribe = k.subscribe /\ h.notify = k.notify
          /\ h.ids = k.ids /\ h.told = k.told /\ h.ever = k.ever
          /\ h.steady = IF k.subject = x THEN k.steady \ {u} ELSE k.steady
      <4>1. k \in Chain
        BY <2>4, <3>1
      <4>2. h = IF k.subject = x THEN [k EXCEPT !.steady = @ \ {u}] ELSE k
        BY <2>4, <3>1, <3>2
      <4> QED
        BY <4>1, <4>2 DEF Chain
    <3>4. k.steady \subseteq FindAllUserIds(k.subject) =>
            h.steady \subseteq FindAllUserIds(k.subject)'
      BY <2>10, <3>3
    <3>5. FindAllUserIds(listener[l].subject)' = FindAllUserIds(k.subject)'
      BY <3>2, <3>3 DEF FindAllUserIds, Subscriptions
    <3>6. EventExists(listener[l].about)' <=> EventExists(k.about)
      BY <1>1, <3>2, <3>3 DEF EventExists
    <3>7. ChainOK(k)
      BY <2>4, <3>1
    <3>8. FindAllUserIds(k.subject)' \subseteq FindAllUserIds(k.subject)
      BY <2>10
    <3> QED
      BY <1>1, <3>2, <3>3, <3>4, <3>5, <3>6, <3>7, <3>8 DEF ChainOK
  <2>12. Announcements'
    BY <1>1, <2>1, AnnouncementsKept
  <2> QED
    BY <1>1, <2>6, <2>9, <2>11, <2>12
       DEF IInv, References, RefusedNewsUnlisted, EventExists, SubjectExists
<1>4. CASE /\ subscription[s].row # "stored" /\ Reply(c, "INTERNAL_SERVER_ERROR")
           /\ UNCHANGED <<subscription, listener>>
  <2>1. Excused([call[c] EXCEPT !.answer = "INTERNAL_SERVER_ERROR"])
    BY <1>2, <1>4, Excuses
  <2> QED
    BY <1>1, <1>2, <1>4, <2>1, ReplyStep DEF Quiet, rows, history
<1> QED
  BY <1>3, <1>4 DEF RemoveSubscription

-----------------------------------------------------------------------------
(* News                                                                    *)

\* A step that writes news and nothing else.
LEMMA NewsStep ==
    ASSUME IInv, NEW c \in Call, call' \in [Call -> RequestRecord], RequestOK(call[c])',
           OthersStand(c), \A k \in Call \ {c} : call'[k] = call[k],
           call[c].stage # "announcing", call'[c].stage # "announcing",
           UNCHANGED <<event, attendee, subscription, ordered, listener, history>>,
           news' \in [News -> NewsRow],
           \A n \in News : \/ news'[n] = news[n]
                           \/ /\ news[n].row # "none" => news'[n].row # "none"
                              /\ news[n].row # "none" =>
                                   news'[n].subject \in {news[n].subject, None}
                              /\ news[n].row = "deleted" => news'[n].row = "deleted"
                              /\ news'[n].subject # None => SubjectExists(news'[n].subject)
                              /\ news'[n].refused => news'[n].subject = None
    PROVE  IInv'
<1> USE DEF history
<1>1. TypeOK'
  <2>1. \A s \in Subscription : subscription'[s].row = "stored" =>
          SubjectExists(subscription[s].subject)'
    BY DEF IInv, TypeOK, SubjectExists, EventExists
  <2> QED
    BY <2>1 DEF IInv, TypeOK, RequestRecord, EventExists, Joined
<1>2. RowsKept
  BY DEF RowsKept
<1>3. \A k \in Call \ {c} : Undisturbed(k)
  BY DEF Undisturbed
<1>4. (\A k \in Call : RequestOK(call[k]))'
  BY <1>2, <1>3, RequestsKept
<1>5. (\A l \in Listener : ChainOK(listener[l]))'
  BY <1>1, <1>2, ChainsKept DEF IInv
<1>6. References'
  <2>1. \A n \in News : news'[n].subject # None => SubjectExists(news'[n].subject)
    BY DEF IInv, References
  <2>2. \A n \in News : SubjectExists(news'[n].subject) => SubjectExists(news[n].subject)'
    BY DEF SubjectExists, EventExists
  <2> QED
    BY <2>1, <2>2 DEF IInv, References, EventExists
<1>7. RefusedNewsUnlisted'
  BY DEF IInv, RefusedNewsUnlisted
<1>8. Announcements'
  BY AnnouncementsKept
<1> QED
  BY <1>1, <1>4, <1>5, <1>6, <1>7, <1>8 DEF IInv

LEMMA StoreNewsStep ==
    ASSUME IInv, NEW c \in Call, StoreNews(c)
    PROVE  IInv'
<1> DEFINE x == call[c].id
<1>1. /\ call[c].stage = "publishing" /\ RequestOK(call[c]) /\ TypeOK
      /\ UNCHANGED <<event, attendee, subscription, ordered, listener, history>>
      /\ call \in [Call -> RequestRecord]
  BY DEF StoreNews, At, IInv, TypeOK, RequestRecord
<1>2. /\ x \in Subject /\ call[c].body \in User /\ "OK" \in call[c].docs
      /\ "NOT_FOUND" \in call[c].docs /\ "INTERNAL_SERVER_ERROR" \in Status
      /\ x \in Event => event[x].row # "none"
  BY <1>1 DEF RequestOK, Replies, Findings, SubjectStages, SubjectSeen, Status
<1>3. ASSUME SubjectExists(x), NEW n \in News, news[n].row = "none",
             news' = [news EXCEPT ![n] = [row |-> "stored", author |-> call[c].body,
                                          subject |-> x, refused |-> FALSE]],
             call' = [call EXCEPT ![c].memo = n, ![c].stage = "titling"]
      PROVE  IInv'
  <2> DEFINE new == [row |-> "stored", author |-> call[c].body, subject |-> x, refused |-> FALSE]
             r == [call[c] EXCEPT !.memo = n, !.stage = "titling"]
  <2>1. new \in NewsRow /\ new.row = "stored" /\ new.subject = x /\ ~new.refused
    BY <1>2 DEF NewsRow, RowState
  <2>2. /\ r \in RequestRecord /\ r.stage = "titling" /\ r.id = x /\ r.memo = n
        /\ r.body = call[c].body /\ r.docs = call[c].docs
    <3>1. "titling" \in Stage /\ n \in Memo /\ call[c] \in RequestRecord
      BY <1>1 DEF Stage, Memo
    <3> QED
      BY <3>1 DEF RequestRecord, Request
  <2>3. call' = [call EXCEPT ![c] = r] /\ news' = [news EXCEPT ![n] = new]
    BY <1>3
  <2> HIDE DEF new, r
  <2>4. /\ call' \in [Call -> RequestRecord] /\ call'[c] = r
        /\ \A k \in Call \ {c} : call'[k] = call[k]
    BY <1>1, <2>2, <2>3
  <2>5. /\ news' \in [News -> NewsRow] /\ news'[n] = new
        /\ \A i \in News \ {n} : news'[i] = news[i]
    BY <1>1, <2>1, <2>3 DEF TypeOK
  <2>6. event' = event
    BY <1>1
  <2>7. RequestOK(call[c])'
    BY <1>2, <2>1, <2>2, <2>4, <2>5, <2>6
       DEF RequestOK, Replies, Findings, ListSound, Fresh, Listing, EventStages, EventSeen,
           SubjectStages, SubjectSeen
  <2>8. OthersStand(c)
    BY <2>4 DEF OthersStand
  <2>9. call[c].stage # "announcing" /\ call'[c].stage # "announcing"
    BY <1>1, <2>2, <2>4
  <2> QED
    BY <1>1, <1>3, <2>1, <2>4, <2>5, <2>7, <2>8, <2>9, NewsStep
<1>4. CASE /\ ~SubjectExists(x) /\ Reply(c, "INTERNAL_SERVER_ERROR") /\ UNCHANGED news
  <2>1. Excused([call[c] EXCEPT !.answer = "INTERNAL_SERVER_ERROR"])
    BY <1>1, <1>2, <1>4, SubjectGone, Excuses DEF SubjectSeen, SubjectStages
  <2> QED
    BY <1>1, <1>2, <1>4, <2>1, ReplyStep DEF Quiet, rows
<1> QED
  BY <1>3, <1>4 DEF StoreNews

LEMMA AnnounceNewsStep ==
    ASSUME IInv, NEW c \in Call, AnnounceNews(c)
    PROVE  IInv'
<1> DEFINE x == call[c].id
           n == call[c].memo
<1>1. /\ call[c].stage = "titling" /\ RequestOK(call[c]) /\ TypeOK
      /\ UNCHANGED <<event, attendee, subscription, ordered, announced, presented, blurred, lost>>
  BY DEF AnnounceNews, At, IInv, history
<1>2. /\ x \in Subject /\ "OK" \in call[c].docs /\ "NOT_FOUND" \in call[c].docs
      /\ "OK" \in Status /\ "NOT_FOUND" \in Status
      /\ x \in Event => event[x].row # "none"
      /\ n \in News /\ news[n].row # "none" /\ news[n].subject \in {x, None}
  BY <1>1 DEF RequestOK, Replies, Findings, SubjectStages, SubjectSeen, Status
<1>3. CASE /\ SubjectExists(x) /\ Emit(Notifying(x, IF x = Company THEN None ELSE x))
           /\ Reply(c, "OK") /\ UNCHANGED news
  <2>1. PICK about : about = IF x = Company THEN None ELSE x
    OBVIOUS
  <2>2. about \in Event \cup {None} /\ (about \in Event => event[about].row # "none")
    BY <1>2, <2>1, NoneAssumption DEF Subject
  <2>3. Notifying(x, about) \in Chain /\ ChainOK(Notifying(x, about))
    BY <1>1, <1>2, <2>2, NotifyingOK
  <2>4. listener' \in [Listener -> Chain] /\ \A l \in Listener : ChainOK(listener'[l])
    BY <1>3, <2>1, <2>3, EmitOK
  <2>5. /\ call' \in [Call -> RequestRecord] /\ RequestOK(call[c])'
        /\ call'[c].stage # "announcing" /\ OthersStand(c)
        /\ \A k \in Call \ {c} : call'[k] = call[k]
    BY <1>2, <1>3, CallsReplied
  <2>6. Announcements'
    BY <1>1, <2>5, AnnouncementsKept
  <2>7. /\ presented' \subseteq Event /\ announced' \in [Event -> [Field -> Value]]
        /\ blurred' \in [Event -> SUBSET (Field \cup {"created"})] /\ lost' \subseteq ordered
    BY <1>1 DEF TypeOK
  <2> QED
    BY <1>1, <1>3, <2>4, <2>5, <2>6, <2>7, TablesStand
<1>4. CASE /\ ~SubjectExists(x)
           /\ news' = [news EXCEPT ![n].refused = news[n].row = "stored"]
           /\ Reply(c, "NOT_FOUND") /\ UNCHANGED listener
  <2>1. /\ call' \in [Call -> RequestRecord] /\ RequestOK(call[c])'
        /\ call'[c].stage # "announcing" /\ OthersStand(c)
        /\ \A k \in Call \ {c} : call'[k] = call[k]
    BY <1>2, <1>4, CallsReplied
  <2>2. news[n].subject = None
    BY <1>2, <1>4 DEF IInv, References
  <2> DEFINE told == news[n].row = "stored"
             row == [news[n] EXCEPT !.refused = told]
  <2>3. news[n] \in NewsRow /\ told \in BOOLEAN
    BY <1>1, <1>2 DEF TypeOK
  <2>4. row \in NewsRow /\ row.row = news[n].row /\ row.subject = None
    BY <2>2, <2>3 DEF NewsRow
  <2>5. news' = [news EXCEPT ![n] = row]
    BY <1>4
  <2> HIDE DEF row
  <2>6. /\ news' \in [News -> NewsRow] /\ news'[n] = row
        /\ \A i \in News \ {n} : news'[i] = news[i]
    BY <1>1, <1>2, <2>4, <2>5 DEF TypeOK
  <2>7. call[c].stage # "announcing"
    BY <1>1
  <2>8. UNCHANGED <<event, attendee, subscription, ordered, listener, history>>
    BY <1>1, <1>4 DEF history
  <2> HIDE DEF n
  <2> QED
    BY <2>1, <2>4, <2>6, <2>7, <2>8, NewsStep
<1> QED
  BY <1>3, <1>4 DEF AnnounceNews

LEMMA RemoveNewsStep ==
    ASSUME IInv, NEW c \in Call, RemoveNews(c)
    PROVE  IInv'
<1> DEFINE n == call[c].id
           old == [row |-> "deleted", author |-> None, subject |-> None, refused |-> FALSE]
<1>1. /\ call[c].stage = "removed" /\ RequestOK(call[c]) /\ TypeOK
      /\ UNCHANGED <<event, attendee, subscription, ordered, listener, history>>
  BY DEF RemoveNews, At, IInv
<1>2. /\ n \in News /\ news[n].row # "none" /\ "OK" \in call[c].docs
      /\ "OK" \in Status /\ "INTERNAL_SERVER_ERROR" \in Status
  BY <1>1 DEF RequestOK, Replies, Findings, Status
<1>3. CASE news' = [news EXCEPT ![n] = old] /\ Reply(c, "OK")
  <2>1. /\ call' \in [Call -> RequestRecord] /\ RequestOK(call[c])'
        /\ call'[c].stage # "announcing" /\ OthersStand(c)
        /\ \A k \in Call \ {c} : call'[k] = call[k]
    BY <1>2, <1>3, CallsReplied
  <2>2. old \in NewsRow /\ old.row = "deleted" /\ old.subject = None /\ ~old.refused
    BY DEF NewsRow, RowState
  <2> HIDE DEF old
  <2>3. /\ news' \in [News -> NewsRow] /\ news'[n] = old
        /\ \A i \in News \ {n} : news'[i] = news[i]
    BY <1>1, <1>2, <1>3, <2>2 DEF TypeOK
  <2>4. call[c].stage # "announcing"
    BY <1>1
  <2> QED
    BY <1>1, <2>1, <2>2, <2>3, <2>4, NewsStep
<1>4. CASE ~NewsExists(n) /\ Reply(c, "INTERNAL_SERVER_ERROR") /\ UNCHANGED news
  <2>1. Excused([call[c] EXCEPT !.answer = "INTERNAL_SERVER_ERROR"])
    BY <1>2, <1>4, Excuses
  <2> QED
    BY <1>1, <1>2, <1>4, <2>1, ReplyStep DEF Quiet, rows
<1> QED
  BY <1>3, <1>4 DEF RemoveNews

-----------------------------------------------------------------------------
(* Listeners                                                               *)

LEMMA SilentOK == Silent \in Chain /\ ChainOK(Silent) /\ ChainOK(Silent)'
<1>1. /\ Silent \in Chain /\ Silent.attend = "idle" /\ Silent.subscribe = "idle"
      /\ Silent.notify = "idle" /\ Silent.about = None
  BY DEF Silent, Chain
<1> QED
  BY <1>1, NoneAssumption DEF ChainOK

\* A listener that moves on and writes no row keeps the invariant when its new state is sound.
LEMMA AdvanceStep ==
    ASSUME IInv, NEW l \in Listener, NEW k \in Chain, ChainOK(k), Advance(l, k),
           UNCHANGED <<call, event, rows, ordered, announced, presented, blurred>>,
           lost' \subseteq ordered
    PROVE  IInv'
<1>1. Settled(k) \in Chain /\ ChainOK(Settled(k))
  BY SilentOK DEF Settled
<1>2. /\ listener' = [listener EXCEPT ![l] = Settled(k)]
      /\ UNCHANGED <<call, event, attendee, subscription, news, ordered, announced, presented,
                     blurred>>
  BY DEF Advance, rows
<1>3. listener' \in [Listener -> Chain] /\ \A j \in Listener : ChainOK(listener'[j])
  BY <1>1, <1>2 DEF IInv, TypeOK
<1>4. PICK c : c \notin Call
  BY NoSetContainsEverything
<1>5. OthersStand(c) /\ call' \in [Call -> RequestRecord]
  BY <1>2 DEF OthersStand, IInv, TypeOK, RequestRecord
<1>6. Announcements'
  BY <1>2, <1>4, <1>5, AnnouncementsKept
<1>7. /\ presented' \subseteq Event /\ announced' \in [Event -> [Field -> Value]]
      /\ blurred' \in [Event -> SUBSET (Field \cup {"created"})]
  BY <1>2 DEF IInv, TypeOK
<1> QED
  BY <1>2, <1>3, <1>4, <1>5, <1>6, <1>7, TablesStand

LEMMA OnlyStep ==
    ASSUME IInv, NEW l \in Listener, NEW k \in Chain, ChainOK(k), Only(l, k)
    PROVE  IInv'
<1>1. /\ Advance(l, k) /\ lost' \subseteq ordered
      /\ UNCHANGED <<call, event, rows, ordered, announced, presented, blurred>>
  BY DEF Only, history, IInv, TypeOK
<1> QED
  BY <1>1, AdvanceStep

LEMMA QuietListeners ==
    ASSUME IInv, NEW l \in Listener,
           \/ EmitOrderCreated(l) \/ FindAttendee(l) \/ FindBuyersSubscription(l)
           \/ FindNotified(l) \/ ReadRecipients(l) \/ StoreNotification(l)
    PROVE  IInv'
<1> DEFINE k == listener[l]
<1>1. k \in Chain /\ ChainOK(k) /\ TypeOK
  BY DEF IInv, TypeOK
<1>2. ASSUME k.attend # "idle", NEW attend \in {"idle", "finding", "joining"},
             Only(l, [k EXCEPT !.attend = attend])
      PROVE  IInv'
  <2> DEFINE h == [k EXCEPT !.attend = attend]
  <2>1. /\ h \in Chain /\ h.attend = attend /\ h.subject = k.subject /\ h.about = k.about
        /\ h.user = k.user /\ h.subscribe = k.subscribe /\ h.notify = k.notify
        /\ h.told = k.told
    BY <1>1 DEF Chain
  <2>2. Only(l, h)
    BY <1>2
  <2> HIDE DEF h
  <2>3. ChainOK(h)
    BY <1>1, <1>2, <2>1 DEF ChainOK
  <2> QED
    BY <2>1, <2>2, <2>3, OnlyStep
<1>3. CASE EmitOrderCreated(l) \/ FindAttendee(l)
  <2>1. k.attend # "idle"
    BY <1>3 DEF EmitOrderCreated, FindAttendee
  <2>2. CASE EmitOrderCreated(l)
    BY <1>2, <2>1, <2>2 DEF EmitOrderCreated
  <2>3. CASE FindAttendee(l)
    <3>1. PICK attend : attend = IF Joined(k.subject, k.user) THEN "idle" ELSE "joining"
      OBVIOUS
    <3>2. attend \in {"idle", "finding", "joining"} /\ Only(l, [k EXCEPT !.attend = attend])
      BY <2>3, <3>1 DEF FindAttendee
    <3> QED
      BY <1>2, <2>1, <3>2
  <2> QED
    BY <1>3, <2>2, <2>3
<1>4. CASE FindBuyersSubscription(l)
  <2>1. PICK subscribe : subscribe = IF Subscriptions(k.user, k.subject) = {} THEN "adding"
                                     ELSE "idle"
    OBVIOUS
  <2> DEFINE h == [k EXCEPT !.subscribe = subscribe]
  <2>2. k.subscribe = "finding" /\ Only(l, h) /\ subscribe \in {"adding", "idle"}
    BY <1>4, <2>1 DEF FindBuyersSubscription
  <2>3. /\ h \in Chain /\ h.attend = k.attend /\ h.subject = k.subject /\ h.about = k.about
        /\ h.user = k.user /\ h.subscribe = subscribe /\ h.notify = k.notify
        /\ h.ids = k.ids /\ h.told = k.told /\ h.steady = k.steady /\ h.ever = k.ever
    BY <1>1, <2>2 DEF Chain
  <2> HIDE DEF h
  <2>4. ChainOK(h)
    BY <1>1, <2>2, <2>3 DEF ChainOK
  <2> QED
    BY <2>2, <2>3, <2>4, OnlyStep
<1>5. CASE FindNotified(l)
  <2>1. PICK notify : notify = IF SubjectExists(k.subject) THEN "reading" ELSE "idle"
    OBVIOUS
  <2> DEFINE h == [k EXCEPT !.notify = notify]
  <2>2. k.notify = "finding" /\ Only(l, h) /\ notify \in {"reading", "idle"}
    BY <1>5, <2>1 DEF FindNotified
  <2>3. /\ h \in Chain /\ h.attend = k.attend /\ h.subject = k.subject /\ h.about = k.about
        /\ h.user = k.user /\ h.subscribe = k.subscribe /\ h.notify = notify
        /\ h.ids = k.ids /\ h.told = k.told /\ h.steady = k.steady /\ h.ever = k.ever
    BY <1>1, <2>2 DEF Chain
  <2> HIDE DEF h
  <2>4. ChainOK(h)
    BY <1>1, <2>2, <2>3 DEF ChainOK
  <2> QED
    BY <2>2, <2>3, <2>4, OnlyStep
<1>6. CASE ReadRecipients(l)
  <2> DEFINE ids == FindAllUserIds(k.subject)
  <2>1. PICK notify : notify = IF ids = {} THEN "idle" ELSE "storing"
    OBVIOUS
  <2> DEFINE h == [k EXCEPT !.ids = ids, !.notify = notify]
  <2>2. k.notify = "reading" /\ Only(l, h) /\ notify \in {"storing", "idle"}
    BY <1>6, <2>1 DEF ReadRecipients
  <2>3. /\ h \in Chain /\ h.attend = k.attend /\ h.subject = k.subject /\ h.about = k.about
        /\ h.user = k.user /\ h.subscribe = k.subscribe /\ h.notify = notify
        /\ h.ids = ids /\ h.told = k.told /\ h.steady = k.steady /\ h.ever = k.ever
    <3>1. ids \subseteq User
      BY DEF FindAllUserIds
    <3> HIDE DEF ids
    <3> QED
      BY <1>1, <2>2, <3>1 DEF Chain
  <2> HIDE DEF h
  <2>4. ChainOK(h)
    BY <1>1, <2>2, <2>3 DEF ChainOK
  <2> QED
    BY <2>2, <2>3, <2>4, OnlyStep
<1>7. CASE StoreNotification(l)
  <2>1. PICK u \in k.ids, stored \in BOOLEAN :
          /\ stored => k.about = None \/ EventExists(k.about)
          /\ Only(l, [k EXCEPT !.ids = @ \ {u}, !.told = IF stored THEN @ \cup {u} ELSE @,
                               !.steady = IF stored THEN @ ELSE @ \ {u},
                               !.notify = IF k.ids = {u} THEN "idle" ELSE "storing"])
    BY <1>7, Zenon DEF StoreNotification
  <2>2. PICK told, steady : /\ told = IF stored THEN k.told \cup {u} ELSE k.told
                            /\ steady = IF stored THEN k.steady ELSE k.steady \ {u}
    OBVIOUS
  <2>3. PICK notify : notify = IF k.ids = {u} THEN "idle" ELSE "storing"
    OBVIOUS
  <2> DEFINE h == [k EXCEPT !.ids = @ \ {u}, !.told = told, !.steady = steady,
                            !.notify = notify]
  <2>4. k.notify = "storing" /\ Only(l, h) /\ notify \in {"storing", "idle"}
    <3>1. Only(l, h)
      BY <2>1, <2>2, <2>3
    <3>2. k.notify = "storing"
      BY <1>7, Zenon DEF StoreNotification
    <3> QED
      BY <2>3, <3>1, <3>2
  <2>5. u \in User /\ told \subseteq User /\ steady \subseteq User
    BY <1>1, <2>2 DEF Chain
  <2>6. /\ h \in Chain /\ h.attend = k.attend /\ h.subject = k.subject /\ h.about = k.about
        /\ h.user = k.user /\ h.subscribe = k.subscribe /\ h.notify = notify
        /\ h.ids = k.ids \ {u} /\ h.told = told /\ h.steady = steady /\ h.ever = k.ever
    BY <1>1, <2>4, <2>5 DEF Chain
  <2> HIDE DEF h
  <2>7. ChainOK(h)
    BY <1>1, <2>2, <2>4, <2>6 DEF ChainOK
  <2> QED
    BY <2>4, <2>6, <2>7, OnlyStep
<1> QED
  BY <1>3, <1>4, <1>5, <1>6, <1>7

\* A listener whose query fails relies on nothing any more.
LEMMA ListenerFailsStep ==
    ASSUME IInv, NEW l \in Listener, ListenerFails(l)
    PROVE  IInv'
<1> DEFINE k == listener[l]
<1>1. k \in Chain /\ ChainOK(k) /\ lost \subseteq ordered
  BY DEF IInv, TypeOK
<1>2. CASE /\ k.attend \in {"finding", "joining"}
           /\ lost' = lost \cup {<<k.subject, k.user>>}
           /\ Advance(l, [k EXCEPT !.attend = "idle"])
           /\ UNCHANGED <<call, event, rows, ordered, announced, presented, blurred>>
  <2> DEFINE h == [k EXCEPT !.attend = "idle"]
  <2>1. /\ h \in Chain /\ h.attend = "idle" /\ h.subject = k.subject /\ h.about = k.about
        /\ h.user = k.user /\ h.subscribe = k.subscribe /\ h.notify = k.notify
        /\ h.told = k.told
    BY <1>1 DEF Chain
  <2>2. Advance(l, h)
    BY <1>2
  <2> HIDE DEF h
  <2>3. ChainOK(h) /\ <<k.subject, k.user>> \in ordered
    BY <1>1, <1>2, <2>1 DEF ChainOK
  <2> QED
    BY <1>1, <1>2, <2>1, <2>2, <2>3, AdvanceStep
<1>3. CASE k.subscribe # "idle" /\ Only(l, [k EXCEPT !.subscribe = "idle"])
  <2> DEFINE h == [k EXCEPT !.subscribe = "idle"]
  <2>1. /\ h \in Chain /\ h.attend = k.attend /\ h.subject = k.subject /\ h.about = k.about
        /\ h.user = k.user /\ h.subscribe = "idle" /\ h.notify = k.notify
        /\ h.ids = k.ids /\ h.told = k.told /\ h.steady = k.steady /\ h.ever = k.ever
    BY <1>1 DEF Chain
  <2>2. Only(l, h)
    BY <1>3
  <2> HIDE DEF h
  <2>3. ChainOK(h)
    BY <1>1, <1>3, <2>1 DEF ChainOK
  <2> QED
    BY <2>1, <2>2, <2>3, OnlyStep
<1>4. CASE k.notify \in {"finding", "reading"} /\ Only(l, [k EXCEPT !.notify = "idle"])
  <2> DEFINE h == [k EXCEPT !.notify = "idle"]
  <2>1. /\ h \in Chain /\ h.attend = k.attend /\ h.subject = k.subject /\ h.about = k.about
        /\ h.user = k.user /\ h.subscribe = k.subscribe /\ h.notify = "idle"
        /\ h.ids = k.ids /\ h.told = k.told /\ h.steady = k.steady /\ h.ever = k.ever
    BY <1>1 DEF Chain
  <2>2. Only(l, h)
    BY <1>4
  <2> HIDE DEF h
  <2>3. ChainOK(h)
    BY <1>1, <1>4, <2>1 DEF ChainOK
  <2> QED
    BY <2>1, <2>2, <2>3, OnlyStep
<1> QED
  BY <1>2, <1>3, <1>4 DEF ListenerFails

LEMMA JoinEventStep ==
    ASSUME IInv, NEW l \in Listener, JoinEvent(l)
    PROVE  IInv'
<1> DEFINE k == listener[l]
           hearers == FindAllUserIds(k.subject)
<1>1. /\ k \in Chain /\ ChainOK(k) /\ TypeOK /\ k.attend = "joining"
      /\ UNCHANGED <<call, event, subscription, news, ordered, announced, presented, blurred, lost>>
  BY DEF JoinEvent, IInv, TypeOK, history
<1>2. /\ k.subject \in Event /\ k.user \in User /\ <<k.subject, k.user>> \in ordered
      /\ k.subscribe = "idle" /\ k.notify = "idle" /\ k.told = {}
  BY <1>1 DEF ChainOK
<1>3. EventExists(k.subject)
  BY <1>2 DEF IInv, References
<1>4. CASE Advance(l, [k EXCEPT !.attend = "idle"]) /\ UNCHANGED attendee
  <2> DEFINE h == [k EXCEPT !.attend = "idle"]
  <2>1. /\ h \in Chain /\ h.attend = "idle" /\ h.subscribe = "idle" /\ h.notify = "idle"
        /\ h.about = k.about
    BY <1>1, <1>2 DEF Chain
  <2>2. Only(l, h)
    BY <1>1, <1>4 DEF Only, rows, history
  <2> HIDE DEF h
  <2>3. ChainOK(h)
    BY <1>1, <2>1 DEF ChainOK
  <2> QED
    BY <2>1, <2>2, <2>3, OnlyStep
<1>5. CASE /\ ~Joined(k.subject, k.user)
           /\ attendee' = [attendee EXCEPT ![k.subject][k.user] = "visible"]
           /\ Advance(l, [k EXCEPT !.attend = "idle", !.about = k.subject,
                                   !.subscribe = "finding", !.notify = "finding",
                                   !.steady = hearers, !.ever = hearers])
  <2> DEFINE h == [k EXCEPT !.attend = "idle", !.about = k.subject, !.subscribe = "finding",
                            !.notify = "finding", !.steady = hearers, !.ever = hearers]
  <2>1. hearers \subseteq User
    BY DEF FindAllUserIds
  <2>2. /\ h \in Chain /\ h.attend = "idle" /\ h.subscribe = "finding" /\ h.notify = "finding"
        /\ h.about = k.subject /\ h.subject = k.subject /\ h.user = k.user /\ h.told = {}
        /\ h.steady = hearers /\ h.ever = hearers
    <3> HIDE DEF hearers
    <3> QED
      BY <1>1, <1>2, <2>1 DEF Chain
  <2>3. ChainOK(h)
    <3> HIDE DEF h
    <3> QED
      BY <1>2, <1>3, <2>2 DEF ChainOK, EventExists, Subject
  <2>4. listener' = [listener EXCEPT ![l] = h]
    <3> HIDE DEF hearers
    <3> QED
      BY <1>5, <2>2 DEF Advance, Settled
  <2> HIDE DEF h
  <2>5. listener' \in [Listener -> Chain] /\ \A j \in Listener : ChainOK(listener'[j])
    BY <1>1, <2>2, <2>3, <2>4 DEF IInv, TypeOK
  <2>6. /\ attendee' \in [Event -> [User -> AttendeeRow]]
        /\ \A e \in Event, u \in User :
             \/ attendee'[e][u] = attendee[e][u]
             \/ e = k.subject /\ u = k.user /\ attendee[e][u] = "none"
    <3>1. attendee[k.subject][k.user] = "none"
      BY <1>5 DEF Joined
    <3> HIDE DEF k
    <3> QED
      BY <1>1, <1>2, <1>5, <3>1 DEF TypeOK, AttendeeRow
  <2>7. TypeOK'
    <3>1. \A e \in Event, u \in User : Joined(e, u)' => EventExists(e)' /\ <<e, u>> \in ordered'
      <4> TAKE e \in Event, u \in User
      <4>1. Joined(e, u)' => Joined(e, u) \/ (e = k.subject /\ u = k.user)
        BY <2>6 DEF Joined
      <4>2. Joined(e, u)' => EventExists(e) /\ <<e, u>> \in ordered
        BY <1>1, <1>2, <1>3, <4>1 DEF TypeOK
      <4> QED
        BY <1>1, <4>2 DEF EventExists
    <3>2. \A s \in Subscription : subscription'[s].row = "stored" =>
            SubjectExists(subscription[s].subject)'
      BY <1>1 DEF TypeOK, SubjectExists, EventExists
    <3> QED
      BY <1>1, <2>5, <2>6, <3>1, <3>2 DEF TypeOK, RequestRecord
  <2>8. RowsKept
    BY <1>1, <2>6 DEF RowsKept
  <2>9. PICK c : c \notin Call
    BY NoSetContainsEverything
  <2>10. OthersStand(c)
    BY <1>1 DEF OthersStand
  <2>11. ASSUME NEW d \in Call PROVE Undisturbed(d)
    <3>1. call[d].stage = "listed" => call[d].id \in Event
      BY DEF IInv, RequestOK, Findings, EventStages, Listing
    <3> QED
      BY <1>1, <2>6, <3>1 DEF Undisturbed
  <2>12. (\A d \in Call : RequestOK(call[d]))'
    BY <2>8, <2>9, <2>10, <2>11, RequestsKept
  <2>13. (\A j \in Listener : ChainOK(listener[j]))'
    BY <1>1, <2>5, <2>7, <2>8, ChainsKept
  <2>14. Announcements'
    BY <1>1, <2>9, <2>10, AnnouncementsKept
  <2> QED
    BY <1>1, <2>7, <2>12, <2>13, <2>14
       DEF IInv, References, RefusedNewsUnlisted, EventExists, SubjectExists
<1> QED
  BY <1>4, <1>5 DEF JoinEvent

LEMMA SubscribeBuyerStep ==
    ASSUME IInv, NEW l \in Listener, SubscribeBuyer(l)
    PROVE  IInv'
<1> DEFINE k == listener[l]
           x == k.subject
           u == k.user
           S == Adding(u, x)
<1>1. /\ k \in Chain /\ ChainOK(k) /\ TypeOK /\ k.subscribe = "adding"
      /\ UNCHANGED <<event, attendee, news, ordered, announced, presented, blurred, lost>>
  BY DEF SubscribeBuyer, IInv, TypeOK, history
<1>2. x \in Subject /\ u \in User
  BY <1>1 DEF ChainOK, Subject
<1>3. CASE Advance(l, [k EXCEPT !.subscribe = "idle"]) /\ UNCHANGED <<call, subscription>>
  <2> DEFINE h == [k EXCEPT !.subscribe = "idle"]
  <2>1. /\ h \in Chain /\ h.attend = k.attend /\ h.subject = k.subject /\ h.about = k.about
        /\ h.user = k.user /\ h.subscribe = "idle" /\ h.notify = k.notify
        /\ h.ids = k.ids /\ h.told = k.told /\ h.steady = k.steady /\ h.ever = k.ever
    BY <1>1 DEF Chain
  <2>2. Only(l, h)
    BY <1>1, <1>3 DEF Only, rows, history
  <2> HIDE DEF h
  <2>3. ChainOK(h)
    BY <1>1, <2>1 DEF ChainOK
  <2> QED
    BY <2>1, <2>2, <2>3, OnlyStep
<1>4. CASE /\ Accepts(u, x) /\ Insert(u, x) /\ call' = Overtaking(None, S)
           /\ listener' = [Hearing(x, u) EXCEPT ![l] = Settled([@ EXCEPT !.subscribe = "idle"])]
  <2>1. \A c \in Call : \/ call'[c] = call[c]
                        \/ call'[c] = [call[c] EXCEPT !.overtaken = TRUE]
    BY <1>4 DEF Overtaking
  <2>2. call' \in [Call -> RequestRecord] /\ \A c \in S : c # None => call'[c].overtaken
    <3>1. ASSUME NEW c \in Call
          PROVE  /\ call[c] \in RequestRecord
                 /\ [call[c] EXCEPT !.overtaken = TRUE] \in RequestRecord
                 /\ [call[c] EXCEPT !.overtaken = TRUE].overtaken
      <4>1. call[c] \in RequestRecord
        BY <1>1 DEF TypeOK, RequestRecord
      <4> QED
        BY <4>1 DEF RequestRecord, Request
    <3>2. \A c \in Call : call'[c] = IF c # None /\ c \in S THEN [call[c] EXCEPT !.overtaken = TRUE]
                                     ELSE call[c]
      BY <1>4 DEF Overtaking
    <3>3. call' = [c \in Call |-> call'[c]] /\ S \subseteq Call
      BY <1>4 DEF Overtaking, Adding
    <3> HIDE DEF S
    <3> QED
      BY <3>1, <3>2, <3>3
  <2>3. listener' \in [Listener -> Chain]
    <3>1. ASSUME NEW j \in Listener
          PROVE  /\ Hearing(x, u)[j] \in Chain
                 /\ Settled([Hearing(x, u)[j] EXCEPT !.subscribe = "idle"]) \in Chain
      <4>1. PICK g : g = listener[j]
        OBVIOUS
      <4>2. g \in Chain
        BY <1>1, <4>1 DEF TypeOK
      <4>3. Hearing(x, u)[j] = IF g.subject = x /\ g.notify # "idle"
                               THEN [g EXCEPT !.ever = @ \cup {u}] ELSE g
        BY <4>1 DEF Hearing
      <4>4. PICK h : h = Hearing(x, u)[j]
        OBVIOUS
      <4>5. h \in Chain
        BY <1>2, <4>2, <4>3, <4>4 DEF Chain
      <4>6. [h EXCEPT !.subscribe = "idle"] \in Chain
        BY <4>5 DEF Chain
      <4> QED
        BY <4>4, <4>5, <4>6, SilentOK DEF Settled
    <3>2. Hearing(x, u) = [j \in Listener |-> Hearing(x, u)[j]]
      BY DEF Hearing
    <3> QED
      BY <1>4, <3>1, <3>2
  <2>4. /\ TypeOK' /\ RowsKept
        /\ \A s \in Subscription : subscription'[s].row = "stored" =>
             \/ subscription'[s] = subscription[s]
             \/ subscription'[s].user = u /\ subscription'[s].subject = x
        /\ \A y : FindAllUserIds(y)' = FindAllUserIds(y) \cup (IF y = x THEN {u} ELSE {})
    BY <1>1, <1>2, <1>4, <2>2, <2>3, InsertOK
  <2>5. OthersStand(None) /\ None \notin Call
    BY <2>1, NoneAssumption DEF OthersStand
  <2>6. ASSUME NEW c \in Call PROVE Undisturbed(c)
    <3>1. call[c].stage = "adding" /\ call[c].id = x /\ call[c].body = u => call'[c].overtaken
      BY <2>2, <2>5 DEF Adding, At
    <3> QED
      BY <1>1, <2>4, <3>1 DEF Undisturbed
  <2>7. (\A c \in Call : RequestOK(call[c]))'
    BY <2>4, <2>5, <2>6, RequestsKept
  <2>8. ASSUME NEW j \in Listener PROVE ChainOK(listener[j])'
    <3>1. PICK h : h = Hearing(x, u)[j]
      OBVIOUS
    <3>2. h \in Chain /\ ChainOK(h)'
      BY <1>1, <1>2, <2>4, <3>1, HearingOK
    <3>3. PICK g : g = listener'[j]
      OBVIOUS
    <3>4. g = IF j = l THEN Settled([h EXCEPT !.subscribe = "idle"]) ELSE h
      <4>1. Hearing(x, u) = [i \in Listener |-> Hearing(x, u)[i]]
        BY DEF Hearing
      <4> QED
        BY <1>4, <3>1, <3>3, <4>1
    <3>5. ChainOK([h EXCEPT !.subscribe = "idle"])'
      <4>1. PICK i : i = [h EXCEPT !.subscribe = "idle"]
        OBVIOUS
      <4>2. /\ i.attend = h.attend /\ i.subject = h.subject /\ i.about = h.about
            /\ i.user = h.user /\ i.subscribe = "idle" /\ i.notify = h.notify
            /\ i.ids = h.ids /\ i.told = h.told /\ i.steady = h.steady /\ i.ever = h.ever
        BY <3>2, <4>1 DEF Chain
      <4>3. ChainOK(i)'
        BY <3>2, <4>2 DEF ChainOK
      <4> QED
        BY <4>1, <4>3
    <3>6. ChainOK(g)'
      BY <3>2, <3>4, <3>5, SilentOK DEF Settled
    <3> QED
      BY <3>3, <3>6 DEF ChainOK, FindAllUserIds, Subscriptions, EventExists
  <2>9. Announcements'
    BY <1>1, <2>5, AnnouncementsKept
  <2> QED
    BY <1>1, <2>4, <2>7, <2>8, <2>9
       DEF IInv, References, RefusedNewsUnlisted, EventExists, SubjectExists
<1> QED
  BY <1>3, <1>4 DEF SubscribeBuyer

-----------------------------------------------------------------------------
(* Orders, crashes and answers on their way                                *)

LEMMA PlaceOrderStep ==
    ASSUME IInv, NEW e \in Event, NEW u \in User, PlaceOrder(e, u)
    PROVE  IInv'
<1> DEFINE chain == [Silent EXCEPT !.subject = e, !.user = u, !.attend = "emitting"]
<1>1. /\ EventExists(e) /\ ordered' = ordered \cup {<<e, u>>} /\ Emit(chain) /\ TypeOK
      /\ UNCHANGED <<call, event, attendee, subscription, news, announced, presented, blurred,
                     lost>>
  BY DEF PlaceOrder, IInv, rows, history
<1>2. /\ chain \in Chain /\ chain.attend = "emitting" /\ chain.subject = e /\ chain.user = u
      /\ chain.subscribe = "idle" /\ chain.notify = "idle" /\ chain.told = {}
      /\ chain.about = None
  <2>1. /\ Silent.subscribe = "idle" /\ Silent.notify = "idle" /\ Silent.told = {}
        /\ Silent.about = None /\ e \in Subject
    BY DEF Silent, Subject
  <2> QED
    BY <2>1, SilentOK DEF Chain
<1> HIDE DEF chain
<1>3. PICK l \in Listener : listener' = [listener EXCEPT ![l] = chain]
  BY <1>1 DEF Emit
<1>4. listener' \in [Listener -> Chain]
  BY <1>1, <1>2, <1>3 DEF TypeOK
<1>5. TypeOK'
  <2>1. \A s \in Subscription : subscription'[s].row = "stored" =>
          SubjectExists(subscription[s].subject)'
    BY <1>1 DEF TypeOK, SubjectExists, EventExists
  <2> QED
    <3>1. ordered \subseteq ordered' /\ ordered' \subseteq Event \X User /\ lost' \subseteq ordered'
      BY <1>1 DEF TypeOK
    <3>2. \A d \in Event, v \in User : Joined(d, v)' => EventExists(d)' /\ <<d, v>> \in ordered'
      BY <1>1, <3>1 DEF TypeOK, EventExists, Joined
    <3> QED
      BY <1>1, <1>4, <2>1, <3>1, <3>2 DEF TypeOK
<1>6. RowsKept
  BY <1>1 DEF RowsKept
<1>7. ASSUME NEW k \in Call PROVE RequestOK(call[k])'
  <2>1. Undisturbed(k) /\ RequestOK(call[k])
    BY <1>1 DEF Undisturbed, IInv
  <2> QED
    BY <1>1, <1>6, <2>1, OthersKept
<1>8. ASSUME NEW j \in Listener PROVE ChainOK(listener[j])'
  <2>1. CASE j = l
    <3>1. PICK g : g = listener'[j]
      OBVIOUS
    <3>2. g = chain
      BY <1>1, <1>3, <2>1, <3>1 DEF TypeOK
    <3> QED
      BY <1>1, <1>2, <3>1, <3>2, NoneAssumption DEF ChainOK
  <2>2. CASE j # l
    <3>1. PICK k : k = listener[j]
      OBVIOUS
    <3>2. k \in Chain /\ ChainOK(k) /\ listener'[j] = k
      BY <1>1, <1>3, <2>2, <3>1 DEF IInv, TypeOK
    <3> QED
      BY <1>1, <1>5, <1>6, <3>2, ChainKept
  <2> QED
    BY <2>1, <2>2
<1>9. References' /\ RefusedNewsUnlisted'
  <2>1. \A d \in Event, v \in User : <<d, v>> \in ordered' => EventExists(d)
    BY <1>1 DEF IInv, References
  <2> QED
    BY <1>1, <2>1 DEF IInv, References, RefusedNewsUnlisted, EventExists, SubjectExists
<1>10. Announcements'
  BY <1>1, NoneAssumption, AnnouncementsKept DEF OthersStand
<1> QED
  BY <1>5, <1>7, <1>8, <1>9, <1>10 DEF IInv

LEMMA CrashStep ==
    ASSUME IInv, Crash
    PROVE  IInv'
<1> DEFINE untold(e) == {call[c].body.field : c \in {d \in Call : At(d, "announcing")
                                                                   /\ call[d].id = e}}
           unpresented(e) == {"created" : c \in {d \in Call : At(d, "presenting")
                                                               /\ call[d].id = e}}
           died == {<<listener[l].subject, listener[l].user>> :
                      l \in {k \in Listener : listener[k].attend # "idle"}}
<1>1. /\ call' = [c \in Call |-> Idle] /\ listener' = [l \in Listener |-> Silent]
      /\ lost' = lost \cup died
      /\ blurred' = [e \in Event |-> blurred[e] \cup untold(e) \cup unpresented(e)]
      /\ UNCHANGED <<event, attendee, subscription, news, ordered, announced, presented>>
      /\ TypeOK
  BY DEF Crash, IInv, rows
<1>2. call' \in [Call -> RequestRecord] /\ \A c \in Call : call'[c] = Idle
  BY <1>1, IdleType
<1>3. listener' \in [Listener -> Chain] /\ \A l \in Listener : listener'[l] = Silent
  BY <1>1, SilentOK
<1>4. lost' \subseteq ordered
  <2>1. died \subseteq ordered
    BY DEF IInv, ChainOK
  <2> QED
    BY <1>1, <2>1 DEF TypeOK
<1>5. \A e \in Event : untold(e) \subseteq Field /\ unpresented(e) \subseteq {"created"}
  BY DEF At, IInv, RequestOK, Findings
<1> HIDE DEF untold, unpresented, died
<1>6. blurred' \in [Event -> SUBSET (Field \cup {"created"})]
  BY <1>1, <1>5 DEF TypeOK
<1>7. TypeOK'
  <2>1. \A s \in Subscription : subscription'[s].row = "stored" =>
          SubjectExists(subscription[s].subject)'
    BY <1>1 DEF TypeOK, SubjectExists, EventExists
  <2> QED
    BY <1>1, <1>2, <1>3, <1>4, <1>6, <2>1 DEF TypeOK, RequestRecord, EventExists, Joined
<1>8. \A c \in Call : RequestOK(call[c])'
  BY <1>2, IdleOK
<1>9. ASSUME NEW l \in Listener PROVE ChainOK(listener[l])'
  <2>1. PICK k : k = listener'[l]
    OBVIOUS
  <2>2. k = Silent
    BY <1>3, <2>1
  <2> QED
    BY <2>1, <2>2, SilentOK DEF ChainOK, FindAllUserIds, Subscriptions, EventExists
<1>10. References' /\ RefusedNewsUnlisted'
  BY <1>1 DEF IInv, References, RefusedNewsUnlisted, EventExists, SubjectExists
<1>11. Announcements'
  <2> SUFFICES ASSUME NEW e \in Event, NEW f \in Field PROVE AnnouncementsOf(e, f)'
    BY DEF Announcements
  <2>1. \A k \in Call : ~AnnouncingOf(k, e, f)'
    BY <1>2 DEF AnnouncingOf, Idle
  <2>2. \A k \in Call : AnnouncingOf(k, e, f) => f \in blurred'[e]
    BY <1>1 DEF untold, AnnouncingOf, At
  <2>3. Known(e, f) => Known(e, f)'
    BY <1>1 DEF Known
  <2>4. EventExists(e)' => EventExists(e)
    BY <1>1 DEF EventExists
  <2>5. f \in blurred'[e] => Known(e, f)'
    BY DEF Known
  <2> HIDE DEF Known
  <2> QED
    BY <2>1, <2>2, <2>3, <2>4, <2>5 DEF IInv, Announcements, AnnouncementsOf
<1> QED
  BY <1>7, <1>8, <1>9, <1>10, <1>11 DEF IInv

LEMMA OddAnswerStep ==
    ASSUME IInv, NEW c \in Call, SendOddAnswer(c), Quiet
    PROVE  IInv'
<1>1. /\ call[c].stage # "announcing" /\ Idle.stage # "announcing"
      /\ call' = [call EXCEPT ![c] = Idle] /\ Idle.stage = "idle"
  BY DEF SendOddAnswer, Odd, At, Idle
<1>2. RequestOK(Idle)
  BY <1>1 DEF RequestOK, Replies, Findings, ListSound, Fresh, Listing, EventStages, EventSeen,
              SubjectStages, SubjectSeen
<1> QED
  BY <1>1, <1>2, IdleType, QuietStep

LEMMA StutterStep ==
    ASSUME IInv, UNCHANGED vars
    PROVE  IInv'
<1>1. UNCHANGED <<call, event, attendee, subscription, news, ordered, listener, announced,
                  presented, blurred, lost>>
  BY DEF vars
<1>2. TypeOK /\ \A l \in Listener : ChainOK(listener[l])
  BY DEF IInv
<1>3. OthersStand(None) /\ Announcements'
  BY <1>1, NoneAssumption, AnnouncementsKept DEF OthersStand
<1> QED
  BY <1>1, <1>2, <1>3, NoneAssumption, TablesStand DEF TypeOK, RequestRecord

-----------------------------------------------------------------------------
(* Theorems                                                                *)

LEMMA InvInit == Init => IInv
<1> SUFFICES ASSUME Init PROVE IInv
  OBVIOUS
<1> DEFINE noSubscription == [row |-> "none", user |-> None, subject |-> None]
           noNews == [row |-> "none", author |-> None, subject |-> None, refused |-> FALSE]
<1>1. /\ call = [c \in Call |-> Idle]
      /\ event = [e \in Event |-> NoEvent]
      /\ attendee = [e \in Event |-> [u \in User |-> "none"]]
      /\ subscription = [s \in Subscription |-> noSubscription]
      /\ news = [n \in News |-> noNews]
      /\ ordered = {} /\ presented = {} /\ lost = {}
      /\ listener = [l \in Listener |-> Silent]
      /\ announced = [e \in Event |-> NoEvent.value]
      /\ blurred = [e \in Event |-> {}]
  BY DEF Init
<1>2. /\ noSubscription \in SubscriptionRow /\ noSubscription.row = "none"
      /\ noNews \in NewsRow /\ noNews.row = "none" /\ noNews.subject = None /\ ~noNews.refused
      /\ NoEvent \in EventRow /\ NoEvent.row = "none" /\ NoEvent.value \in [Field -> Value]
      /\ "none" \in AttendeeRow
  <2>1. NoEvent.row = "none"
    BY DEF NoEvent
  <2> QED
    BY <2>1, NoEventType DEF SubscriptionRow, NewsRow, RowState, EventRow, AttendeeRow
<1> HIDE DEF noSubscription, noNews
<1>3. \A c \in Call : call[c].stage = "idle"
  <2>1. Idle.stage = "idle"
    BY DEF Idle
  <2>2. call = [c \in Call |-> Idle]
    BY <1>1
  <2> QED
    BY <2>1, <2>2
<1>4. TypeOK
  <2>1. call \in [Call -> RequestRecord]
    BY <1>1, IdleType
  <2>2. listener \in [Listener -> Chain]
    BY <1>1, SilentOK
  <2>3. /\ event \in [Event -> EventRow] /\ attendee \in [Event -> [User -> AttendeeRow]]
        /\ subscription \in [Subscription -> SubscriptionRow] /\ news \in [News -> NewsRow]
        /\ announced \in [Event -> [Field -> Value]]
        /\ blurred \in [Event -> SUBSET (Field \cup {"created"})]
    BY <1>1, <1>2
  <2>4. /\ \A e \in Event, u \in User : ~Joined(e, u)
        /\ \A s \in Subscription : subscription[s].row # "stored"
    BY <1>1, <1>2 DEF Joined
  <2> QED
    BY <1>1, <2>1, <2>2, <2>3, <2>4 DEF TypeOK, RequestRecord
<1>5. ASSUME NEW c \in Call PROVE RequestOK(call[c])
  BY <1>3 DEF RequestOK, Replies, Findings, ListSound, Fresh, Listing, EventStages, EventSeen,
              SubjectStages, SubjectSeen
<1>6. ASSUME NEW l \in Listener PROVE ChainOK(listener[l])
  BY <1>1, SilentOK
<1>7. References /\ RefusedNewsUnlisted
  BY <1>1, <1>2 DEF References, RefusedNewsUnlisted
<1>8. Announcements
  BY <1>1, <1>3 DEF Announcements, AnnouncementsOf, AnnouncingOf, Known
<1> QED
  BY <1>4, <1>5, <1>6, <1>7, <1>8 DEF IInv

LEMMA InvStep == IInv /\ [Next]_vars => IInv'
<1> SUFFICES ASSUME IInv, [Next]_vars PROVE IInv'
  OBVIOUS
<1>1. ASSUME NEW c \in Call, SendOddAnswer(c), Quiet PROVE IInv'
  BY <1>1, OddAnswerStep
<1>2. ASSUME NEW c \in Call, Begin(c) PROVE IInv'
  BY <1>2, HandlersOfEvents, HandlersOfSubscriptions, HandlersOfNews, ReadsOfAudience DEF Begin
<1>3. ASSUME NEW c \in Call, Continue(c) PROVE IInv'
  BY <1>3, StoreEventStep, PresentEventStep, ReadEventToUpdateStep, WriteChangeStep,
     AnnounceChangeStep, QuietLists, SetVisibilityStep, QuietSubscriptions, AddSubscriptionStep,
     RemoveSubscriptionStep, QuietNews, StoreNewsStep, AnnounceNewsStep, RemoveNewsStep
  DEF Continue
<1>4. ASSUME NEW l \in Listener, ListenerStep(l) \/ ListenerFails(l) PROVE IInv'
  BY <1>4, QuietListeners, JoinEventStep, SubscribeBuyerStep, ListenerFailsStep DEF ListenerStep
<1>5. ASSUME NEW e \in Event, NEW u \in User, PlaceOrder(e, u) PROVE IInv'
  BY <1>5, PlaceOrderStep
<1>6. ASSUME NEW e \in Event, DeleteEvent(e) PROVE IInv'
  BY <1>6, DeleteEventStep
<1>7. CASE Crash
  BY <1>7, CrashStep
<1>8. CASE UNCHANGED vars
  BY <1>8, StutterStep
<1> QED
  BY <1>1, <1>2, <1>3, <1>4, <1>5, <1>6, <1>7, <1>8 DEF Next

\* What every reachable state satisfies, whatever requests, listeners, orders, deletions and
\* crashes interleave.
THEOREM Invariance == Spec => []IInv
<1> QED
  BY InvInit, InvStep, PTL DEF Spec

\* The tables stay well formed: only who has ordered attends, and nobody is subscribed to
\* something twice or to what is gone, although a listener and a request may insert at one time.
THEOREM Types == Spec => []TypeOK
<1>1. IInv => TypeOK
  BY DEF IInv
<1> QED
  BY <1>1, Invariance, PTL

\* Listeners have been told the values that the events' rows hold (EventsService.update), unless
\* the announcement is on its way, a crash or another update came between, or it was a date taken
\* away.
THEOREM ValuesAnnounced == Spec => []AnnouncedValues
<1>1. IInv => AnnouncedValues
  BY DEF IInv, Announcements, AnnouncementsOf, AnnouncingOf, Known, AnnouncedValues, At
<1> QED
  BY <1>1, Invariance, PTL

\* A list of attendees shows nobody beside the viewer whom the settings hide, unless a setting
\* changed after it was read (getEventAttendees).
THEOREM ListsShown == Spec => []ListsRespectVisibility
<1>1. IInv => ListsRespectVisibility
  <2> SUFFICES ASSUME IInv, NEW c \in Call, call[c].stage = "listed", ~call[c].overtaken,
                      NEW u \in call[c].memo.list \ {call[c].body}
               PROVE  /\ attendee[call[c].id][u] = "visible"
                      /\ \/ event[call[c].id].attendeeVisibility = "EVERYONE"
                         \/ /\ event[call[c].id].attendeeVisibility = "ATTENDEES_ONLY"
                            /\ call[c].body # None /\ Joined(call[c].id, call[c].body)
    BY DEF ListsRespectVisibility, At
  <2>1. /\ call[c].id \in Event /\ u \in User
        /\ attendee[call[c].id][u] = "visible" /\ Admitted(call[c])
    BY DEF IInv, RequestOK, Findings, ListSound, EventStages, Listing, Lists
  <2>2. EventExists(call[c].id)
    BY <2>1 DEF IInv, TypeOK, Joined
  <2>3. event[call[c].id].attendeeVisibility = call[c].memo.visibility
    BY <2>2 DEF IInv, RequestOK, Fresh, Listing
  <2> QED
    BY <2>1, <2>3 DEF Admitted
<1> QED
  BY <1>1, Invariance, PTL

\* News that a 404 hides from their author are on no event's list (NewsService.create), however the
\* event's deletion meets the two lookups.
THEOREM RefusedNews == Spec => []RefusedNewsUnlisted
<1>1. IInv => RefusedNewsUnlisted
  BY DEF IInv
<1> QED
  BY <1>1, Invariance, PTL

\* Whoever was subscribed throughout an emission is notified, unless their own insert fails, and
\* nobody who never was (NotificationsService.createNotification), whoever subscribes and leaves
\* meanwhile.
THEOREM Notified == Spec => []RightPeopleTold
<1>1. IInv => RightPeopleTold
  BY DEF IInv, ChainOK, RightPeopleTold
<1> QED
  BY <1>1, Invariance, PTL

\* A request is answered as its controller documents, unless it lost a race or is one of the
\* listed exceptions.
THEOREM DocumentedAnswers == Spec => []AnswersAsDocumented
<1>1. IInv => AnswersAsDocumented
  BY DEF IInv, RequestOK, Replies, Excused, AnswersAsDocumented, Odd, At
<1> QED
  BY <1>1, Invariance, PTL

-----------------------------------------------------------------------------
(* News of events.  PublishedEventsAnnounced does not hold: an event that  *)
(* is created as a draft and published by a later PATCH is presented to    *)
(* nobody.  That is the only way: as is proved here, an event that was     *)
(* created published is presented, whatever else goes on, unless the       *)
(* process dies in between.                                                *)

\* No PATCH that is written publishes a draft.
NoLatePublication ==
  \A c \in Call : WriteChange(c) =>
    LET change == call[c].body   e == call[c].id IN
    ~(/\ change.field = "status" /\ change.value = "set"
      /\ EventExists(e) /\ event[e].value["status"] = "unset")

Published(e) == EventExists(e) /\ event[e].value["status"] = "set"
PresentingOf(k, e) ==
  call[k].stage = "presenting" /\ call[k].id = e /\ call[k].body.value["status"] = "set"
Presented(e) ==
  e \in presented \/ "created" \in blurred[e] \/ \E k \in Call : PresentingOf(k, e)

\* Who has created a published event is about to present it.
PublicationInv == \A e \in Event : Published(e) => Presented(e)

\* Nothing but its own next step, or a crash, takes a request from presenting its event.
LEMMA PresentationsKept ==
    ASSUME IInv, PublicationInv, NEW c, OthersStand(c),
           c \in Call => call[c].stage # "presenting",
           \A e \in Event : Published(e)' =>
             /\ Published(e)
             /\ e \in presented => e \in presented'
             /\ "created" \in blurred[e] => "created" \in blurred'[e]
    PROVE  PublicationInv'
<1> SUFFICES ASSUME NEW e \in Event, Published(e)' PROVE Presented(e)'
  BY DEF PublicationInv
<1>1. Published(e) /\ Presented(e)
  BY DEF PublicationInv
<1>2. CASE e \in presented \/ "created" \in blurred[e]
  BY <1>2 DEF Presented
<1>3. ASSUME NEW k \in Call, PresentingOf(k, e) PROVE Presented(e)'
  <2>1. k # c
    BY <1>3 DEF PresentingOf
  <2>2. PresentingOf(k, e)'
    BY <1>3, <2>1, OthersFields DEF PresentingOf, IInv
  <2> QED
    BY <2>2 DEF Presented
<1> QED
  BY <1>1, <1>2, <1>3 DEF Presented

LEMMA EventsStand ==
    ASSUME IInv, PublicationInv, NEW c, OthersStand(c),
           c \in Call => call[c].stage # "presenting", UNCHANGED <<event, presented, blurred>>
    PROVE  PublicationInv'
BY PresentationsKept DEF Published, EventExists

LEMMA BeginsPresented ==
    ASSUME IInv, PublicationInv, NEW c \in Call, Free(c), Begin(c)
    PROVE  PublicationInv'
<1>1. OthersStand(c)
  BY DEF Begin, CreateEvent, UpdateEvent, GetEventAttendees, UpdateAttendee, Subscribe,
     Unsubscribe, GetEventSubscriptionInfo, GetCompanySubscriptionInfo, CreateEventNews,
     CreateCompanyNews, FindEventNews, FindCompanyNews, FindNews, UpdateNews, DeleteNews,
     UpdateNotification, ReadSubject, Admit, Answer, OthersStand, IInv, TypeOK
<1>2. UNCHANGED <<event, presented, blurred>>
  BY DEF Begin, CreateEvent, UpdateEvent, GetEventAttendees, UpdateAttendee, Subscribe,
     Unsubscribe, GetEventSubscriptionInfo, GetCompanySubscriptionInfo, CreateEventNews,
     CreateCompanyNews, FindEventNews, FindCompanyNews, FindNews, UpdateNews, DeleteNews,
     UpdateNotification, ReadSubject, Quiet, history
<1> QED
  BY <1>1, <1>2, EventsStand DEF Free, At

\* The steps of requests that write neither an event nor what its listeners were told.
LEMMA RequestsPresented ==
    ASSUME IInv, PublicationInv, NEW c \in Call,
           \/ ReadEventToUpdate(c) \/ OpenList(c) \/ ListOneself(c) \/ CheckMembership(c)
           \/ ListOthers(c) \/ AnswerList(c) \/ SetVisibility(c) \/ FindSubject(c)
           \/ CheckSubscription(c) \/ AddSubscription(c) \/ FindSubscription(c)
           \/ RemoveSubscription(c) \/ FindNewsSubject(c) \/ StoreNews(c) \/ AnnounceNews(c)
           \/ FindNewsToUpdate(c) \/ FindNewsToDelete(c) \/ WriteNews(c) \/ RemoveNews(c)
    PROVE  PublicationInv'
<1> USE DEF At, Reply, Goto, Overtaking, OthersStand, Quiet, history
<1>1. call \in [Call -> RequestRecord]
  BY DEF IInv, TypeOK, RequestRecord
<1> DEFINE Frame == /\ OthersStand(c) /\ call[c].stage # "presenting"
                    /\ UNCHANGED <<event, presented, blurred>>
<1>2. CASE ReadEventToUpdate(c) \/ FindSubject(c) \/ CheckSubscription(c) \/ AnswerList(c)
  <2>1. Frame
    BY <1>1, <1>2 DEF ReadEventToUpdate, FindSubject, CheckSubscription, AnswerList
  <2> QED
    BY <2>1, EventsStand
<1>3. CASE OpenList(c) \/ ListOneself(c) \/ CheckMembership(c) \/ ListOthers(c)
  <2>1. Frame
    BY <1>1, <1>3 DEF OpenList, ListOneself, CheckMembership, ListOthers
  <2> QED
    BY <2>1, EventsStand
<1>4. CASE SetVisibility(c) \/ AddSubscription(c) \/ FindSubscription(c) \/ RemoveSubscription(c)
  <2>1. Frame
    BY <1>1, <1>4 DEF SetVisibility, AddSubscription, FindSubscription, RemoveSubscription
  <2> QED
    BY <2>1, EventsStand
<1>5. CASE FindNewsSubject(c) \/ StoreNews(c) \/ AnnounceNews(c) \/ WriteNews(c)
  <2>1. Frame
    BY <1>1, <1>5 DEF FindNewsSubject, StoreNews, AnnounceNews, WriteNews
  <2> QED
    BY <2>1, EventsStand
<1>6. CASE FindNewsToUpdate(c) \/ FindNewsToDelete(c) \/ RemoveNews(c)
  <2>1. Frame
    BY <1>1, <1>6 DEF FindNewsToUpdate, FindNewsToDelete, FindNewsFirst, RemoveNews
  <2> QED
    BY <2>1, EventsStand
<1> QED
  BY <1>2, <1>3, <1>4, <1>5, <1>6

LEMMA ListenersPresented ==
    ASSUME IInv, PublicationInv, NEW l \in Listener, ListenerStep(l) \/ ListenerFails(l)
    PROVE  PublicationInv'
<1>1. UNCHANGED <<event, presented, blurred>>
  BY DEF ListenerStep, EmitOrderCreated, FindAttendee, JoinEvent, FindBuyersSubscription,
     SubscribeBuyer, FindNotified, ReadRecipients, StoreNotification, ListenerFails, Only, history
<1>2. OthersStand(None)
  BY DEF ListenerStep, EmitOrderCreated, FindAttendee, JoinEvent, FindBuyersSubscription,
     SubscribeBuyer, FindNotified, ReadRecipients, StoreNotification, ListenerFails, Only,
     Overtaking, OthersStand
<1> QED
  BY <1>1, <1>2, NoneAssumption, EventsStand

\* The creator of a published event is to present it.
LEMMA StoredPresented ==
    ASSUME IInv, PublicationInv, NEW c \in Call, StoreEvent(c)
    PROVE  PublicationInv'
<1>1. PICK e \in Event : /\ event[e].row = "none"
                         /\ event' = [event EXCEPT ![e] = call[c].body]
                         /\ call' = [call EXCEPT ![c].id = e, ![c].stage = "presenting"]
  BY DEF StoreEvent
<1>2. call[c].stage = "creating" /\ UNCHANGED <<presented, blurred>>
  BY DEF StoreEvent, At
<1>3. call[c] \in RequestRecord /\ call \in [Call -> RequestRecord]
  BY DEF IInv, TypeOK, RequestRecord
<1>4. call'[c].stage = "presenting" /\ call'[c].id = e /\ call'[c].body = call[c].body
  BY <1>1, <1>3 DEF RequestRecord, Request
<1>5. OthersStand(c)
  BY <1>1, <1>3 DEF OthersStand
<1>6. event'[e] = call[c].body /\ \A x \in Event \ {e} : event'[x] = event[x]
  BY <1>1 DEF IInv, TypeOK
<1> SUFFICES ASSUME NEW x \in Event, Published(x)' PROVE Presented(x)'
  BY DEF PublicationInv
<1>7. CASE x = e
  <2>1. PresentingOf(c, e)'
    BY <1>4, <1>6, <1>7 DEF PresentingOf, Published
  <2> QED
    BY <1>7, <2>1 DEF Presented
<1>8. CASE x # e
  <2>1. Presented(x)
    BY <1>6, <1>8 DEF PublicationInv, Published, EventExists
  <2>2. ASSUME NEW k \in Call, PresentingOf(k, x) PROVE PresentingOf(k, x)'
    BY <1>2, <1>5, <2>2, OthersFields DEF PresentingOf, IInv
  <2> QED
    BY <1>2, <2>1, <2>2 DEF Presented
<1> QED
  BY <1>7, <1>8

\* The presentation is made, or the body was a draft.
LEMMA PresentedOnce ==
    ASSUME IInv, PublicationInv, NEW c \in Call, PresentEvent(c)
    PROVE  PublicationInv'
<1>1. /\ call[c].stage = "presenting" /\ UNCHANGED <<event, blurred>>
      /\ presented \subseteq presented'
      /\ call[c].body.value["status"] # "unset" => call[c].id \in presented'
  BY DEF PresentEvent, At
<1>2. OthersStand(c)
  BY DEF PresentEvent, Reply, OthersStand, IInv, TypeOK
<1> SUFFICES ASSUME NEW e \in Event, Published(e)' PROVE Presented(e)'
  BY DEF PublicationInv
<1>3. Presented(e)
  BY <1>1 DEF PublicationInv, Published, EventExists
<1>4. ASSUME NEW k \in Call, PresentingOf(k, e) PROVE Presented(e)'
  <2>1. CASE k = c
    BY <1>1, <1>4, <2>1 DEF PresentingOf, Presented
  <2>2. CASE k # c
    <3>1. PresentingOf(k, e)'
      BY <1>2, <1>4, <2>2, OthersFields DEF PresentingOf, IInv
    <3> QED
      BY <3>1 DEF Presented
  <2> QED
    BY <2>1, <2>2
<1> QED
  BY <1>1, <1>3, <1>4 DEF Presented

\* A PATCH of another column, or of a status that does not publish a draft.
LEMMA ChangesPresented ==
    ASSUME IInv, PublicationInv, NoLatePublication, NEW c \in Call, WriteChange(c)
    PROVE  PublicationInv'
<1> DEFINE e == call[c].id
           change == call[c].body
<1>1. call[c].stage = "writing" /\ UNCHANGED <<presented, blurred>>
  BY DEF WriteChange, At, history
<1>2. call \in [Call -> RequestRecord]
  BY DEF IInv, TypeOK, RequestRecord
<1>3. OthersStand(c)
  BY <1>2 DEF WriteChange, Reply, Overtaking, OthersStand
<1>4. e \in Event /\ change \in Changes
  BY <1>1 DEF IInv, RequestOK, Findings, EventStages
<1>5. event[e] \in EventRow
  BY <1>4 DEF IInv, TypeOK
<1>6. ASSUME NEW x \in Event, Published(x)' PROVE Published(x)
  <2>1. CASE event'[x] = event[x]
    BY <1>6, <2>1 DEF Published, EventExists
  <2>2. CASE event'[x] # event[x]
    <3>1. EventExists(e) /\ x = e
      BY <2>2 DEF WriteChange, IInv, TypeOK
    <3>2. CASE change.field = "attendeeVisibility"
      <4>1. event' = [event EXCEPT ![e] =
                        [event[e] EXCEPT !.attendeeVisibility = change.value]]
        BY <3>1, <3>2 DEF WriteChange
      <4>2. event'[e] = [event[e] EXCEPT !.attendeeVisibility = change.value]
        BY <1>4, <4>1 DEF IInv, TypeOK
      <4>3. event'[e].value = event[e].value
        BY <1>5, <4>2 DEF EventRow
      <4> QED
        BY <1>6, <3>1, <4>3 DEF Published, EventExists
    <3>3. CASE change.field # "attendeeVisibility"
      <4>1. event' = [event EXCEPT ![e] =
               [event[e] EXCEPT !.value = [event[e].value EXCEPT ![change.field] = change.value]]]
        BY <3>1, <3>3 DEF WriteChange
      <4>2. event'[e] =
               [event[e] EXCEPT !.value = [event[e].value EXCEPT ![change.field] = change.value]]
        BY <1>4, <4>1 DEF IInv, TypeOK
      <4>3. event'[e].value = [event[e].value EXCEPT ![change.field] = change.value]
        BY <1>5, <4>2 DEF EventRow
      <4>4. event[e].value \in [Field -> Value] /\ "status" \in Field
        BY <1>5, FieldAssumption DEF EventRow
      <4>5. event'[e].value["status"] = "set" => event[e].value["status"] # "unset"
        BY <3>1, <4>3, <4>4 DEF NoLatePublication
      <4> QED
        BY <1>6, <3>1, <4>4, <4>5 DEF Published, Value
    <3> QED
      BY <3>2, <3>3
  <2> QED
    BY <2>1, <2>2
<1> QED
  BY <1>1, <1>3, <1>6, PresentationsKept

\* What an announcement leaves told or untold concerns its own column only.
LEMMA AnnouncementsPresented ==
    ASSUME IInv, PublicationInv, NEW c \in Call, AnnounceChange(c)
    PROVE  PublicationInv'
<1>1. call[c].stage = "announcing" /\ UNCHANGED <<event, presented>>
  BY DEF AnnounceChange, At
<1>2. OthersStand(c)
  BY DEF AnnounceChange, Reply, OthersStand, IInv, TypeOK
<1>3. call[c].body.field # "created"
  BY <1>1, FieldAssumption DEF IInv, RequestOK, Findings
<1>4. \A e \in Event : "created" \in blurred[e] => "created" \in blurred'[e]
  BY <1>3 DEF AnnounceChange, IInv, TypeOK
<1> QED
  BY <1>1, <1>2, <1>4, PresentationsKept DEF Published, EventExists

LEMMA PublicationStep ==
    ASSUME IInv, PublicationInv, [Next]_vars, NoLatePublication
    PROVE  PublicationInv'
<1>1. ASSUME NEW c \in Call, SendOddAnswer(c), Quiet PROVE PublicationInv'
  <2>1. OthersStand(c) /\ call[c].stage # "presenting" /\ UNCHANGED <<event, presented, blurred>>
    BY <1>1 DEF SendOddAnswer, Odd, At, OthersStand, Quiet, history, IInv, TypeOK
  <2> QED
    BY <2>1, EventsStand
<1>2. ASSUME NEW c \in Call, Continue(c) PROVE PublicationInv'
  BY <1>2, RequestsPresented, StoredPresented, PresentedOnce, ChangesPresented,
     AnnouncementsPresented DEF Continue
<1>3. ASSUME NEW e \in Event, NEW u \in User, PlaceOrder(e, u) PROVE PublicationInv'
  <2>1. OthersStand(None) /\ UNCHANGED <<event, presented, blurred>>
    BY <1>3 DEF PlaceOrder, OthersStand, history
  <2> QED
    BY <2>1, NoneAssumption, EventsStand
<1>4. ASSUME NEW x \in Event, DeleteEvent(x) PROVE PublicationInv'
  <2>1. OthersStand(None)
    BY <1>4 DEF DeleteEvent, OthersStand
  <2>2. [NoEvent EXCEPT !.row = "deleted"].row = "deleted"
    BY DEF NoEvent
  <2>3. event'[x].row = "deleted" /\ \A e \in Event \ {x} : event'[e] = event[e]
    BY <1>4, <2>2 DEF DeleteEvent, IInv, TypeOK
  <2>4. \A e \in Event \ {x} : blurred'[e] = blurred[e] /\ (e \in presented => e \in presented')
    BY <1>4 DEF DeleteEvent, IInv, TypeOK
  <2>5. \A e \in Event : Published(e)' => e # x
    BY <2>3 DEF Published, EventExists
  <2> QED
    BY <2>1, <2>3, <2>4, <2>5, NoneAssumption, PresentationsKept DEF Published, EventExists
<1>5. CASE Crash
  <2> SUFFICES ASSUME NEW e \in Event, Published(e)' PROVE Presented(e)'
    BY DEF PublicationInv
  <2>1. Presented(e)
    BY <1>5 DEF Crash, PublicationInv, Published, EventExists
  <2>2. /\ UNCHANGED presented /\ blurred[e] \subseteq blurred'[e]
        /\ \A k \in Call : At(k, "presenting") /\ call[k].id = e => "created" \in blurred'[e]
    BY <1>5 DEF Crash
  <2> QED
    BY <2>1, <2>2 DEF Presented, PresentingOf, At
<1>6. CASE UNCHANGED vars
  <2>1. OthersStand(None) /\ UNCHANGED <<event, presented, blurred>>
    BY <1>6 DEF vars, history, OthersStand
  <2> QED
    BY <2>1, NoneAssumption, EventsStand
<1> QED
  BY <1>1, <1>2, <1>3, <1>4, <1>5, <1>6, BeginsPresented, ListenersPresented DEF Next

\* Listeners are told of every published event, unless the process dies before, as long as no
\* draft is published by a PATCH: the other updates, deletions, orders and listeners do no harm.
THEOREM AnnouncedUnlessDrafted ==
  Spec /\ [][NoLatePublication]_vars => []PublishedEventsAnnounced
<1>1. Init => PublicationInv
  <2> SUFFICES ASSUME Init PROVE PublicationInv
    OBVIOUS
  <2>1. \A e \in Event : ~EventExists(e)
    BY DEF Init, EventExists, NoEvent
  <2> QED
    BY <2>1 DEF PublicationInv, Published
<1>2. IInv /\ PublicationInv /\ [Next]_vars /\ [NoLatePublication]_vars => PublicationInv'
  <2>1. UNCHANGED vars => (PublicationInv => PublicationInv')
    BY DEF vars, PublicationInv, Published, Presented, PresentingOf, EventExists, history
  <2> QED
    BY <2>1, PublicationStep
<1>3. PublicationInv => PublishedEventsAnnounced
  BY DEF PublicationInv, PublishedEventsAnnounced, Published, Presented, PresentingOf
<1> QED
  BY <1>1, <1>2, <1>3, Invariance, PTL DEF Spec
=============================================================================
