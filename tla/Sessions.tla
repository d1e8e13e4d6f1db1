------------------------------ MODULE Sessions ------------------------------
(***************************************************************************)
(* What the refresh tokens promise, with no table of nonces, no queries    *)
(* between reading and deleting a row, no jobs and no crashes: signing in  *)
(* gives a user a new token and starts a session; a token that works is    *)
(* traded, in one step, for a new one of the same session, and works no    *)
(* more; any set of tokens may stop working at any time, for good.         *)
(* Accounts (auth.service.ts, refresh-token-nonces.repository.ts)          *)
(* implements it, see Accounts!ImplementsSessions.                         *)
(***************************************************************************)
EXTENDS TLAPS

CONSTANTS Token,   \* refresh tokens, each handed out at most once
          Owner,   \* whom they are handed out to
          None

Distinct == None \notin Token \cup Owner

VARIABLES owner,     \* who was given each token, None if nobody yet
          session,   \* the first token of the session each token belongs to
          live       \* the tokens that work

bookVars == <<owner, session, live>>

BookTypeOK ==
    /\ owner \in [Token -> Owner \cup {None}]
    /\ session \in [Token -> Token \cup {None}]
    /\ live \subseteq Token

BookInit ==
    /\ owner = [t \in Token |-> None]
    /\ session = [t \in Token |-> None]
    /\ live = {}

\* A token may have stopped working by the time it reaches its owner.
HandOut(t, u, s, others) ==
    /\ owner[t] = None
    /\ owner' = [owner EXCEPT ![t] = u]
    /\ session' = [session EXCEPT ![t] = s]
    /\ live' \in {others, others \cup {t}}

SignIn(t, u) == HandOut(t, u, t, live)

Trade(old, t) ==
    /\ old \in live
    /\ HandOut(t, owner[old], session[old], live \ {old})

\* Any tokens may stop working: a logout, a reset, the jobs.
End ==
    /\ live' \in SUBSET live
    /\ UNCHANGED <<owner, session>>

BookNext ==
    \/ End
    \/ \E t \in Token :
         \/ \E u \in Owner : SignIn(t, u)
         \/ \E old \in Token : Trade(old, t)

BookSpec == BookInit /\ [][BookNext]_bookVars

-----------------------------------------------------------------------------

\* However often its token is refreshed, a session has at most one token that works.
OneTokenPerSession ==
    \A s, t \in live : session[s] = session[t] => s = t

\* A session belongs to one user from its first token to its last.
OneUserPerSession ==
    \A s, t \in Token : owner[s] # None /\ owner[t] # None /\ session[s] = session[t]
                          => owner[s] = owner[t]

\* Both need that every session was started by a token handed out to its user.
Started ==
    \A t \in Token :
      /\ owner[t] = None <=> session[t] = None
      /\ owner[t] # None => session[t] \in Token /\ owner[session[t]] = owner[t]
      /\ t \in live => owner[t] # None

BookInv == BookTypeOK /\ Started /\ OneTokenPerSession

-----------------------------------------------------------------------------
(* Proofs                                                                  *)

\* A token nobody has been given starts no session.
LEMMA FreshToken ==
    ASSUME Distinct, BookInv, NEW t \in Token, owner[t] = None, NEW s \in Token
    PROVE  session[s] # t
  BY DEF Distinct, BookInv, BookTypeOK, Started

\* What handing out a token takes: an owner, a session that is new or one of that owner's, and
\* no working token of that session among the others.
LEMMA HandOutStep ==
    ASSUME Distinct, BookInv, NEW t \in Token, NEW u \in Owner, NEW s \in Token,
           NEW others \in SUBSET live, HandOut(t, u, s, others),
           s = t \/ owner[s] = u, \A k \in others : session[k] # s
    PROVE  BookInv'
<1> USE DEF HandOut, BookInv, BookTypeOK
<1>1. BookTypeOK'
  OBVIOUS
<1>2. ASSUME NEW k \in Token
      PROVE  /\ owner'[k] = IF k = t THEN u ELSE owner[k]
             /\ session'[k] = IF k = t THEN s ELSE session[k]
  OBVIOUS
<1>3. Started'
  <2> SUFFICES ASSUME NEW k \in Token
               PROVE  /\ owner'[k] = None <=> session'[k] = None
                      /\ owner'[k] # None => /\ session'[k] \in Token
                                             /\ owner'[session'[k]] = owner'[k]
                      /\ k \in live' => owner'[k] # None
    BY DEF Started
  <2>1. CASE k = t
    BY <1>2, <2>1 DEF Distinct
  <2>2. CASE k # t
    <3>1. session[k] # t
      BY FreshToken
    <3>2. owner'[k] = owner[k] /\ session'[k] = session[k]
      BY <1>2, <2>2
    <3>3. owner[k] # None => owner'[session[k]] = owner[session[k]]
      BY <1>2, <3>1 DEF Started
    <3>4. k \in live' => k \in live
      BY <2>2
    <3> QED
      BY <3>2, <3>3, <3>4 DEF Started
  <2> QED
    BY <2>1, <2>2
<1>4. OneTokenPerSession'
  <2> SUFFICES ASSUME NEW k \in live', NEW l \in live', session'[k] = session'[l], k # l
               PROVE  FALSE
    BY DEF OneTokenPerSession
  <2>1. k \in Token /\ l \in Token
    BY <1>1
  <2>2. CASE k # t /\ l # t
    BY <1>2, <2>1, <2>2 DEF OneTokenPerSession
  <2>3. CASE k = t \/ l = t
    BY <1>2, <2>1, <2>3
  <2> QED
    BY <2>2, <2>3
<1> QED
  BY <1>1, <1>3, <1>4

LEMMA BookInitially == BookInit => BookInv
  BY DEF BookInit, BookInv, BookTypeOK, Started, OneTokenPerSession

LEMMA BookStep == Distinct /\ BookInv /\ [BookNext]_bookVars => BookInv'
<1> SUFFICES ASSUME Distinct, BookInv, [BookNext]_bookVars PROVE BookInv'
  OBVIOUS
<1>1. CASE End \/ UNCHANGED bookVars
  BY <1>1 DEF End, bookVars, BookInv, BookTypeOK, Started, OneTokenPerSession
<1>2. ASSUME NEW t \in Token, NEW u \in Owner, SignIn(t, u) PROVE BookInv'
  <2>1. owner[t] = None
    BY <1>2 DEF SignIn, HandOut
  <2>2. \A k \in live : session[k] # t
    BY <2>1, FreshToken DEF BookInv, BookTypeOK
  <2> QED
    BY <1>2, <2>2, HandOutStep DEF SignIn
<1>3. ASSUME NEW t \in Token, NEW old \in Token, Trade(old, t) PROVE BookInv'
  <2>1. old \in live /\ owner[old] # None
    BY <1>3 DEF Trade, BookInv, Started
  <2>2. owner[old] \in Owner /\ session[old] \in Token /\ owner[session[old]] = owner[old]
    BY <2>1 DEF BookInv, BookTypeOK, Started
  <2>3. \A k \in live \ {old} : session[k] # session[old]
    BY <2>1 DEF BookInv, OneTokenPerSession
  <2> QED
    BY <1>3, <2>2, <2>3, HandOutStep DEF Trade
<1> QED
  BY <1>1, <1>2, <1>3 DEF BookNext

\* Every step of the book keeps what its two promises rest on: who a token was handed out to, for
\* which session, and that the token before it is gone.
THEOREM BookInvariance == ASSUME Distinct PROVE BookSpec => []BookInv
<1>1. BookInv /\ [BookNext]_bookVars => BookInv'
  BY BookStep
<1> QED
  BY <1>1, BookInitially, PTL DEF BookSpec

\* Refreshing a token never leaves two tokens of one login working (what refreshAccessToken of
\* auth.service.ts is for).
THEOREM OneToken == ASSUME Distinct PROVE BookSpec => []OneTokenPerSession
<1>1. BookInv => OneTokenPerSession
  BY DEF BookInv
<1> QED
  BY <1>1, BookInvariance, PTL

\* Every token of a session was handed out to the user who opened it.
THEOREM OneUser == ASSUME Distinct PROVE BookSpec => []OneUserPerSession
<1>1. BookInv => OneUserPerSession
  BY DEF BookInv, Started, OneUserPerSession
<1> QED
  BY <1>1, BookInvariance, PTL
=============================================================================
