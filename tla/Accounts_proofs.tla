---------------------------- MODULE Accounts_proofs ----------------------------
(***************************************************************************)
(* Proofs about Accounts, for any number of users, addresses, nonces and   *)
(* requests at one time: the tables stay well formed, a refresh token is   *)
(* traded once, only the sessions of broken requests are orphans, a reset  *)
(* ends the sessions opened before it, confirmed accounts survive the      *)
(* account job, and answers are documented unless a race was lost.  The    *)
(* last part proves that the tokens behave as the book of Sessions.        *)
(***************************************************************************)
EXTENDS Accounts, TLAPS

RequestRecord == Request(Op, Stage, User \cup {None}, Email \cup Nonce \cup {None},
                         Nonce \cup {None})

-----------------------------------------------------------------------------
(* The inductive invariant                                                 *)

\* Stages by what their requests have found: a row of users, a token, a nonce of their own.
UserStages == {"confirming", "opening", "opened", "refreshing", "rotated", "retiring",
               "resetting", "revoking", "proving", "changing", "saving", "avatar"}
TokenStages == {"refreshing", "rotated", "retiring", "leaving", "left"}
MemoStages == {"opened", "rotated", "retiring"}

\* The races and gaps that excuse an undocumented answer.
Excused(r) ==
  \/ r.id # None /\ user[r.id].row = "deleted"
  \/ r.body \in Nonce /\ nonce[r.body].row = "deleted"
  \/ r.overtaken
  \/ <<r.op, r.answer>> \in UndocumentedAnswers

\* What a request relies on at its stage: the answers its controller documents, ...
Replies(r) ==
  /\ r.stage \notin {"idle", "odd"} => "OK" \in r.docs
  /\ r.stage = "registering" => "CONFLICT" \in r.docs
  /\ r.stage \in {"login", "opening", "opened", "refreshing", "rotated", "leaving", "forgot"}
       => "NOT_FOUND" \in r.docs
  /\ r.stage \in {"login", "proving"} => "UNAUTHORIZED" \in r.docs
  /\ r.stage = "login" => r.op = "login"
  /\ r.stage = "odd" => Excused(r)

\* ... and the rows it has seen.
Findings(r) ==
  /\ r.stage \in {"registering", "creating", "login", "forgot"} => r.body \in Email
  /\ r.stage = "creating" => Owners(r.body) = {} \/ r.overtaken
  /\ r.stage \in UserStages => r.id \in User /\ user[r.id].row # "none"
  /\ r.stage \in TokenStages => r.body \in Nonce /\ nonce[r.body].row # "none"
  /\ r.stage = "refreshing" => nonce[r.body].user = r.id
  /\ r.stage \in MemoStages => r.memo \in Nonce /\ nonce[r.memo].row # "none"
  /\ r.stage = "opened" => nonce[r.memo].user = r.id /\ origin[r.memo].replaces = None
  /\ r.stage \in {"rotated", "retiring"} => origin[r.memo].replaces = r.body

RequestOK(r) == Replies(r) /\ Findings(r)

\* A token that replaced another one is handed out when that one has been deleted.
TradedIn ==
  \A n \in Nonce : nonce[n].held /\ origin[n].replaces # None =>
    /\ origin[n].replaces \in Nonce
    /\ nonce[origin[n].replaces].row = "deleted"

\* Who may still see to a session that nobody holds the token of.
Attended ==
  \A n \in Nonce :
    nonce[n].row = "stored" /\ ~nonce[n].held /\ origin[n].password # "excused" =>
      \/ \E c \in Call : call[c].stage \in MemoStages /\ call[c].memo = n
      \/ /\ origin[n].replaces \in Nonce
         /\ nonce[origin[n].replaces].row = "deleted"

\* An outdated session is stored, and a reset is about to revoke it.
Outdated ==
  \A n \in Nonce : origin[n].password = "outdated" =>
    /\ nonce[n].row = "stored"
    /\ \E c \in Call : At(c, "revoking") /\ call[c].id = nonce[n].user

RowsOK == \A u \in User : user[u].isEmailVerified => user[u].row # "none"

IInv ==
  /\ TypeOK
  /\ \A c \in Call : RequestOK(call[c])
  /\ TradedIn /\ TokenTradedOnce /\ Attended /\ Outdated /\ RowsOK

-----------------------------------------------------------------------------
(* Requests                                                                *)

\* How a request ends.
LEMMA EndedRequest ==
    ASSUME NEW r \in RequestRecord, NEW code \in Status
    PROVE  /\ Ended(r, code) \in RequestRecord
           /\ code \in r.docs => Ended(r, code).stage = "idle"
           /\ code \notin r.docs => Ended(r, code).stage = "odd"
           /\ code \in r.docs \/ Excused([r EXCEPT !.answer = code])
                => RequestOK(Ended(r, code))
<1> USE DEF RequestRecord, Request
<1>1. CASE code \in r.docs
  <2>1. Ended(r, code) = Idle
    BY <1>1 DEF Ended
  <2>2. Idle \in RequestRecord /\ Idle.stage = "idle"
    BY DEF Idle, Op
  <2> QED
    BY <1>1, <2>1, <2>2 DEF RequestOK, Replies, Findings, UserStages, TokenStages, MemoStages
<1>2. CASE code \notin r.docs
  <2> DEFINE e == Ended(r, code)
  <2>1. e = [r EXCEPT !.docs = {}, !.stage = "odd", !.answer = code]
    BY <1>2 DEF Ended
  <2>2. e \in RequestRecord /\ e.stage = "odd"
    BY <2>1
  <2>3. Excused([r EXCEPT !.answer = code]) => Excused(e)
    BY <2>1 DEF Excused
  <2> QED
    BY <1>2, <2>2, <2>3 DEF RequestOK, Replies, Findings, UserStages, TokenStages, MemoStages
<1> QED
  BY <1>1, <1>2

\* What no step takes back: rows are never inserted again, nonces never change hands.
RowsKept ==
  /\ \A u \in User :
       /\ user[u].row # "none" => user'[u].row # "none"
       /\ user[u].row = "deleted" => user'[u].row = "deleted"
  /\ \A n \in Nonce :
       /\ nonce[n].row # "none" => /\ nonce'[n].row # "none"
                                   /\ nonce'[n].user = nonce[n].user
                                   /\ origin'[n].replaces = origin[n].replaces
       /\ nonce[n].row = "deleted" => nonce'[n].row = "deleted"

\* So what a request relies on stays true while others step, unless its address is taken, and
\* then it learns that it was overtaken.
LEMMA OthersKept ==
    ASSUME TypeOK, RowsKept, NEW k \in Call, RequestOK(call[k]),
           \/ call'[k] = call[k]
           \/ call'[k] = [call[k] EXCEPT !.overtaken = TRUE],
           call[k].stage = "creating" =>
             \/ call'[k].overtaken
             \/ \A u \in User : user'[u].row = "stored" /\ user'[u].email = call[k].body
                               => user[u].row = "stored" /\ user[u].email = call[k].body
    PROVE  RequestOK(call[k])'
<1>1. call[k] \in RequestRecord
  BY DEF TypeOK, RequestRecord
<1>2. /\ call'[k].stage = call[k].stage /\ call'[k].docs = call[k].docs
      /\ call'[k].op = call[k].op /\ call'[k].id = call[k].id
      /\ call'[k].body = call[k].body /\ call'[k].memo = call[k].memo
      /\ call'[k].answer = call[k].answer
      /\ call[k].overtaken => call'[k].overtaken
  BY <1>1 DEF RequestRecord, Request
<1>3. Excused(call[k]) => Excused(call[k])'
  BY <1>1, <1>2 DEF Excused, RowsKept, RequestRecord, Request
<1>4. Replies(call[k])'
  BY <1>2, <1>3 DEF RequestOK, Replies
<1>5. Findings(call[k])'
  <2> USE DEF RequestOK, Findings
  <2>1. call[k].stage = "creating" => Owners(call[k].body)' = {} \/ call'[k].overtaken
    BY <1>2 DEF Owners, Exists
  <2>2. call[k].stage \in UserStages => call[k].id \in User /\ user'[call[k].id].row # "none"
    BY DEF RowsKept
  <2>3. call[k].stage \in TokenStages =>
          call[k].body \in Nonce /\ nonce'[call[k].body].row # "none"
    BY DEF RowsKept
  <2>4. call[k].stage = "refreshing" => nonce'[call[k].body].user = call[k].id
    BY DEF RowsKept, TokenStages
  <2>5. call[k].stage \in MemoStages =>
          /\ call[k].memo \in Nonce /\ nonce'[call[k].memo].row # "none"
          /\ nonce'[call[k].memo].user = nonce[call[k].memo].user
          /\ origin'[call[k].memo].replaces = origin[call[k].memo].replaces
    BY DEF RowsKept
  <2> QED
    BY <1>2, <2>1, <2>2, <2>3, <2>4, <2>5 DEF MemoStages, UserStages, TokenStages
<1> QED
  BY <1>4, <1>5 DEF RequestOK

\* A nonce that may be left without a request: it is gone, or was meant for a token that is.
Settled(n) ==
  nonce[n].row = "stored" =>
    origin[n].replaces \in Nonce /\ nonce[origin[n].replaces].row = "deleted"

\* A step of one request that writes no row keeps the invariant when its new state is sound
\* and it abandons neither a nonce of its own nor a reset.
LEMMA QuietStep ==
    ASSUME IInv, NEW c \in Call, NEW r \in RequestRecord, RequestOK(r),
           call' = [call EXCEPT ![c] = r], UNCHANGED <<rows, jobs, origin>>,
           call[c].stage # "revoking",
           call[c].stage \in MemoStages =>
             Settled(call[c].memo) \/ (r.stage \in MemoStages /\ r.memo = call[c].memo)
    PROVE  IInv'
<1> USE DEF rows, jobs
<1>1. TypeOK'
  BY DEF IInv, TypeOK, RequestRecord, Exists
<1>2. ASSUME NEW k \in Call PROVE RequestOK(call[k])'
  <2>1. CASE k = c
    <3>1. call'[k] = r
      BY <2>1 DEF IInv, TypeOK
    <3>2. RequestOK(r)' <=> RequestOK(r)
      BY DEF RequestOK, Replies, Findings, Excused, Owners, Exists
    <3> QED
      BY <3>1, <3>2 DEF RequestOK, Replies, Findings, Excused, Owners, Exists
  <2>2. CASE k # c
    <3>1. call'[k] = call[k]
      BY <2>2 DEF IInv, TypeOK
    <3>2. RowsKept
      BY DEF RowsKept
    <3> QED
      BY <3>1, <3>2, OthersKept DEF IInv
  <2> QED
    BY <2>1, <2>2
<1>3. \A k \in Call : k # c => call'[k] = call[k]
  BY DEF IInv, TypeOK
<1>4. Attended'
  <2> SUFFICES ASSUME NEW n \in Nonce, nonce'[n].row = "stored", ~nonce'[n].held,
                      origin'[n].password # "excused"
               PROVE  \/ \E k \in Call : call'[k].stage \in MemoStages /\ call'[k].memo = n
                      \/ /\ origin'[n].replaces \in Nonce
                         /\ nonce'[origin'[n].replaces].row = "deleted"
    BY DEF Attended
  <2>1. CASE Settled(n)
    BY <2>1 DEF Settled
  <2>2. CASE \E k \in Call : k # c /\ call[k].stage \in MemoStages /\ call[k].memo = n
    BY <1>3, <2>2
  <2>3. CASE call[c].stage \in MemoStages /\ call[c].memo = n /\ ~Settled(n)
    BY <2>3 DEF IInv, TypeOK
  <2> QED
    BY <2>1, <2>2, <2>3 DEF IInv, Attended, Settled
<1>5. Outdated'
  <2> SUFFICES ASSUME NEW n \in Nonce, origin'[n].password = "outdated"
               PROVE  /\ nonce'[n].row = "stored"
                      /\ \E k \in Call : At(k, "revoking")' /\ call'[k].id = nonce'[n].user
    BY DEF Outdated
  <2>1. PICK k \in Call : At(k, "revoking") /\ call[k].id = nonce[n].user
    BY DEF IInv, Outdated
  <2>2. k # c
    BY <2>1 DEF At
  <2> QED
    BY <1>3, <2>1, <2>2 DEF IInv, Outdated, At
<1>6. TradedIn' /\ TokenTradedOnce' /\ RowsOK'
  BY DEF IInv, TradedIn, TokenTradedOnce, RowsOK
<1> QED
  BY <1>1, <1>2, <1>4, <1>5, <1>6 DEF IInv

-----------------------------------------------------------------------------
(* Handlers                                                                *)

\* A handler lets a sound request in, or answers it as documented or excused.
LEMMA AdmitStep ==
    ASSUME IInv, NEW c \in Call, NEW r \in RequestRecord, NEW code \in Status,
           UNCHANGED <<rows, jobs, origin>>,
           Admit(c, r, code), code = "OK" => RequestOK(r),
           code \in r.docs \/ Excused([r EXCEPT !.answer = code])
    PROVE  IInv'
<1>1. call[c].stage \notin MemoStages \cup {"revoking"}
  BY DEF Admit, Free, At, MemoStages
<1>2. CASE code = "OK"
  BY <1>1, <1>2, QuietStep DEF Admit
<1>3. CASE code # "OK"
  BY <1>1, <1>3, EndedRequest, QuietStep DEF Admit
<1> QED
  BY <1>2, <1>3

LEMMA AnswerStep ==
    ASSUME IInv, NEW c \in Call, NEW r \in RequestRecord, NEW code \in Status,
           UNCHANGED <<rows, jobs, origin>>,
           Answer(c, r, code),
           code \in r.docs \/ Excused([r EXCEPT !.answer = code])
    PROVE  IInv'
<1>1. call[c].stage \notin MemoStages \cup {"revoking"}
  BY DEF Answer, Free, At, MemoStages
<1> QED
  BY <1>1, EndedRequest, QuietStep DEF Answer

LEMMA HandlersOfAuth ==
    ASSUME IInv, NEW c \in Call,
           \/ Register(c) \/ ConfirmEmail(c) \/ Login(c) \/ RefreshAccessToken(c)
           \/ Logout(c) \/ ResetPassword(c) \/ ConfirmPasswordReset(c)
    PROVE  IInv'
<1> USE DEF Status, Op, Stage, UserStages, TokenStages
<1>1. CASE Register(c)
  <2> DEFINE docs == {"OK", "BAD_REQUEST", "CONFLICT"}
  <2>1. PICK e \in Email, valid \in BOOLEAN :
          Admit(c, Arrival("register", docs, "registering", None, e), ValidationPipe(valid))
    BY <1>1 DEF Register
  <2> DEFINE r == Arrival("register", docs, "registering", None, e)
             code == ValidationPipe(valid)
  <2>2. /\ r \in RequestRecord
        /\ r.stage = "registering" /\ r.op = "register"
        /\ r.docs = docs /\ r.id = None /\ r.body = e
    BY DEF Arrival, Idle, RequestRecord, Request
  <2>3. code \in Status /\ code \in r.docs
    BY <2>2 DEF ValidationPipe
  <2>4. code = "OK" => RequestOK(r)
    BY <2>2 DEF RequestOK, Replies, Findings, MemoStages
  <2>5. UNCHANGED <<rows, jobs, origin>> /\ Admit(c, r, code)
    BY <1>1, <2>1 DEF Register
  <2> HIDE DEF docs, r, code
  <2> QED
    BY <2>2, <2>3, <2>4, <2>5, AdmitStep
<1>2. CASE ConfirmEmail(c)
  <2> DEFINE docs == {"OK", "UNAUTHORIZED", "NOT_FOUND"}
  <2>1. PICK u \in User :
          /\ user[u].row # "none"
          /\ Admit(c, Arrival("confirmEmail", docs, "confirming", u, None),
                   JwtConfirmEmailGuard(u))
    BY <1>2 DEF ConfirmEmail
  <2> DEFINE r == Arrival("confirmEmail", docs, "confirming", u, None)
             code == JwtConfirmEmailGuard(u)
  <2>2. /\ r \in RequestRecord
        /\ r.stage = "confirming" /\ r.op = "confirmEmail"
        /\ r.docs = docs /\ r.id = u /\ r.body = None
    BY DEF Arrival, Idle, RequestRecord, Request
  <2>3. code \in Status /\ code \in r.docs
    BY <2>2 DEF JwtConfirmEmailGuard
  <2>4. code = "OK" => RequestOK(r)
    BY <2>1, <2>2 DEF RequestOK, Replies, Findings, MemoStages
  <2>5. UNCHANGED <<rows, jobs, origin>> /\ Admit(c, r, code)
    BY <1>2, <2>1 DEF ConfirmEmail
  <2> HIDE DEF docs, r, code
  <2> QED
    BY <2>2, <2>3, <2>4, <2>5, AdmitStep
<1>3. CASE Login(c)
  <2> DEFINE docs == {"OK", "BAD_REQUEST", "UNAUTHORIZED", "NOT_FOUND"}
  <2>1. PICK e \in Email, valid \in BOOLEAN :
          Admit(c, Arrival("login", docs, "login", None, e), ValidationPipe(valid))
    BY <1>3 DEF Login
  <2> DEFINE r == Arrival("login", docs, "login", None, e)
             code == ValidationPipe(valid)
  <2>2. /\ r \in RequestRecord
        /\ r.stage = "login" /\ r.op = "login"
        /\ r.docs = docs /\ r.id = None /\ r.body = e
    BY DEF Arrival, Idle, RequestRecord, Request
  <2>3. code \in Status /\ code \in r.docs
    BY <2>2 DEF ValidationPipe
  <2>4. code = "OK" => RequestOK(r)
    BY <2>2 DEF RequestOK, Replies, Findings, MemoStages
  <2>5. UNCHANGED <<rows, jobs, origin>> /\ Admit(c, r, code)
    BY <1>3, <2>1 DEF Login
  <2> HIDE DEF docs, r, code
  <2> QED
    BY <2>2, <2>3, <2>4, <2>5, AdmitStep
<1>4. CASE RefreshAccessToken(c)
  <2> DEFINE docs == {"OK", "BAD_REQUEST", "NOT_FOUND"}
  <2>1. PICK n \in Nonce :
          Admit(c, Arrival("refreshAccessToken", docs, "refreshing", nonce[n].user, n), JwtRefreshGuard(n))
    BY <1>4 DEF RefreshAccessToken
  <2> DEFINE r == Arrival("refreshAccessToken", docs, "refreshing", nonce[n].user, n)
             code == JwtRefreshGuard(n)
  <2>2. nonce[n].user \in User \cup {None}
    BY DEF IInv, TypeOK, NonceRow
  <2>3. /\ r \in RequestRecord
        /\ r.stage = "refreshing" /\ r.op = "refreshAccessToken"
        /\ r.docs = docs /\ r.id = nonce[n].user /\ r.body = n
    BY <2>2 DEF Arrival, Idle, RequestRecord, Request
  <2>4. code \in Status /\ code \in r.docs
    BY <2>3 DEF JwtRefreshGuard
  <2>5. code = "OK" => /\ nonce[n].user \in User /\ user[nonce[n].user].row # "none"
                       /\ nonce[n].row # "none"
    BY DEF JwtRefreshGuard, IInv, TypeOK, NonceRow, Exists
  <2>6. code = "OK" => RequestOK(r)
    BY <2>3, <2>5 DEF RequestOK, Replies, Findings, MemoStages
  <2>7. UNCHANGED <<rows, jobs, origin>> /\ Admit(c, r, code)
    BY <1>4, <2>1 DEF RefreshAccessToken
  <2> HIDE DEF docs, r, code
  <2> QED
    BY <2>3, <2>4, <2>6, <2>7, AdmitStep
<1>5. CASE Logout(c)
  <2> DEFINE docs == {"OK", "BAD_REQUEST", "NOT_FOUND"}
  <2>1. PICK n \in Nonce :
          Admit(c, Arrival("logout", docs, "leaving", nonce[n].user, n), JwtRefreshGuard(n))
    BY <1>5 DEF Logout
  <2> DEFINE r == Arrival("logout", docs, "leaving", nonce[n].user, n)
             code == JwtRefreshGuard(n)
  <2>2. nonce[n].user \in User \cup {None}
    BY DEF IInv, TypeOK, NonceRow
  <2>3. /\ r \in RequestRecord
        /\ r.stage = "leaving" /\ r.op = "logout"
        /\ r.docs = docs /\ r.id = nonce[n].user /\ r.body = n
    BY <2>2 DEF Arrival, Idle, RequestRecord, Request
  <2>4. code \in Status /\ code \in r.docs
    BY <2>3 DEF JwtRefreshGuard
  <2>5. code = "OK" => nonce[n].row # "none"
    BY DEF JwtRefreshGuard, IInv, TypeOK, NonceRow, Exists
  <2>6. code = "OK" => RequestOK(r)
    BY <2>3, <2>5 DEF RequestOK, Replies, Findings, MemoStages
  <2>7. UNCHANGED <<rows, jobs, origin>> /\ Admit(c, r, code)
    BY <1>5, <2>1 DEF Logout
  <2> HIDE DEF docs, r, code
  <2> QED
    BY <2>3, <2>4, <2>6, <2>7, AdmitStep
<1>6. CASE ResetPassword(c)
  <2> DEFINE docs == {"OK", "BAD_REQUEST", "NOT_FOUND"}
  <2>1. PICK e \in Email, valid \in BOOLEAN :
          Admit(c, Arrival("resetPassword", docs, "forgot", None, e), ValidationPipe(valid))
    BY <1>6 DEF ResetPassword
  <2> DEFINE r == Arrival("resetPassword", docs, "forgot", None, e)
             code == ValidationPipe(valid)
  <2>2. /\ r \in RequestRecord
        /\ r.stage = "forgot" /\ r.op = "resetPassword"
        /\ r.docs = docs /\ r.id = None /\ r.body = e
    BY DEF Arrival, Idle, RequestRecord, Request
  <2>3. code \in Status /\ code \in r.docs
    BY <2>2 DEF ValidationPipe
  <2>4. code = "OK" => RequestOK(r)
    BY <2>2 DEF RequestOK, Replies, Findings, MemoStages
  <2>5. UNCHANGED <<rows, jobs, origin>> /\ Admit(c, r, code)
    BY <1>6, <2>1 DEF ResetPassword
  <2> HIDE DEF docs, r, code
  <2> QED
    BY <2>2, <2>3, <2>4, <2>5, AdmitStep
<1>7. CASE ConfirmPasswordReset(c)
  <2> DEFINE docs == {"OK", "BAD_REQUEST", "UNAUTHORIZED"}
  <2>1. PICK u \in User, live \in BOOLEAN, valid \in BOOLEAN :
          /\ user[u].isEmailVerified
          /\ Admit(c, Arrival("confirmPasswordReset", docs, "resetting", u, None),
                   JwtResetPasswordGuard(live, ValidationPipe(valid)))
    BY <1>7 DEF ConfirmPasswordReset
  <2> DEFINE r == Arrival("confirmPasswordReset", docs, "resetting", u, None)
             code == JwtResetPasswordGuard(live, ValidationPipe(valid))
  <2>2. user[u].row # "none"
    BY <2>1 DEF IInv, RowsOK
  <2>3. /\ r \in RequestRecord
        /\ r.stage = "resetting" /\ r.op = "confirmPasswordReset"
        /\ r.docs = docs /\ r.id = u /\ r.body = None
    BY <2>2 DEF Arrival, Idle, RequestRecord, Request
  <2>4. code \in Status /\ code \in r.docs
    BY <2>3 DEF JwtResetPasswordGuard, ValidationPipe
  <2>5. code = "OK" => RequestOK(r)
    BY <2>1, <2>3, <2>2 DEF RequestOK, Replies, Findings, MemoStages
  <2>6. UNCHANGED <<rows, jobs, origin>> /\ Admit(c, r, code)
    BY <1>7, <2>1 DEF ConfirmPasswordReset
  <2> HIDE DEF docs, r, code
  <2> QED
    BY <2>3, <2>4, <2>5, <2>6, AdmitStep
<1> QED
  BY <1>1, <1>2, <1>3, <1>4, <1>5, <1>6, <1>7

\* A read is answered by its guards or by the one lookup behind them.
LEMMA ReadStep ==
    ASSUME IInv, NEW c \in Call, NEW v \in User, NEW op \in Op, NEW docs \in SUBSET Status,
           NEW code \in Status, Read(c, op, docs, v, code),
           "UNAUTHORIZED" \in docs \/ <<op, "UNAUTHORIZED">> \in UndocumentedAnswers,
           Exists(v) => code \in docs \/ <<op, code>> \in UndocumentedAnswers
    PROVE  IInv'
<1> DEFINE r == Arrival(op, docs, "read", None, None)
           guarded == JwtAuthGuard(v, code)
<1>1. r \in RequestRecord /\ r.op = op /\ r.docs = docs
  BY DEF Arrival, Idle, RequestRecord, Request, Stage
<1>2. guarded \in Status
  BY DEF JwtAuthGuard, Status
<1>3. guarded \in docs \/ <<op, guarded>> \in UndocumentedAnswers
  BY DEF JwtAuthGuard
<1>4. guarded \in r.docs \/ Excused([r EXCEPT !.answer = guarded])
  BY <1>1, <1>3 DEF Excused, RequestRecord, Request
<1>5. UNCHANGED <<rows, jobs, origin>> /\ Answer(c, r, guarded)
  BY DEF Read
<1> HIDE DEF r, guarded
<1> QED
  BY <1>1, <1>2, <1>4, <1>5, AnswerStep

\* Reads of the account's owner, and reads of any account.
LEMMA ReadsOfUsers ==
    ASSUME IInv, NEW c \in Call, NEW v \in User, NEW u \in User \cup {None},
           \/ FindMe(c, v) \/ FindAll(c, v)
           \/ FindOne(c, v, u) \/ FindUserCompanies(c, v, u) \/ FindUserOrders(c, v, u)
           \/ FindUserEventSubscriptions(c, v, u) \/ FindUserCompanySubscriptions(c, v, u)
           \/ FindUserNotifications(c, v, u)
    PROVE  IInv'
<1> USE DEF Status, Op, UndocumentedAnswers
<1>1. CASE FindMe(c, v)
  <2> DEFINE docs == {"OK", "UNAUTHORIZED"}
             code == FindUserById(v)
  <2>1. docs \in SUBSET Status /\ code \in Status
    BY DEF FindUserById
  <2>2. "UNAUTHORIZED" \in docs \/ <<"findMe", "UNAUTHORIZED">> \in UndocumentedAnswers
    OBVIOUS
  <2>3. Exists(v) => code \in docs \/ <<"findMe", code>> \in UndocumentedAnswers
    BY DEF FindUserById
  <2>4. Read(c, "findMe", docs, v, code)
    BY <1>1 DEF FindMe
  <2>5. "findMe" \in Op
    OBVIOUS
  <2> HIDE DEF docs, code, Status, Op, UndocumentedAnswers
  <2> QED
    BY <2>1, <2>2, <2>3, <2>4, <2>5, ReadStep
<1>2. CASE FindAll(c, v)
  <2> DEFINE docs == {"OK", "UNAUTHORIZED"}
             code == "OK"
  <2>1. docs \in SUBSET Status /\ code \in Status
    OBVIOUS
  <2>2. "UNAUTHORIZED" \in docs \/ <<"findAll", "UNAUTHORIZED">> \in UndocumentedAnswers
    OBVIOUS
  <2>3. Exists(v) => code \in docs \/ <<"findAll", code>> \in UndocumentedAnswers
    OBVIOUS
  <2>4. Read(c, "findAll", docs, v, code)
    BY <1>2 DEF FindAll
  <2>5. "findAll" \in Op
    OBVIOUS
  <2> HIDE DEF docs, code, Status, Op, UndocumentedAnswers
  <2> QED
    BY <2>1, <2>2, <2>3, <2>4, <2>5, ReadStep
<1>3. CASE FindOne(c, v, u)
  <2> DEFINE docs == {"OK", "UNAUTHORIZED", "NOT_FOUND"}
             code == FindUserById(u)
  <2>1. docs \in SUBSET Status /\ code \in Status
    BY DEF FindUserById
  <2>2. "UNAUTHORIZED" \in docs \/ <<"findOne", "UNAUTHORIZED">> \in UndocumentedAnswers
    OBVIOUS
  <2>3. Exists(v) => code \in docs \/ <<"findOne", code>> \in UndocumentedAnswers
    BY DEF FindUserById
  <2>4. Read(c, "findOne", docs, v, code)
    BY <1>3 DEF FindOne
  <2>5. "findOne" \in Op
    OBVIOUS
  <2> HIDE DEF docs, code, Status, Op, UndocumentedAnswers
  <2> QED
    BY <2>1, <2>2, <2>3, <2>4, <2>5, ReadStep
<1>4. CASE FindUserCompanies(c, v, u)
  <2> DEFINE docs == {"OK", "UNAUTHORIZED", "FORBIDDEN"}
             code == AccountOwnerGuard(v, u, FindUserById(u))
  <2>1. docs \in SUBSET Status /\ code \in Status
    BY DEF AccountOwnerGuard, FindUserById
  <2>2. "UNAUTHORIZED" \in docs \/ <<"findUserCompanies", "UNAUTHORIZED">> \in UndocumentedAnswers
    OBVIOUS
  <2>3. Exists(v) => code \in docs \/ <<"findUserCompanies", code>> \in UndocumentedAnswers
    BY DEF AccountOwnerGuard, FindUserById
  <2>4. Read(c, "findUserCompanies", docs, v, code)
    BY <1>4 DEF FindUserCompanies
  <2>5. "findUserCompanies" \in Op
    OBVIOUS
  <2> HIDE DEF docs, code, Status, Op, UndocumentedAnswers
  <2> QED
    BY <2>1, <2>2, <2>3, <2>4, <2>5, ReadStep
<1>5. CASE FindUserOrders(c, v, u)
  <2> DEFINE docs == {"OK", "NOT_FOUND"}
             code == FindUserById(u)
  <2>1. docs \in SUBSET Status /\ code \in Status
    BY DEF FindUserById
  <2>2. "UNAUTHORIZED" \in docs \/ <<"findUserOrders", "UNAUTHORIZED">> \in UndocumentedAnswers
    OBVIOUS
  <2>3. Exists(v) => code \in docs \/ <<"findUserOrders", code>> \in UndocumentedAnswers
    BY DEF FindUserById
  <2>4. Read(c, "findUserOrders", docs, v, code)
    BY <1>5 DEF FindUserOrders
  <2>5. "findUserOrders" \in Op
    OBVIOUS
  <2> HIDE DEF docs, code, Status, Op, UndocumentedAnswers
  <2> QED
    BY <2>1, <2>2, <2>3, <2>4, <2>5, ReadStep
<1>6. CASE FindUserEventSubscriptions(c, v, u)
  <2> DEFINE docs == {"OK", "UNAUTHORIZED", "FORBIDDEN"}
             code == AccountOwnerGuard(v, u, "OK")
  <2>1. docs \in SUBSET Status /\ code \in Status
    BY DEF AccountOwnerGuard
  <2>2. "UNAUTHORIZED" \in docs \/ <<"findUserEventSubscriptions", "UNAUTHORIZED">> \in UndocumentedAnswers
    OBVIOUS
  <2>3. Exists(v) => code \in docs \/ <<"findUserEventSubscriptions", code>> \in UndocumentedAnswers
    BY DEF AccountOwnerGuard
  <2>4. Read(c, "findUserEventSubscriptions", docs, v, code)
    BY <1>6 DEF FindUserEventSubscriptions
  <2>5. "findUserEventSubscriptions" \in Op
    OBVIOUS
  <2> HIDE DEF docs, code, Status, Op, UndocumentedAnswers
  <2> QED
    BY <2>1, <2>2, <2>3, <2>4, <2>5, ReadStep
<1>7. CASE FindUserCompanySubscriptions(c, v, u)
  <2> DEFINE docs == {"OK", "UNAUTHORIZED", "FORBIDDEN"}
             code == AccountOwnerGuard(v, u, "OK")
  <2>1. docs \in SUBSET Status /\ code \in Status
    BY DEF AccountOwnerGuard
  <2>2. "UNAUTHORIZED" \in docs \/ <<"findUserCompanySubscriptions", "UNAUTHORIZED">> \in UndocumentedAnswers
    OBVIOUS
  <2>3. Exists(v) => code \in docs \/ <<"findUserCompanySubscriptions", code>> \in UndocumentedAnswers
    BY DEF AccountOwnerGuard
  <2>4. Read(c, "findUserCompanySubscriptions", docs, v, code)
    BY <1>7 DEF FindUserCompanySubscriptions
  <2>5. "findUserCompanySubscriptions" \in Op
    OBVIOUS
  <2> HIDE DEF docs, code, Status, Op, UndocumentedAnswers
  <2> QED
    BY <2>1, <2>2, <2>3, <2>4, <2>5, ReadStep
<1>8. CASE FindUserNotifications(c, v, u)
  <2> DEFINE docs == {"OK"}
             code == AccountOwnerGuard(v, u, "OK")
  <2>1. docs \in SUBSET Status /\ code \in Status
    BY DEF AccountOwnerGuard
  <2>2. "UNAUTHORIZED" \in docs \/ <<"findUserNotifications", "UNAUTHORIZED">> \in UndocumentedAnswers
    OBVIOUS
  <2>3. Exists(v) => code \in docs \/ <<"findUserNotifications", code>> \in UndocumentedAnswers
    BY DEF AccountOwnerGuard
  <2>4. Read(c, "findUserNotifications", docs, v, code)
    BY <1>8 DEF FindUserNotifications
  <2>5. "findUserNotifications" \in Op
    OBVIOUS
  <2> HIDE DEF docs, code, Status, Op, UndocumentedAnswers
  <2> QED
    BY <2>1, <2>2, <2>3, <2>4, <2>5, ReadStep
<1> QED
  BY <1>1, <1>2, <1>3, <1>4, <1>5, <1>6, <1>7, <1>8

\* Writes of the account's owner.
LEMMA WritesOfUsers ==
    ASSUME IInv, NEW c \in Call, NEW v \in User, NEW u \in User \cup {None},
           Update(c, v, u) \/ UpdatePassword(c, v, u) \/ UploadAvatar(c, v, u)
    PROVE  IInv'
<1> USE DEF Status, Op, Stage, UserStages, TokenStages
<1>1. CASE Update(c, v, u)
  <2> DEFINE docs == {"OK", "BAD_REQUEST", "UNAUTHORIZED", "FORBIDDEN"}
  <2>1. PICK valid \in BOOLEAN :
          Signed(c, "update", docs, "saving", v, u,
                 AccountOwnerGuard(v, u, ValidationPipe(valid)))
    BY <1>1 DEF Update
  <2> DEFINE r == Arrival("update", docs, "saving", u, None)
             code == JwtAuthGuard(v, AccountOwnerGuard(v, u, ValidationPipe(valid)))
  <2>2. /\ r \in RequestRecord
        /\ r.stage = "saving" /\ r.op = "update" /\ r.docs = docs /\ r.id = u
    BY DEF Arrival, Idle, RequestRecord, Request
  <2>3. code \in Status /\ code \in r.docs
    BY <2>2 DEF JwtAuthGuard, AccountOwnerGuard, ValidationPipe
  <2>4. code = "OK" => u \in User /\ user[u].row # "none"
    BY DEF JwtAuthGuard, AccountOwnerGuard, Exists
  <2>5. code = "OK" => RequestOK(r)
    BY <2>2, <2>4 DEF RequestOK, Replies, Findings, MemoStages
  <2>6. UNCHANGED <<rows, jobs, origin>> /\ Admit(c, r, code)
    BY <2>1 DEF Signed
  <2> HIDE DEF docs, r, code
  <2> QED
    BY <2>2, <2>3, <2>5, <2>6, AdmitStep
<1>2. CASE UpdatePassword(c, v, u)
  <2> DEFINE docs == {"OK", "BAD_REQUEST", "UNAUTHORIZED", "FORBIDDEN"}
  <2>1. PICK valid \in BOOLEAN :
          Signed(c, "updatePassword", docs, "proving", v, u,
                 AccountOwnerGuard(v, u, ValidationPipe(valid)))
    BY <1>2 DEF UpdatePassword
  <2> DEFINE r == Arrival("updatePassword", docs, "proving", u, None)
             code == JwtAuthGuard(v, AccountOwnerGuard(v, u, ValidationPipe(valid)))
  <2>2. /\ r \in RequestRecord
        /\ r.stage = "proving" /\ r.op = "updatePassword" /\ r.docs = docs /\ r.id = u
    BY DEF Arrival, Idle, RequestRecord, Request
  <2>3. code \in Status /\ code \in r.docs
    BY <2>2 DEF JwtAuthGuard, AccountOwnerGuard, ValidationPipe
  <2>4. code = "OK" => u \in User /\ user[u].row # "none"
    BY DEF JwtAuthGuard, AccountOwnerGuard, Exists
  <2>5. code = "OK" => RequestOK(r)
    BY <2>2, <2>4 DEF RequestOK, Replies, Findings, MemoStages
  <2>6. UNCHANGED <<rows, jobs, origin>> /\ Admit(c, r, code)
    BY <2>1 DEF Signed
  <2> HIDE DEF docs, r, code
  <2> QED
    BY <2>2, <2>3, <2>5, <2>6, AdmitStep
<1>3. CASE UploadAvatar(c, v, u)
  <2> DEFINE docs == {"OK", "BAD_REQUEST", "UNAUTHORIZED", "FORBIDDEN"}
  <2>1. PICK valid \in BOOLEAN :
          Signed(c, "uploadAvatar", docs, "avatar", v, u,
                 AccountOwnerGuard(v, u, ValidationPipe(valid)))
    BY <1>3 DEF UploadAvatar
  <2> DEFINE r == Arrival("uploadAvatar", docs, "avatar", u, None)
             code == JwtAuthGuard(v, AccountOwnerGuard(v, u, ValidationPipe(valid)))
  <2>2. /\ r \in RequestRecord
        /\ r.stage = "avatar" /\ r.op = "uploadAvatar" /\ r.docs = docs /\ r.id = u
    BY DEF Arrival, Idle, RequestRecord, Request
  <2>3. code \in Status /\ code \in r.docs
    BY <2>2 DEF JwtAuthGuard, AccountOwnerGuard, ValidationPipe
  <2>4. code = "OK" => u \in User /\ user[u].row # "none"
    BY DEF JwtAuthGuard, AccountOwnerGuard, Exists
  <2>5. code = "OK" => RequestOK(r)
    BY <2>2, <2>4 DEF RequestOK, Replies, Findings, MemoStages
  <2>6. UNCHANGED <<rows, jobs, origin>> /\ Admit(c, r, code)
    BY <2>1 DEF Signed
  <2> HIDE DEF docs, r, code
  <2> QED
    BY <2>2, <2>3, <2>5, <2>6, AdmitStep
<1> QED
  BY <1>1, <1>2, <1>3

-----------------------------------------------------------------------------
(* Services: steps that write no row                                       *)

LEMMA ReplyStep ==
    ASSUME IInv, NEW c \in Call, NEW code \in Status, Reply(c, code),
           UNCHANGED <<rows, jobs, origin>>,
           call[c].stage # "revoking",
           call[c].stage \in MemoStages => Settled(call[c].memo),
           code \in call[c].docs \/ Excused([call[c] EXCEPT !.answer = code])
    PROVE  IInv'
<1> DEFINE r == Ended(call[c], code)
<1>1. call[c] \in RequestRecord
  BY DEF IInv, TypeOK, RequestRecord
<1>2. r \in RequestRecord /\ RequestOK(r)
  BY <1>1, EndedRequest
<1>3. call' = [call EXCEPT ![c] = r]
  BY DEF Reply
<1>4. call[c].stage \in MemoStages =>
        Settled(call[c].memo) \/ (r.stage \in MemoStages /\ r.memo = call[c].memo)
  OBVIOUS
<1> HIDE DEF r
<1> QED
  BY <1>2, <1>3, <1>4, QuietStep

LEMMA GotoStep ==
    ASSUME IInv, NEW c \in Call, NEW stage \in Stage, Goto(c, stage),
           UNCHANGED <<rows, jobs, origin>>,
           call[c].stage # "revoking",
           call[c].stage \in MemoStages => stage \in MemoStages,
           RequestOK([call[c] EXCEPT !.stage = stage])
    PROVE  IInv'
<1> DEFINE r == [call[c] EXCEPT !.stage = stage]
<1>1. call[c] \in RequestRecord
  BY DEF IInv, TypeOK, RequestRecord
<1>2. r \in RequestRecord /\ r.stage = stage /\ r.memo = call[c].memo
  BY <1>1 DEF RequestRecord, Request
<1>3. call' = [call EXCEPT ![c] = r]
  BY DEF Goto
<1>4. RequestOK(r)
  OBVIOUS
<1> HIDE DEF r
<1> QED
  BY <1>2, <1>3, <1>4, QuietStep

\* What an undocumented answer of an id, a token or an overtaken request is excused by.
LEMMA Excuses ==
    ASSUME IInv, NEW c \in Call, NEW code \in Status
    PROVE  LET r == [call[c] EXCEPT !.answer = code] IN
           /\ call[c].id \in User /\ user[call[c].id].row = "deleted" => Excused(r)
           /\ call[c].body \in Nonce /\ nonce[call[c].body].row = "deleted" => Excused(r)
           /\ call[c].overtaken => Excused(r)
           /\ <<call[c].op, code>> \in UndocumentedAnswers => Excused(r)
BY NoneAssumption DEF Excused, IInv, TypeOK, Request

LEMMA QuietServices ==
    ASSUME IInv, NEW c \in Call,
           \/ CheckEmail(c) \/ CheckCredentials(c) \/ KeepToken(c) \/ FindReplaced(c)
           \/ FindSession(c) \/ MailResetToken(c) \/ CheckOldPassword(c)
           \/ ChangePassword(c) \/ SaveProfile(c) \/ StoreAvatar(c)
    PROVE  IInv'
<1> DEFINE id == call[c].id
           body == call[c].body
           stage == call[c].stage
           docs == call[c].docs
<1>1. call[c] \in RequestRecord /\ Replies(call[c]) /\ Findings(call[c])
  BY DEF IInv, TypeOK, RequestRecord, RequestOK
<1>2. stage \in UserStages => id \in User /\ (Exists(id) \/ user[id].row = "deleted")
  BY <1>1, NoneAssumption DEF Findings, Exists, IInv, TypeOK, UserRow, RowState
<1>3. stage \in TokenStages =>
        body \in Nonce /\ (nonce[body].row = "stored" \/ nonce[body].row = "deleted")
  BY <1>1 DEF Findings, IInv, TypeOK, NonceRow, RowState
<1> USE DEF Status, At
<1>4. CASE CheckEmail(c)
  <2>1. stage = "registering" /\ UNCHANGED <<rows, jobs, origin>>
    BY <1>4 DEF CheckEmail
  <2>2. CASE Goto(c, "creating") /\ Owners(body) = {}
    <3>1. RequestOK([call[c] EXCEPT !.stage = "creating"])
      BY <1>1, <2>1, <2>2 DEF RequestRecord, Request, RequestOK, Replies, Findings,
                              UserStages, TokenStages, MemoStages
    <3> QED
      BY <2>1, <2>2, <3>1, GotoStep DEF Stage, MemoStages
  <2>3. CASE Reply(c, "CONFLICT")
    BY <1>1, <2>1, <2>3, ReplyStep DEF Replies, MemoStages
  <2> QED
    BY <1>4, <2>2, <2>3 DEF CheckEmail
<1>5. CASE CheckCredentials(c)
  <2>1. stage = "login" /\ UNCHANGED <<rows, jobs, origin>>
    BY <1>5 DEF CheckCredentials
  <2>2. CASE Reply(c, "NOT_FOUND") \/ Reply(c, "UNAUTHORIZED")
    BY <1>1, <2>1, <2>2, ReplyStep DEF Replies, MemoStages
  <2>3. CASE Reply(c, "FORBIDDEN")
    <3>1. Excused([call[c] EXCEPT !.answer = "FORBIDDEN"])
      BY <1>1, <2>1, Excuses DEF Replies, UndocumentedAnswers
    <3> QED
      BY <2>1, <2>3, <3>1, ReplyStep DEF MemoStages
  <2>4. ASSUME NEW u \in Owners(body),
               call' = [call EXCEPT ![c].stage = "opening", ![c].id = u]
        PROVE  IInv'
    <3> DEFINE r == [call[c] EXCEPT !.stage = "opening", !.id = u]
    <3>1. u \in User /\ user[u].row = "stored"
      BY DEF Owners, Exists
    <3>2. r \in RequestRecord /\ call' = [call EXCEPT ![c] = r]
      BY <1>1, <2>4, <3>1 DEF RequestRecord, Request, Stage
    <3>3. r.stage = "opening" /\ r.docs = docs /\ r.id = u
      BY <1>1 DEF RequestRecord, Request
    <3>4. RequestOK(r)
      BY <1>1, <2>1, <3>1, <3>3 DEF RequestOK, Replies, Findings, UserStages, TokenStages,
                                    MemoStages
    <3> HIDE DEF r
    <3> QED
      BY <2>1, <3>2, <3>4, QuietStep DEF MemoStages
  <2> QED
    BY <1>5, <2>2, <2>3, <2>4 DEF CheckCredentials
<1>6. CASE KeepToken(c)
  BY <1>1, <1>6, ReplyStep DEF KeepToken, Replies, MemoStages
<1>7. CASE FindReplaced(c)
  <2>1. stage = "rotated" /\ UNCHANGED <<rows, jobs, origin>>
    BY <1>7 DEF FindReplaced
  <2>2. CASE Goto(c, "retiring")
    <3>1. RequestOK([call[c] EXCEPT !.stage = "retiring"])
      BY <1>1, <2>1 DEF RequestRecord, Request, RequestOK, Replies, Findings, UserStages,
                        TokenStages, MemoStages
    <3> QED
      BY <2>1, <2>2, <3>1, GotoStep DEF Stage, MemoStages
  <2>3. CASE Reply(c, "NOT_FOUND") /\ nonce[body].row # "stored"
    <3>1. Settled(call[c].memo)
      BY <1>1, <1>3, <2>1, <2>3 DEF Settled, Findings, TokenStages
    <3> QED
      BY <1>1, <2>1, <2>3, <3>1, ReplyStep DEF Replies
  <2> QED
    BY <1>7, <2>2, <2>3 DEF FindReplaced
<1>8. CASE FindSession(c)
  <2>1. stage = "leaving" /\ UNCHANGED <<rows, jobs, origin>>
    BY <1>8 DEF FindSession
  <2>2. CASE Goto(c, "left")
    <3>1. RequestOK([call[c] EXCEPT !.stage = "left"])
      BY <1>1, <2>1 DEF RequestRecord, Request, RequestOK, Replies, Findings, UserStages,
                        TokenStages, MemoStages
    <3> QED
      BY <2>1, <2>2, <3>1, GotoStep DEF Stage, MemoStages
  <2>3. CASE Reply(c, "NOT_FOUND")
    BY <1>1, <2>1, <2>3, ReplyStep DEF Replies, MemoStages
  <2> QED
    BY <1>8, <2>2, <2>3 DEF FindSession
<1>9. CASE MailResetToken(c)
  BY <1>1, <1>9, ReplyStep DEF MailResetToken, Replies, MemoStages
<1>10. CASE CheckOldPassword(c)
  <2>1. stage = "proving" /\ UNCHANGED <<rows, jobs, origin>>
    BY <1>10 DEF CheckOldPassword
  <2>2. CASE Reply(c, "NOT_FOUND") /\ ~Exists(id)
    <3>1. Excused([call[c] EXCEPT !.answer = "NOT_FOUND"])
      BY <1>2, <2>1, <2>2, Excuses DEF UserStages
    <3> QED
      BY <2>1, <2>2, <3>1, ReplyStep DEF MemoStages
  <2>3. CASE Goto(c, "changing")
    <3>1. RequestOK([call[c] EXCEPT !.stage = "changing"])
      BY <1>1, <2>1 DEF RequestRecord, Request, RequestOK, Replies, Findings, UserStages,
                        TokenStages, MemoStages
    <3> QED
      BY <2>1, <2>3, <3>1, GotoStep DEF Stage, MemoStages
  <2>4. CASE Reply(c, "UNAUTHORIZED")
    BY <1>1, <2>1, <2>4, ReplyStep DEF Replies, MemoStages
  <2> QED
    BY <1>10, <2>2, <2>3, <2>4 DEF CheckOldPassword
<1>11. CASE ChangePassword(c) \/ SaveProfile(c)
  <2>1. stage \in {"changing", "saving"} /\ UNCHANGED <<rows, jobs, origin>>
    BY <1>11 DEF ChangePassword, SaveProfile
  <2>2. CASE Reply(c, "OK")
    BY <1>1, <2>1, <2>2, ReplyStep DEF Replies, MemoStages
  <2>3. CASE Reply(c, "INTERNAL_SERVER_ERROR") /\ ~Exists(id)
    <3>1. Excused([call[c] EXCEPT !.answer = "INTERNAL_SERVER_ERROR"])
      BY <1>2, <2>1, <2>3, Excuses DEF UserStages
    <3> QED
      BY <2>1, <2>3, <3>1, ReplyStep DEF MemoStages
  <2> QED
    BY <1>11, <2>2, <2>3 DEF ChangePassword, SaveProfile
<1>12. CASE StoreAvatar(c)
  BY <1>1, <1>12, ReplyStep DEF StoreAvatar, Replies, MemoStages
<1> QED
  BY <1>4, <1>5, <1>6, <1>7, <1>8, <1>9, <1>10, <1>11, <1>12

-----------------------------------------------------------------------------
(* Services and jobs: steps that write rows                                *)

OthersStand(c) ==
  \A k \in Call \ {c} : \/ call'[k] = call[k]
                        \/ call'[k] = [call[k] EXCEPT !.overtaken = TRUE]

\* Of the other requests only "overtaken" has changed.
LEMMA OthersFields ==
    ASSUME TypeOK, NEW c \in Call, OthersStand(c), NEW k \in Call, k # c
    PROVE  /\ call'[k] \in RequestRecord
           /\ call'[k].stage = call[k].stage
           /\ call'[k].id = call[k].id
           /\ call'[k].memo = call[k].memo
<1>1. call[k] \in RequestRecord
  BY DEF TypeOK, RequestRecord
<1>2. call'[k] = call[k] \/ call'[k] = [call[k] EXCEPT !.overtaken = TRUE]
  BY DEF OthersStand
<1> QED
  BY <1>1, <1>2 DEF RequestRecord, Request

LEMMA RequestsKept ==
    ASSUME IInv, RowsKept, NEW c \in Call, OthersStand(c), RequestOK(call[c])',
           \A k \in Call \ {c} : call[k].stage = "creating" =>
             \/ call'[k].overtaken
             \/ \A u \in User : user'[u].row = "stored" /\ user'[u].email = call[k].body
                               => user[u].row = "stored" /\ user[u].email = call[k].body
    PROVE  (\A k \in Call : RequestOK(call[k]))'
<1> SUFFICES ASSUME NEW k \in Call, k # c PROVE RequestOK(call[k])'
  OBVIOUS
<1> QED
  BY OthersKept DEF IInv, OthersStand

\* Nobody relies on an idle request.
LEMMA IdleOK ==
    ASSUME NEW c \in Call, call'[c] = Idle
    PROVE  RequestOK(call[c])'
BY DEF RequestOK, Replies, Findings, Idle, UserStages, TokenStages, MemoStages

LEMMA IdleType == Idle \in RequestRecord
BY DEF Idle, RequestRecord, Request, Op

\* Sessions keep what they are promised when their rows stand, as far as requests go.
LEMMA SessionsStand ==
    ASSUME IInv, NEW c \in Call, OthersStand(c),
           call[c].stage \notin MemoStages \cup {"revoking"}, UNCHANGED <<nonce, origin>>
    PROVE  Attended' /\ Outdated' /\ TradedIn' /\ TokenTradedOnce'
<1>1. \A k \in Call : k # c => /\ call'[k].stage = call[k].stage
                               /\ call'[k].id = call[k].id
                               /\ call'[k].memo = call[k].memo
  BY OthersFields DEF IInv
<1>2. Attended'
  BY <1>1 DEF IInv, Attended
<1>3. Outdated'
  BY <1>1 DEF IInv, Outdated, At
<1> QED
  BY <1>2, <1>3 DEF IInv, TradedIn, TokenTradedOnce

LEMMA CreateUserStep ==
    ASSUME IInv, NEW c \in Call, CreateUser(c)
    PROVE  IInv'
<1> USE DEF rows, jobs
<1>1. /\ call[c] \in RequestRecord /\ Replies(call[c]) /\ Findings(call[c])
      /\ call[c].stage = "creating" /\ UNCHANGED <<nonce, jobs, origin>>
  BY DEF IInv, TypeOK, RequestRecord, RequestOK, CreateUser, At
<1>2. CASE Reply(c, "INTERNAL_SERVER_ERROR") /\ UNCHANGED user /\ ~UniqueEmail(call[c].body)
  <2>1. call[c].overtaken
    BY <1>1, <1>2 DEF UniqueEmail, Findings
  <2>2. Excused([call[c] EXCEPT !.answer = "INTERNAL_SERVER_ERROR"])
    BY <2>1, Excuses DEF Status
  <2> QED
    BY <1>1, <1>2, <2>2, ReplyStep DEF Status, MemoStages
<1>3. ASSUME NEW u \in User, user[u].row = "none",
             user' = [user EXCEPT ![u] = [row |-> "stored", email |-> call[c].body,
                        isEmailVerified |-> FALSE, expired |-> FALSE]],
             call' = [Overtaking(c, Registering(call[c].body)) EXCEPT ![c] = Ended(@, "OK")]
      PROVE  IInv'
  <2>1. Overtaking(c, Registering(call[c].body))[c] = call[c] /\ Ended(call[c], "OK") = Idle
    BY <1>1 DEF Overtaking, Replies, Ended
  <2>2. call'[c] = Idle
    BY <1>3, <2>1 DEF Overtaking
  <2>3. \A k \in Call \ {c} :
          call'[k] = IF k \in Registering(call[c].body)
                     THEN [call[k] EXCEPT !.overtaken = TRUE] ELSE call[k]
    BY <1>3 DEF Overtaking
  <2>4. OthersStand(c)
    BY <2>3 DEF OthersStand
  <2>5. call' \in [Call -> RequestRecord]
    <3>1. \A k \in Call : call'[k] \in RequestRecord
      BY <2>2, <2>4, OthersFields, IdleType DEF IInv
    <3>2. call' = [k \in Call |-> call'[k]]
      BY <1>3 DEF Overtaking
    <3> QED
      BY <3>1, <3>2
  <2>6. call[c].body \in Email
    BY <1>1 DEF Findings
  <2>7. TypeOK'
    <3>1. user' \in [User -> UserRow]
      BY <1>3, <2>6 DEF IInv, TypeOK, UserRow, RowState
    <3>2. \A n \in Nonce : nonce[n].row = "stored" => Exists(nonce[n].user)'
      <4> SUFFICES ASSUME NEW n \in Nonce, nonce[n].row = "stored"
                   PROVE  nonce[n].user # None /\ user'[nonce[n].user].row = "stored"
        BY <1>1 DEF Exists
      <4>1. nonce[n].user # None /\ user[nonce[n].user].row = "stored" /\ nonce[n].user \in User
        BY DEF IInv, TypeOK, Exists, NonceRow
      <4> QED
        BY <1>3, <4>1 DEF IInv, TypeOK
    <3> QED
      BY <1>1, <2>5, <3>1, <3>2 DEF IInv, TypeOK, RequestRecord, Exists
  <2>8. RowsKept
    BY <1>1, <1>3 DEF IInv, TypeOK, RowsKept
  <2>9. \A k \in Call \ {c} : call[k].stage = "creating" =>
           \/ call'[k].overtaken
           \/ \A w \in User : user'[w].row = "stored" /\ user'[w].email = call[k].body
                             => user[w].row = "stored" /\ user[w].email = call[k].body
    <3> SUFFICES ASSUME NEW k \in Call \ {c}, call[k].stage = "creating", ~call'[k].overtaken,
                        NEW w \in User, user'[w].row = "stored",
                        user'[w].email = call[k].body
                 PROVE  user[w].row = "stored" /\ user[w].email = call[k].body
      OBVIOUS
    <3>1. call[k].body # call[c].body
      BY <2>3 DEF Registering, At, IInv, TypeOK, Request
    <3> QED
      BY <1>3, <3>1 DEF IInv, TypeOK
  <2>10. (\A k \in Call : RequestOK(call[k]))'
    BY <2>2, <2>4, <2>8, <2>9, IdleOK, RequestsKept
  <2>11. Attended' /\ Outdated' /\ TradedIn' /\ TokenTradedOnce'
    BY <1>1, <2>4, SessionsStand DEF MemoStages
  <2>12. RowsOK'
    BY <1>1, <1>3 DEF IInv, RowsOK, TypeOK
  <2> QED
    BY <2>7, <2>10, <2>11, <2>12 DEF IInv
<1> QED
  BY <1>1, <1>2, <1>3 DEF CreateUser

LEMMA ConfirmUserEmailStep ==
    ASSUME IInv, NEW c \in Call, ConfirmUserEmail(c)
    PROVE  IInv'
<1> USE DEF rows, jobs
<1> DEFINE u == call[c].id
<1>1. /\ call[c] \in RequestRecord /\ Replies(call[c]) /\ Findings(call[c])
      /\ call[c].stage = "confirming" /\ UNCHANGED <<nonce, jobs, origin>>
  BY DEF IInv, TypeOK, RequestRecord, RequestOK, ConfirmUserEmail, At
<1>2. u \in User /\ (Exists(u) \/ user[u].row = "deleted")
  BY <1>1, NoneAssumption DEF Findings, UserStages, Exists, IInv, TypeOK, UserRow, RowState
<1>3. CASE Reply(c, "INTERNAL_SERVER_ERROR") /\ UNCHANGED user /\ ~Exists(u)
  <2>1. Excused([call[c] EXCEPT !.answer = "INTERNAL_SERVER_ERROR"])
    BY <1>2, <1>3, Excuses DEF Status
  <2> QED
    BY <1>1, <1>3, <2>1, ReplyStep DEF Status, MemoStages
<1>4. CASE Exists(u) /\ user' = [user EXCEPT ![u].isEmailVerified = TRUE] /\ Reply(c, "OK")
  <2>1. call' = [call EXCEPT ![c] = Idle]
    BY <1>1, <1>4 DEF Reply, Ended, Replies
  <2>2. call'[c] = Idle /\ OthersStand(c)
    BY <2>1 DEF IInv, TypeOK, OthersStand
  <2>3. user[u].row = "stored"
    BY <1>4 DEF Exists
  <2>4. /\ user' \in [User -> UserRow]
        /\ \A w \in User : user'[w].row = user[w].row /\ user'[w].email = user[w].email
    BY <1>2, <1>4 DEF IInv, TypeOK, UserRow
  <2>5. TypeOK'
    <3>1. \A n \in Nonce : nonce[n].user \in User \cup {None}
      BY DEF IInv, TypeOK, NonceRow
    <3> QED
      BY <1>1, <2>1, <2>4, <3>1, IdleType DEF IInv, TypeOK, RequestRecord, Exists
  <2>6. RowsKept
    BY <1>1, <2>4 DEF RowsKept
  <2>7. (\A k \in Call : RequestOK(call[k]))'
    BY <2>2, <2>4, <2>6, IdleOK, RequestsKept
  <2>8. Attended' /\ Outdated' /\ TradedIn' /\ TokenTradedOnce'
    BY <1>1, <2>2, SessionsStand DEF MemoStages
  <2>9. RowsOK'
    BY <1>1, <1>2, <1>4, <2>3, <2>4 DEF IInv, RowsOK, TypeOK
  <2> QED
    BY <2>5, <2>7, <2>8, <2>9 DEF IInv
<1> QED
  BY <1>1, <1>3, <1>4 DEF ConfirmUserEmail

\* What DeleteNonces does to each row.
LEMMA WithoutRows ==
    ASSUME TypeOK, NEW gone \in SUBSET Nonce
    PROVE  LET w == WithoutNonces(gone) IN
           /\ w \in [Nonce -> NonceRow]
           /\ \A n \in Nonce : w[n].user = nonce[n].user /\ w[n].held = nonce[n].held
           /\ \A n \in gone : w[n].row = "deleted"
           /\ \A n \in Nonce \ gone : w[n] = nonce[n]
<1>1. \A n \in Nonce : nonce[n] \in NonceRow
  BY DEF TypeOK
<1> QED
  BY <1>1 DEF WithoutNonces, NonceRow, RowState

LEMMA ForgottenOrigins ==
    ASSUME TypeOK, NEW gone \in SUBSET Nonce, ForgetOrigins(gone)
    PROVE  /\ origin' \in [Nonce -> Origin]
           /\ \A n \in Nonce : origin'[n].replaces = origin[n].replaces
           /\ \A n \in gone : origin'[n].password = "current"
           /\ \A n \in Nonce \ gone : origin'[n] = origin[n]
<1>1. \A n \in Nonce : origin[n] \in Origin
  BY DEF TypeOK
<1> QED
  BY <1>1 DEF ForgetOrigins, Origin

LEMMA DeletedRows ==
    ASSUME TypeOK, NEW gone \in SUBSET Nonce, DeleteNonces(gone)
    PROVE  /\ nonce' \in [Nonce -> NonceRow] /\ origin' \in [Nonce -> Origin]
           /\ \A n \in Nonce : /\ nonce'[n].user = nonce[n].user
                               /\ nonce'[n].held = nonce[n].held
                               /\ origin'[n].replaces = origin[n].replaces
           /\ \A n \in gone : nonce'[n].row = "deleted" /\ origin'[n].password = "current"
           /\ \A n \in Nonce \ gone : nonce'[n] = nonce[n] /\ origin'[n] = origin[n]
BY WithoutRows, ForgottenOrigins DEF DeleteNonces

\* Deleting sessions breaks no promise, provided a reset that ends has deleted its user's.
LEMMA SessionsDeleted ==
    ASSUME IInv, NEW gone \in SUBSET Nonce, DeleteNonces(gone),
           \A k \in Call : call[k].stage \in MemoStages =>
             call'[k].stage = call[k].stage /\ call'[k].memo = call[k].memo,
           \A k \in Call : call[k].stage = "revoking" =>
             \/ call'[k].stage = "revoking" /\ call'[k].id = call[k].id
             \/ NoncesOf(call[k].id) \subseteq gone
    PROVE  Attended' /\ Outdated' /\ TradedIn' /\ TokenTradedOnce'
<1>1. /\ \A n \in Nonce : /\ nonce'[n].user = nonce[n].user
                          /\ nonce'[n].held = nonce[n].held
                          /\ origin'[n].replaces = origin[n].replaces
      /\ \A n \in gone : nonce'[n].row = "deleted" /\ origin'[n].password = "current"
      /\ \A n \in Nonce \ gone : nonce'[n] = nonce[n] /\ origin'[n] = origin[n]
  BY DeletedRows DEF IInv
<1>2. \A n \in Nonce : nonce[n].row = "deleted" => nonce'[n].row = "deleted"
  BY <1>1
<1>3. TradedIn'
  BY <1>1, <1>2 DEF IInv, TradedIn
<1>4. TokenTradedOnce'
  BY <1>1 DEF IInv, TokenTradedOnce
<1>5. Attended'
  <2> SUFFICES ASSUME NEW n \in Nonce, nonce'[n].row = "stored", ~nonce'[n].held,
                      origin'[n].password # "excused"
               PROVE  \/ \E k \in Call : call'[k].stage \in MemoStages /\ call'[k].memo = n
                      \/ /\ origin'[n].replaces \in Nonce
                         /\ nonce'[origin'[n].replaces].row = "deleted"
    BY DEF Attended
  <2>1. n \in Nonce \ gone
    BY <1>1
  <2> QED
    BY <1>1, <1>2, <2>1 DEF IInv, Attended
<1>6. Outdated'
  <2> SUFFICES ASSUME NEW n \in Nonce, origin'[n].password = "outdated"
               PROVE  /\ nonce'[n].row = "stored"
                      /\ \E k \in Call : call'[k].stage = "revoking" /\ call'[k].id = nonce'[n].user
    BY DEF Outdated, At
  <2>1. n \in Nonce \ gone
    BY <1>1
  <2>2. nonce[n].row = "stored"
    BY <1>1, <2>1 DEF IInv, Outdated
  <2>3. PICK k \in Call : call[k].stage = "revoking" /\ call[k].id = nonce[n].user
    BY <1>1, <2>1 DEF IInv, Outdated, At
  <2>4. n \in NoncesOf(call[k].id)
    BY <2>2, <2>3 DEF NoncesOf
  <2> QED
    BY <1>1, <2>1, <2>2, <2>3, <2>4
<1> QED
  BY <1>3, <1>4, <1>5, <1>6

LEMMA DeletionKeepsTables ==
    ASSUME IInv, NEW gone \in SUBSET Nonce, DeleteNonces(gone), UNCHANGED user,
           \A n \in gone : nonce[n].row = "stored"
    PROVE  /\ nonce' \in [Nonce -> NonceRow] /\ origin' \in [Nonce -> Origin]
           /\ \A n \in Nonce : nonce'[n].row = "stored" => Exists(nonce'[n].user)
           /\ RowsKept
<1>1. /\ nonce' \in [Nonce -> NonceRow] /\ origin' \in [Nonce -> Origin]
      /\ \A n \in Nonce : /\ nonce'[n].user = nonce[n].user
                          /\ origin'[n].replaces = origin[n].replaces
      /\ \A n \in gone : nonce'[n].row = "deleted"
      /\ \A n \in Nonce \ gone : nonce'[n] = nonce[n]
  BY DeletedRows DEF IInv
<1>2. \A n \in Nonce : nonce'[n].row = "stored" => nonce[n].row = "stored"
  BY <1>1
<1> QED
  BY <1>1, <1>2 DEF IInv, TypeOK, Exists, RowsKept

LEMMA DeleteSessionStep ==
    ASSUME IInv, NEW c \in Call, DeleteSession(c)
    PROVE  IInv'
<1> USE DEF rows, jobs
<1> DEFINE n == call[c].body
<1>1. /\ call[c] \in RequestRecord /\ Replies(call[c]) /\ Findings(call[c])
      /\ call[c].stage = "left" /\ UNCHANGED <<user, jobs>>
  BY DEF IInv, TypeOK, RequestRecord, RequestOK, DeleteSession, At
<1>2. n \in Nonce /\ (nonce[n].row = "stored" \/ nonce[n].row = "deleted")
  BY <1>1 DEF Findings, TokenStages, IInv, TypeOK, NonceRow, RowState
<1>3. CASE ~DeletesById(n) /\ Reply(c, "INTERNAL_SERVER_ERROR") /\ UNCHANGED <<nonce, origin>>
  <2>1. Excused([call[c] EXCEPT !.answer = "INTERNAL_SERVER_ERROR"])
    BY <1>2, <1>3, Excuses DEF Status, DeletesById
  <2> QED
    BY <1>1, <1>3, <2>1, ReplyStep DEF Status, MemoStages
<1>4. CASE DeletesById(n) /\ DeleteNonces({n}) /\ Reply(c, "OK")
  <2>1. call' = [call EXCEPT ![c] = Idle]
    BY <1>1, <1>4 DEF Reply, Ended, Replies
  <2>2. /\ call'[c] = Idle /\ OthersStand(c)
        /\ \A k \in Call \ {c} : call'[k] = call[k]
    BY <2>1 DEF IInv, TypeOK, OthersStand
  <2>3. /\ nonce' \in [Nonce -> NonceRow] /\ origin' \in [Nonce -> Origin]
        /\ \A m \in Nonce : nonce'[m].row = "stored" => Exists(nonce'[m].user)
        /\ RowsKept
    BY <1>1, <1>2, <1>4, DeletionKeepsTables DEF DeletesById
  <2>4. TypeOK'
    BY <1>1, <2>1, <2>3, IdleType DEF IInv, TypeOK, RequestRecord, Exists
  <2>5. (\A k \in Call : RequestOK(call[k]))'
    BY <1>1, <2>2, <2>3, IdleOK, RequestsKept
  <2>6. Attended' /\ Outdated' /\ TradedIn' /\ TokenTradedOnce'
    BY <1>1, <1>2, <1>4, <2>2, SessionsDeleted DEF MemoStages
  <2> QED
    BY <1>1, <2>4, <2>5, <2>6 DEF IInv, RowsOK
<1> QED
  BY <1>1, <1>3, <1>4 DEF DeleteSession

LEMMA RevokeSessionsStep ==
    ASSUME IInv, NEW c \in Call, RevokeSessions(c)
    PROVE  IInv'
<1> USE DEF rows, jobs
<1> DEFINE gone == NoncesOf(call[c].id)
<1>1. /\ call[c] \in RequestRecord /\ Replies(call[c])
      /\ call[c].stage = "revoking" /\ UNCHANGED <<user, jobs>>
      /\ DeleteNonces(gone)
      /\ call' = [Overtaking(c, Opening(call[c].id)) EXCEPT ![c] = Ended(@, "OK")]
  BY DEF IInv, TypeOK, RequestRecord, RequestOK, RevokeSessions, At
<1>2. /\ call'[c] = Idle /\ OthersStand(c)
      /\ \A k \in Call : call'[k] \in RequestRecord
  <2>1. Overtaking(c, Opening(call[c].id))[c] = call[c] /\ Ended(call[c], "OK") = Idle
    BY <1>1 DEF Overtaking, Replies, Ended
  <2>2. call'[c] = Idle
    BY <1>1, <2>1 DEF Overtaking
  <2>3. OthersStand(c)
    BY <1>1 DEF OthersStand, Overtaking
  <2> QED
    BY <2>2, <2>3, OthersFields, IdleType DEF IInv
<1>3. gone \in SUBSET Nonce /\ \A n \in gone : nonce[n].row = "stored"
  BY DEF NoncesOf
<1>4. /\ nonce' \in [Nonce -> NonceRow] /\ origin' \in [Nonce -> Origin]
      /\ \A n \in Nonce : nonce'[n].row = "stored" => Exists(nonce'[n].user)
      /\ RowsKept
  BY <1>1, <1>3, DeletionKeepsTables
<1>5. call' = [k \in Call |-> call'[k]]
  BY <1>1 DEF Overtaking
<1>6. TypeOK'
  BY <1>1, <1>2, <1>4, <1>5 DEF IInv, TypeOK, RequestRecord, Exists
<1>7. (\A k \in Call : RequestOK(call[k]))'
  BY <1>1, <1>2, <1>4, IdleOK, RequestsKept
<1>8. \A k \in Call \ {c} : /\ call'[k].stage = call[k].stage
                            /\ call'[k].id = call[k].id
                            /\ call'[k].memo = call[k].memo
  BY <1>2, OthersFields DEF IInv
<1>9. Attended' /\ Outdated' /\ TradedIn' /\ TokenTradedOnce'
  <2> HIDE DEF gone
  <2>1. \A k \in Call : call[k].stage \in MemoStages =>
          call'[k].stage = call[k].stage /\ call'[k].memo = call[k].memo
    BY <1>1, <1>8 DEF MemoStages
  <2>2. \A k \in Call : call[k].stage = "revoking" =>
          \/ call'[k].stage = "revoking" /\ call'[k].id = call[k].id
          \/ NoncesOf(call[k].id) \subseteq gone
    BY <1>8 DEF gone
  <2> QED
    BY <1>1, <1>3, <2>1, <2>2, SessionsDeleted
<1> QED
  BY <1>1, <1>6, <1>7, <1>9 DEF IInv, RowsOK

LEMMA AnswerLoginStep ==
    ASSUME IInv, NEW c \in Call, AnswerLogin(c)
    PROVE  IInv'
<1> USE DEF rows, jobs
<1> DEFINE m == call[c].memo
<1>1. /\ call[c] \in RequestRecord /\ Replies(call[c]) /\ Findings(call[c])
      /\ call[c].stage = "opened" /\ UNCHANGED <<user, jobs, origin>>
  BY DEF IInv, TypeOK, RequestRecord, RequestOK, AnswerLogin, At
<1>2. /\ m \in Nonce /\ nonce[m] \in NonceRow /\ nonce[m].user = call[c].id
      /\ origin[m].replaces = None
  BY <1>1 DEF Findings, MemoStages, IInv, TypeOK
<1>3. CASE ~Exists(call[c].id) /\ Reply(c, "NOT_FOUND") /\ UNCHANGED nonce
  <2>1. Settled(m)
    BY <1>2, <1>3 DEF Settled, IInv, TypeOK
  <2> QED
    BY <1>1, <1>3, <2>1, ReplyStep DEF Status, Replies
<1>4. CASE nonce' = [nonce EXCEPT ![m].held = TRUE] /\ Reply(c, "OK")
  <2>1. call' = [call EXCEPT ![c] = Idle]
    BY <1>1, <1>4 DEF Reply, Ended, Replies
  <2>2. /\ call'[c] = Idle /\ OthersStand(c)
        /\ \A k \in Call \ {c} : call'[k] = call[k]
    BY <2>1 DEF IInv, TypeOK, OthersStand
  <2>3. /\ nonce' \in [Nonce -> NonceRow] /\ nonce'[m].held
        /\ \A n \in Nonce : nonce'[n].row = nonce[n].row /\ nonce'[n].user = nonce[n].user
        /\ \A n \in Nonce \ {m} : nonce'[n] = nonce[n]
    BY <1>2, <1>4 DEF IInv, TypeOK, NonceRow
  <2>4. TypeOK'
    BY <1>1, <2>1, <2>3, IdleType DEF IInv, TypeOK, RequestRecord, Exists
  <2>5. RowsKept
    BY <1>1, <2>3 DEF RowsKept
  <2>6. (\A k \in Call : RequestOK(call[k]))'
    BY <1>1, <2>2, <2>5, IdleOK, RequestsKept
  <2>7. TradedIn' /\ TokenTradedOnce'
    BY <1>1, <1>2, <2>3 DEF IInv, TradedIn, TokenTradedOnce
  <2>8. Attended'
    BY <1>1, <2>2, <2>3 DEF IInv, Attended
  <2>9. Outdated'
    BY <1>1, <2>2, <2>3 DEF IInv, Outdated, At
  <2> QED
    BY <1>1, <2>4, <2>6, <2>7, <2>8, <2>9 DEF IInv, RowsOK
<1> QED
  BY <1>1, <1>3, <1>4 DEF AnswerLogin

LEMMA RetireReplacedStep ==
    ASSUME IInv, NEW c \in Call, RetireReplaced(c)
    PROVE  IInv'
<1> USE DEF rows, jobs
<1> DEFINE n == call[c].body
           m == call[c].memo
<1>1. /\ call[c] \in RequestRecord /\ Replies(call[c]) /\ Findings(call[c])
      /\ call[c].stage = "retiring" /\ UNCHANGED <<user, jobs>>
  BY DEF IInv, TypeOK, RequestRecord, RequestOK, RetireReplaced, At
<1>2. /\ n \in Nonce /\ (nonce[n].row = "stored" \/ nonce[n].row = "deleted")
      /\ m \in Nonce /\ origin[m].replaces = n
  BY <1>1 DEF Findings, TokenStages, MemoStages, IInv, TypeOK, NonceRow, RowState
<1>3. CASE ~DeletesById(n) /\ Reply(c, "INTERNAL_SERVER_ERROR") /\ UNCHANGED <<nonce, origin>>
  <2>1. Excused([call[c] EXCEPT !.answer = "INTERNAL_SERVER_ERROR"])
    BY <1>2, <1>3, Excuses DEF Status, DeletesById
  <2>2. Settled(m)
    BY <1>2, <1>3 DEF Settled, DeletesById
  <2> QED
    BY <1>1, <1>3, <2>1, <2>2, ReplyStep DEF Status
<1>4. CASE /\ nonce[n].row = "stored"
           /\ nonce' = [WithoutNonces({n}) EXCEPT ![m].held = TRUE]
           /\ ForgetOrigins({n})
           /\ Reply(c, "OK")
  <2>1. call' = [call EXCEPT ![c] = Idle]
    BY <1>1, <1>4 DEF Reply, Ended, Replies
  <2>2. /\ call'[c] = Idle /\ OthersStand(c)
        /\ \A k \in Call \ {c} : call'[k] = call[k]
    BY <2>1 DEF IInv, TypeOK, OthersStand
  <2>3. /\ origin' \in [Nonce -> Origin] /\ origin'[n].password = "current"
        /\ \A p \in Nonce : origin'[p].replaces = origin[p].replaces
        /\ \A p \in Nonce \ {n} : origin'[p] = origin[p]
    <3> DEFINE gone == {n}
    <3>1. gone \in SUBSET Nonce /\ ForgetOrigins(gone)
      BY <1>2, <1>4
    <3> HIDE DEF gone
    <3> QED
      BY <3>1, ForgottenOrigins DEF IInv, gone
  <2>4. /\ nonce' \in [Nonce -> NonceRow]
        /\ nonce'[n].row = "deleted" /\ nonce'[m].held
        /\ \A p \in Nonce : nonce'[p].user = nonce[p].user
        /\ \A p \in Nonce \ {m} : nonce'[p].held = nonce[p].held
        /\ \A p \in Nonce \ {n} : nonce'[p].row = nonce[p].row
    <3> DEFINE w == WithoutNonces({n})
    <3>1. /\ w \in [Nonce -> NonceRow] /\ w[n].row = "deleted"
          /\ \A p \in Nonce : w[p].user = nonce[p].user /\ w[p].held = nonce[p].held
          /\ \A p \in Nonce \ {n} : w[p] = nonce[p]
      BY <1>2, WithoutRows DEF IInv
    <3>2. nonce' = [w EXCEPT ![m].held = TRUE]
      BY <1>4
    <3> HIDE DEF w
    <3>3. w[m] \in NonceRow
      BY <1>2, <3>1
    <3>4. /\ nonce' \in [Nonce -> NonceRow] /\ nonce'[m].held
          /\ \A p \in Nonce : nonce'[p].row = w[p].row /\ nonce'[p].user = w[p].user
          /\ \A p \in Nonce \ {m} : nonce'[p] = w[p]
      BY <1>2, <3>1, <3>2, <3>3 DEF NonceRow
    <3> QED
      BY <1>2, <3>1, <3>4
  <2>5. TypeOK'
    <3>1. \A p \in Nonce : nonce'[p].row = "stored" => Exists(nonce'[p].user)
      BY <2>3, <2>4 DEF IInv, TypeOK
    <3> QED
      BY <1>1, <2>1, <2>3, <2>4, <3>1, IdleType DEF IInv, TypeOK, RequestRecord, Exists
  <2>6. RowsKept
    BY <1>1, <1>2, <2>3, <2>4 DEF RowsKept
  <2>7. (\A k \in Call : RequestOK(call[k]))'
    BY <1>1, <2>2, <2>6, IdleOK, RequestsKept
  <2>8. TradedIn'
    BY <1>2, <2>3, <2>4, <2>6 DEF IInv, TradedIn, RowsKept
  <2>9. TokenTradedOnce'
    <3>1. \A p \in Nonce : nonce[p].held => origin[p].replaces # n
      BY <1>2, <1>4, NoneAssumption DEF IInv, TradedIn
    <3> QED
      BY <1>2, <2>3, <2>4, <3>1 DEF IInv, TokenTradedOnce
  <2>10. Attended'
    BY <1>2, <2>2, <2>3, <2>4, <2>6 DEF IInv, Attended, RowsKept
  <2>11. Outdated'
    BY <1>1, <2>2, <2>3, <2>4 DEF IInv, Outdated, At
  <2> QED
    BY <1>1, <2>5, <2>7, <2>8, <2>9, <2>10, <2>11 DEF IInv, RowsOK
<1> QED
  BY <1>1, <1>3, <1>4 DEF RetireReplaced, DeletesById

\* A fresh nonce for a user who exists.
LEMMA SessionStored ==
    ASSUME IInv, NEW c \in Call, NEW n \in FreshNonces, NEW stage \in {"opened", "rotated"},
           NEW from \in {"current", "outdated", "excused"}, NEW replaced \in Nonce \cup {None},
           NEW r \in RequestRecord, r.stage = stage, r.memo = n, r.id = call[c].id,
           r.body = call[c].body, r.docs = call[c].docs, call' = [call EXCEPT ![c] = r],
           StoreNonce(c, n, from, replaced), Exists(call[c].id), UNCHANGED <<user, jobs>>,
           call[c].stage = IF stage = "opened" THEN "opening" ELSE "refreshing",
           replaced = IF stage = "opened" THEN None ELSE call[c].body,
           from = "outdated" =>
             \E k \in Call : call[k].stage = "revoking" /\ call[k].id = call[c].id
    PROVE  IInv'
<1> USE DEF rows, jobs
<1>1. /\ call[c] \in RequestRecord /\ Replies(call[c]) /\ Findings(call[c])
  BY DEF IInv, TypeOK, RequestRecord, RequestOK
<1>2. n \in Nonce /\ nonce[n].row = "none"
  BY DEF FreshNonces
<1>3. r \in RequestRecord /\ r.stage = stage /\ r.memo = n /\ r.id = call[c].id
  OBVIOUS
<1>4. call'[c] = r
  BY DEF IInv, TypeOK
<1>5. OthersStand(c) /\ \A k \in Call \ {c} : call'[k] = call[k]
  BY DEF IInv, TypeOK, OthersStand
<1>6. call[c].id \in User /\ user[call[c].id].row = "stored"
  BY <1>1 DEF Findings, UserStages, Exists
<1>7. /\ nonce' \in [Nonce -> NonceRow] /\ origin' \in [Nonce -> Origin]
      /\ nonce'[n].row = "stored" /\ ~nonce'[n].held /\ nonce'[n].user = call[c].id
      /\ origin'[n].replaces = replaced
      /\ origin'[n].password \in {from, "excused"}
      /\ \A p \in Nonce \ {n} : nonce'[p] = nonce[p] /\ origin'[p] = origin[p]
  BY <1>2, <1>6 DEF StoreNonce, IInv, TypeOK, NonceRow, RowState, Origin
<1>8. TypeOK'
  <2>1. \A p \in Nonce : nonce'[p].row = "stored" => Exists(nonce'[p].user)
    BY <1>7 DEF IInv, TypeOK
  <2> QED
    BY <1>3, <1>4, <1>7, <2>1 DEF IInv, TypeOK, RequestRecord, Exists
<1>9. RowsKept
  BY <1>2, <1>7 DEF RowsKept
<1>10. RequestOK(call[c])'
  <2>1. stage = "rotated" => call[c].body \in Nonce /\ nonce'[call[c].body].row # "none"
    BY <1>1, <1>2, <1>7 DEF Findings, TokenStages
  <2>2. Replies(call[c])'
    BY <1>1, <1>3, <1>4 DEF Replies
  <2>3. Findings(call[c])'
    <3>1. /\ user'[r.id].row # "none" /\ nonce'[r.memo].row # "none"
          /\ nonce'[r.memo].user = r.id /\ origin'[r.memo].replaces = replaced
      BY <1>3, <1>6, <1>7
    <3>2. CASE stage = "opened"
      BY <1>2, <1>3, <1>4, <1>6, <3>1, <3>2 DEF Findings, UserStages, TokenStages, MemoStages
    <3>3. CASE stage = "rotated"
      BY <1>2, <1>3, <1>4, <1>6, <2>1, <3>1, <3>3
      DEF Findings, UserStages, TokenStages, MemoStages
    <3> QED
      BY <3>2, <3>3
  <2> QED
    BY <2>2, <2>3 DEF RequestOK
<1>11. (\A k \in Call : RequestOK(call[k]))'
  BY <1>5, <1>9, <1>10, RequestsKept
<1>12. TradedIn'
  BY <1>2, <1>7 DEF IInv, TradedIn
<1>13. TokenTradedOnce'
  BY <1>7 DEF IInv, TokenTradedOnce
<1>14. Attended'
  <2> SUFFICES ASSUME NEW p \in Nonce, nonce'[p].row = "stored", ~nonce'[p].held,
                      origin'[p].password # "excused"
               PROVE  \/ \E k \in Call : call'[k].stage \in MemoStages /\ call'[k].memo = p
                      \/ /\ origin'[p].replaces \in Nonce
                         /\ nonce'[origin'[p].replaces].row = "deleted"
    BY DEF Attended
  <2>1. CASE p = n
    BY <1>3, <1>4, <2>1 DEF MemoStages
  <2>2. CASE p # n
    <3>1. nonce[p].row = "stored" /\ ~nonce[p].held /\ origin[p].password # "excused"
      BY <1>7, <2>2
    <3>2. call[c].stage \notin MemoStages
      BY DEF MemoStages
    <3>3. \/ \E k \in Call \ {c} : call[k].stage \in MemoStages /\ call[k].memo = p
          \/ /\ origin[p].replaces \in Nonce
             /\ nonce[origin[p].replaces].row = "deleted"
      BY <3>1, <3>2 DEF IInv, Attended
    <3> QED
      BY <1>5, <1>7, <1>9, <2>2, <3>3 DEF RowsKept
  <2> QED
    BY <2>1, <2>2
<1>15. Outdated'
  <2> SUFFICES ASSUME NEW p \in Nonce, origin'[p].password = "outdated"
               PROVE  /\ nonce'[p].row = "stored"
                      /\ \E k \in Call : call'[k].stage = "revoking" /\ call'[k].id = nonce'[p].user
    BY DEF Outdated, At
  <2>1. nonce'[p].row = "stored" /\
        \E k \in Call : call[k].stage = "revoking" /\ call[k].id = nonce'[p].user
    <3>1. CASE p = n
      BY <1>7, <3>1
    <3>2. CASE p # n
      BY <1>7, <3>2 DEF IInv, Outdated, At
    <3> QED
      BY <3>1, <3>2
  <2>2. call[c].stage # "revoking"
    OBVIOUS
  <2> QED
    BY <1>5, <2>1, <2>2
<1> QED
  BY <1>8, <1>11, <1>12, <1>13, <1>14, <1>15 DEF IInv, RowsOK

LEMMA OpenSessionStep ==
    ASSUME IInv, NEW c \in Call, OpenSession(c)
    PROVE  IInv'
<1> USE DEF rows, jobs
<1>1. /\ call[c] \in RequestRecord /\ Findings(call[c])
      /\ call[c].stage = "opening" /\ UNCHANGED <<user, jobs>>
  BY DEF IInv, TypeOK, RequestRecord, RequestOK, OpenSession, At
<1>2. call[c].id \in User /\ (Exists(call[c].id) \/ user[call[c].id].row = "deleted")
  BY <1>1, NoneAssumption DEF Findings, UserStages, Exists, IInv, TypeOK, UserRow, RowState
<1>3. CASE /\ ~Exists(call[c].id)
           /\ Reply(c, "INTERNAL_SERVER_ERROR") /\ UNCHANGED <<nonce, origin>>
  <2>1. Excused([call[c] EXCEPT !.answer = "INTERNAL_SERVER_ERROR"])
    BY <1>2, <1>3, Excuses DEF Status
  <2> QED
    BY <1>1, <1>3, <2>1, ReplyStep DEF Status, MemoStages
<1>4. ASSUME NEW n \in FreshNonces, Exists(call[c].id), StoreNonce(c, n, "current", None),
             call' = [call EXCEPT ![c].stage = "opened", ![c].memo = n]
      PROVE  IInv'
  <2> DEFINE r == [call[c] EXCEPT !.stage = "opened", !.memo = n]
  <2>1. n \in Nonce
    BY DEF FreshNonces
  <2>2. /\ r \in RequestRecord /\ r.stage = "opened" /\ r.memo = n
        /\ r.id = call[c].id /\ r.body = call[c].body /\ r.docs = call[c].docs
    BY <1>1, <2>1 DEF RequestRecord, Request, Stage
  <2>3. call' = [call EXCEPT ![c] = r]
    BY <1>4
  <2> HIDE DEF r
  <2> QED
    BY <1>1, <1>4, <2>2, <2>3, SessionStored
<1> QED
  BY <1>1, <1>3, <1>4 DEF OpenSession

LEMMA RotateStep ==
    ASSUME IInv, NEW c \in Call, Rotate(c)
    PROVE  IInv'
<1> USE DEF rows, jobs
<1> DEFINE body == call[c].body
<1>1. /\ call[c] \in RequestRecord /\ Findings(call[c])
      /\ call[c].stage = "refreshing" /\ UNCHANGED <<user, jobs>>
  BY DEF IInv, TypeOK, RequestRecord, RequestOK, Rotate, At
<1>2. call[c].id \in User /\ (Exists(call[c].id) \/ user[call[c].id].row = "deleted")
  BY <1>1, NoneAssumption DEF Findings, UserStages, Exists, IInv, TypeOK, UserRow, RowState
<1>3. CASE /\ ~Exists(call[c].id)
           /\ Reply(c, "INTERNAL_SERVER_ERROR") /\ UNCHANGED <<nonce, origin>>
  <2>1. Excused([call[c] EXCEPT !.answer = "INTERNAL_SERVER_ERROR"])
    BY <1>2, <1>3, Excuses DEF Status
  <2> QED
    BY <1>1, <1>3, <2>1, ReplyStep DEF Status, MemoStages
<1>4. ASSUME NEW m \in FreshNonces, Exists(call[c].id),
             StoreNonce(c, m, origin[body].password, body),
             call' = [call EXCEPT ![c].stage = "rotated", ![c].memo = m]
      PROVE  IInv'
  <2> DEFINE r == [call[c] EXCEPT !.stage = "rotated", !.memo = m]
             from == origin[body].password
  <2>1. m \in Nonce
    BY DEF FreshNonces
  <2>2. /\ r \in RequestRecord /\ r.stage = "rotated" /\ r.memo = m
        /\ r.id = call[c].id /\ r.body = body /\ r.docs = call[c].docs
    BY <1>1, <2>1 DEF RequestRecord, Request, Stage
  <2>3. call' = [call EXCEPT ![c] = r]
    BY <1>4
  <2>4. /\ body \in Nonce /\ nonce[body].user = call[c].id
        /\ from \in {"current", "outdated", "excused"}
    BY <1>1 DEF Findings, TokenStages, IInv, TypeOK, Origin
  <2>5. from = "outdated" =>
          \E k \in Call : call[k].stage = "revoking" /\ call[k].id = call[c].id
    BY <2>4 DEF IInv, Outdated, At
  <2>6. Exists(call[c].id) /\ StoreNonce(c, m, from, body)
    BY <1>4
  <2>7. UNCHANGED <<user, jobs>> /\ call[c].stage = "refreshing"
    BY <1>1
  <2> HIDE DEF r, from
  <2> QED
    BY <2>2, <2>3, <2>4, <2>5, <2>6, <2>7, SessionStored
<1> QED
  BY <1>1, <1>3, <1>4 DEF Rotate

\* What Rejudge does to each session.
LEMMA RejudgedOrigins ==
    ASSUME TypeOK, NEW sessions, NEW judged \in {"outdated", "excused"},
           Rejudge(sessions, judged)
    PROVE  /\ origin' \in [Nonce -> Origin]
           /\ \A n \in Nonce : /\ origin'[n].replaces = origin[n].replaces
                               /\ n \in sessions => origin'[n].password = judged
                               /\ n \notin sessions => origin'[n] = origin[n]
<1>1. \A n \in Nonce : origin[n] \in Origin
  BY DEF TypeOK
<1> QED
  BY <1>1 DEF Rejudge, Origin

LEMMA StorePasswordStep ==
    ASSUME IInv, NEW c \in Call, StorePassword(c)
    PROVE  IInv'
<1> USE DEF rows, jobs
<1> DEFINE u == call[c].id
           sessions == {n \in NoncesOf(u) : origin[n].password = "current"}
<1>1. /\ call[c] \in RequestRecord /\ Replies(call[c]) /\ Findings(call[c])
      /\ call[c].stage = "resetting" /\ UNCHANGED <<rows, jobs>>
  BY DEF IInv, TypeOK, RequestRecord, RequestOK, StorePassword, At
<1>2. u \in User /\ user[u].row # "none" /\ (Exists(u) \/ user[u].row = "deleted")
  BY <1>1, NoneAssumption DEF Findings, UserStages, Exists, IInv, TypeOK, UserRow, RowState
<1>3. \A n \in sessions : /\ nonce[n].row = "stored" /\ nonce[n].user = u
                          /\ origin[n].password = "current"
  BY DEF NoncesOf
<1> HIDE DEF sessions
<1>4. CASE ~Exists(u) /\ Reply(c, "INTERNAL_SERVER_ERROR") /\ UNCHANGED origin
  <2>1. Excused([call[c] EXCEPT !.answer = "INTERNAL_SERVER_ERROR"])
    BY <1>2, <1>4, Excuses DEF Status
  <2> QED
    BY <1>1, <1>4, <2>1, ReplyStep DEF Status, MemoStages
<1>5. CASE /\ Rejudge(sessions, "outdated")
           /\ call' = [Overtaking(c, Opening(u)) EXCEPT ![c].stage = "revoking"]
  <2> DEFINE r == [call[c] EXCEPT !.stage = "revoking"]
  <2>1. /\ r \in RequestRecord /\ r.stage = "revoking" /\ r.id = u /\ r.docs = call[c].docs
    BY <1>1 DEF RequestRecord, Request, Stage
  <2>2. call'[c] = r
    BY <1>5 DEF Overtaking
  <2>3. OthersStand(c)
    BY <1>5 DEF OthersStand, Overtaking
  <2> HIDE DEF r
  <2>4. /\ \A k \in Call : call'[k] \in RequestRecord
        /\ \A k \in Call \ {c} : /\ call'[k].stage = call[k].stage
                                 /\ call'[k].id = call[k].id
                                 /\ call'[k].memo = call[k].memo
    BY <2>1, <2>2, <2>3, OthersFields DEF IInv
  <2>5. call' = [k \in Call |-> call'[k]]
    BY <1>5 DEF Overtaking
  <2>6. /\ origin' \in [Nonce -> Origin]
        /\ \A n \in Nonce : /\ origin'[n].replaces = origin[n].replaces
                            /\ n \in sessions => origin'[n].password = "outdated"
                            /\ n \notin sessions => origin'[n] = origin[n]
    BY <1>5, RejudgedOrigins DEF IInv
  <2>7. TypeOK'
    BY <1>1, <2>4, <2>5, <2>6 DEF IInv, TypeOK, RequestRecord, Exists
  <2>8. RowsKept
    BY <1>1, <2>6 DEF RowsKept
  <2>9. RequestOK(call[c])'
    BY <1>1, <1>2, <2>1, <2>2 DEF RequestOK, Replies, Findings, UserStages, TokenStages,
                                 MemoStages
  <2>10. (\A k \in Call : RequestOK(call[k]))'
    BY <1>1, <2>3, <2>8, <2>9, RequestsKept
  <2>11. TradedIn' /\ TokenTradedOnce'
    BY <1>1, <2>6 DEF IInv, TradedIn, TokenTradedOnce
  <2>12. Attended'
    <3> SUFFICES ASSUME NEW n \in Nonce, nonce[n].row = "stored", ~nonce[n].held,
                        origin'[n].password # "excused"
                 PROVE  \/ \E k \in Call : call'[k].stage \in MemoStages /\ call'[k].memo = n
                        \/ /\ origin'[n].replaces \in Nonce
                           /\ nonce[origin'[n].replaces].row = "deleted"
      BY <1>1 DEF Attended
    <3>1. origin[n].password # "excused"
      BY <1>3, <2>6
    <3>2. call[c].stage \notin MemoStages
      BY <1>1 DEF MemoStages
    <3> QED
      BY <2>4, <2>6, <3>1, <3>2 DEF IInv, Attended
  <2>13. Outdated'
    <3> SUFFICES ASSUME NEW n \in Nonce, origin'[n].password = "outdated"
                 PROVE  /\ nonce[n].row = "stored"
                        /\ \E k \in Call : call'[k].stage = "revoking"
                                         /\ call'[k].id = nonce[n].user
      BY <1>1 DEF Outdated, At
    <3>1. CASE n \in sessions
      BY <1>3, <2>1, <2>2, <3>1
    <3>2. CASE n \notin sessions
      BY <1>1, <2>4, <2>6, <3>2 DEF IInv, Outdated, At
    <3> QED
      BY <3>1, <3>2
  <2> QED
    BY <1>1, <2>7, <2>10, <2>11, <2>12, <2>13 DEF IInv, RowsOK
<1> QED
  BY <1>1, <1>4, <1>5 DEF StorePassword, sessions

\* Requests stand when a job or the time moves rows under them.
LEMMA RequestsStand ==
    ASSUME IInv, RowsKept, UNCHANGED call,
           \A u \in User : user'[u].row = "stored" =>
             user[u].row = "stored" /\ user'[u].email = user[u].email
    PROVE  (\A k \in Call : RequestOK(call[k]))'
<1> SUFFICES ASSUME NEW k \in Call PROVE RequestOK(call[k])'
  OBVIOUS
<1> QED
  BY OthersKept DEF IInv

LEMMA CleanerSteps ==
    ASSUME IInv, CleanRefreshTokens \/ \E n \in Nonce : CleanNonce(n)
    PROVE  IInv'
<1>1. CASE CleanRefreshTokens
  <2>1. /\ UNCHANGED <<user, nonce, call, sweep, awaited, origin>>
        /\ cleaner' \subseteq Nonce
    BY <1>1 DEF CleanRefreshTokens, ExpiredNonces, rows
  <2>2. TypeOK'
    BY <2>1 DEF IInv, TypeOK, Exists
  <2>3. RowsKept
    BY <2>1 DEF RowsKept
  <2>4. (\A k \in Call : RequestOK(call[k]))'
    BY <2>1, <2>3, RequestsStand
  <2> QED
    BY <2>1, <2>2, <2>4 DEF IInv, TradedIn, TokenTradedOnce, Attended, Outdated, At, RowsOK
<1>2. ASSUME NEW n \in Nonce, CleanNonce(n)
      PROVE  IInv'
  <2> DEFINE gone == {n} \cap NoncesOf(nonce[n].user)
  <2>1. /\ DeleteNonces(gone) /\ UNCHANGED <<user, call, sweep, awaited>>
        /\ cleaner' \subseteq cleaner
        /\ gone \in SUBSET Nonce /\ \A m \in gone : nonce[m].row = "stored"
    BY <1>2 DEF CleanNonce, NoncesOf
  <2> HIDE DEF gone
  <2>2. /\ nonce' \in [Nonce -> NonceRow] /\ origin' \in [Nonce -> Origin]
        /\ \A m \in Nonce : nonce'[m].row = "stored" => Exists(nonce'[m].user)
        /\ RowsKept
    BY <2>1, DeletionKeepsTables
  <2>3. TypeOK'
    BY <2>1, <2>2 DEF IInv, TypeOK, Exists
  <2>4. (\A k \in Call : RequestOK(call[k]))'
    BY <2>1, <2>2, RequestsStand
  <2>5. Attended' /\ Outdated' /\ TradedIn' /\ TokenTradedOnce'
    BY <2>1, SessionsDeleted
  <2> QED
    BY <2>1, <2>3, <2>4, <2>5 DEF IInv, RowsOK
<1> QED
  BY <1>1, <1>2

LEMMA SweepStep ==
    ASSUME IInv, SweepUsers
    PROVE  IInv'
<1>1. /\ UNCHANGED <<user, nonce, call, cleaner, origin>>
      /\ sweep' \subseteq User /\ awaited' \subseteq sweep'
  BY DEF SweepUsers, UnactivatedUsers, rows
<1>2. TypeOK'
  BY <1>1 DEF IInv, TypeOK, Exists
<1>3. RowsKept
  BY <1>1 DEF RowsKept
<1>4. (\A k \in Call : RequestOK(call[k]))'
  BY <1>1, <1>3, RequestsStand
<1> QED
  BY <1>1, <1>2, <1>4 DEF IInv, TradedIn, TokenTradedOnce, Attended, Outdated, At, RowsOK

LEMMA DeleteUserStep ==
    ASSUME IInv, NEW u \in User, DeleteUser(u)
    PROVE  IInv'
<1>1. /\ UNCHANGED <<call, cleaner>>
      /\ sweep' \subseteq sweep /\ awaited' \subseteq sweep'
  BY DEF DeleteUser
<1>2. CASE UNCHANGED <<user, nonce, origin>>
  <2>1. TypeOK'
    BY <1>1, <1>2 DEF IInv, TypeOK, Exists
  <2>2. RowsKept
    BY <1>2 DEF RowsKept
  <2>3. (\A k \in Call : RequestOK(call[k]))'
    BY <1>1, <1>2, <2>2, RequestsStand
  <2> QED
    BY <1>1, <1>2, <2>1, <2>3
    DEF IInv, TradedIn, TokenTradedOnce, Attended, Outdated, At, RowsOK
<1>3. CASE user' = [user EXCEPT ![u].row = "deleted"] /\ DeleteNonces(NoncesOf(u))
  <2> DEFINE gone == NoncesOf(u)
  <2>1. DeleteNonces(gone) /\ gone \in SUBSET Nonce
    BY <1>3 DEF NoncesOf
  <2>2. \A n \in Nonce : nonce[n].row = "stored" /\ n \notin gone => nonce[n].user # u
    BY DEF NoncesOf
  <2>3. \A n \in gone : nonce[n].row = "stored"
    BY DEF NoncesOf
  <2> HIDE DEF gone
  <2>4. /\ user' \in [User -> UserRow]
        /\ user'[u].row = "deleted" /\ user'[u].isEmailVerified = user[u].isEmailVerified
        /\ \A w \in User \ {u} : user'[w] = user[w]
    <3>1. user[u] \in UserRow
      BY DEF IInv, TypeOK
    <3> QED
      BY <1>3, <3>1 DEF IInv, TypeOK, UserRow, RowState
  <2>5. /\ nonce' \in [Nonce -> NonceRow] /\ origin' \in [Nonce -> Origin]
        /\ \A n \in Nonce : nonce'[n].user = nonce[n].user
                            /\ origin'[n].replaces = origin[n].replaces
        /\ \A n \in gone : nonce'[n].row = "deleted"
        /\ \A n \in Nonce \ gone : nonce'[n] = nonce[n]
    BY <2>1, DeletedRows DEF IInv
  <2>6. \A n \in Nonce : nonce'[n].row = "stored" =>
          nonce'[n].user # None /\ user'[nonce'[n].user].row = "stored"
    <3> SUFFICES ASSUME NEW n \in Nonce, nonce'[n].row = "stored"
                 PROVE  nonce'[n].user # None /\ user'[nonce'[n].user].row = "stored"
      OBVIOUS
    <3>1. n \in Nonce \ gone /\ nonce'[n] = nonce[n]
      BY <2>5
    <3>2. /\ nonce[n].user \in User /\ nonce[n].user # None /\ nonce[n].user # u
          /\ user[nonce[n].user].row = "stored"
      BY <2>2, <3>1 DEF IInv, TypeOK, NonceRow, Exists
    <3> QED
      BY <2>4, <3>1, <3>2
  <2>7. TypeOK'
    BY <1>1, <2>4, <2>5, <2>6 DEF IInv, TypeOK, Exists
  <2>8. RowsKept
    BY <2>3, <2>4, <2>5 DEF RowsKept
  <2>9. (\A k \in Call : RequestOK(call[k]))'
    BY <1>1, <2>4, <2>8, RequestsStand
  <2>10. Attended' /\ Outdated' /\ TradedIn' /\ TokenTradedOnce'
    BY <1>1, <2>1, SessionsDeleted
  <2>11. RowsOK'
    BY <1>1, <2>4 DEF IInv, RowsOK
  <2> QED
    BY <2>7, <2>9, <2>10, <2>11 DEF IInv
<1> QED
  BY <1>1, <1>2, <1>3 DEF DeleteUser, Cascaded

LEMMA TimeStep ==
    ASSUME IInv, Time
    PROVE  IInv'
<1> USE DEF jobs
<1>1. ASSUME NEW n \in Nonce, SessionExpires(n)
      PROVE  IInv'
  <2>1. UNCHANGED <<user, call, cleaner, sweep, awaited, origin>>
    BY <1>1 DEF SessionExpires
  <2>2. /\ nonce' \in [Nonce -> NonceRow]
        /\ \A m \in Nonce : /\ nonce'[m].row = nonce[m].row
                            /\ nonce'[m].user = nonce[m].user
                            /\ nonce'[m].held = nonce[m].held
    BY <1>1 DEF SessionExpires, IInv, TypeOK, NonceRow
  <2>3. TypeOK'
    BY <2>1, <2>2 DEF IInv, TypeOK, Exists
  <2>4. RowsKept
    BY <2>1, <2>2 DEF RowsKept
  <2>5. (\A k \in Call : RequestOK(call[k]))'
    BY <2>1, <2>4, RequestsStand
  <2>6. Attended' /\ Outdated'
    BY <2>1, <2>2, <2>4 DEF IInv, Attended, Outdated, At, RowsKept
  <2>7. TradedIn' /\ TokenTradedOnce'
    BY <2>1, <2>2 DEF IInv, TradedIn, TokenTradedOnce
  <2> QED
    BY <2>1, <2>3, <2>5, <2>6, <2>7 DEF IInv, RowsOK
<1>2. ASSUME NEW u \in User, ConfirmationExpires(u)
      PROVE  IInv'
  <2>1. UNCHANGED <<nonce, call, cleaner, sweep, awaited, origin>>
    BY <1>2 DEF ConfirmationExpires
  <2>2. /\ user' \in [User -> UserRow]
        /\ \A w \in User : /\ user'[w].row = user[w].row
                           /\ user'[w].email = user[w].email
                           /\ user'[w].isEmailVerified = user[w].isEmailVerified
    BY <1>2 DEF ConfirmationExpires, IInv, TypeOK, UserRow
  <2>3. TypeOK'
    <3>1. \A n \in Nonce : nonce[n].user \in User \cup {None}
      BY DEF IInv, TypeOK, NonceRow
    <3> QED
      BY <2>1, <2>2, <3>1 DEF IInv, TypeOK, Exists
  <2>4. RowsKept
    BY <2>1, <2>2 DEF RowsKept
  <2>5. (\A k \in Call : RequestOK(call[k]))'
    BY <2>1, <2>2, <2>4, RequestsStand
  <2> QED
    BY <2>1, <2>2, <2>3, <2>5
    DEF IInv, TradedIn, TokenTradedOnce, Attended, Outdated, At, RowsOK
<1> QED
  BY <1>1, <1>2 DEF Time

LEMMA CrashStep ==
    ASSUME IInv, Crash
    PROVE  IInv'
<1> DEFINE excused == {call[c].memo : c \in Call} \cup
                      UNION {NoncesOf(call[c].id) : c \in {k \in Call : At(k, "revoking")}}
<1>1. /\ UNCHANGED <<user, nonce>> /\ call' = [c \in Call |-> Idle]
      /\ cleaner' = {} /\ sweep' = {} /\ awaited' = {}
      /\ Rejudge(excused, "excused")
  BY DEF Crash, rows
<1>2. \A c \in Call : call[c].memo \in excused
  OBVIOUS
<1>3. \A c \in Call : call[c].stage = "revoking" => NoncesOf(call[c].id) \subseteq excused
  BY DEF At
<1> HIDE DEF excused
<1>4. /\ origin' \in [Nonce -> Origin]
      /\ \A n \in Nonce : /\ origin'[n].replaces = origin[n].replaces
                          /\ n \in excused => origin'[n].password = "excused"
                          /\ n \notin excused => origin'[n] = origin[n]
  BY <1>1, RejudgedOrigins DEF IInv
<1>5. TypeOK'
  BY <1>1, <1>4, IdleType DEF IInv, TypeOK, RequestRecord, Exists
<1>6. (\A k \in Call : RequestOK(call[k]))'
  <2> SUFFICES ASSUME NEW k \in Call PROVE RequestOK(call[k])'
    OBVIOUS
  <2> QED
    BY <1>1, IdleOK
<1>7. TradedIn' /\ TokenTradedOnce'
  BY <1>1, <1>4 DEF IInv, TradedIn, TokenTradedOnce
<1>8. Attended'
  <2> SUFFICES ASSUME NEW n \in Nonce, nonce[n].row = "stored", ~nonce[n].held,
                      origin'[n].password # "excused"
               PROVE  /\ origin'[n].replaces \in Nonce
                      /\ nonce[origin'[n].replaces].row = "deleted"
    BY <1>1 DEF Attended
  <2>1. n \notin excused /\ origin'[n] = origin[n]
    BY <1>4
  <2> QED
    BY <1>2, <2>1 DEF IInv, Attended
<1>9. Outdated'
  <2> SUFFICES ASSUME NEW n \in Nonce, origin'[n].password = "outdated" PROVE FALSE
    BY DEF Outdated
  <2>1. n \notin excused /\ origin[n].password = "outdated"
    BY <1>4
  <2>2. PICK c \in Call : call[c].stage = "revoking" /\ call[c].id = nonce[n].user
    BY <2>1 DEF IInv, Outdated, At
  <2>3. n \in NoncesOf(call[c].id)
    BY <2>1, <2>2 DEF IInv, Outdated, NoncesOf
  <2> QED
    BY <1>3, <2>1, <2>2, <2>3
<1> QED
  BY <1>1, <1>5, <1>6, <1>7, <1>8, <1>9 DEF IInv, RowsOK

-----------------------------------------------------------------------------
(* The theorems                                                            *)

LEMMA InvInit == Init => IInv
<1> SUFFICES ASSUME Init PROVE IInv
  OBVIOUS
<1>1. TypeOK
  BY IdleType DEF Init, TypeOK, RequestRecord, UserRow, NonceRow, Origin, RowState, Exists
<1>2. \A c \in Call : RequestOK(call[c])
  BY DEF Init, RequestOK, Replies, Findings, Idle, UserStages, TokenStages, MemoStages
<1> QED
  BY <1>1, <1>2 DEF Init, IInv, TradedIn, TokenTradedOnce, Attended, Outdated, RowsOK

LEMMA InvStep == IInv /\ [Next]_vars => IInv'
<1> SUFFICES ASSUME IInv, [Next]_vars PROVE IInv'
  OBVIOUS
<1>1. ASSUME NEW c \in Call, SendOddAnswer(c), UNCHANGED <<rows, jobs, origin>>
      PROVE  IInv'
  <2>1. RequestOK(Idle)
    BY DEF RequestOK, Replies, Findings, Idle, UserStages, TokenStages, MemoStages
  <2>2. call[c].stage \notin MemoStages \cup {"revoking"}
    BY <1>1 DEF SendOddAnswer, Odd, At, MemoStages
  <2> QED
    BY <1>1, <2>1, <2>2, IdleType, QuietStep DEF SendOddAnswer
<1>2. ASSUME NEW c \in Call, Handler(c)
      PROVE  IInv'
  <2>1. CASE \/ Register(c) \/ ConfirmEmail(c) \/ Login(c) \/ RefreshAccessToken(c)
             \/ Logout(c) \/ ResetPassword(c) \/ ConfirmPasswordReset(c)
    BY <2>1, HandlersOfAuth
  <2>2. ASSUME NEW v \in User, FindMe(c, v) \/ FindAll(c, v)
        PROVE  IInv'
    <3>1. None \in User \cup {None}
      OBVIOUS
    <3> QED
      BY <2>2, <3>1, ReadsOfUsers
  <2>3. ASSUME NEW v \in User, NEW u \in User \cup {None},
               \/ FindOne(c, v, u) \/ FindUserCompanies(c, v, u) \/ FindUserOrders(c, v, u)
               \/ FindUserEventSubscriptions(c, v, u) \/ FindUserCompanySubscriptions(c, v, u)
               \/ FindUserNotifications(c, v, u)
        PROVE  IInv'
    BY <2>3, ReadsOfUsers
  <2>4. ASSUME NEW v \in User, NEW u \in User \cup {None},
               Update(c, v, u) \/ UpdatePassword(c, v, u) \/ UploadAvatar(c, v, u)
        PROVE  IInv'
    BY <2>4, WritesOfUsers
  <2> QED
    BY <1>2, <2>1, <2>2, <2>3, <2>4 DEF Handler
<1>3. ASSUME NEW c \in Call, Service(c)
      PROVE  IInv'
  <2>1. CASE \/ CheckEmail(c) \/ CheckCredentials(c) \/ KeepToken(c) \/ FindReplaced(c)
             \/ FindSession(c) \/ MailResetToken(c) \/ CheckOldPassword(c)
             \/ ChangePassword(c) \/ SaveProfile(c) \/ StoreAvatar(c)
    BY <2>1, QuietServices
  <2>2. CASE CreateUser(c)
    BY <2>2, CreateUserStep
  <2>3. CASE ConfirmUserEmail(c)
    BY <2>3, ConfirmUserEmailStep
  <2>4. CASE OpenSession(c)
    BY <2>4, OpenSessionStep
  <2>5. CASE AnswerLogin(c)
    BY <2>5, AnswerLoginStep
  <2>6. CASE Rotate(c)
    BY <2>6, RotateStep
  <2>7. CASE RetireReplaced(c)
    BY <2>7, RetireReplacedStep
  <2>8. CASE DeleteSession(c)
    BY <2>8, DeleteSessionStep
  <2>9. CASE StorePassword(c)
    BY <2>9, StorePasswordStep
  <2>10. CASE RevokeSessions(c)
    BY <2>10, RevokeSessionsStep
  <2> QED
    BY <1>3, <2>1, <2>2, <2>3, <2>4, <2>5, <2>6, <2>7, <2>8, <2>9, <2>10 DEF Service
<1>4. CASE Jobs
  BY <1>4, CleanerSteps, SweepStep, DeleteUserStep DEF Jobs
<1>5. CASE Time
  BY <1>5, TimeStep
<1>6. CASE Crash
  BY <1>6, CrashStep
<1>7. CASE UNCHANGED vars
  <2>1. UNCHANGED <<user, nonce, call, cleaner, sweep, origin, awaited>>
    BY <1>7 DEF vars
  <2>2. TypeOK'
    BY <2>1 DEF IInv, TypeOK, Exists
  <2>3. RowsKept
    BY <2>1 DEF RowsKept
  <2>4. (\A c \in Call : RequestOK(call[c]))'
    BY <2>1, <2>3, RequestsStand
  <2> QED
    BY <2>1, <2>2, <2>4 DEF IInv, TradedIn, TokenTradedOnce, Attended, Outdated, At, RowsOK
<1> QED
  BY <1>1, <1>2, <1>3, <1>4, <1>5, <1>6, <1>7 DEF Next

\* What every reachable state of accounts and sessions satisfies, whatever requests, jobs, expiry
\* and crashes interleave.
THEOREM Invariance == Spec => []IInv
<1> QED
  BY InvInit, InvStep, PTL DEF Spec

\* The tables are well formed and no stored nonce outlives its user, whatever the requests, the
\* jobs and the crashes do (users.repository.ts, refresh-token-nonces.repository.ts).
THEOREM Types == Spec => []TypeOK
<1>1. IInv => TypeOK
  BY DEF IInv
<1> QED
  BY <1>1, Invariance, PTL

\* Any number of requests may present one refresh token at once: at most one of them gets a new
\* token for it (auth.service.ts, refreshAccessToken).
THEOREM TradedOnce == Spec => []TokenTradedOnce
<1>1. IInv => TokenTradedOnce
  BY DEF IInv
<1> QED
  BY <1>1, Invariance, PTL

\* A session nobody holds the token of, and no request is about to hand out, was made by a
\* refresh that lost its race, or by a request that broke off.
THEOREM Orphans == Spec => []OrphanSessions
<1>1. IInv => OrphanSessions
  BY NoneAssumption DEF IInv, OrphanSessions, Attended
<1> QED
  BY <1>1, Invariance, PTL

\* Once a password reset has run to its end, every session opened before it is gone
\* (auth.service.ts, confirmNewPassword), requests under way at that moment excepted.
THEOREM ResetRevokes == Spec => []ResetEndsSessions
<1>1. IInv => ResetEndsSessions
  BY DEF IInv, ResetEndsSessions, Outdated
<1> QED
  BY <1>1, Invariance, PTL

\* An undocumented answer is the sign of a lost race or of one of the named gaps.
THEOREM DocumentedAnswers == Spec => []AnswersAsDocumented
<1>1. IInv => AnswersAsDocumented
  BY DEF IInv, AnswersAsDocumented, RequestOK, Replies, Excused, Odd, At
<1> QED
  BY <1>1, Invariance, PTL

-----------------------------------------------------------------------------
(* The account job                                                         *)

\* What the account job relies on between its read and its deletions: the links of the accounts
\* it has read have expired, so whoever confirms one of them was already about to.
SweepInv ==
  \A u \in sweep :
    /\ user[u].row # "none" /\ user[u].expired
    /\ user[u].isEmailVerified => u \in awaited
    /\ \A c \in Call : At(c, "confirming") /\ call[c].id = u => u \in awaited

\* No request has come to confirm an account.
NoNewConfirmation ==
  \A k \in Call : call'[k].stage = "confirming" =>
    call[k].stage = "confirming" /\ call'[k].id = call[k].id

\* While the job waits it stays true if nobody comes to confirm and the accounts read do not change.
LEMMA SweepStands ==
    ASSUME SweepInv, NoNewConfirmation, UNCHANGED <<sweep, awaited>>,
           \A u \in sweep : user[u].row # "none" => user'[u] = user[u]
    PROVE  SweepInv'
BY DEF SweepInv, NoNewConfirmation, At

\* A request that ends, or arrives for something else, confirms nothing.
LEMMA OneRequestMoves ==
    ASSUME IInv, NEW c \in Call, NEW r, call' = [call EXCEPT ![c] = r], r.stage # "confirming"
    PROVE  NoNewConfirmation
BY DEF NoNewConfirmation, IInv, TypeOK

LEMMA OtherArrivals ==
    ASSUME IInv, NEW c \in Call, NEW op, NEW docs, NEW stage, NEW id, NEW body, NEW code,
           stage # "confirming",
           \/ Admit(c, Arrival(op, docs, stage, id, body), code)
           \/ Answer(c, Arrival(op, docs, stage, id, body), code)
    PROVE  NoNewConfirmation
<1> DEFINE r == Arrival(op, docs, stage, id, body)
<1>1. r.stage = stage /\ Ended(r, code).stage \in {"idle", "odd"}
  BY DEF Arrival, Ended, Idle
<1>2. PICK x \in {r, Ended(r, code)} : call' = [call EXCEPT ![c] = x]
  BY DEF Admit, Answer
<1> HIDE DEF r
<1> QED
  BY <1>1, <1>2, OneRequestMoves

\* Handlers other than confirmEmail.
LEMMA OtherHandlers ==
    ASSUME IInv, NEW c \in Call, Handler(c), ~ConfirmEmail(c)
    PROVE  NoNewConfirmation
<1>1. CASE \/ Register(c) \/ Login(c) \/ RefreshAccessToken(c) \/ Logout(c)
           \/ ResetPassword(c) \/ ConfirmPasswordReset(c)
  <2>1. PICK op, docs, stage, id, body, code :
          /\ stage # "confirming"
          /\ Admit(c, Arrival(op, docs, stage, id, body), code)
    BY <1>1, ZenonT(60) DEF Register, Login, RefreshAccessToken, Logout, ResetPassword,
                        ConfirmPasswordReset
  <2> QED
    BY <2>1, OtherArrivals
<1>2. ASSUME NEW v, NEW op, NEW docs, NEW code, Read(c, op, docs, v, code)
      PROVE  NoNewConfirmation
  BY <1>2, OtherArrivals DEF Read
<1>3. ASSUME NEW v, NEW u, NEW op, NEW docs, NEW stage, NEW code, stage # "confirming",
             Signed(c, op, docs, stage, v, u, code)
      PROVE  NoNewConfirmation
  BY <1>3, OtherArrivals DEF Signed
<1>4. ASSUME NEW v, FindMe(c, v) \/ FindAll(c, v)
      PROVE  NoNewConfirmation
  BY <1>2, <1>4 DEF FindMe, FindAll
<1>5. ASSUME NEW v, NEW u,
             \/ FindOne(c, v, u) \/ FindUserCompanies(c, v, u) \/ FindUserOrders(c, v, u)
             \/ FindUserEventSubscriptions(c, v, u) \/ FindUserCompanySubscriptions(c, v, u)
             \/ FindUserNotifications(c, v, u)
      PROVE  NoNewConfirmation
  BY <1>2, <1>5 DEF FindOne, FindUserCompanies, FindUserOrders, FindUserEventSubscriptions,
                    FindUserCompanySubscriptions, FindUserNotifications
<1>6. ASSUME NEW v, NEW u, Update(c, v, u) \/ UpdatePassword(c, v, u) \/ UploadAvatar(c, v, u)
      PROVE  NoNewConfirmation
  BY <1>3, <1>6 DEF Update, UpdatePassword, UploadAvatar
<1> QED
  BY <1>1, <1>4, <1>5, <1>6 DEF Handler

\* The steps of services: a reply ends a request, the rest lead to another stage.
LEMMA Services ==
    ASSUME IInv, NEW c \in Call, Service(c)
    PROVE  NoNewConfirmation
<1>0. call[c] \in RequestRecord
  BY DEF IInv, TypeOK, RequestRecord
<1> DEFINE Ends == \E code \in Status : call' = [call EXCEPT ![c] = Ended(@, code)]
<1>1. CASE Ends
  <2>1. PICK code \in Status : call' = [call EXCEPT ![c] = Ended(call[c], code)]
    BY <1>1
  <2>2. Ended(call[c], code).stage \in {"idle", "odd"}
    BY <1>0, EndedRequest
  <2> QED
    BY <2>1, <2>2, OneRequestMoves
<1>2. ASSUME NEW stage, stage # "confirming", call' = [call EXCEPT ![c].stage = stage]
      PROVE  NoNewConfirmation
  <2>1. [call[c] EXCEPT !.stage = stage].stage = stage
    BY <1>0 DEF RequestRecord, Request
  <2> QED
    BY <1>2, <2>1, OneRequestMoves
<1>3. ASSUME NEW stage, NEW memo, stage # "confirming",
             call' = [call EXCEPT ![c].stage = stage, ![c].memo = memo]
      PROVE  NoNewConfirmation
  <2>1. [call[c] EXCEPT !.stage = stage, !.memo = memo].stage = stage
    BY <1>0 DEF RequestRecord, Request
  <2> QED
    BY <1>3, <2>1, OneRequestMoves
<1>4. ASSUME NEW id, call' = [call EXCEPT ![c].stage = "opening", ![c].id = id]
      PROVE  NoNewConfirmation
  <2>1. [call[c] EXCEPT !.stage = "opening", !.id = id].stage = "opening"
    BY <1>0 DEF RequestRecord, Request
  <2> QED
    BY <1>4, <2>1, OneRequestMoves
<1>5. ASSUME NEW concerned, NEW r, r.stage # "confirming",
             call' = [Overtaking(c, concerned) EXCEPT ![c] = r]
      PROVE  NoNewConfirmation
  <2>1. \A k \in Call : k # c => \/ call'[k] = call[k]
                                 \/ call'[k] = [call[k] EXCEPT !.overtaken = TRUE]
    BY <1>5 DEF Overtaking
  <2>2. OthersStand(c)
    BY <2>1 DEF OthersStand
  <2>3. call'[c] = r
    BY <1>5 DEF Overtaking
  <2> QED
    BY <1>5, <2>2, <2>3, OthersFields DEF NoNewConfirmation, IInv
<1> DEFINE Overtakes == \E concerned : \E code \in Status :
             call' = [Overtaking(c, concerned) EXCEPT ![c] = Ended(@, code)]
<1>6. CASE Overtakes
  <2>1. PICK concerned, code :
          code \in Status /\ call' = [Overtaking(c, concerned) EXCEPT ![c] = Ended(@, code)]
    BY <1>6
  <2>2. Overtaking(c, concerned)[c] = call[c]
    BY DEF Overtaking
  <2>3. Ended(call[c], code).stage \in {"idle", "odd"}
    BY <1>0, <2>1, EndedRequest
  <2> QED
    BY <1>5, <2>1, <2>2, <2>3
<1>7. CASE StorePassword(c)
  <2>1. CASE Ends
    BY <1>1, <2>1
  <2>2. CASE call' = [Overtaking(c, Opening(call[c].id)) EXCEPT ![c].stage = "revoking"]
    <3>1. Overtaking(c, Opening(call[c].id))[c] = call[c]
      BY DEF Overtaking
    <3>2. [call[c] EXCEPT !.stage = "revoking"].stage = "revoking"
      BY <1>0 DEF RequestRecord, Request
    <3> QED
      BY <1>5, <2>2, <3>1, <3>2
  <2> QED
    BY <1>7, <2>1, <2>2 DEF StorePassword, Reply, Status
<1>8. CASE CreateUser(c) \/ RevokeSessions(c)
  BY <1>1, <1>6, <1>8 DEF CreateUser, RevokeSessions, Reply, Status
<1>9. CASE OpenSession(c) \/ Rotate(c)
  BY <1>1, <1>3, <1>9 DEF OpenSession, Rotate, Reply, Status
<1>10. CASE CheckCredentials(c)
  BY <1>1, <1>4, <1>10 DEF CheckCredentials, Reply, Status
<1>11. CASE \/ CheckEmail(c) \/ FindReplaced(c) \/ FindSession(c) \/ CheckOldPassword(c)
  BY <1>1, <1>2, <1>11 DEF CheckEmail, FindReplaced, FindSession, CheckOldPassword, Reply, Goto,
                           Status
<1>12. CASE \/ ConfirmUserEmail(c) \/ AnswerLogin(c) \/ KeepToken(c) \/ RetireReplaced(c)
            \/ DeleteSession(c) \/ MailResetToken(c) \/ ChangePassword(c) \/ SaveProfile(c)
            \/ StoreAvatar(c)
  BY <1>1, <1>12 DEF ConfirmUserEmail, AnswerLogin, KeepToken, RetireReplaced, DeleteSession,
                     MailResetToken, ChangePassword, SaveProfile, StoreAvatar, Reply, Status
<1> QED
  BY <1>7, <1>8, <1>9, <1>10, <1>11, <1>12 DEF Service

LEMMA SweepInvStep == IInv /\ SweepInv /\ [Next]_vars => SweepInv'
<1> SUFFICES ASSUME IInv, SweepInv, [Next]_vars PROVE SweepInv'
  OBVIOUS
<1> USE DEF rows, jobs
<1>1. CASE UNCHANGED vars
  BY <1>1, SweepStands DEF vars, NoNewConfirmation
<1>2. ASSUME NEW c \in Call, SendOddAnswer(c), UNCHANGED <<rows, jobs, origin>>
      PROVE  SweepInv'
  <2>1. Idle.stage # "confirming"
    BY DEF Idle
  <2> QED
    BY <1>2, <2>1, OneRequestMoves, SweepStands DEF SendOddAnswer
<1>3. ASSUME NEW c \in Call, ConfirmEmail(c)
      PROVE  SweepInv'
  <2>1. PICK u \in User :
          Admit(c, Arrival("confirmEmail", {"OK", "UNAUTHORIZED", "NOT_FOUND"}, "confirming", u, None),
                JwtConfirmEmailGuard(u))
    BY <1>3 DEF ConfirmEmail
  <2> DEFINE r == Arrival("confirmEmail", {"OK", "UNAUTHORIZED", "NOT_FOUND"}, "confirming", u, None)
             code == JwtConfirmEmailGuard(u)
  <2>2. r.id = u /\ Ended(r, code).stage \in {"idle", "odd"}
    BY DEF Arrival, Ended, Idle
  <2>3. UNCHANGED <<user, sweep, awaited>>
    BY <1>3 DEF ConfirmEmail
  <2>4. CASE code = "OK"
    <3>1. call' = [call EXCEPT ![c] = r] /\ u \notin sweep
      BY <2>1, <2>4 DEF Admit, JwtConfirmEmailGuard, SweepInv
    <3> QED
      BY <2>2, <2>3, <3>1 DEF SweepInv, At, IInv, TypeOK
  <2>5. CASE code # "OK"
    <3>1. call' = [call EXCEPT ![c] = Ended(r, code)]
      BY <2>1, <2>5 DEF Admit
    <3>2. NoNewConfirmation
      BY <2>2, <3>1, OneRequestMoves
    <3> QED
      BY <2>3, <3>2, SweepStands
  <2> QED
    BY <2>4, <2>5
<1>4. ASSUME NEW c \in Call, Handler(c), ~ConfirmEmail(c)
      PROVE  SweepInv'
  <2>1. NoNewConfirmation
    BY <1>4, OtherHandlers
  <2>2. UNCHANGED <<user, sweep, awaited>>
    BY <1>4 DEF Handler, Register, Login, RefreshAccessToken, Logout,
         ResetPassword, ConfirmPasswordReset, FindMe, FindAll, FindOne, FindUserCompanies,
         FindUserOrders, FindUserEventSubscriptions, FindUserCompanySubscriptions,
         FindUserNotifications, Update, UpdatePassword, UploadAvatar, Read, Signed
  <2> QED
    BY <2>1, <2>2, SweepStands
<1>5. ASSUME NEW c \in Call, CreateUser(c)
      PROVE  SweepInv'
  <2>1. NoNewConfirmation
    BY <1>5, Services DEF Service
  <2>2. UNCHANGED <<sweep, awaited>> /\ \A u \in User : user[u].row # "none" => user'[u] = user[u]
    BY <1>5 DEF CreateUser, IInv, TypeOK
  <2> QED
    BY <2>1, <2>2, SweepStands DEF IInv, TypeOK
<1>6. ASSUME NEW c \in Call, ConfirmUserEmail(c)
      PROVE  SweepInv'
  <2>1. NoNewConfirmation
    BY <1>6, Services DEF Service
  <2>2. /\ UNCHANGED <<sweep, awaited>> /\ At(c, "confirming")
        /\ \/ UNCHANGED user
           \/ user' = [user EXCEPT ![call[c].id].isEmailVerified = TRUE]
    BY <1>6 DEF ConfirmUserEmail
  <2>3. \A u \in User : /\ user'[u].row = user[u].row /\ user'[u].expired = user[u].expired
                        /\ u # call[c].id => user'[u] = user[u]
    BY <2>2 DEF IInv, TypeOK, UserRow
  <2>4. call[c].id \in sweep => call[c].id \in awaited
    BY <2>2 DEF SweepInv
  <2> QED
    BY <2>1, <2>2, <2>3, <2>4 DEF SweepInv, NoNewConfirmation, At, IInv, TypeOK
<1>7. ASSUME NEW c \in Call, Service(c), ~CreateUser(c), ~ConfirmUserEmail(c)
      PROVE  SweepInv'
  <2>1. NoNewConfirmation
    BY <1>7, Services
  <2>2. UNCHANGED <<user, sweep, awaited>>
    BY <1>7 DEF Service, CheckEmail, CheckCredentials, OpenSession, AnswerLogin, KeepToken,
         Rotate, FindReplaced, RetireReplaced, FindSession, DeleteSession, MailResetToken,
         StorePassword, RevokeSessions, CheckOldPassword, ChangePassword, SaveProfile,
         StoreAvatar
  <2> QED
    BY <2>1, <2>2, SweepStands
<1>8. CASE SweepUsers
  BY <1>8 DEF SweepUsers, UnactivatedUsers, SweepInv, At, Exists
<1>9. ASSUME NEW u \in User, DeleteUser(u)
      PROVE  SweepInv'
  <2>1. UNCHANGED call /\ sweep' = sweep \ {u} /\ awaited' = awaited \cap sweep'
    BY <1>9 DEF DeleteUser
  <2>2. \A w \in User \ {u} : user'[w] = user[w]
    BY <1>9 DEF DeleteUser, IInv, TypeOK
  <2> QED
    BY <2>1, <2>2 DEF SweepInv, At, IInv, TypeOK
<1>10. CASE CleanRefreshTokens \/ \E n \in Nonce : CleanNonce(n) \/ SessionExpires(n)
  <2>1. UNCHANGED <<user, call, sweep, awaited>>
    BY <1>10 DEF CleanRefreshTokens, CleanNonce, SessionExpires
  <2> QED
    BY <2>1, SweepStands DEF NoNewConfirmation
<1>11. ASSUME NEW u \in User, ConfirmationExpires(u)
      PROVE  SweepInv'
  <2>1. /\ UNCHANGED <<call, sweep, awaited>> /\ ~user[u].expired
        /\ \A w \in User : w # u => user'[w] = user[w]
    BY <1>11 DEF ConfirmationExpires, IInv, TypeOK
  <2>2. \A w \in sweep : user'[w] = user[w]
    BY <2>1 DEF SweepInv, IInv, TypeOK
  <2> QED
    BY <2>1, <2>2, SweepStands DEF NoNewConfirmation
<1>12. CASE Crash
  BY <1>12 DEF Crash, SweepInv
<1> QED
  BY <1>1, <1>2, <1>3, <1>4, <1>5, <1>6, <1>7, <1>8, <1>9, <1>10, <1>11, <1>12
  DEF Next, Jobs, Time

LEMMA SweepInvariance == Spec => []SweepInv
<1>1. Init => SweepInv
  BY DEF Init, SweepInv
<1> QED
  BY <1>1, SweepInvStep, Invariance, PTL DEF Spec

\* The account job deletes a confirmed account only if the request that confirmed it was let in
\* before the job read the table (UserNotificationSchedulerService, confirmEmail): the links of
\* the accounts it is about to delete have all expired.
THEOREM ConfirmedKept == Spec => ConfirmedAccountsKept
<1> DEFINE Kept == \A u \in User : Exists(u) /\ user[u].isEmailVerified /\ user'[u].row = "deleted"
                                     => u \in awaited
<1>1. IInv /\ SweepInv /\ [Next]_vars => [Kept]_user
  <2> SUFFICES ASSUME IInv, SweepInv, Next, user' # user PROVE Kept
    BY DEF vars
  <2> SUFFICES ASSUME NEW u \in User, user[u].row = "stored", user[u].isEmailVerified,
                      user'[u].row = "deleted"
               PROVE  u \in awaited
    BY DEF Exists
  <2> USE DEF rows
  <2>1. CASE \E w \in User : DeleteUser(w)
    BY <2>1 DEF DeleteUser, IInv, TypeOK, SweepInv
  <2>2. CASE \E c \in Call : CreateUser(c) \/ ConfirmUserEmail(c)
    BY <2>2 DEF CreateUser, ConfirmUserEmail, IInv, TypeOK, UserRow
  <2>3. CASE \E w \in User : ConfirmationExpires(w)
    BY <2>3 DEF ConfirmationExpires, IInv, TypeOK, UserRow
  <2>4. ASSUME NEW c \in Call, Handler(c) PROVE FALSE
    BY <2>4 DEF Handler, Register, ConfirmEmail, Login, RefreshAccessToken, Logout,
         ResetPassword, ConfirmPasswordReset, FindMe, FindAll, FindOne, FindUserCompanies,
         FindUserOrders, FindUserEventSubscriptions, FindUserCompanySubscriptions,
         FindUserNotifications, Update, UpdatePassword, UploadAvatar, Read, Signed
  <2>5. ASSUME NEW c \in Call, Service(c), ~CreateUser(c), ~ConfirmUserEmail(c) PROVE FALSE
    BY <2>5 DEF Service, CheckEmail, CheckCredentials, OpenSession, AnswerLogin, KeepToken,
         Rotate, FindReplaced, RetireReplaced, FindSession, DeleteSession, MailResetToken,
         StorePassword, RevokeSessions, CheckOldPassword, ChangePassword, SaveProfile,
         StoreAvatar
  <2> QED
    BY <2>1, <2>2, <2>3, <2>4, <2>5
    DEF Next, Jobs, Time, Crash, CleanRefreshTokens, SweepUsers, CleanNonce, SessionExpires
<1> QED
  BY <1>1, Invariance, SweepInvariance, PTL DEF Spec, ConfirmedAccountsKept

-----------------------------------------------------------------------------
(* Sessions as the abstract book of tokens                                 *)

\* Every nonce that was ever stored is a user's and belongs to a session; no token is held
\* before its nonce is stored.
NoncesBooked ==
  \A n \in Nonce :
    /\ nonce[n].held => nonce[n].row # "none"
    /\ nonce[n].row # "none" => nonce[n].user \in User /\ origin[n].session \in Nonce

\* What a request presents is a token somebody holds; what it is about to hand out is not, and
\* belongs where the token it answers for belongs.
Handing(r) ==
  /\ r.stage \in TokenStages => nonce[r.body].held
  /\ r.stage \in MemoStages => ~nonce[r.memo].held
  /\ r.stage = "opened" => origin[r.memo].session = r.memo
  /\ r.stage \in {"rotated", "retiring"} =>
       /\ nonce[r.memo].user = nonce[r.body].user
       /\ origin[r.memo].session = origin[r.body].session

\* No two requests are about to hand out one token.
MemosApart ==
  \A c, k \in Call : c # k /\ call[c].stage \in MemoStages /\ call[k].stage \in MemoStages
                       => call[c].memo # call[k].memo

HandInv == NoncesBooked /\ MemosApart /\ \A c \in Call : Handing(call[c])

\* What the requests may do in a step that hands nothing out: end, wait, present a token that
\* is held, or go on with the one they have.
Carries(r, s) ==
  \/ s.stage \notin TokenStages \cup MemoStages
  \/ s.stage = r.stage /\ s.body = r.body /\ s.memo = r.memo
  \/ s.stage \in {"refreshing", "leaving"} /\ s.body \in Nonce /\ nonce[s.body].held
  \/ <<r.stage, s.stage>> \in {<<"rotated", "retiring">>, <<"leaving", "left">>}
     /\ s.body = r.body /\ s.memo = r.memo

\* Such a step, whatever rows it deletes, only ends sessions in the book.
LEMMA KeptStep ==
    ASSUME IInv, HandInv,
           \A n \in Nonce : /\ nonce'[n].user = nonce[n].user
                            /\ nonce'[n].held = nonce[n].held
                            /\ origin'[n].session = origin[n].session
                            /\ nonce'[n].row = "none" <=> nonce[n].row = "none"
                            /\ nonce'[n].row = "stored" => nonce[n].row = "stored",
           \A k \in Call : Carries(call[k], call'[k])
    PROVE  HandInv' /\ Book!End
<1>1. NoncesBooked'
  BY DEF HandInv, NoncesBooked
<1>2. \A k \in Call : call'[k].stage \in MemoStages =>
         call[k].stage \in MemoStages /\ call'[k].memo = call[k].memo
  BY DEF Carries, MemoStages, TokenStages
<1>3. MemosApart'
  BY <1>2 DEF HandInv, MemosApart
<1>4. ASSUME NEW k \in Call PROVE Handing(call[k])'
  <2>1. /\ Handing(call[k]) /\ Carries(call[k], call'[k])
        /\ call[k].stage \in TokenStages => call[k].body \in Nonce
        /\ call[k].stage \in MemoStages => call[k].memo \in Nonce
    BY DEF HandInv, IInv, RequestOK, Findings
  <2> QED
    BY <2>1 DEF Handing, Carries, MemoStages, TokenStages
<1>5. Book!End
  <2>1. Working' \in SUBSET Working
    BY DEF Working
  <2>2. Holder' = Holder
    BY DEF Holder
  <2>3. Session' = Session
    BY DEF Session
  <2> QED
    BY <2>1, <2>2, <2>3 DEF Book!End
<1> QED
  BY <1>1, <1>3, <1>4, <1>5 DEF HandInv

\* The same for a step of request c that changes no nonce.
LEMMA KeptRows ==
    ASSUME IInv, HandInv, NEW c \in Call, UNCHANGED <<nonce, origin>>,
           \A k \in Call \ {c} : call'[k] = call[k], Carries(call[c], call'[c])
    PROVE  HandInv' /\ Book!End
<1>1. \A k \in Call : Carries(call[k], call'[k])
  BY DEF Carries
<1> QED
  BY <1>1, KeptStep

\* A new request is at the stage of its handler, with the body it was sent, and one that ends is
\* at no stage.
LEMMA Arrivals ==
    ASSUME NEW op, NEW docs, NEW stage, NEW id, NEW body, NEW code
    PROVE  LET r == Arrival(op, docs, stage, id, body) IN
           /\ r.stage = stage /\ r.body = body
           /\ Ended(r, code).stage \in {"idle", "odd"}
BY DEF Arrival, Ended, Idle

LEMMA EndsNowhere ==
    ASSUME NEW r \in RequestRecord, NEW code
    PROVE  Ended(r, code).stage \in {"idle", "odd"}
BY DEF RequestRecord, Request, Ended, Idle

\* Handlers.
LEMMA AdmitBooked ==
    ASSUME IInv, HandInv, NEW c \in Call, NEW op, NEW docs, NEW stage, NEW id, NEW body, NEW code,
           \/ Admit(c, Arrival(op, docs, stage, id, body), code)
           \/ Answer(c, Arrival(op, docs, stage, id, body), code) /\ stage = "read",
           \/ stage \notin TokenStages \cup MemoStages
           \/ stage \in {"refreshing", "leaving"} /\ body \in Nonce /\ nonce[body].held,
           UNCHANGED <<nonce, origin>>
    PROVE  HandInv' /\ Book!End
<1> DEFINE r == Arrival(op, docs, stage, id, body)
<1>1. PICK s : call' = [call EXCEPT ![c] = s] /\ (s = r \/ s = Ended(r, code))
  BY DEF Admit, Answer
<1>2. r.stage = stage /\ r.body = body /\ Ended(r, code).stage \in {"idle", "odd"}
  BY Arrivals
<1> HIDE DEF r
<1>3. call'[c] = s /\ \A k \in Call \ {c} : call'[k] = call[k]
  BY <1>1 DEF IInv, TypeOK
<1>4. Carries(call[c], call'[c])
  BY <1>1, <1>2, <1>3 DEF Carries, TokenStages, MemoStages
<1> QED
  BY <1>3, <1>4, KeptRows

LEMMA HandlersBooked ==
    ASSUME IInv, HandInv, NEW c \in Call, Handler(c)
    PROVE  HandInv' /\ Book!End
<1> USE DEF rows, TokenStages, MemoStages
<1>1. CASE Register(c) \/ ConfirmEmail(c) \/ Login(c) \/ ResetPassword(c) \/ ConfirmPasswordReset(c)
  BY <1>1, AdmitBooked DEF Register, ConfirmEmail, Login, ResetPassword, ConfirmPasswordReset
<1>2. CASE RefreshAccessToken(c) \/ Logout(c)
  BY <1>2, AdmitBooked DEF RefreshAccessToken, Logout
<1>3. ASSUME NEW v \in User, NEW u \in User \cup {None},
             \/ FindMe(c, v) \/ FindAll(c, v)
             \/ FindOne(c, v, u) \/ FindUserCompanies(c, v, u) \/ FindUserOrders(c, v, u)
             \/ FindUserEventSubscriptions(c, v, u) \/ FindUserCompanySubscriptions(c, v, u)
             \/ FindUserNotifications(c, v, u)
      PROVE  HandInv' /\ Book!End
  BY <1>3, AdmitBooked
  DEF FindMe, FindAll, FindOne, FindUserCompanies, FindUserOrders, FindUserEventSubscriptions,
      FindUserCompanySubscriptions, FindUserNotifications, Read
<1>4. ASSUME NEW v \in User, NEW u \in User \cup {None},
             Update(c, v, u) \/ UpdatePassword(c, v, u) \/ UploadAvatar(c, v, u)
      PROVE  HandInv' /\ Book!End
  BY <1>4, AdmitBooked DEF Update, UpdatePassword, UploadAvatar, Signed
<1>5. None \in User \cup {None}
  OBVIOUS
<1> QED
  BY <1>1, <1>2, <1>3, <1>4, <1>5 DEF Handler

\* Services that change no nonce.
LEMMA ReplyBooked ==
    ASSUME IInv, HandInv, NEW c \in Call, NEW code, UNCHANGED <<nonce, origin>>,
           \/ Reply(c, code)
           \/ \E stage \in {"creating", "changing"} : Goto(c, stage)
           \/ At(c, "rotated") /\ Goto(c, "retiring")
           \/ At(c, "leaving") /\ Goto(c, "left")
    PROVE  HandInv' /\ Book!End
<1>1. call[c] \in RequestRecord /\ \A k \in Call \ {c} : call'[k] = call[k]
  BY DEF IInv, TypeOK, RequestRecord, Reply, Goto
<1>2. CASE Reply(c, code)
  <2>1. call'[c] = Ended(call[c], code)
    BY <1>2 DEF IInv, TypeOK, Reply
  <2> QED
    BY <1>1, <2>1, EndsNowhere, KeptRows DEF Carries, TokenStages, MemoStages
<1>3. ASSUME NEW stage, Goto(c, stage)
      PROVE  call'[c].stage = stage /\ call'[c].body = call[c].body /\ call'[c].memo = call[c].memo
  <2>1. call'[c] = [call[c] EXCEPT !.stage = stage]
    BY <1>3 DEF IInv, TypeOK, Goto
  <2> QED
    BY <1>1, <2>1 DEF RequestRecord, Request
<1>4. CASE ~Reply(c, code)
  <2>1. Carries(call[c], call'[c])
    BY <1>3, <1>4 DEF Carries, TokenStages, MemoStages, At
  <2> QED
    BY <1>1, <2>1, KeptRows
<1> QED
  BY <1>2, <1>4

LEMMA QuietBooked ==
    ASSUME IInv, HandInv, NEW c \in Call,
           \/ CheckEmail(c) \/ CheckCredentials(c) \/ KeepToken(c) \/ FindReplaced(c)
           \/ FindSession(c) \/ MailResetToken(c) \/ CheckOldPassword(c)
           \/ ChangePassword(c) \/ SaveProfile(c) \/ StoreAvatar(c) \/ ConfirmUserEmail(c)
    PROVE  HandInv' /\ Book!End
<1> USE DEF rows
<1>1. UNCHANGED <<nonce, origin>>
  BY DEF CheckEmail, CheckCredentials, KeepToken, FindReplaced, FindSession, MailResetToken,
         CheckOldPassword, ChangePassword, SaveProfile, StoreAvatar, ConfirmUserEmail
<1>2. CASE CheckEmail(c) \/ ConfirmUserEmail(c) \/ KeepToken(c) \/ FindReplaced(c)
  BY <1>1, <1>2, ReplyBooked DEF CheckEmail, ConfirmUserEmail, KeepToken, FindReplaced
<1>3. CASE FindSession(c) \/ MailResetToken(c) \/ CheckOldPassword(c) \/ ChangePassword(c)
           \/ SaveProfile(c) \/ StoreAvatar(c)
  BY <1>1, <1>3, ReplyBooked
  DEF FindSession, MailResetToken, CheckOldPassword, ChangePassword, SaveProfile, StoreAvatar
<1>4. CASE CheckCredentials(c)
  <2>1. ASSUME NEW u \in User, call' = [call EXCEPT ![c].stage = "opening", ![c].id = u]
        PROVE  HandInv' /\ Book!End
    <3>1. call[c] \in RequestRecord /\ \A k \in Call \ {c} : call'[k] = call[k]
      BY <2>1 DEF IInv, TypeOK, RequestRecord
    <3>2. call'[c] = [[call[c] EXCEPT !.stage = "opening"] EXCEPT !.id = u]
      BY <2>1 DEF IInv, TypeOK
    <3>3. call'[c].stage = "opening"
      BY <3>1, <3>2 DEF RequestRecord, Request
    <3> QED
      BY <1>1, <3>1, <3>3, KeptRows DEF Carries, TokenStages, MemoStages
  <2>2. ASSUME NEW code, Reply(c, code) PROVE HandInv' /\ Book!End
    BY <1>1, <2>2, ReplyBooked
  <2> QED
    BY <1>4, <2>1, <2>2 DEF CheckCredentials, Owners
<1> QED
  BY <1>2, <1>3, <1>4

\* Steps that tell other requests they were overtaken.
LEMMA OvertakingBooked ==
    ASSUME IInv, HandInv, NEW c \in Call, NEW concerned, NEW r,
           call' = [Overtaking(c, concerned) EXCEPT ![c] = r],
           r.stage \notin TokenStages \cup MemoStages,
           \A n \in Nonce : /\ nonce'[n].user = nonce[n].user
                            /\ nonce'[n].held = nonce[n].held
                            /\ origin'[n].session = origin[n].session
                            /\ nonce'[n].row = "none" <=> nonce[n].row = "none"
                            /\ nonce'[n].row = "stored" => nonce[n].row = "stored"
    PROVE  HandInv' /\ Book!End
<1>1. call'[c] = r
  BY DEF Overtaking
<1>2. ASSUME NEW k \in Call, k # c PROVE Carries(call[k], call'[k])
  <2>1. call[k] \in RequestRecord
    BY DEF IInv, TypeOK, RequestRecord
  <2>2. call'[k] = call[k] \/ call'[k] = [call[k] EXCEPT !.overtaken = TRUE]
    BY <1>2 DEF Overtaking
  <2> QED
    BY <2>1, <2>2 DEF Carries, RequestRecord, Request
<1>3. \A k \in Call : Carries(call[k], call'[k])
  BY <1>1, <1>2 DEF Carries
<1> QED
  BY <1>3, KeptStep

LEMMA CreateUserBooked ==
    ASSUME IInv, HandInv, NEW c \in Call, CreateUser(c)
    PROVE  HandInv' /\ Book!End
<1>1. UNCHANGED <<nonce, origin>>
  BY DEF CreateUser
<1>2. CASE Reply(c, "INTERNAL_SERVER_ERROR")
  BY <1>1, <1>2, ReplyBooked
<1>3. CASE call' = [Overtaking(c, Registering(call[c].body)) EXCEPT ![c] = Ended(@, "OK")]
  <2>1. call[c] \in RequestRecord /\ Overtaking(c, Registering(call[c].body))[c] = call[c]
    BY DEF IInv, TypeOK, RequestRecord, Overtaking
  <2>2. /\ call' = [Overtaking(c, Registering(call[c].body)) EXCEPT ![c] = Ended(call[c], "OK")]
        /\ Ended(call[c], "OK").stage \in {"idle", "odd"}
    BY <1>3, <2>1, EndsNowhere
  <2> QED
    BY <1>1, <2>2, OvertakingBooked DEF TokenStages, MemoStages
<1> QED
  BY <1>2, <1>3 DEF CreateUser

\* Deletions.
LEMMA GoneBooked ==
    ASSUME TypeOK, NEW gone \in SUBSET Nonce, DeleteNonces(gone),
           \A n \in gone : nonce[n].row = "stored"
    PROVE  \A n \in Nonce : /\ nonce'[n].user = nonce[n].user
                            /\ nonce'[n].held = nonce[n].held
                            /\ origin'[n].session = origin[n].session
                            /\ nonce'[n].row = "none" <=> nonce[n].row = "none"
                            /\ nonce'[n].row = "stored" => nonce[n].row = "stored"
<1>1. ASSUME NEW n \in Nonce
      PROVE  origin'[n].session = origin[n].session
  <2>1. origin[n] \in Origin
    BY DEF TypeOK
  <2> QED
    BY <2>1 DEF DeleteNonces, ForgetOrigins, Origin
<1> QED
  BY <1>1, DeletedRows

LEMMA RejudgedBooked ==
    ASSUME TypeOK, NEW sessions, NEW judged, Rejudge(sessions, judged)
    PROVE  \A n \in Nonce : origin'[n].session = origin[n].session
<1>1. \A n \in Nonce : origin[n] \in Origin
  BY DEF TypeOK
<1> QED
  BY <1>1 DEF Rejudge, Origin

LEMMA DeleteSessionBooked ==
    ASSUME IInv, HandInv, NEW c \in Call, DeleteSession(c)
    PROVE  HandInv' /\ Book!End
<1>1. CASE Reply(c, "INTERNAL_SERVER_ERROR") /\ UNCHANGED <<nonce, origin>>
  BY <1>1, ReplyBooked
<1>2. CASE DeletesById(call[c].body) /\ DeleteNonces({call[c].body}) /\ Reply(c, "OK")
  <2>1. call[c] \in RequestRecord /\ call[c].body \in Nonce /\ call'[c] = Ended(call[c], "OK")
    BY <1>2 DEF IInv, TypeOK, RequestRecord, RequestOK, Findings, DeleteSession, At, TokenStages,
                Reply
  <2>2. \A k \in Call : Carries(call[k], call'[k])
    BY <1>2, <2>1, EndsNowhere DEF Carries, TokenStages, MemoStages, Reply, IInv, TypeOK
  <2> QED
    BY <1>2, <2>1, <2>2, GoneBooked, KeptStep DEF DeletesById, IInv
<1> QED
  BY <1>1, <1>2 DEF DeleteSession

LEMMA PasswordBooked ==
    ASSUME IInv, HandInv, NEW c \in Call, StorePassword(c) \/ RevokeSessions(c)
    PROVE  HandInv' /\ Book!End
<1> DEFINE u == call[c].id
           over == Overtaking(c, Opening(u))
<1>1. call[c] \in RequestRecord /\ over[c] = call[c]
  BY DEF IInv, TypeOK, RequestRecord, Overtaking
<1>2. CASE Reply(c, "INTERNAL_SERVER_ERROR") /\ UNCHANGED <<nonce, origin>>
  BY <1>2, ReplyBooked
<1>3. CASE StorePassword(c) /\ call' = [over EXCEPT ![c].stage = "revoking"]
  <2> DEFINE r == [call[c] EXCEPT !.stage = "revoking"]
  <2>1. call' = [over EXCEPT ![c] = r]
    BY <1>1, <1>3
  <2>2. r.stage = "revoking"
    BY <1>1 DEF RequestRecord, Request
  <2>3. UNCHANGED nonce /\ \A n \in Nonce : origin'[n].session = origin[n].session
    BY <1>3, RejudgedBooked DEF StorePassword, rows, IInv
  <2> HIDE DEF r
  <2> QED
    BY <2>1, <2>2, <2>3, OvertakingBooked DEF TokenStages, MemoStages
<1>4. CASE RevokeSessions(c)
  <2>1. call' = [over EXCEPT ![c] = Ended(call[c], "OK")]
    BY <1>1, <1>4 DEF RevokeSessions
  <2>2. Ended(call[c], "OK").stage \in {"idle", "odd"}
    BY <1>1, EndsNowhere
  <2>3. \A n \in NoncesOf(u) : nonce[n].row = "stored"
    BY DEF NoncesOf
  <2>4. DeleteNonces(NoncesOf(u)) /\ NoncesOf(u) \in SUBSET Nonce
    BY <1>4 DEF RevokeSessions, NoncesOf
  <2> QED
    BY <2>1, <2>2, <2>3, <2>4, GoneBooked, OvertakingBooked DEF TokenStages, MemoStages, IInv
<1> QED
  BY <1>2, <1>3, <1>4 DEF StorePassword, rows

\* The jobs, time and crashes.
LEMMA JobsBooked ==
    ASSUME IInv, HandInv, Jobs \/ Time
    PROVE  HandInv' /\ Book!End
<1> USE DEF rows
<1>1. ASSUME UNCHANGED call PROVE \A k \in Call : Carries(call[k], call'[k])
  BY <1>1 DEF Carries
<1>2. CASE CleanRefreshTokens \/ SweepUsers \/ \E u \in User : ConfirmationExpires(u)
  BY <1>1, <1>2, KeptStep DEF CleanRefreshTokens, SweepUsers, ConfirmationExpires
<1>3. ASSUME NEW n \in Nonce, CleanNonce(n) PROVE HandInv' /\ Book!End
  <2> DEFINE gone == {n} \cap NoncesOf(nonce[n].user)
  <2>1. gone \in SUBSET Nonce /\ \A m \in gone : nonce[m].row = "stored"
    BY DEF NoncesOf
  <2>2. DeleteNonces(gone) /\ UNCHANGED call
    BY <1>3 DEF CleanNonce
  <2> HIDE DEF gone
  <2> QED
    BY <1>1, <2>1, <2>2, GoneBooked, KeptStep DEF IInv
<1>4. ASSUME NEW u \in User, DeleteUser(u) PROVE HandInv' /\ Book!End
  <2>1. CASE DeleteNonces(Cascaded(u)) /\ UNCHANGED call
    <3>1. Cascaded(u) \in SUBSET Nonce /\ \A m \in Cascaded(u) : nonce[m].row = "stored"
      BY DEF Cascaded, NoncesOf
    <3> QED
      BY <1>1, <2>1, <3>1, GoneBooked, KeptStep DEF IInv
  <2>2. CASE UNCHANGED <<nonce, origin, call>>
    BY <1>1, <2>2, KeptStep
  <2> QED
    BY <1>4, <2>1, <2>2 DEF DeleteUser
<1>5. ASSUME NEW n \in Nonce, SessionExpires(n) PROVE HandInv' /\ Book!End
  <2>1. ASSUME NEW m \in Nonce
        PROVE  /\ nonce'[m].user = nonce[m].user /\ nonce'[m].held = nonce[m].held
               /\ nonce'[m].row = nonce[m].row
    <3>1. nonce[m] \in NonceRow
      BY DEF IInv, TypeOK
    <3>2. nonce'[m] = nonce[m] \/ nonce'[m] = [nonce[m] EXCEPT !.expired = TRUE]
      BY <1>5 DEF SessionExpires, IInv, TypeOK
    <3> QED
      BY <3>1, <3>2 DEF NonceRow
  <2>2. UNCHANGED <<call, origin>>
    BY <1>5 DEF SessionExpires
  <2> QED
    BY <1>1, <2>1, <2>2, KeptStep
<1> QED
  BY <1>2, <1>3, <1>4, <1>5 DEF Jobs, Time

LEMMA CrashBooked ==
    ASSUME IInv, HandInv, Crash
    PROVE  HandInv' /\ Book!End
<1>1. UNCHANGED nonce /\ \A n \in Nonce : origin'[n].session = origin[n].session
  BY RejudgedBooked DEF Crash, rows, IInv
<1>2. \A k \in Call : Carries(call[k], call'[k])
  BY DEF Crash, Carries, Idle, TokenStages, MemoStages
<1> QED
  BY <1>1, <1>2, KeptStep

\* A login or a refresh that stores a nonce: nobody holds its token yet.
LEMMA StoredBooked ==
    ASSUME IInv, HandInv, NEW c \in Call, NEW n \in FreshNonces,
           NEW stage \in {"opened", "rotated"}, NEW from, NEW replaced \in Nonce \cup {None},
           StoreNonce(c, n, from, replaced),
           call' = [call EXCEPT ![c].stage = stage, ![c].memo = n], Exists(call[c].id),
           IF stage = "opened" THEN At(c, "opening") /\ replaced = None
           ELSE At(c, "refreshing") /\ replaced = call[c].body
    PROVE  HandInv' /\ Book!End
<1>1. /\ call[c] \in RequestRecord /\ Findings(call[c]) /\ Handing(call[c])
      /\ n \in Nonce /\ nonce[n].row = "none" /\ ~nonce[n].held
  BY DEF IInv, TypeOK, RequestRecord, RequestOK, HandInv, NoncesBooked, FreshNonces
<1>2. call[c].id \in User
  BY <1>1 DEF Findings, UserStages, At
<1>3. \A k \in Call \ {c} : call'[k] = call[k]
  BY DEF IInv, TypeOK
<1>4. /\ call'[c].stage = stage /\ call'[c].memo = n /\ call'[c].body = call[c].body
  <2> DEFINE r == [call[c] EXCEPT !.stage = stage]
  <2>1. call'[c] = [r EXCEPT !.memo = n]
    BY DEF IInv, TypeOK
  <2>2. r \in RequestRecord /\ r.stage = stage /\ r.body = call[c].body
    BY <1>1 DEF RequestRecord, Request, Stage
  <2> HIDE DEF r
  <2> QED
    BY <2>1, <2>2 DEF RequestRecord, Request
<1>5. /\ nonce'[n].row = "stored" /\ ~nonce'[n].held /\ nonce'[n].user = call[c].id
      /\ origin'[n].session = IF replaced = None THEN n ELSE origin[replaced].session
      /\ \A p \in Nonce \ {n} : nonce'[p] = nonce[p] /\ origin'[p] = origin[p]
  BY <1>1 DEF StoreNonce, IInv, TypeOK
<1>6. stage = "rotated" =>
        /\ replaced \in Nonce \ {n} /\ nonce[replaced].held /\ nonce[replaced].row # "none"
        /\ nonce[replaced].user = call[c].id
  BY <1>1 DEF Findings, Handing, TokenStages, At
<1>7. origin'[n].session \in Nonce
  BY <1>1, <1>5, <1>6, NoneAssumption DEF HandInv, NoncesBooked
<1>8. NoncesBooked'
  <2> SUFFICES ASSUME NEW p \in Nonce
               PROVE  /\ nonce'[p].held => nonce'[p].row # "none"
                      /\ nonce'[p].row # "none" =>
                           nonce'[p].user \in User /\ origin'[p].session \in Nonce
    BY DEF NoncesBooked
  <2>1. CASE p = n
    BY <1>2, <1>5, <1>7, <2>1
  <2>2. CASE p # n
    BY <1>5, <2>2 DEF HandInv, NoncesBooked
  <2> QED
    BY <2>1, <2>2
<1>9. ASSUME NEW k \in Call, k # c
      PROVE  /\ call[k].stage \in TokenStages => call[k].body \in Nonce \ {n}
             /\ call[k].stage \in MemoStages => call[k].memo \in Nonce \ {n}
  BY <1>1 DEF IInv, RequestOK, Findings
<1>10. MemosApart'
  BY <1>3, <1>4, <1>9 DEF HandInv, MemosApart
<1>11. ASSUME NEW k \in Call PROVE Handing(call[k])'
  <2>1. CASE k = c
    <3>1. stage = "opened" => origin'[n].session = n
      BY <1>5
    <3>2. stage = "rotated" =>
            /\ call[c].body = replaced /\ nonce'[replaced] = nonce[replaced]
            /\ origin'[replaced] = origin[replaced] /\ replaced # None
      BY <1>5, <1>6, NoneAssumption
    <3> QED
      BY <1>4, <1>5, <1>6, <2>1, <3>1, <3>2 DEF Handing, TokenStages, MemoStages
  <2>2. CASE k # c
    <3>1. Handing(call[k]) /\ call'[k] = call[k]
      BY <1>3, <2>2 DEF HandInv
    <3> QED
      BY <1>5, <1>9, <2>2, <3>1 DEF Handing, TokenStages, MemoStages
  <2> QED
    BY <2>1, <2>2
<1>12. Book!End
  <2>1. Working' \in SUBSET Working
    BY <1>5 DEF Working
  <2>2. Holder' = Holder
    BY <1>1, <1>5 DEF Holder
  <2>3. Session' = Session
    BY <1>1, <1>5 DEF Session
  <2> QED
    BY <2>1, <2>2, <2>3 DEF Book!End
<1> QED
  BY <1>8, <1>10, <1>11, <1>12 DEF HandInv

LEMMA StoringBooked ==
    ASSUME IInv, HandInv, NEW c \in Call, OpenSession(c) \/ Rotate(c)
    PROVE  HandInv' /\ Book!End
<1>1. CASE Reply(c, "INTERNAL_SERVER_ERROR") /\ UNCHANGED <<nonce, origin>>
  BY <1>1, ReplyBooked
<1>2. CASE OpenSession(c) /\ Exists(call[c].id)
  <2>1. PICK n \in FreshNonces : /\ StoreNonce(c, n, "current", None)
                                 /\ call' = [call EXCEPT ![c].stage = "opened", ![c].memo = n]
    BY <1>2 DEF OpenSession
  <2> QED
    BY <1>2, <2>1, StoredBooked DEF OpenSession
<1>3. CASE Rotate(c) /\ Exists(call[c].id)
  <2>1. PICK n \in FreshNonces :
          /\ StoreNonce(c, n, origin[call[c].body].password, call[c].body)
          /\ call' = [call EXCEPT ![c].stage = "rotated", ![c].memo = n]
    BY <1>3 DEF Rotate
  <2>2. call[c].body \in Nonce /\ At(c, "refreshing")
    BY <1>3 DEF Rotate, IInv, RequestOK, Findings, At, TokenStages
  <2> QED
    BY <1>3, <2>1, <2>2, StoredBooked
<1> QED
  BY <1>1, <1>2, <1>3 DEF OpenSession, Rotate

\* Request c answers with token t, and the tokens in "gone" work no more.
HandsOut(c, t, gone) ==
  /\ call[c].stage \in MemoStages /\ call[c].memo = t
  /\ Reply(c, "OK")
  /\ nonce'[t].held
  /\ \A n \in Nonce : /\ nonce'[n].user = nonce[n].user
                      /\ n # t => nonce'[n].held = nonce[n].held
                      /\ origin'[n].session = origin[n].session
                      /\ n \notin gone => nonce'[n].row = nonce[n].row
                      /\ n \in gone => nonce'[n].row = "deleted"
  /\ \A n \in gone : n # t /\ nonce[n].row = "stored"

LEMMA HandedOut ==
    ASSUME IInv, HandInv, NEW c \in Call, NEW t \in Nonce, NEW gone \in SUBSET Nonce,
           HandsOut(c, t, gone)
    PROVE  /\ HandInv'
           /\ Holder[t] = None
           /\ Holder' = [Holder EXCEPT ![t] = nonce[t].user]
           /\ Session' = [Session EXCEPT ![t] = origin[t].session]
           /\ Working' \in {Working \ gone, (Working \ gone) \cup {t}}
<1> USE DEF HandsOut
<1>1. /\ call[c] \in RequestRecord /\ ~nonce[t].held /\ nonce[t].row # "none"
  BY DEF IInv, TypeOK, RequestRecord, RequestOK, Findings, HandInv, Handing
<1>2. call'[c].stage \in {"idle", "odd"} /\ \A k \in Call \ {c} : call'[k] = call[k]
  BY <1>1, EndsNowhere DEF Reply, IInv, TypeOK
<1>3. NoncesBooked'
  BY <1>1 DEF HandInv, NoncesBooked
<1>4. MemosApart'
  BY <1>2 DEF HandInv, MemosApart, MemoStages
<1>5. ASSUME NEW k \in Call PROVE Handing(call[k])'
  <2>1. CASE k = c
    BY <1>2, <2>1 DEF Handing, TokenStages, MemoStages
  <2>2. CASE k # c
    <3>1. /\ Handing(call[k]) /\ call'[k] = call[k]
          /\ call[k].stage \in TokenStages => call[k].body \in Nonce
          /\ call[k].stage \in MemoStages => call[k].memo \in Nonce \ {t}
      BY <1>2, <2>2 DEF HandInv, MemosApart, IInv, RequestOK, Findings
    <3> QED
      BY <1>1, <3>1 DEF Handing, TokenStages, MemoStages
  <2> QED
    BY <2>1, <2>2
<1>6. Working' \in {Working \ gone, (Working \ gone) \cup {t}}
  <2>1. CASE nonce[t].row = "stored"
    BY <1>1, <2>1 DEF Working
  <2>2. CASE nonce[t].row # "stored"
    BY <1>1, <2>2 DEF Working
  <2> QED
    BY <2>1, <2>2
<1>7. Holder[t] = None /\ Holder' = [Holder EXCEPT ![t] = nonce[t].user]
  <2>1. ASSUME NEW n \in Nonce
        PROVE  Holder'[n] = IF n = t THEN nonce[t].user ELSE Holder[n]
    <3>1. CASE n = t
      BY <3>1 DEF Holder
    <3>2. CASE n # t
      BY <3>2 DEF Holder
    <3> QED
      BY <3>1, <3>2
  <2> QED
    BY <1>1, <2>1 DEF Holder
<1>8. Session' = [Session EXCEPT ![t] = origin[t].session]
  <2>1. ASSUME NEW n \in Nonce
        PROVE  Session'[n] = IF n = t THEN origin[t].session ELSE Session[n]
    <3>1. CASE n = t
      BY <3>1 DEF Session
    <3>2. CASE n # t
      BY <3>2 DEF Session
    <3> QED
      BY <3>1, <3>2
  <2> QED
    BY <2>1 DEF Session
<1> QED
  BY <1>3, <1>4, <1>5, <1>6, <1>7, <1>8 DEF HandInv

LEMMA AnswerLoginBooked ==
    ASSUME IInv, HandInv, NEW c \in Call, AnswerLogin(c)
    PROVE  HandInv' /\ [Book!BookNext]_(Book!bookVars)
<1>1. CASE Reply(c, "NOT_FOUND") /\ UNCHANGED nonce
  BY <1>1, ReplyBooked DEF AnswerLogin, Book!BookNext
<1>2. CASE nonce' = [nonce EXCEPT ![call[c].memo].held = TRUE] /\ Reply(c, "OK")
  <2>1. call[c].stage = "opened" /\ call[c].memo \in Nonce
    BY DEF AnswerLogin, At, IInv, RequestOK, Findings, MemoStages
  <2>2. PICK t \in Nonce : t = call[c].memo
    BY <2>1
  <2>3. origin[t].session = t /\ nonce[t].user \in User
    BY <2>1, <2>2 DEF IInv, RequestOK, Findings, MemoStages, HandInv, Handing, NoncesBooked
  <2>4. ASSUME NEW n \in Nonce
        PROVE  /\ nonce'[n].user = nonce[n].user /\ nonce'[n].row = nonce[n].row
               /\ n # t => nonce'[n].held = nonce[n].held
               /\ n = t => nonce'[n].held
    <3>1. nonce[n] \in NonceRow
      BY DEF IInv, TypeOK
    <3>2. nonce'[n] = IF n = t THEN [nonce[n] EXCEPT !.held = TRUE] ELSE nonce[n]
      BY <1>2, <2>2 DEF IInv, TypeOK
    <3> QED
      BY <3>1, <3>2 DEF NonceRow
  <2>5. UNCHANGED origin /\ Reply(c, "OK") /\ call[c].stage \in MemoStages /\ nonce'[t].held
    BY <1>2, <2>1, <2>4 DEF AnswerLogin, MemoStages
  <2>6. /\ HandInv' /\ Holder[t] = None
        /\ Holder' = [Holder EXCEPT ![t] = nonce[t].user]
        /\ Session' = [Session EXCEPT ![t] = origin[t].session]
        /\ Working' \in {Working \ {}, (Working \ {}) \cup {t}}
    <3>1. HandsOut(c, t, {})
      BY <2>2, <2>4, <2>5 DEF HandsOut
    <3> QED
      BY <3>1, HandedOut
  <2>7. PICK u \in User : u = nonce[t].user
    BY <2>3
  <2>8. Book!SignIn(t, u)
    BY <2>3, <2>6, <2>7 DEF Book!SignIn, Book!HandOut
  <2> QED
    BY <2>6, <2>8 DEF Book!BookNext
<1> QED
  BY <1>1, <1>2 DEF AnswerLogin

LEMMA RetireReplacedBooked ==
    ASSUME IInv, HandInv, NEW c \in Call, RetireReplaced(c)
    PROVE  HandInv' /\ [Book!BookNext]_(Book!bookVars)
<1>1. CASE Reply(c, "INTERNAL_SERVER_ERROR") /\ UNCHANGED <<nonce, origin>>
  BY <1>1, ReplyBooked DEF Book!BookNext
<1>2. CASE /\ DeletesById(call[c].body) /\ Reply(c, "OK")
           /\ nonce' = [WithoutNonces({call[c].body}) EXCEPT ![call[c].memo].held = TRUE]
           /\ ForgetOrigins({call[c].body})
  <2>1. call[c].stage = "retiring" /\ call[c].memo \in Nonce /\ call[c].body \in Nonce
    BY DEF RetireReplaced, At, IInv, RequestOK, Findings, MemoStages, TokenStages
  <2>2. PICK t \in Nonce, old \in Nonce : t = call[c].memo /\ old = call[c].body
    BY <2>1
  <2>3. /\ nonce[old].held /\ ~nonce[t].held /\ nonce[old].row = "stored"
        /\ nonce[t].user = nonce[old].user /\ origin[t].session = origin[old].session
    BY <1>2, <2>1, <2>2 DEF HandInv, Handing, DeletesById, MemoStages, TokenStages
  <2>4. ASSUME NEW n \in Nonce
        PROVE  /\ nonce'[n].user = nonce[n].user
               /\ n # t => nonce'[n].held = nonce[n].held
               /\ n = t => nonce'[n].held
               /\ n \notin {old} => nonce'[n].row = nonce[n].row
               /\ n \in {old} => nonce'[n].row = "deleted"
    <3> DEFINE w == WithoutNonces({old})
    <3>1. /\ w[n] \in NonceRow /\ w[n].user = nonce[n].user /\ w[n].held = nonce[n].held
          /\ w[n].row = IF n = old THEN "deleted" ELSE nonce[n].row
      BY WithoutRows DEF IInv
    <3>2. nonce'[n] = IF n = t THEN [w[n] EXCEPT !.held = TRUE] ELSE w[n]
      BY <1>2, <2>2 DEF WithoutNonces
    <3> HIDE DEF w
    <3> QED
      BY <3>1, <3>2 DEF NonceRow
  <2>5. ASSUME NEW n \in Nonce PROVE origin'[n].session = origin[n].session
    <3>1. origin[n] \in Origin
      BY DEF IInv, TypeOK
    <3> QED
      BY <1>2, <3>1 DEF ForgetOrigins, Origin
  <2>6. /\ Reply(c, "OK") /\ call[c].stage \in MemoStages /\ nonce'[t].held
        /\ {old} \in SUBSET (Nonce \ {t}) /\ \A n \in {old} : nonce[n].row = "stored"
    BY <1>2, <2>1, <2>3, <2>4 DEF MemoStages
  <2>7. /\ HandInv' /\ Holder[t] = None
        /\ Holder' = [Holder EXCEPT ![t] = nonce[t].user]
        /\ Session' = [Session EXCEPT ![t] = origin[t].session]
        /\ Working' \in {Working \ {old}, (Working \ {old}) \cup {t}}
    <3>1. HandsOut(c, t, {old})
      BY <2>2, <2>4, <2>5, <2>6 DEF HandsOut
    <3> QED
      BY <3>1, HandedOut
  <2>8. old \in Working /\ Holder[old] = nonce[t].user /\ Session[old] = origin[t].session
    BY <2>3 DEF Working, Holder, Session
  <2>9. Book!Trade(old, t)
    BY <2>7, <2>8 DEF Book!Trade, Book!HandOut
  <2> QED
    BY <2>7, <2>9 DEF Book!BookNext
<1> QED
  BY <1>1, <1>2 DEF RetireReplaced

LEMMA BookedInit == Init => HandInv /\ Book!BookInit
<1> SUFFICES ASSUME Init PROVE HandInv /\ Book!BookInit
  OBVIOUS
<1>1. HandInv
  BY DEF Init, HandInv, NoncesBooked, MemosApart, Handing, Idle, TokenStages, MemoStages
<1> QED
  BY <1>1 DEF Init, Book!BookInit, Holder, Session, Working

LEMMA BookedStep == IInv /\ HandInv /\ [Next]_vars => HandInv' /\ [Book!BookNext]_(Book!bookVars)
<1> SUFFICES ASSUME IInv, HandInv, [Next]_vars
             PROVE  HandInv' /\ [Book!BookNext]_(Book!bookVars)
  OBVIOUS
<1>1. Book!End => Book!BookNext
  BY DEF Book!BookNext
<1>2. ASSUME NEW c \in Call, SendOddAnswer(c), UNCHANGED <<rows, jobs, origin>>
      PROVE  HandInv' /\ Book!End
  <2>1. call'[c] = Idle /\ \A k \in Call \ {c} : call'[k] = call[k]
    BY <1>2 DEF SendOddAnswer, IInv, TypeOK
  <2>2. Carries(call[c], call'[c])
    BY <2>1 DEF Carries, Idle, TokenStages, MemoStages
  <2> QED
    BY <1>2, <2>1, <2>2, KeptRows DEF rows
<1>3. ASSUME NEW c \in Call, Service(c)
      PROVE  HandInv' /\ [Book!BookNext]_(Book!bookVars)
  <2>1. CASE \/ CheckEmail(c) \/ CheckCredentials(c) \/ KeepToken(c) \/ FindReplaced(c)
             \/ FindSession(c) \/ MailResetToken(c) \/ CheckOldPassword(c)
             \/ ChangePassword(c) \/ SaveProfile(c) \/ StoreAvatar(c) \/ ConfirmUserEmail(c)
    BY <1>1, <2>1, QuietBooked
  <2>2. CASE CreateUser(c) \/ DeleteSession(c) \/ StorePassword(c) \/ RevokeSessions(c)
    BY <1>1, <2>2, CreateUserBooked, DeleteSessionBooked, PasswordBooked
  <2>3. CASE OpenSession(c) \/ Rotate(c)
    BY <1>1, <2>3, StoringBooked
  <2>4. CASE AnswerLogin(c) \/ RetireReplaced(c)
    BY <2>4, AnswerLoginBooked, RetireReplacedBooked
  <2> QED
    BY <1>3, <2>1, <2>2, <2>3, <2>4 DEF Service
<1>4. CASE UNCHANGED vars
  BY <1>1, <1>4, KeptStep DEF vars, Carries
<1> QED
  BY <1>1, <1>2, <1>3, <1>4, HandlersBooked, JobsBooked, CrashBooked DEF Next

\* Between the queries of logins, refreshes, logouts, resets and jobs, wherever they crash, the
\* tokens behave as the book of Sessions: a working token is traded in one step or not at all.
THEOREM AccountsImplementSessions == Spec => ImplementsSessions
<1>1. Init => HandInv /\ Book!BookInit
  BY BookedInit
<1>2. IInv /\ HandInv /\ [Next]_vars => HandInv' /\ [Book!BookNext]_(Book!bookVars)
  BY BookedStep
<1> QED
  BY <1>1, <1>2, Invariance, PTL DEF Spec, ImplementsSessions, Book!BookSpec

\* However many requests refresh the tokens of a login, at most one of them works at a time
\* (auth.service.ts, refreshAccessToken).
THEOREM OneWorkingTokenEach == Spec => []OneWorkingToken
<1>1. Book!BookSpec => []Book!OneTokenPerSession
  BY Book!OneToken, NoneAssumption DEF Book!Distinct
<1> QED
  BY <1>1, AccountsImplementSessions, PTL DEF ImplementsSessions, OneWorkingToken

\* Refreshing never hands a token of one user's session to another user.
THEOREM SessionsOfOneUser == Spec => []Book!OneUserPerSession
<1>1. Book!BookSpec => []Book!OneUserPerSession
  BY Book!OneUser, NoneAssumption DEF Book!Distinct
<1> QED
  BY <1>1, AccountsImplementSessions, PTL DEF ImplementsSessions
=============================================================================
