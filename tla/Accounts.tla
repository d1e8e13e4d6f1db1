------------------------------ MODULE Accounts ------------------------------
(***************************************************************************)
(* Accounts and sessions: registration, e-mail confirmation, login, the    *)
(* rotation of refresh tokens, logout, password reset and change, and the  *)
(* two scheduled jobs that delete expired nonces and unconfirmed accounts. *)
(*                                                                         *)
(* Every await is a step: a handler and its guards, then each query of the *)
(* service.  Of a request, "id" is the user; "body" the e-mail address or  *)
(* the refresh token sent, "memo" the nonce of the new refresh token.      *)
(***************************************************************************)
EXTENDS Requests, Naturals, FiniteSets

CONSTANTS
  User,      \* ids of table users; an id is never handed out twice
  Email,     \* e-mail addresses
  Nonce      \* nonces of refresh tokens, each drawn once

ASSUME NoneAssumption == None \notin User \cup Email \cup Nonce

VARIABLES
  user,      \* table users
  nonce,     \* table refresh_token_nonces, and the tokens that carry the nonces
  cleaner,   \* nonces the current run of the nonce job has still to delete
  sweep,     \* accounts the current run of the account job has still to delete
  origin,    \* history: what each session replaced, and whether its password is outdated
  awaited    \* history: of those, the ones being confirmed when the job read

vars == <<user, nonce, call, cleaner, sweep, origin, awaited>>
rows == <<user, nonce>>
jobs == <<cleaner, sweep, awaited>>

RowState == {"none", "stored", "deleted"}

\* "expired": older than jwt.expiresIn.confirmEmail.  Whether a password is right is an input of
\* the request that gives it, so passwords themselves are not kept.
UserRow == [row : RowState, email : Email \cup {None}, isEmailVerified : BOOLEAN,
            expired : BOOLEAN]

\* "held": the answer with the token reached its client.
NonceRow == [row : RowState, user : User \cup {None}, held : BOOLEAN,
             expired : BOOLEAN]

\* "session": the nonce of the login it goes back to.  "outdated": opened with a password that
\* has been reset since; "excused": opened by a request that was overtaken by a reset or broke off.
Origin == [replaces : Nonce \cup {None}, session : Nonce \cup {None},
           password : {"current", "outdated", "excused"}]

Stage == {"registering", "creating", "confirming", "login", "opening", "opened",
          "refreshing", "rotated", "retiring", "leaving", "left", "forgot", "resetting",
          "revoking", "read", "proving", "changing", "saving", "avatar"}

Op == {"none", "register", "confirmEmail", "login", "refreshAccessToken", "logout",
       "resetPassword", "confirmPasswordReset", "findMe", "findOne", "findAll",
       "findUserCompanies", "findUserEventSubscriptions", "findUserCompanySubscriptions",
       "findUserOrders", "findUserNotifications", "update", "updatePassword", "uploadAvatar"}

Exists(u) == u # None /\ user[u].row = "stored"
Owners(e) == {u \in User : Exists(u) /\ user[u].email = e}
FreshNonces == {n \in Nonce : nonce[n].row = "none"}
NoncesOf(u) == {n \in Nonce : nonce[n].row = "stored" /\ nonce[n].user = u}

\* A token whose nonce is gone is worthless whatever its age, and its history is forgotten.
WithoutNonces(gone) ==
  [n \in Nonce |-> IF n \in gone THEN [nonce[n] EXCEPT !.row = "deleted", !.expired = TRUE]
                   ELSE nonce[n]]
ForgetOrigins(gone) ==
  origin' = [n \in Nonce |-> IF n \in gone
               THEN [origin[n] EXCEPT !.password = "current"]
               ELSE origin[n]]
DeleteNonces(gone) == nonce' = WithoutNonces(gone) /\ ForgetOrigins(gone)

\* Requests about to write.
Registering(e) == {k \in Call : At(k, "creating") /\ call[k].body = e}
Opening(u) == {k \in Call : call[k].stage \in {"opening", "refreshing"} /\ call[k].id = u}

-----------------------------------------------------------------------------
(* Guards.                                                                 *)

\* An access token is not enough: its user must still exist.
JwtAuthGuard(v, inner) == IF Exists(v) THEN inner ELSE "UNAUTHORIZED"

AccountOwnerGuard(v, u, inner) == IF v = u THEN inner ELSE "FORBIDDEN"

\* The strategy rejects an expired token; the guard looks the nonce up.
JwtRefreshGuard(n) ==
  IF nonce[n].expired THEN "BAD_REQUEST"
  ELSE IF nonce[n].row = "stored" THEN "OK" ELSE "NOT_FOUND"

\* A confirmation token expires when the account counts as unactivated: it is signed as soon as
\* the account is stored, and both ages are measured by jwt.expiresIn.confirmEmail.
JwtConfirmEmailGuard_IgnoreExpiration(u) == "OK"
JwtConfirmEmailGuard(u) == IF user[u].expired THEN "UNAUTHORIZED" ELSE "OK"

\* A reset token is good for any number of resets until it expires.
JwtResetPasswordGuard(live, inner) == IF live THEN inner ELSE "UNAUTHORIZED"

-----------------------------------------------------------------------------
(* AuthController.                                                         *)

Register(c) ==
  /\ \E e \in Email, valid \in BOOLEAN :
       Admit(c, Arrival("register", {"OK", "BAD_REQUEST", "CONFLICT"}, "registering", None, e),
             ValidationPipe(valid))
  /\ UNCHANGED <<rows, jobs, origin>>

ConfirmEmail(c) ==
  /\ \E u \in User :
       /\ user[u].row # "none"
       /\ Admit(c, Arrival("confirmEmail", {"OK", "UNAUTHORIZED", "NOT_FOUND"}, "confirming", u, None),
                JwtConfirmEmailGuard(u))
  /\ UNCHANGED <<rows, jobs, origin>>

Login(c) ==
  /\ \E e \in Email, valid \in BOOLEAN :
       Admit(c, Arrival("login", {"OK", "BAD_REQUEST", "UNAUTHORIZED", "NOT_FOUND"}, "login", None, e),
             ValidationPipe(valid))
  /\ UNCHANGED <<rows, jobs, origin>>

RefreshAccessToken(c) ==
  /\ \E n \in Nonce :
       /\ nonce[n].held
       /\ Admit(c, Arrival("refreshAccessToken", {"OK", "BAD_REQUEST", "NOT_FOUND"}, "refreshing", nonce[n].user, n),
                JwtRefreshGuard(n))
  /\ UNCHANGED <<rows, jobs, origin>>

Logout(c) ==
  /\ \E n \in Nonce :
       /\ nonce[n].held
       /\ Admit(c, Arrival("logout", {"OK", "BAD_REQUEST", "NOT_FOUND"}, "leaving", nonce[n].user, n),
                JwtRefreshGuard(n))
  /\ UNCHANGED <<rows, jobs, origin>>

ResetPassword(c) ==
  /\ \E e \in Email, valid \in BOOLEAN :
       Admit(c, Arrival("resetPassword", {"OK", "BAD_REQUEST", "NOT_FOUND"}, "forgot", None, e),
             ValidationPipe(valid))
  /\ UNCHANGED <<rows, jobs, origin>>

\* The guard comes first, the body is validated when the token is good.
ConfirmPasswordReset(c) ==
  /\ \E u \in User, live, valid \in BOOLEAN :
       /\ user[u].isEmailVerified
       /\ Admit(c, Arrival("confirmPasswordReset", {"OK", "BAD_REQUEST", "UNAUTHORIZED"}, "resetting", u, None),
                JwtResetPasswordGuard(live, ValidationPipe(valid)))
  /\ UNCHANGED <<rows, jobs, origin>>

-----------------------------------------------------------------------------
(* UsersController: v is the user of the access token, who has confirmed   *)
(* the address to get one; u is the id in the path, None one nobody has.   *)

Signed(c, op, docs, stage, v, u, code) ==
  /\ user[v].isEmailVerified
  /\ Admit(c, Arrival(op, docs, stage, u, None), JwtAuthGuard(v, code))
  /\ UNCHANGED <<rows, jobs, origin>>

\* Reads leave nothing behind and are answered in the step of their guards.
Read(c, op, docs, v, code) ==
  /\ user[v].isEmailVerified
  /\ Answer(c, Arrival(op, docs, "read", None, None), JwtAuthGuard(v, code))
  /\ UNCHANGED <<rows, jobs, origin>>

\* findUserById
FindUserById(u) == IF Exists(u) THEN "OK" ELSE "NOT_FOUND"

FindMe(c, v) == Read(c, "findMe", {"OK", "UNAUTHORIZED"}, v, FindUserById(v))

FindOne(c, v, u) ==
  Read(c, "findOne", {"OK", "UNAUTHORIZED", "NOT_FOUND"}, v, FindUserById(u))

FindAll(c, v) == Read(c, "findAll", {"OK", "UNAUTHORIZED"}, v, "OK")

FindUserEventSubscriptions(c, v, u) ==
  Read(c, "findUserEventSubscriptions", {"OK", "UNAUTHORIZED", "FORBIDDEN"}, v,
         AccountOwnerGuard(v, u, "OK"))

FindUserCompanySubscriptions(c, v, u) ==
  Read(c, "findUserCompanySubscriptions", {"OK", "UNAUTHORIZED", "FORBIDDEN"}, v,
         AccountOwnerGuard(v, u, "OK"))

FindUserNotifications(c, v, u) ==
  Read(c, "findUserNotifications", {"OK"}, v, AccountOwnerGuard(v, u, "OK"))

FindUserCompanies(c, v, u) ==
  Read(c, "findUserCompanies", {"OK", "UNAUTHORIZED", "FORBIDDEN"}, v,
       AccountOwnerGuard(v, u, FindUserById(u)))

FindUserOrders(c, v, u) == Read(c, "findUserOrders", {"OK", "NOT_FOUND"}, v, FindUserById(u))

Update(c, v, u) ==
  \E valid \in BOOLEAN :
    Signed(c, "update", {"OK", "BAD_REQUEST", "UNAUTHORIZED", "FORBIDDEN"}, "saving", v, u,
           AccountOwnerGuard(v, u, ValidationPipe(valid)))

UpdatePassword(c, v, u) ==
  \E valid \in BOOLEAN :
    Signed(c, "updatePassword", {"OK", "BAD_REQUEST", "UNAUTHORIZED", "FORBIDDEN"}, "proving",
           v, u, AccountOwnerGuard(v, u, ValidationPipe(valid)))

\* The service is not awaited: "avatar" is the promise that outlives the answer.
UploadAvatar(c, v, u) ==
  \E valid \in BOOLEAN :
    Signed(c, "uploadAvatar", {"OK", "BAD_REQUEST", "UNAUTHORIZED", "FORBIDDEN"}, "avatar",
           v, u, AccountOwnerGuard(v, u, ValidationPipe(valid)))

-----------------------------------------------------------------------------
(* UsersService and AuthService.                                           *)

\* createUser: the e-mail is looked up, then the password is hashed.
CheckEmail_Trusting(c) ==
  /\ At(c, "registering")
  /\ Goto(c, "creating")
  /\ UNCHANGED <<rows, jobs, origin>>

CheckEmail(c) ==
  /\ At(c, "registering")
  /\ IF Owners(call[c].body) = {} THEN Goto(c, "creating") ELSE Reply(c, "CONFLICT")
  /\ UNCHANGED <<rows, jobs, origin>>

\* The unique index on users.email.
UniqueEmail(e) == Owners(e) = {}

CreateUser(c) ==
  /\ At(c, "creating")
  /\ IF UniqueEmail(call[c].body)
     THEN \E u \in User :
            /\ user[u].row = "none"
            /\ user' = [user EXCEPT ![u] = [row |-> "stored", email |-> call[c].body,
                          isEmailVerified |-> FALSE, expired |-> FALSE]]
            /\ call' = [Overtaking(c, Registering(call[c].body)) EXCEPT ![c] = Ended(@, "OK")]
     ELSE Reply(c, "INTERNAL_SERVER_ERROR") /\ UNCHANGED user
  /\ UNCHANGED <<nonce, jobs, origin>>

ConfirmUserEmail(c) ==
  LET u == call[c].id IN
  /\ At(c, "confirming")
  /\ IF Exists(u)
     THEN user' = [user EXCEPT ![u].isEmailVerified = TRUE] /\ Reply(c, "OK")
     ELSE UNCHANGED user /\ Reply(c, "INTERNAL_SERVER_ERROR")
  /\ UNCHANGED <<nonce, jobs, origin>>

\* login: the row is read once; password and confirmation are judged by that copy.  "right"
\* says that the password given is the one of that row.
CheckCredentials(c) ==
  /\ At(c, "login")
  /\ \/ /\ Owners(call[c].body) = {}
        /\ Reply(c, "NOT_FOUND")
     \/ \E u \in Owners(call[c].body), right \in BOOLEAN :
          IF ~right THEN Reply(c, "UNAUTHORIZED")
          ELSE IF ~user[u].isEmailVerified THEN Reply(c, "FORBIDDEN")
          ELSE call' = [call EXCEPT ![c].stage = "opening", ![c].id = u]
  /\ UNCHANGED <<rows, jobs, origin>>

\* createRefreshTokenNonce: a new nonce for the user of request c, and where it comes from.
StoreNonce(c, n, from, replaced) ==
  /\ nonce' = [nonce EXCEPT ![n] = [row |-> "stored", user |-> call[c].id, held |-> FALSE,
                                    expired |-> FALSE]]
  /\ origin' = [origin EXCEPT ![n] = [replaces |-> replaced,
                                      session |-> IF replaced = None THEN n
                                                  ELSE origin[replaced].session,
                                      password |-> IF call[c].overtaken THEN "excused" ELSE from]]

\* A variant that looks at the account when the nonce is already stored.
OpenSession_ThenCheck(c) ==
  /\ At(c, "opening")
  /\ Exists(call[c].id)
  /\ \E n \in FreshNonces : StoreNonce(c, n, "current", None)
  /\ Reply(c, "UNAUTHORIZED")
  /\ UNCHANGED <<user, jobs>>

OpenSession(c) ==
  LET u == call[c].id IN
  /\ At(c, "opening")
  /\ IF Exists(u)
     THEN \E n \in FreshNonces :
            /\ StoreNonce(c, n, "current", None)
            /\ call' = [call EXCEPT ![c].stage = "opened", ![c].memo = n]
     ELSE Reply(c, "INTERNAL_SERVER_ERROR") /\ UNCHANGED <<nonce, origin>>
  /\ UNCHANGED <<user, jobs>>

AnswerLogin(c) ==
  LET u == call[c].id IN
  /\ At(c, "opened")
  /\ IF Exists(u)
     THEN /\ nonce' = [nonce EXCEPT ![call[c].memo].held = TRUE]
          /\ Reply(c, "OK")
     ELSE Reply(c, "NOT_FOUND") /\ UNCHANGED nonce
  /\ UNCHANGED <<user, jobs, origin>>

\* refreshAccessToken: a token of the last day is kept, an older one is replaced.
KeepToken(c) ==
  /\ At(c, "refreshing")
  /\ Reply(c, "OK")
  /\ UNCHANGED <<rows, jobs, origin>>

Rotate(c) ==
  /\ At(c, "refreshing")
  /\ IF Exists(call[c].id)
     THEN \E m \in FreshNonces :
            /\ StoreNonce(c, m, origin[call[c].body].password, call[c].body)
            /\ call' = [call EXCEPT ![c].stage = "rotated", ![c].memo = m]
     ELSE Reply(c, "INTERNAL_SERVER_ERROR") /\ UNCHANGED <<nonce, origin>>
  /\ UNCHANGED <<user, jobs>>

FindReplaced(c) ==
  /\ At(c, "rotated")
  /\ IF nonce[call[c].body].row = "stored" THEN Goto(c, "retiring") ELSE Reply(c, "NOT_FOUND")
  /\ UNCHANGED <<rows, jobs, origin>>

\* RefreshTokenNoncesRepository.deleteById finds the row to delete, or fails.
DeletesById_Any(n) == TRUE
DeletesById(n) == nonce[n].row = "stored"

\* A variant that leaves the old nonce to the job.
RetireReplaced_LeaveOld(c) ==
  /\ At(c, "retiring")
  /\ nonce' = [nonce EXCEPT ![call[c].memo].held = TRUE]
  /\ Reply(c, "OK")
  /\ UNCHANGED <<user, jobs, origin>>

\* Only the request that deletes the old nonce answers with the new token.
RetireReplaced(c) ==
  LET n == call[c].body IN
  /\ At(c, "retiring")
  /\ IF DeletesById(n)
     THEN /\ nonce' = [WithoutNonces({n}) EXCEPT ![call[c].memo].held = TRUE]
          /\ ForgetOrigins({n})
          /\ Reply(c, "OK")
     ELSE Reply(c, "INTERNAL_SERVER_ERROR") /\ UNCHANGED <<nonce, origin>>
  /\ UNCHANGED <<user, jobs>>

\* logout: look the nonce up, then delete it by id.
FindSession(c) ==
  /\ At(c, "leaving")
  /\ IF nonce[call[c].body].row = "stored" THEN Goto(c, "left") ELSE Reply(c, "NOT_FOUND")
  /\ UNCHANGED <<rows, jobs, origin>>

DeleteSession(c) ==
  LET n == call[c].body IN
  /\ At(c, "left")
  /\ IF DeletesById(n)
     THEN /\ DeleteNonces({n})
          /\ Reply(c, "OK")
     ELSE Reply(c, "INTERNAL_SERVER_ERROR") /\ UNCHANGED <<nonce, origin>>
  /\ UNCHANGED <<user, jobs>>

\* resetPassword: the token is mailed to a confirmed address only.
MailResetToken(c) ==
  LET known == {u \in Owners(call[c].body) : user[u].isEmailVerified} IN
  /\ At(c, "forgot")
  /\ IF known = {} THEN Reply(c, "NOT_FOUND") ELSE Reply(c, "OK")
  /\ UNCHANGED <<rows, jobs, origin>>

\* History: the password of u is another one.
Rejudge(sessions, judged) ==
  origin' = [n \in Nonce |-> IF n \in sessions THEN [origin[n] EXCEPT !.password = judged]
                             ELSE origin[n]]

\* resetUserPassword, the first write of confirmNewPassword.
StorePassword_KeepSessions(c) ==
  LET u == call[c].id IN
  /\ At(c, "resetting")
  /\ IF Exists(u)
     THEN /\ Rejudge({n \in NoncesOf(u) : origin[n].password = "current"}, "outdated")
          /\ call' = [Overtaking(c, Opening(u)) EXCEPT ![c] = Ended(@, "OK")]
     ELSE Reply(c, "INTERNAL_SERVER_ERROR") /\ UNCHANGED origin
  /\ UNCHANGED <<rows, jobs>>

StorePassword(c) ==
  LET u == call[c].id IN
  /\ At(c, "resetting")
  /\ IF Exists(u)
     THEN /\ Rejudge({n \in NoncesOf(u) : origin[n].password = "current"}, "outdated")
          /\ call' = [Overtaking(c, Opening(u)) EXCEPT ![c].stage = "revoking"]
     ELSE Reply(c, "INTERNAL_SERVER_ERROR") /\ UNCHANGED origin
  /\ UNCHANGED <<rows, jobs>>

\* deleteRefreshTokenNonceByUserId, the second write.
RevokeSessions(c) ==
  LET u == call[c].id IN
  /\ At(c, "revoking")
  /\ DeleteNonces(NoncesOf(u))
  /\ call' = [Overtaking(c, Opening(u)) EXCEPT ![c] = Ended(@, "OK")]
  /\ UNCHANGED <<user, jobs>>

\* updateUserPassword: the old password against the row read.
CheckOldPassword(c) ==
  LET u == call[c].id IN
  /\ At(c, "proving")
  /\ IF ~Exists(u) THEN Reply(c, "NOT_FOUND")
     ELSE \E right \in BOOLEAN :
            IF right THEN Goto(c, "changing") ELSE Reply(c, "UNAUTHORIZED")
  /\ UNCHANGED <<rows, jobs, origin>>

\* The write after the hash: by id alone, and no session ends.
ChangePassword(c) ==
  /\ At(c, "changing")
  /\ IF Exists(call[c].id) THEN Reply(c, "OK") ELSE Reply(c, "INTERNAL_SERVER_ERROR")
  /\ UNCHANGED <<rows, jobs, origin>>

\* updateUser: names only, which no property reads.
SaveProfile(c) ==
  /\ At(c, "saving")
  /\ IF Exists(call[c].id) THEN Reply(c, "OK") ELSE Reply(c, "INTERNAL_SERVER_ERROR")
  /\ UNCHANGED <<rows, jobs, origin>>

StoreAvatar(c) ==
  /\ At(c, "avatar")
  /\ Exists(call[c].id)
  /\ Reply(c, "OK")
  /\ UNCHANGED <<rows, jobs, origin>>

-----------------------------------------------------------------------------
(* The jobs, time and failures.                                            *)

ExpiredNonces == {n \in Nonce : nonce[n].row = "stored" /\ nonce[n].expired}

\* cleanRefreshTokensFromDb: one read, then the deletions in any order.
CleanRefreshTokens ==
  /\ cleaner = {}
  /\ ExpiredNonces # {}
  /\ cleaner' = ExpiredNonces
  /\ UNCHANGED <<rows, call, sweep, awaited, origin>>

\* A row that is gone rejects Promise.all, which does not stop the other deletions.
CleanNonce(n) ==
  /\ n \in cleaner
  /\ cleaner' = cleaner \ {n}
  /\ DeleteNonces({n} \cap NoncesOf(nonce[n].user))
  /\ UNCHANGED <<user, call, sweep, awaited>>

UnactivatedUsers == {u \in User : Exists(u) /\ user[u].expired /\ ~user[u].isEmailVerified}

SweepUsers ==
  /\ sweep = {}
  /\ UnactivatedUsers # {}
  /\ sweep' = UnactivatedUsers
  /\ awaited' = {u \in sweep' : \E c \in Call : At(c, "confirming") /\ call[c].id = u}
  /\ UNCHANGED <<rows, call, cleaner, origin>>

\* RefreshTokenNonce.user is onDelete: Cascade.
Cascaded_None(u) == {}
Cascaded(u) == NoncesOf(u)

\* The deletion is unconditional; the nonces go with the user.
DeleteUser(u) ==
  /\ u \in sweep
  /\ sweep' = sweep \ {u}
  /\ IF Exists(u)
     THEN /\ user' = [user EXCEPT ![u].row = "deleted"]
          /\ DeleteNonces(Cascaded(u))
     ELSE UNCHANGED <<user, nonce, origin>>
  /\ awaited' = awaited \cap sweep'
  /\ UNCHANGED <<call, cleaner>>

\* A nonce and its token are as old as jwt.expiresIn.refresh.
SessionExpires(n) ==
  /\ nonce[n].row = "stored" /\ ~nonce[n].expired
  /\ nonce' = [nonce EXCEPT ![n].expired = TRUE]
  /\ UNCHANGED <<user, call, jobs, origin>>

\* jwt.expiresIn.confirmEmail passes; of no consequence to a confirmed account.
ConfirmationExpires(u) ==
  /\ Exists(u) /\ ~user[u].isEmailVerified /\ ~user[u].expired
  /\ user' = [user EXCEPT ![u].expired = TRUE]
  /\ UNCHANGED <<nonce, call, jobs, origin>>

\* The process dies and restarts; among the reasons is the rejection of an avatar's promise,
\* which nothing handles.  It leaves sessions nobody was told of and, of a reset, sessions that
\* were to be revoked.
Crash ==
  /\ cleaner # {} \/ sweep # {} \/ \E c \in Call : ~Free(c)
  /\ call' = [c \in Call |-> Idle]
  /\ Rejudge({call[c].memo : c \in Call} \cup
             UNION {NoncesOf(call[c].id) : c \in {k \in Call : At(k, "revoking")}}, "excused")
  /\ cleaner' = {} /\ sweep' = {} /\ awaited' = {}
  /\ UNCHANGED rows

-----------------------------------------------------------------------------
Init ==
  /\ user = [u \in User |-> [row |-> "none", email |-> None,
                             isEmailVerified |-> FALSE, expired |-> FALSE]]
  /\ nonce = [n \in Nonce |-> [row |-> "none", user |-> None, held |-> FALSE, expired |-> FALSE]]
  /\ origin = [n \in Nonce |-> [replaces |-> None, session |-> None, password |-> "current"]]
  /\ call = [c \in Call |-> Idle]
  /\ cleaner = {} /\ sweep = {} /\ awaited = {}

Handler(c) ==
  \/ Register(c) \/ ConfirmEmail(c) \/ Login(c) \/ RefreshAccessToken(c) \/ Logout(c)
  \/ ResetPassword(c) \/ ConfirmPasswordReset(c)
  \/ \E v \in User :
       \/ FindMe(c, v) \/ FindAll(c, v)
       \/ \E u \in User \cup {None} :
            \/ FindOne(c, v, u) \/ FindUserCompanies(c, v, u) \/ FindUserOrders(c, v, u)
            \/ FindUserEventSubscriptions(c, v, u) \/ FindUserCompanySubscriptions(c, v, u)
            \/ FindUserNotifications(c, v, u)
            \/ Update(c, v, u) \/ UpdatePassword(c, v, u) \/ UploadAvatar(c, v, u)

Service(c) ==
  \/ CheckEmail(c) \/ CreateUser(c) \/ ConfirmUserEmail(c) \/ CheckCredentials(c)
  \/ OpenSession(c) \/ AnswerLogin(c) \/ KeepToken(c) \/ Rotate(c) \/ FindReplaced(c) \/ RetireReplaced(c)
  \/ FindSession(c) \/ DeleteSession(c) \/ MailResetToken(c) \/ StorePassword(c)
  \/ RevokeSessions(c) \/ CheckOldPassword(c) \/ ChangePassword(c)
  \/ SaveProfile(c) \/ StoreAvatar(c)

Jobs ==
  \/ CleanRefreshTokens \/ SweepUsers
  \/ \E n \in Nonce : CleanNonce(n)
  \/ \E u \in User : DeleteUser(u)

Time ==
  \/ \E n \in Nonce : SessionExpires(n)
  \/ \E u \in User : ConfirmationExpires(u)

Next ==
  \/ (\E c \in Call : SendOddAnswer(c)) /\ UNCHANGED <<rows, jobs, origin>>
  \/ /\ Unhurried
     /\ (\E c \in Call : Handler(c) \/ Service(c)) \/ Jobs \/ Time \/ Crash

Spec == Init /\ [][Next]_vars

-----------------------------------------------------------------------------
(* Properties.                                                             *)

\* The tables are well formed, and a stored nonce belongs to a stored user.
TypeOK ==
  /\ user \in [User -> UserRow]
  /\ nonce \in [Nonce -> NonceRow]
  /\ origin \in [Nonce -> Origin]
  /\ call \in [Call -> Request(Op, Stage, User \cup {None}, Email \cup Nonce \cup {None},
                               Nonce \cup {None})]
  /\ cleaner \subseteq Nonce /\ sweep \subseteq User /\ awaited \subseteq sweep
  /\ \A n \in Nonce : nonce[n].row = "stored" => Exists(nonce[n].user)

\* A refresh token is traded for at most one new token, however many requests present it at
\* once (auth.service.ts: refreshAccessToken): the deletion by id picks the winner.
TokenTradedOnce ==
  \A m, n \in Nonce :
    /\ nonce[m].held /\ nonce[n].held
    /\ origin[m].replaces = origin[n].replaces /\ origin[m].replaces # None
    => m = n

\* The tokens that were handed out: whose each is, the login it goes back to, and which work.
Holder == [n \in Nonce |-> IF nonce[n].held THEN nonce[n].user ELSE None]
Session == [n \in Nonce |-> IF nonce[n].held THEN origin[n].session ELSE None]
Working == {n \in Nonce : nonce[n].held /\ nonce[n].row = "stored"}

\* The queries of logins, refreshes, logouts, resets and jobs, crashes in between included,
\* amount to signing in, trading one working token for another in one step, and ending sessions
\* (auth.service.ts, refresh-token-nonces.service.ts).
Book ==
  INSTANCE Sessions WITH
    Token <- Nonce, Owner <- User, owner <- Holder, session <- Session, live <- Working

ImplementsSessions == Book!BookSpec

\* So a login, refreshed by however many requests at once, is worth one working token at a time.
OneWorkingToken == Book!OneTokenPerSession

\* The only sessions stored for which nobody received a token are those of a refresh that found
\* its own token gone, or of a request that broke off: no login, and no refresh of a live token,
\* leaves a session behind that nobody can use or end.
OrphanSessions ==
  \A n \in Nonce :
    /\ nonce[n].row = "stored" /\ ~nonce[n].held
    /\ origin[n].password # "excused" /\ \A c \in Call : call[c].memo # n
    => /\ origin[n].replaces # None
       /\ nonce[origin[n].replaces].row = "deleted"

\* A password reset ends the sessions opened with another password (confirmNewPassword), except
\* those of requests under way at that moment, and if it got no further than its first write.
ResetEndsSessions ==
  \A n \in Nonce :
    nonce[n].row = "stored" /\ origin[n].password = "outdated" =>
      \E c \in Call : At(c, "revoking") /\ call[c].id = nonce[n].user

\* The account job deletes a confirmed account only if its confirmation was already under way when
\* the job read the table: the link in the e-mail expires no later than the account counts as
\* unactivated (jwt.expiresIn.confirmEmail), so no request that comes after the read can confirm an
\* account the job is about to delete (UserNotificationSchedulerService, confirmEmail).
ConfirmedAccountsKept ==
  [][\A u \in User : Exists(u) /\ user[u].isEmailVerified /\ user'[u].row = "deleted"
                      => u \in awaited]_user

\* Answers the controllers do not document whatever happens.
UndocumentedAnswers ==
  {<<"login", "FORBIDDEN">>, <<"findUserOrders", "UNAUTHORIZED">>,
   <<"findUserNotifications", "UNAUTHORIZED">>, <<"findUserNotifications", "FORBIDDEN">>}

\* A request is answered with a status its controller documents, unless it lost a race: its
\* account was deleted, its session ended, or its address was registered after it had checked.
AnswersAsDocumented ==
  \A c \in Call : Odd(c) =>
    \/ call[c].id # None /\ user[call[c].id].row = "deleted"
    \/ call[c].body \in Nonce /\ nonce[call[c].body].row = "deleted"
    \/ call[c].overtaken
    \/ <<call[c].op, call[c].answer>> \in UndocumentedAnswers
=============================================================================
