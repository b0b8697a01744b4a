-------------------------------- MODULE Auth --------------------------------
(***************************************************************************)
(* Accounts, one-time codes and sessions: AuthService, TokenService and    *)
(* OtpService (src/src/modules/auth) and what UsersService changes of the  *)
(* status of an account.                                                   *)
(*                                                                         *)
(* An account is named by its e-mail address, which is unique and which    *)
(* nothing changes; no account is deleted. A code, a session and the pair  *)
(* of tokens of a session are named by the call that issued them, and so   *)
(* is the token that an admin gets for the first half of a login. A code   *)
(* that has expired or was tried too often, an expired token, a failed     *)
(* query and a crash are all Break: the call ends and changes nothing more.*)
(* Mail may fail too, and then the call fails, after all it has written.   *)
(***************************************************************************)
EXTENDS HttpCalls, Sequences, FiniteSetsExt

CONSTANTS
  Emails, Passwords,
  Identities,        \* users of Google and Apple
  LockoutThreshold,  \* LOGIN_LOCKOUT_THRESHOLD
  AccountsBefore,    \* under each load, the accounts there are at first
  FactorsBefore      \* the state of the second factor of each account at first

(* An admin may have the platform role super_admin or not.                 *)
Roles == {"traveler", "agency", "admin", "superAdmin"}
CodeTypes == {"email_verify", "login", "password_reset"}
Accounts == [role : Roles, active : BOOLEAN, verified : BOOLEAN,
             password : Passwords \cup {None}]
Sessions == [user : Emails, revoked : BOOLEAN, parent : Requests \cup {None},
             confirmed : BOOLEAN]
Codes == [email : Emails, type : CodeTypes, code : Requests, used : BOOLEAN]
Factors == {"none", "set", "confirmed"}

ASSUME AuthAssumption ==
  /\ LockoutThreshold \in Nat \ {0}
  /\ DOMAIN AccountsBefore = Loads
  /\ \A l \in Loads : AccountsBefore[l] \in [Emails -> Accounts \cup {None}]
  /\ FactorsBefore \in [Emails -> Factors]
  /\ None \notin Sessions \cup Emails \cup Accounts \cup Requests

(* Calls that anyone may make, and ...                                     *)
PublicCalls ==
  [op : {"register"}, email : Emails, role : {"traveler", "agency"}, password : Passwords]
    \cup [op : {"resend"}, email : Emails, type : CodeTypes]
    \cup [op : {"verifyEmail"}, email : Emails, code : Requests]
    \cup [op : {"login"}, email : Emails, password : Passwords, expected : Roles \cup {None}]
    \cup [op : {"loginCode"}, email : Emails, code : Requests, expected : Roles \cup {None}]
    \cup [op : {"social"}, email : Emails, identity : Identities]
    \cup [op : {"refresh"}, token : Requests]
    \cup [op : {"reset"}, email : Emails, code : Requests, password : Passwords]
    \cup [op : {"adminLogin"}, email : Emails, password : Passwords]
    \cup [op : {"adminTwoFactor"}, pending : Requests]

(* ... those that need an access token, the one of session "by".           *)
BearerCalls ==
  [op : {"logout", "revokeSession"}, by : Requests, token : Requests]
    \cup [op : {"logoutAll", "deactivate"}, by : Requests]
    \cup [op : {"change"}, by : Requests, old : Passwords, password : Passwords]
    \cup [op : {"setStatus"}, by : Requests, email : Emails, active : BOOLEAN]

AuthCalls == PublicCalls \cup BearerCalls

VARIABLES
  accounts,    \* users
  identities,  \* social_identities: the account of each
  twoFactor,   \* admin_two_factor
  codes,       \* otp_codes, in the order of created_at
  cooldowns,   \* Redis: who may not be sent another code yet
  attempts,    \* Redis: failed logins of each account
  locked,      \* Redis: who may not log in
  sessions,    \* refresh_tokens
  blacklist,   \* Redis: the access tokens that were logged out
  who,         \* the account a call is about, once it has found it
  read,        \* the account as it was when the call read it
  picked,      \* the codes a call has read and is about to write
  before       \* history: the sessions that were live when a call to end them came in

people == <<accounts, identities, twoFactor>>
otp == <<codes, cooldowns>>
logins == <<attempts, locked>>
tokens == <<sessions, blacklist>>
locals == <<who, read, picked, before>>
vars == <<calls, people, otp, logins, tokens, locals>>

AuthSteps ==
  {"authenticate", "status", "findUser", "createUser", "cooldown", "invalidate",
   "createCode", "setCooldown", "findCode", "useCode", "markVerified", "lockCheck",
   "credentials", "countFailure", "lock", "clearAttempts", "findIdentity",
   "findByEmail", "createSocialUser", "linkIdentity", "findToken", "revokeToken",
   "createSession", "blacklist", "revokeByValue", "revokeAll", "setPassword",
   "findSession", "setStatus", "checkFactor", "confirmFactor"}

Init ==
  /\ CallsInit
  /\ accounts = AccountsBefore[load]
  /\ identities = [i \in Identities |-> None]
  /\ twoFactor = FactorsBefore
  /\ codes = <<>> /\ cooldowns = {}
  /\ attempts = [e \in Emails |-> 0] /\ locked = {}
  /\ sessions = [r \in Requests |-> None] /\ blacklist = {}
  /\ who = [r \in Requests |-> None] /\ read = [r \in Requests |-> None]
  /\ picked = [r \in Requests |-> {}] /\ before = [r \in Requests |-> {}]

Issued == {x \in Requests : sessions[x] # None}
Live == {x \in Issued : ~sessions[x].revoked}
LiveOf(e) == {x \in Live : sessions[x].user = e}

-----------------------------------------------------------------------------
FirstStep(c) ==
  CASE c \in BearerCalls       -> "authenticate"
    [] c.op = "login"          -> "lockCheck"
    [] c.op = "loginCode"      -> "lockCheck"
    [] c.op = "adminLogin"     -> "credentials"
    [] c.op = "social"         -> "findIdentity"
    [] c.op = "refresh"        -> "findToken"
    [] c.op = "adminTwoFactor" -> "checkFactor"
    [] OTHER                   -> "findUser"

(* The calls after which the sessions of the account have ended.           *)
EndsSessions(c) ==
  c.op \in {"logoutAll", "reset", "deactivate"} \/ (c.op = "setStatus" /\ ~c.active)

(* The calls whose answer, or mail, gave the caller a token or a code.     *)
Given(c) == {c[field] : field \in DOMAIN c \cap {"by", "token", "pending", "code"}}

Receive(r) ==
  /\ Begin(r, AuthCalls) /\ StartAt(r, FirstStep(call'[r]))
  /\ \A x \in Given(call'[r]) : pc[x] \in Answered
  /\ who' = [who EXCEPT ![r] = IF "email" \in DOMAIN call'[r] THEN call'[r].email ELSE None]
  /\ before' = [before EXCEPT ![r] = IF EndsSessions(call'[r]) THEN Live ELSE {}]
  /\ UNCHANGED <<people, otp, logins, tokens, read, picked>>

(* JwtStrategy: the token is not one that was logged out, ...              *)
Authenticate(r) ==
  /\ pc[r] = "authenticate"
  /\ Goto(r, IF call[r].by \in Issued /\ call[r].by \notin blacklist
             THEN "status" ELSE "failed")
  /\ UNCHANGED <<people, otp, logins, tokens, locals>>

(* ... its account is active, and what only an admin may do is done by one *)
(* who has given the second factor.                                        *)
Allowed(account, session, op) ==
  /\ account.active
  /\ op = "setStatus" => account.role = "superAdmin" /\ session.confirmed

AfterStatus(op) ==
  CASE op \in {"logout", "logoutAll"} -> "blacklist"
    [] op = "revokeSession"           -> "findSession"
    [] op = "deactivate"              -> "setStatus"
    [] op = "setStatus"               -> "findUser"
    [] OTHER                          -> "credentials"

CheckStatus(r) ==
  LET session == sessions[call[r].by] IN
  /\ pc[r] = "status"
  /\ IF Allowed(accounts[session.user], session, call[r].op)
     THEN /\ Goto(r, AfterStatus(call[r].op))
          /\ who' = [who EXCEPT ![r] = IF call[r].op = "setStatus" THEN @ ELSE session.user]
     ELSE Goto(r, "failed") /\ UNCHANGED who
  /\ UNCHANGED <<people, otp, logins, tokens, read, picked, before>>

-----------------------------------------------------------------------------
(* The account of an address, in the calls that look for one first.        *)
AfterUser(c, account) ==
  CASE c.op = "register"  -> IF account = None THEN "createUser" ELSE "failed"
    [] c.op = "resend"    -> IF account = None THEN "ok" ELSE "cooldown"
    [] c.op = "setStatus" -> IF account = None THEN "failed" ELSE "setStatus"
    [] OTHER              -> IF account = None THEN "failed" ELSE "findCode"

FindUser(r) ==
  /\ pc[r] = "findUser"
  /\ Goto(r, AfterUser(call[r], accounts[who[r]]))
  /\ read' = [read EXCEPT ![r] = accounts[who[r]]]
  /\ UNCHANGED <<people, otp, logins, tokens, who, picked, before>>

NewAccount(role, password, verified) ==
  [role |-> role, active |-> TRUE, verified |-> verified, password |-> password]

(* createUnverifiedUser; the unique index on the address refuses a second. *)
CreateUser(r) ==
  /\ pc[r] = "createUser"
  /\ IF accounts[who[r]] = None
     THEN /\ accounts' = [accounts EXCEPT ![who[r]] =
                            NewAccount(call[r].role, call[r].password, FALSE)]
          /\ Goto(r, "cooldown")
     ELSE Goto(r, "failed") /\ UNCHANGED accounts
  /\ UNCHANGED <<identities, twoFactor, otp, logins, tokens, locals>>

-----------------------------------------------------------------------------
(* OtpService.issue and verify.                                            *)

TypeOfCode(c) ==
  CASE c.op = "resend"                     -> c.type
    [] c.op \in {"register", "verifyEmail"} -> "email_verify"
    [] c.op = "loginCode"                  -> "login"
    [] OTHER                               -> "password_reset"

(* The codes of an address and type that were not used.                    *)
Unused(e, type) ==
  {i \in DOMAIN codes : codes[i].email = e /\ codes[i].type = type /\ ~codes[i].used}

CheckCooldown(r) ==
  /\ pc[r] = "cooldown"
  /\ Goto(r, IF <<who[r], TypeOfCode(call[r])>> \in cooldowns THEN "failed" ELSE "invalidate")
  /\ UNCHANGED <<people, otp, logins, tokens, locals>>

(* One transaction: the update that uses up earlier codes sees those that  *)
(* are committed when it runs, and its effect shows when it commits.       *)
InvalidateCodes(r) ==
  /\ pc[r] = "invalidate"
  /\ picked' = [picked EXCEPT ![r] = Unused(who[r], TypeOfCode(call[r]))]
  /\ Goto(r, "createCode")
  /\ UNCHANGED <<people, otp, logins, tokens, who, read, before>>

UsedUp(picks) ==
  [i \in DOMAIN codes |-> IF i \in picks THEN [codes[i] EXCEPT !.used = TRUE] ELSE codes[i]]

CreateCode(r) ==
  /\ pc[r] = "createCode"
  /\ codes' = Append(UsedUp(picked[r]),
                     [email |-> who[r], type |-> TypeOfCode(call[r]), code |-> r, used |-> FALSE])
  /\ Goto(r, "setCooldown")
  /\ UNCHANGED <<people, cooldowns, logins, tokens, locals>>

SetCooldown(r) ==
  /\ pc[r] = "setCooldown"
  /\ cooldowns' = cooldowns \cup {<<who[r], TypeOfCode(call[r])>>}
  /\ \E answer \in Answered : Goto(r, answer)
  /\ UNCHANGED <<people, codes, logins, tokens, locals>>

(* The newest unused code counts. A wrong one is counted as an attempt in  *)
(* the transaction that the refusal then rolls back.                       *)
FindCode(r) ==
  LET unused == Unused(who[r], TypeOfCode(call[r])) IN
  /\ pc[r] = "findCode"
  /\ IF unused # {} /\ codes[Max(unused)].code = call[r].code
     THEN picked' = [picked EXCEPT ![r] = {Max(unused)}] /\ Goto(r, "useCode")
     ELSE Goto(r, "failed") /\ UNCHANGED picked
  /\ UNCHANGED <<people, otp, logins, tokens, who, read, before>>

(* A login goes on with the account that was read before the code was.     *)
Admit(c, account) ==
  IF /\ account.active
     /\ c.op \in {"login", "loginCode"} =>
          account.role \notin {"admin", "superAdmin"} /\ c.expected \in {account.role, None}
  THEN "createSession" ELSE "failed"

(* Fault: a code may be used again.                                        *)
UseNoCode(r) ==
  /\ pc[r] = "useCode"
  /\ Goto(r, CASE call[r].op = "verifyEmail" -> "markVerified"
               [] call[r].op = "reset"       -> "setPassword"
               [] OTHER                      -> Admit(call[r], read[r]))
  /\ UNCHANGED <<people, otp, logins, tokens, locals>>

UseCode(r) ==
  /\ pc[r] = "useCode"
  /\ codes' = UsedUp(picked[r])
  /\ Goto(r, CASE call[r].op = "verifyEmail" -> "markVerified"
               [] call[r].op = "reset"       -> "setPassword"
               [] OTHER                      -> Admit(call[r], read[r]))
  /\ UNCHANGED <<people, cooldowns, logins, tokens, locals>>

(* verifyEmail issues a session whatever the status of the account is; a   *)
(* social login goes by the status that the update returns.                *)
MarkVerified(r) ==
  /\ pc[r] = "markVerified"
  /\ accounts' = [accounts EXCEPT ![who[r]].verified = TRUE]
  /\ Goto(r, IF call[r].op = "social" THEN Admit(call[r], accounts[who[r]])
             ELSE "createSession")
  /\ UNCHANGED <<identities, twoFactor, otp, logins, tokens, locals>>

-----------------------------------------------------------------------------
(* AuthService.login and adminLogin.                                       *)

CheckLock(r) ==
  /\ pc[r] = "lockCheck"
  /\ Goto(r, IF who[r] \in locked THEN "failed"
             ELSE IF call[r].op = "login" THEN "credentials" ELSE "findUser")
  /\ UNCHANGED <<people, otp, logins, tokens, locals>>

Offered(c) == IF c.op = "change" THEN c.old ELSE c.password

(* validateCredentials, and the same check in adminLogin and               *)
(* changePassword; only login counts what fails.                           *)
CheckCredentials(r) ==
  LET account == accounts[who[r]]
      valid == account # None /\ account.password = Offered(call[r])
  IN
  /\ pc[r] = "credentials"
  /\ Goto(r, CASE call[r].op = "login"  -> IF valid THEN "clearAttempts" ELSE "countFailure"
               [] call[r].op = "change" -> IF valid THEN "setPassword" ELSE "failed"
               [] OTHER -> IF valid /\ account.role = "superAdmin" /\ account.active
                           THEN "ok" ELSE "failed")
  /\ read' = [read EXCEPT ![r] = account]
  /\ UNCHANGED <<people, otp, logins, tokens, who, picked, before>>

CountFailure(r) ==
  LET n == attempts[who[r]] + 1 IN
  /\ pc[r] = "countFailure"
  /\ attempts' = [attempts EXCEPT ![who[r]] = n]
  /\ Goto(r, IF n >= LockoutThreshold THEN "lock" ELSE "failed")
  /\ UNCHANGED <<people, otp, locked, tokens, locals>>

Lock(r) ==
  /\ pc[r] = "lock"
  /\ locked' = locked \cup {who[r]}
  /\ Goto(r, "failed")
  /\ UNCHANGED <<people, otp, attempts, tokens, locals>>

(* Fault: a login takes back one failed attempt.                           *)
ForgiveOne(r) ==
  /\ pc[r] = "clearAttempts"
  /\ attempts' = [attempts EXCEPT ![who[r]] = @ - 1]
  /\ locked' = locked \ {who[r]}
  /\ Goto(r, Admit(call[r], read[r]))
  /\ UNCHANGED <<people, otp, tokens, locals>>

ClearAttempts(r) ==
  /\ pc[r] = "clearAttempts"
  /\ attempts' = [attempts EXCEPT ![who[r]] = 0]
  /\ locked' = locked \ {who[r]}
  /\ Goto(r, Admit(call[r], read[r]))
  /\ UNCHANGED <<people, otp, tokens, locals>>

(* adminTwoFactor takes the token of adminLogin and the code of an         *)
(* authenticator; it does not look at the status of the account again.     *)
CheckFactor(r) ==
  LET p == call[r].pending IN
  /\ pc[r] = "checkFactor"
  /\ IF pc[p] = "ok" /\ call[p].op = "adminLogin" /\ twoFactor[who[p]] # "none"
     THEN /\ who' = [who EXCEPT ![r] = who[p]]
          /\ Goto(r, IF twoFactor[who[p]] = "set" THEN "confirmFactor" ELSE "createSession")
     ELSE Goto(r, "failed") /\ UNCHANGED who
  /\ UNCHANGED <<people, otp, logins, tokens, read, picked, before>>

ConfirmFactor(r) ==
  /\ pc[r] = "confirmFactor"
  /\ twoFactor' = [twoFactor EXCEPT ![who[r]] = "confirmed"]
  /\ Goto(r, "createSession")
  /\ UNCHANGED <<accounts, identities, otp, logins, tokens, locals>>

-----------------------------------------------------------------------------
(* AuthService.socialLogin: the account of the identity, else the one of   *)
(* the address, to which the identity is then linked, else a new one.      *)

FindIdentity(r) ==
  LET owner == identities[call[r].identity] IN
  /\ pc[r] = "findIdentity"
  /\ IF owner # None
     THEN who' = [who EXCEPT ![r] = owner] /\ Goto(r, Admit(call[r], accounts[owner]))
     ELSE Goto(r, "findByEmail") /\ UNCHANGED who
  /\ UNCHANGED <<people, otp, logins, tokens, read, picked, before>>

(* Fault: accounts of any role are linked.                                 *)
FindAnyByEmail(r) ==
  /\ pc[r] = "findByEmail"
  /\ Goto(r, IF accounts[who[r]] = None THEN "createSocialUser" ELSE "linkIdentity")
  /\ read' = [read EXCEPT ![r] = accounts[who[r]]]
  /\ UNCHANGED <<people, otp, logins, tokens, who, picked, before>>

FindByEmail(r) ==
  LET account == accounts[who[r]] IN
  /\ pc[r] = "findByEmail"
  /\ Goto(r, IF account = None THEN "createSocialUser"
             ELSE IF account.role = "traveler" THEN "linkIdentity" ELSE "failed")
  /\ read' = [read EXCEPT ![r] = account]
  /\ UNCHANGED <<people, otp, logins, tokens, who, picked, before>>

CreateSocialUser(r) ==
  LET account == NewAccount("traveler", None, TRUE) IN
  /\ pc[r] = "createSocialUser"
  /\ IF accounts[who[r]] = None
     THEN /\ accounts' = [accounts EXCEPT ![who[r]] = account]
          /\ read' = [read EXCEPT ![r] = account]
          /\ Goto(r, "linkIdentity")
     ELSE Goto(r, "failed") /\ UNCHANGED <<accounts, read>>
  /\ UNCHANGED <<identities, twoFactor, otp, logins, tokens, who, picked, before>>

(* The unique index on the identity refuses a second link.                 *)
LinkIdentity(r) ==
  LET i == call[r].identity IN
  /\ pc[r] = "linkIdentity"
  /\ IF identities[i] = None
     THEN /\ identities' = [identities EXCEPT ![i] = who[r]]
          /\ Goto(r, IF read[r].verified THEN Admit(call[r], read[r]) ELSE "markVerified")
     ELSE Goto(r, "failed") /\ UNCHANGED identities
  /\ UNCHANGED <<accounts, twoFactor, otp, logins, tokens, locals>>

-----------------------------------------------------------------------------
(* TokenService.                                                           *)

(* rotateRefreshToken: the old session ends before the new one is there.   *)
FindToken(r) ==
  LET x == call[r].token IN
  /\ pc[r] = "findToken"
  /\ IF x \in Live
     THEN who' = [who EXCEPT ![r] = sessions[x].user] /\ Goto(r, "revokeToken")
     ELSE Goto(r, "failed") /\ UNCHANGED who
  /\ UNCHANGED <<people, otp, logins, tokens, read, picked, before>>

Revoked(xs) ==
  [x \in Requests |-> IF x \in xs THEN [sessions[x] EXCEPT !.revoked = TRUE] ELSE sessions[x]]

(* Fault: the rotation leaves the old session as it is.                    *)
KeepToken(r) ==
  /\ pc[r] = "revokeToken"
  /\ Goto(r, IF call[r].op = "refresh" THEN "createSession" ELSE "ok")
  /\ UNCHANGED <<people, otp, logins, tokens, locals>>

(* The update of one session, in a rotation and in revokeSession.          *)
RevokeToken(r) ==
  /\ pc[r] = "revokeToken"
  /\ sessions' = Revoked({call[r].token})
  /\ Goto(r, IF call[r].op = "refresh" THEN "createSession" ELSE "ok")
  /\ UNCHANGED <<people, otp, logins, blacklist, locals>>

(* issueTokenPair. A pair from a rotation does not carry the second factor.*)
CreateSession(r) ==
  /\ pc[r] = "createSession"
  /\ sessions' = [sessions EXCEPT ![r] =
       [user |-> who[r], revoked |-> FALSE,
        parent |-> IF call[r].op = "refresh" THEN call[r].token ELSE None,
        confirmed |-> call[r].op = "adminTwoFactor"]]
  /\ Goto(r, "ok")
  /\ UNCHANGED <<people, otp, logins, blacklist, locals>>

(* logout and logoutAll.                                                   *)
Blacklist(r) ==
  /\ pc[r] = "blacklist"
  /\ blacklist' = blacklist \cup {call[r].by}
  /\ Goto(r, IF call[r].op = "logout" THEN "revokeByValue" ELSE "revokeAll")
  /\ UNCHANGED <<people, otp, logins, sessions, locals>>

RevokeByValue(r) ==
  /\ pc[r] = "revokeByValue"
  /\ sessions' = Revoked({call[r].token} \cap Issued)
  /\ Goto(r, "ok")
  /\ UNCHANGED <<people, otp, logins, blacklist, locals>>

(* Fault: only the sessions that a rotation has issued end.                *)
RevokeRotated(r) ==
  /\ pc[r] = "revokeAll"
  /\ sessions' = Revoked({x \in LiveOf(who[r]) : sessions[x].parent # None})
  /\ Goto(r, "ok")
  /\ UNCHANGED <<people, otp, logins, blacklist, locals>>

(* revokeAllRefreshTokensForUser; resetPassword sends mail after it.       *)
RevokeAll(r) ==
  /\ pc[r] = "revokeAll"
  /\ sessions' = Revoked(LiveOf(who[r]))
  /\ \/ Goto(r, "ok")
     \/ call[r].op = "reset" /\ Goto(r, "failed")
  /\ UNCHANGED <<people, otp, logins, blacklist, locals>>

FindSession(r) ==
  LET x == call[r].token IN
  /\ pc[r] = "findSession"
  /\ Goto(r, IF x \in Issued /\ sessions[x].user = who[r] THEN "revokeToken" ELSE "failed")
  /\ UNCHANGED <<people, otp, logins, tokens, locals>>

-----------------------------------------------------------------------------
(* resetPassword, after which all sessions end, and changePassword, after  *)
(* which none does; both send mail.                                        *)
SetPassword(r) ==
  /\ pc[r] = "setPassword"
  /\ accounts' = [accounts EXCEPT ![who[r]].password = call[r].password]
  /\ IF call[r].op = "reset" THEN Goto(r, "revokeAll")
     ELSE \E answer \in Answered : Goto(r, answer)
  /\ UNCHANGED <<identities, twoFactor, otp, logins, tokens, locals>>

(* UsersService.deactivateAccount and updateAdminUserStatus.               *)
SetStatus(r) ==
  LET active == call[r].op = "setStatus" /\ call[r].active IN
  /\ pc[r] = "setStatus"
  /\ accounts' = [accounts EXCEPT ![who[r]].active = active]
  /\ Goto(r, IF active THEN "ok" ELSE "revokeAll")
  /\ UNCHANGED <<identities, twoFactor, otp, logins, tokens, locals>>

(* The keys in Redis expire.                                               *)
Expire(e) ==
  /\ \/ /\ \E type \in CodeTypes : <<e, type>> \in cooldowns
                                  /\ cooldowns' = cooldowns \ {<<e, type>>}
        /\ UNCHANGED logins
     \/ /\ attempts[e] # 0 /\ attempts' = [attempts EXCEPT ![e] = 0]
        /\ UNCHANGED <<cooldowns, locked>>
     \/ /\ e \in locked /\ locked' = locked \ {e}
        /\ UNCHANGED <<cooldowns, attempts>>
  /\ UNCHANGED <<calls, people, codes, tokens, locals>>

Fail(r) == Break(r) /\ UNCHANGED <<people, otp, logins, tokens, locals>>

Step(r) ==
  \/ Receive(r) \/ Authenticate(r) \/ CheckStatus(r) \/ FindUser(r) \/ CreateUser(r)
  \/ CheckCooldown(r) \/ InvalidateCodes(r) \/ CreateCode(r) \/ SetCooldown(r)
  \/ FindCode(r) \/ UseCode(r) \/ MarkVerified(r)
  \/ CheckLock(r) \/ CheckCredentials(r) \/ CountFailure(r) \/ Lock(r) \/ ClearAttempts(r)
  \/ CheckFactor(r) \/ ConfirmFactor(r)
  \/ FindIdentity(r) \/ FindByEmail(r) \/ CreateSocialUser(r) \/ LinkIdentity(r)
  \/ FindToken(r) \/ RevokeToken(r) \/ CreateSession(r) \/ Blacklist(r)
  \/ RevokeByValue(r) \/ RevokeAll(r) \/ FindSession(r) \/ SetPassword(r) \/ SetStatus(r)

Done == AllAnswered /\ UNCHANGED vars

Next == (\E r \in Requests : Step(r) \/ Fail(r)) \/ (\E e \in Emails : Expire(e)) \/ Done

Spec == Init /\ [][Next]_vars
=============================================================================
