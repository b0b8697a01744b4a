----------------------------- MODULE AuthProofs -----------------------------
(***************************************************************************)
(* Proofs about Auth, for any number of accounts, calls and loads: the     *)
(* invariant that tells what a call may rely on when it writes a session,  *)
(* and that sessions implement SessionLifecycle.                           *)
(***************************************************************************)
EXTENDS AuthProperties, Overlaps, ProofLemmas

(* What the proofs ask of the types of the variables.                      *)
Shape ==
  /\ pc \in [Requests -> {"idle"} \cup Answered \cup AuthSteps]
  /\ call \in [Requests -> AuthCalls \cup {None}]
  /\ sessions \in [Requests -> Sessions \cup {None}]
  /\ identities \in [Identities -> Emails \cup {None}]
  /\ who \in [Requests -> Emails \cup {None}]

(* The steps at which a call has not yet found whom it is about.           *)
Nameless == {"idle", "authenticate", "status", "findToken", "checkFactor", "failed"}

(* What a call may rely on at its step. *)
Knows(r) ==
  /\ pc[r] \notin Nameless => who[r] \in Emails
  /\ pc[r] # "idle" => call[r] \in AuthCalls
  /\ pc[r] \in {"authenticate", "status"} /\ call[r].op = "setStatus" => who[r] \in Emails
  /\ pc[r] \notin Answered => sessions[r] = None
  /\ pc[r] # "idle" /\ call[r].op = "refresh" =>
       pc[r] \in {"findToken", "revokeToken", "createSession"} \cup Answered
  /\ pc[r] = "findToken" => call[r].op = "refresh"
  /\ pc[r] = "checkFactor" => call[r].op = "adminTwoFactor"
  /\ pc[r] = "findIdentity" => call[r].op = "social"
  /\ pc[r] = "status" => call[r].by \in Issued
  /\ pc[r] = "revokeToken" =>
       /\ call[r].token \in Issued
       /\ sessions[call[r].token].user = who[r]
  /\ pc[r] = "createSession" /\ call[r].op = "refresh" =>
       /\ call[r].token \in Issued
       /\ sessions[call[r].token].revoked
       /\ sessions[call[r].token].user = who[r]

IInv == Shape /\ \A r \in Requests : Knows(r)

-----------------------------------------------------------------------------
(* No step takes a session away, gives it to another account, or revives   *)
(* it.                                                                     *)
Kept ==
  \A x \in Issued :
    /\ sessions'[x] # None
    /\ sessions'[x].user = sessions[x].user
    /\ sessions[x].revoked => sessions'[x].revoked

(* What a step of a call leaves alone of the others. *)
Alone(r) ==
  \A o \in Requests \ {r} :
    /\ pc'[o] = pc[o] /\ call'[o] = call[o] /\ who'[o] = who[o]
    /\ sessions[o] = None => sessions'[o] = None

(* The calls have the fields that the steps read.                          *)
LEMMA Fields ==
  ASSUME NEW c \in AuthCalls
  PROVE  /\ c.op \in {"login", "register", "resend", "verifyEmail", "loginCode", "reset",
                      "adminLogin", "social"} => "email" \in DOMAIN c /\ c.email \in Emails
         /\ c.op = "setStatus" => "email" \in DOMAIN c /\ c.email \in Emails
         /\ c.op = "refresh" => c.token \in Requests
         /\ c.op \in {"logout", "revokeSession"} => c.token \in Requests
         /\ c.op = "adminTwoFactor" => c.pending \in Requests
         /\ c.op = "social" => c.identity \in Identities
         /\ "email" \in DOMAIN c => c.email \in Emails
         /\ c \in BearerCalls <=> c.op \in {"logout", "revokeSession", "logoutAll", "deactivate",
                                            "change", "setStatus"}
         /\ c.op \in {"login", "register", "resend", "verifyEmail", "loginCode", "reset",
                      "adminLogin", "social", "refresh", "adminTwoFactor", "logout",
                      "revokeSession", "logoutAll", "deactivate", "change", "setStatus"}
<1>1. CASE c \in PublicCalls
  BY <1>1 DEF PublicCalls, BearerCalls
<1>2. CASE c \in BearerCalls
  BY <1>2 DEF BearerCalls
<1> QED
  BY <1>1, <1>2 DEF AuthCalls

(* A call that arrives.                                                    *)
LEMMA ReceiveStep ==
  ASSUME IInv, NEW r \in Requests, Receive(r)
  PROVE  Shape' /\ Kept /\ Alone(r) /\ Knows(r)'
<1>1. PICK c \in AuthCalls : call' = [call EXCEPT ![r] = c]
  BY DEF Receive, Begin
<1>2. pc[r] = "idle" /\ UNCHANGED <<sessions, identities>>
  BY DEF Receive, Begin, people, tokens
<1>3. call'[r] = c
  BY <1>1 DEF IInv, Shape
<1>4. pc' = [pc EXCEPT ![r] = FirstStep(c)]
  BY <1>3 DEF Receive, StartAt
<1>5. who' = [who EXCEPT ![r] = IF "email" \in DOMAIN c THEN c.email ELSE None]
  BY <1>3 DEF Receive
<1>6. /\ FirstStep(c) \in AuthSteps \ {"revokeToken", "createSession", "status"}
      /\ c.op = "refresh" <=> FirstStep(c) = "findToken"
      /\ c.op = "setStatus" => FirstStep(c) = "authenticate"
      /\ FirstStep(c) = "checkFactor" => c.op = "adminTwoFactor"
      /\ FirstStep(c) = "findIdentity" => c.op = "social"
      /\ FirstStep(c) \notin Nameless => "email" \in DOMAIN c
  BY Fields DEF FirstStep, AuthSteps, Nameless
<1>7. "email" \in DOMAIN c => c.email \in Emails
  BY Fields
<1>8. Shape'
  BY <1>1, <1>2, <1>4, <1>5, <1>6, <1>7 DEF IInv, Shape
<1>9. Knows(r)'
  BY <1>1, <1>2, <1>3, <1>4, <1>5, <1>6, <1>7, Fields DEF IInv, Shape, Knows, Answered,
     AuthSteps
<1> QED
  BY <1>1, <1>2, <1>4, <1>5, <1>8, <1>9 DEF Kept, Alone, IInv, Shape, Issued

(* Where a login or a verification goes.                                   *)
LEMMA Admits ==
  ASSUME NEW c, NEW account
  PROVE  Admit(c, account) \in {"createSession", "failed"}
  BY DEF Admit

(* The steps that write no session and find nobody.                        *)
LEMMA QuietStep ==
  ASSUME IInv, NEW r \in Requests, UNCHANGED <<sessions, identities, who>>,
         NEW step \in AuthSteps \cup Answered, Goto(r, step),
         pc[r] \in AuthSteps \ {"findToken", "revokeToken", "createSession",
                               "authenticate", "status"},
         pc[r] \in Nameless => step \in Nameless,
         step \notin {"findToken", "revokeToken", "authenticate", "status", "checkFactor",
                      "findIdentity"}
  PROVE  Shape' /\ Kept /\ Alone(r) /\ Knows(r)'
<1>1. Shape'
  BY DEF IInv, Shape, Goto
<1>2. Kept /\ Alone(r)
  BY DEF IInv, Shape, Goto, Kept, Alone, Issued
<1>3. Knows(r)'
  BY DEF IInv, Shape, Goto, Knows, Issued, Nameless, AuthSteps, Answered
<1> QED
  BY <1>1, <1>2, <1>3

Exits ==
  (AuthSteps \cup Answered) \ {"findToken", "revokeToken", "authenticate", "status",
                               "checkFactor", "findIdentity"}

(* One-time codes.                                                         *)
LEMMA CodeSteps ==
  ASSUME IInv, NEW r \in Requests,
         \/ FindUser(r) \/ CreateUser(r) \/ CheckCooldown(r) \/ InvalidateCodes(r)
         \/ CreateCode(r) \/ SetCooldown(r) \/ FindCode(r) \/ UseCode(r) \/ MarkVerified(r)
  PROVE  Shape' /\ Kept /\ Alone(r) /\ Knows(r)'
<1> USE DEF Goto, IInv, Shape, Exits, AuthSteps, Answered
<1>1. CASE FindUser(r)
  <2>1. UNCHANGED <<sessions, identities, who>> /\ pc[r] = "findUser"
    BY <1>1 DEF FindUser, people, tokens, locals
  <2>2. Goto(r, pc'[r]) /\ pc'[r] \in Exits
    BY <1>1, Admits DEF FindUser, AfterUser
  <2> QED
    BY <2>1, <2>2, QuietStep DEF Nameless
<1>2. CASE CreateUser(r)
  <2>1. UNCHANGED <<sessions, identities, who>> /\ pc[r] = "createUser"
    BY <1>2 DEF CreateUser, people, tokens, locals
  <2>2. Goto(r, pc'[r]) /\ pc'[r] \in Exits
    BY <1>2, Admits DEF CreateUser
  <2> QED
    BY <2>1, <2>2, QuietStep DEF Nameless
<1>3. CASE CheckCooldown(r)
  <2>1. UNCHANGED <<sessions, identities, who>> /\ pc[r] = "cooldown"
    BY <1>3 DEF CheckCooldown, people, tokens, locals
  <2>2. Goto(r, pc'[r]) /\ pc'[r] \in Exits
    BY <1>3, Admits DEF CheckCooldown
  <2> QED
    BY <2>1, <2>2, QuietStep DEF Nameless
<1>4. CASE InvalidateCodes(r)
  <2>1. UNCHANGED <<sessions, identities, who>> /\ pc[r] = "invalidate"
    BY <1>4 DEF InvalidateCodes, people, tokens, locals
  <2>2. Goto(r, pc'[r]) /\ pc'[r] \in Exits
    BY <1>4, Admits DEF InvalidateCodes
  <2> QED
    BY <2>1, <2>2, QuietStep DEF Nameless
<1>5. CASE CreateCode(r)
  <2>1. UNCHANGED <<sessions, identities, who>> /\ pc[r] = "createCode"
    BY <1>5 DEF CreateCode, people, tokens, locals
  <2>2. Goto(r, pc'[r]) /\ pc'[r] \in Exits
    BY <1>5, Admits DEF CreateCode
  <2> QED
    BY <2>1, <2>2, QuietStep DEF Nameless
<1>6. CASE SetCooldown(r)
  <2>1. UNCHANGED <<sessions, identities, who>> /\ pc[r] = "setCooldown"
    BY <1>6 DEF SetCooldown, people, tokens, locals
  <2>2. Goto(r, pc'[r]) /\ pc'[r] \in Exits
    BY <1>6, Admits DEF SetCooldown
  <2> QED
    BY <2>1, <2>2, QuietStep DEF Nameless
<1>7. CASE FindCode(r)
  <2>1. UNCHANGED <<sessions, identities, who>> /\ pc[r] = "findCode"
    BY <1>7 DEF FindCode, people, tokens, locals
  <2>2. Goto(r, pc'[r]) /\ pc'[r] \in Exits
    BY <1>7, Admits DEF FindCode
  <2> QED
    BY <2>1, <2>2, QuietStep DEF Nameless
<1>8. CASE UseCode(r)
  <2>1. UNCHANGED <<sessions, identities, who>> /\ pc[r] = "useCode"
    BY <1>8 DEF UseCode, people, tokens, locals
  <2>2. Goto(r, pc'[r]) /\ pc'[r] \in Exits
    BY <1>8, Admits DEF UseCode
  <2> QED
    BY <2>1, <2>2, QuietStep DEF Nameless
<1>9. CASE MarkVerified(r)
  <2>1. UNCHANGED <<sessions, identities, who>> /\ pc[r] = "markVerified"
    BY <1>9 DEF MarkVerified, people, tokens, locals
  <2>2. Goto(r, pc'[r]) /\ pc'[r] \in Exits
    BY <1>9, Admits DEF MarkVerified
  <2> QED
    BY <2>1, <2>2, QuietStep DEF Nameless
<1> QED
  BY <1>1, <1>2, <1>3, <1>4, <1>5, <1>6, <1>7, <1>8, <1>9

(* Logins, passwords and the status of an account.                         *)
LEMMA LoginSteps ==
  ASSUME IInv, NEW r \in Requests,
         \/ CheckLock(r) \/ CheckCredentials(r) \/ CountFailure(r) \/ Lock(r)
         \/ ClearAttempts(r) \/ ConfirmFactor(r) \/ FindByEmail(r) \/ CreateSocialUser(r)
         \/ SetPassword(r) \/ SetStatus(r) \/ Blacklist(r)
  PROVE  Shape' /\ Kept /\ Alone(r) /\ Knows(r)'
<1> USE DEF Goto, IInv, Shape, Exits, AuthSteps, Answered
<1>1. CASE CheckLock(r)
  <2>1. UNCHANGED <<sessions, identities, who>> /\ pc[r] = "lockCheck"
    BY <1>1 DEF CheckLock, people, tokens, locals
  <2>2. Goto(r, pc'[r]) /\ pc'[r] \in Exits
    BY <1>1, Admits DEF CheckLock
  <2> QED
    BY <2>1, <2>2, QuietStep DEF Nameless
<1>2. CASE CheckCredentials(r)
  <2>1. UNCHANGED <<sessions, identities, who>> /\ pc[r] = "credentials"
    BY <1>2 DEF CheckCredentials, people, tokens, locals
  <2>2. Goto(r, pc'[r]) /\ pc'[r] \in Exits
    BY <1>2, Admits DEF CheckCredentials
  <2> QED
    BY <2>1, <2>2, QuietStep DEF Nameless
<1>3. CASE CountFailure(r)
  <2>1. UNCHANGED <<sessions, identities, who>> /\ pc[r] = "countFailure"
    BY <1>3 DEF CountFailure, people, tokens, locals
  <2>2. Goto(r, pc'[r]) /\ pc'[r] \in Exits
    BY <1>3, Admits DEF CountFailure
  <2> QED
    BY <2>1, <2>2, QuietStep DEF Nameless
<1>4. CASE Lock(r)
  <2>1. UNCHANGED <<sessions, identities, who>> /\ pc[r] = "lock"
    BY <1>4 DEF Lock, people, tokens, locals
  <2>2. Goto(r, pc'[r]) /\ pc'[r] \in Exits
    BY <1>4, Admits DEF Lock
  <2> QED
    BY <2>1, <2>2, QuietStep DEF Nameless
<1>5. CASE ClearAttempts(r)
  <2>1. UNCHANGED <<sessions, identities, who>> /\ pc[r] = "clearAttempts"
    BY <1>5 DEF ClearAttempts, people, tokens, locals
  <2>2. Goto(r, pc'[r]) /\ pc'[r] \in Exits
    BY <1>5, Admits DEF ClearAttempts
  <2> QED
    BY <2>1, <2>2, QuietStep DEF Nameless
<1>6. CASE ConfirmFactor(r)
  <2>1. UNCHANGED <<sessions, identities, who>> /\ pc[r] = "confirmFactor"
    BY <1>6 DEF ConfirmFactor, people, tokens, locals
  <2>2. Goto(r, pc'[r]) /\ pc'[r] \in Exits
    BY <1>6, Admits DEF ConfirmFactor
  <2> QED
    BY <2>1, <2>2, QuietStep DEF Nameless
<1>7. CASE FindByEmail(r)
  <2>1. UNCHANGED <<sessions, identities, who>> /\ pc[r] = "findByEmail"
    BY <1>7 DEF FindByEmail, people, tokens, locals
  <2>2. Goto(r, pc'[r]) /\ pc'[r] \in Exits
    BY <1>7, Admits DEF FindByEmail
  <2> QED
    BY <2>1, <2>2, QuietStep DEF Nameless
<1>8. CASE CreateSocialUser(r)
  <2>1. UNCHANGED <<sessions, identities, who>> /\ pc[r] = "createSocialUser"
    BY <1>8 DEF CreateSocialUser, people, tokens, locals
  <2>2. Goto(r, pc'[r]) /\ pc'[r] \in Exits
    BY <1>8, Admits DEF CreateSocialUser
  <2> QED
    BY <2>1, <2>2, QuietStep DEF Nameless
<1>9. CASE SetPassword(r)
  <2>1. UNCHANGED <<sessions, identities, who>> /\ pc[r] = "setPassword"
    BY <1>9 DEF SetPassword, people, tokens, locals
  <2>2. Goto(r, pc'[r]) /\ pc'[r] \in Exits
    BY <1>9, Admits DEF SetPassword
  <2> QED
    BY <2>1, <2>2, QuietStep DEF Nameless
<1>10. CASE SetStatus(r)
  <2>1. UNCHANGED <<sessions, identities, who>> /\ pc[r] = "setStatus"
    BY <1>10 DEF SetStatus, people, tokens, locals
  <2>2. Goto(r, pc'[r]) /\ pc'[r] \in Exits
    BY <1>10, Admits DEF SetStatus
  <2> QED
    BY <2>1, <2>2, QuietStep DEF Nameless
<1>11. CASE Blacklist(r)
  <2>1. UNCHANGED <<sessions, identities, who>> /\ pc[r] = "blacklist"
    BY <1>11 DEF Blacklist, people, tokens, locals
  <2>2. Goto(r, pc'[r]) /\ pc'[r] \in Exits
    BY <1>11, Admits DEF Blacklist
  <2> QED
    BY <2>1, <2>2, QuietStep DEF Nameless
<1> QED
  BY <1>1, <1>2, <1>3, <1>4, <1>5, <1>6, <1>7, <1>8, <1>9, <1>10, <1>11

(* The steps that find out whom a call is about.                           *)
LEMMA FindingSteps ==
  ASSUME IInv, NEW r \in Requests,
         \/ Authenticate(r) \/ CheckStatus(r) \/ CheckFactor(r) \/ FindIdentity(r)
         \/ LinkIdentity(r) \/ FindToken(r) \/ FindSession(r)
  PROVE  Shape' /\ Kept /\ Alone(r) /\ Knows(r)'
<1> USE DEF Goto, IInv, Shape, people, tokens, locals
<1>a. sessions' = sessions /\ call' = call
  BY DEF Authenticate, CheckStatus, CheckFactor, FindIdentity, LinkIdentity, FindToken,
     FindSession
<1>b. Kept
  BY <1>a DEF Kept, Issued
<1>c. Issued' = Issued
  BY <1>a DEF Issued
<1>d. \A x \in Issued : sessions[x].user \in Emails
  BY DEF Issued, Sessions
<1>1. CASE Authenticate(r)
  <2>1. UNCHANGED <<identities, who>> /\ pc[r] = "authenticate"
    BY <1>1 DEF Authenticate
  <2>2. /\ pc' = [pc EXCEPT ![r] = pc'[r]] /\ pc'[r] \in {"status", "failed"}
        /\ pc'[r] = "status" => call[r].by \in Issued
    BY <1>1 DEF Authenticate
  <2>3. Shape' /\ Alone(r)
    BY <1>a, <2>1, <2>2 DEF AuthSteps, Answered, Alone
  <2>4. Knows(r)'
    BY <1>a, <1>c, <2>1, <2>2 DEF Knows, Nameless, Answered
  <2> QED
    BY <1>b, <2>3, <2>4
<1>2. CASE CheckStatus(r)
  <2>1. UNCHANGED identities /\ pc[r] = "status"
    BY <1>2 DEF CheckStatus
  <2>2. call[r].by \in Issued /\ sessions[call[r].by].user \in Emails
    BY <1>d, <2>1 DEF Knows
  <2>3. /\ pc' = [pc EXCEPT ![r] = pc'[r]]
        /\ pc'[r] \in {"blacklist", "findSession", "setStatus", "findUser", "credentials",
                       "failed"}
    BY <1>2 DEF CheckStatus, AfterStatus
  <2>4. /\ who' = [who EXCEPT ![r] = who'[r]] /\ who'[r] \in Emails \cup {None}
        /\ pc'[r] # "failed" => who'[r] \in Emails
    BY <1>2, <2>2, <2>1 DEF CheckStatus, Knows, Allowed
  <2>5. Shape' /\ Alone(r)
    BY <1>a, <2>1, <2>3, <2>4 DEF AuthSteps, Answered, Alone
  <2>6. call[r].op # "refresh" /\ sessions[r] = None /\ call[r] \in AuthCalls
    BY <2>1 DEF Knows, Answered
  <2>7. Knows(r)'
    BY <1>a, <2>1, <2>3, <2>4, <2>6 DEF Knows, Nameless, Answered
  <2> QED
    BY <1>b, <2>5, <2>7
<1>3. CASE CheckFactor(r)
  <2>1. UNCHANGED identities /\ pc[r] = "checkFactor"
    BY <1>3 DEF CheckFactor
  <2>2. /\ call[r].op # "refresh" /\ sessions[r] = None /\ call[r] \in AuthCalls
        /\ call[r].pending \in Requests
    BY <2>1, Fields DEF Knows, Answered
  <2>3. pc[call[r].pending] = "ok" => who[call[r].pending] \in Emails
    BY <2>2 DEF Knows, Nameless
  <2>4. /\ pc' = [pc EXCEPT ![r] = pc'[r]]
        /\ pc'[r] \in {"confirmFactor", "createSession", "failed"}
    BY <1>3 DEF CheckFactor
  <2>5. /\ who' = [who EXCEPT ![r] = who'[r]] /\ who'[r] \in Emails \cup {None}
        /\ pc'[r] # "failed" => who'[r] \in Emails
    BY <1>3, <2>3 DEF CheckFactor
  <2>6. Shape' /\ Alone(r)
    BY <1>a, <2>1, <2>4, <2>5 DEF AuthSteps, Answered, Alone
  <2>7. Knows(r)'
    BY <1>a, <2>1, <2>2, <2>4, <2>5 DEF Knows, Nameless, Answered
  <2> QED
    BY <1>b, <2>6, <2>7
<1>4. CASE FindIdentity(r)
  <2>1. UNCHANGED identities /\ pc[r] = "findIdentity"
    BY <1>4 DEF FindIdentity
  <2>2. /\ call[r].op # "refresh" /\ sessions[r] = None /\ call[r] \in AuthCalls
        /\ call[r].identity \in Identities /\ who[r] \in Emails
    BY <2>1, Fields DEF Knows, Answered, Nameless
  <2>3. /\ pc' = [pc EXCEPT ![r] = pc'[r]]
        /\ pc'[r] \in {"findByEmail", "createSession", "failed"}
    BY <1>4, Admits DEF FindIdentity
  <2>4. who' = [who EXCEPT ![r] = who'[r]] /\ who'[r] \in Emails
    BY <1>4, <2>2 DEF FindIdentity
  <2>5. Shape' /\ Alone(r)
    BY <1>a, <2>1, <2>3, <2>4 DEF AuthSteps, Answered, Alone
  <2>6. Knows(r)'
    BY <1>a, <2>1, <2>2, <2>3, <2>4 DEF Knows, Nameless, Answered
  <2> QED
    BY <1>b, <2>5, <2>6
<1>5. CASE LinkIdentity(r)
  <2>1. UNCHANGED who /\ pc[r] = "linkIdentity"
    BY <1>5 DEF LinkIdentity
  <2>2. /\ call[r].op # "refresh" /\ sessions[r] = None /\ call[r] \in AuthCalls
        /\ who[r] \in Emails
    BY <2>1 DEF Knows, Answered, Nameless
  <2>3. /\ pc' = [pc EXCEPT ![r] = pc'[r]]
        /\ pc'[r] \in {"markVerified", "createSession", "failed"}
    BY <1>5, Admits DEF LinkIdentity
  <2>4. identities' \in [Identities -> Emails \cup {None}]
    BY <1>5, <2>2 DEF LinkIdentity
  <2>5. Shape' /\ Alone(r)
    BY <1>a, <2>1, <2>3, <2>4 DEF AuthSteps, Answered, Alone
  <2>6. Knows(r)'
    BY <1>a, <2>1, <2>2, <2>3 DEF Knows, Nameless, Answered
  <2> QED
    BY <1>b, <2>5, <2>6
<1>6. CASE FindToken(r)
  <2>1. UNCHANGED identities /\ pc[r] = "findToken"
    BY <1>6 DEF FindToken
  <2>2. call[r].op = "refresh" /\ sessions[r] = None /\ call[r] \in AuthCalls
    BY <2>1 DEF Knows, Answered
  <2>3. /\ pc' = [pc EXCEPT ![r] = pc'[r]] /\ pc'[r] \in {"revokeToken", "failed"}
        /\ pc'[r] = "revokeToken" => /\ call[r].token \in Issued
                                     /\ who'[r] = sessions[call[r].token].user
    BY <1>6 DEF FindToken, Live
  <2>4. who' = [who EXCEPT ![r] = who'[r]] /\ who'[r] \in Emails \cup {None}
    BY <1>6, <1>d DEF FindToken, Live
  <2>5. Shape' /\ Alone(r)
    BY <1>a, <2>1, <2>3, <2>4 DEF AuthSteps, Answered, Alone
  <2>6. pc'[r] = "revokeToken" => who'[r] \in Emails
    BY <1>d, <2>3
  <2>7. Knows(r)'
    BY <1>a, <1>c, <2>1, <2>2, <2>3, <2>6 DEF Knows, Nameless, Answered
  <2> QED
    BY <1>b, <2>5, <2>7
<1>7. CASE FindSession(r)
  <2>1. UNCHANGED <<identities, who>> /\ pc[r] = "findSession"
    BY <1>7 DEF FindSession
  <2>2. /\ call[r].op # "refresh" /\ sessions[r] = None /\ call[r] \in AuthCalls
        /\ who[r] \in Emails
    BY <2>1 DEF Knows, Answered, Nameless
  <2>3. /\ pc' = [pc EXCEPT ![r] = pc'[r]] /\ pc'[r] \in {"revokeToken", "failed"}
        /\ pc'[r] = "revokeToken" => /\ call[r].token \in Issued
                                     /\ who[r] = sessions[call[r].token].user
    BY <1>7 DEF FindSession
  <2>4. Shape' /\ Alone(r)
    BY <1>a, <2>1, <2>3 DEF AuthSteps, Answered, Alone
  <2>5. Knows(r)'
    BY <1>a, <1>c, <2>1, <2>2, <2>3 DEF Knows, Nameless, Answered
  <2> QED
    BY <1>b, <2>4, <2>5
<1> QED
  BY <1>1, <1>2, <1>3, <1>4, <1>5, <1>6, <1>7

-----------------------------------------------------------------------------
(* Rows that an update ends are the rows they were, but for that.          *)
LEMMA Ended ==
  ASSUME Shape, NEW xs \in SUBSET Issued, sessions' = Revoked(xs)
  PROVE  /\ sessions' \in [Requests -> Sessions \cup {None}]
         /\ Kept
         /\ \A x \in Requests : sessions[x] = None => sessions'[x] = None
         /\ \A x \in xs : sessions'[x].revoked
         /\ \A x \in Requests \ xs : sessions'[x] = sessions[x]
<1>1. \A x \in xs : /\ x \in Requests /\ sessions[x] \in Sessions
                    /\ sessions'[x] = [sessions[x] EXCEPT !.revoked = TRUE]
  BY DEF Shape, Revoked, Issued
<1>2. \A x \in Requests \ xs : sessions'[x] = sessions[x]
  BY DEF Revoked
<1>3. \A x \in xs : /\ sessions'[x] \in Sessions /\ sessions'[x].revoked
                    /\ sessions'[x].user = sessions[x].user
  BY <1>1 DEF Sessions
<1>4. \A x \in xs : sessions'[x] # None
  BY <1>3, AuthAssumption
<1>5. sessions' \in [Requests -> Sessions \cup {None}]
  BY <1>2, <1>3 DEF Shape, Revoked
<1>6. Kept
  BY <1>2, <1>3, <1>4 DEF Kept, Issued
<1> QED
  BY <1>2, <1>3, <1>5, <1>6 DEF Issued

(* The steps that write sessions.                                          *)
LEMMA SessionSteps ==
  ASSUME IInv, NEW r \in Requests,
         RevokeToken(r) \/ CreateSession(r) \/ RevokeByValue(r) \/ RevokeAll(r)
  PROVE  Shape' /\ Kept /\ Alone(r) /\ Knows(r)'
<1> USE DEF Goto, people, locals
<1>a. UNCHANGED <<call, who, identities>>
  BY DEF RevokeToken, CreateSession, RevokeByValue, RevokeAll
<1>b. Shape /\ Knows(r)
  BY DEF IInv
<1>1. CASE RevokeToken(r)
  <2>1. /\ call[r].token \in Issued /\ sessions[call[r].token].user = who[r]
        /\ who[r] \in Emails /\ call[r] \in AuthCalls /\ sessions[r] = None
        /\ pc[r] = "revokeToken"
    BY <1>1, <1>b DEF RevokeToken, Knows, Nameless, Answered
  <2>2. sessions' = Revoked({call[r].token})
    BY <1>1 DEF RevokeToken
  <2>3. pc' = [pc EXCEPT ![r] = IF call[r].op = "refresh" THEN "createSession" ELSE "ok"]
    BY <1>1 DEF RevokeToken
  <2>4. Shape' /\ Alone(r) /\ Kept
    BY <1>a, <1>b, <2>1, <2>2, <2>3, Ended DEF Shape, Alone, AuthSteps, Answered
  <2>5. /\ call[r].token \in Issued' /\ sessions'[call[r].token].revoked
        /\ sessions'[call[r].token].user = who[r]
    <3>1. /\ sessions'[call[r].token] # None
          /\ sessions'[call[r].token].user = sessions[call[r].token].user
      BY <2>1, <2>4 DEF Kept
    <3>2. {call[r].token} \in SUBSET Issued
      BY <2>1
    <3>3. sessions'[call[r].token].revoked
      BY <1>b, <2>2, <3>2, Ended
    <3> QED
      BY <2>1, <3>1, <3>3 DEF Issued
  <2>6. sessions'[r] = None
    BY <1>b, <2>1, <2>2, Ended
  <2>7. Knows(r)'
    BY <1>a, <1>b, <2>1, <2>3, <2>5, <2>6 DEF Knows, Nameless, Answered, Shape
  <2> QED
    BY <2>4, <2>7
<1>2. CASE CreateSession(r)
  <2>1. /\ who[r] \in Emails /\ call[r] \in AuthCalls /\ sessions[r] = None
        /\ pc[r] = "createSession"
        /\ call[r].op = "refresh" => call[r].token \in Requests
    BY <1>2, <1>b, Fields DEF CreateSession, Knows, Nameless, Answered
  <2> DEFINE row == [user |-> who[r], revoked |-> FALSE,
                     parent |-> IF call[r].op = "refresh" THEN call[r].token ELSE None,
                     confirmed |-> call[r].op = "adminTwoFactor"]
  <2>2. sessions' = [sessions EXCEPT ![r] = row]
    BY <1>2 DEF CreateSession
  <2>a. row \in Sessions
    BY <2>1 DEF Sessions
  <2> HIDE DEF row
  <2>3. pc' = [pc EXCEPT ![r] = "ok"]
    BY <1>2 DEF CreateSession
  <2>4. Shape' /\ Alone(r) /\ Kept
    BY <1>a, <1>b, <2>1, <2>2, <2>a, <2>3 DEF Shape, Alone, Kept, Issued, AuthSteps,
       Answered
  <2>5. Knows(r)'
    BY <1>a, <1>b, <2>1, <2>3 DEF Knows, Nameless, Answered, Shape
  <2> QED
    BY <2>4, <2>5
<1>3. CASE RevokeByValue(r)
  <2>1. pc[r] = "revokeByValue" /\ pc' = [pc EXCEPT ![r] = "ok"]
    BY <1>3 DEF RevokeByValue
  <2>2. PICK xs \in SUBSET Issued : sessions' = Revoked(xs)
    BY <1>3 DEF RevokeByValue
  <2>3. Shape' /\ Alone(r) /\ Kept
    BY <1>a, <1>b, <2>1, <2>2, Ended DEF Shape, Alone, AuthSteps, Answered
  <2>4. Knows(r)'
    BY <1>a, <1>b, <2>1 DEF Knows, Nameless, Answered, Shape
  <2> QED
    BY <2>3, <2>4
<1>4. CASE RevokeAll(r)
  <2>1. /\ pc[r] = "revokeAll" /\ pc' = [pc EXCEPT ![r] = pc'[r]]
        /\ pc'[r] \in Answered
    BY <1>4, <1>b DEF RevokeAll, Answered, Shape
  <2>2. PICK xs \in SUBSET Issued : sessions' = Revoked(xs)
    BY <1>4 DEF RevokeAll, LiveOf, Live
  <2>3. Shape' /\ Alone(r) /\ Kept
    BY <1>a, <1>b, <2>1, <2>2, Ended DEF Shape, Alone
  <2>4. Knows(r)'
    BY <1>a, <1>b, <2>1 DEF Knows, Nameless, Answered, Shape
  <2> QED
    BY <2>3, <2>4
<1> QED
  BY <1>1, <1>2, <1>3, <1>4

(* A call that breaks off.                                                 *)
LEMMA FailStep ==
  ASSUME IInv, NEW r \in Requests, Fail(r)
  PROVE  Shape' /\ Kept /\ Alone(r) /\ Knows(r)'
<1>1. /\ UNCHANGED <<sessions, identities, who, call>> /\ pc[r] \notin {"idle"} \cup Answered
      /\ pc' = [pc EXCEPT ![r] = "failed"]
  BY DEF Fail, Break, Goto, Active, people, tokens, locals
<1>2. Shape' /\ Alone(r) /\ Kept
  BY <1>1 DEF IInv, Shape, Alone, Kept, Issued, Answered
<1>3. Knows(r)'
  BY <1>1 DEF IInv, Shape, Knows, Nameless, Answered
<1> QED
  BY <1>2, <1>3

(* What a call relies on stays true while others go on.                    *)
LEMMA OthersKnow ==
  ASSUME IInv, NEW r \in Requests, Kept, Alone(r)
  PROVE  \A o \in Requests \ {r} : Knows(o)'
<1> TAKE o \in Requests \ {r}
<1>1. /\ pc'[o] = pc[o] /\ call'[o] = call[o] /\ who'[o] = who[o]
      /\ sessions[o] = None => sessions'[o] = None
  BY DEF Alone
<1>2. Knows(o)
  BY DEF IInv
<1>3. Issued \subseteq Issued'
  BY DEF Kept, Issued
<1> QED
  BY <1>1, <1>2, <1>3 DEF Knows, Kept

(* Every step keeps what the calls rely on.                                *)
LEMMA NextKeeps ==
  ASSUME IInv, [Next]_vars
  PROVE  IInv' /\ Kept
<1>1. ASSUME NEW r \in Requests, Step(r) \/ Fail(r)
      PROVE  IInv' /\ Kept
  <2>1. Shape' /\ Kept /\ Alone(r) /\ Knows(r)'
    BY <1>1, ReceiveStep, CodeSteps, LoginSteps, FindingSteps, SessionSteps, FailStep
       DEF Step
  <2> QED
    BY <2>1, OthersKnow DEF IInv
<1>2. ASSUME UNCHANGED <<pc, call, who, sessions, identities>>
      PROVE  IInv' /\ Kept
  BY <1>2 DEF IInv, Shape, Knows, Kept, Issued
<1>3. ASSUME NEW e \in Emails, Expire(e)
      PROVE  IInv' /\ Kept
  BY <1>2, <1>3 DEF Expire, calls, people, tokens, locals
<1>4. CASE Done \/ UNCHANGED vars
  BY <1>2, <1>4 DEF Done, vars, calls, people, tokens, locals
<1> QED
  BY <1>1, <1>3, <1>4 DEF Next

(* Whom a call acts for, and which session it replaces, is settled before  *)
(* it writes a session, whatever other calls have done since it looked.    *)
THEOREM Invariance == Spec => []IInv
<1>1. Init => IInv
  BY DEF Init, CallsInit, IInv, Shape, Knows, Nameless, Issued
<1>2. IInv /\ [Next]_vars => IInv'
  BY NextKeeps
<1> QED
  BY <1>1, <1>2, PTL DEF Spec

-----------------------------------------------------------------------------
(* Sessions are written by four steps only.                                *)
LEMMA OtherSteps ==
  ASSUME NEW r \in Requests, Step(r) \/ Fail(r),
         ~RevokeToken(r), ~CreateSession(r), ~RevokeByValue(r), ~RevokeAll(r)
  PROVE  sessions' = sessions
<1> USE DEF tokens
<1>1. CASE \/ Receive(r) \/ Authenticate(r) \/ CheckStatus(r) \/ FindUser(r)
           \/ CreateUser(r) \/ Fail(r)
  BY <1>1 DEF Receive, Authenticate, CheckStatus, FindUser, CreateUser, Fail
<1>2. CASE \/ CheckCooldown(r) \/ InvalidateCodes(r) \/ CreateCode(r) \/ SetCooldown(r)
           \/ FindCode(r) \/ UseCode(r) \/ MarkVerified(r)
  BY <1>2 DEF CheckCooldown, InvalidateCodes, CreateCode, SetCooldown, FindCode, UseCode,
              MarkVerified
<1>3. CASE \/ CheckLock(r) \/ CheckCredentials(r) \/ CountFailure(r) \/ Lock(r)
           \/ ClearAttempts(r) \/ CheckFactor(r) \/ ConfirmFactor(r)
  BY <1>3 DEF CheckLock, CheckCredentials, CountFailure, Lock, ClearAttempts, CheckFactor,
              ConfirmFactor
<1>4. CASE \/ FindIdentity(r) \/ FindByEmail(r) \/ CreateSocialUser(r) \/ LinkIdentity(r)
           \/ FindToken(r) \/ Blacklist(r) \/ FindSession(r) \/ SetPassword(r)
           \/ SetStatus(r)
  BY <1>4 DEF FindIdentity, FindByEmail, CreateSocialUser, LinkIdentity, FindToken,
              Blacklist, FindSession, SetPassword, SetStatus
<1> QED
  BY <1>1, <1>2, <1>3, <1>4 DEF Step

(* Ending sessions of one account is a step of SessionLifecycle.           *)
LEMMA EndsOfOne ==
  ASSUME IInv, NEW u \in Emails, NEW xs \in SUBSET Issued, sessions' = Revoked(xs),
         \A x \in xs : sessions[x].user = u
  PROVE  Lifecycle!Next
<1>1. /\ \A x \in xs : sessions'[x].revoked
      /\ \A x \in Requests \ xs : sessions'[x] = sessions[x]
  BY Ended DEF IInv
<1>2. \A x \in xs : /\ x \in Requests /\ sessions[x] # None /\ sessions[x] \in Sessions
                    /\ sessions'[x] = [sessions[x] EXCEPT !.revoked = TRUE]
  BY DEF Issued, Revoked, IInv, Shape
<1>3. \A x \in xs : /\ sessions'[x] # None /\ sessions'[x].user = sessions[x].user
                    /\ sessions'[x].parent = sessions[x].parent
  <2> TAKE x \in xs
  <2>1. /\ sessions'[x] \in Sessions /\ sessions'[x].user = sessions[x].user
        /\ sessions'[x].parent = sessions[x].parent
    BY <1>2 DEF Sessions
  <2> QED
    BY <2>1, AuthAssumption
<1>4. Lifecycle!End(u, xs)
  <2>1. \A x \in xs : StateOf(x) # "none"
    BY <1>2 DEF StateOf
  <2>2. \A x \in Requests : StateOf(x)' = IF x \in xs THEN "ended" ELSE StateOf(x)
    BY <1>1, <1>3 DEF StateOf
  <2> QED
    <3>1. \A x \in xs : StateOf(x) # "none" /\ sessions[x] # None /\ sessions[x].user = u
      BY <1>2, <2>1
    <3>2. [x \in Requests |-> StateOf(x)]'
            = [x \in Requests |-> IF x \in xs THEN "ended" ELSE StateOf(x)]
      BY <2>2
    <3>3. /\ [x \in Requests |-> IF sessions[x] = None THEN None ELSE sessions[x].user]'
               = [x \in Requests |-> IF sessions[x] = None THEN None ELSE sessions[x].user]
          /\ [x \in Requests |-> IF sessions[x] = None THEN None ELSE sessions[x].parent]'
               = [x \in Requests |-> IF sessions[x] = None THEN None ELSE sessions[x].parent]
      BY <1>1, <1>2, <1>3, ZenonT(60)
    <3> QED
      BY <1>2, <3>1, <3>2, <3>3 DEF Lifecycle!End
<1>5. xs \in SUBSET Requests
  BY <1>2
<1> QED
  BY <1>4, <1>5 DEF Lifecycle!Next

(* A pair of tokens that is issued is a session that is opened.            *)
LEMMA Opens ==
  ASSUME IInv, NEW r \in Requests, CreateSession(r)
  PROVE  Lifecycle!Next
<1>1. /\ who[r] \in Emails /\ sessions[r] = None
      /\ call[r].op = "refresh" => /\ call[r].token \in Issued
                                   /\ sessions[call[r].token].revoked
                                   /\ sessions[call[r].token].user = who[r]
  BY DEF IInv, Knows, CreateSession, Nameless, Answered
<1>p. PICK p \in Requests \cup {None} :
        p = IF call[r].op = "refresh" THEN call[r].token ELSE None
  BY <1>1 DEF Issued
<1>3. p # None => /\ p \in Requests /\ sessions[p] # None /\ sessions[p].revoked
                  /\ sessions[p].user = who[r]
  BY <1>1, <1>p DEF Issued
<1> DEFINE row == [user |-> who[r], revoked |-> FALSE, parent |-> p,
                   confirmed |-> call[r].op = "adminTwoFactor"]
<1>2. sessions' = [sessions EXCEPT ![r] = row]
  BY <1>p DEF CreateSession
<1>a. row \in Sessions
  BY <1>1, <1>3 DEF Sessions
<1>5. row.user = who[r] /\ row.parent = p /\ ~row.revoked
  OBVIOUS
<1> HIDE DEF row
<1>4. row \in Sessions /\ row # None
  BY <1>a, AuthAssumption
<1>6. \A x \in Requests : sessions'[x] = IF x = r THEN row ELSE sessions[x]
  BY <1>2 DEF IInv, Shape
<1>7. \A x \in Requests : StateOf(x)' = IF x = r THEN "live" ELSE StateOf(x)
  BY <1>4, <1>5, <1>6 DEF StateOf
<1>8. Lifecycle!Open(r, who[r], p)
  <2>1. StateOf(r) = "none"
    BY <1>1 DEF StateOf
  <2>2. p # None => StateOf(p) = "ended"
    BY <1>3 DEF StateOf
  <2> QED
    BY <1>3, <1>4, <1>5, <1>6, <1>7, <2>1, <2>2 DEF Lifecycle!Open
<1> QED
  BY <1>1, <1>8 DEF Lifecycle!Next

(* Sessions keep the promise of SessionLifecycle: logins, rotations,       *)
(* logouts, resets and deactivations write the same rows, in any order and *)
(* wherever one of them breaks off, and each write is one of its steps.    *)
THEOREM SessionsImplement == Spec => SessionsHaveALifecycle
<1>1. Init => Lifecycle!Init
  BY DEF Init, Lifecycle!Init, StateOf
<1>2. ASSUME sessions' = sessions
      PROVE  UNCHANGED Lifecycle!lifecycle
  BY <1>2 DEF Lifecycle!lifecycle, StateOf
<1>3. IInv /\ [Next]_vars => [Lifecycle!Next]_(Lifecycle!lifecycle)
  <2> SUFFICES ASSUME IInv, [Next]_vars
               PROVE  [Lifecycle!Next]_(Lifecycle!lifecycle)
    OBVIOUS
  <2>1. ASSUME NEW r \in Requests, RevokeToken(r)
        PROVE  Lifecycle!Next
    <3>1. /\ call[r].token \in Issued /\ sessions[call[r].token].user = who[r]
          /\ who[r] \in Emails
      BY <2>1 DEF IInv, Knows, RevokeToken, Nameless, Answered
    <3>2. sessions' = Revoked({call[r].token})
      BY <2>1 DEF RevokeToken
    <3> QED
      BY <3>1, <3>2, EndsOfOne
  <2>2. ASSUME NEW r \in Requests, RevokeByValue(r)
        PROVE  [Lifecycle!Next]_(Lifecycle!lifecycle)
    <3>1. sessions' = Revoked({call[r].token} \cap Issued)
      BY <2>2 DEF RevokeByValue
    <3>2. CASE call[r].token \in Issued
      <4>1. sessions[call[r].token].user \in Emails
        BY <3>2 DEF IInv, Shape, Issued, Sessions
      <4> QED
        BY <3>1, <3>2, <4>1, EndsOfOne
    <3>3. CASE call[r].token \notin Issued
      <4>1. sessions' = sessions
        BY <3>1, <3>3 DEF Revoked, IInv, Shape
      <4> QED
        BY <4>1, <1>2
    <3> QED
      BY <3>2, <3>3
  <2>3. ASSUME NEW r \in Requests, RevokeAll(r)
        PROVE  Lifecycle!Next
    <3>1. who[r] \in Emails /\ sessions' = Revoked(LiveOf(who[r]))
      BY <2>3 DEF IInv, Knows, RevokeAll, Nameless
    <3>2. LiveOf(who[r]) \in SUBSET Issued /\ \A x \in LiveOf(who[r]) : sessions[x].user = who[r]
      BY DEF LiveOf, Live
    <3> QED
      BY <3>1, <3>2, EndsOfOne
  <2>4. ASSUME NEW r \in Requests, Step(r) \/ Fail(r)
        PROVE  [Lifecycle!Next]_(Lifecycle!lifecycle)
    BY <1>2, <2>1, <2>2, <2>3, <2>4, Opens, OtherSteps
  <2>5. CASE (\E e \in Emails : Expire(e)) \/ Done \/ UNCHANGED vars
    BY <1>2, <2>5 DEF Expire, Done, vars, tokens
  <2> QED
    BY <2>4, <2>5 DEF Next
<1> QED
  BY <1>1, <1>3, Invariance, PTL DEF Spec, SessionsHaveALifecycle, Lifecycle!Spec

-----------------------------------------------------------------------------
(* A social identity is only ever linked to a traveler. The role is read   *)
(* in one statement and the link is written in a later one, and a login of *)
(* another half may still be under way; what makes up for it is that an    *)
(* account, once it is there, stays and keeps its role, whoever writes it. *)

(* The steps at which a call has found the account it is about.            *)
Found == {"findCode", "useCode", "markVerified", "clearAttempts", "linkIdentity",
          "setPassword", "setStatus", "confirmFactor", "createSession"}

(* What a call may rely on about that account.                             *)
Holds(r) ==
  /\ pc[r] \in Found => accounts[who[r]] # None
  /\ pc[r] = "linkIdentity" => accounts[who[r]].role = "traveler"
  /\ pc[r] = "createUser" => call[r].op = "register"
  /\ pc[r] = "setPassword" => call[r].op \in {"reset", "change"}
  /\ pc[r] # "idle" /\ call[r].op = "adminLogin" =>
       /\ pc[r] \in {"credentials"} \cup Answered
       /\ pc[r] = "ok" => accounts[who[r]] # None

AccountInv ==
  /\ accounts \in [Emails -> Accounts \cup {None}]
  /\ \A x \in Issued : accounts[sessions[x].user] # None
  /\ LinkedAccountsAreTravelers
  /\ \A r \in Requests : Holds(r)

(* No step takes an account away or gives it another role.                 *)
Stay ==
  \A e \in Emails : accounts[e] # None =>
    accounts'[e] # None /\ accounts'[e].role = accounts[e].role

-----------------------------------------------------------------------------
(* The calls that write an account have its fields.                        *)
LEMMA Writers ==
  ASSUME NEW c \in AuthCalls
  PROVE  /\ c.op = "register" => c.role \in Roles /\ c.password \in Passwords
         /\ c.op \in {"reset", "change"} => c.password \in Passwords
<1>1. CASE c \in PublicCalls
  BY <1>1 DEF PublicCalls, Roles
<1>2. CASE c \in BearerCalls
  BY <1>2 DEF BearerCalls
<1> QED
  BY <1>1, <1>2 DEF AuthCalls

(* Accounts are written by five steps only.                                *)
LEMMA OthersRead ==
  ASSUME NEW r \in Requests, Step(r) \/ Fail(r),
         ~CreateUser(r), ~MarkVerified(r), ~CreateSocialUser(r), ~SetPassword(r),
         ~SetStatus(r)
  PROVE  accounts' = accounts
<1> USE DEF people
<1>1. CASE \/ Receive(r) \/ Authenticate(r) \/ CheckStatus(r) \/ FindUser(r)
           \/ Fail(r)
  BY <1>1 DEF Receive, Authenticate, CheckStatus, FindUser, Fail
<1>2. CASE \/ CheckCooldown(r) \/ InvalidateCodes(r) \/ CreateCode(r) \/ SetCooldown(r)
           \/ FindCode(r) \/ UseCode(r)
  BY <1>2 DEF CheckCooldown, InvalidateCodes, CreateCode, SetCooldown, FindCode, UseCode
<1>3. CASE \/ CheckLock(r) \/ CheckCredentials(r) \/ CountFailure(r) \/ Lock(r)
           \/ ClearAttempts(r) \/ CheckFactor(r) \/ ConfirmFactor(r)
  BY <1>3 DEF CheckLock, CheckCredentials, CountFailure, Lock, ClearAttempts, CheckFactor,
              ConfirmFactor
<1>4. CASE \/ FindIdentity(r) \/ FindByEmail(r) \/ LinkIdentity(r) \/ FindToken(r)
           \/ Blacklist(r) \/ FindSession(r)
  BY <1>4 DEF FindIdentity, FindByEmail, LinkIdentity, FindToken, Blacklist, FindSession
<1>5. CASE RevokeToken(r) \/ CreateSession(r) \/ RevokeByValue(r) \/ RevokeAll(r)
  BY <1>5 DEF RevokeToken, CreateSession, RevokeByValue, RevokeAll
<1> QED
  BY <1>1, <1>2, <1>3, <1>4, <1>5 DEF Step

(* An account that is there and changes in any field but its role.         *)
LEMMA Rewritten ==
  ASSUME AccountInv, NEW e \in Emails, NEW account \in Accounts,
         accounts' = [accounts EXCEPT ![e] = account],
         accounts[e] # None => account.role = accounts[e].role
  PROVE  accounts' \in [Emails -> Accounts \cup {None}] /\ Stay
BY AuthAssumption DEF AccountInv, Stay

LEMMA AccountSteps ==
  ASSUME IInv, AccountInv, NEW r \in Requests, Step(r) \/ Fail(r)
  PROVE  accounts' \in [Emails -> Accounts \cup {None}] /\ Stay
<1>1. /\ Knows(r) /\ Holds(r)
      /\ \A e \in Emails : accounts[e] # None => accounts[e] \in Accounts
  BY DEF IInv, AccountInv
<1>2. CASE CreateUser(r)
  <2>1. who[r] \in Emails /\ call[r] \in AuthCalls /\ call[r].op = "register"
    BY <1>1, <1>2 DEF CreateUser, Knows, Holds, Nameless
  <2>2. NewAccount(call[r].role, call[r].password, FALSE) \in Accounts
    BY <2>1, Writers DEF NewAccount, Accounts
  <2>3. UNCHANGED accounts \/
          /\ accounts[who[r]] = None
          /\ accounts' = [accounts EXCEPT ![who[r]] =
                            NewAccount(call[r].role, call[r].password, FALSE)]
    BY <1>2 DEF CreateUser
  <2> QED
    BY <2>1, <2>2, <2>3, Rewritten DEF AccountInv, Stay
<1>3. CASE CreateSocialUser(r)
  <2>1. who[r] \in Emails
    BY <1>1, <1>3 DEF CreateSocialUser, Knows, Nameless
  <2>2. NewAccount("traveler", None, TRUE) \in Accounts
    BY DEF NewAccount, Accounts, Roles
  <2>3. UNCHANGED accounts \/
          /\ accounts[who[r]] = None
          /\ accounts' = [accounts EXCEPT ![who[r]] = NewAccount("traveler", None, TRUE)]
    BY <1>3 DEF CreateSocialUser
  <2> QED
    BY <2>1, <2>2, <2>3, Rewritten DEF AccountInv, Stay
<1>4. CASE MarkVerified(r)
  <2>1. who[r] \in Emails /\ accounts[who[r]] \in Accounts
    BY <1>1, <1>4 DEF MarkVerified, Knows, Holds, Nameless, Found
  <2>2. accounts' = [accounts EXCEPT ![who[r]] = [@ EXCEPT !.verified = TRUE]]
    BY <1>4 DEF MarkVerified
  <2>3. /\ [accounts[who[r]] EXCEPT !.verified = TRUE] \in Accounts
        /\ [accounts[who[r]] EXCEPT !.verified = TRUE].role = accounts[who[r]].role
    BY <2>1 DEF Accounts
  <2> QED
    BY <2>1, <2>2, <2>3, Rewritten
<1>5. CASE SetPassword(r)
  <2>1. /\ who[r] \in Emails /\ accounts[who[r]] \in Accounts
        /\ call[r].password \in Passwords
    BY <1>1, <1>5, Writers DEF SetPassword, Knows, Holds, Nameless, Found
  <2>2. accounts' = [accounts EXCEPT ![who[r]] = [@ EXCEPT !.password = call[r].password]]
    BY <1>5 DEF SetPassword
  <2>3. /\ [accounts[who[r]] EXCEPT !.password = call[r].password] \in Accounts
        /\ [accounts[who[r]] EXCEPT !.password = call[r].password].role
             = accounts[who[r]].role
    BY <2>1 DEF Accounts
  <2> QED
    BY <2>1, <2>2, <2>3, Rewritten
<1>6. CASE SetStatus(r)
  <2>1. who[r] \in Emails /\ accounts[who[r]] \in Accounts /\ call[r] \in AuthCalls
    BY <1>1, <1>6 DEF SetStatus, Knows, Holds, Nameless, Found
  <2>2. PICK active \in BOOLEAN :
          accounts' = [accounts EXCEPT ![who[r]] = [@ EXCEPT !.active = active]]
    BY <1>6 DEF SetStatus
  <2>3. /\ [accounts[who[r]] EXCEPT !.active = active] \in Accounts
        /\ [accounts[who[r]] EXCEPT !.active = active].role = accounts[who[r]].role
    BY <2>1 DEF Accounts
  <2> QED
    BY <2>1, <2>2, <2>3, Rewritten
<1>7. CASE UNCHANGED accounts
  BY <1>7 DEF AccountInv, Stay
<1> QED
  BY <1>2, <1>3, <1>4, <1>5, <1>6, <1>7, OthersRead

-----------------------------------------------------------------------------
(* What a call relies on after its own step, given what a step of any call *)
(* keeps.                                                                  *)
LEMMA CodesHold ==
  ASSUME IInv, AccountInv, Stay, NEW r \in Requests,
         \/ Receive(r) \/ FindUser(r) \/ CreateUser(r) \/ CheckCooldown(r)
         \/ InvalidateCodes(r) \/ CreateCode(r) \/ SetCooldown(r) \/ FindCode(r)
         \/ UseCode(r) \/ MarkVerified(r)
  PROVE  Holds(r)'
<1> USE DEF Goto, Answered, Found, locals
<1>0. /\ Knows(r) /\ Holds(r) /\ DOMAIN pc = Requests
      /\ \A e \in Emails : accounts[e] # None => accounts'[e] # None
  BY DEF IInv, Shape, AccountInv, Stay
<1>1. CASE Receive(r)
  <2>1. PICK c \in AuthCalls : call' = [call EXCEPT ![r] = c]
    BY <1>1 DEF Receive, Begin
  <2>2. call'[r] = c /\ pc'[r] = FirstStep(c)
    BY <1>0, <1>1, <2>1 DEF Receive, StartAt, IInv, Shape
  <2>3. /\ FirstStep(c) \notin Found \cup {"createUser", "ok"}
        /\ c.op = "adminLogin" => FirstStep(c) = "credentials"
    BY Fields DEF FirstStep
  <2> QED
    BY <2>2, <2>3 DEF Holds
<1>2. CASE FindUser(r)
  BY <1>0, <1>2 DEF FindUser, AfterUser, Holds, Knows, Nameless
<1>3. CASE CreateUser(r)
  BY <1>0, <1>3 DEF CreateUser, Holds
<1>4. CASE CheckCooldown(r) \/ InvalidateCodes(r)
  BY <1>0, <1>4 DEF CheckCooldown, InvalidateCodes, Holds
<1>5. CASE CreateCode(r) \/ SetCooldown(r)
  BY <1>0, <1>5 DEF CreateCode, SetCooldown, Holds
<1>6. CASE FindCode(r)
  BY <1>0, <1>6 DEF FindCode, Holds, Knows, Nameless
<1>7. CASE UseCode(r)
  BY <1>0, <1>7, Admits DEF UseCode, Holds, Knows, Nameless
<1>8. CASE MarkVerified(r)
  BY <1>0, <1>8, Admits DEF MarkVerified, Holds, Knows, Nameless
<1> QED
  BY <1>1, <1>2, <1>3, <1>4, <1>5, <1>6, <1>7, <1>8

LEMMA LoginsHold ==
  ASSUME IInv, AccountInv, Stay, NEW r \in Requests,
         \/ Authenticate(r) \/ CheckStatus(r) \/ CheckLock(r) \/ CheckCredentials(r)
         \/ CountFailure(r) \/ Lock(r) \/ ClearAttempts(r) \/ CheckFactor(r)
         \/ ConfirmFactor(r) \/ SetPassword(r) \/ SetStatus(r)
  PROVE  Holds(r)'
<1> USE DEF Goto, Answered, Found, locals
<1>0. /\ Knows(r) /\ Holds(r) /\ DOMAIN pc = Requests /\ DOMAIN who = Requests
      /\ \A e \in Emails : accounts[e] # None => accounts'[e] # None
  BY DEF IInv, Shape, AccountInv, Stay
<1>1. CASE Authenticate(r)
  BY <1>0, <1>1 DEF Authenticate, Holds
<1>2. CASE CheckStatus(r)
  <2>1. /\ pc[r] = "status" /\ call' = call /\ call[r].op # "adminLogin"
        /\ pc'[r] \in {AfterStatus(call[r].op), "failed"}
    BY <1>0, <1>2 DEF CheckStatus, Holds
  <2>2. /\ AfterStatus(call[r].op) \notin Found \ {"setStatus"}
        /\ AfterStatus(call[r].op) \notin {"createUser", "ok"}
        /\ AfterStatus(call[r].op) = "setStatus" => call[r].op = "deactivate"
    BY DEF AfterStatus
  <2>3. ASSUME pc'[r] = "setStatus" PROVE accounts'[who'[r]] # None
    <3>1. who'[r] = sessions[call[r].by].user
      BY <1>0, <1>2, <2>1, <2>2, <2>3 DEF CheckStatus
    <3>2. call[r].by \in Issued
      BY <1>0, <2>1 DEF Knows
    <3>3. sessions[call[r].by].user \in Emails
      BY <3>2 DEF IInv, Shape, Issued, Sessions
    <3> QED
      BY <1>0, <3>1, <3>2, <3>3 DEF AccountInv
  <2> QED
    BY <2>1, <2>2, <2>3 DEF Holds
<1>3. CASE CheckLock(r)
  BY <1>0, <1>3 DEF CheckLock, Holds
<1>4. CASE CheckCredentials(r)
  BY <1>0, <1>4 DEF CheckCredentials, Holds, Knows, Nameless
<1>5. CASE CountFailure(r) \/ Lock(r)
  BY <1>0, <1>5 DEF CountFailure, Lock, Holds
<1>6. CASE ClearAttempts(r)
  BY <1>0, <1>6, Admits DEF ClearAttempts, Holds, Knows, Nameless
<1>7. CASE CheckFactor(r)
  <2>1. call[r] \in AuthCalls /\ call[r].op = "adminTwoFactor"
    BY <1>0, <1>7 DEF CheckFactor, Knows
  <2>2. PICK p \in Requests : p = call[r].pending
    BY <2>1, Fields
  <2>3. CASE pc[p] = "ok" /\ call[p].op = "adminLogin"
    <3>1. accounts[who[p]] # None /\ who[p] \in Emails
      BY <2>3 DEF AccountInv, Holds, IInv, Knows, Nameless
    <3> QED
      BY <1>0, <1>7, <2>1, <2>2, <3>1 DEF CheckFactor, Holds
  <2>4. CASE ~(pc[p] = "ok" /\ call[p].op = "adminLogin")
    BY <1>0, <1>7, <2>2, <2>4 DEF CheckFactor, Holds
  <2> QED
    BY <2>3, <2>4
<1>8. CASE ConfirmFactor(r)
  BY <1>0, <1>8 DEF ConfirmFactor, Holds, Knows, Nameless
<1>9. CASE SetPassword(r)
  BY <1>0, <1>9 DEF SetPassword, Holds
<1>10. CASE SetStatus(r)
  BY <1>0, <1>10 DEF SetStatus, Holds
<1> QED
  BY <1>1, <1>2, <1>3, <1>4, <1>5, <1>6, <1>7, <1>8, <1>9, <1>10

LEMMA SocialAndTokensHold ==
  ASSUME IInv, AccountInv, Stay, NEW r \in Requests,
         \/ FindIdentity(r) \/ FindByEmail(r) \/ CreateSocialUser(r) \/ LinkIdentity(r)
         \/ FindToken(r) \/ RevokeToken(r) \/ CreateSession(r) \/ Blacklist(r)
         \/ RevokeByValue(r) \/ RevokeAll(r) \/ FindSession(r) \/ Fail(r)
  PROVE  Holds(r)'
<1> USE DEF Goto, Answered, Found, locals
<1>0. /\ Knows(r) /\ Holds(r) /\ DOMAIN pc = Requests /\ DOMAIN who = Requests
      /\ \A e \in Emails : accounts[e] # None =>
           accounts'[e] # None /\ accounts'[e].role = accounts[e].role
  BY DEF IInv, Shape, AccountInv, Stay
<1>1. CASE FindIdentity(r)
  <2>1. call[r] \in AuthCalls /\ call[r].op = "social" /\ call' = call
    BY <1>0, <1>1 DEF FindIdentity, Knows
  <2>2. PICK i \in Identities : i = call[r].identity
    BY <2>1, Fields
  <2>3. CASE identities[i] # None
    <3>1. identities[i] \in Emails /\ accounts[identities[i]] # None
      BY <2>3 DEF AccountInv, LinkedAccountsAreTravelers, IInv, Shape
    <3> QED
      BY <1>0, <1>1, <2>1, <2>2, <2>3, <3>1, Admits DEF FindIdentity, Holds
  <2>4. CASE identities[i] = None
    BY <1>0, <1>1, <2>1, <2>2, <2>4 DEF FindIdentity, Holds
  <2> QED
    BY <2>3, <2>4
<1>2. CASE FindByEmail(r)
  BY <1>0, <1>2 DEF FindByEmail, Holds, Knows, Nameless
<1>3. CASE CreateSocialUser(r)
  <2>1. accounts[who[r]] = None =>
          /\ accounts' = [accounts EXCEPT ![who[r]] = NewAccount("traveler", None, TRUE)]
          /\ who[r] \in Emails
    BY <1>0, <1>3 DEF CreateSocialUser, Knows, Nameless
  <2>2. NewAccount("traveler", None, TRUE) \in Accounts
        /\ NewAccount("traveler", None, TRUE).role = "traveler"
    BY DEF NewAccount, Accounts, Roles
  <2>3. accounts[who[r]] = None =>
          accounts'[who[r]] # None /\ accounts'[who[r]].role = "traveler"
    BY <2>1, <2>2, AuthAssumption DEF AccountInv
  <2> QED
    BY <1>0, <1>3, <2>3 DEF CreateSocialUser, Holds
<1>4. CASE LinkIdentity(r)
  BY <1>0, <1>4, Admits DEF LinkIdentity, Holds, Knows, Nameless
<1>5. CASE FindToken(r)
  BY <1>0, <1>5 DEF FindToken, Holds
<1>6. CASE RevokeToken(r)
  <2>1. /\ call[r].token \in Issued /\ sessions[call[r].token].user = who[r]
        /\ who[r] \in Emails
    BY <1>0, <1>6 DEF RevokeToken, Knows, Nameless
  <2>2. accounts[who[r]] # None
    BY <2>1 DEF AccountInv
  <2> QED
    BY <1>0, <1>6, <2>1, <2>2 DEF RevokeToken, Holds
<1>7. CASE CreateSession(r) \/ RevokeByValue(r) \/ RevokeAll(r)
  BY <1>0, <1>7 DEF CreateSession, RevokeByValue, RevokeAll, Holds
<1>8. CASE Blacklist(r) \/ FindSession(r)
  BY <1>0, <1>8 DEF Blacklist, FindSession, Holds
<1>9. CASE Fail(r)
  BY <1>0, <1>9 DEF Fail, Break, Active, Holds
<1> QED
  BY <1>1, <1>2, <1>3, <1>4, <1>5, <1>6, <1>7, <1>8, <1>9

-----------------------------------------------------------------------------
(* One call moves, the others are where they were.                         *)
LEMMA OneMoves ==
  ASSUME IInv, NEW r \in Requests, Step(r) \/ Fail(r)
  PROVE  Kept /\ Alone(r) /\ Shape'
BY ReceiveStep, CodeSteps, LoginSteps, FindingSteps, SessionSteps, FailStep DEF Step

(* A new session is of an account that is there.                           *)
LEMMA SessionsHaveAccounts ==
  ASSUME IInv, AccountInv, Stay, NEW r \in Requests, Step(r) \/ Fail(r)
  PROVE  \A x \in Issued' : accounts'[sessions'[x].user] # None
<1> SUFFICES ASSUME NEW x \in Requests, sessions'[x] # None
             PROVE  accounts'[sessions'[x].user] # None
  BY DEF Issued
<1>1. CASE x \in Issued
  <2>1. sessions'[x].user = sessions[x].user
    BY <1>1, OneMoves DEF Kept
  <2>2. sessions[x].user \in Emails /\ accounts[sessions[x].user] # None
    BY <1>1 DEF AccountInv, Issued, IInv, Shape, Sessions
  <2> QED
    BY <2>1, <2>2 DEF Stay
<1>2. CASE x \notin Issued
  <2>1. sessions[x] = None /\ x = r
    BY <1>2, OneMoves DEF Issued, Alone
  <2>2. CASE CreateSession(r)
    <3>1. sessions'[r].user = who[r]
      BY <2>2 DEF CreateSession, IInv, Shape
    <3>2. who[r] \in Emails /\ accounts[who[r]] # None
      BY <2>2 DEF CreateSession, IInv, Knows, Nameless, AccountInv, Holds, Found
    <3> QED
      BY <2>1, <3>1, <3>2 DEF Stay
  <2>3. CASE RevokeToken(r)
    <3>1. call[r].token \in Issued
      BY <2>3 DEF RevokeToken, IInv, Knows
    <3>2. sessions' = Revoked({call[r].token})
      BY <2>3 DEF RevokeToken
    <3> QED
      BY <2>1, <3>1, <3>2, Ended DEF IInv
  <2>4. CASE RevokeByValue(r) \/ RevokeAll(r)
    <3>1. PICK xs \in SUBSET Issued : sessions' = Revoked(xs)
      BY <2>4 DEF RevokeByValue, RevokeAll, LiveOf, Live
    <3> QED
      BY <2>1, <3>1, Ended DEF IInv
  <2>5. CASE UNCHANGED sessions
    BY <2>1, <2>5
  <2> QED
    BY <2>2, <2>3, <2>4, <2>5, OtherSteps
<1> QED
  BY <1>1, <1>2

(* Identities are written by one step only.                                *)
LEMMA OthersLinkNothing ==
  ASSUME NEW r \in Requests, Step(r) \/ Fail(r), ~LinkIdentity(r)
  PROVE  identities' = identities
<1> USE DEF people
<1>1. CASE \/ Receive(r) \/ Authenticate(r) \/ CheckStatus(r) \/ FindUser(r)
           \/ CreateUser(r) \/ Fail(r)
  BY <1>1 DEF Receive, Authenticate, CheckStatus, FindUser, CreateUser, Fail
<1>2. CASE \/ CheckCooldown(r) \/ InvalidateCodes(r) \/ CreateCode(r) \/ SetCooldown(r)
           \/ FindCode(r) \/ UseCode(r) \/ MarkVerified(r)
  BY <1>2 DEF CheckCooldown, InvalidateCodes, CreateCode, SetCooldown, FindCode, UseCode,
              MarkVerified
<1>3. CASE \/ CheckLock(r) \/ CheckCredentials(r) \/ CountFailure(r) \/ Lock(r)
           \/ ClearAttempts(r) \/ CheckFactor(r) \/ ConfirmFactor(r)
  BY <1>3 DEF CheckLock, CheckCredentials, CountFailure, Lock, ClearAttempts, CheckFactor,
              ConfirmFactor
<1>4. CASE \/ FindIdentity(r) \/ FindByEmail(r) \/ CreateSocialUser(r) \/ FindToken(r)
           \/ Blacklist(r) \/ FindSession(r) \/ SetPassword(r) \/ SetStatus(r)
  BY <1>4 DEF FindIdentity, FindByEmail, CreateSocialUser, FindToken, Blacklist,
              FindSession, SetPassword, SetStatus
<1>5. CASE RevokeToken(r) \/ CreateSession(r) \/ RevokeByValue(r) \/ RevokeAll(r)
  BY <1>5 DEF RevokeToken, CreateSession, RevokeByValue, RevokeAll
<1> QED
  BY <1>1, <1>2, <1>3, <1>4, <1>5 DEF Step

LEMMA LinksAreToTravelers ==
  ASSUME IInv, AccountInv, Stay, NEW r \in Requests, Step(r) \/ Fail(r)
  PROVE  LinkedAccountsAreTravelers'
<1> SUFFICES ASSUME NEW i \in Identities, identities'[i] # None
             PROVE  /\ accounts'[identities'[i]] # None
                    /\ accounts'[identities'[i]].role = "traveler"
  BY DEF LinkedAccountsAreTravelers
<1>1. CASE identities'[i] = identities[i]
  BY <1>1 DEF AccountInv, LinkedAccountsAreTravelers, Stay, IInv, Shape
<1>2. CASE identities'[i] # identities[i]
  <2>1. LinkIdentity(r)
    BY <1>2, OthersLinkNothing
  <2>2. identities'[i] = who[r]
    BY <1>2, <2>1 DEF LinkIdentity, IInv, Shape
  <2>3. who[r] \in Emails /\ accounts[who[r]] # None /\ accounts[who[r]].role = "traveler"
    BY <2>1 DEF LinkIdentity, IInv, Knows, Nameless, AccountInv, Holds, Found
  <2> QED
    BY <2>2, <2>3 DEF Stay
<1> QED
  BY <1>1, <1>2

LEMMA OthersHold ==
  ASSUME IInv, AccountInv, Stay, NEW r \in Requests, Alone(r)
  PROVE  \A o \in Requests \ {r} : Holds(o)'
<1> TAKE o \in Requests \ {r}
<1>1. pc'[o] = pc[o] /\ call'[o] = call[o] /\ who'[o] = who[o]
  BY DEF Alone
<1>2. Knows(o) /\ Holds(o)
  BY DEF IInv, AccountInv
<1> QED
  BY <1>1, <1>2 DEF Knows, Nameless, Holds, Found, Stay, Answered

LEMMA NextHolds ==
  ASSUME IInv, AccountInv, [Next]_vars
  PROVE  AccountInv'
<1>1. ASSUME NEW r \in Requests, Step(r) \/ Fail(r)
      PROVE  AccountInv'
  <2>1. accounts' \in [Emails -> Accounts \cup {None}] /\ Stay
    BY <1>1, AccountSteps
  <2>2. Holds(r)'
    BY <1>1, <2>1, CodesHold, LoginsHold, SocialAndTokensHold DEF Step
  <2>3. \A o \in Requests \ {r} : Holds(o)'
    BY <1>1, <2>1, OneMoves, OthersHold
  <2> QED
    BY <1>1, <2>1, <2>2, <2>3, SessionsHaveAccounts, LinksAreToTravelers DEF AccountInv
<1>2. ASSUME UNCHANGED <<pc, call, who, sessions, accounts, identities>>
      PROVE  AccountInv'
  BY <1>2 DEF AccountInv, Issued, LinkedAccountsAreTravelers, Holds
<1>3. ASSUME NEW e \in Emails, Expire(e)
      PROVE  AccountInv'
  BY <1>2, <1>3 DEF Expire, calls, people, tokens, locals
<1>4. CASE Done \/ UNCHANGED vars
  BY <1>2, <1>4 DEF Done, vars, calls, people, tokens, locals
<1> QED
  BY <1>1, <1>3, <1>4 DEF Next

LEMMA AccountsInvariant == Spec => []AccountInv
<1>1. Init => AccountInv
  BY AuthAssumption DEF Init, CallsInit, AccountInv, Issued, LinkedAccountsAreTravelers,
     Holds, Found
<1>2. IInv /\ AccountInv /\ [Next]_vars => AccountInv'
  BY NextHolds
<1> QED
  BY Invariance, <1>1, <1>2, PTL DEF Spec

(* Whatever registrations, social logins and changes of accounts overlap,  *)
(* a social identity is linked to a traveler.                              *)
THEOREM LinksStay == Spec => []LinkedAccountsAreTravelers
<1>1. AccountInv => LinkedAccountsAreTravelers
  BY DEF AccountInv
<1> QED
  BY AccountsInvariant, <1>1, PTL

-----------------------------------------------------------------------------
(* Sessions end: whoever ends them knows all that were issued before.      *)

(* The steps of an operation.                                              *)
StepsOf(op) ==
  CASE op = "register"       -> {"findUser", "createUser", "cooldown", "invalidate",
                                 "createCode", "setCooldown"}
    [] op = "resend"         -> {"findUser", "cooldown", "invalidate", "createCode",
                                 "setCooldown"}
    [] op = "verifyEmail"    -> {"findUser", "findCode", "useCode", "markVerified",
                                 "createSession"}
    [] op = "login"          -> {"lockCheck", "credentials", "countFailure", "lock",
                                 "clearAttempts", "createSession"}
    [] op = "loginCode"      -> {"lockCheck", "findUser", "findCode", "useCode",
                                 "createSession"}
    [] op = "social"         -> {"findIdentity", "findByEmail", "createSocialUser",
                                 "linkIdentity", "markVerified", "createSession"}
    [] op = "refresh"        -> {"findToken", "revokeToken", "createSession"}
    [] op = "reset"          -> {"findUser", "findCode", "useCode", "setPassword", "revokeAll"}
    [] op = "adminLogin"     -> {"credentials"}
    [] op = "adminTwoFactor" -> {"checkFactor", "confirmFactor", "createSession"}
    [] op = "logout"         -> {"authenticate", "status", "blacklist", "revokeByValue"}
    [] op = "logoutAll"      -> {"authenticate", "status", "blacklist", "revokeAll"}
    [] op = "revokeSession"  -> {"authenticate", "status", "findSession", "revokeToken"}
    [] op = "deactivate"     -> {"authenticate", "status", "setStatus", "revokeAll"}
    [] op = "change"         -> {"authenticate", "status", "credentials", "setPassword"}
    [] op = "setStatus"      -> {"authenticate", "status", "findUser", "setStatus",
                                 "revokeAll"}
    [] OTHER                 -> {}

(* A call is at a step of its own operation.                               *)
AtStepOfCall ==
  \A r \in Requests : pc[r] # "idle" =>
    pc[r] \in StepsOf(call[r].op) \cup Answered

LEMMA StepsStepOfCall ==
  ASSUME IInv, AtStepOfCall, NEW r \in Requests, Step(r) \/ Fail(r)
  PROVE  pc'[r] \in StepsOf(call'[r].op) \cup Answered
<1> USE DEF Goto, Answered
<1>1. /\ pc[r] # "idle" => call[r] \in AuthCalls /\ pc[r] \in StepsOf(call[r].op) \cup Answered
      /\ r \in DOMAIN pc
  BY DEF AtStepOfCall, IInv, Shape, Knows
<1>2. CASE Receive(r)
  <2>1. PICK c \in AuthCalls : call' = [call EXCEPT ![r] = c]
    BY <1>2 DEF Receive, Begin
  <2>2. call'[r] = c /\ pc'[r] = FirstStep(c)
    BY <1>1, <1>2, <2>1 DEF Receive, StartAt, IInv, Shape
  <2> QED
    BY <2>2, Fields DEF FirstStep, StepsOf
<1>3. CASE \/ Authenticate(r) \/ FindUser(r) \/ CreateUser(r) \/ CheckCooldown(r)
           \/ InvalidateCodes(r) \/ CreateCode(r) \/ SetCooldown(r) \/ FindCode(r)
  BY <1>1, <1>3, Fields DEF Authenticate, FindUser, CreateUser, CheckCooldown, InvalidateCodes, 
     CreateCode, SetCooldown, FindCode, AfterUser, StepsOf
<1>4. CASE CheckStatus(r) \/ UseCode(r) \/ MarkVerified(r) \/ CheckLock(r)
  BY <1>1, <1>4, Fields DEF CheckStatus, AfterStatus, UseCode, MarkVerified, CheckLock, Admit,
     StepsOf
<1>5. CASE \/ CheckCredentials(r) \/ CountFailure(r) \/ Lock(r) \/ ClearAttempts(r)
           \/ CheckFactor(r) \/ ConfirmFactor(r) \/ FindIdentity(r) \/ FindByEmail(r)
  BY <1>1, <1>5, Fields DEF CheckCredentials, CountFailure, Lock, ClearAttempts, CheckFactor,
     ConfirmFactor, FindIdentity, FindByEmail, Admit, StepsOf
<1>6. CASE \/ CreateSocialUser(r) \/ LinkIdentity(r) \/ FindToken(r) \/ RevokeToken(r)
           \/ CreateSession(r) \/ Blacklist(r) \/ RevokeByValue(r) \/ RevokeAll(r)
  BY <1>1, <1>6, Fields DEF CreateSocialUser, LinkIdentity, FindToken, RevokeToken,
     CreateSession, Blacklist, RevokeByValue, RevokeAll, Admit, StepsOf
<1>7. CASE FindSession(r) \/ SetPassword(r) \/ SetStatus(r) \/ Fail(r)
  BY <1>1, <1>7, Fields DEF FindSession, SetPassword, SetStatus, Fail, Break, StepsOf
<1> QED
  BY <1>2, <1>3, <1>4, <1>5, <1>6, <1>7 DEF Step

(* The history of a call is written when it comes in.                      *)
LEMMA HistoryIsWrittenOnce ==
  ASSUME NEW r \in Requests, Step(r) \/ Fail(r), ~Receive(r)
  PROVE  before' = before /\ pc[r] # "idle"
<1> USE DEF locals
<1>1. CASE \/ Authenticate(r) \/ CheckStatus(r) \/ FindUser(r) \/ CreateUser(r)
           \/ CheckCooldown(r) \/ InvalidateCodes(r) \/ CreateCode(r) \/ SetCooldown(r)
  BY <1>1 DEF Authenticate, CheckStatus, FindUser, CreateUser, CheckCooldown,
              InvalidateCodes, CreateCode, SetCooldown
<1>2. CASE \/ FindCode(r) \/ UseCode(r) \/ MarkVerified(r) \/ CheckLock(r)
           \/ CheckCredentials(r) \/ CountFailure(r) \/ Lock(r) \/ ClearAttempts(r)
  BY <1>2 DEF FindCode, UseCode, MarkVerified, CheckLock, CheckCredentials, CountFailure,
              Lock, ClearAttempts
<1>3. CASE \/ CheckFactor(r) \/ ConfirmFactor(r) \/ FindIdentity(r) \/ FindByEmail(r)
           \/ CreateSocialUser(r) \/ LinkIdentity(r) \/ FindToken(r) \/ RevokeToken(r)
  BY <1>3 DEF CheckFactor, ConfirmFactor, FindIdentity, FindByEmail, CreateSocialUser,
              LinkIdentity, FindToken, RevokeToken
<1>4. CASE \/ CreateSession(r) \/ Blacklist(r) \/ RevokeByValue(r) \/ RevokeAll(r)
           \/ FindSession(r) \/ SetPassword(r) \/ SetStatus(r) \/ Fail(r)
  BY <1>4 DEF CreateSession, Blacklist, RevokeByValue, RevokeAll, FindSession, SetPassword,
              SetStatus, Fail, Break, Active
<1> QED
  BY <1>1, <1>2, <1>3, <1>4 DEF Step

(* A call that is to end sessions is answered when it has ended them.      *)
LEMMA EndsBeforeItsAnswer ==
  ASSUME IInv, AtStepOfCall, NEW r \in Requests, Step(r) \/ Fail(r), ~RevokeAll(r),
         EndsSessions(call'[r])
  PROVE  pc'[r] # "ok"
<1> USE DEF Goto, Answered, EndsSessions
<1>1. /\ pc[r] # "idle" => call[r] \in AuthCalls /\ pc[r] \in StepsOf(call[r].op) \cup Answered
      /\ r \in DOMAIN pc
  BY DEF AtStepOfCall, IInv, Shape, Knows
<1>2. CASE Receive(r)
  <2>1. PICK c \in AuthCalls : call' = [call EXCEPT ![r] = c]
    BY <1>2 DEF Receive, Begin
  <2>2. call'[r] = c /\ pc'[r] = FirstStep(c)
    BY <1>1, <1>2, <2>1 DEF Receive, StartAt, IInv, Shape
  <2> QED
    BY <2>2, Fields DEF FirstStep
<1>3. CASE \/ Authenticate(r) \/ CheckStatus(r) \/ FindUser(r) \/ CreateUser(r)
           \/ CheckCooldown(r) \/ InvalidateCodes(r) \/ CreateCode(r) \/ SetCooldown(r)
  BY <1>1, <1>3, Fields DEF Authenticate, CheckStatus, AfterStatus, FindUser, AfterUser,
     CreateUser, CheckCooldown, InvalidateCodes, CreateCode, SetCooldown, StepsOf
<1>4. CASE \/ FindCode(r) \/ UseCode(r) \/ MarkVerified(r) \/ CheckLock(r)
           \/ CheckCredentials(r) \/ CountFailure(r) \/ Lock(r) \/ ClearAttempts(r)
  BY <1>1, <1>4, Fields DEF FindCode, UseCode, MarkVerified, CheckLock, CheckCredentials,
     CountFailure, Lock, ClearAttempts, Admit, StepsOf
<1>5. CASE \/ CheckFactor(r) \/ ConfirmFactor(r) \/ FindIdentity(r) \/ FindByEmail(r)
           \/ CreateSocialUser(r) \/ LinkIdentity(r) \/ FindToken(r)
  BY <1>1, <1>5, Fields DEF CheckFactor, ConfirmFactor, FindIdentity, FindByEmail,
     CreateSocialUser, LinkIdentity, FindToken, Admit, StepsOf
<1>6. CASE \/ CreateSession(r) \/ Blacklist(r) \/ RevokeByValue(r) \/ RevokeToken(r)
           \/ FindSession(r) \/ SetPassword(r) \/ SetStatus(r) \/ Fail(r)
  BY <1>1, <1>6, Fields DEF CreateSession, Blacklist, RevokeByValue, RevokeToken, FindSession,
     SetPassword, SetStatus, Fail, Break, StepsOf
<1> QED
  BY <1>2, <1>3, <1>4, <1>5, <1>6 DEF Step

(* The sessions that were there when a call came in were issued before, so *)
(* that what is issued later is none of them.                              *)
EndInv ==
  /\ AtStepOfCall
  /\ SessionsEnd
  /\ before \in [Requests -> SUBSET Requests]
  /\ \A r \in Requests : before[r] \subseteq Issued

LEMMA EndStep ==
  ASSUME IInv, EndInv, Kept, NEW r \in Requests, Step(r) \/ Fail(r)
  PROVE  EndInv'
<1>1. Alone(r) /\ Issued \subseteq Issued'
  BY OneMoves DEF Kept, Issued
<1>2. AtStepOfCall'
  <2> SUFFICES ASSUME NEW o \in Requests, pc'[o] # "idle"
               PROVE  pc'[o] \in StepsOf(call'[o].op) \cup Answered
    BY DEF AtStepOfCall, Answered, StepsOf
  <2> QED
    BY <1>1, StepsStepOfCall DEF Alone, EndInv, AtStepOfCall
<1>3. \E b \in SUBSET Issued : before' = [before EXCEPT ![r] = b] \/ before' = before
  <2>1. CASE Receive(r)
    BY <2>1 DEF Receive, Live
  <2>2. CASE ~Receive(r)
    BY <2>2, HistoryIsWrittenOnce
  <2> QED
    BY <2>1, <2>2
<1>4. /\ before' \in [Requests -> SUBSET Requests]
      /\ \A o \in Requests \ {r} : before'[o] = before[o]
      /\ before'[r] \subseteq Issued
  BY <1>3 DEF EndInv, Issued
<1>5. SessionsEnd'
  <2> SUFFICES ASSUME NEW o \in Requests, pc'[o] = "ok", EndsSessions(call'[o]),
                      NEW x \in before'[o] \cap (LiveOf(who[o]))'
               PROVE  FALSE
    BY DEF SessionsEnd
  <2>1. /\ x \in Requests /\ sessions'[x] # None /\ ~sessions'[x].revoked
        /\ sessions'[x].user = who'[o]
    BY DEF LiveOf, Live, Issued
  <2>2. x \in Issued
    BY <1>4 DEF EndInv
  <2>3. ~sessions[x].revoked /\ sessions[x].user = who'[o]
    BY <2>1, <2>2 DEF Kept
  <2>4. CASE o # r
    <3>1. pc[o] = "ok" /\ EndsSessions(call[o]) /\ who[o] = who'[o] /\ before[o] = before'[o]
      BY <1>1, <1>4, <2>4 DEF Alone
    <3> QED
      BY <2>2, <2>3, <3>1 DEF EndInv, SessionsEnd, LiveOf, Live
  <2>5. CASE o = r
    <3>1. RevokeAll(r)
      BY <2>5, EndsBeforeItsAnswer DEF EndInv
    <3>2. sessions' = Revoked(LiveOf(who[r])) /\ who' = who
      BY <3>1 DEF RevokeAll, locals
    <3>3. x \in LiveOf(who[r])
      BY <2>2, <2>3, <2>5, <3>2 DEF LiveOf, Live
    <3>4. sessions'[x].revoked
      BY <3>2, <3>3, Ended DEF IInv, LiveOf, Live
    <3> QED
      BY <2>1, <3>4
  <2> QED
    BY <2>4, <2>5
<1> QED
  BY <1>1, <1>2, <1>4, <1>5 DEF EndInv

LEMMA EndsInvariant == Spec => []EndInv
<1>1. Init => EndInv
  BY DEF Init, CallsInit, EndInv, AtStepOfCall, SessionsEnd
<1>2. ASSUME IInv, EndInv, [Next]_vars
      PROVE  EndInv'
  <2>1. ASSUME NEW r \in Requests, Step(r) \/ Fail(r)
        PROVE  EndInv'
    BY <1>2, <2>1, NextKeeps, EndStep
  <2>2. ASSUME UNCHANGED <<pc, call, who, sessions, before>>
        PROVE  EndInv'
    BY <1>2, <2>2, ZenonT(60) DEF EndInv, AtStepOfCall, SessionsEnd, LiveOf, Live, Issued,
       Answered, StepsOf, EndsSessions
  <2>3. CASE (\E e \in Emails : Expire(e)) \/ Done \/ UNCHANGED vars
    BY <2>2, <2>3 DEF Expire, Done, vars, calls, people, tokens, locals
  <2> QED
    BY <1>2, <2>1, <2>3 DEF Next
<1> QED
  BY Invariance, <1>1, <1>2, PTL DEF Spec

(* Whatever logs in, rotates or breaks off meanwhile, a session that was   *)
(* there when a call to end them came in does not outlast its answer.      *)
THEOREM SessionsAreEnded == Spec => []SessionsEnd
<1>1. EndInv => SessionsEnd
  BY DEF EndInv
<1> QED
  BY EndsInvariant, <1>1, PTL

-----------------------------------------------------------------------------
(* Types: what the invariants above leave open, Rest, and the theorem.     *)

LEMMA MaxIsIn ==
  ASSUME NEW n \in Nat, NEW S \in SUBSET (1..n), S # {}
  PROVE  Max(S) \in S /\ \A x \in S : x <= Max(S)
<1> DEFINE T == {k \in Nat : n - k \in S}
<1>1. T # {}
  <2>1. PICK x \in S : TRUE
    OBVIOUS
  <2>2. x \in 1..n /\ n - x \in Nat /\ n - (n - x) = x
    OBVIOUS
  <2> QED
    BY <2>1, <2>2
<1>2. PICK k \in T : \A y \in T : k <= y
  <2>1. T \in SUBSET Nat
    OBVIOUS
  <2> HIDE DEF T
  <2> QED
    BY <1>1, <2>1, LeastNatural
<1>3. ASSUME NEW y \in S
      PROVE  n - y \in Nat /\ y = n - (n - y)
  BY y \in 1..n
<1>4. n - k \in S /\ \A y \in S : y <= n - k
  BY <1>2, <1>3
<1> QED
  BY <1>4 DEF Max

(* What Shape and AccountInv leave out.                                    *)
Rest ==
  /\ load \in Loads
  /\ \A r \in Requests : call[r] \in Script[load][r] \cup {None}
  /\ twoFactor \in [Emails -> Factors]
  /\ codes \in Seq(Codes)
  /\ cooldowns \subseteq Emails \X CodeTypes
  /\ attempts \in [Emails -> Nat]
  /\ locked \subseteq Emails
  /\ blacklist \subseteq Requests
  /\ read \in [Requests -> Accounts \cup {None}]
  /\ DOMAIN picked = Requests
  /\ \A r \in Requests : picked[r] \subseteq DOMAIN codes

LEMMA CodeTypesOfCalls ==
  ASSUME NEW c \in AuthCalls
  PROVE  /\ TypeOfCode(c) \in CodeTypes
         /\ c.op \in {"logout", "logoutAll"} => c.by \in Requests
<1>1. CASE c \in PublicCalls
  BY <1>1 DEF PublicCalls, TypeOfCode, CodeTypes
<1>2. CASE c \in BearerCalls
  BY <1>2 DEF BearerCalls, TypeOfCode, CodeTypes
<1> QED
  BY <1>1, <1>2 DEF AuthCalls

(* Codes that are used up are the codes they were, but for that.           *)
LEMMA UsedCodes ==
  ASSUME codes \in Seq(Codes), NEW picks
  PROVE  /\ UsedUp(picks) \in Seq(Codes)
         /\ DOMAIN UsedUp(picks) = DOMAIN codes
         /\ Len(UsedUp(picks)) = Len(codes)
         /\ \A i \in DOMAIN codes :
              /\ UsedUp(picks)[i].used <=> codes[i].used \/ i \in picks
              /\ UsedUp(picks)[i].email = codes[i].email
              /\ UsedUp(picks)[i].type = codes[i].type
              /\ UsedUp(picks)[i].code = codes[i].code
<1>1. \A i \in DOMAIN codes : codes[i] \in Codes
  OBVIOUS
<1>2. \A i \in DOMAIN codes :
        /\ UsedUp(picks)[i] \in Codes
        /\ UsedUp(picks)[i].used <=> codes[i].used \/ i \in picks
        /\ UsedUp(picks)[i].email = codes[i].email
        /\ UsedUp(picks)[i].type = codes[i].type
        /\ UsedUp(picks)[i].code = codes[i].code
  BY <1>1 DEF UsedUp, Codes
<1>3. UsedUp(picks) \in [1..Len(codes) -> Codes]
  BY <1>2 DEF UsedUp
<1>4. UsedUp(picks) \in Seq(Codes) /\ Len(UsedUp(picks)) = Len(codes)
  BY <1>3
<1> QED
  BY <1>2, <1>4 DEF UsedUp

(* The steps of one-time codes.                                            *)
LEMMA CodesAreTyped ==
  ASSUME IInv, AccountInv, AtStepOfCall, Rest, NEW r \in Requests,
         \/ FindUser(r) \/ CreateUser(r) \/ CheckCooldown(r) \/ InvalidateCodes(r)
         \/ CreateCode(r) \/ SetCooldown(r) \/ FindCode(r) \/ UseCode(r) \/ MarkVerified(r)
  PROVE  Rest'
<1> USE DEF Goto, people, otp, logins, tokens, locals
<1>1. /\ call[r] \in AuthCalls /\ who[r] \in Emails /\ accounts[who[r]] \in Accounts \cup {None}
      /\ TypeOfCode(call[r]) \in CodeTypes
  <2>1. pc[r] \notin Nameless
    BY DEF FindUser, CreateUser, CheckCooldown, InvalidateCodes, CreateCode, SetCooldown,
       FindCode, UseCode, MarkVerified, Nameless
  <2> QED
    BY <2>1, CodeTypesOfCalls DEF IInv, Knows, AccountInv, Nameless
<1>2. CASE FindUser(r) \/ CreateUser(r) \/ CheckCooldown(r) \/ MarkVerified(r)
  BY <1>1, <1>2 DEF FindUser, CreateUser, CheckCooldown, MarkVerified, Rest
<1>3. CASE InvalidateCodes(r)
  BY <1>1, <1>3 DEF InvalidateCodes, Unused, Rest
<1>4. CASE CreateCode(r)
  <2>1. [email |-> who[r], type |-> TypeOfCode(call[r]), code |-> r, used |-> FALSE] \in Codes
    BY <1>1 DEF Codes
  <2>2. codes' \in Seq(Codes) /\ DOMAIN codes \subseteq DOMAIN codes'
    BY <1>4, <2>1, UsedCodes DEF CreateCode, Rest
  <2> QED
    BY <1>4, <2>2 DEF CreateCode, Rest
<1>5. CASE SetCooldown(r)
  BY <1>1, <1>5 DEF SetCooldown, Rest
<1>6. CASE FindCode(r)
  <2>1. PICK picks \in SUBSET DOMAIN codes :
          picked' = picked \/ picked' = [picked EXCEPT ![r] = picks]
    <3>1. CASE Unused(who[r], TypeOfCode(call[r])) = {}
      BY <1>6, <3>1 DEF FindCode
    <3>2. CASE Unused(who[r], TypeOfCode(call[r])) # {}
      <4>1. /\ Unused(who[r], TypeOfCode(call[r])) \in SUBSET (1..Len(codes))
            /\ Len(codes) \in Nat /\ DOMAIN codes = 1..Len(codes)
        BY DEF Unused, Rest
      <4>2. Max(Unused(who[r], TypeOfCode(call[r]))) \in DOMAIN codes
        BY <3>2, <4>1, MaxIsIn
      <4> QED
        BY <1>6, <4>2 DEF FindCode
    <3> QED
      BY <3>1, <3>2
  <2>2. DOMAIN picked' = Requests /\ \A o \in Requests : picked'[o] \subseteq DOMAIN codes
    BY <2>1 DEF Rest
  <2> QED
    BY <1>6, <2>2 DEF FindCode, Rest
<1>7. CASE UseCode(r)
  BY <1>7, UsedCodes DEF UseCode, Rest
<1> QED
  BY <1>2, <1>3, <1>4, <1>5, <1>6, <1>7

LEMMA OthersAreTyped ==
  ASSUME IInv, AccountInv, AtStepOfCall, Rest, NEW r \in Requests,
         Step(r) \/ Fail(r),
         ~FindUser(r), ~CreateUser(r), ~CheckCooldown(r), ~InvalidateCodes(r),
         ~CreateCode(r), ~SetCooldown(r), ~FindCode(r), ~UseCode(r), ~MarkVerified(r)
  PROVE  Rest'
<1> USE DEF Goto, people, otp, logins, tokens, locals
<1>1. /\ pc[r] # "idle" => call[r] \in AuthCalls /\ pc[r] \in StepsOf(call[r].op) \cup Answered
      /\ pc[r] \notin Nameless => who[r] \in Emails /\ accounts[who[r]] \in Accounts \cup {None}
  BY DEF IInv, Knows, AccountInv, AtStepOfCall, Nameless
<1>2. CASE Receive(r)
  <2>1. PICK c \in Script[load][r] : call' = [call EXCEPT ![r] = c]
    BY <1>2 DEF Receive, Begin
  <2> QED
    BY <1>2, <2>1 DEF Receive, Begin, Rest
<1>3. CASE \/ Authenticate(r) \/ CheckStatus(r) \/ CheckLock(r) \/ CheckFactor(r)
           \/ FindIdentity(r) \/ LinkIdentity(r) \/ FindToken(r) \/ Fail(r)
  BY <1>3 DEF Authenticate, CheckStatus, CheckLock, CheckFactor, FindIdentity, LinkIdentity,
     FindToken, Fail, Break, Rest
<1>4. CASE CheckCredentials(r) \/ FindByEmail(r)
  BY <1>1, <1>4 DEF CheckCredentials, FindByEmail, Nameless, Rest
<1>5. CASE CreateSocialUser(r)
  <2>1. NewAccount("traveler", None, TRUE) \in Accounts
    BY DEF NewAccount, Accounts, Roles
  <2> QED
    BY <1>5, <2>1 DEF CreateSocialUser, Rest
<1>6. CASE CountFailure(r) \/ Lock(r) \/ ClearAttempts(r)
  BY <1>1, <1>6 DEF CountFailure, Lock, ClearAttempts, Nameless, Rest
<1>7. CASE ConfirmFactor(r)
  BY <1>7 DEF ConfirmFactor, Factors, Rest
<1>8. CASE \/ RevokeToken(r) \/ CreateSession(r) \/ RevokeByValue(r) \/ RevokeAll(r)
           \/ FindSession(r) \/ SetPassword(r) \/ SetStatus(r)
  BY <1>8 DEF RevokeToken, CreateSession, RevokeByValue, RevokeAll, FindSession, SetPassword,
     SetStatus, Rest
<1>9. CASE Blacklist(r)
  <2>1. call[r].by \in Requests
    BY <1>1, <1>9, Fields, CodeTypesOfCalls DEF Blacklist, StepsOf, Answered
  <2> QED
    BY <1>9, <2>1 DEF Blacklist, Rest
<1> QED
  BY <1>2, <1>3, <1>4, <1>5, <1>6, <1>7, <1>8, <1>9 DEF Step

LEMMA RestInvariant == Spec => []Rest
<1>1. Init => Rest
  BY AuthAssumption, LoadAssumption DEF Init, CallsInit, Rest, Factors
<1>2. ASSUME IInv, AccountInv, EndInv, Rest, [Next]_vars
      PROVE  Rest'
  <2>1. ASSUME NEW r \in Requests, Step(r) \/ Fail(r)
        PROVE  Rest'
    BY <1>2, <2>1, CodesAreTyped, OthersAreTyped DEF EndInv
  <2>2. ASSUME NEW e \in Emails, Expire(e)
        PROVE  Rest'
    <3>1. /\ cooldowns' \subseteq Emails \X CodeTypes /\ attempts' \in [Emails -> Nat]
          /\ locked' \subseteq Emails
      <4>1. /\ cooldowns' = cooldowns \/ \E x : cooldowns' = cooldowns \ {x}
            /\ attempts' = attempts \/ attempts' = [attempts EXCEPT ![e] = 0]
            /\ locked' = locked \/ locked' = locked \ {e}
        BY <2>2 DEF Expire, logins
      <4>2. cooldowns \subseteq Emails \X CodeTypes /\ locked \subseteq Emails
        BY <1>2 DEF Rest
      <4>3. attempts \in [Emails -> Nat] => attempts' \in [Emails -> Nat]
        BY <4>1
      <4> QED
        BY <1>2, <4>1, <4>2, <4>3 DEF Rest
    <3> QED
      BY <1>2, <2>2, <3>1 DEF Expire, Rest, calls, people, tokens, locals
  <2>3. CASE Done \/ UNCHANGED vars
    BY <1>2, <2>3 DEF Rest, Done, vars, calls, people, otp, logins, tokens, locals
  <2> QED
    BY <1>2, <2>1, <2>2, <2>3 DEF Next
<1> QED
  BY Invariance, AccountsInvariant, EndsInvariant, <1>1, <1>2, PTL DEF Spec

(* Every variable keeps to its type, whatever calls overlap: among others, *)
(* a call uses up codes that there are, and who is blacklisted, locked or  *)
(* waits for another code is known.                                        *)
THEOREM TypeCorrect == Spec => []TypeOK
<1>1. IInv /\ AccountInv /\ EndInv /\ Rest => TypeOK
  BY DEF IInv, Shape, AccountInv, EndInv, Rest, TypeOK
<1> QED
  BY Invariance, AccountsInvariant, EndsInvariant, RestInvariant, <1>1, PTL

-----------------------------------------------------------------------------
(* Overlaps: what a step of one call does to those that are served with it.*)
LEMMA EarlierStep ==
  ASSUME EarlierIsOver, NEW r \in Requests, StepOf(r)
  PROVE  EarlierIsOver'
<1>1. earlier' \in [Requests -> SUBSET Requests]
  BY DEF EarlierIsOver, StepOf
<1>2. \A q \in Requests : \A o \in earlier'[q] : pc[o] \in Answered
  BY DEF EarlierIsOver, StepOf
<1> QED
  BY <1>1, <1>2 DEF EarlierIsOver, StepOf

(* The call that takes a step is a rival of all others that are served.    *)
LEMMA OthersMeet ==
  ASSUME EarlierIsOver, NEW r \in Requests, StepOf(r), NEW q \in Requests \ {r}
  PROVE  r \in Rivals(q)' /\ Rivals(q) \subseteq Rivals(q)' /\ earlier'[q] = earlier[q]
<1>1. earlier'[q] = earlier[q] /\ r \notin earlier[q]
  BY DEF EarlierIsOver, StepOf
<1> QED
  BY <1>1 DEF Rivals, StepOf

(* A call keeps its own rivals until it is answered.                       *)
LEMMA RivalsStay ==
  ASSUME EarlierIsOver, NEW r \in Requests, StepOf(r), pc[r] # "idle", pc'[r] \notin Answered
  PROVE  Rivals(r) \subseteq Rivals(r)' /\ earlier'[r] = earlier[r]
<1>1. earlier'[r] = earlier[r]
  BY DEF StepOf
<1> QED
  BY <1>1 DEF Rivals, StepOf

-----------------------------------------------------------------------------
(* What every step of a call keeps to.                                     *)
LEMMA StepsAreOfCalls ==
  ASSUME IInv, NEW r \in Requests, Step(r) \/ Fail(r)
  PROVE  StepOf(r)
<1> USE DEF Goto, Answered
<1>1. /\ \A o \in Requests \ {r} : pc'[o] = pc[o] /\ call'[o] = call[o]
      /\ r \in DOMAIN pc
  BY OneMoves DEF Alone, IInv, Shape
<1>2. CASE Receive(r)
  <2>1. FirstStep(call'[r]) \notin Answered \cup {"idle"}
    BY DEF FirstStep
  <2> QED
    BY <1>1, <1>2, <2>1 DEF Receive, Begin, StartAt, StepOf
<1>3. CASE \/ Authenticate(r) \/ CheckStatus(r) \/ FindUser(r) \/ CreateUser(r)
           \/ CheckCooldown(r) \/ InvalidateCodes(r) \/ CreateCode(r) \/ SetCooldown(r)
  BY <1>1, <1>3 DEF Authenticate, CheckStatus, AfterStatus, FindUser, AfterUser, CreateUser,
     CheckCooldown, InvalidateCodes, CreateCode, SetCooldown, StepOf
<1>4. CASE \/ FindCode(r) \/ UseCode(r) \/ MarkVerified(r) \/ CheckLock(r)
           \/ CheckCredentials(r) \/ CountFailure(r) \/ Lock(r) \/ ClearAttempts(r)
  BY <1>1, <1>4 DEF FindCode, UseCode, MarkVerified, CheckLock, CheckCredentials,
     CountFailure, Lock, ClearAttempts, Admit, StepOf
<1>5. CASE \/ CheckFactor(r) \/ ConfirmFactor(r) \/ FindIdentity(r) \/ FindByEmail(r)
           \/ CreateSocialUser(r) \/ LinkIdentity(r) \/ FindToken(r) \/ RevokeToken(r)
  BY <1>1, <1>5 DEF CheckFactor, ConfirmFactor, FindIdentity, FindByEmail, CreateSocialUser,
     LinkIdentity, FindToken, RevokeToken, Admit, StepOf
<1>6. CASE \/ CreateSession(r) \/ Blacklist(r) \/ RevokeByValue(r) \/ RevokeAll(r)
           \/ FindSession(r) \/ SetPassword(r) \/ SetStatus(r) \/ Fail(r)
  BY <1>1, <1>6 DEF CreateSession, Blacklist, RevokeByValue, RevokeAll, FindSession,
     SetPassword, SetStatus, Fail, Break, StepOf, Active
<1> QED
  BY <1>2, <1>3, <1>4, <1>5, <1>6 DEF Step

-----------------------------------------------------------------------------
(* One-time codes: what the calls that issue and use one know of those     *)
(* that were answered before they came in.                                 *)

(* The calls that have used a code.                                        *)
Users ==
  {r \in Requests : /\ pc[r] \in {"markVerified", "createSession", "setPassword",
                                  "revokeAll", "ok"}
                    /\ UsesCode(call[r])}

(* Who has used a code has picked one, which is used; who issues one has   *)
(* picked all that callers can have got before; and nobody has picked the  *)
(* code of a call that was answered before.                                *)
CodeKnown(r) ==
  /\ pc[r] = "createCode" =>
       \A i \in Unused(who[r], TypeOfCode(call[r])) :
         codes[i].code \in earlier[r] => i \in picked[r]
  /\ pc[r] = "useCode" => \E i \in DOMAIN codes : picked[r] = {i}
  /\ r \in Users => \E i \in DOMAIN codes : picked[r] = {i} /\ codes[i].used
  /\ pc[r] = "useCode" \/ r \in Users =>
       \A s \in earlier[r] \cap Users : picked[s] # picked[r]

(* What a step does to the codes.                                          *)
CodesGrow(r) ==
  /\ DOMAIN codes \subseteq DOMAIN codes'
  /\ \A i \in DOMAIN codes :
       /\ codes'[i].email = codes[i].email /\ codes'[i].type = codes[i].type
       /\ codes'[i].code = codes[i].code /\ (codes[i].used => codes'[i].used)
  /\ \A i \in DOMAIN codes' \ DOMAIN codes : codes'[i].code = r

(* Codes are written, and picked, by four steps only.                      *)
LEMMA OthersPickNothing ==
  ASSUME NEW r \in Requests, Step(r) \/ Fail(r), ~InvalidateCodes(r), ~CreateCode(r),
         ~FindCode(r), ~UseCode(r)
  PROVE  UNCHANGED <<codes, picked>>
<1> USE DEF otp, locals
<1>1. CASE \/ Receive(r) \/ Authenticate(r) \/ CheckStatus(r) \/ FindUser(r)
           \/ CreateUser(r) \/ CheckCooldown(r) \/ SetCooldown(r)
  BY <1>1 DEF Receive, Authenticate, CheckStatus, FindUser, CreateUser, CheckCooldown,
              SetCooldown
<1>2. CASE \/ MarkVerified(r) \/ CheckLock(r) \/ CheckCredentials(r) \/ CountFailure(r)
           \/ Lock(r) \/ ClearAttempts(r) \/ CheckFactor(r) \/ ConfirmFactor(r)
  BY <1>2 DEF MarkVerified, CheckLock, CheckCredentials, CountFailure, Lock, ClearAttempts,
              CheckFactor, ConfirmFactor
<1>3. CASE \/ FindIdentity(r) \/ FindByEmail(r) \/ CreateSocialUser(r) \/ LinkIdentity(r)
           \/ FindToken(r) \/ RevokeToken(r) \/ CreateSession(r)
  BY <1>3 DEF FindIdentity, FindByEmail, CreateSocialUser, LinkIdentity, FindToken,
              RevokeToken, CreateSession
<1>4. CASE \/ Blacklist(r) \/ RevokeByValue(r) \/ RevokeAll(r) \/ FindSession(r)
           \/ SetPassword(r) \/ SetStatus(r) \/ Fail(r)
  BY <1>4 DEF Blacklist, RevokeByValue, RevokeAll, FindSession, SetPassword, SetStatus, Fail
<1> QED
  BY <1>1, <1>2, <1>3, <1>4 DEF Step

(* The other calls are where they were.                                    *)
LEMMA OthersUseNothing ==
  ASSUME NEW r \in Requests, StepOf(r)
  PROVE  \A o \in Requests \ {r} : o \in Users' <=> o \in Users
BY DEF StepOf, Users, UsesCode

(* The steps that write and pick no code.                                  *)
LEMMA NobodyPicks ==
  ASSUME IInv, AtStepOfCall, NEW r \in Requests, Step(r) \/ Fail(r),
         ~InvalidateCodes(r), ~CreateCode(r), ~FindCode(r), ~UseCode(r)
  PROVE  /\ r \in Users' => r \in Users
         /\ pc'[r] \notin {"createCode", "useCode"}
<1> USE DEF Goto, Answered, Users, UsesCode
<1>1. /\ pc[r] # "idle" => call[r] \in AuthCalls /\ pc[r] \in StepsOf(call[r].op) \cup Answered
      /\ r \in DOMAIN pc
  BY DEF AtStepOfCall, IInv, Shape, Knows
<1>2. CASE Receive(r)
  <2>1. PICK c \in AuthCalls : call' = [call EXCEPT ![r] = c]
    BY <1>2 DEF Receive, Begin
  <2>2. call'[r] = c /\ pc'[r] = FirstStep(c)
    BY <1>1, <1>2, <2>1 DEF Receive, StartAt, IInv, Shape
  <2> QED
    BY <2>2, Fields DEF FirstStep
<1>3. CASE \/ Authenticate(r) \/ CheckStatus(r) \/ FindUser(r) \/ CreateUser(r)
           \/ CheckCooldown(r) \/ SetCooldown(r) \/ MarkVerified(r) \/ CheckLock(r)
  BY <1>1, <1>3, Fields DEF Authenticate, CheckStatus, AfterStatus, FindUser, AfterUser,
     CreateUser, CheckCooldown, SetCooldown, MarkVerified, CheckLock, Admit, StepsOf
<1>4. CASE \/ CheckCredentials(r) \/ CountFailure(r) \/ Lock(r) \/ ClearAttempts(r)
           \/ CheckFactor(r) \/ ConfirmFactor(r) \/ FindIdentity(r) \/ FindByEmail(r)
  BY <1>1, <1>4, Fields DEF CheckCredentials, CountFailure, Lock, ClearAttempts, CheckFactor,
     ConfirmFactor, FindIdentity, FindByEmail, Admit, StepsOf
<1>5. CASE \/ CreateSocialUser(r) \/ LinkIdentity(r) \/ FindToken(r) \/ RevokeToken(r)
           \/ CreateSession(r) \/ Blacklist(r) \/ RevokeByValue(r) \/ RevokeAll(r)
  BY <1>1, <1>5, Fields DEF CreateSocialUser, LinkIdentity, FindToken, RevokeToken,
     CreateSession, Blacklist, RevokeByValue, RevokeAll, Admit, StepsOf
<1>6. CASE FindSession(r) \/ SetPassword(r) \/ SetStatus(r) \/ Fail(r)
  BY <1>1, <1>6, Fields DEF FindSession, SetPassword, SetStatus, Fail, Break, StepsOf
<1> QED
  BY <1>2, <1>3, <1>4, <1>5, <1>6 DEF Step

(* Codes only get used, or are added by the call that takes the step.      *)
LEMMA CodesGrowAlways ==
  ASSUME Rest, NEW r \in Requests, Step(r) \/ Fail(r)
  PROVE  CodesGrow(r)
<1>1. codes \in Seq(Codes)
  BY DEF Rest
<1>2. CASE UNCHANGED codes
  BY <1>2 DEF CodesGrow
<1>3. CASE UseCode(r)
  BY <1>1, <1>3, UsedCodes DEF UseCode, CodesGrow
<1>4. CASE CreateCode(r)
  <2> DEFINE new == [email |-> who[r], type |-> TypeOfCode(call[r]), code |-> r, used |-> FALSE]
  <2>1. new.code = r
    OBVIOUS
  <2>2. codes' = Append(UsedUp(picked[r]), new)
    BY <1>4 DEF CreateCode
  <2> HIDE DEF new
  <2>3. /\ UsedUp(picked[r]) \in Seq(Codes) /\ Len(UsedUp(picked[r])) = Len(codes)
        /\ DOMAIN codes = 1..Len(codes) /\ Len(codes) \in Nat
    BY <1>1, UsedCodes
  <2>4. /\ DOMAIN codes' = 1..(Len(codes) + 1)
        /\ codes'[Len(codes) + 1] = new
        /\ \A i \in DOMAIN codes : codes'[i] = UsedUp(picked[r])[i]
    BY <2>2, <2>3
  <2>5. \A i \in DOMAIN codes' \ DOMAIN codes : i = Len(codes) + 1
    BY <2>3, <2>4
  <2>6. DOMAIN codes \subseteq DOMAIN codes'
    BY <2>3, <2>4
  <2>7. \A i \in DOMAIN codes :
          /\ codes'[i].email = codes[i].email /\ codes'[i].type = codes[i].type
          /\ codes'[i].code = codes[i].code /\ (codes[i].used => codes'[i].used)
    BY <1>1, <2>4, UsedCodes
  <2> QED
    BY <2>1, <2>4, <2>5, <2>6, <2>7 DEF CodesGrow
<1>5. CASE InvalidateCodes(r) \/ FindCode(r)
  BY <1>2, <1>5 DEF InvalidateCodes, FindCode, otp
<1> QED
  BY <1>2, <1>3, <1>4, <1>5, OthersPickNothing

(* What the other calls know stays true.                                   *)
LEMMA OthersStillKnow ==
  ASSUME IInv, EarlierIsOver, Rest, NEW r \in Requests, Step(r) \/ Fail(r), StepOf(r),
         NEW q \in Requests \ {r}, CodeKnown(q)
  PROVE  CodeKnown(q)'
<1>1. /\ pc'[q] = pc[q] /\ call'[q] = call[q] /\ who'[q] = who[q]
      /\ earlier'[q] = earlier[q] /\ r \notin earlier[q]
  BY OneMoves, OthersMeet DEF StepOf, Alone, EarlierIsOver
<1>2. \A o \in Requests \ {r} : picked'[o] = picked[o]
  <2>1. DOMAIN picked = Requests
    BY DEF Rest
  <2> QED
    BY <2>1, OthersPickNothing DEF InvalidateCodes, CreateCode, FindCode, UseCode, locals
<1>3. CodesGrow(r)
  BY CodesGrowAlways
<1>4. ASSUME pc[q] = "createCode", NEW i \in Unused(who[q], TypeOfCode(call[q]))',
             codes'[i].code \in earlier[q]
      PROVE  i \in picked[q]
  <2>1. i \in DOMAIN codes
    BY <1>1, <1>3, <1>4 DEF CodesGrow, Unused
  <2>2. i \in Unused(who[q], TypeOfCode(call[q])) /\ codes[i].code \in earlier[q]
    BY <1>1, <1>3, <1>4, <2>1 DEF CodesGrow, Unused, TypeOfCode
  <2> QED
    BY <1>4, <2>2 DEF CodeKnown
<1>5. ASSUME pc[q] = "useCode"
      PROVE  \E i \in DOMAIN codes' : picked[q] = {i}
  BY <1>3, <1>5 DEF CodeKnown, CodesGrow
<1>6. ASSUME q \in Users
      PROVE  \E i \in DOMAIN codes' : picked[q] = {i} /\ codes'[i].used
  BY <1>3, <1>6 DEF CodeKnown, CodesGrow
<1>7. ASSUME pc[q] = "useCode" \/ q \in Users, NEW s \in earlier[q] \cap Users'
      PROVE  picked'[s] # picked[q]
  <2>1. s \in Requests \ {r} /\ s \in Users
    BY <1>1, OthersUseNothing DEF Users
  <2> QED
    BY <1>2, <1>7, <2>1 DEF CodeKnown
<1>8. q \in Users' <=> q \in Users
  BY OthersUseNothing
<1> QED
  BY <1>1, <1>2, <1>4, <1>5, <1>6, <1>7, <1>8 DEF CodeKnown

LEMMA CodeStep ==
  ASSUME IInv, EarlierIsOver, Rest, AtStepOfCall, NEW r \in Requests, Step(r) \/ Fail(r),
         StepOf(r), \A s \in Requests : CodeKnown(s)
  PROVE  CodeKnown(r)'
<1>1. /\ pc[r] # "idle" => call[r] \in AuthCalls /\ pc[r] \in StepsOf(call[r].op) \cup Answered
      /\ r \in DOMAIN pc /\ r \in DOMAIN picked /\ codes \in Seq(Codes)
  BY DEF AtStepOfCall, IInv, Shape, Knows, Rest
<1>2. /\ pc[r] # "idle" => earlier'[r] \subseteq earlier[r]
      /\ r \notin earlier[r] /\ earlier[r] \subseteq Requests
      /\ \A o \in Requests \ {r} : o \in Users' <=> o \in Users
  BY OthersUseNothing DEF StepOf, EarlierIsOver, Answered
<1>3. CASE UNCHANGED <<codes, picked>> /\ pc'[r] \notin {"createCode", "useCode"}
           /\ (r \in Users' => r \in Users)
  <2>1. r \in Users' => pc[r] # "idle"
    BY <1>3 DEF Users
  <2>2. \A s \in earlier'[r] \cap Users' : r \in Users' => s \in earlier[r] \cap Users
    BY <1>2, <2>1
  <2> QED
    BY <1>3, <2>2 DEF CodeKnown
<1>4. CASE InvalidateCodes(r)
  <2>1. /\ codes' = codes /\ pc[r] = "invalidate" /\ pc' = [pc EXCEPT ![r] = "createCode"]
        /\ picked' = [picked EXCEPT ![r] = Unused(who[r], TypeOfCode(call[r]))]
        /\ UNCHANGED <<who, call>>
    BY <1>4 DEF InvalidateCodes, Goto, otp
  <2>2. pc'[r] = "createCode" /\ picked'[r] = Unused(who[r], TypeOfCode(call[r]))
    BY <1>1, <2>1
  <2>3. Unused(who[r], TypeOfCode(call[r]))' = Unused(who[r], TypeOfCode(call[r]))
    BY <2>1 DEF Unused, TypeOfCode
  <2> QED
    BY <2>2, <2>3 DEF CodeKnown, Users
<1>5. CASE CreateCode(r)
  <2>1. pc'[r] = "setCooldown"
    BY <1>1, <1>5 DEF CreateCode, Goto
  <2> QED
    BY <2>1 DEF CodeKnown, Users
<1>6. CASE FindCode(r)
  <2>1. CASE pc'[r] = "useCode"
    <3> DEFINE U == Unused(who[r], TypeOfCode(call[r]))
    <3>1. /\ U # {} /\ picked' = [picked EXCEPT ![r] = {Max(U)}]
          /\ codes' = codes /\ pc[r] = "findCode"
      BY <1>1, <1>6, <2>1 DEF FindCode, Goto, otp
    <3>2. U \in SUBSET (1..Len(codes)) /\ Len(codes) \in Nat
      BY <1>1 DEF Unused
    <3>3. Max(U) \in U
      <4> HIDE DEF U
      <4> QED
        BY <3>1, <3>2, MaxIsIn
    <3>4. Max(U) \in DOMAIN codes /\ ~codes[Max(U)].used
      BY <3>3 DEF Unused
    <3> HIDE DEF U
    <3>5. picked'[r] = {Max(U)} /\ \A o \in Requests \ {r} : picked'[o] = picked[o]
      BY <1>1, <3>1
    <3>6. \A s \in earlier'[r] \cap Users' : picked'[s] # picked'[r]
      <4> TAKE s \in earlier'[r] \cap Users'
      <4>1. s \in Requests \ {r} /\ s \in Users
        BY <1>2, <3>1
      <4>2. \E i \in DOMAIN codes : picked[s] = {i} /\ codes[i].used
        BY <4>1 DEF CodeKnown
      <4> QED
        BY <3>4, <3>5, <4>1, <4>2
    <3>7. r \notin Users'
      BY <2>1 DEF Users
    <3> QED
      BY <2>1, <3>1, <3>4, <3>5, <3>6, <3>7 DEF CodeKnown
  <2>2. CASE pc'[r] # "useCode"
    <3>1. UNCHANGED <<codes, picked>> /\ pc'[r] = "failed"
      BY <1>1, <1>6, <2>2 DEF FindCode, Goto, otp
    <3> QED
      BY <1>3, <3>1 DEF Users
  <2> QED
    BY <2>1, <2>2
<1>7. CASE UseCode(r)
  <2>1. /\ codes' = UsedUp(picked[r]) /\ picked' = picked /\ pc[r] = "useCode"
        /\ pc'[r] # "createCode" /\ pc'[r] # "useCode"
    BY <1>1, <1>7, Admits DEF UseCode, Goto, locals
  <2>2. PICK i \in DOMAIN codes : picked[r] = {i}
    BY <2>1 DEF CodeKnown
  <2>3. DOMAIN codes' = DOMAIN codes /\ codes'[i].used
    BY <1>1, <2>1, <2>2, UsedCodes
  <2>4. \A s \in earlier'[r] \cap Users' : picked[s] # picked[r]
    BY <1>2, <2>1 DEF CodeKnown
  <2> QED
    BY <2>1, <2>2, <2>3, <2>4 DEF CodeKnown
<1> QED
  BY <1>3, <1>4, <1>5, <1>6, <1>7, OthersPickNothing, NobodyPicks

(* The steps of codes and rotations are taken by the actions named so.     *)
LEMMA ActionsOfSteps ==
  ASSUME IInv, NEW r \in Requests, Step(r) \/ Fail(r), pc'[r] # "failed"
  PROVE  /\ pc[r] = "findUser" => FindUser(r)
         /\ pc[r] = "lockCheck" => CheckLock(r)
         /\ pc[r] = "createCode" => CreateCode(r)
         /\ pc[r] = "findCode" => FindCode(r)
         /\ pc[r] = "useCode" => UseCode(r)
         /\ pc[r] = "findToken" => FindToken(r)
<1>1. CASE \/ Receive(r) \/ Authenticate(r) \/ CheckStatus(r) \/ CreateUser(r)
           \/ CheckCooldown(r) \/ InvalidateCodes(r) \/ SetCooldown(r) \/ MarkVerified(r)
  BY <1>1 DEF Receive, Begin, Authenticate, CheckStatus, CreateUser, CheckCooldown,
     InvalidateCodes, SetCooldown, MarkVerified
<1>2. CASE \/ CheckCredentials(r) \/ CountFailure(r) \/ Lock(r) \/ ClearAttempts(r)
           \/ CheckFactor(r) \/ ConfirmFactor(r) \/ FindIdentity(r) \/ FindByEmail(r)
  BY <1>2 DEF CheckCredentials, CountFailure, Lock, ClearAttempts, CheckFactor, ConfirmFactor,
     FindIdentity, FindByEmail
<1>3. CASE \/ CreateSocialUser(r) \/ LinkIdentity(r) \/ RevokeToken(r) \/ CreateSession(r)
           \/ Blacklist(r) \/ RevokeByValue(r) \/ RevokeAll(r) \/ FindSession(r)
           \/ SetPassword(r) \/ SetStatus(r)
  BY <1>3 DEF CreateSocialUser, LinkIdentity, RevokeToken, CreateSession, Blacklist,
     RevokeByValue, RevokeAll, FindSession, SetPassword, SetStatus
<1>4. CASE \/ FindUser(r) \/ CheckLock(r) \/ CreateCode(r) \/ FindCode(r) \/ UseCode(r)
           \/ FindToken(r)
  BY <1>4 DEF FindUser, CheckLock, CreateCode, FindCode, UseCode, FindToken
<1>5. CASE Fail(r)
  BY <1>5 DEF Fail, Break, Goto, IInv, Shape
<1> QED
  BY <1>1, <1>2, <1>3, <1>4, <1>5 DEF Step

(* Who is let in with a code has used it.                                  *)
LEMMA CodeIsUsedFirst ==
  ASSUME IInv, AtStepOfCall, NEW r \in Requests, Step(r) \/ Fail(r),
         pc[r] \in AuthSteps, pc'[r] = "ok", UsesCode(call[r])
  PROVE  r \in Users
<1>1. pc[r] \in StepsOf(call[r].op) /\ r \in DOMAIN pc
  BY DEF AtStepOfCall, IInv, Shape, AuthSteps, Answered
<1>2. pc[r] \in {"findUser", "lockCheck", "findCode", "useCode"} \/ r \in Users
  BY <1>1 DEF StepsOf, UsesCode, Users
<1>3. CASE pc[r] \in {"findUser", "lockCheck"}
  BY <1>1, <1>3, ActionsOfSteps DEF FindUser, CheckLock, AfterUser, Goto, UsesCode
<1>4. CASE pc[r] \in {"findCode", "useCode"}
  BY <1>1, <1>4, ActionsOfSteps DEF FindCode, UseCode, Admit, Goto
<1> QED
  BY <1>2, <1>3, <1>4

-----------------------------------------------------------------------------
(* Rotations: a session that replaced another one has ended it, and a call *)
(* that rotates a token knows no answered call that did.                   *)
SuccessorsEnd ==
  \A x \in Issued : sessions[x].parent # None =>
    sessions[x].parent \in Issued /\ sessions[sessions[x].parent].revoked

Rotates(r) ==
  pc[r] \in {"revokeToken", "createSession"} /\ call[r].op = "refresh" =>
    \A x \in earlier[r] \cap Issued : sessions[x].parent # call[r].token

(* No step but the one that issues a session writes a parent.              *)
LEMMA ParentsStay ==
  ASSUME IInv, NEW r \in Requests, Step(r) \/ Fail(r)
  PROVE  /\ \A x \in Issued : sessions'[x].parent = sessions[x].parent
         /\ \A x \in Issued' \ Issued :
              /\ x = r /\ pc[r] = "createSession"
              /\ call[r].op # "refresh" => sessions'[x].parent = None
              /\ call[r].op = "refresh" => sessions'[x].parent = call[r].token
<1>1. CASE UNCHANGED sessions
  BY <1>1 DEF Issued
<1>2. ASSUME NEW xs \in SUBSET Issued, sessions' = Revoked(xs)
      PROVE  /\ \A x \in Issued : sessions'[x].parent = sessions[x].parent
             /\ Issued' \subseteq Issued
  <2>1. \A x \in Requests \ xs : sessions'[x] = sessions[x]
    BY <1>2 DEF Revoked
  <2>2. \A x \in xs : sessions[x] \in Sessions
                      /\ sessions'[x] = [sessions[x] EXCEPT !.revoked = TRUE]
    BY <1>2 DEF Issued, Revoked, IInv, Shape
  <2>3. \A x \in xs : sessions'[x].parent = sessions[x].parent
    BY <2>2 DEF Sessions
  <2> QED
    BY <2>1, <2>3 DEF Issued
<1>3. CASE RevokeToken(r) \/ RevokeByValue(r) \/ RevokeAll(r)
  <2>1. \E xs \in SUBSET Issued : sessions' = Revoked(xs)
    BY <1>3 DEF RevokeToken, RevokeByValue, RevokeAll, LiveOf, Live, IInv, Knows
  <2> QED
    BY <1>2, <2>1
<1>4. CASE CreateSession(r)
  <2> DEFINE row == [user |-> who[r], revoked |-> FALSE,
                     parent |-> IF call[r].op = "refresh" THEN call[r].token ELSE None,
                     confirmed |-> call[r].op = "adminTwoFactor"]
  <2>1. row.parent = IF call[r].op = "refresh" THEN call[r].token ELSE None
    OBVIOUS
  <2>2. sessions' = [sessions EXCEPT ![r] = row] /\ pc[r] = "createSession"
    BY <1>4 DEF CreateSession
  <2> HIDE DEF row
  <2>3. sessions[r] = None
    BY <2>2 DEF IInv, Knows, Answered
  <2>4. sessions'[r] = row /\ \A x \in Requests \ {r} : sessions'[x] = sessions[x]
    BY <2>2 DEF IInv, Shape
  <2> QED
    BY <2>1, <2>2, <2>3, <2>4 DEF Issued
<1> QED
  BY <1>1, <1>3, <1>4, OtherSteps

LEMMA RotationStep ==
  ASSUME IInv, EarlierIsOver, AtStepOfCall, SuccessorsEnd, \A q \in Requests : Rotates(q),
         NEW r \in Requests, Step(r) \/ Fail(r), StepOf(r)
  PROVE  SuccessorsEnd' /\ \A q \in Requests : Rotates(q)'
<1>1. Kept /\ Issued \subseteq Issued'
  BY OneMoves DEF Kept, Issued
<1>2. SuccessorsEnd'
  <2> SUFFICES ASSUME NEW x \in Issued', sessions'[x].parent # None
               PROVE  /\ sessions'[x].parent \in Issued'
                      /\ sessions'[sessions'[x].parent].revoked
    BY DEF SuccessorsEnd
  <2>1. sessions'[x].parent \in Issued /\ sessions[sessions'[x].parent].revoked
    BY ParentsStay DEF SuccessorsEnd, IInv, Knows
  <2> QED
    BY <1>1, <2>1 DEF Kept
<1>3. ASSUME NEW q \in Requests \ {r}
      PROVE  Rotates(q)'
  <2>1. /\ earlier'[q] = earlier[q] /\ r \notin earlier[q]
        /\ pc'[q] = pc[q] /\ call'[q] = call[q]
    BY OthersMeet DEF StepOf, EarlierIsOver
  <2>2. \A x \in earlier[q] \cap Issued' : x \in Issued /\ sessions'[x].parent = sessions[x].parent
    BY <2>1, ParentsStay
  <2> QED
    BY <2>1, <2>2 DEF Rotates
<1>4. Rotates(r)'
  <2> SUFFICES ASSUME pc'[r] \in {"revokeToken", "createSession"}, call'[r].op = "refresh",
                      NEW x \in earlier'[r] \cap Issued'
               PROVE  sessions'[x].parent # call'[r].token
    BY DEF Rotates
  <2>1. CASE Receive(r)
    <3>1. pc'[r] = FirstStep(call'[r])
      BY <2>1 DEF Receive, StartAt, IInv, Shape
    <3> QED
      BY <3>1 DEF FirstStep
  <2>2. CASE ~Receive(r)
    <3>1. pc[r] # "idle" /\ call'[r] = call[r]
      BY <2>2, HistoryIsWrittenOnce DEF StepOf
    <3>2. earlier'[r] = earlier[r] /\ r \notin earlier[r]
      BY <3>1, RivalsStay DEF StepOf, EarlierIsOver, Answered
    <3>3. x \in Issued /\ sessions'[x].parent = sessions[x].parent
      BY <3>2, ParentsStay
    <3>4. pc[r] \in {"findToken", "revokeToken", "createSession"}
      BY <3>1 DEF IInv, Knows, StepOf
    <3>5. CASE pc[r] = "findToken"
      <4>1. FindToken(r)
        BY <3>5, ActionsOfSteps
      <4>2. call[r].token \in Live
        BY <4>1 DEF FindToken, Goto, IInv, Shape
      <4>3. sessions[x].parent # None => sessions[sessions[x].parent].revoked
        BY <3>3 DEF SuccessorsEnd
      <4>4. call[r].token # None /\ ~sessions[call[r].token].revoked
        BY <4>2, AuthAssumption DEF Live, Issued
      <4> QED
        BY <3>1, <3>3, <4>3, <4>4
    <3>6. CASE pc[r] # "findToken"
      BY <3>1, <3>2, <3>3, <3>4, <3>6 DEF Rotates
    <3> QED
      BY <3>5, <3>6
  <2> QED
    BY <2>1, <2>2
<1> QED
  BY <1>2, <1>3, <1>4
-----------------------------------------------------------------------------
CodesInv ==
  /\ EarlierIsOver /\ SuccessorsEnd
  /\ \A r \in Requests : CodeKnown(r) /\ Rotates(r)

LEMMA CodesInvariant == Spec => []CodesInv
<1>1. Init => CodesInv
  BY DEF Init, CallsInit, CodesInv, EarlierIsOver, SuccessorsEnd, Issued, CodeKnown, Rotates, Users
<1>2. ASSUME IInv, EndInv, Rest, CodesInv, [Next]_vars
      PROVE  CodesInv'
  <2>1. ASSUME NEW r \in Requests, Step(r) \/ Fail(r)
        PROVE  CodesInv'
    <3>1. StepOf(r)
      BY <1>2, <2>1, StepsAreOfCalls
    <3>2. \A q \in Requests : CodeKnown(q)'
      BY <1>2, <2>1, <3>1, OthersStillKnow, CodeStep DEF CodesInv, EndInv
    <3>3. SuccessorsEnd' /\ \A q \in Requests : Rotates(q)'
      BY <1>2, <2>1, <3>1, RotationStep DEF CodesInv, EndInv
    <3> QED
      BY <1>2, <3>1, <3>2, <3>3, EarlierStep DEF CodesInv
  <2>2. CASE (\E e \in Emails : Expire(e)) \/ Done \/ UNCHANGED vars
    <3>1. UNCHANGED <<pc, call, earlier, codes, picked, who, sessions>>
      BY <2>2 DEF Expire, Done, vars, calls, people, otp, tokens, locals
    <3>2. EarlierIsOver' /\ SuccessorsEnd'
      BY <1>2, <3>1 DEF CodesInv, EarlierIsOver, SuccessorsEnd, Issued
    <3>3. \A r \in Requests : CodeKnown(r)'
      BY <1>2, <3>1 DEF CodesInv, CodeKnown, Users, UsesCode, Unused, TypeOfCode
    <3>4. \A r \in Requests : Rotates(r)'
      BY <1>2, <3>1 DEF CodesInv, Rotates, Issued
    <3> QED
      BY <3>2, <3>3, <3>4 DEF CodesInv
  <2> QED
    BY <1>2, <2>1, <2>2 DEF Next
<1> QED
  BY Invariance, EndsInvariant, RestInvariant, <1>1, <1>2, PTL DEF Spec

(* However calls overlap, a code lets in no call that came in when it had  *)
(* let one in, and replaces all that callers can have got before.          *)
THEOREM CodesAreUsedOnce == Spec => CodesWorkOnce
<1>1. ASSUME IInv, EndInv, Rest, CodesInv, [Next]_vars
      PROVE  \A r \in Requests :
               /\ pc[r] \in AuthSteps /\ pc'[r] = "ok" /\ UsesCode(call[r]) =>
                    \A s \in earlier[r] :
                      pc[s] = "ok" /\ UsesCode(call[s]) => picked[r] # picked[s]
               /\ pc[r] = "createCode" /\ pc'[r] = "setCooldown" =>
                    \A i \in Unused(who[r], TypeOfCode(call[r]))' :
                      codes'[i].code \notin earlier[r]
  <2> TAKE r \in Requests
  <2>1. /\ EarlierIsOver /\ CodeKnown(r) /\ earlier[r] \subseteq Requests
        /\ DOMAIN pc = Requests
    BY <1>1 DEF CodesInv, EarlierIsOver, IInv, Shape
  <2>2. ASSUME pc'[r] # pc[r]
        PROVE  (Step(r) \/ Fail(r)) /\ StepOf(r)
    <3>1. \A q \in Requests : Step(q) \/ Fail(q) => StepOf(q)
      BY <1>1, StepsAreOfCalls
    <3>2. PICK q \in Requests : Step(q) \/ Fail(q)
      BY <1>1, <2>2 DEF Next, Expire, Done, vars, calls
    <3>3. q = r
      BY <2>2, <3>1, <3>2 DEF StepOf
    <3> QED
      BY <3>1, <3>2, <3>3
  <2>3. ASSUME pc[r] \in AuthSteps, pc'[r] = "ok", UsesCode(call[r]), NEW s \in earlier[r],
               pc[s] = "ok", UsesCode(call[s])
        PROVE  picked[r] # picked[s]
    <3>1. pc'[r] # pc[r]
      BY <2>3 DEF AuthSteps
    <3>2. r \in Users
      BY <1>1, <2>2, <2>3, <3>1, CodeIsUsedFirst DEF EndInv
    <3>3. s \in Users
      BY <2>1, <2>3 DEF Users
    <3> QED
      BY <2>1, <2>3, <3>2, <3>3 DEF CodeKnown
  <2>4. ASSUME pc[r] = "createCode", pc'[r] = "setCooldown",
               NEW i \in Unused(who[r], TypeOfCode(call[r]))'
        PROVE  codes'[i].code \notin earlier[r]
    <3>1. StepOf(r) /\ CreateCode(r)
      BY <1>1, <2>2, <2>4, ActionsOfSteps
    <3>2. CodesGrow(r)
      BY <1>1, <3>1, CodesGrowAlways DEF Step
    <3>3. CASE i \in DOMAIN codes
      <4>1. i \in Unused(who[r], TypeOfCode(call[r])) /\ i \notin picked[r]
        <5>1. /\ codes' = Append(UsedUp(picked[r]),
                    [email |-> who[r], type |-> TypeOfCode(call[r]), code |-> r, used |-> FALSE])
              /\ UNCHANGED <<who, call>> /\ codes \in Seq(Codes)
          BY <1>1, <3>1 DEF CreateCode, Goto, locals, Rest
        <5>2. codes'[i] = UsedUp(picked[r])[i]
          BY <3>3, <5>1, UsedCodes
        <5> QED
          BY <3>3, <5>1, <5>2, UsedCodes DEF Unused, TypeOfCode
      <4>2. codes'[i].code = codes[i].code
        BY <3>2, <3>3 DEF CodesGrow
      <4> QED
        BY <2>1, <2>4, <4>1, <4>2 DEF CodeKnown
    <3>4. CASE i \notin DOMAIN codes
      <4>1. codes'[i].code = r /\ r \notin earlier[r]
        BY <2>1, <3>1, <3>2, <3>4 DEF CodesGrow, Unused, EarlierIsOver, StepOf
      <4> QED
        BY <4>1
    <3> QED
      BY <3>3, <3>4
  <2> QED
    BY <2>3, <2>4
<1> QED
  BY Invariance, EndsInvariant, RestInvariant, CodesInvariant, <1>1, PTL DEF Spec, CodesWorkOnce

(* However rotations overlap and break off, a token that a session was     *)
(* given for gives none to a call that comes in after the answer.          *)
THEOREM TokensRotateOnce == Spec => RotatedOnce
<1>1. ASSUME IInv, CodesInv, [Next]_vars
      PROVE  \A r \in Requests :
               sessions[r] = None /\ sessions'[r] # None /\ call[r].op = "refresh" =>
                 \A x \in earlier[r] \cap Issued : sessions[x].parent # call[r].token
  <2> SUFFICES ASSUME NEW r \in Requests, sessions[r] = None, sessions'[r] # None,
                      call[r].op = "refresh"
               PROVE  \A x \in earlier[r] \cap Issued : sessions[x].parent # call[r].token
    OBVIOUS
  <2>1. PICK q \in Requests : Step(q) \/ Fail(q)
    BY <1>1 DEF Next, Expire, Done, vars, tokens
  <2>2. r \in Issued' \ Issued
    BY DEF Issued
  <2>3. pc[r] = "createSession"
    BY <1>1, <2>1, <2>2, ParentsStay
  <2> QED
    BY <1>1, <2>3 DEF CodesInv, Rotates
<1> QED
  BY Invariance, CodesInvariant, <1>1, PTL DEF Spec, RotatedOnce
=============================================================================
