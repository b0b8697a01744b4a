------------------------------- MODULE MCAuth -------------------------------
(***************************************************************************)
(* The loads under which TLC checks Auth.                                  *)
(***************************************************************************)
EXTENDS AuthProperties, TLC

CONSTANTS e, f, m,              \* addresses; m is an admin's
          p1, p2,               \* passwords
          i1,                   \* a user of Google
          r1, r2, r3, r4, r5    \* calls

Register(x, role, w) == [op |-> "register", email |-> x, role |-> role, password |-> w]
Resend(x, type) == [op |-> "resend", email |-> x, type |-> type]
Verify(x, c) == [op |-> "verifyEmail", email |-> x, code |-> c]
Login(x, w) == [op |-> "login", email |-> x, password |-> w, expected |-> None]
AgencyLogin(x, w) == [op |-> "login", email |-> x, password |-> w, expected |-> "agency"]
LoginCode(x, c) == [op |-> "loginCode", email |-> x, code |-> c, expected |-> None]
Social(x) == [op |-> "social", email |-> x, identity |-> i1]
Refresh(t) == [op |-> "refresh", token |-> t]
Reset(x, c, w) == [op |-> "reset", email |-> x, code |-> c, password |-> w]
AdminLogin(x, w) == [op |-> "adminLogin", email |-> x, password |-> w]
TwoFactor(r) == [op |-> "adminTwoFactor", pending |-> r]
By(op, t) == [op |-> op, by |-> t]
Logout(t, u) == [op |-> "logout", by |-> t, token |-> u]
RevokeSession(t, u) == [op |-> "revokeSession", by |-> t, token |-> u]
Change(t, old, new) == [op |-> "change", by |-> t, old |-> old, password |-> new]
SetActive(t, x, active) == [op |-> "setStatus", by |-> t, email |-> x, active |-> active]

Load(c1, c2, c3, c4, c5) == r1 :> c1 @@ r2 :> c2 @@ r3 :> c3 @@ r4 :> c4 @@ r5 :> c5

(* f registers, by mail and by a social login, and verifies the address.   *)
Registering ==
  Load({Register(f, "traveler", p1), Social(f)},
       {Register(f, "agency", p2), Resend(f, "email_verify")},
       {Verify(f, r1), Verify(f, r2), Social(f)},
       {AgencyLogin(f, p2), Social(f)},
       {})

(* e logs in, and the session is rotated and ended in several ways.        *)
Rotating ==
  Load({Login(e, p1)},
       {Refresh(r1), Logout(r1, r1), Login(e, p1)},
       {Refresh(r1), Refresh(r2), RevokeSession(r1, r2)},
       {By("logoutAll", r2), By("deactivate", r1)},
       {})

(* e forgets the password, or changes it, or logs in by a code.            *)
Resetting ==
  Load({Login(e, p1)},
       {Resend(e, "password_reset"), Resend(e, "login")},
       {Reset(e, r2, p2), LoginCode(e, r2)},
       {Reset(e, r2, p1), LoginCode(e, r2), Refresh(r1), Change(r1, p1, p2)},
       {})

(* Two codes are asked for, and either is used.                            *)
Asking ==
  Load({Resend(e, "password_reset")},
       {Resend(e, "password_reset"), Resend(e, "login")},
       {Reset(e, r1, p2), Reset(e, r2, p2)},
       {Reset(e, r2, p1), LoginCode(e, r2)},
       {})

(* e and the user of another session get the password wrong.               *)
Mistaking ==
  Load({Login(e, p2)}, {Login(e, p2)}, {Login(e, p2), Login(f, p1)}, {Login(e, p1)}, {})

(* An admin logs in and deactivates e, who has a session.                  *)
Administering ==
  Load({AdminLogin(m, p1), AdminLogin(e, p1)},
       {TwoFactor(r1), Login(m, p1)},
       {Login(e, p1), Refresh(r2)},
       {SetActive(r2, e, FALSE), SetActive(r3, e, FALSE)},
       {Refresh(r3), SetActive(r2, e, TRUE), TwoFactor(r1)})

MCScript ==
  "registering" :> Registering @@ "rotating" :> Rotating @@ "resetting" :> Resetting
  @@ "mistaking" :> Mistaking @@ "administering" :> Administering @@ "asking" :> Asking
MCLoads == DOMAIN MCScript
MCAtOnce == [l \in MCLoads |-> 2]

User(role) == [role |-> role, active |-> TRUE, verified |-> TRUE, password |-> p1]
MCAccountsBefore ==
  [l \in MCLoads |-> e :> User("traveler") @@ f :> None @@ m :> User("superAdmin")]
MCFactorsBefore == e :> "none" @@ f :> "none" @@ m :> "set"
=============================================================================
