------------------------------- MODULE MCMarket -------------------------------
(***************************************************************************)
(* The loads under which TLC checks Marketplace.                           *)
(***************************************************************************)
EXTENDS MarketProperties, TLC

CONSTANTS o, w, t, z,           \* users; o and w have accounts of agencies
          d,                    \* a super admin
          k,                    \* a campaign of t
          m1, m2,               \* calls by which o uploaded media before
          r1, r2, r3, r4        \* calls

MCRequests == {m1, m2, r1, r2, r3, r4}

Submit(x) == [op |-> "submitRegistration", user |-> x]
On(op, a) == [op |-> op, agency |-> a]
Invite(a, x, p) == [op |-> "inviteStaff", user |-> a, other |-> x, permission |-> p]
Permit(a, row, p) == [op |-> "updatePermission", user |-> a, row |-> row, permission |-> p]
Row(op, a, row) == [op |-> op, user |-> a, row |-> row]

Review(x, n) == [op |-> "review", user |-> x, agency |-> o, rating |-> n]
Edit(x, v, n) == [op |-> "editReview", user |-> x, review |-> v, rating |-> n]
Unreview(x, v) == [op |-> "removeReview", user |-> x, review |-> v]

InviteAdmin == [op |-> "inviteAdmin", user |-> d]
Token(op, x, i) == [op |-> op, user |-> x, invite |-> i]

Url == [op |-> "uploadUrl", user |-> o]
Upload(x, file) == [op |-> "put", user |-> o, media |-> x, file |-> file]
Confirm(x) == [op |-> "confirm", user |-> o, media |-> x]

Offer(xs) == [op |-> "createPackage", user |-> o, media |-> xs, active |-> TRUE]
Change(x, xs, on) ==
  [op |-> "updatePackage", user |-> o, package |-> x, media |-> xs, active |-> on]
Withdraw(x) == [op |-> "removePackage", user |-> o, package |-> x]
Link(op, x) == [op |-> op, user |-> t, package |-> x, campaign |-> k]

Load(c1, c2, c3, c4) == m1 :> {} @@ m2 :> {} @@ r1 :> c1 @@ r2 :> c2 @@ r3 :> c3 @@ r4 :> c4

(* w registers, is approved and rejected, and offers a package.            *)
Deciding ==
  Load({Submit(w), Submit(t)},
       {Submit(w), On("approve", w), On("reject", w)},
       {On("approve", w), On("reject", w), On("assignBadge", w)},
       {On("reject", w), On("revokeBadge", w),
        [Offer({m1}) EXCEPT !.user = w]})

(* o, who has an agency, takes w on, who registers one too.                *)
Staffing ==
  Load({Invite(o, w, "admin"), Invite(o, t, "admin"), Submit(w)},
       {Invite(o, w, "support"), Permit(o, r1, "owner"), Permit(o, o, "support"), Submit(w)},
       {Permit(w, o, "admin"), Row("removeStaff", o, r1), Row("removeStaff", o, o)},
       {Row("removeStaff", w, o), Row("resendInvite", o, r1), Permit(o, r1, "support")})

Reviewed ==
  Load({Review(t, 1), [Review(t, 1) EXCEPT !.agency = w]},
       {Review(t, 2), Review(z, 4)},
       {Edit(t, r1, 3), Edit(z, r1, 3), Edit(z, r2, None), Unreview(z, r2)},
       {Unreview(t, r1)})

Administering ==
  Load({InviteAdmin, [InviteAdmin EXCEPT !.user = t]},
       {Token("acceptInvite", t, r1), Token("acceptInvite", d, r1)},
       {Token("revokeInvite", d, r1), Token("acceptInvite", d, r1)},
       {Token("revokeInvite", d, r1), Token("acceptInvite", d, r1)})

Uploading ==
  Load({Url},
       {Upload(r1, "good"), Upload(r1, "bad")},
       {Confirm(r1), [Confirm(r1) EXCEPT !.user = w], Upload(r1, "good")},
       {Confirm(r1), Offer({r1})})

(* A package with one or two media, which another may show as well, is     *)
(* changed, linked and deleted.                                            *)
Offering ==
  Load({Offer({m1, m2})},
       {Change(r1, {m2}, TRUE), Change(r1, None, FALSE), Link("link", r1), Offer({m1})},
       {Change(r1, {m1}, TRUE), Link("link", r1), Withdraw(r1)},
       {Withdraw(r1), Link("unlink", r1)})

MCScript ==
  "deciding" :> Deciding @@ "staffing" :> Staffing @@ "reviewing" :> Reviewed
  @@ "administering" :> Administering @@ "uploading" :> Uploading @@ "offering" :> Offering
MCLoads == DOMAIN MCScript
MCAtOnce == [l \in MCLoads |-> 2]
MCAgenciesBefore == [l \in MCLoads |-> o :> "approved" @@ w :> None]

MCAssetsBefore == [r \in MCRequests |-> IF r \in {m1, m2} THEN o ELSE None]
MCCreatorOf == k :> t
=============================================================================
