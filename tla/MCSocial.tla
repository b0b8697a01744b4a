------------------------------ MODULE MCSocial ------------------------------
(***************************************************************************)
(* The loads under which TLC checks Social.                                *)
(***************************************************************************)
EXTENDS SocialProperties, TLC

CONSTANTS a, b, s,                \* users; s works for agency g
          g, h,                   \* agencies, of which h is not approved
          q1, q2,                 \* calls that were answered before
          r1, r2, r3, r4, r5      \* calls

MCRequests == {q1, q2, r1, r2, r3, r4, r5}
StaffOfG == g :> {s} @@ h :> {}

Ask(u, v) == [op |-> "befriend", user |-> u, other |-> v]
Accept(u, x) == [op |-> "accept", user |-> u, row |-> x]
Decline(u, x) == [op |-> "decline", user |-> u, row |-> x]
Unfriend(u, v) == [op |-> "unfriend", user |-> u, other |-> v]

Direct(u, v) == [op |-> "direct", user |-> u, other |-> v]
Group(u, vs) == [op |-> "group", user |-> u, others |-> vs]
Inbox(u, x) == [op |-> "agency", user |-> u, agency |-> x]
Add(c, u, vs) == [op |-> "add", conversation |-> c, user |-> u, others |-> vs]
Remove(c, u, v) == [op |-> "remove", conversation |-> c, user |-> u, other |-> v]
On(op, c, u) == [op |-> op, conversation |-> c, user |-> u]

AddMember(u, v) == [op |-> "addMember", user |-> u, other |-> v]
RemoveMember(u, v) == [op |-> "removeMember", user |-> u, other |-> v]
Let(u, v) == [op |-> "permit", user |-> u, other |-> v, may |-> TRUE]
Put(op, u, n) == [op |-> op, user |-> u, amount |-> n]
SpendBy(u, v, n) == [op |-> "spend", user |-> u, payer |-> v, amount |-> n]
UnspendOf(u, x) == [op |-> "unspend", user |-> u, expense |-> x]

AskFor(t, x, mine) == [op |-> "ask", user |-> t, agency |-> x, owned |-> mine]
Move(x, q, status) == [op |-> "update", agency |-> x, request |-> q, status |-> status]
Cancel(t, q) == [op |-> "cancel", user |-> t, request |-> q]

Load(c1, c2, c3, c4, c5) ==
  q1 :> {} @@ q2 :> {} @@ r1 :> c1 @@ r2 :> c2 @@ r3 :> c3 @@ r4 :> c4 @@ r5 :> c5

(* Two users, each of whom asks, answers and unfriends the other. *)
Befriending ==
  Load({Ask(a, b)},
       {Ask(b, a), Ask(a, b), Ask(b, b)},
       {Accept(b, r1), Decline(b, r1), Accept(a, r1)},
       {Accept(a, r2), Accept(b, r1)},
       {Unfriend(a, b), Unfriend(b, a)})

(* A conversation is opened; its messages are sent, listed and read.       *)
Talking ==
  Load({Direct(a, b), Inbox(a, g), Group(a, {b})},
       {On("send", r1, a), On("send", r1, s)},
       {On("send", r1, b), On("list", r1, b)},
       {On("read", r1, b), On("read", r1, s)},
       {Remove(r1, a, b)})

(* A group changes, while friends come and go; conversations are opened a  *)
(* second time.                                                            *)
Gathering ==
  Load({Group(a, {b}), Direct(a, b)},
       {Direct(b, a), Add(r1, a, {b, s}), Direct(a, a)},
       {Remove(r1, a, b), Remove(r1, b, b), Remove(r1, b, a)},
       {Add(r1, a, {b}), Add(r1, b, {a}), On("send", r1, b), Unfriend(a, b)},
       {})

(* The members of a trip change, and one leaves its chat by himself.       *)
Travelling ==
  Load({AddMember(a, b)},
       {AddMember(a, b), RemoveMember(a, a), AddMember(b, s)},
       {RemoveMember(a, b), RemoveMember(b, a)},
       {AddMember(a, b), Remove(r1, b, b), Unfriend(a, b)},
       {})

(* Two members put in, spend and withdraw.                                 *)
Spending ==
  Load({AddMember(a, b), Put("contribute", a, 2), Put("contribute", b, 1)},
       {Put("contribute", a, 2), Let(a, b), SpendBy(a, b, 1)},
       {SpendBy(a, a, 1), Put("withdraw", a, 2)},
       {UnspendOf(a, r3), Put("withdraw", b, 1)},
       {})

(* One trip request, which its agency, another agency, its traveler and    *)
(* another traveler try to change.                                         *)
Discussing ==
  Load({AskFor(a, g, TRUE)},
       {Move(g, r1, "in_discussion"), Move(g, r1, "confirmed")},
       {Move(g, r1, "confirmed"), Move(g, r1, "declined"), Cancel(b, r1)},
       {Cancel(a, r1), Move(h, r1, "declined")},
       {Move(g, r1, "completed")})

(* Several requests of a traveler, and his conversation with the agency.   *)
Requesting ==
  Load({AskFor(a, g, TRUE), Inbox(a, g)},
       {AskFor(a, g, TRUE), AskFor(a, g, FALSE), AskFor(a, h, TRUE)},
       {Inbox(a, g)},
       {AskFor(a, g, TRUE)},
       {})

MCScript ==
  "befriending" :> Befriending @@ "talking" :> Talking @@ "gathering" :> Gathering
  @@ "travelling" :> Travelling @@ "spending" :> Spending
  @@ "discussing" :> Discussing @@ "requesting" :> Requesting

MCLoads == DOMAIN MCScript

(* The load in which a member may be removed and added again.              *)
RejoinScript == "travelling" :> Travelling

MCAtOnce == [l \in Loads |-> 2]

(* Where users befriend each other nobody has a friend at first; in the    *)
(* other loads b and s are friends of a.                                   *)
MCFriendsBefore ==
  [l \in Loads |->
    [r \in Requests |->
      IF l = "befriending" THEN None
      ELSE CASE r = q1 -> [requester |-> a, addressee |-> b, status |-> "accepted"]
             [] r = q2 -> [requester |-> s, addressee |-> a, status |-> "accepted"]
             [] OTHER  -> None]]
=============================================================================
