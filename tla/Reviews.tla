------------------------------ MODULE Reviews ------------------------------
(***************************************************************************)
(* ReviewsService (src/src/modules/reviews/reviews.service.ts): travelers  *)
(* review agencies, and the average of the ratings of an agency is stored  *)
(* with it as its reputation. A review is named by the call that created   *)
(* it. A review that can no longer be edited, after seven days, is a call  *)
(* that breaks off. Notifications are sent on a best-effort basis and      *)
(* change nothing here.                                                    *)
(***************************************************************************)
EXTENDS Agencies, FiniteSetsExt

CONSTANT Ratings

ReviewCalls ==
  [op : {"review"}, user : Users, agency : AgencyAccounts, rating : Ratings]
    \cup [op : {"editReview"}, user : Users, review : Requests,
          rating : Ratings \cup {None}]
    \cup [op : {"removeReview"}, user : Users, review : Requests]

ReviewRows == [agency : AgencyAccounts, user : Users, rating : Ratings]

ASSUME RatingAssumption ==
  /\ Ratings \subseteq 1..5
  /\ None \notin ReviewRows \cup Ratings \cup AgencyAccounts

VARIABLES
  reviews,     \* agency_reviews
  reputation,  \* reputation_score of the agencies
  about,       \* the agency whose reputation a call is about to compute
  average      \* the average it has read

reviewing == <<reviews, reputation, about, average>>

ReviewSteps ==
  {"findReviewed", "findReview", "createReview", "findOwnReview", "writeReview",
   "deleteReview", "aggregate", "storeScore"}

ReviewsInit ==
  /\ reviews = [r \in Requests |-> None]
  /\ reputation = [a \in AgencyAccounts |-> None]
  /\ about = [r \in Requests |-> None]
  /\ average = [r \in Requests |-> None]

ReviewsOf(a) == {x \in Requests : reviews[x] # None /\ reviews[x].agency = a}
ReviewOf(u, a) == {x \in ReviewsOf(a) : reviews[x].user = u}

RatingOf(x) == reviews[x].rating

(* The average of the ratings of an agency, as a fraction.                 *)
AverageOf(a) ==
  IF ReviewsOf(a) = {} THEN None
  ELSE [sum |-> MapThenSumSet(RatingOf, ReviewsOf(a)), count |-> Cardinality(ReviewsOf(a))]

ReceiveReview(r) ==
  /\ Begin(r, ReviewCalls)
  /\ StartAt(r, IF call'[r].op = "review" THEN "findReviewed" ELSE "findOwnReview")
  /\ UNCHANGED reviewing

(* create: the agency is approved, ...                                     *)
FindReviewed(r) ==
  LET a == call[r].agency IN
  /\ pc[r] = "findReviewed"
  /\ IF agencies[a] = "approved"
     THEN about' = [about EXCEPT ![r] = a] /\ Goto(r, "findReview")
     ELSE Goto(r, "failed") /\ UNCHANGED about
  /\ UNCHANGED <<reviews, reputation, average>>

FindReview(r) ==
  /\ pc[r] = "findReview"
  /\ Goto(r, IF ReviewOf(call[r].user, call[r].agency) = {} THEN "createReview"
             ELSE "failed")
  /\ UNCHANGED reviewing

(* ... and is reviewed once by each traveler.                              *)
CreateReview(r) ==
  LET c == call[r] IN
  /\ pc[r] = "createReview"
  /\ IF ReviewOf(c.user, c.agency) = {}
     THEN /\ reviews' = [reviews EXCEPT ![r] =
               [agency |-> c.agency, user |-> c.user, rating |-> c.rating]]
          /\ Goto(r, "aggregate")
     ELSE Goto(r, "failed") /\ UNCHANGED reviews
  /\ UNCHANGED <<reputation, about, average>>

(* update and remove find a review of the caller, ...                      *)
FindOwnReview(r) ==
  LET x == call[r].review IN
  /\ pc[r] = "findOwnReview"
  /\ IF reviews[x] # None /\ reviews[x].user = call[r].user
     THEN /\ about' = [about EXCEPT ![r] = reviews[x].agency]
          /\ Goto(r, IF call[r].op = "editReview" THEN "writeReview" ELSE "deleteReview")
     ELSE Goto(r, "failed") /\ UNCHANGED about
  /\ UNCHANGED <<reviews, reputation, average>>

(* ... and change it if it is still there.                                 *)
WriteReview(r) ==
  LET c == call[r] IN
  /\ pc[r] = "writeReview"
  /\ IF reviews[c.review] # None /\ c.rating # None
     THEN /\ reviews' = [reviews EXCEPT ![c.review].rating = c.rating]
          /\ Goto(r, "aggregate")
     ELSE /\ Goto(r, IF reviews[c.review] = None THEN "failed" ELSE "ok")
          /\ UNCHANGED reviews
  /\ UNCHANGED <<reputation, about, average>>

(* Fault: a review is deleted and the average stays.                       *)
DeleteReviewOnly(r) ==
  /\ pc[r] = "deleteReview"
  /\ reviews' = [reviews EXCEPT ![call[r].review] = None]
  /\ Goto(r, "ok")
  /\ UNCHANGED <<reputation, about, average>>

DeleteReview(r) ==
  LET x == call[r].review IN
  /\ pc[r] = "deleteReview"
  /\ IF reviews[x] # None
     THEN reviews' = [reviews EXCEPT ![x] = None] /\ Goto(r, "aggregate")
     ELSE Goto(r, "failed") /\ UNCHANGED reviews
  /\ UNCHANGED <<reputation, about, average>>

(* recomputeReputation reads the average and stores it.                    *)
Aggregate(r) ==
  /\ pc[r] = "aggregate"
  /\ average' = [average EXCEPT ![r] = AverageOf(about[r])]
  /\ Goto(r, "storeScore")
  /\ UNCHANGED <<reviews, reputation, about>>

StoreScore(r) ==
  /\ pc[r] = "storeScore"
  /\ reputation' = [reputation EXCEPT ![about[r]] = average[r]]
  /\ Goto(r, "ok")
  /\ UNCHANGED <<reviews, about, average>>

ReviewStep(r) ==
  \/ ReceiveReview(r) \/ FindReviewed(r) \/ FindReview(r) \/ CreateReview(r)
  \/ FindOwnReview(r) \/ WriteReview(r) \/ DeleteReview(r)
  \/ Aggregate(r) \/ StoreScore(r)
=============================================================================
