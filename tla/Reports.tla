------------------------------- MODULE Reports -------------------------------
(***************************************************************************)
(* ReportsService and the worker of the queue moderation                   *)
(* (ModerationReportIntakeProcessor), in src/src/modules/reports. A report *)
(* is named by the call, or the run of the job, that created it, and is    *)
(* about a post, named by the call that created that. A retry of a job is  *)
(* one more run of it.                                                     *)
(***************************************************************************)
EXTENDS Notifications

CONSTANT Moderators  \* the users who are super admins

ASSUME ModeratorAssumption == Moderators \subseteq Users

ReportStatuses ==
  {"pending", "reviewing", "resolved", "dismissed", "flagged", "rejected"}

ReportCalls ==
  [op : {"report", "intake"}, user : Users, target : Requests]
    \cup [op : {"reviewReport"}, report : Requests, status : ReportStatuses]

ReportRows == [user : Users, target : Requests, status : ReportStatuses]

ASSUME ReportAssumption == None \notin ReportRows

VARIABLES
  reports,  \* content_reports
  alerting  \* the super admins that each run is still to notify

reporting == <<reports, alerting>>

ReportSteps ==
  {"fileReport", "findReport", "reviewReport", "findExisting", "createReport",
   "findAdmins", "alert"}

ReportsInit ==
  /\ reports = [r \in Requests |-> None]
  /\ alerting = [r \in Requests |-> {}]

(* create compares the user with the target, which is never a user.        *)
FirstReportStep(c) ==
  CASE c.op = "report" -> IF c.user = c.target THEN "failed" ELSE "fileReport"
    [] c.op = "intake" -> "findExisting"
    [] OTHER           -> "findReport"

ReceiveReport(r) ==
  /\ Begin(r, ReportCalls) /\ StartAt(r, FirstReportStep(call'[r]))
  /\ UNCHANGED <<reporting, notifying>>

NewReport(c) == [user |-> c.user, target |-> c.target, status |-> "pending"]

FileReport(r) ==
  /\ pc[r] = "fileReport"
  /\ reports' = [reports EXCEPT ![r] = NewReport(call[r])]
  /\ Goto(r, "ok")
  /\ UNCHANGED <<alerting, notifying>>

FindReport(r) ==
  /\ pc[r] = "findReport"
  /\ Goto(r, IF reports[call[r].report] = None THEN "failed" ELSE "reviewReport")
  /\ UNCHANGED <<reporting, notifying>>

(* review writes any status over any other.                                *)
ReviewReport(r) ==
  /\ pc[r] = "reviewReport"
  /\ reports' = [reports EXCEPT ![call[r].report].status = call[r].status]
  /\ Goto(r, "ok")
  /\ UNCHANGED <<alerting, notifying>>

-----------------------------------------------------------------------------
SameReports(c) ==
  {x \in Requests : /\ reports[x] # None
                    /\ reports[x].user = c.user /\ reports[x].target = c.target}

(* Fault: every run of a job creates its report.                           *)
FindNoExisting(r) ==
  /\ pc[r] = "findExisting"
  /\ Goto(r, "createReport")
  /\ UNCHANGED <<reporting, notifying>>

(* The worker skips a report of the same user about the same target, ...   *)
FindExisting(r) ==
  /\ pc[r] = "findExisting"
  /\ Goto(r, IF SameReports(call[r]) # {} THEN "ok" ELSE "createReport")
  /\ UNCHANGED <<reporting, notifying>>

CreateReport(r) ==
  /\ pc[r] = "createReport"
  /\ reports' = [reports EXCEPT ![r] = NewReport(call[r])]
  /\ Goto(r, "findAdmins")
  /\ UNCHANGED <<alerting, notifying>>

FindAdmins(r) ==
  /\ pc[r] = "findAdmins"
  /\ alerting' = [alerting EXCEPT ![r] = Moderators]
  /\ Goto(r, IF Moderators = {} THEN "ok" ELSE "alert")
  /\ UNCHANGED <<reports, notifying>>

(* ... and notifies the super admins one after the other.                  *)
Alert(r) ==
  /\ pc[r] = "alert"
  /\ \E a \in alerting[r] :
       /\ notes' = [notes EXCEPT ![<<r, a>>] = NewNote]
       /\ alerting' = [alerting EXCEPT ![r] = @ \ {a}]
  /\ Goto(r, IF Cardinality(alerting[r]) = 1 THEN "ok" ELSE "alert")
  /\ UNCHANGED <<reports, telling, prefs, devices, pushes, dropping, sent, missed>>

ReportStep(r) ==
  \/ ReceiveReport(r) \/ FileReport(r) \/ FindReport(r) \/ ReviewReport(r)
  \/ FindExisting(r) \/ CreateReport(r) \/ FindAdmins(r) \/ Alert(r)
=============================================================================
