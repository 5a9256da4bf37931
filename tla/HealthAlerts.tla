---------------------------- MODULE HealthAlerts ----------------------------
(***************************************************************************)
(* The health alerts of a running job (pkg/core/job_health_notifier.go,    *)
(* manager.go, job.go): every progress report is merged into the job's     *)
(* progress and handed to maybeNotifyJobHealth, which keeps in memory the  *)
(* incident it has announced and when it sent the last alert.              *)
(*                                                                         *)
(* Reports come from several goroutines: the CDC health monitor of the     *)
(* source, which probes MySQL, and the source and the sink, whose reports  *)
(* carry the health fields of the last probe along.  The listener is       *)
(* called with a copy, outside the job's lock, and saves it before it      *)
(* looks for alerts: a copy may be out of date when it is looked at.       *)
(*                                                                         *)
(* One kind of alert is followed.  Lag and backpressure know the incident  *)
(* "active" alone; a purged checkpoint names its binlog files.             *)
(***************************************************************************)
EXTENDS Naturals, FiniteSets

CONSTANTS
  Incidents,   \* the incidents of the kind
  None,        \* no incident
  Reporters,   \* goroutines that report progress and do not probe
  Monitor,     \* the CDC health monitor
  MaxChanges,  \* bound on the changes of the condition
  MaxRefusals, \* bound on the alerts that are not delivered
  MaxStops     \* bound on the stops of the job

VARIABLES
  condition,  \* what a probe finds
  running,    \* the job's status is RUNNING
  jobProgress, \* the job's merged progress: the incident its fields show
  report,     \* report[g]: the callback of goroutine g
  active,     \* healthAlertActive
  cooling,    \* healthAlertLastSent is set and within the cooldown
  sends,      \* sends[i]: alerts of incident i in flight
  announced,  \* ghost: the incident the operator has an alert of, until a
              \* report that is looked at while the job runs shows another
  alerts,     \* ghost: alerts delivered since the condition changed
  repeats,    \* ghost: an alert may come again: a report was out of date
  changes, refusals, stops  \* budgets used

alertVars == <<active, cooling, sends, announced, alerts, repeats>>
healthVars == <<condition, running, jobProgress, report, alertVars,
                changes, refusals, stops>>

Goroutines == Reporters \cup {Monitor}
Maybe == Incidents \cup {None}
Idle == [at |-> "idle", shows |-> None]

HealthTypeOK ==
  /\ condition \in Maybe /\ running \in BOOLEAN /\ jobProgress \in Maybe
  /\ report \in [Goroutines ->
                   [at : {"idle", "update", "dispatch"}, shows : Maybe]]
  /\ active \in Maybe /\ cooling \in BOOLEAN
  /\ sends \in [Incidents -> Nat] /\ announced \in Maybe
  /\ alerts \in Nat /\ repeats \in BOOLEAN
  /\ changes \in 0..MaxChanges /\ refusals \in 0..MaxRefusals
  /\ stops \in 0..MaxStops

HealthInit ==
  /\ condition = None /\ running \in BOOLEAN /\ jobProgress = None
  /\ report = [g \in Goroutines |-> Idle]
  /\ active = None /\ cooling = FALSE
  /\ sends = [i \in Incidents |-> 0]
  /\ announced = None /\ alerts = 0 /\ repeats = FALSE
  /\ changes = 0 /\ refusals = 0 /\ stops = 0

-----------------------------------------------------------------------------
(* The environment: lag, a purge, pressure come and go.                    *)
Change ==
  /\ changes < MaxChanges /\ changes' = changes + 1
  /\ condition' \in Maybe \ {condition}
  /\ alerts' = 0
  /\ repeats' = \/ \E i \in Incidents : sends[i] > 0
                 \/ \E g \in Goroutines : report[g].at = "dispatch"
  /\ UNCHANGED <<running, jobProgress, report, active, cooling, sends, announced,
                 refusals, stops>>

-----------------------------------------------------------------------------
(* updateProgress.                                                         *)

(* mergeCDCHealthProgress: a probe's fields replace those of the progress. *)
MergeProbe == condition
(* mergeSourceRuntimeProgress and mergeSinkRuntimeProgress keep them.      *)
MergeReport == jobProgress

Reported(g, merged) ==
  /\ report[g].at = "idle" /\ running
  /\ jobProgress' = merged
  /\ report' = [report EXCEPT ![g] = [at |-> "update", shows |-> merged]]
  /\ UNCHANGED <<condition, running, alertVars, changes, refusals, stops>>

(* reportCDCLag, every 30 seconds while the source streams.                *)
Probe == Reported(Monitor, MergeProbe)
(* A report of the source or the sink.                                     *)
Report(g) == g \in Reporters /\ Reported(g, MergeReport)

-----------------------------------------------------------------------------
(* maybeNotifyJobHealth.                                                   *)

(* updateJobHealthIncident: no incident re-arms the alert, the active one  *)
(* is not announced again, another one replaces it and forgets the         *)
(* cooldown.  TRUE if the incident is to be announced.                     *)
Ended(i) == i = None
Known(i) == active = i

(* Mutant: a report without an incident does not re-arm the alert.         *)
NeverEnds(i) ==
  IF Ended(i) \/ Known(i) THEN UNCHANGED <<active, cooling>>
  ELSE active' = i /\ cooling' = FALSE

UpdateIncident(i) ==
  IF Ended(i) THEN active' = None /\ cooling' = FALSE
  ELSE IF Known(i) THEN UNCHANGED <<active, cooling>>
  ELSE active' = i /\ cooling' = FALSE

Update(g) ==
  LET i == report[g].shows IN
  /\ report[g].at = "update"
  /\ IF running
     THEN /\ UpdateIncident(i)
          /\ announced' = IF announced = i THEN i ELSE None
          /\ report' = [report EXCEPT ![g] =
                         IF Ended(i) \/ Known(i) THEN Idle
                         ELSE [@ EXCEPT !.at = "dispatch"]]
          /\ repeats' = (repeats \/ i # condition)
     ELSE /\ report' = [report EXCEPT ![g] = Idle]
          /\ UNCHANGED <<active, cooling, announced, repeats>>
  /\ UNCHANGED <<condition, running, jobProgress, sends, alerts, changes,
                 refusals, stops>>

(* dispatchJobHealthNotification: nothing within the cooldown, else a      *)
(* goroutine that sends the alert.                                         *)
Dispatch(g) ==
  LET i == report[g].shows IN
  /\ report[g].at = "dispatch"
  /\ report' = [report EXCEPT ![g] = Idle]
  /\ cooling' = TRUE
  /\ sends' = IF cooling THEN sends ELSE [sends EXCEPT ![i] = @ + 1]
  /\ UNCHANGED <<condition, running, jobProgress, active, announced, alerts,
                 repeats, changes, refusals, stops>>

(* The alert is delivered ...                                              *)
Delivered(i) ==
  /\ sends[i] > 0 /\ sends' = [sends EXCEPT ![i] = @ - 1]
  /\ announced' = IF active = i THEN i ELSE announced
  /\ alerts' = IF condition = i THEN alerts + 1 ELSE alerts
  /\ UNCHANGED <<condition, running, jobProgress, report, active, cooling,
                 repeats, changes, refusals, stops>>

(* ... or it is not, as far as the process can see: clearJobHealthIncident *)
(* re-arms it, if its incident is still the active one.                    *)
Rearms(i) == active = i
NotDelivered(i) ==
  /\ sends[i] > 0 /\ sends' = [sends EXCEPT ![i] = @ - 1]
  /\ refusals < MaxRefusals /\ refusals' = refusals + 1
  /\ IF Rearms(i)
     THEN active' = None /\ cooling' = FALSE /\ announced' = None
     ELSE UNCHANGED <<active, cooling, announced>>
  /\ \/ UNCHANGED <<alerts, repeats>>
     \/ alerts' = (IF condition = i THEN alerts + 1 ELSE alerts) /\ repeats' = TRUE
  /\ UNCHANGED <<condition, running, jobProgress, report, changes, stops>>

(* The cooldown ends.                                                      *)
CooldownEnds ==
  /\ cooling /\ cooling' = FALSE
  /\ UNCHANGED <<condition, running, jobProgress, report, active, sends,
                 announced, alerts, repeats, changes, refusals, stops>>

-----------------------------------------------------------------------------
(* The job stops, and starts again with a preflight report, which carries  *)
(* nothing over.  The alert memory of the process is not touched: an       *)
(* incident that ends while the job does not run stays active.             *)
Stop ==
  /\ running /\ stops < MaxStops /\ stops' = stops + 1
  /\ running' = FALSE
  /\ UNCHANGED <<condition, jobProgress, report, alertVars, changes, refusals>>

Start ==
  /\ ~running /\ running' = TRUE /\ jobProgress' = None
  /\ \A g \in Goroutines : report[g] = Idle
  /\ UNCHANGED <<condition, report, alertVars, changes, refusals, stops>>

HealthNext ==
  \/ Change \/ Probe \/ CooldownEnds \/ Stop \/ Start
  \/ \E g \in Goroutines : Update(g) \/ Dispatch(g)
  \/ \E g \in Reporters : Report(g)
  \/ \E i \in Incidents : Delivered(i) \/ NotDelivered(i)

(* The monitor probes every 30 seconds while the job runs, callbacks end,  *)
(* and a send is answered or times out.  Reports of the source and the     *)
(* sink, changes and stops need not happen; a stopped job need not start.  *)
HealthFairness ==
  /\ WF_healthVars(Probe)
  /\ \A g \in Goroutines : WF_healthVars(Update(g)) /\ WF_healthVars(Dispatch(g))
  /\ \A i \in Incidents : WF_healthVars(Delivered(i) \/ NotDelivered(i))

HealthSpec == HealthInit /\ [][HealthNext]_healthVars /\ HealthFairness

-----------------------------------------------------------------------------
(* What the alerts promise.                                                *)

(* A continuing incident is alerted once, unless a report looked at it was *)
(* out of date or an answer was lost.                                      *)
AlertedOnce == alerts > 1 => repeats

(* An active incident is announced or on its way: the memory never says    *)
(* "known" about an incident nobody was told of.  This needs a kind with   *)
(* one incident: with two, a report of the first that is dispatched        *)
(* between the update and the dispatch of the second starts the cooldown   *)
(* that suppresses the second.                                             *)
Announced ==
  active # None =>
    \/ announced = active
    \/ sends[active] > 0
    \/ \E g \in Goroutines : report[g] = [at |-> "dispatch", shows |-> active]

(* A condition that lasts while the job runs is announced for good,        *)
(* although alerts are refused and reports arrive out of order.  The alert *)
(* of an earlier incident does not do: once a report has shown that it is  *)
(* over, the next one must be announced again.  One that ends between two  *)
(* probes, or while the job does not run, is the same incident to the code *)
(* when it is back, and no new alert is due.                               *)
IncidentTold ==
  \A i \in Incidents :
    <>[](condition = i /\ running) => <>[](active = i /\ announced = i)

(* Each time the condition comes back the operator is told of it.  It does *)
(* not hold: the memory keeps an incident whose end no probe has seen, or  *)
(* whose last report was looked at while the job did not run.              *)
OccurrenceTold ==
  \A i \in Incidents :
    <>[](condition = i /\ running) => <>[](alerts > 0)
=============================================================================
