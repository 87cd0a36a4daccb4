------------------------------- MODULE Alerts -------------------------------
(* From stored events to alerts: ingest_security_events (core/ingest.py) with  *)
(* the rules of crud/detection.py and create_alert, and the lifecycle of an    *)
(* alert (crud/alerts.py) and of the rule.                                      *)
(*                                                                            *)
(* One organization, one rule and one indicator, so one fingerprint; events    *)
(* that do not match the rule change nothing here.  A batch reads the rule and *)
(* the rows it counts on, and commits numbers it computed from them.           *)
EXTENDS Naturals, Sequences, FiniteSets

CONSTANTS Requests,      \* batches of events and analysts' requests in flight
          Threshold,     \* rule.threshold; 1 stands for a rule without a window
          Settable,      \* the statuses analysts give; filing an alert in an
                         \* incident is the status "assigned"
          MaxBatch,      \* the events of one batch
          MaxEvents, MaxAlerts  \* bounds of the model

VARIABLES stored,     \* matching events, committed, inside the rule's window
          alerts, rule,
          req,        \* what each request has read and is about to write
          seen,       \* how many events were ever committed (not in the code)
          due,        \* the hits each alert stands for (not in the code)
          gathered,   \* the hits of the rule (not in the code)
          stale,      \* alerts counted across another request (not in the code)
          blurred,    \* hits were committed across another batch (not in the code)
          again       \* two batches overlapped, or an alert was opened again
                      \* (not in the code)

alertsVars == <<stored, alerts, rule, req, seen, due, gathered, stale, blurred, again>>

OpenStatus == {"new", "acknowledged", "assigned", "snoozed"}
AlertStatus == OpenStatus \cup {"resolved"}
AlertIds == 1..MaxAlerts
ASSUME AlertsAssumption ==
    /\ Threshold \in Nat /\ Settable \subseteq AlertStatus
    /\ MaxBatch \in Nat /\ MaxEvents \in Nat /\ MaxAlerts \in Nat

Alert == [status : AlertStatus, count : 1..MaxEvents]
DetectionRule == [exists : BOOLEAN, hits : 0..MaxEvents]

Waiting == [at |-> "idle"]
\* A batch: whether it read the rule, with how many hits, and how many it added
\* since; how many events it has handed to the session and not flushed, and
\* flushed; the counts of the alert rows its session holds; how many of its events
\* hit each (not in the code); and the hits of the row it made.
Batch == [at : {"batch"}, knows : BOOLEAN, old : 0..MaxEvents, fired : 0..MaxBatch,
          added : 0..MaxBatch, flushed : 0..MaxBatch,
          held : [AlertIds -> 0..MaxEvents + MaxBatch], hits : [AlertIds -> 0..MaxBatch],
          own : 0..MaxBatch]
Triage == [at : {"triage"}, alert : AlertIds, from : AlertStatus, to : AlertStatus]

AlertsInit ==
    /\ stored = 0 /\ alerts = <<>> /\ seen = 0
    /\ due = [a \in AlertIds |-> 0] /\ gathered = 0
    /\ rule = [exists |-> TRUE, hits |-> 0]
    /\ stale = {} /\ blurred = FALSE /\ again = FALSE
    /\ req = [r \in Requests |-> Waiting]

Moves(r, q) == req' = [req EXCEPT ![r] = q]

(********************************** ingest **********************************)
BatchSize(b) == b.added + b.flushed
NoHits == [a \in AlertIds |-> 0]
BeginBatch(r) ==
    /\ req[r] = Waiting
    /\ Moves(r, [at |-> "batch", knows |-> rule.exists, old |-> rule.hits, fired |-> 0,
                 added |-> 0, flushed |-> 0, held |-> NoHits, hits |-> NoHits, own |-> 0])
    /\ UNCHANGED <<stored, alerts, rule, seen, due, gathered, stale, blurred, again>>

\* evaluate and evaluate_correlation: the query sees what is committed and what
\* the batch has flushed, and counts the event itself; the
\* rules were read when the batch began.
Fires(b) == b.knows /\ stored + b.flushed + 1 >= Threshold

\* rule.hits as the session holds it.
Fired(b) == [b EXCEPT !.fired = @ + 1]

\* open_existing: the alert of the fingerprint that is not resolved.
\* Mutant: an alert put off is not one of them.
UnsnoozedAlerts == {a \in DOMAIN alerts : alerts[a].status \in OpenStatus \ {"snoozed"}}
OpenExisting == {a \in DOMAIN alerts : alerts[a].status \in OpenStatus}

\* create_alert: a row that is open in the database is counted on, as the
\* session holds it; without one a row is made, and everything is flushed.
\* Mutant: the row is loaded again for every event.
CountOnReloaded(b, a) ==
    [b EXCEPT !.hits[a] = @ + 1, !.held[a] = alerts[a].count + 1]
CountOn(b, a) ==
    [b EXCEPT !.hits[a] = @ + 1,
              !.held[a] = (IF b.hits[a] = 0 THEN alerts[a].count ELSE @) + 1]
CountOnOwn(b) == [b EXCEPT !.own = @ + 1]
MakeAlert(b) == [b EXCEPT !.own = 1, !.flushed = b.flushed + b.added, !.added = 0]
Hold(b) == [b EXCEPT !.added = @ + 1]

\* A device or a source seen for the first time flushes what was added before.
Flushes(b) == {b, [b EXCEPT !.flushed = b.flushed + b.added, !.added = 0]}

IngestEvent(r) ==
    /\ req[r].at = "batch" /\ BatchSize(req[r]) < MaxBatch
    /\ \E b \in Flushes(req[r]) :
         \/ ~Fires(b) /\ Moves(r, Hold(b))
         \/ Fires(b) /\ \E a \in OpenExisting : Moves(r, Hold(CountOn(Fired(b), a)))
         \/ Fires(b) /\ b.own > 0 /\ Moves(r, Hold(CountOnOwn(Fired(b))))
         \/ Fires(b) /\ b.own = 0 /\ OpenExisting = {} /\ Moves(r, Hold(MakeAlert(Fired(b))))
    /\ UNCHANGED <<stored, alerts, rule, seen, due, gathered, stale, blurred, again>>

Batches(r) == {z \in Requests \ {r} : req[z].at = "batch"}
Counts(b) == {a \in DOMAIN alerts : b.hits[a] > 0}

\* Counts are written as numbers: what another batch counted since is lost.  A
\* rule that is gone cannot be written, nor an alert of it: the batch fails.
CommitBatch(r) ==
    LET b == req[r]
        rows == [a \in DOMAIN alerts |->
                   IF a \in Counts(b) THEN [alerts[a] EXCEPT !.count = b.held[a]]
                   ELSE alerts[a]]
        new == [status |-> "new", count |-> b.own]
    IN  /\ b.at = "batch" /\ BatchSize(b) > 0
        /\ b.own > 0 => Len(alerts) < MaxAlerts
        /\ b.fired > 0 => rule.exists
        /\ seen + BatchSize(b) <= MaxEvents
        /\ alerts' = IF b.own > 0 THEN Append(rows, new) ELSE rows
        /\ rule' = IF b.fired > 0 THEN [rule EXCEPT !.hits = b.old + b.fired] ELSE rule
        /\ stored' = stored + BatchSize(b)
        /\ seen' = seen + BatchSize(b)
        /\ stale' = stale \cup {a \in Counts(b) : \E z \in Batches(r) : req[z].hits[a] > 0}
        /\ due' = [a \in AlertIds |->
             IF a \in stale' THEN 0
             ELSE IF b.own > 0 /\ a = Len(alerts) + 1 THEN b.own
             ELSE due[a] + b.hits[a]]
        /\ blurred' = (blurred \/ (b.fired > 0 /\ Batches(r) # {}))
        /\ gathered' = IF blurred' THEN 0 ELSE gathered + b.fired
        /\ again' = (again \/ (b.own > 0 /\ Batches(r) # {}))
        /\ Moves(r, Waiting)

\* The oldest event leaves the rule's window.
Ages ==
    /\ Threshold > 1 /\ stored > 0 /\ stored' = stored - 1
    /\ UNCHANGED <<alerts, rule, req, seen, due, gathered, stale, blurred, again>>

(********************************* lifecycle ********************************)
ReadAlert(r) ==
    /\ req[r] = Waiting
    /\ \E a \in DOMAIN alerts, to \in Settable :
         Moves(r, [at |-> "triage", alert |-> a, from |-> alerts[a].status, to |-> to])
    /\ UNCHANGED <<stored, alerts, rule, seen, due, gathered, stale, blurred, again>>

Reopens(a, to) == alerts[a].status = "resolved" /\ to \in OpenStatus

\* The status is written unless it is the one that was read.
SetAlertStatus(r) ==
    LET q == req[r]
        to == IF q.to = q.from THEN alerts[q.alert].status ELSE q.to
    IN  /\ q.at = "triage"
        /\ alerts' = [alerts EXCEPT ![q.alert].status = to]
        /\ again' = (again \/ Reopens(q.alert, to))
        /\ Moves(r, Waiting)
        /\ UNCHANGED <<stored, rule, seen, due, gathered, stale, blurred>>

\* delete_rule leaves the alerts behind.
DeleteRule ==
    /\ rule.exists /\ rule' = [exists |-> FALSE, hits |-> 0] /\ gathered' = 0
    /\ UNCHANGED <<stored, alerts, req, seen, due, stale, blurred, again>>

\* An exception, or the connection: nothing of the transaction is written.
AlertRequestFails(r) ==
    /\ req[r] # Waiting /\ Moves(r, Waiting)
    /\ UNCHANGED <<stored, alerts, rule, seen, due, gathered, stale, blurred, again>>

AlertsNext ==
    \/ \E r \in Requests :
         \/ BeginBatch(r) \/ IngestEvent(r) \/ CommitBatch(r)
         \/ ReadAlert(r) \/ SetAlertStatus(r)
         \/ AlertRequestFails(r)
    \/ Ages \/ DeleteRule

AlertsSpec == AlertsInit /\ [][AlertsNext]_alertsVars

(******************************** properties ********************************)
\* Every row and every request is of its kind.
AlertsTypeOK ==
    /\ seen \in 0..MaxEvents /\ stored \in 0..seen
    /\ alerts \in Seq(Alert) /\ Len(alerts) <= MaxAlerts
    /\ due \in [AlertIds -> 0..MaxEvents] /\ gathered \in 0..MaxEvents
    /\ rule \in DetectionRule
    /\ stale \subseteq DOMAIN alerts /\ blurred \in BOOLEAN /\ again \in BOOLEAN
    /\ \A r \in Requests :
         req[r] \in {Waiting} \cup Batch \cup Triage

\* crud/alerts.py, crud/detection.py: the count of an alert is the number of events
\* that were stored and hit it, and that of the rule, while it exists, of those that
\* hit any; through batches that fail, changes of a status and the deletion of the
\* rule, unless two batches counted on the row across each other.
EveryHitCounted ==
    /\ \A a \in DOMAIN alerts : a \in stale \/ alerts[a].count = due[a]
    /\ blurred \/ ~rule.exists \/ rule.hits = gathered

\* models/siem.py: hits are gathered by fingerprint, so one alert of it is open
\* at a time, snoozed or filed as it may be, unless two batches made one each,
\* or a resolved one was opened again beside it.
OneOpenAlert == 
    again \/ Cardinality({a \in DOMAIN alerts : alerts[a].status \in OpenStatus}) <= 1

\* crud/detection.py: a batch that brings the events of the window to the
\* threshold, itself included, leaves an open alert.  The code does not keep
\* it: the query does not see the batch's own events.
BurstsRaise ==
    [][stored' > stored /\ stored' >= Threshold =>
         \E a \in DOMAIN alerts' : alerts'[a].status \in OpenStatus]_alertsVars
=============================================================================
