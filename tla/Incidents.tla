------------------------------ MODULE Incidents ------------------------------
(* Incidents (crud/incident.py): an analyst gathers alerts in a case.  The      *)
(* link is kept twice, in the JSON list of the incident, which is written       *)
(* whole, and in the alert's incident_id, and a request reads both before it    *)
(* writes either.  The statuses are left out: what filing does to the status    *)
(* of an alert is in Alerts, and an incident's own is a field nothing here      *)
(* reads.                                                                       *)
EXTENDS Naturals, Sequences, FiniteSets

CONSTANTS Analysts,     \* the requests in flight
          Filable,      \* the alerts
          MaxIncidents  \* bound of the model

ASSUME IncidentsAssumption == MaxIncidents \in Nat

VARIABLES filed,      \* the incident_id of each alert, 0 for none
          incidents,  \* the alert_ids of each incident
          work,       \* what each request has read and is about to write
          torn        \* alerts linked across another request (not in the code)

incidentsVars == <<filed, incidents, work, torn>>

IncidentIds == 1..MaxIncidents

Unasked == [at |-> "idle"]
Work == [at : {"idle"}]
   \cup [at : {"opening"}, list : SUBSET Filable, left : SUBSET Filable]
   \cup [at : {"found"}, inc : IncidentIds, list : SUBSET Filable, alert : Filable,
         link : BOOLEAN]
   \cup [at : {"linking", "unlinking"}, inc : IncidentIds, list : SUBSET Filable,
         alert : Filable, read : 0..MaxIncidents]

IncidentsInit ==
    /\ filed = [a \in Filable |-> 0]
    /\ incidents = <<>> /\ torn = {}
    /\ work = [r \in Analysts |-> Unasked]

Works(r, q) == work' = [work EXCEPT ![r] = q]

\* Another request has read this alert's link, or the list of this incident.
Overlaps(r, a, i) ==
    \E z \in Analysts \ {r} :
      \/ work[z].at \in {"found", "linking", "unlinking"} /\ work[z].inc = i
      \/ work[z].at \in {"linking", "unlinking"} /\ work[z].alert = a
      \/ work[z].at = "opening" /\ a \in work[z].list

\* create_incident: each alert is read, and taken unless it has an incident.
OpenIncident(r) ==
    /\ work[r] = Unasked
    /\ \E wanted \in SUBSET Filable :
         Works(r, [at |-> "opening", list |-> {}, left |-> wanted])
    /\ UNCHANGED <<filed, incidents, torn>>

TakeAlert(r) ==
    /\ work[r].at = "opening"
    /\ \E a \in work[r].left :
         Works(r, [work[r] EXCEPT !.left = @ \ {a},
                  !.list = IF filed[a] = 0 THEN @ \cup {a} ELSE @])
    /\ UNCHANGED <<filed, incidents, torn>>

CommitIncident(r) ==
    LET q == work[r]
        i == Len(incidents) + 1
    IN  /\ q.at = "opening" /\ q.left = {} /\ i <= MaxIncidents
        /\ incidents' = Append(incidents, q.list)
        /\ filed' = [a \in Filable |->
             IF a \in q.list THEN i ELSE filed[a]]
        /\ torn' = torn \cup {a \in q.list : Overlaps(r, a, i)}
        /\ Works(r, Unasked)

\* A PATCH reads the incident, and then the alert it links or unlinks; without
\* one it changes nothing here.
ReadIncident(r) ==
    /\ work[r] = Unasked
    /\ \E i \in DOMAIN incidents :
         \E a \in Filable, link \in BOOLEAN :
           Works(r, [at |-> "found", inc |-> i, list |-> incidents[i], alert |-> a,
                     link |-> link])
    /\ UNCHANGED <<filed, incidents, torn>>

\* What is linked already, is not linked, or belongs to another incident is
\* left alone.
MayLink(q) == q.alert \notin q.list /\ filed[q.alert] \in {0, q.inc}
MayUnlink(q) == q.alert \in q.list

LoadAlert(r) ==
    LET q == work[r]
        next == [at |-> IF q.link THEN "linking" ELSE "unlinking", inc |-> q.inc,
                 list |-> q.list, alert |-> q.alert, read |-> filed[q.alert]]
    IN  /\ q.at = "found"
        /\ Works(r, IF (q.link /\ MayLink(q)) \/ (~q.link /\ MayUnlink(q)) THEN next ELSE Unasked)
        /\ UNCHANGED <<filed, incidents, torn>>

\* The list is written whole; of the alert, what differs from what was read.
Linked(q) == IF q.read = q.inc THEN filed[q.alert] ELSE q.inc
CommitLink(r) ==
    LET q == work[r]
    IN  /\ q.at = "linking"
        /\ incidents' = [incidents EXCEPT ![q.inc] = q.list \cup {q.alert}]
        /\ filed' = [filed EXCEPT ![q.alert] = Linked(q)]
        /\ torn' = torn \cup {a \in {q.alert} : Overlaps(r, a, q.inc)}
        /\ Works(r, Unasked)

\* Mutant: only the incident forgets the alert.
UnlinkedHalf(q) == filed[q.alert]
Unlinked(q) == IF q.read = q.inc THEN 0 ELSE filed[q.alert]
CommitUnlink(r) ==
    LET q == work[r]
    IN  /\ q.at = "unlinking"
        /\ incidents' = [incidents EXCEPT ![q.inc] = q.list \ {q.alert}]
        /\ filed' = [filed EXCEPT ![q.alert] = Unlinked(q)]
        /\ torn' = torn \cup {a \in {q.alert} : Overlaps(r, a, q.inc)}
        /\ Works(r, Unasked)

\* An exception, or the connection: nothing of the transaction is written.
FilingFails(r) ==
    /\ work[r] # Unasked /\ Works(r, Unasked)
    /\ UNCHANGED <<filed, incidents, torn>>

IncidentsNext ==
    \E r \in Analysts :
      \/ OpenIncident(r) \/ TakeAlert(r) \/ CommitIncident(r)
      \/ ReadIncident(r) \/ LoadAlert(r) \/ CommitLink(r) \/ CommitUnlink(r)
      \/ FilingFails(r)

IncidentsSpec == IncidentsInit /\ [][IncidentsNext]_incidentsVars

(******************************** properties ********************************)
\* Every row and every request is of its kind.
IncidentsTypeOK ==
    /\ filed \in [Filable -> 0..MaxIncidents]
    /\ incidents \in Seq(SUBSET Filable) /\ Len(incidents) <= MaxIncidents
    /\ work \in [Analysts -> Work] /\ torn \subseteq Filable

\* crud/incident.py: an alert is in the list of the incident it points to, and
\* in no other, whatever was refused or failed half way, unless two requests
\* filed it, or changed the same list, across each other.
LinksAgree ==
    \A a \in Filable \ torn, i \in DOMAIN incidents :
      a \in incidents[i] <=> filed[a] = i
=============================================================================
