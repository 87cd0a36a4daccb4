----------------------------- MODULE SiemProofs -----------------------------
(* Proofs about Incidents, Scheduler and Capture, for any number of requests,   *)
(* alerts and schedules, and any bounds; and what holds of the seven parts        *)
(* together.                                                                      *)
EXTENDS MCSiem, DetectionProofs, WellFoundedInduction, TLAPS

(******************************** incidents *********************************)
\* What a request has read of an alert that no two requests filed across each
\* other is still so when it writes.
WorkIsFresh ==
    \A r \in Analysts, a \in Filable \ torn :
      /\ work[r].at = "opening" /\ a \in work[r].list => filed[a] = 0
      /\ work[r].at \in {"found", "linking", "unlinking"} =>
           (a \in work[r].list <=> a \in incidents[work[r].inc])
      /\ work[r].at \in {"linking", "unlinking"} /\ work[r].alert = a =>
           work[r].read = filed[a]
\* A request is about an incident there is, links what is not linked, and unlinks
\* what is.
WorkIsMeant ==
    \A r \in Analysts :
      /\ work[r].at \in {"found", "linking", "unlinking"} => work[r].inc \in DOMAIN incidents
      /\ work[r].at = "linking" =>
           work[r].alert \notin work[r].list /\ work[r].read \in {0, work[r].inc}
      /\ work[r].at = "unlinking" => work[r].alert \in work[r].list
\* No alert points to an incident that is not there.
FiledExist == \A a \in Filable : filed[a] \in 0..Len(incidents)

LinksInv == IncidentsTypeOK /\ LinksAgree /\ WorkIsFresh /\ WorkIsMeant /\ FiledExist

\* What a request carries, by where it stands.
LEMMA WorkShape ==
    ASSUME IncidentsTypeOK, NEW r \in Analysts
    PROVE  /\ work[r] \in Work
           /\ work[r].at \in {"idle", "opening", "found", "linking", "unlinking"}
           /\ work[r].at = "opening" =>
                work[r] \in [at : {"opening"}, list : SUBSET Filable, left : SUBSET Filable]
           /\ work[r].at = "found" =>
                work[r] \in [at : {"found"}, inc : IncidentIds, list : SUBSET Filable,
                             alert : Filable, link : BOOLEAN]
           /\ work[r].at \in {"linking", "unlinking"} =>
                work[r] \in [at : {"linking", "unlinking"}, inc : IncidentIds,
                             list : SUBSET Filable, alert : Filable, read : 0..MaxIncidents]
<1>1. work[r] \in Work
  BY DEF IncidentsTypeOK
<1>2. QED
  BY <1>1, SMT DEF Work

\* A request that only reads, or ends without writing.
LEMMA ReadingKeepsLinks ==
    ASSUME LinksInv, NEW r \in Analysts, NEW q \in Work, Works(r, q),
           UNCHANGED <<filed, incidents, torn>>,
           \A a \in Filable \ torn :
             /\ q.at = "opening" /\ a \in q.list => filed[a] = 0
             /\ q.at \in {"found", "linking", "unlinking"} =>
                  (a \in q.list <=> a \in incidents[q.inc])
             /\ q.at \in {"linking", "unlinking"} /\ q.alert = a => q.read = filed[a],
           q.at \in {"found", "linking", "unlinking"} => q.inc \in DOMAIN incidents,
           q.at = "linking" => q.alert \notin q.list /\ q.read \in {0, q.inc},
           q.at = "unlinking" => q.alert \in q.list
    PROVE  LinksInv'
<1> USE DEF LinksInv
<1>1. /\ work' \in [Analysts -> Work]
      /\ \A z \in Analysts : work'[z] = IF z = r THEN q ELSE work[z]
  BY DEF Works, IncidentsTypeOK
<1>2. IncidentsTypeOK'
  BY <1>1 DEF IncidentsTypeOK
<1>3. LinksAgree' /\ FiledExist'
  BY DEF LinksAgree, FiledExist
<1>4. WorkIsFresh'
  BY <1>1 DEF WorkIsFresh
<1>5. WorkIsMeant'
  BY <1>1 DEF WorkIsMeant
<1>6. QED
  BY <1>2, <1>3, <1>4, <1>5

LEMMA OpenIncidentKeepsLinks ==
    ASSUME LinksInv, NEW r \in Analysts, OpenIncident(r)
    PROVE  LinksInv'
<1>1. PICK wanted \in SUBSET Filable :
        Works(r, [at |-> "opening", list |-> {}, left |-> wanted])
  BY DEF OpenIncident
<1>2. [at |-> "opening", list |-> {}, left |-> wanted] \in Work
  BY DEF Work
<1>3. QED
  BY <1>1, <1>2, ReadingKeepsLinks DEF OpenIncident

LEMMA TakeAlertKeepsLinks ==
    ASSUME LinksInv, NEW r \in Analysts, TakeAlert(r)
    PROVE  LinksInv'
<1>1. PICK a \in work[r].left :
        Works(r, [work[r] EXCEPT !.left = @ \ {a},
                  !.list = IF filed[a] = 0 THEN @ \cup {a} ELSE @])
  BY DEF TakeAlert
<1>2. /\ work[r] \in [at : {"opening"}, list : SUBSET Filable, left : SUBSET Filable]
      /\ work[r].at = "opening"
  BY WorkShape DEF LinksInv, TakeAlert
<1> DEFINE q == [work[r] EXCEPT !.left = @ \ {a},
                  !.list = IF filed[a] = 0 THEN @ \cup {a} ELSE @]
<1>3. /\ q \in Work /\ q.at = "opening"
      /\ \A b \in q.list : b \in work[r].list \/ filed[b] = 0
  BY <1>2 DEF Work
<1>4. \A b \in Filable \ torn : b \in q.list => filed[b] = 0
  BY <1>2, <1>3 DEF LinksInv, WorkIsFresh
<1>5. Works(r, q) /\ UNCHANGED <<filed, incidents, torn>>
  BY <1>1 DEF TakeAlert
<1> HIDE DEF q
<1>6. QED
  BY <1>3, <1>4, <1>5, ReadingKeepsLinks

LEMMA ReadIncidentKeepsLinks ==
    ASSUME LinksInv, NEW r \in Analysts, ReadIncident(r)
    PROVE  LinksInv'
<1>1. PICK i \in DOMAIN incidents, a \in Filable, link \in BOOLEAN :
        Works(r, [at |-> "found", inc |-> i, list |-> incidents[i], alert |-> a,
                     link |-> link])
  BY DEF ReadIncident
<1> DEFINE q == [at |-> "found", inc |-> i, list |-> incidents[i], alert |-> a, link |-> link]
<1>2. i \in IncidentIds /\ incidents[i] \in SUBSET Filable
  BY IncidentsAssumption DEF LinksInv, IncidentsTypeOK, IncidentIds
<1>3. q \in Work /\ q.at = "found" /\ q.inc = i /\ q.list = incidents[i]
  BY <1>2 DEF Work
<1>4. Works(r, q) /\ UNCHANGED <<filed, incidents, torn>>
  BY <1>1 DEF ReadIncident
<1> HIDE DEF q
<1>5. QED
  BY <1>3, <1>4, ReadingKeepsLinks

LEMMA LoadAlertKeepsLinks ==
    ASSUME LinksInv, NEW r \in Analysts, LoadAlert(r)
    PROVE  LinksInv'
<1> DEFINE q == work[r]
           next == [at |-> IF q.link THEN "linking" ELSE "unlinking", inc |-> q.inc,
                    list |-> q.list, alert |-> q.alert, read |-> filed[q.alert]]
<1>1. /\ q \in [at : {"found"}, inc : IncidentIds, list : SUBSET Filable,
                alert : Filable, link : BOOLEAN]
      /\ q.at = "found"
  BY WorkShape DEF LinksInv, LoadAlert
<1>2. UNCHANGED <<filed, incidents, torn>>
  BY DEF LoadAlert
<1>3. CASE Works(r, Unasked)
  <2>1. Unasked \in Work /\ Unasked.at = "idle"
    BY DEF Unasked, Work
  <2>2. QED
    BY <1>2, <1>3, <2>1, ReadingKeepsLinks
<1>4. CASE /\ Works(r, next)
           /\ (q.link /\ MayLink(q)) \/ (~q.link /\ MayUnlink(q))
  <2>1. filed[q.alert] \in 0..MaxIncidents
    BY <1>1 DEF LinksInv, IncidentsTypeOK
  <2>2. /\ next \in Work /\ next.at \in {"linking", "unlinking"}
        /\ next.inc = q.inc /\ next.list = q.list /\ next.alert = q.alert
        /\ next.read = filed[q.alert]
        /\ next.at = "linking" <=> q.link
    BY <1>1, <2>1 DEF Work
  <2>3. next.at = "linking" => next.alert \notin next.list /\ next.read \in {0, next.inc}
    BY <1>1, <1>4, <2>2 DEF MayLink
  <2>4. next.at = "unlinking" => next.alert \in next.list
    BY <1>1, <1>4, <2>2 DEF MayUnlink
  <2>5. /\ q.inc \in DOMAIN incidents
        /\ \A a \in Filable \ torn : a \in q.list <=> a \in incidents[q.inc]
    BY <1>1 DEF LinksInv, WorkIsFresh, WorkIsMeant
  <2> HIDE DEF next, q
  <2>6. QED
    BY <1>2, <1>4, <2>2, <2>3, <2>4, <2>5, ReadingKeepsLinks
<1>5. QED
  BY <1>3, <1>4 DEF LoadAlert

\* What the others have read of an alert is still so, unless they overlap with the
\* request that writes it.
LEMMA CommitIncidentKeepsLinks ==
    ASSUME LinksInv, NEW r \in Analysts, CommitIncident(r)
    PROVE  LinksInv'
<1> DEFINE q == work[r]
           i == Len(incidents) + 1
<1> USE DEF LinksInv
<1>1. /\ q \in [at : {"opening"}, list : SUBSET Filable, left : SUBSET Filable]
      /\ q.at = "opening"
  BY WorkShape DEF CommitIncident
<1>2. /\ incidents \in Seq(SUBSET Filable) /\ filed \in [Filable -> 0..MaxIncidents]
      /\ i \in Nat \ {0} /\ i <= MaxIncidents
  BY DEF IncidentsTypeOK, CommitIncident
<1>3. /\ incidents' \in Seq(SUBSET Filable) /\ Len(incidents') = i
      /\ \A j \in 1..Len(incidents) : incidents'[j] = incidents[j]
      /\ incidents'[i] = q.list
      /\ DOMAIN incidents = 1..Len(incidents) /\ DOMAIN incidents' = 1..i
  BY <1>1, <1>2 DEF CommitIncident
<1>4. /\ filed' \in [Filable -> 0..MaxIncidents]
      /\ \A a \in Filable : filed'[a] = IF a \in q.list THEN i ELSE filed[a]
  BY <1>2, IncidentsAssumption DEF CommitIncident
<1>5. /\ work' \in [Analysts -> Work] /\ work'[r] = Unasked
      /\ \A z \in Analysts \ {r} : work'[z] = work[z]
  BY DEF CommitIncident, Works, IncidentsTypeOK, Unasked, Work
<1>6. /\ torn' \subseteq Filable /\ torn \subseteq torn'
      /\ \A a \in q.list \ torn' : ~Overlaps(r, a, i)
  BY <1>1 DEF CommitIncident, IncidentsTypeOK
<1>7. \A a \in q.list \ torn : filed[a] = 0
  BY <1>1 DEF WorkIsFresh
<1> HIDE DEF q, i
<1>8. IncidentsTypeOK'
  BY <1>2, <1>3, <1>4, <1>5, <1>6 DEF IncidentsTypeOK
<1>9. LinksAgree'
  <2> SUFFICES ASSUME NEW a \in Filable \ torn', NEW j \in 1..i
               PROVE  a \in incidents'[j] <=> filed'[a] = j
    BY <1>3 DEF LinksAgree
  <2>1. a \in Filable \ torn
    BY <1>6
  <2>2. CASE j = i
    BY <1>2, <1>3, <1>4, <2>1, <2>2 DEF FiledExist, i
  <2>3. CASE j \in 1..Len(incidents)
    <3>1. incidents'[j] = incidents[j] /\ (a \in incidents[j] <=> filed[a] = j) /\ j # i /\ j # 0
      BY <1>2, <1>3, <2>1, <2>3 DEF LinksAgree, i
    <3>2. QED
      BY <1>4, <1>7, <2>1, <3>1
  <2>4. QED
    BY <1>2, <2>2, <2>3 DEF i
<1>10. WorkIsMeant'
  <2>1. \A j \in DOMAIN incidents : j \in DOMAIN incidents'
    BY <1>2, <1>3 DEF i
  <2>2. Unasked.at = "idle"
    BY DEF Unasked
  <2>3. QED
    BY <1>5, <2>1, <2>2 DEF WorkIsMeant
<1>11. WorkIsFresh'
  <2> SUFFICES ASSUME NEW z \in Analysts \ {r}, NEW a \in Filable \ torn'
               PROVE  /\ work[z].at = "opening" /\ a \in work[z].list => filed'[a] = 0
                      /\ work[z].at \in {"found", "linking", "unlinking"} =>
                           (a \in work[z].list <=> a \in incidents'[work[z].inc])
                      /\ work[z].at \in {"linking", "unlinking"} /\ work[z].alert = a =>
                           work[z].read = filed'[a]
    BY <1>5 DEF WorkIsFresh, Unasked
  <2>1. a \in Filable \ torn
    BY <1>6
  <2>2. a \in q.list => ~Overlaps(r, a, i)
    BY <1>6
  <2>3. work[z].at \in {"found", "linking", "unlinking"} =>
          incidents'[work[z].inc] = incidents[work[z].inc]
    BY <1>3 DEF WorkIsMeant
  <2>4. QED
    BY <1>4, <2>1, <2>2, <2>3 DEF WorkIsFresh, Overlaps
<1>12. FiledExist'
  BY <1>2, <1>3, <1>4 DEF FiledExist, i
<1>13. QED
  BY <1>8, <1>9, <1>10, <1>11, <1>12

\* Linking and unlinking write one incident's list and one alert, the same way:
\* f is what the alert points to then.
LEMMA FilingKeepsLinks ==
    ASSUME LinksInv, NEW r \in Analysts, work[r].at \in {"linking", "unlinking"},
           NEW list \in SUBSET Filable, NEW f \in {0, work[r].inc, filed[work[r].alert]},
           \A a \in Filable \ {work[r].alert} : a \in list <=> a \in work[r].list,
           work[r].alert \notin torn =>
             /\ work[r].alert \in list <=> f = work[r].inc
             /\ filed[work[r].alert] \in {0, work[r].inc} /\ f \in {0, work[r].inc},
           incidents' = [incidents EXCEPT ![work[r].inc] = list],
           filed' = [filed EXCEPT ![work[r].alert] = f],
           torn' = torn \cup {a \in {work[r].alert} : Overlaps(r, a, work[r].inc)},
           Works(r, Unasked)
    PROVE  LinksInv'
<1> DEFINE q == work[r]
<1> USE DEF LinksInv
<1>1. /\ q.inc \in IncidentIds /\ q.list \subseteq Filable /\ q.alert \in Filable
      /\ q.inc \in DOMAIN incidents /\ q.inc \in 1..Len(incidents) /\ q.inc # 0
  BY WorkShape DEF WorkIsMeant, IncidentsTypeOK, IncidentIds
<1>2. /\ incidents \in Seq(SUBSET Filable) /\ filed \in [Filable -> 0..MaxIncidents]
      /\ Len(incidents) <= MaxIncidents
      /\ filed[q.alert] \in 0..Len(incidents) /\ filed[q.alert] \in 0..MaxIncidents
  BY <1>1 DEF IncidentsTypeOK, FiledExist
<1>3. /\ incidents' \in Seq(SUBSET Filable) /\ Len(incidents') = Len(incidents)
      /\ DOMAIN incidents' = DOMAIN incidents
      /\ \A j \in DOMAIN incidents : incidents'[j] = IF j = q.inc THEN list ELSE incidents[j]
  BY <1>1, <1>2
<1>4. f \in 0..MaxIncidents /\ f \in 0..Len(incidents)
  BY <1>1, <1>2, IncidentsAssumption DEF IncidentIds
<1>5. /\ filed' \in [Filable -> 0..MaxIncidents]
      /\ \A a \in Filable : filed'[a] = IF a = q.alert THEN f ELSE filed[a]
  BY <1>1, <1>2, <1>4
<1>6. /\ work' \in [Analysts -> Work] /\ work'[r] = Unasked
      /\ \A z \in Analysts \ {r} : work'[z] = work[z]
  BY DEF Works, IncidentsTypeOK, Unasked, Work
<1>7. /\ torn' \subseteq Filable /\ torn \subseteq torn'
      /\ q.alert \notin torn' => ~Overlaps(r, q.alert, q.inc)
  BY <1>1 DEF IncidentsTypeOK
<1>8. \A a \in Filable \ torn : a \in q.list <=> a \in incidents[q.inc]
  BY DEF WorkIsFresh
<1> HIDE DEF q
<1>9. IncidentsTypeOK'
  BY <1>2, <1>3, <1>5, <1>6, <1>7 DEF IncidentsTypeOK
<1>10. LinksAgree'
  <2> SUFFICES ASSUME NEW a \in Filable \ torn', NEW j \in DOMAIN incidents
               PROVE  a \in incidents'[j] <=> filed'[a] = j
    BY <1>3 DEF LinksAgree
  <2>1. a \in Filable \ torn /\ (a \in incidents[j] <=> filed[a] = j) /\ j # 0
    BY <1>2, <1>7 DEF LinksAgree
  <2>2. CASE a = q.alert
    BY <1>1, <1>3, <1>5, <2>1, <2>2 DEF q
  <2>3. CASE a # q.alert
    <3>1. a \in list <=> a \in incidents[q.inc]
      BY <1>8, <2>1, <2>3 DEF q
    <3>2. QED
      BY <1>3, <1>5, <2>1, <2>3, <3>1
  <2>4. QED
    BY <2>2, <2>3
<1>11. WorkIsMeant'
  <2>1. Unasked.at = "idle"
    BY DEF Unasked
  <2>2. QED
    BY <1>3, <1>6, <2>1 DEF WorkIsMeant
<1>12. WorkIsFresh'
  <2> SUFFICES ASSUME NEW z \in Analysts \ {r}, NEW a \in Filable \ torn'
               PROVE  /\ work[z].at = "opening" /\ a \in work[z].list => filed'[a] = 0
                      /\ work[z].at \in {"found", "linking", "unlinking"} =>
                           (a \in work[z].list <=> a \in incidents'[work[z].inc])
                      /\ work[z].at \in {"linking", "unlinking"} /\ work[z].alert = a =>
                           work[z].read = filed'[a]
    BY <1>6 DEF WorkIsFresh, Unasked
  <2>1. a \in Filable \ torn
    BY <1>7
  <2>2. CASE a = q.alert
    BY <1>3, <1>5, <1>7, <2>1, <2>2 DEF WorkIsFresh, WorkIsMeant, Overlaps
  <2>3. CASE a # q.alert
    <3>1. work[z].at \in {"found", "linking", "unlinking"} =>
            (a \in incidents'[work[z].inc] <=> a \in incidents[work[z].inc])
      BY <1>3, <1>8, <2>1, <2>3 DEF WorkIsMeant, q
    <3>2. QED
      BY <1>5, <2>1, <2>3, <3>1 DEF WorkIsFresh
  <2>4. QED
    BY <2>2, <2>3
<1>13. FiledExist'
  BY <1>2, <1>3, <1>4, <1>5 DEF FiledExist
<1>14. QED
  BY <1>9, <1>10, <1>11, <1>12, <1>13

LEMMA LinksInvInit == IncidentsInit => LinksInv
<1> SUFFICES ASSUME IncidentsInit PROVE LinksInv
  OBVIOUS
<1> USE IncidentsAssumption DEF IncidentsInit
<1>1. IncidentsTypeOK
  BY DEF IncidentsTypeOK, Work, Unasked
<1>2. LinksAgree /\ FiledExist
  BY DEF LinksAgree, FiledExist
<1>3. WorkIsFresh /\ WorkIsMeant
  BY DEF WorkIsFresh, WorkIsMeant, Unasked
<1>4. QED
  BY <1>1, <1>2, <1>3 DEF LinksInv

LEMMA LinksInvNext == LinksInv /\ [IncidentsNext]_incidentsVars => LinksInv'
<1> SUFFICES ASSUME LinksInv, [IncidentsNext]_incidentsVars PROVE LinksInv'
  OBVIOUS
<1>1. ASSUME NEW r \in Analysts, CommitLink(r) PROVE LinksInv'
  <2> DEFINE q == work[r]
  <2>1. /\ q.at = "linking" /\ q.alert \in Filable /\ q.list \subseteq Filable
        /\ q.alert \notin q.list /\ q.read \in {0, q.inc}
    BY <1>1, WorkShape DEF LinksInv, CommitLink, WorkIsMeant
  <2>2. q.alert \notin torn => q.read = filed[q.alert]
    BY <2>1 DEF LinksInv, WorkIsFresh
  <2>3. Linked(q) \in {0, q.inc, filed[q.alert]}
        /\ (q.alert \notin torn => filed[q.alert] \in {0, q.inc} /\ Linked(q) = q.inc)
    BY <2>1, <2>2 DEF Linked
  <2>4. q.list \cup {q.alert} \in SUBSET Filable
    BY <2>1
  <2>5. /\ incidents' = [incidents EXCEPT ![q.inc] = q.list \cup {q.alert}]
        /\ filed' = [filed EXCEPT ![q.alert] = Linked(q)]
        /\ torn' = torn \cup {a \in {q.alert} : Overlaps(r, a, q.inc)}
        /\ Works(r, Unasked)
    BY <1>1 DEF CommitLink
  <2>6. QED
    BY <2>1, <2>3, <2>4, <2>5, FilingKeepsLinks
<1>2. ASSUME NEW r \in Analysts, CommitUnlink(r) PROVE LinksInv'
  <2> DEFINE q == work[r]
  <2>1. /\ q.at = "unlinking" /\ q.alert \in Filable /\ q.list \subseteq Filable
        /\ q.alert \in q.list /\ q.inc \in DOMAIN incidents /\ q.inc # 0
    BY <1>2, WorkShape DEF LinksInv, CommitUnlink, WorkIsMeant, IncidentIds
  <2>2. q.alert \notin torn => q.read = filed[q.alert] /\ filed[q.alert] = q.inc
    BY <2>1 DEF LinksInv, WorkIsFresh, LinksAgree
  <2>3. Unlinked(q) \in {0, q.inc, filed[q.alert]}
        /\ (q.alert \notin torn => filed[q.alert] = q.inc /\ Unlinked(q) = 0)
    BY <2>1, <2>2 DEF Unlinked
  <2>4. q.list \ {q.alert} \in SUBSET Filable
    BY <2>1
  <2>5. /\ incidents' = [incidents EXCEPT ![q.inc] = q.list \ {q.alert}]
        /\ filed' = [filed EXCEPT ![q.alert] = Unlinked(q)]
        /\ torn' = torn \cup {a \in {q.alert} : Overlaps(r, a, q.inc)}
        /\ Works(r, Unasked)
    BY <1>2 DEF CommitUnlink
  <2>6. QED
    BY <2>1, <2>3, <2>4, <2>5, FilingKeepsLinks
<1>3. ASSUME NEW r \in Analysts, FilingFails(r) PROVE LinksInv'
  <2>1. Unasked \in Work /\ Unasked.at = "idle"
    BY DEF Unasked, Work
  <2>2. QED
    BY <1>3, <2>1, ReadingKeepsLinks DEF FilingFails
<1>4. ASSUME UNCHANGED incidentsVars PROVE LinksInv'
  BY <1>4 DEF LinksInv, incidentsVars, IncidentsTypeOK, LinksAgree, WorkIsFresh,
              WorkIsMeant, FiledExist
<1>5. QED
  BY <1>1, <1>2, <1>3, <1>4, OpenIncidentKeepsLinks, TakeAlertKeepsLinks,
     ReadIncidentKeepsLinks, LoadAlertKeepsLinks, CommitIncidentKeepsLinks
     DEF IncidentsNext

\* Every row and every request is of its kind (crud/incident.py).
THEOREM IncidentsTypeCorrect == IncidentsSpec => []IncidentsTypeOK
<1>1. LinksInv => IncidentsTypeOK
  BY DEF LinksInv
<1>2. QED
  BY <1>1, LinksInvInit, LinksInvNext, PTL DEF IncidentsSpec

\* crud/incident.py: the two halves of the link between an alert and an incident
\* agree, except for alerts that two requests filed across each other.
THEOREM LinksAgreeThm == IncidentsSpec => []LinksAgree
<1>1. LinksInv => LinksAgree
  BY DEF LinksInv
<1>2. QED
  BY <1>1, LinksInvInit, LinksInvNext, PTL DEF IncidentsSpec

(******************************** scheduler *********************************)
\* Delivered by the pass under way, and not moved on yet.
InHand(s) == tick.at = "mark" /\ tick.sent /\ tick.cur = s
\* A schedule that was delivered is due a period later, unless the pass was cut
\* off or is about to move it on.
MovedOn ==
    \A s \in Rows : last[s] = Absent \/ s \in cut \/ InHand(s)
                    \/ nextRun[s] >= last[s] + Period
\* What the pass has still to deliver was delivered a period ago.
DueRightly ==
    \A s \in Schedules :
      (tick.at # "asleep" /\ s \in tick.left) \/ (tick.at = "send" /\ s = tick.cur) =>
        last[s] = Absent \/ s \in cut \/ time >= last[s] + Period
\* The pass meets each schedule once.
MetOnce == tick.at \in {"send", "mark"} => tick.cur \notin tick.left
NotAhead == \A s \in Schedules : last[s] <= time

PeriodInv == SchedulerTypeOK /\ MovedOn /\ DueRightly /\ MetOnce /\ NotAhead

LEMMA TickShape ==
    ASSUME SchedulerTypeOK
    PROVE  /\ tick = Asleep \/ tick.at \in {"next", "send", "mark"}
           /\ Asleep.at = "asleep"
           /\ tick.at = "next" => tick \in [at : {"next"}, left : SUBSET Schedules, spoiled : BOOLEAN]
           /\ tick.at = "send" => tick \in [at : {"send"}, left : SUBSET Schedules, cur : Schedules]
           /\ tick.at = "mark" => tick \in [at : {"mark"}, left : SUBSET Schedules, cur : Schedules,
                                            sent : BOOLEAN]
BY SMT DEF SchedulerTypeOK, Tick, Asleep

LEMMA PeriodInvInit == SchedulerInit => PeriodInv
BY SchedulerAssumption, SMT DEF SchedulerInit, PeriodInv, SchedulerTypeOK, MovedOn, DueRightly,
     MetOnce, NotAhead, Rows, Asleep, Times, Absent, InHand

LEMMA PeriodInvNext == PeriodInv /\ [SchedulerNext]_schedulerVars => PeriodInv'
<1> SUFFICES ASSUME PeriodInv, [SchedulerNext]_schedulerVars PROVE PeriodInv'
  OBVIOUS
<1> USE SchedulerAssumption DEF PeriodInv
<1>t. /\ time \in Nat /\ time >= 1 /\ time <= MaxTime /\ Period \in Nat /\ cut \subseteq Schedules
      /\ nextRun \in [Schedules -> Nat] /\ last \in [Schedules -> Nat]
      /\ nextRun \in [Schedules -> {0} \cup 1..(MaxTime + Period)]
      /\ last \in [Schedules -> {0} \cup 1..MaxTime]
  BY DEF SchedulerTypeOK, Absent, Times
<1>s. /\ tick = Asleep \/ tick.at \in {"next", "send", "mark"}
      /\ Asleep.at = "asleep"
      /\ tick.at = "next" => tick \in [at : {"next"}, left : SUBSET Schedules, spoiled : BOOLEAN]
      /\ tick.at = "send" => tick \in [at : {"send"}, left : SUBSET Schedules, cur : Schedules]
      /\ tick.at = "mark" => tick \in [at : {"mark"}, left : SUBSET Schedules, cur : Schedules,
                                       sent : BOOLEAN]
  BY TickShape
<1>1. CASE CreateSchedule
  BY <1>1, <1>t, <1>s DEF CreateSchedule, SchedulerTypeOK, MovedOn, DueRightly, MetOnce, NotAhead,
       Rows, Times, Absent, InHand
<1>2. CASE DeleteSchedule
  BY <1>2, <1>t, <1>s DEF DeleteSchedule, SchedulerTypeOK, MovedOn, DueRightly, MetOnce, NotAhead,
       Rows, Times, Absent, InHand
<1>3. CASE StartTick
  BY <1>3, <1>t, <1>s DEF StartTick, SchedulerTypeOK, MovedOn, DueRightly, MetOnce, NotAhead,
       Rows, Due, Times, Absent, InHand, Tick, Asleep
<1>4. CASE NextSchedule
  BY <1>4, <1>t, <1>s DEF NextSchedule, SchedulerTypeOK, MovedOn, DueRightly, MetOnce, NotAhead,
       Rows, Times, Absent, InHand, Tick
<1>5. CASE EndTick
  BY <1>5, <1>t, <1>s DEF EndTick, SchedulerTypeOK, MovedOn, DueRightly, MetOnce, NotAhead,
       Rows, Times, Absent, InHand, Asleep
<1>6. CASE Deliver
  BY <1>6, <1>t, <1>s DEF Deliver, SchedulerTypeOK, MovedOn, DueRightly, MetOnce, NotAhead,
       Rows, Times, Absent, InHand, Tick
<1>7. CASE DeliveryFails
  BY <1>7, <1>t, <1>s DEF DeliveryFails, SchedulerTypeOK, MovedOn, DueRightly, MetOnce, NotAhead,
       Rows, Times, Absent, InHand, Tick
<1>8. CASE MarkRan
  BY <1>8, <1>t, <1>s DEF MarkRan, SchedulerTypeOK, MovedOn, DueRightly, MetOnce, NotAhead,
       Rows, Times, Absent, InHand, Tick, NextRun
<1>9. CASE SessionFails
  BY <1>9, <1>t, <1>s DEF SessionFails, SchedulerTypeOK, MovedOn, DueRightly, MetOnce, NotAhead,
       Rows, Times, Absent, InHand, Tick, Unmarked
<1>10. CASE SchedulerRestarts
  BY <1>10, <1>t, <1>s DEF SchedulerRestarts, SchedulerTypeOK, MovedOn, DueRightly, MetOnce,
       NotAhead, Rows, Times, Absent, InHand, Asleep, Unmarked
<1>11. CASE TimePasses
  BY <1>11, <1>t, <1>s DEF TimePasses, SchedulerTypeOK, MovedOn, DueRightly, MetOnce, NotAhead,
       Rows, Times, Absent, InHand
<1>12. CASE UNCHANGED schedulerVars
  BY <1>12 DEF schedulerVars, SchedulerTypeOK, MovedOn, DueRightly, MetOnce, NotAhead, Rows,
       Absent, InHand
<1>13. QED
  BY <1>1, <1>2, <1>3, <1>4, <1>5, <1>6, <1>7, <1>8, <1>9, <1>10, <1>11, <1>12
     DEF SchedulerNext

\* The pass and the rows are of their kind (core/scheduler.py).
THEOREM SchedulerTypeCorrect == SchedulerSpec => []SchedulerTypeOK
<1>1. PeriodInv => SchedulerTypeOK
  BY DEF PeriodInv
<1>2. QED
  BY <1>1, PeriodInvInit, PeriodInvNext, PTL DEF SchedulerSpec

\* core/scheduler.py: for any number of schedules and any delay, no schedule is
\* delivered twice within its period, unless a pass was cut off in between.
THEOREM OncePerPeriodThm == SchedulerSpec => OncePerPeriod
<1>1. PeriodInv /\ [SchedulerNext]_schedulerVars =>
        [\A s \in Schedules :
           tick.at = "send" /\ tick.cur = s /\ tick'.at = "mark" /\ tick'.sent =>
             \/ last[s] = Absent \/ s \in cut
             \/ time >= last[s] + Period]_schedulerVars
  BY DEF PeriodInv, DueRightly
<1>2. QED
  BY <1>1, PeriodInvInit, PeriodInvNext, PTL DEF SchedulerSpec, OncePerPeriod
(********************************* capture *********************************)
\* The upload, its readers, its file and its answer are of their kinds
\* (endpoints/capture.py).
THEOREM CaptureTypeCorrect == CaptureSpec => []CaptureTypeOK
<1> USE DEF CaptureTypeOK
<1>1. CaptureInit => CaptureTypeOK
  <2>1. SUFFICES ASSUME CaptureInit PROVE CaptureTypeOK
    OBVIOUS
  <2>2. /\ reader \in [Readers -> {"off", "running", "done"}]
        /\ upload \in [at : {"none"}] /\ report.truncated = FALSE
        /\ DOMAIN asked = {}
    BY <2>1 DEF CaptureInit, Nothing
  <2> QED BY <2>1, <2>2 DEF CaptureInit
<1>2. CaptureTypeOK /\ [CaptureNext]_captureVars => CaptureTypeOK'
  <2>1. SUFFICES ASSUME CaptureTypeOK, [CaptureNext]_captureVars PROVE CaptureTypeOK'
    OBVIOUS
  <2>2. CASE ReceiveUpload
    BY <2>1, <2>2 DEF ReceiveUpload
  <2>3. CASE RefuseUpload
    BY <2>1, <2>3 DEF RefuseUpload
  <2>4. CASE SaveUpload
    BY <2>1, <2>4 DEF SaveUpload
  <2>5. CASE LeftEnds
    BY <2>1, <2>5 DEF LeftEnds
  <2>6. CASE Analyse
    BY <2>1, <2>6 DEF Analyse
  <2>7. CASE Respond
    BY <2>1, <2>7 DEF Respond, Answer
  <2>8. CASE TakeAnswer
    BY <2>1, <2>8 DEF TakeAnswer, Nothing
  <2>9. ASSUME NEW d \in Readers, ReaderEnds(d) \/ ReaderFails(d) PROVE CaptureTypeOK'
    <3>1. CASE ReaderEnds(d)
      BY <2>1, <3>1 DEF ReaderEnds
    <3>2. CASE ReaderFails(d)
      <4>1. /\ reader' \in [Readers -> {"off", "running", "done"}] /\ left' \subseteq Readers
            /\ upload' \in [at : {"none"}] /\ temp' \in BOOLEAN
            /\ UNCHANGED <<tool, asked, report>>
        BY <3>2 DEF ReaderFails
      <4> QED BY <2>1, <4>1
    <3> QED BY <2>9, <3>1, <3>2
  <2>10. ASSUME NEW v \in DOMAIN asked, Ask(v) PROVE CaptureTypeOK'
    BY <2>1, <2>10 DEF Ask
  <2>11. ASSUME NEW v \in DOMAIN asked, Hear(v) PROVE CaptureTypeOK'
    BY <2>1, <2>11 DEF Hear, VerdictFor
  <2>12. CASE UNCHANGED captureVars
    BY <2>1, <2>12 DEF captureVars
  <2> QED
    BY <2>1, <2>2, <2>3, <2>4, <2>5, <2>6, <2>7, <2>8, <2>9, <2>10, <2>11, <2>12 DEF CaptureNext
<1> QED BY <1>1, <1>2, PTL DEF CaptureSpec

\* A set that has 0, and each number after one it has, has them all.
LEMMA CountingUp ==
    ASSUME NEW n \in Nat, NEW S, 0 \in S, \A k \in 1..n : k - 1 \in S => k \in S
    PROVE  0..n \subseteq S
<1> DEFINE T == (0..n) \ S
<1>1. SUFFICES ASSUME T # {} PROVE FALSE
  OBVIOUS
<1>2. T \subseteq Nat
  OBVIOUS
<1> HIDE DEF T
<1>3. PICK k \in T : \A j \in T : ~(<<j, k>> \in OpToRel(<, Nat))
  BY <1>1, <1>2, NatLessThanWellFounded, WFMin
<1>4. k \in 0..n /\ k \notin S /\ k # 0
  BY <1>3 DEF T
<1>5. k \in 1..n /\ k - 1 \in 0..n /\ k - 1 \notin S
  BY <1>4
<1>6. <<k - 1, k>> \in OpToRel(<, Nat)
  BY <1>4, <1>5 DEF OpToRel
<1>7. k - 1 \in T
  BY <1>5 DEF T
<1> QED BY <1>3, <1>6, <1>7

\* A loop of n rounds leaves something after each.
Rounds(F, start, r, n) ==
    DOMAIN r = 0..n /\ r[0] = start /\ \A k \in 1..n : r[k] = F[<<r[k - 1], k>>]
\* Every loop over numbered rounds has such a run.
LEMMA RoundsExist ==
    ASSUME NEW n \in Nat, NEW X, NEW start \in X, NEW F, F \in [X \X (1..n) -> X]
    PROVE  \E r \in [0..n -> X] : Rounds(F, start, r, n)
<1> DEFINE S == {m \in 0..n : \E r \in [0..m -> X] : Rounds(F, start, r, m)}
<1>1. 0 \in S
  <2> DEFINE r == [k \in 0..0 |-> start]
  <2>1. r \in [0..0 -> X] /\ Rounds(F, start, r, 0) /\ 0 \in 0..n
    BY DEF Rounds
  <2> HIDE DEF r
  <2> QED BY <2>1
<1>2. ASSUME NEW m \in 1..n, m - 1 \in S PROVE m \in S
  <2>1. PICK r \in [0..(m - 1) -> X] : Rounds(F, start, r, m - 1)
    BY <1>2
  <2> DEFINE q == [k \in 0..m |-> IF k = m THEN F[<<r[m - 1], m>>] ELSE r[k]]
  <2>2. q \in [0..m -> X] /\ DOMAIN q = 0..m /\ q[0] = start
    BY <2>1 DEF Rounds
  <2>3. ASSUME NEW k \in 1..m PROVE q[k] = F[<<q[k - 1], k>>]
    <3>1. k - 1 \in 0..m /\ k - 1 # m /\ q[k - 1] = r[k - 1]
      OBVIOUS
    <3>2. CASE k = m
      BY <3>1, <3>2
    <3>3. CASE k # m
      <4>1. k \in 1..(m - 1)
        BY <3>3
      <4> QED BY <2>1, <3>1, <3>3, <4>1 DEF Rounds
    <3> QED BY <3>2, <3>3
  <2> HIDE DEF q
  <2>4. Rounds(F, start, q, m)
    BY <2>2, <2>3 DEF Rounds
  <2> QED BY <2>2, <2>4
<1>3. 0..n \subseteq S
  <2> HIDE DEF S
  <2> QED BY <1>1, <1>2, CountingUp
<1>4. n \in S
  BY <1>3
<1> QED BY <1>4

\* What holds at the start of a loop and is kept by each round holds throughout.
LEMMA LoopStays ==
    ASSUME NEW n \in Nat, NEW X, NEW c, DOMAIN c = 0..n, c[0] \in X,
           \A k \in 1..n : c[k - 1] \in X => c[k] \in X
    PROVE  \A k \in 0..n : c[k] \in X
<1> DEFINE S == {k \in 0..n : c[k] \in X}
<1>1. 0 \in S
  OBVIOUS
<1>2. ASSUME NEW k \in 1..n, k - 1 \in S PROVE k \in S
  BY <1>2
<1>3. 0..n \subseteq S
  <2> HIDE DEF S
  <2> QED BY <1>1, <1>2, CountingUp
<1> QED BY <1>3

\* A row of the table of flows.
FlowRow == [flow : {Flow(p) : p \in Packets}, packets : Nat]
\* What Tally makes of the packets, one after the other.
LEMMA TallyRuns ==
    ASSUME NEW s \in Seq(Packets)
    PROVE  \E r \in [0..Len(s) -> Seq(FlowRow)] :
             /\ r[0] = <<>> /\ \A k \in 1..Len(s) : r[k] = Tally(r[k - 1], s[k])
             /\ Through(Tally, <<>>, s) = r[Len(s)]
<1> DEFINE n == Len(s)
           X == Seq(FlowRow)
           F == [a \in X \X (1..n) |-> Tally(a[1], s[a[2]])]
           c == CHOOSE c : c = [k \in 0..n |-> IF k = 0 THEN <<>> ELSE Tally(c[k - 1], s[k])]
<1>0. n \in Nat /\ <<>> \in X /\ \A k \in 1..n : s[k] \in Packets
  OBVIOUS
<1>1. ASSUME NEW x \in X, NEW v \in Packets PROVE Tally(x, v) \in X
  <2>1. [flow |-> Flow(v), packets |-> 1] \in FlowRow
    BY DEF FlowRow
  <2>2. Append(x, [flow |-> Flow(v), packets |-> 1]) \in X
    BY <2>1
  <2>3. ASSUME NEW S PROVE [i \in DOMAIN x |->
               IF i \in S THEN [x[i] EXCEPT !.packets = @ + 1] ELSE x[i]] \in X
    <3>1. \A y \in FlowRow : [y EXCEPT !.packets = @ + 1] \in FlowRow
      BY DEF FlowRow
    <3> QED BY <3>1
  <2> QED BY <2>2, <2>3 DEF Tally
<1> HIDE DEF X
<1>2. F \in [X \X (1..n) -> X]
  BY <1>0, <1>1
<1>3. \A x \in X, k \in 1..n : F[<<x, k>>] = Tally(x, s[k])
  OBVIOUS
<1> HIDE DEF F, n
<1>4. PICK r \in [0..n -> X] : Rounds(F, <<>>, r, n)
  BY <1>0, <1>2, RoundsExist
<1>5. r = [k \in 0..n |-> IF k = 0 THEN <<>> ELSE Tally(r[k - 1], s[k])]
  <2>1. ASSUME NEW k \in 1..n PROVE r[k] = Tally(r[k - 1], s[k])
    <3>1. r[k - 1] \in X
      BY <1>0, <1>4
    <3> QED BY <1>3, <1>4, <3>1 DEF Rounds
  <2> QED BY <1>0, <1>4, <2>1 DEF Rounds
<1>6. c = [k \in 0..n |-> IF k = 0 THEN <<>> ELSE Tally(c[k - 1], s[k])]
  BY <1>5
<1>7. Through(Tally, <<>>, s) = c[n]
  BY DEF Through, n
<1> HIDE DEF c
<1>8. DOMAIN c = 0..n /\ c[0] = <<>> /\ \A k \in 1..n : c[k] = Tally(c[k - 1], s[k])
  BY <1>0, <1>6
<1>9. \A k \in 1..n : c[k - 1] \in X => c[k] \in X
  BY <1>0, <1>1, <1>8
<1>10. \A k \in 0..n : c[k] \in X
  BY <1>0, <1>8, <1>9, LoopStays
<1>11. c \in [0..n -> X]
  BY <1>6, <1>10
<1> QED BY <1>7, <1>8, <1>11 DEF X, n

\* A question: who asked, and for what.
Asked(V) == [src : V, name : V]
\* What is listed once stays a list of its kind.
LEMMA OnceShape ==
    ASSUME NEW V, NEW got \in Seq(V), NEW v \in V
    PROVE  Once(got, v) \in Seq(V)
BY DEF Once

\* The names of the queries, one after the other.
LEMMA DomainRuns ==
    ASSUME NEW V, NEW s \in Seq(Asked(V))
    PROVE  \E r \in [0..Len(s) -> Seq(V)] :
             /\ r[0] = <<>> /\ \A k \in 1..Len(s) : r[k] = DomainOnce(r[k - 1], s[k])
             /\ Through(DomainOnce, <<>>, s) = r[Len(s)]
<1> DEFINE n == Len(s)
           X == Seq(V)
           F == [a \in X \X (1..n) |-> DomainOnce(a[1], s[a[2]])]
           c == CHOOSE c : c = [k \in 0..n |-> IF k = 0 THEN <<>> ELSE DomainOnce(c[k - 1], s[k])]
<1>0. n \in Nat /\ <<>> \in X /\ \A k \in 1..n : s[k] \in Asked(V)
  OBVIOUS
<1>1. ASSUME NEW x \in X, NEW v \in Asked(V) PROVE DomainOnce(x, v) \in X
  BY OnceShape DEF DomainOnce, Asked
<1> HIDE DEF X
<1>2. F \in [X \X (1..n) -> X]
  BY <1>0, <1>1
<1>3. \A x \in X, k \in 1..n : F[<<x, k>>] = DomainOnce(x, s[k])
  OBVIOUS
<1> HIDE DEF F, n
<1>4. PICK r \in [0..n -> X] : Rounds(F, <<>>, r, n)
  BY <1>0, <1>2, RoundsExist
<1>5. r = [k \in 0..n |-> IF k = 0 THEN <<>> ELSE DomainOnce(r[k - 1], s[k])]
  <2>1. ASSUME NEW k \in 1..n PROVE r[k] = DomainOnce(r[k - 1], s[k])
    <3>1. r[k - 1] \in X
      BY <1>0, <1>4
    <3> QED BY <1>3, <1>4, <3>1 DEF Rounds
  <2> QED BY <1>0, <1>4, <2>1 DEF Rounds
<1>6. c = [k \in 0..n |-> IF k = 0 THEN <<>> ELSE DomainOnce(c[k - 1], s[k])]
  BY <1>5
<1>7. Through(DomainOnce, <<>>, s) = c[n]
  BY DEF Through, n
<1> HIDE DEF c
<1>8. DOMAIN c = 0..n /\ c[0] = <<>> /\ \A k \in 1..n : c[k] = DomainOnce(c[k - 1], s[k])
  BY <1>0, <1>6
<1>9. \A k \in 1..n : c[k - 1] \in X => c[k] \in X
  BY <1>0, <1>1, <1>8
<1>10. \A k \in 0..n : c[k] \in X
  BY <1>0, <1>8, <1>9, LoopStays
<1>11. c \in [0..n -> X]
  BY <1>6, <1>10
<1> QED BY <1>7, <1>8, <1>11 DEF X, n

\* What the program's own reader finds in the packets, one after the other.
LEMMA ParserRuns ==
    ASSUME NEW V, NEW s \in Seq(Packets),
           \A p \in Packets : p.src \in V /\ NameOf(p).name \in V
    PROVE  \E r \in [0..Len(s) -> [found : Seq(Asked(V)), failed : BOOLEAN]] :
             /\ r[0] = [found |-> <<>>, failed |-> FALSE] /\ \A k \in 1..Len(s) : r[k] = ParserReads(r[k - 1], s[k])
             /\ Through(ParserReads, [found |-> <<>>, failed |-> FALSE], s) = r[Len(s)]
<1> DEFINE n == Len(s)
           X == [found : Seq(Asked(V)), failed : BOOLEAN]
           F == [a \in X \X (1..n) |-> ParserReads(a[1], s[a[2]])]
           c == CHOOSE c : c = [k \in 0..n |-> IF k = 0 THEN [found |-> <<>>, failed |-> FALSE] ELSE ParserReads(c[k - 1], s[k])]
<1>0. n \in Nat /\ [found |-> <<>>, failed |-> FALSE] \in X /\ \A k \in 1..n : s[k] \in Packets
  OBVIOUS
<1>1. ASSUME NEW x \in X, NEW v \in Packets PROVE ParserReads(x, v) \in X
  <2>1. [src |-> v.src, name |-> NameOf(v).name] \in Asked(V)
    BY DEF Asked
  <2>2. Fresh(x.found, [src |-> v.src, name |-> NameOf(v).name]) \in Seq(Asked(V))
    BY <2>1, OnceShape DEF Fresh
  <2> QED BY <2>2 DEF ParserReads
<1> HIDE DEF X
<1>2. F \in [X \X (1..n) -> X]
  BY <1>0, <1>1
<1>3. \A x \in X, k \in 1..n : F[<<x, k>>] = ParserReads(x, s[k])
  OBVIOUS
<1> HIDE DEF F, n
<1>4. PICK r \in [0..n -> X] : Rounds(F, [found |-> <<>>, failed |-> FALSE], r, n)
  BY <1>0, <1>2, RoundsExist
<1>5. r = [k \in 0..n |-> IF k = 0 THEN [found |-> <<>>, failed |-> FALSE] ELSE ParserReads(r[k - 1], s[k])]
  <2>1. ASSUME NEW k \in 1..n PROVE r[k] = ParserReads(r[k - 1], s[k])
    <3>1. r[k - 1] \in X
      BY <1>0, <1>4
    <3> QED BY <1>3, <1>4, <3>1 DEF Rounds
  <2> QED BY <1>0, <1>4, <2>1 DEF Rounds
<1>6. c = [k \in 0..n |-> IF k = 0 THEN [found |-> <<>>, failed |-> FALSE] ELSE ParserReads(c[k - 1], s[k])]
  BY <1>5
<1>7. Through(ParserReads, [found |-> <<>>, failed |-> FALSE], s) = c[n]
  BY DEF Through, n
<1> HIDE DEF c
<1>8. DOMAIN c = 0..n /\ c[0] = [found |-> <<>>, failed |-> FALSE] /\ \A k \in 1..n : c[k] = ParserReads(c[k - 1], s[k])
  <2>1. DOMAIN c = 0..n
    BY <1>6
  <2>2. c[0] = [found |-> <<>>, failed |-> FALSE]
    BY <1>0, <1>6
  <2>3. ASSUME NEW k \in 1..n PROVE c[k] = ParserReads(c[k - 1], s[k])
    <3>1. k \in 0..n /\ k # 0
      BY <1>0
    <3>2. c[k] = [j \in 0..n |-> IF j = 0 THEN [found |-> <<>>, failed |-> FALSE]
                                ELSE ParserReads(c[j - 1], s[j])][k]
      BY <1>6
    <3> QED BY <3>1, <3>2
  <2> QED BY <2>1, <2>2, <2>3
<1>9. \A k \in 1..n : c[k - 1] \in X => c[k] \in X
  BY <1>0, <1>1, <1>8
<1>10. \A k \in 0..n : c[k] \in X
  BY <1>0, <1>8, <1>9, LoopStays
<1>11. c \in [0..n -> X]
  BY <1>6, <1>10
<1> QED BY <1>7, <1>8, <1>11 DEF X, n

\* What tshark's lines say, one after the other.
LEMMA TsharkRuns ==
    ASSUME NEW V, NEW s \in Seq(Packets),
           \A p \in Packets : p.src \in V /\ ShownName(p) \in V
    PROVE  \E r \in [0..Len(s) -> Seq(Asked(V))] :
             /\ r[0] = <<>> /\ \A k \in 1..Len(s) : r[k] = TsharkReads(r[k - 1], s[k])
             /\ Through(TsharkReads, <<>>, s) = r[Len(s)]
<1> DEFINE n == Len(s)
           X == Seq(Asked(V))
           F == [a \in X \X (1..n) |-> TsharkReads(a[1], s[a[2]])]
           c == CHOOSE c : c = [k \in 0..n |-> IF k = 0 THEN <<>> ELSE TsharkReads(c[k - 1], s[k])]
<1>0. n \in Nat /\ <<>> \in X /\ \A k \in 1..n : s[k] \in Packets
  OBVIOUS
<1>1. ASSUME NEW x \in X, NEW v \in Packets PROVE TsharkReads(x, v) \in X
  <2>1. [src |-> v.src, name |-> ShownName(v)] \in Asked(V)
    BY DEF Asked
  <2>2. Fresh(x, [src |-> v.src, name |-> ShownName(v)]) \in X
    BY <2>1, OnceShape DEF Fresh
  <2> QED BY <2>2 DEF TsharkReads
<1> HIDE DEF X
<1>2. F \in [X \X (1..n) -> X]
  BY <1>0, <1>1
<1>3. \A x \in X, k \in 1..n : F[<<x, k>>] = TsharkReads(x, s[k])
  OBVIOUS
<1> HIDE DEF F, n
<1>4. PICK r \in [0..n -> X] : Rounds(F, <<>>, r, n)
  BY <1>0, <1>2, RoundsExist
<1>5. r = [k \in 0..n |-> IF k = 0 THEN <<>> ELSE TsharkReads(r[k - 1], s[k])]
  <2>1. ASSUME NEW k \in 1..n PROVE r[k] = TsharkReads(r[k - 1], s[k])
    <3>1. r[k - 1] \in X
      BY <1>0, <1>4
    <3> QED BY <1>3, <1>4, <3>1 DEF Rounds
  <2> QED BY <1>0, <1>4, <2>1 DEF Rounds
<1>6. c = [k \in 0..n |-> IF k = 0 THEN <<>> ELSE TsharkReads(c[k - 1], s[k])]
  BY <1>5
<1>7. Through(TsharkReads, <<>>, s) = c[n]
  BY DEF Through, n
<1> HIDE DEF c
<1>8. DOMAIN c = 0..n /\ c[0] = <<>> /\ \A k \in 1..n : c[k] = TsharkReads(c[k - 1], s[k])
  BY <1>0, <1>6
<1>9. \A k \in 1..n : c[k - 1] \in X => c[k] \in X
  BY <1>0, <1>1, <1>8
<1>10. \A k \in 0..n : c[k] \in X
  BY <1>0, <1>8, <1>9, LoopStays
<1>11. c \in [0..n -> X]
  BY <1>6, <1>10
<1> QED BY <1>7, <1>8, <1>11 DEF X, n

\* Packet k is the first that asks q.
FirstAt(ps, k, q) ==
    k \in DOMAIN ps /\ IsOf(ps[k], q) /\ \A m \in 1..(k - 1) : ~IsOf(ps[m], q)
\* qs are the questions of the first n packets, each once, in their order.
AskedIn(ps, n, qs) ==
    /\ \A i \in DOMAIN qs : \E k \in 1..n : FirstAt(ps, k, qs[i])
    /\ \A k \in 1..n : IsQuestion(ps[k]) => Means(ps[k]) \in Members(qs)
    /\ \A i, j \in DOMAIN qs, k, m \in 1..n :
         i < j /\ FirstAt(ps, k, qs[i]) /\ FirstAt(ps, m, qs[j]) => k < m

\* One packet more: its question is listed if it is one and not there yet.
LEMMA AskedGrows ==
    ASSUME NEW V, NEW ps, NEW n \in 1..Len(ps), Len(ps) \in Nat, DOMAIN ps = 1..Len(ps),
           NEW qs \in Seq(V), AskedIn(ps, n - 1, qs),
           Means(ps[n]) \in V
    PROVE  AskedIn(ps, n, IF IsQuestion(ps[n]) THEN Once(qs, Means(ps[n])) ELSE qs)
<1> DEFINE q == Means(ps[n])
<1>0. n \in Nat /\ 1..n = (1..(n - 1)) \cup {n} /\ n \in DOMAIN ps /\ n \notin 1..(n - 1)
  OBVIOUS
<1>1. CASE ~IsQuestion(ps[n])
  <2>1. \A x : ~FirstAt(ps, n, x)
    BY <1>1 DEF FirstAt, IsOf
  <2> QED BY <1>0, <1>1, <2>1 DEF AskedIn
<1>2. CASE IsQuestion(ps[n]) /\ q \in Members(qs)
  <2>1. \A i \in DOMAIN qs : ~FirstAt(ps, n, qs[i])
    <3> SUFFICES ASSUME NEW i \in DOMAIN qs, FirstAt(ps, n, qs[i]) PROVE FALSE
      OBVIOUS
    <3>1. PICK k \in 1..(n - 1) : FirstAt(ps, k, qs[i])
      BY DEF AskedIn
    <3> QED BY <3>1 DEF FirstAt
  <2>2. Once(qs, q) = qs
    BY <1>2 DEF Once
  <2> QED BY <1>0, <1>2, <2>1, <2>2 DEF AskedIn
<1>3. CASE IsQuestion(ps[n]) /\ q \notin Members(qs)
  <2> DEFINE rs == Append(qs, q)
  <2>1. Once(qs, q) = rs
    BY <1>3 DEF Once
  <2>2. FirstAt(ps, n, q) /\ \A k \in 1..(n - 1) : ~FirstAt(ps, k, q)
    <3>1. \A k \in 1..(n - 1) : ~IsOf(ps[k], q)
      BY <1>3 DEF AskedIn, IsOf
    <3> QED BY <1>0, <1>3, <3>1 DEF FirstAt, IsOf
  <2>3. /\ DOMAIN rs = (DOMAIN qs) \cup {Len(qs) + 1} /\ rs[Len(qs) + 1] = q
        /\ \A i \in DOMAIN qs : rs[i] = qs[i] /\ i < Len(qs) + 1 /\ i \in Nat
        /\ Len(qs) \in Nat
    OBVIOUS
  <2>4. \A i \in DOMAIN qs : ~FirstAt(ps, n, qs[i])
    BY <1>3 DEF FirstAt, IsOf, Members
  <2> HIDE DEF rs, q
  <2>5. \A i \in DOMAIN rs : \E k \in 1..n : FirstAt(ps, k, rs[i])
    BY <1>0, <2>2, <2>3 DEF AskedIn
  <2>6. ASSUME NEW k \in 1..n, IsQuestion(ps[k]) PROVE Means(ps[k]) \in Members(rs)
    <3>1. CASE k = n
      BY <2>3, <3>1 DEF Members, q
    <3>2. CASE k \in 1..(n - 1)
      <4>1. PICK i \in DOMAIN qs : qs[i] = Means(ps[k])
        BY <2>6, <3>2 DEF AskedIn, Members
      <4> QED BY <2>3, <4>1 DEF Members
    <3> QED BY <1>0, <3>1, <3>2
  <2>7. ASSUME NEW i \in DOMAIN rs, NEW j \in DOMAIN rs, NEW k \in 1..n, NEW m \in 1..n,
               i < j, FirstAt(ps, k, rs[i]), FirstAt(ps, m, rs[j])
        PROVE  k < m
    <3>1. i \in DOMAIN qs
      BY <2>3, <2>7
    <3>2. k \in 1..(n - 1)
      BY <1>0, <2>3, <2>4, <2>7, <3>1
    <3>3. CASE j \in DOMAIN qs
      <4>1. m \in 1..(n - 1)
        BY <1>0, <2>3, <2>4, <2>7, <3>3
      <4> QED BY <2>3, <2>7, <3>1, <3>2, <3>3, <4>1 DEF AskedIn
    <3>4. CASE j = Len(qs) + 1
      <4>1. m = n
        BY <1>0, <2>2, <2>3, <2>7, <3>4
      <4> QED BY <3>2, <4>1
    <3> QED BY <2>3, <3>3, <3>4
  <2> QED BY <1>3, <2>1, <2>5, <2>6, <2>7 DEF AskedIn, q
<1> QED BY <1>1, <1>2, <1>3

\* Whoever lists the question of each packet in turn ends with those of all.
LEMMA AskedOnce ==
    ASSUME NEW V, NEW ps \in Seq(Packets), NEW r \in [0..Len(ps) -> Seq(V)], r[0] = <<>>,
           \A k \in 1..Len(ps) :
             /\ Means(ps[k]) \in V
             /\ r[k] = IF IsQuestion(ps[k]) THEN Once(r[k - 1], Means(ps[k])) ELSE r[k - 1]
    PROVE  AskedIn(ps, Len(ps), r[Len(ps)])
<1> DEFINE n == Len(ps)
           S == {k \in 0..n : AskedIn(ps, k, r[k])}
<1>0. n \in Nat /\ DOMAIN ps = 1..n
  OBVIOUS
<1> HIDE DEF n
<1>1. 0 \in S
  <2>1. DOMAIN r[0] = {} /\ 1..0 = {}
    OBVIOUS
  <2> QED BY <1>0, <2>1 DEF AskedIn
<1>2. ASSUME NEW k \in 1..n, k - 1 \in S PROVE k \in S
  <2>1. r[k - 1] \in Seq(V) /\ k \in 0..n /\ AskedIn(ps, k - 1, r[k - 1])
    BY <1>0, <1>2 DEF n
  <2>2. Means(ps[k]) \in V
    BY DEF n
  <2>3. AskedIn(ps, k, IF IsQuestion(ps[k]) THEN Once(r[k - 1], Means(ps[k])) ELSE r[k - 1])
    BY <1>0, <2>1, <2>2, AskedGrows DEF n
  <2> QED BY <2>1, <2>3 DEF n
<1>3. 0..n \subseteq S
  <2> HIDE DEF S
  <2> QED BY <1>0, <1>1, <1>2, CountingUp
<1> QED BY <1>0, <1>3 DEF n

\* The packets of flow w among the first n.
Carriers(ps, n, w) == {k \in 1..n : ps[k].ether = "ipv4" /\ Flow(ps[k]) = w}
\* rows are the flows of the first n packets, each once, and count their packets.
TalliedIn(ps, n, rows) ==
    /\ \A i \in DOMAIN rows : Carriers(ps, n, rows[i].flow) # {}
    /\ \A k \in 1..n : ps[k].ether = "ipv4" => \E i \in DOMAIN rows : rows[i].flow = Flow(ps[k])
    /\ \A i, j \in DOMAIN rows : i # j => rows[i].flow # rows[j].flow
    /\ \A i \in DOMAIN rows : rows[i].packets = Cardinality(Carriers(ps, n, rows[i].flow))

\* One packet more is counted for its own flow and for no other.
LEMMA CarriersGrow ==
    ASSUME NEW ps, NEW n \in Nat, n > 0, NEW w
    PROVE  /\ Cardinality(Carriers(ps, n - 1, w)) \in Nat
           /\ ps[n].ether = "ipv4" /\ Flow(ps[n]) = w =>
                /\ Carriers(ps, n, w) # {}
                /\ Cardinality(Carriers(ps, n, w)) = Cardinality(Carriers(ps, n - 1, w)) + 1
           /\ ~(ps[n].ether = "ipv4" /\ Flow(ps[n]) = w) =>
                Carriers(ps, n, w) = Carriers(ps, n - 1, w)
<1> DEFINE C == Carriers(ps, n - 1, w)
<1>1. 1..n = (1..(n - 1)) \cup {n} /\ n \notin 1..(n - 1)
  OBVIOUS
<1>2. IsFiniteSet(C) /\ n \notin C
  <2>1. IsFiniteSet(1..(n - 1)) /\ C \in SUBSET (1..(n - 1))
    BY FS_Interval DEF Carriers
  <2> HIDE DEF C
  <2>2. IsFiniteSet(C)
    BY <2>1, FS_Subset
  <2> QED BY <1>1, <2>1, <2>2
<1>3. CASE ps[n].ether = "ipv4" /\ Flow(ps[n]) = w
  <2>1. Carriers(ps, n, w) = C \cup {n}
    BY <1>1, <1>3 DEF Carriers
  <2> HIDE DEF C
  <2>2. Cardinality(C \cup {n}) = Cardinality(C) + 1 /\ Cardinality(C) \in Nat
    BY <1>2, FS_AddElement, FS_CardinalityType
  <2> QED BY <1>3, <2>1, <2>2 DEF C
<1>4. CASE ~(ps[n].ether = "ipv4" /\ Flow(ps[n]) = w)
  <2>1. Carriers(ps, n, w) = C
    BY <1>1, <1>4 DEF Carriers
  <2> HIDE DEF C
  <2>2. Cardinality(C) \in Nat
    BY <1>2, FS_CardinalityType
  <2> QED BY <1>4, <2>1, <2>2 DEF C
<1> QED BY <1>3, <1>4

\* One packet more: Tally counts it, in a new row or in the one of its flow.
LEMMA TallyGrows ==
    ASSUME NEW ps, NEW n \in Nat, n > 0, ps[n] \in Packets,
           NEW rows \in Seq(FlowRow), TalliedIn(ps, n - 1, rows)
    PROVE  TalliedIn(ps, n, Tally(rows, ps[n]))
<1> DEFINE w == Flow(ps[n])
           at == {i \in DOMAIN rows : rows[i].flow = w}
<1>0. 1..n = (1..(n - 1)) \cup {n} /\ n \notin 1..(n - 1)
  OBVIOUS
<1>1. CASE ps[n].ether # "ipv4"
  <2>1. Tally(rows, ps[n]) = rows
    BY <1>1 DEF Tally
  <2>2. \A x : Carriers(ps, n, x) = Carriers(ps, n - 1, x)
    BY <1>1, CarriersGrow
  <2> QED BY <1>0, <1>1, <2>1, <2>2 DEF TalliedIn
<1>2. CASE ps[n].ether = "ipv4" /\ at = {}
  <2> DEFINE new == [flow |-> w, packets |-> 1]
             rs == Append(rows, new)
  <2>1. Tally(rows, ps[n]) = rs
    BY <1>2 DEF Tally
  <2>2. /\ DOMAIN rs = (DOMAIN rows) \cup {Len(rows) + 1} /\ rs[Len(rows) + 1] = new
        /\ \A i \in DOMAIN rows : rs[i] = rows[i] /\ i # Len(rows) + 1
    OBVIOUS
  <2>3. Carriers(ps, n - 1, w) = {} /\ Carriers(ps, n, w) # {} /\ Cardinality(Carriers(ps, n, w)) = 1
    <3>1. Carriers(ps, n - 1, w) = {}
      BY <1>2 DEF Carriers, TalliedIn
    <3>2. /\ Carriers(ps, n, w) # {}
          /\ Cardinality(Carriers(ps, n, w)) = Cardinality(Carriers(ps, n - 1, w)) + 1
      BY <1>2, CarriersGrow
    <3>3. Cardinality(Carriers(ps, n - 1, w)) = 0
      BY <3>1, FS_EmptySet
    <3> QED BY <3>1, <3>2, <3>3
  <2>4. new.flow = w /\ new.packets = 1
    OBVIOUS
  <2> HIDE DEF rs, new
  <2>5. \A i \in DOMAIN rows :
           rows[i].flow # w /\ Carriers(ps, n, rows[i].flow) = Carriers(ps, n - 1, rows[i].flow)
    BY <1>2, CarriersGrow
  <2>6. \A i \in DOMAIN rs : Carriers(ps, n, rs[i].flow) # {}
    BY <2>2, <2>3, <2>4, <2>5 DEF TalliedIn
  <2>7. ASSUME NEW k \in 1..n, ps[k].ether = "ipv4" PROVE \E i \in DOMAIN rs : rs[i].flow = Flow(ps[k])
    <3>1. CASE k = n
      BY <2>2, <2>4, <3>1
    <3>2. CASE k \in 1..(n - 1)
      <4>1. PICK i \in DOMAIN rows : rows[i].flow = Flow(ps[k])
        BY <2>7, <3>2 DEF TalliedIn
      <4> QED BY <2>2, <4>1
    <3> QED BY <1>0, <3>1, <3>2
  <2>8. \A i, j \in DOMAIN rs : i # j => rs[i].flow # rs[j].flow
    BY <2>2, <2>4, <2>5 DEF TalliedIn
  <2>9. \A i \in DOMAIN rs : rs[i].packets = Cardinality(Carriers(ps, n, rs[i].flow))
    BY <2>2, <2>3, <2>4, <2>5 DEF TalliedIn
  <2> QED BY <2>1, <2>6, <2>7, <2>8, <2>9 DEF TalliedIn
<1>3. CASE ps[n].ether = "ipv4" /\ at # {}
  <2> DEFINE rs == [i \in DOMAIN rows |->
                     IF i \in at THEN [rows[i] EXCEPT !.packets = @ + 1] ELSE rows[i]]
  <2>1. Tally(rows, ps[n]) = rs
    BY <1>3 DEF Tally
  <2>2. ASSUME NEW i \in DOMAIN rows
        PROVE  /\ rs[i].flow = rows[i].flow
               /\ rs[i].packets = IF rows[i].flow = w THEN rows[i].packets + 1 ELSE rows[i].packets
    <3>1. rows[i] \in FlowRow
      OBVIOUS
    <3> QED BY <3>1 DEF FlowRow
  <2>3. DOMAIN rs = DOMAIN rows
    OBVIOUS
  <2>4. PICK o \in DOMAIN rows : rows[o].flow = w
    BY <1>3
  <2> HIDE DEF rs
  <2>5. ASSUME NEW i \in DOMAIN rs
        PROVE  /\ Carriers(ps, n, rs[i].flow) # {}
               /\ rs[i].packets = Cardinality(Carriers(ps, n, rs[i].flow))
    <3>1. /\ Carriers(ps, n - 1, rows[i].flow) # {}
          /\ rows[i].packets = Cardinality(Carriers(ps, n - 1, rows[i].flow))
      BY <2>3 DEF TalliedIn
    <3>2. CASE rows[i].flow = w
      BY <1>3, <2>2, <2>3, <3>1, <3>2, CarriersGrow
    <3>3. CASE rows[i].flow # w
      BY <1>3, <2>2, <2>3, <3>1, <3>3, CarriersGrow
    <3> QED BY <3>2, <3>3
  <2>6. ASSUME NEW k \in 1..n, ps[k].ether = "ipv4" PROVE \E i \in DOMAIN rs : rs[i].flow = Flow(ps[k])
    <3>1. CASE k = n
      BY <2>2, <2>3, <2>4, <3>1
    <3>2. CASE k \in 1..(n - 1)
      <4>1. PICK i \in DOMAIN rows : rows[i].flow = Flow(ps[k])
        BY <2>6, <3>2 DEF TalliedIn
      <4> QED BY <2>2, <2>3, <4>1
    <3> QED BY <1>0, <3>1, <3>2
  <2>7. \A i, j \in DOMAIN rs : i # j => rs[i].flow # rs[j].flow
    BY <2>2, <2>3 DEF TalliedIn
  <2> QED BY <2>1, <2>5, <2>6, <2>7 DEF TalliedIn
<1> QED BY <1>1, <1>2, <1>3

\* Every packet is of a row, and every row counts its packets.
LEMMA Tallied ==
    ASSUME NEW ps \in Seq(Packets)
    PROVE  /\ Through(Tally, <<>>, ps) \in Seq(FlowRow)
           /\ TalliedIn(ps, Len(ps), Through(Tally, <<>>, ps))
<1> DEFINE n == Len(ps)
<1>0. n \in Nat /\ \A k \in 1..n : ps[k] \in Packets
  OBVIOUS
<1>1. PICK r \in [0..n -> Seq(FlowRow)] :
         /\ r[0] = <<>> /\ \A k \in 1..n : r[k] = Tally(r[k - 1], ps[k])
         /\ Through(Tally, <<>>, ps) = r[n]
  BY TallyRuns
<1> DEFINE S == {k \in 0..n : TalliedIn(ps, k, r[k])}
<1> HIDE DEF n
<1>2. 0 \in S
  <2>1. DOMAIN r[0] = {} /\ 1..0 = {}
    BY <1>1
  <2> QED BY <1>0, <2>1 DEF TalliedIn
<1>3. ASSUME NEW k \in 1..n, k - 1 \in S PROVE k \in S
  <2>1. r[k - 1] \in Seq(FlowRow) /\ k \in 0..n /\ k \in Nat /\ k > 0 /\ TalliedIn(ps, k - 1, r[k - 1])
    BY <1>0, <1>3
  <2>2. TalliedIn(ps, k, Tally(r[k - 1], ps[k]))
    BY <1>0, <2>1, TallyGrows
  <2> QED BY <1>1, <2>1, <2>2
<1>4. 0..n \subseteq S
  <2> HIDE DEF S
  <2> QED BY <1>0, <1>2, <1>3, CountingUp
<1> QED BY <1>0, <1>1, <1>4 DEF n

\* Sorting puts each row somewhere, those with more packets before the others.
LEMMA SortedIs ==
    ASSUME NEW rows \in Seq(FlowRow)
    PROVE  \E at \in [1..Len(rows) -> 1..Len(rows)] :
             /\ Sorted(rows) = [k \in 1..Len(rows) |-> rows[at[k]]]
             /\ \A j, k \in 1..Len(rows) : j < k => Before(rows, at[j], at[k])
             /\ \A i \in 1..Len(rows) : \E k \in 1..Len(rows) : at[k] = i
<1> DEFINE n == Len(rows)
           S == 1..n
           R == {x \in S \X S : Before(rows, x[1], x[2])}
           at == [k \in S |-> CHOOSE i \in S : Ahead(S, R, i) = k - 1]
<1>0. n \in Nat /\ DOMAIN rows = S /\ S \subseteq Nat /\ \A i \in S : rows[i].packets \in Nat
  <2>1. \A x \in FlowRow : x.packets \in Nat
    BY DEF FlowRow
  <2> QED BY <2>1
<1>1. \A i, j \in S : <<i, j>> \in R <=> Before(rows, i, j)
  OBVIOUS
<1>2. IsFiniteSet(S) /\ Cardinality(S) = n
  <2> HIDE DEF n
  <2>1. 1 \in Int /\ n \in Int
    BY <1>0
  <2> QED BY <1>0, <2>1, FS_Interval
<1> HIDE DEF S, R, n
<1>3. Orders(R, S)
  <2>1. \A i \in S : ~Before(rows, i, i)
    BY <1>0 DEF Before
  <2>2. \A i, j \in S : i = j \/ Before(rows, i, j) \/ Before(rows, j, i)
    BY <1>0 DEF Before
  <2>3. \A i, j, k \in S : Before(rows, i, j) /\ Before(rows, j, k) => Before(rows, i, k)
    BY <1>0 DEF Before
  <2> QED BY <1>1, <2>1, <2>2, <2>3 DEF Orders
<1>4. ASSUME NEW i \in S PROVE Ahead(S, R, i) = Cardinality({j \in S : Before(rows, j, i)})
  <2>1. {j \in S : <<j, i>> \in R} = {j \in S : Before(rows, j, i)}
    BY <1>1
  <2> QED BY <2>1 DEF Ahead
<1>5. ASSUME NEW k \in S PROVE at[k] \in S /\ Ahead(S, R, at[k]) = k - 1
  <2>1. k - 1 \in 0..(Cardinality(S) - 1)
    BY <1>0, <1>2 DEF S
  <2>2. \E i \in S : Ahead(S, R, i) = k - 1
    BY <1>2, <1>3, <2>1, PlaceExists
  <2> QED BY <2>2
<1>6. Sorted(rows) = [k \in S |-> rows[at[k]]]
  <2>1. ASSUME NEW k \in S
        PROVE  at[k] = CHOOSE i \in S : Cardinality({j \in S : Before(rows, j, i)}) = k - 1
    BY <1>4
  <2>2. Sorted(rows) = [k \in S |-> rows[CHOOSE i \in S :
                           Cardinality({j \in S : Before(rows, j, i)}) = k - 1]]
    BY <1>0 DEF Sorted
  <2> HIDE DEF at
  <2> QED BY ONLY <2>1, <2>2
<1> HIDE DEF at
<1>7. ASSUME NEW j \in S, NEW k \in S, j < k PROVE Before(rows, at[j], at[k])
  <2>1. <<at[j], at[k]>> \in R <=> Ahead(S, R, at[j]) < Ahead(S, R, at[k])
    BY <1>2, <1>3, <1>5, AheadGrows
  <2>2. j \in Nat /\ k \in Nat
    BY <1>0
  <2>3. Ahead(S, R, at[j]) < Ahead(S, R, at[k])
    BY <1>5, <1>7, <2>2
  <2> QED BY <1>1, <1>5, <2>1, <2>3
<1>8. ASSUME NEW i \in S PROVE \E k \in S : at[k] = i
  <2>1. Ahead(S, R, i) \in Nat /\ Ahead(S, R, i) < n
    BY <1>2, <1>3, AheadGrows
  <2> DEFINE k0 == Ahead(S, R, i) + 1
  <2>2. PICK k \in S : k - 1 = Ahead(S, R, i)
    <3>1. \A a \in Nat : a < n => a + 1 \in S /\ (a + 1) - 1 = a
      BY ONLY <1>0 DEF S
    <3>2. k0 \in S /\ k0 - 1 = Ahead(S, R, i)
      BY ONLY <2>1, <3>1
    <3> QED BY <3>2
  <2>3. Ahead(S, R, at[k]) = Ahead(S, R, i) /\ at[k] \in S
    BY <1>5, <2>2
  <2>4. /\ <<at[k], i>> \in R <=> Ahead(S, R, at[k]) < Ahead(S, R, i)
        /\ <<i, at[k]>> \in R <=> Ahead(S, R, i) < Ahead(S, R, at[k])
    BY <1>2, <1>3, <2>3, AheadGrows
  <2>5. at[k] = i \/ <<at[k], i>> \in R \/ <<i, at[k]>> \in R
    BY <1>3, <2>3 DEF Orders
  <2> QED BY <2>1, <2>3, <2>4, <2>5
<1>9. at \in [S -> S]
  BY <1>5 DEF at
<1> QED BY <1>6, <1>7, <1>8, <1>9 DEF S, n

\* The first n of a list, or all of it.
LEMMA FirstOfIs ==
    ASSUME NEW V, NEW s \in Seq(V), NEW n \in Nat
    PROVE  /\ FirstOf(s, n) \in Seq(V)
           /\ Len(FirstOf(s, n)) = IF Len(s) < n THEN Len(s) ELSE n
           /\ \A i \in DOMAIN FirstOf(s, n) : FirstOf(s, n)[i] = s[i] /\ i \in DOMAIN s /\ i <= n
<1> DEFINE m == IF Len(s) < n THEN Len(s) ELSE n
<1>1. m \in 0..Len(s) /\ m <= n /\ m \in Nat
  OBVIOUS
<1>2. FirstOf(s, n) = SubSeq(s, 1, m)
  BY DEF FirstOf, Least
<1> HIDE DEF m
<1>3. SubSeq(s, 1, m) = [i \in 1..m |-> s[i]]
  BY <1>1
<1>4. \A i \in 1..m : i \in DOMAIN s /\ s[i] \in V /\ i <= n
  BY <1>1
<1>5. FirstOf(s, n) \in Seq(V) /\ Len(FirstOf(s, n)) = m
  BY <1>1, <1>2, <1>3, <1>4
<1>6. \A i \in DOMAIN FirstOf(s, n) : FirstOf(s, n)[i] = s[i] /\ i \in DOMAIN s /\ i <= n
  BY <1>1, <1>2, <1>3, <1>4
<1> QED BY <1>5, <1>6 DEF m

\* The packets of a file are those a reader keeps, and without a torso the whole of these.
LEMMA PacketsAre ==
    ASSUME NEW f \in Files
    PROVE  /\ Kept(f) \in Seq(Packets) /\ Whole(f) \in Seq(Packets)
           /\ ~Torso(f) => Whole(f) = Kept(f)
<1>1. f.packets \in Seq(Packets)
  <2>1. PICK n \in 0..MaxLength : f.packets \in [1..n -> Packets]
    BY DEF Files
  <2>2. n \in Nat
    BY <2>1, CaptureAssumption
  <2> QED BY <2>1, <2>2
<1>2. Kept(f) \in Seq(Packets)
  BY <1>1, CaptureAssumption, FirstOfIs DEF Kept
<1>3. CASE Torso(f)
  <2>1. Len(f.packets) - 1 \in Nat
    BY <1>3, CaptureAssumption DEF Torso
  <2>2. Whole(f) \in Seq(Packets)
    BY <1>1, <1>3, <2>1, FirstOfIs DEF Whole
  <2> QED BY <1>2, <1>3, <2>2
<1>4. CASE ~Torso(f)
  BY <1>2, <1>4 DEF Whole
<1> QED BY <1>3, <1>4

\* The words there are in the packets.
Written == {p.src : p \in Packets} \cup {NameOf(p).name : p \in Packets}
           \cup {ShownName(p) : p \in Packets} \cup {p.dns.says : p \in Packets}

\* Within reach, each reader takes for a question what is one, and reads its name.
LEMMA QuestionsAre ==
    ASSUME NEW p \in Packets, InReach(p)
    PROVE  /\ Means(p) \in Asked(Written)
           /\ tool = "tshark" =>
                /\ ShowsQuery(p) <=> IsQuestion(p)
                /\ IsQuestion(p) => Means(p) = [src |-> p.src, name |-> ShownName(p)]
           /\ tool = "parser" =>
                /\ Asks(p) /\ NameOf(p).ok /\ NameOf(p).name # <<>> <=> IsQuestion(p)
                /\ IsQuestion(p) => Means(p) = [src |-> p.src, name |-> NameOf(p).name]
<1>1. Means(p) \in Asked(Written)
  BY DEF Means, Asked, Written
<1>2. ASSUME tool = "tshark"
      PROVE  /\ ShowsQuery(p) <=> IsQuestion(p)
             /\ IsQuestion(p) => Means(p) = [src |-> p.src, name |-> ShownName(p)]
  BY <1>2 DEF InReach, IsQuestion, ShowsQuery, Seen, Means, ShownName
<1>3. ASSUME tool = "parser"
      PROVE  /\ Asks(p) /\ NameOf(p).ok /\ NameOf(p).name # <<>> <=> IsQuestion(p)
             /\ IsQuestion(p) => Means(p) = [src |-> p.src, name |-> NameOf(p).name]
  <2>1. HasDns(p) /\ p.dns.flag = "query" /\ p.dns.size = "full" =>
          p.dns.says = IF NameOf(p).ok THEN NameOf(p).name ELSE <<>>
    BY CaptureAssumption
  <2> QED BY <1>3, <2>1 DEF IsQuestion, Asks, Seen, Means
<1> QED BY <1>1, <1>2, <1>3

\* core/pcap.py: extract_dns finds the questions of the packets kept.
LEMMA TsharkFinds ==
    ASSUME NEW f \in Files, tool = "tshark", ~Torso(f), \A p \in Members(Whole(f)) : InReach(p)
    PROVE  /\ TsharkDns(f) \in Seq(Asked(Written))
           /\ AskedIn(Whole(f), Len(Whole(f)), TsharkDns(f))
<1> DEFINE ps == Whole(f)
           n == Len(ps)
<1>1. ps \in Seq(Packets) /\ ps = Kept(f) /\ n \in Nat
  BY PacketsAre
<1>2. \A p \in Packets : p.src \in Written /\ ShownName(p) \in Written
  BY DEF Written
<1>3. TsharkDns(f) = Through(TsharkReads, <<>>, ps)
  BY <1>1 DEF TsharkDns
<1>4. \A k \in 1..n : ps[k] \in Packets /\ InReach(ps[k])
  BY <1>1 DEF Members
<1> HIDE DEF ps
<1>5. PICK r \in [0..n -> Seq(Asked(Written))] :
        /\ r[0] = <<>> /\ \A k \in 1..n : r[k] = TsharkReads(r[k - 1], ps[k])
        /\ Through(TsharkReads, <<>>, ps) = r[n]
  BY <1>1, <1>2, TsharkRuns
<1>6. ASSUME NEW k \in 1..n
      PROVE  /\ Means(ps[k]) \in Asked(Written)
             /\ r[k] = IF IsQuestion(ps[k]) THEN Once(r[k - 1], Means(ps[k])) ELSE r[k - 1]
  BY <1>4, <1>5, QuestionsAre DEF TsharkReads, Fresh
<1>7. AskedIn(ps, n, r[n])
  BY <1>1, <1>5, <1>6, AskedOnce
<1> QED BY <1>1, <1>3, <1>5, <1>7 DEF ps

\* core/pcap_parser.py: extract_dns finds them too, and never fails within reach.
LEMMA ParserFinds ==
    ASSUME NEW f \in Files, tool = "parser", f.kind = "pcap",
           \A p \in Members(Whole(f)) : InReach(p)
    PROVE  /\ ParserDns(f) \in Seq(Asked(Written))
           /\ AskedIn(Whole(f), Len(Whole(f)), ParserDns(f))
<1> DEFINE ps == Whole(f)
           n == Len(ps)
           start == [found |-> <<>>, failed |-> FALSE]
           X == [found : Seq(Asked(Written)), failed : BOOLEAN]
<1>1. ps \in Seq(Packets) /\ n \in Nat
  BY PacketsAre
<1>2. \A p \in Packets : p.src \in Written /\ NameOf(p).name \in Written
  BY DEF Written
<1>3. ParserDns(f) = Through(ParserReads, start, ps).found
  BY DEF ParserDns, Opens
<1>4. \A k \in 1..n : ps[k] \in Packets /\ InReach(ps[k])
  BY <1>1 DEF Members
<1> HIDE DEF ps
<1>5. PICK c \in [0..n -> X] :
        /\ c[0] = start /\ \A k \in 1..n : c[k] = ParserReads(c[k - 1], ps[k])
        /\ Through(ParserReads, start, ps) = c[n]
  BY <1>1, <1>2, ParserRuns
<1>6. ASSUME NEW k \in 1..n, ~c[k - 1].failed
      PROVE  /\ ~c[k].failed
             /\ Means(ps[k]) \in Asked(Written)
             /\ c[k].found = IF IsQuestion(ps[k]) THEN Once(c[k - 1].found, Means(ps[k]))
                             ELSE c[k - 1].found
  <2>1. c[k - 1] \in X /\ c[k] = ParserReads(c[k - 1], ps[k])
    BY <1>1, <1>5
  <2>2. ~IsShort(ps[k]) /\ Means(ps[k]) \in Asked(Written)
        /\ (Asks(ps[k]) /\ NameOf(ps[k]).ok /\ NameOf(ps[k]).name # <<>> <=> IsQuestion(ps[k]))
        /\ (IsQuestion(ps[k]) => Means(ps[k]) = [src |-> ps[k].src, name |-> NameOf(ps[k]).name])
    BY <1>4, QuestionsAre DEF InReach
  <2>3. CASE IsQuestion(ps[k])
    <3>1. c[k] = [c[k - 1] EXCEPT !.found = Fresh(@, Means(ps[k]))]
      BY <1>6, <2>1, <2>2, <2>3 DEF ParserReads
    <3> QED BY <1>6, <2>1, <2>2, <2>3, <3>1 DEF Fresh
  <2>4. CASE ~IsQuestion(ps[k])
    <3>1. c[k] = c[k - 1]
      BY <1>6, <2>1, <2>2, <2>4 DEF ParserReads
    <3> QED BY <1>6, <2>2, <2>4, <3>1
  <2> QED BY <2>3, <2>4
<1> DEFINE S == {k \in 0..n : ~c[k].failed}
           r == [k \in 0..n |-> c[k].found]
<1>7. 0..n \subseteq S
  <2>1. 0 \in S
    BY <1>1, <1>5
  <2>2. \A k \in 1..n : k - 1 \in S => k \in S
    BY <1>1, <1>6
  <2> HIDE DEF S
  <2> QED BY <1>1, <2>1, <2>2, CountingUp
<1>8. ASSUME NEW k \in 1..n
      PROVE  /\ Means(ps[k]) \in Asked(Written)
             /\ r[k] = IF IsQuestion(ps[k]) THEN Once(r[k - 1], Means(ps[k])) ELSE r[k - 1]
  <2>1. k \in 0..n /\ k - 1 \in 0..n
    BY <1>1
  <2> QED BY <1>6, <1>7, <2>1
<1>9. r \in [0..n -> Seq(Asked(Written))] /\ r[0] = <<>>
  BY <1>1, <1>5
<1> HIDE DEF r, S
<1>10. AskedIn(ps, n, r[n])
  BY <1>1, <1>8, <1>9, AskedOnce
<1>11. ParserDns(f) = r[n]
  BY <1>1, <1>3, <1>5 DEF r
<1> QED BY <1>1, <1>9, <1>10, <1>11 DEF ps

\* What is asked is what was found, each once and in the order of the first packet
\* that asks it.
LEMMA QueriesExact ==
    ASSUME NEW V, NEW ps \in Seq(Packets), NEW qs \in Seq(V), AskedIn(ps, Len(ps), qs)
    PROVE  /\ Members(qs) = AsksOf(ps) /\ Len(qs) = Cardinality(AsksOf(ps)) /\ IsFiniteSet(AsksOf(ps))
           /\ \A i, j \in DOMAIN qs : i < j => FirstAsk(ps, qs[i]) < FirstAsk(ps, qs[j])
           /\ \A i \in DOMAIN qs : FirstAsk(ps, qs[i]) \in Nat
<1> DEFINE n == Len(ps)
           m == Len(qs)
<1>0. n \in Nat /\ DOMAIN ps = 1..n /\ m \in Nat /\ DOMAIN qs = 1..m /\ qs \in [1..m -> V]
  OBVIOUS
<1>1. ASSUME NEW i \in 1..m
      PROVE  FirstAsk(ps, qs[i]) \in 1..n /\ FirstAt(ps, FirstAsk(ps, qs[i]), qs[i])
  <2>1. PICK k \in 1..n : FirstAt(ps, k, qs[i])
    BY <1>0 DEF AskedIn
  <2>2. k \in DOMAIN ps /\ IsOf(ps[k], qs[i]) /\ \A l \in 1..(k - 1) : ~IsOf(ps[l], qs[i])
    BY <2>1 DEF FirstAt
  <2> QED BY <1>0, <2>2 DEF FirstAsk, FirstAt
<1>2. \A i, j \in 1..m : i < j => FirstAsk(ps, qs[i]) < FirstAsk(ps, qs[j])
  BY <1>0, <1>1 DEF AskedIn
<1>3. Members(qs) = AsksOf(ps)
  <2>1. ASSUME NEW i \in 1..m PROVE qs[i] \in AsksOf(ps)
    <3>1. PICK k \in 1..n : IsOf(ps[k], qs[i])
      BY <1>1 DEF FirstAt
    <3> QED BY <1>0, <3>1 DEF IsOf, AsksOf, Members
  <2>2. ASSUME NEW k \in 1..n, IsQuestion(ps[k]) PROVE Means(ps[k]) \in Members(qs)
    BY <1>0, <2>2 DEF AskedIn
  <2>3. Members(qs) \subseteq AsksOf(ps)
    BY <1>0, <2>1 DEF Members
  <2>4. AsksOf(ps) \subseteq Members(qs)
    BY <1>0, <2>2 DEF AsksOf, Members
  <2> QED BY <2>3, <2>4
<1>4. qs \in Surjection(1..m, AsksOf(ps)) /\ qs \in Injection(1..m, AsksOf(ps))
  <2>1. qs \in [1..m -> AsksOf(ps)] /\ \A q \in AsksOf(ps) : \E i \in 1..m : qs[i] = q
    BY <1>0, <1>3 DEF Members
  <2>2. ASSUME NEW i \in 1..m, NEW j \in 1..m, qs[i] = qs[j] PROVE i = j
    <3>1. FirstAsk(ps, qs[i]) = FirstAsk(ps, qs[j]) /\ FirstAsk(ps, qs[i]) \in Nat
      BY <1>0, <1>1, <2>2
    <3>2. ~(i < j) /\ ~(j < i)
      BY <1>2, <3>1
    <3> QED BY <1>0, <3>2
  <2> QED BY <2>1, <2>2 DEF Surjection, Injection, IsInjective
<1>5. IsFiniteSet(1..m) /\ Cardinality(1..m) = m
  <2> HIDE DEF m
  <2>1. 1 \in Int /\ m \in Int
    BY <1>0
  <2> QED BY <1>0, <2>1, FS_Interval
<1>6. IsFiniteSet(AsksOf(ps)) /\ Cardinality(AsksOf(ps)) = m
  <2> DEFINE A == AsksOf(ps)
             I == 1..m
  <2> HIDE DEF A, I
  <2>1. IsFiniteSet(A) /\ Cardinality(A) = Cardinality(I)
    BY <1>4, <1>5, FS_Surjection DEF A, I
  <2> QED BY <1>5, <2>1 DEF A, I
<1> QED BY <1>0, <1>1, <1>2, <1>3, <1>6

\* So is the beginning of them that is shown.
LEMMA ShownQueriesExact ==
    ASSUME NEW V, NEW ps \in Seq(Packets), NEW qs \in Seq(V), AskedIn(ps, Len(ps), qs), NEW k \in Nat
    PROVE  LET shown == FirstOf(qs, k)
           IN  /\ Members(shown) \subseteq AsksOf(ps)
               /\ Len(shown) = Least(Cardinality(AsksOf(ps)), k)
               /\ \A i, j \in DOMAIN shown : i < j => FirstAsk(ps, shown[i]) < FirstAsk(ps, shown[j])
               /\ \A q \in AsksOf(ps) \ Members(shown), i \in DOMAIN shown :
                    FirstAsk(ps, shown[i]) < FirstAsk(ps, q)
<1> DEFINE shown == FirstOf(qs, k)
<1>1. /\ Members(qs) = AsksOf(ps) /\ Len(qs) = Cardinality(AsksOf(ps))
      /\ \A i, j \in DOMAIN qs : i < j => FirstAsk(ps, qs[i]) < FirstAsk(ps, qs[j])
  BY QueriesExact
<1>2. /\ shown \in Seq(V) /\ Len(shown) = IF Len(qs) < k THEN Len(qs) ELSE k
      /\ \A i \in DOMAIN shown : shown[i] = qs[i] /\ i \in DOMAIN qs /\ i <= k
  BY FirstOfIs
<1>3. Len(qs) \in Nat /\ DOMAIN qs = 1..Len(qs) /\ Len(shown) \in Nat /\ DOMAIN shown = 1..Len(shown)
  BY <1>2
<1> HIDE DEF shown
<1>4. Members(shown) \subseteq AsksOf(ps)
  BY <1>1, <1>2 DEF Members
<1>5. Len(shown) = Least(Cardinality(AsksOf(ps)), k)
  BY <1>1, <1>2 DEF Least
<1>6. \A i, j \in DOMAIN shown : i < j => FirstAsk(ps, shown[i]) < FirstAsk(ps, shown[j])
  BY <1>1, <1>2
<1>7. ASSUME NEW q \in AsksOf(ps) \ Members(shown), NEW i \in DOMAIN shown
      PROVE  FirstAsk(ps, shown[i]) < FirstAsk(ps, q)
  <2>1. PICK j \in DOMAIN qs : qs[j] = q
    BY <1>1 DEF Members
  <2>2. j \notin DOMAIN shown
    BY <1>2, <2>1 DEF Members
  <2>3. i < j
    BY <1>3, <2>2
  <2> QED BY <1>1, <1>2, <2>1, <2>3
<1> QED BY <1>4, <1>5, <1>6, <1>7 DEF shown


\* Sorting the rows keeps what they are, and puts those with more packets first.
LEMMA SortedTallied ==
    ASSUME NEW ps, NEW n \in Nat, NEW rows \in Seq(FlowRow), TalliedIn(ps, n, rows)
    PROVE  /\ Sorted(rows) \in Seq(FlowRow) /\ TalliedIn(ps, n, Sorted(rows))
           /\ \A j, k \in DOMAIN Sorted(rows) :
                j < k => Sorted(rows)[j].packets >= Sorted(rows)[k].packets
<1> DEFINE m == Len(rows)
           S == 1..m
<1>1. PICK at \in [S -> S] :
        /\ Sorted(rows) = [k \in S |-> rows[at[k]]]
        /\ \A j, k \in S : j < k => Before(rows, at[j], at[k])
        /\ \A i \in S : \E k \in S : at[k] = i
  BY SortedIs
<1>2. m \in Nat /\ DOMAIN rows = S /\ \A i \in S : rows[i] \in FlowRow /\ rows[i].packets \in Nat
  <2>1. \A x \in FlowRow : x.packets \in Nat
    BY DEF FlowRow
  <2> QED BY <2>1
<1>3. Sorted(rows) \in Seq(FlowRow) /\ DOMAIN Sorted(rows) = S
      /\ \A k \in S : Sorted(rows)[k] = rows[at[k]] /\ at[k] \in S
  <2>1. \A k \in S : at[k] \in S /\ rows[at[k]] \in FlowRow
    BY <1>1, <1>2
  <2>2. DOMAIN Sorted(rows) = S /\ \A k \in S : Sorted(rows)[k] = rows[at[k]]
    BY <1>1
  <2>3. [k \in 1..m |-> rows[at[k]]] \in Seq(FlowRow)
    BY <1>2, <2>1
  <2> QED BY <1>1, <2>1, <2>2, <2>3
<1> HIDE DEF m
<1>4. ASSUME NEW j \in S, NEW k \in S, j < k PROVE rows[at[j]].packets >= rows[at[k]].packets
  <2>1. Before(rows, at[j], at[k])
    BY <1>1, <1>4
  <2> QED BY <1>2, <1>3, <2>1 DEF Before
<1>5. ASSUME NEW j \in S, NEW k \in S, j # k PROVE at[j] # at[k]
  <2>1. \A i \in S : ~Before(rows, i, i)
    BY <1>2 DEF Before
  <2>2. j < k \/ k < j
    BY <1>2, <1>5
  <2> QED BY <1>1, <1>3, <2>1, <2>2
<1> HIDE DEF S
<1>6. TalliedIn(ps, n, Sorted(rows))
  <2>1. \A k \in S : /\ Carriers(ps, n, rows[at[k]].flow) # {}
                     /\ rows[at[k]].packets = Cardinality(Carriers(ps, n, rows[at[k]].flow))
    BY <1>2, <1>3 DEF TalliedIn
  <2>2. ASSUME NEW l \in 1..n, ps[l].ether = "ipv4" PROVE \E k \in S : rows[at[k]].flow = Flow(ps[l])
    <3>1. PICK i \in S : rows[i].flow = Flow(ps[l])
      BY <1>2, <2>2 DEF TalliedIn
    <3> QED BY <1>1, <3>1
  <2>3. \A j, k \in S : j # k => rows[at[j]].flow # rows[at[k]].flow
    BY <1>2, <1>3, <1>5 DEF TalliedIn
  <2> DEFINE rs == Sorted(rows)
  <2>4. DOMAIN rs = S /\ \A k \in S : rs[k] = rows[at[k]]
    BY <1>3
  <2> HIDE DEF rs
  <2>5. TalliedIn(ps, n, rs)
    <3>1. \A k \in DOMAIN rs : /\ Carriers(ps, n, rs[k].flow) # {}
                               /\ rs[k].packets = Cardinality(Carriers(ps, n, rs[k].flow))
      BY <2>1, <2>4
    <3>2. \A l \in 1..n : ps[l].ether = "ipv4" => \E k \in DOMAIN rs : rs[k].flow = Flow(ps[l])
      BY <2>2, <2>4
    <3>3. \A j, k \in DOMAIN rs : j # k => rs[j].flow # rs[k].flow
      BY <2>3, <2>4
    <3> QED BY ONLY <3>1, <3>2, <3>3 DEF TalliedIn
  <2> QED BY <2>5 DEF rs
<1> QED BY <1>3, <1>4, <1>6

\* The rows that are shown are of as many flows as there are or fit, the greatest.
LEMMA ShownFlowsExact ==
    ASSUME NEW ps \in Seq(Packets), NEW rows \in Seq(FlowRow), TalliedIn(ps, Len(ps), rows),
           \A j, k \in DOMAIN rows : j < k => rows[j].packets >= rows[k].packets, NEW m \in Nat
    PROVE  LET shown == FirstOf(rows, m)
           IN  /\ {rows[i].flow : i \in DOMAIN rows} = FlowsOf(ps)
               /\ Len(shown) = Least(Cardinality(FlowsOf(ps)), m)
               /\ \A i \in DOMAIN shown :
                    shown[i].flow \in FlowsOf(ps) /\ shown[i].packets = Count(ps, shown[i].flow)
               /\ \A i, j \in DOMAIN shown : i < j =>
                    shown[i].packets >= shown[j].packets /\ shown[i].flow # shown[j].flow
               /\ \A w \in FlowsOf(ps) \ {r.flow : r \in Members(shown)}, i \in DOMAIN shown :
                    shown[i].packets >= Count(ps, w)
<1> DEFINE n == Len(ps)
           l == Len(rows)
           shown == FirstOf(rows, m)
           W == FlowsOf(ps)
<1>0. n \in Nat /\ DOMAIN ps = 1..n /\ l \in Nat /\ DOMAIN rows = 1..l
  OBVIOUS
<1>1. /\ shown \in Seq(FlowRow) /\ Len(shown) = IF l < m THEN l ELSE m
      /\ \A i \in DOMAIN shown : shown[i] = rows[i] /\ i \in DOMAIN rows /\ i <= m
  BY FirstOfIs
<1>2. Len(shown) \in Nat /\ DOMAIN shown = 1..Len(shown)
  BY <1>1
<1> HIDE DEF shown
<1>3. \A w : Count(ps, w) = Cardinality(Carriers(ps, n, w))
  BY <1>0 DEF Count, Carriers
<1>4. ASSUME NEW i \in 1..l PROVE rows[i].flow \in W /\ rows[i].packets = Count(ps, rows[i].flow)
  <2>1. PICK k \in 1..n : ps[k].ether = "ipv4" /\ Flow(ps[k]) = rows[i].flow
    BY <1>0 DEF TalliedIn, Carriers
  <2>2. rows[i].flow \in W
    BY <1>0, <2>1 DEF FlowsOf, Members
  <2> QED BY <1>0, <1>3, <2>2 DEF TalliedIn
<1>5. ASSUME NEW w \in W PROVE \E i \in 1..l : rows[i].flow = w
  <2>1. PICK k \in 1..n : ps[k].ether = "ipv4" /\ Flow(ps[k]) = w
    BY <1>0 DEF FlowsOf, Members
  <2> QED BY <1>0, <2>1 DEF TalliedIn
<1>6. {rows[i].flow : i \in DOMAIN rows} = W
  BY <1>0, <1>4, <1>5
<1>7. Cardinality(W) = l
  <2> DEFINE f == [i \in 1..l |-> rows[i].flow]
             I == 1..l
  <2>1. f \in Surjection(I, W) /\ f \in Injection(I, W)
    <3>1. f \in [I -> W] /\ \A w \in W : \E i \in I : f[i] = w
      BY <1>4, <1>5
    <3>2. \A i, j \in I : f[i] = f[j] => i = j
      BY <1>0 DEF TalliedIn
    <3> HIDE DEF f
    <3> QED BY <3>1, <3>2 DEF Surjection, Injection, IsInjective
  <2>2. IsFiniteSet(I) /\ Cardinality(I) = l
    <3> HIDE DEF l
    <3>1. 1 \in Int /\ l \in Int
      BY <1>0
    <3> QED BY <1>0, <3>1, FS_Interval
  <2> HIDE DEF f, I, W
  <2> QED BY <2>1, <2>2, FS_Surjection
<1> HIDE DEF W
<1>8. Len(shown) = Least(Cardinality(W), m)
  BY <1>1, <1>7 DEF Least
<1>9. \A i \in DOMAIN shown : shown[i].flow \in W /\ shown[i].packets = Count(ps, shown[i].flow)
  BY <1>0, <1>1, <1>4
<1>10. \A i, j \in DOMAIN shown : i < j =>
         shown[i].packets >= shown[j].packets /\ shown[i].flow # shown[j].flow
  <2>1. \A i, j \in DOMAIN rows : i < j => i # j
    BY <1>0
  <2> QED BY <1>1, <2>1 DEF TalliedIn
<1>11. ASSUME NEW w \in W \ {r.flow : r \in Members(shown)}, NEW i \in DOMAIN shown
       PROVE  shown[i].packets >= Count(ps, w)
  <2>1. PICK j \in 1..l : rows[j].flow = w
    BY <1>5
  <2>2. j \notin DOMAIN shown
    BY <1>1, <1>11, <2>1 DEF Members
  <2>3. i < j
    BY <1>0, <1>1, <1>2, <2>2
  <2>4. rows[i].packets >= rows[j].packets
    BY <1>0, <1>1, <2>3
  <2> QED BY <1>1, <1>4, <2>1, <2>4
<1> QED BY <1>6, <1>8, <1>9, <1>10, <1>11 DEF shown, W

\* d are the names of the first n queries, each once, in their order.
NamedIn(qs, n, d) ==
    /\ \A i \in 1..n : qs[i].name \in Members(d)
    /\ \A k \in DOMAIN d : \E i \in 1..n : qs[i].name = d[k]
    /\ \A j, k \in DOMAIN d : d[j] = d[k] => j = k
    /\ \A j, k \in DOMAIN d, i \in 1..n :
         j < k /\ qs[i].name = d[k] => \E h \in 1..(i - 1) : qs[h].name = d[j]

\* One question more: its name is listed if it is not there yet.
LEMMA NamesGrow ==
    ASSUME NEW V, NEW qs, NEW n \in Nat, n > 0, NEW d \in Seq(V), NamedIn(qs, n - 1, d),
           qs[n].name \in V
    PROVE  NamedIn(qs, n, Once(d, qs[n].name))
<1> DEFINE v == qs[n].name
<1>0. 1..n = (1..(n - 1)) \cup {n} /\ n \notin 1..(n - 1)
  OBVIOUS
<1>1. CASE v \in Members(d)
  <2>1. Once(d, v) = d
    BY <1>1 DEF Once
  <2>2. ASSUME NEW j \in DOMAIN d, NEW k \in DOMAIN d, NEW i \in 1..n, j < k, qs[i].name = d[k]
        PROVE  \E h \in 1..(i - 1) : qs[h].name = d[j]
    <3>1. CASE i \in 1..(n - 1)
      BY <2>2, <3>1 DEF NamedIn
    <3>2. CASE i = n
      BY <3>2 DEF NamedIn
    <3> QED BY <1>0, <3>1, <3>2
  <2>3. \A i \in 1..n : qs[i].name \in Members(d)
    BY <1>0, <1>1 DEF NamedIn
  <2>4. /\ \A k \in DOMAIN d : \E i \in 1..n : qs[i].name = d[k]
        /\ \A j, k \in DOMAIN d : d[j] = d[k] => j = k
    BY <1>0 DEF NamedIn
  <2> QED BY <2>1, <2>2, <2>3, <2>4 DEF NamedIn
<1>2. CASE v \notin Members(d)
  <2> DEFINE e == Append(d, v)
             m == Len(d) + 1
  <2>1. Once(d, v) = e
    BY <1>2 DEF Once
  <2>2. /\ DOMAIN e = (DOMAIN d) \cup {m} /\ e[m] = v /\ m \in Nat
        /\ \A i \in DOMAIN d : e[i] = d[i] /\ i < m /\ i \in Nat /\ d[i] # v
    BY <1>2 DEF Members
  <2> HIDE DEF e, m
  <2>3. ASSUME NEW i \in 1..n PROVE qs[i].name \in Members(e)
    <3>1. CASE i = n
      BY <2>2, <3>1 DEF Members
    <3>2. CASE i \in 1..(n - 1)
      <4>1. PICK k \in DOMAIN d : d[k] = qs[i].name
        BY <3>2 DEF NamedIn, Members
      <4> QED BY <2>2, <4>1 DEF Members
    <3> QED BY <1>0, <3>1, <3>2
  <2>4. ASSUME NEW k \in DOMAIN e PROVE \E i \in 1..n : qs[i].name = e[k]
    <3>1. CASE k = m
      BY <1>0, <2>2, <3>1
    <3>2. CASE k \in DOMAIN d
      BY <1>0, <2>2, <3>2 DEF NamedIn
    <3> QED BY <2>2, <3>1, <3>2
  <2>5. \A j, k \in DOMAIN e : e[j] = e[k] => j = k
    BY <2>2 DEF NamedIn
  <2>6. ASSUME NEW j \in DOMAIN e, NEW k \in DOMAIN e, NEW i \in 1..n, j < k, qs[i].name = e[k]
        PROVE  \E h \in 1..(i - 1) : qs[h].name = e[j]
    <3>1. j \in DOMAIN d /\ e[j] = d[j]
      BY <2>2, <2>6
    <3>2. CASE k = m
      <4>1. i = n
        <5>1. \A h \in 1..(n - 1) : qs[h].name # v
          BY <1>2 DEF NamedIn
        <5> QED BY <1>0, <2>2, <2>6, <3>2, <5>1
      <4>2. \E h \in 1..(n - 1) : qs[h].name = d[j]
        BY <3>1 DEF NamedIn
      <4> QED BY <3>1, <4>1, <4>2
    <3>3. CASE k \in DOMAIN d
      <4>1. i # n
        BY <2>2, <2>6, <3>3
      <4> QED BY <1>0, <2>2, <2>6, <3>1, <3>3, <4>1 DEF NamedIn
    <3> QED BY <2>2, <3>2, <3>3
  <2> QED BY <2>1, <2>3, <2>4, <2>5, <2>6 DEF NamedIn
<1> QED BY <1>1, <1>2

\* dict.fromkeys of the domains has each name once, by its first question.
LEMMA DomainsAre ==
    ASSUME NEW V, NEW qs \in Seq(Asked(V))
    PROVE  Domains(qs) \in Seq(V) /\ NamedIn(qs, Len(qs), Domains(qs))
<1> DEFINE n == Len(qs)
<1>0. n \in Nat /\ \A k \in 1..n : qs[k].name \in V
  <2>1. \A q \in Asked(V) : q.name \in V
    BY DEF Asked
  <2> QED BY <2>1
<1>1. PICK r \in [0..n -> Seq(V)] :
        /\ r[0] = <<>> /\ \A k \in 1..n : r[k] = DomainOnce(r[k - 1], qs[k])
        /\ Through(DomainOnce, <<>>, qs) = r[n]
  BY DomainRuns
<1> DEFINE S == {k \in 0..n : NamedIn(qs, k, r[k])}
<1> HIDE DEF n
<1>2. 0 \in S
  <2>1. DOMAIN r[0] = {} /\ 1..0 = {}
    BY <1>1
  <2> QED BY <1>0, <2>1 DEF NamedIn
<1>3. ASSUME NEW k \in 1..n, k - 1 \in S PROVE k \in S
  <2>1. r[k - 1] \in Seq(V) /\ k \in 0..n /\ k \in Nat /\ k > 0 /\ NamedIn(qs, k - 1, r[k - 1])
    BY <1>0, <1>3
  <2>2. NamedIn(qs, k, Once(r[k - 1], qs[k].name))
    BY <1>0, <2>1, NamesGrow
  <2> QED BY <1>1, <2>1, <2>2 DEF DomainOnce
<1>4. 0..n \subseteq S
  <2> HIDE DEF S
  <2> QED BY <1>0, <1>2, <1>3, CountingUp
<1>5. Domains(qs) = r[n]
  BY <1>1 DEF Domains
<1> QED BY <1>0, <1>1, <1>4, <1>5 DEF n

\* A name before which few others were asked for is among the first.
LEMMA EarlyAreFirst ==
    ASSUME NEW V, NEW ps \in Seq(Packets), NEW qs \in Seq(Asked(V)), AskedIn(ps, Len(ps), qs),
           NEW y \in AsksOf(ps), NEW m \in Nat,
           Cardinality({x.name : x \in {z \in AsksOf(ps) : FirstAsk(ps, z) <= FirstAsk(ps, y)}}) <= m
    PROVE  y.name \in Members(FirstOf(Domains(qs), m))
<1> DEFINE d == Domains(qs)
           N == {x.name : x \in {z \in AsksOf(ps) : FirstAsk(ps, z) <= FirstAsk(ps, y)}}
<1>1. /\ Members(qs) = AsksOf(ps)
      /\ \A i, j \in DOMAIN qs : i < j => FirstAsk(ps, qs[i]) < FirstAsk(ps, qs[j])
      /\ \A i \in DOMAIN qs : FirstAsk(ps, qs[i]) \in Nat
  BY QueriesExact
<1>2. d \in Seq(V) /\ NamedIn(qs, Len(qs), d)
  BY DomainsAre
<1>3. Len(qs) \in Nat /\ DOMAIN qs = 1..Len(qs) /\ Len(d) \in Nat /\ DOMAIN d = 1..Len(d)
      /\ d \in [1..Len(d) -> V]
  BY <1>2
<1> HIDE DEF d
<1>4. PICK i \in DOMAIN qs : qs[i] = y
  BY <1>1 DEF Members
<1>5. PICK k \in DOMAIN d : d[k] = y.name
  BY <1>2, <1>3, <1>4 DEF NamedIn, Members
<1>6. ASSUME NEW j \in 1..k PROVE d[j] \in N
  <2>1. CASE j = k
    BY <1>1, <1>4, <1>5, <2>1
  <2>2. CASE j < k
    <3>0. j \in DOMAIN d /\ i \in 1..Len(qs) /\ qs[i].name = d[k]
      BY <1>3, <1>4, <1>5, <2>2
    <3>1. PICK h \in 1..(i - 1) : qs[h].name = d[j]
      BY <1>2, <2>2, <3>0 DEF NamedIn
    <3>2. h \in DOMAIN qs /\ h < i
      BY <1>3, <1>4
    <3>3. qs[h] \in AsksOf(ps) /\ FirstAsk(ps, qs[h]) <= FirstAsk(ps, y)
      BY <1>1, <1>4, <3>2 DEF Members
    <3> QED BY <3>1, <3>3
  <2> QED BY <1>3, <2>1, <2>2
<1>7. N \subseteq Members(d)
  <2>1. ASSUME NEW z \in AsksOf(ps) PROVE z.name \in Members(d)
    <3>1. PICK h \in DOMAIN qs : qs[h] = z
      BY <1>1 DEF Members
    <3> QED BY <1>2, <1>3, <3>1 DEF NamedIn
  <2> QED BY <2>1
<1> HIDE DEF N
<1>8. IsFiniteSet(N)
  <2> DEFINE I == 1..Len(d)
             M == Members(d)
  <2>1. IsFiniteSet(I)
    BY <1>3, FS_Interval
  <2>2. d \in Surjection(I, M)
    BY <1>3 DEF Members, Surjection
  <2> HIDE DEF I, M
  <2>3. IsFiniteSet(M)
    BY <2>1, <2>2, FS_Surjection
  <2> QED BY <1>7, <2>3, FS_Subset DEF M
<1>9. k <= Cardinality(N)
  <2> DEFINE I == 1..k
             D == {d[j] : j \in I}
             f == [j \in I |-> d[j]]
  <2>0. k \in Nat /\ I \subseteq DOMAIN d
    BY <1>3
  <2>1. IsFiniteSet(I) /\ Cardinality(I) = k
    <3>1. 1 \in Int /\ k \in Int
      BY <2>0
    <3> QED BY <2>0, <3>1, FS_Interval
  <2>2. f \in Surjection(I, D) /\ f \in Injection(I, D)
    <3>1. f \in [I -> D] /\ \A x \in D : \E j \in I : f[j] = x
      OBVIOUS
    <3>2. \A a, b \in I : f[a] = f[b] => a = b
      BY <1>2, <2>0 DEF NamedIn
    <3> HIDE DEF f, D
    <3> QED BY <3>1, <3>2 DEF Surjection, Injection, IsInjective
  <2>3. D \in SUBSET N
    BY <1>6
  <2> HIDE DEF I, D, f
  <2>4. Cardinality(D) = k
    BY <2>1, <2>2, FS_Surjection
  <2> QED BY <1>8, <2>3, <2>4, FS_Subset
<1>10. k <= m
  <2>1. Cardinality(N) \in Nat /\ Cardinality(N) <= m
    BY <1>8, FS_CardinalityType DEF N
  <2> QED BY <1>3, <1>9, <2>1
<1>11. k \in DOMAIN FirstOf(d, m) /\ FirstOf(d, m)[k] = d[k]
  <2>1. /\ FirstOf(d, m) \in Seq(V) /\ Len(FirstOf(d, m)) = IF Len(d) < m THEN Len(d) ELSE m
        /\ \A x \in DOMAIN FirstOf(d, m) : FirstOf(d, m)[x] = d[x]
    BY <1>2, FirstOfIs
  <2>2. k \in 1..Len(FirstOf(d, m))
    BY <1>3, <1>10, <2>1
  <2> QED BY <2>1, <2>2
<1> QED BY <1>5, <1>11 DEF d, Members

\* Readers run while a capture is read, and tshark gets through what it can read.
ReadersAre ==
    /\ upload.at # "reading" => \A d \in Readers : reader[d] = "off"
    /\ upload.at = "reading" /\ tool = "tshark" /\ (\E d \in Readers : reader[d] = "done") =>
         ~Unreadable(upload.file)
    /\ upload.at \in {"asking", "answered"} /\ tool = "tshark" => ~Unreadable(upload.file)
\* What is asked for are the targets, and OTX says what it says or fails.
AskedRight ==
    /\ upload.at \in {"asking", "answered"} => DOMAIN asked = Targets(upload.file)
    /\ \A v \in DOMAIN asked : asked[v] \in {"queued", "asking", "failed", VerdictFor(v)}
\* What is answered is the answer, once OTX has said or failed.
AnsweredRight ==
    upload.at = "answered" =>
      /\ report = Answer(upload.file)
      /\ \A v \in DOMAIN asked : asked[v] \in {"failed", VerdictFor(v)}

\* What every step of an upload keeps.
CaptureInv == CaptureTypeOK /\ ReadersAre /\ AskedRight /\ AnsweredRight

\* No step starts or ends a reader out of its place.
LEMMA ReadersStay ==
    ASSUME CaptureTypeOK, ReadersAre, [CaptureNext]_captureVars
    PROVE  ReadersAre'
<1> USE DEF ReadersAre
<1>0. reader \in [Readers -> {"off", "running", "done"}] /\ upload.at \in {"none", "saving", "reading", "asking", "answered"}
  BY DEF CaptureTypeOK
<1>1. CASE ReceiveUpload
  BY <1>0, <1>1 DEF ReceiveUpload
<1>2. CASE RefuseUpload
  BY <1>0, <1>2 DEF RefuseUpload
<1>3. CASE SaveUpload
  <2>1. upload'.at = "reading" /\ \A d \in Readers : reader'[d] = "running"
    BY <1>3 DEF SaveUpload, CaptureTypeOK
  <2> QED BY <2>1
<1>4. CASE LeftEnds
  BY <1>4 DEF LeftEnds
<1>5. CASE Analyse
  <2>1. /\ upload.at = "reading" /\ upload'.at = "asking" /\ upload'.file = upload.file
        /\ tool' = tool /\ \A d \in Readers : reader[d] = "done" /\ reader'[d] = "off"
    BY <1>5 DEF Analyse, CaptureTypeOK
  <2> QED BY <2>1 DEF Readers
<1>6. CASE Respond
  <2>1. /\ upload.at = "asking" /\ upload'.at = "answered" /\ upload'.file = upload.file
        /\ tool' = tool /\ reader' = reader
    BY <1>6 DEF Respond, CaptureTypeOK
  <2> QED BY <2>1
<1>7. CASE TakeAnswer
  BY <1>7 DEF TakeAnswer
<1>8. ASSUME NEW d \in Readers, ReaderEnds(d) PROVE ReadersAre'
  <2>1. upload.at = "reading"
    BY <1>8 DEF ReaderEnds
  <2> QED BY <1>8, <2>1 DEF ReaderEnds
<1>9. ASSUME NEW d \in Readers, ReaderFails(d) PROVE ReadersAre'
  BY <1>9 DEF ReaderFails
<1>10. ASSUME NEW v \in DOMAIN asked, Ask(v) \/ Hear(v) PROVE ReadersAre'
  BY <1>10 DEF Ask, Hear
<1>11. CASE UNCHANGED captureVars
  BY <1>11 DEF captureVars
<1> QED BY <1>1, <1>2, <1>3, <1>4, <1>5, <1>6, <1>7, <1>8, <1>9, <1>10, <1>11 DEF CaptureNext

\* What is read of a file depends on the tool and nothing else that changes.
LEMMA TargetsStay ==
    ASSUME tool' = tool, upload'.file = upload.file
    PROVE  (Targets(upload.file))' = Targets(upload.file)
BY DEF Targets, Queries, Flows

\* Nor does the answer, as long as OTX says nothing new.
LEMMA AnswerStays ==
    ASSUME tool' = tool, upload'.file = upload.file, asked' = asked
    PROVE  (Answer(upload.file))' = Answer(upload.file)
BY DEF Answer, Queries, Flows, BuildFindings, Flagged

\* tshark is installed or it is not.
LEMMA ToolStays == [CaptureNext]_captureVars => tool' = tool
BY DEF CaptureNext, captureVars, ReceiveUpload, RefuseUpload, SaveUpload, LeftEnds, Analyse,
       Respond, TakeAnswer, ReaderEnds, ReaderFails, Ask, Hear

\* What is asked stays what the file names, at every step.
LEMMA AskedStays ==
    ASSUME CaptureTypeOK, AskedRight, [CaptureNext]_captureVars
    PROVE  AskedRight'
<1>0. tool' = tool
  BY ToolStays
<1>1. ASSUME asked' = asked, upload'.at \in {"asking", "answered"} =>
                upload.at \in {"asking", "answered"} /\ upload'.file = upload.file
      PROVE  AskedRight'
  <2>1. (\A v \in DOMAIN asked : asked[v] \in {"queued", "asking", "failed", VerdictFor(v)})'
    BY <1>1 DEF AskedRight
  <2>2. upload'.at \in {"asking", "answered"} => (DOMAIN asked = Targets(upload.file))'
    BY <1>0, <1>1, TargetsStay DEF AskedRight
  <2> QED BY <2>1, <2>2 DEF AskedRight
<1>2. CASE ReceiveUpload \/ RefuseUpload \/ SaveUpload \/ LeftEnds \/ UNCHANGED captureVars
  BY <1>1, <1>2 DEF ReceiveUpload, RefuseUpload, SaveUpload, LeftEnds, captureVars, CaptureTypeOK
<1>3. CASE Analyse
  <2>1. upload'.file = upload.file /\ asked' = [v \in Targets(upload.file) |-> "queued"]
    BY <1>3 DEF Analyse, CaptureTypeOK
  <2>2. (DOMAIN asked = Targets(upload.file))'
    BY <1>0, <2>1, TargetsStay
  <2> QED BY <2>1, <2>2 DEF AskedRight
<1>4. CASE Respond
  <2>1. asked' = asked /\ upload.at = "asking" /\ upload'.file = upload.file
    BY <1>4 DEF Respond, CaptureTypeOK
  <2> QED BY <1>1, <2>1
<1>5. CASE TakeAnswer
  BY <1>5 DEF TakeAnswer, AskedRight
<1>6. ASSUME NEW d \in Readers, ReaderEnds(d) \/ ReaderFails(d) PROVE AskedRight'
  BY <1>1, <1>6 DEF ReaderEnds, ReaderFails
<1>7. ASSUME NEW v \in DOMAIN asked, Ask(v) \/ Hear(v) PROVE AskedRight'
  <2>1. /\ upload' = upload /\ upload.at = "asking" /\ DOMAIN asked' = DOMAIN asked
        /\ \A w \in DOMAIN asked : asked'[w] \in {asked[w], "asking", "failed", VerdictFor(w)}
    BY <1>7 DEF Ask, Hear
  <2>2. (DOMAIN asked = Targets(upload.file))'
    BY <1>0, <2>1, TargetsStay DEF AskedRight
  <2>3. (\A w \in DOMAIN asked : asked[w] \in {"queued", "asking", "failed", VerdictFor(w)})'
    BY <2>1 DEF AskedRight
  <2> QED BY <2>2, <2>3 DEF AskedRight
<1> QED BY <1>2, <1>3, <1>4, <1>5, <1>6, <1>7 DEF CaptureNext

\* An answer is given when all is heard, and nothing changes it.
LEMMA AnswerStaysRight ==
    ASSUME CaptureTypeOK, AskedRight, AnsweredRight, [CaptureNext]_captureVars
    PROVE  AnsweredRight'
<1>0. tool' = tool
  BY ToolStays
<1>1. ASSUME asked' = asked, report' = report,
             upload'.at = "answered" => upload.at = "answered" /\ upload'.file = upload.file
      PROVE  AnsweredRight'
  <2>1. upload'.at = "answered" => (\A v \in DOMAIN asked : asked[v] \in {"failed", VerdictFor(v)})'
    BY <1>1 DEF AnsweredRight
  <2>2. upload'.at = "answered" => (report = Answer(upload.file))'
    BY <1>0, <1>1, AnswerStays DEF AnsweredRight
  <2> QED BY <2>1, <2>2 DEF AnsweredRight
<1>2. CASE ReceiveUpload \/ RefuseUpload \/ SaveUpload \/ LeftEnds \/ UNCHANGED captureVars
  BY <1>1, <1>2 DEF ReceiveUpload, RefuseUpload, SaveUpload, LeftEnds, captureVars, CaptureTypeOK
<1>3. CASE Analyse
  BY <1>3 DEF Analyse, AnsweredRight, CaptureTypeOK
<1>4. CASE Respond
  <2>1. /\ asked' = asked /\ upload'.file = upload.file /\ report' = Answer(upload.file)
        /\ \A v \in DOMAIN asked : asked[v] \notin {"queued", "asking"}
    BY <1>4 DEF Respond, CaptureTypeOK
  <2>2. (report = Answer(upload.file))'
    BY <1>0, <2>1, AnswerStays
  <2>3. (\A v \in DOMAIN asked : asked[v] \in {"failed", VerdictFor(v)})'
    BY <2>1 DEF AskedRight
  <2> QED BY <2>2, <2>3 DEF AnsweredRight
<1>5. CASE TakeAnswer
  BY <1>5 DEF TakeAnswer, AnsweredRight
<1>6. ASSUME NEW d \in Readers, ReaderEnds(d) \/ ReaderFails(d) PROVE AnsweredRight'
  BY <1>1, <1>6 DEF ReaderEnds, ReaderFails
<1>7. ASSUME NEW v \in DOMAIN asked, Ask(v) \/ Hear(v) PROVE AnsweredRight'
  BY <1>7 DEF Ask, Hear, AnsweredRight
<1> QED BY <1>2, <1>3, <1>4, <1>5, <1>6, <1>7 DEF CaptureNext

\* What an answer is made of, for a capture within reach.
LEMMA ReadingsAre ==
    ASSUME NEW f \in Files, tool \in {"tshark", "parser"}, tool = "tshark" => ~Unreadable(f),
           f.kind = "pcap", \A p \in Members(Whole(f)) : InReach(p)
    PROVE  /\ Whole(f) \in Seq(Packets)
           /\ Queries(f) \in Seq(Asked(Written))
           /\ AskedIn(Whole(f), Len(Whole(f)), Queries(f))
           /\ Flows(f).rows \in Seq(FlowRow)
           /\ TalliedIn(Whole(f), Len(Whole(f)), Flows(f).rows)
           /\ \A j, k \in DOMAIN Flows(f).rows :
                j < k => Flows(f).rows[j].packets >= Flows(f).rows[k].packets
<1> DEFINE ps == Whole(f)
<1>1. ps \in Seq(Packets) /\ Len(ps) \in Nat
  BY PacketsAre
<1>2. tool = "tshark" => ~Torso(f)
  BY DEF Unreadable
<1>3. Queries(f) \in Seq(Asked(Written)) /\ AskedIn(ps, Len(ps), Queries(f))
  <2>1. CASE tool = "tshark"
    <3>1. Queries(f) = TsharkDns(f)
      BY <2>1 DEF Queries
    <3> QED BY <1>2, <2>1, <3>1, TsharkFinds
  <2>2. CASE tool = "parser"
    <3>1. Queries(f) = ParserDns(f)
      BY <2>2 DEF Queries
    <3> QED BY <2>2, <3>1, ParserFinds
  <2> QED BY <2>1, <2>2
<1> HIDE DEF ps
<1>4. Flows(f).rows = Sorted(Through(Tally, <<>>, ps))
  <2>1. CASE tool = "tshark"
    <3>1. Flows(f).rows = TsharkFlows(f).rows /\ ps = Kept(f)
      BY <1>2, <2>1, PacketsAre DEF Flows, ps
    <3> QED BY <3>1 DEF TsharkFlows
  <2>2. CASE tool = "parser"
    <3>1. Flows(f).rows = ParserFlows(f).rows
      BY <2>2 DEF Flows
    <3> QED BY <3>1 DEF ParserFlows, Opens, ps
  <2> QED BY <2>1, <2>2
<1> DEFINE rows == Through(Tally, <<>>, ps)
<1>5. rows \in Seq(FlowRow) /\ TalliedIn(ps, Len(ps), rows)
  BY <1>1, Tallied
<1> HIDE DEF rows
<1>6. /\ Sorted(rows) \in Seq(FlowRow) /\ TalliedIn(ps, Len(ps), Sorted(rows))
      /\ \A j, k \in DOMAIN Sorted(rows) :
           j < k => Sorted(rows)[j].packets >= Sorted(rows)[k].packets
  BY <1>1, <1>5, SortedTallied
<1>7. Flows(f).rows = Sorted(rows)
  BY <1>4 DEF rows
<1> QED BY <1>1, <1>3, <1>6, <1>7 DEF ps

\* If the invariant holds, an answer is exact.
LEMMA AnswersFollow == CaptureInv => AnswersAreExact
<1> SUFFICES ASSUME CaptureInv, upload.at = "answered", upload.file.kind = "pcap",
                    \A p \in Members(Whole(upload.file)) : InReach(p)
             PROVE  AnswersAreExact
  BY DEF AnswersAreExact
<1> DEFINE f == upload.file
           ps == Whole(f)
           all == Queries(f)
           flows == Flows(f).rows
           asks == AsksOf(ps)
<1>1. /\ f \in Files /\ tool \in {"tshark", "parser"} /\ (tool = "tshark" => ~Unreadable(f))
      /\ report = Answer(f) /\ DOMAIN asked = Targets(f)
      /\ \A v \in DOMAIN asked : asked[v] \in {"failed", VerdictFor(v)}
  BY DEF CaptureInv, CaptureTypeOK, ReadersAre, AskedRight, AnsweredRight
<1>2. /\ ps \in Seq(Packets) /\ all \in Seq(Asked(Written)) /\ AskedIn(ps, Len(ps), all)
      /\ flows \in Seq(FlowRow) /\ TalliedIn(ps, Len(ps), flows)
      /\ \A j, k \in DOMAIN flows : j < k => flows[j].packets >= flows[k].packets
  BY <1>1, ReadingsAre
<1>3. /\ report.queries = FirstOf(all, MaxShown) /\ report.flows = FirstOf(flows, MaxRows)
      /\ report.findings = BuildFindings(all, flows)
  BY <1>1 DEF Answer
<1>4. MaxShown \in Nat /\ MaxRows \in Nat /\ MaxNames \in Nat
  BY CaptureAssumption
<1>5. \A v : v \in DOMAIN asked /\ asked[v] = "suspicious" => v \in Reported \ Allowed
  BY <1>1 DEF VerdictFor
<1>6. Targets(f) = Members(FirstOf(Domains(all), MaxNames))
                   \cup Members(FirstOf(ExternalIps(flows), MaxIps))
  BY DEF Targets
<1> HIDE DEF f, ps, all, flows, asks
<1>7. /\ Members(report.queries) \subseteq asks
      /\ Len(report.queries) = Least(Cardinality(asks), MaxShown)
      /\ \A i, j \in DOMAIN report.queries :
           i < j => FirstAsk(ps, report.queries[i]) < FirstAsk(ps, report.queries[j])
      /\ \A q \in asks \ Members(report.queries), i \in DOMAIN report.queries :
           FirstAsk(ps, report.queries[i]) < FirstAsk(ps, q)
  <2> DEFINE shown == FirstOf(all, MaxShown)
  <2>1. /\ Members(shown) \subseteq AsksOf(ps)
        /\ Len(shown) = Least(Cardinality(AsksOf(ps)), MaxShown)
        /\ \A i, j \in DOMAIN shown : i < j => FirstAsk(ps, shown[i]) < FirstAsk(ps, shown[j])
        /\ \A q \in AsksOf(ps) \ Members(shown), i \in DOMAIN shown :
             FirstAsk(ps, shown[i]) < FirstAsk(ps, q)
    BY <1>2, <1>4, ShownQueriesExact
  <2>2. report.queries = shown
    BY <1>3
  <2> QED BY ONLY <2>1, <2>2 DEF asks
<1>8. /\ {flows[i].flow : i \in DOMAIN flows} = FlowsOf(ps)
      /\ Len(report.flows) = Least(Cardinality(FlowsOf(ps)), MaxRows)
      /\ \A i \in DOMAIN report.flows :
           /\ report.flows[i].flow \in FlowsOf(ps)
           /\ report.flows[i].packets = Count(ps, report.flows[i].flow)
      /\ \A i, j \in DOMAIN report.flows : i < j =>
           /\ report.flows[i].packets >= report.flows[j].packets
           /\ report.flows[i].flow # report.flows[j].flow
      /\ \A w \in FlowsOf(ps) \ {r.flow : r \in Members(report.flows)}, i \in DOMAIN report.flows :
           report.flows[i].packets >= Count(ps, w)
  <2> DEFINE shown == FirstOf(flows, MaxRows)
  <2>1. /\ {flows[i].flow : i \in DOMAIN flows} = FlowsOf(ps)
        /\ Len(shown) = Least(Cardinality(FlowsOf(ps)), MaxRows)
        /\ \A i \in DOMAIN shown :
             shown[i].flow \in FlowsOf(ps) /\ shown[i].packets = Count(ps, shown[i].flow)
        /\ \A i, j \in DOMAIN shown : i < j =>
             shown[i].packets >= shown[j].packets /\ shown[i].flow # shown[j].flow
        /\ \A w \in FlowsOf(ps) \ {r.flow : r \in Members(shown)}, i \in DOMAIN shown :
             shown[i].packets >= Count(ps, w)
    BY <1>2, <1>4, ShownFlowsExact
  <2>2. report.flows = shown
    BY <1>3
  <2> QED BY ONLY <2>1, <2>2
<1>9. Members(all) = asks
  BY <1>2, QueriesExact DEF asks
<1>10. ASSUME NEW x \in report.findings
       PROVE  /\ x \in {<<q.src, q.name>> : q \in asks} \cup {<<w.src, w.dst>> : w \in FlowsOf(ps)}
              /\ x[2] \in Reported \ Allowed
  <2>1. CASE \E i \in DOMAIN all : Flagged(all[i].name) /\ x = <<all[i].src, all[i].name>>
    <3>1. PICK i \in DOMAIN all : Flagged(all[i].name) /\ x = <<all[i].src, all[i].name>>
      BY <2>1
    <3>2. all[i] \in asks
      BY <1>9 DEF Members
    <3> QED BY <1>5, <3>1, <3>2 DEF Flagged
  <2>2. CASE \E i \in DOMAIN flows :
               Flagged(flows[i].flow.dst) /\ x = <<flows[i].flow.src, flows[i].flow.dst>>
    <3>1. PICK i \in DOMAIN flows :
            Flagged(flows[i].flow.dst) /\ x = <<flows[i].flow.src, flows[i].flow.dst>>
      BY <2>2
    <3>2. flows[i].flow \in FlowsOf(ps)
      BY <1>8
    <3> QED BY <1>5, <3>1, <3>2 DEF Flagged
  <2> QED BY <1>3, <2>1, <2>2 DEF BuildFindings
<1>11. ASSUME NEW q \in asks, NEW y \in asks, q.name = y.name, VerdictFor(q.name) = "suspicious",
              Cardinality({x.name : x \in {z \in asks : FirstAsk(ps, z) <= FirstAsk(ps, y)}}) <= MaxNames
       PROVE  <<q.src, q.name>> \in report.findings \/ asked[q.name] = "failed"
  <2>1. q.name \in Members(FirstOf(Domains(all), MaxNames))
    BY <1>2, <1>4, <1>11, EarlyAreFirst DEF asks
  <2>2. asked[q.name] = "failed" \/ Flagged(q.name)
    BY <1>1, <1>6, <1>11, <2>1 DEF Flagged, f, all, flows
  <2>3. PICK i \in DOMAIN all : all[i] = q
    BY <1>9 DEF Members
  <2> QED BY <1>3, <2>2, <2>3 DEF BuildFindings
<1> QED BY <1>7, <1>8, <1>10, <1>11 DEF AnswersAreExact, f, ps, asks

\* From the first request on, an answer is of the file that was read.
LEMMA CaptureInvariant == CaptureSpec => []CaptureInv
<1>1. CaptureInit => ReadersAre /\ AskedRight /\ AnsweredRight
  BY DEF CaptureInit, ReadersAre, AskedRight, AnsweredRight
<1>2. /\ CaptureTypeOK /\ ReadersAre /\ AskedRight /\ AnsweredRight /\ [CaptureNext]_captureVars
      => (ReadersAre /\ AskedRight /\ AnsweredRight)'
  BY ReadersStay, AskedStays, AnswerStaysRight
<1>3. CaptureInv <=> CaptureTypeOK /\ (ReadersAre /\ AskedRight /\ AnsweredRight)
  BY DEF CaptureInv
<1> QED BY <1>1, <1>2, <1>3, CaptureTypeCorrect, PTL DEF CaptureSpec

\* endpoints/capture.py and its two readers: of any capture whose packets stay within
\* reach and any limits, the answer has the questions once each in the order they were
\* first asked, the flows with as many packets as they have, and as findings those
\* OTX flagged.
THEOREM AnswersAreExactThm == CaptureSpec => []AnswersAreExact
BY CaptureInvariant, AnswersFollow, PTL
-----------------------------------------------------------------------------
(************************** the seven parts together **************************)
\* Each part moves as on its own, or stands still while another one moves.
LEMMA PartsAreAsAlone ==
    Spec => /\ AlertsSpec /\ IncidentsSpec /\ RegistrySpec /\ SchedulerSpec /\ UebaSpec
            /\ CaptureSpec /\ SearchSpec
<1>1. Init => /\ AlertsInit /\ IncidentsInit /\ RegistryInit /\ SchedulerInit /\ UebaInit
              /\ CaptureInit /\ SearchInit
  BY DEF Init
<1>2. [Next]_vars => [AlertsNext]_alertsVars
  BY DEF Next, vars, alertsVars
<1>3. [Next]_vars => [IncidentsNext]_incidentsVars
  BY DEF Next, vars, incidentsVars
<1>4. [Next]_vars => [RegistryNext]_registryVars
  BY DEF Next, vars, registryVars
<1>5. [Next]_vars => [SchedulerNext]_schedulerVars
  BY DEF Next, vars, schedulerVars
<1>6. [Next]_vars => [UebaNext]_uebaVars
  BY DEF Next, vars, uebaVars
<1>7. [Next]_vars => [CaptureNext]_captureVars
  BY DEF Next, vars, captureVars
<1>8. [Next]_vars => [SearchNext]_searchVars
  BY DEF Next, vars, searchVars
<1> QED
  BY <1>1, <1>2, <1>3, <1>4, <1>5, <1>6, <1>7, <1>8, PTL
  DEF Spec, AlertsSpec, IncidentsSpec, RegistrySpec, SchedulerSpec, UebaSpec, CaptureSpec,
      SearchSpec

\* Every row and every request is of its kind, in whichever part moves.
THEOREM SiemTypeCorrect == Spec => []SiemTypeOK
<1>1. /\ AlertsTypeOK /\ IncidentsTypeOK /\ RegistryTypeOK /\ SchedulerTypeOK /\ UebaTypeOK
      /\ CaptureTypeOK /\ SearchTypeOK
      => SiemTypeOK
  BY DEF SiemTypeOK
<1> QED
  BY <1>1, PartsAreAsAlone, AlertsTypeCorrect, IncidentsTypeCorrect, RegistryTypeCorrect,
     SchedulerTypeCorrect, UebaTypeCorrect, CaptureTypeCorrect, SearchTypeCorrect, PTL

\* What is proved of the parts holds of the program they make up: of its batches
\* and alerts, its incidents, its devices and sources, its scores, its schedules, its
\* searches and its captures.
THEOREM SiemIsSafe ==
    Spec => /\ [](EveryHitCounted /\ OneOpenAlert /\ LinksAgree /\ LoneBatchesStored
                   /\ TrendAgrees /\ SearchFinds /\ AnswersAreExact)
            /\ OncePerPeriod
BY PartsAreAsAlone, EveryHitCountedThm, OneOpenAlertThm, LinksAgreeThm, LoneBatchesStoredThm,
   TrendAgreesThm, SearchFindsThm, AnswersAreExactThm, OncePerPeriodThm, PTL
=============================================================================
