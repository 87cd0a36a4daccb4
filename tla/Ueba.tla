-------------------------------- MODULE Ueba --------------------------------
(* The behaviour analysis of one owner (core/ueba_engine.py, crud/ueva.py): an  *)
(* analysis compares the events of the last day with the owner's baseline,      *)
(* commits each anomaly it finds by itself, and then moves the owner's risk     *)
(* score; a rebuild replaces the baseline.  Both may run several times at once. *)
(*                                                                            *)
(* An event is one behaviour: an hour, a domain, a process or an incident that   *)
(* names the owner.  A suspicious domain or an incident is an anomaly by itself; *)
(* an hour, a domain or a process that is new to the baseline is another.        *)
EXTENDS Naturals, FiniteSets

CONSTANTS Engines,    \* analyses and rebuilds under way
          Hours, DomainNames, Processes, Incidents,
          Suspicious,   \* the domains that are
          Severe, Mild, \* the incidents that are critical or high, and medium
          GraveScore, NewScore, Cap,  \* WEIGHTS, halved if medium, and the limit
          MaxAnomalies  \* bound of the model

Normal == Hours \cup DomainNames \cup Processes
Behaviours == Normal \cup Incidents
\* An anomaly with no baseline to compare with, and one that counts in full.
ByItself == Suspicious \cup Incidents
Grave == Suspicious \cup Severe

ASSUME UebaAssumption ==
    /\ IsFiniteSet(Behaviours)
    /\ Suspicious \subseteq DomainNames
    /\ Severe \subseteq Incidents /\ Mild \subseteq Incidents
    /\ GraveScore \in Nat /\ NewScore \in Nat /\ Cap \in Nat /\ MaxAnomalies \in Nat

VARIABLES events,     \* the behaviours of the owner's devices in the last day
          baseline,   \* what is normal, NoBaseline without a row
          anomalies,  \* how many rows are open, and how many are not
          risk,       \* the owner's UserRiskScore, NoRow without one
          engine,     \* what each run has read and is about to write
          first,      \* the row is as it was inserted (not in the code)
          crossed     \* two analyses moved the score across each other (not in
                      \* the code)

uebaVars == <<events, baseline, anomalies, risk, engine, first, crossed>>

NoBaseline == {"none"}
NoRow == [current |-> 0, previous |-> 0, trend |-> "none", open |-> 0]
Trends == {"up", "down", "stable"}
Points == 0..Cap
MaxFound == 2 * Cardinality(Behaviours)
Risk == {NoRow} \cup [current : Points, previous : Points, trend : Trends, open : 0..MaxFound]
Baselines == {NoBaseline} \cup SUBSET Normal

Resting == [at |-> "resting"]
Run == {Resting}
  \cup [at : {"events"}, base : Baselines]
  \cup [at : {"saving"}, left : 0..MaxFound, found : 0..MaxFound, score : Points]
  \cup [at : {"scoring"}, found : 0..MaxFound, score : Points, row : Risk]
  \cup [at : {"rebuild"}, normal : SUBSET Normal]
  \cup [at : {"replace"}, normal : SUBSET Normal, row : BOOLEAN]

UebaInit ==
    /\ events = {} /\ baseline = NoBaseline /\ risk = NoRow
    /\ anomalies = [open |-> 0, closed |-> 0]
    /\ engine = [r \in Engines |-> Resting]
    /\ first = FALSE /\ crossed = FALSE

Runs(r, q) == engine' = [engine EXCEPT ![r] = q]

\* Events are stored, and pass out of the last day.
EventsChange ==
    /\ \E b \in Behaviours : events' = IF b \in events THEN events \ {b} ELSE events \cup {b}
    /\ UNCHANGED <<baseline, anomalies, risk, engine, first, crossed>>

(******************************* analyze_owner ******************************)
ReadBaseline(r) ==
    /\ engine[r] = Resting
    /\ Runs(r, [at |-> "events", base |-> baseline])
    /\ UNCHANGED <<events, baseline, anomalies, risk, first, crossed>>

\* What is not normal: nothing without a baseline, no domain if it lists none,
\* no process if it lists none.  The hours of a baseline are never empty.
Strange(base) ==
    IF base = NoBaseline THEN {}
    ELSE {b \in (events \cap Normal) \ base :
            \A list \in {DomainNames, Processes} : b \in list => base \cap list # {}}
\* A new domain is "low", as an incident may be: it is found, and adds nothing.
Halved(base) == (Strange(base) \ DomainNames) \cup (events \cap Mild)
Lesser(m, n) == IF m < n THEN m ELSE n
\* Mutant: without the limit.
TotalUncapped(base) == GraveScore * Cardinality(events \cap Grave)
                       + NewScore * Cardinality(Halved(base))
Total(base) == Lesser(Cap, GraveScore * Cardinality(events \cap Grave)
                           + NewScore * Cardinality(Halved(base)))

ReadEvents(r) ==
    LET q == engine[r]
        n == Cardinality(events \cap ByItself) + Cardinality(Strange(q.base))
    IN  /\ q.at = "events"
        /\ Runs(r, [at |-> "saving", left |-> n, found |-> n, score |-> Total(q.base)])
        /\ UNCHANGED <<events, baseline, anomalies, risk, first, crossed>>

SaveAnomaly(r) ==
    LET q == engine[r]
    IN  /\ q.at = "saving" /\ q.left > 0
        /\ anomalies.open + anomalies.closed < MaxAnomalies
        /\ anomalies' = [anomalies EXCEPT !.open = @ + 1]
        /\ Runs(r, [q EXCEPT !.left = @ - 1])
        /\ UNCHANGED <<events, baseline, risk, first, crossed>>

\* upsert_risk_score: the row is read, and then written where it differs.
ReadScore(r) ==
    LET q == engine[r]
    IN  /\ q.at = "saving" /\ q.left = 0
        /\ Runs(r, [at |-> "scoring", found |-> q.found, score |-> q.score, row |-> risk])
        /\ UNCHANGED <<events, baseline, anomalies, risk, first, crossed>>

Trend(score, previous) ==
    IF score > previous THEN "up" ELSE IF score < previous THEN "down" ELSE "stable"
\* Mutant: the trend is taken against the score before the last.
MovedBack(q) == [current |-> q.score, previous |-> q.row.current,
                 trend |-> Trend(q.score, q.row.previous), open |-> q.found]
Moved(q) == [current |-> q.score, previous |-> q.row.current,
             trend |-> Trend(q.score, q.row.current), open |-> q.found]
Changed(q) == [f \in DOMAIN q.row |-> IF Moved(q)[f] = q.row[f] THEN risk[f] ELSE Moved(q)[f]]

WriteScore(r) ==
    LET q == engine[r]
    IN  /\ q.at = "scoring" /\ q.row # NoRow
        /\ risk' = Changed(q) /\ first' = FALSE
        /\ crossed' = (crossed \/ \E z \in Engines \ {r} : engine[z].at = "scoring")
        /\ Runs(r, Resting)
        /\ UNCHANGED <<events, baseline, anomalies>>

\* The owner is unique: of two first analyses, the second to insert fails.
InsertScore(r) ==
    LET q == engine[r]
    IN  /\ q.at = "scoring" /\ q.row = NoRow /\ risk = NoRow
        /\ risk' = [current |-> q.score, previous |-> 0, trend |-> "stable", open |-> q.found]
        /\ first' = TRUE
        /\ Runs(r, Resting)
        /\ UNCHANGED <<events, baseline, anomalies, crossed>>

(****************************** build_baseline ******************************)
\* Without events in two weeks nothing is rebuilt.
ReadHistory(r) ==
    /\ engine[r] = Resting
    /\ \E normal \in SUBSET Normal : Runs(r, [at |-> "rebuild", normal |-> normal])
    /\ UNCHANGED <<events, baseline, anomalies, risk, first, crossed>>

ReadOldBaseline(r) ==
    LET q == engine[r]
    IN  /\ q.at = "rebuild"
        /\ Runs(r, [at |-> "replace", normal |-> q.normal, row |-> baseline # NoBaseline])
        /\ UNCHANGED <<events, baseline, anomalies, risk, first, crossed>>

ReplaceBaseline(r) ==
    LET q == engine[r]
    IN  /\ q.at = "replace" /\ (q.row \/ baseline = NoBaseline)
        /\ baseline' = q.normal
        /\ Runs(r, Resting)
        /\ UNCHANGED <<events, anomalies, risk, first, crossed>>

(***************************** analysts, failures ***************************)
\* An anomaly is closed, or opened again; the score is not touched.
SetAnomalyStatus ==
    /\ \/ anomalies.open > 0
          /\ anomalies' = [open |-> anomalies.open - 1, closed |-> anomalies.closed + 1]
       \/ anomalies.closed > 0
          /\ anomalies' = [open |-> anomalies.open + 1, closed |-> anomalies.closed - 1]
    /\ UNCHANGED <<events, baseline, risk, engine, first, crossed>>

\* An exception, a row that is there already, or the connection: what was
\* committed stays.
RunFails(r) ==
    /\ engine[r] # Resting /\ Runs(r, Resting)
    /\ UNCHANGED <<events, baseline, anomalies, risk, first, crossed>>

UebaNext ==
    \/ EventsChange \/ SetAnomalyStatus
    \/ \E r \in Engines :
         \/ ReadBaseline(r) \/ ReadEvents(r) \/ SaveAnomaly(r)
         \/ ReadScore(r) \/ WriteScore(r) \/ InsertScore(r)
         \/ ReadHistory(r) \/ ReadOldBaseline(r) \/ ReplaceBaseline(r)
         \/ RunFails(r)

UebaSpec == UebaInit /\ [][UebaNext]_uebaVars

(******************************** properties ********************************)
\* Every row and every run is of its kind.
UebaTypeOK ==
    /\ events \subseteq Behaviours /\ baseline \in Baselines
    /\ anomalies \in [open : 0..MaxAnomalies, closed : 0..MaxAnomalies]
    /\ risk \in Risk /\ engine \in [Engines -> Run]
    /\ first \in BOOLEAN /\ crossed \in BOOLEAN

\* crud/ueva.py, upsert_risk_score: the trend of the row is that of its two
\* scores, through runs that fail half way, rebuilt baselines and closed
\* anomalies, unless it is an owner's first, or two analyses moved the score
\* across each other.
TrendAgrees ==
    risk = NoRow \/ first \/ crossed \/ risk.trend = Trend(risk.current, risk.previous)
=============================================================================
