-------------------------- MODULE DetectionProofs ---------------------------
(* Proofs about Ueba, Alerts, Registry and Search, for any number of requests, *)
(* events, behaviours, rows, addresses and terms.                              *)
EXTENDS Alerts, Registry, Ueba, Search, FiniteSetTheorems, TLAPS

(****************************** risk scores **********************************)
Scored == [current : Points, previous : Points, trend : Trends, open : 0..MaxFound]

\* A run that is about to move the score read the row as it is, unless another
\* moved it across.
ScorersAgree ==
    \A r \in Engines : engine[r].at = "scoring" /\ engine[r].row # NoRow =>
      /\ risk # NoRow
      /\ crossed \/ engine[r].row = risk
AnomaliesFit == anomalies.open + anomalies.closed <= MaxAnomalies

TrendInv == UebaTypeOK /\ AnomaliesFit /\ ScorersAgree /\ TrendAgrees

LEMMA PointsAreNat == Points \subseteq Nat /\ 0 \in Points /\ MaxFound \in Nat /\ 0 \in 0..MaxFound
<1>1. Cardinality(Behaviours) \in Nat
  BY UebaAssumption, FS_CardinalityType
<1>2. QED
  BY <1>1, UebaAssumption DEF Points, MaxFound

LEMMA ScoredShape ==
    /\ NoRow \notin Scored /\ Risk = {NoRow} \cup Scored
    /\ \A x \in Points, y \in Points, d \in Trends, n \in 0..MaxFound :
         [current |-> x, previous |-> y, trend |-> d, open |-> n] \in Scored
    /\ \A q \in Scored : /\ q.current \in Points /\ q.previous \in Points
                         /\ q.trend \in Trends /\ q.open \in 0..MaxFound
                         /\ DOMAIN q = {"current", "previous", "trend", "open"}
<1>1. \A q \in Scored : q.trend \in Trends
  BY DEF Scored
<1>2. NoRow.trend \notin Trends
  BY DEF NoRow, Trends
<1>3. NoRow \notin Scored
  BY <1>1, <1>2
<1>4. Risk = {NoRow} \cup Scored
  BY DEF Risk, Scored
<1>5. QED
  BY <1>1, <1>3, <1>4 DEF Scored

LEMMA RunShape ==
    ASSUME UebaTypeOK, NEW r \in Engines
    PROVE  /\ engine[r] \in Run
           /\ engine[r].at = "events" => engine[r].base \in Baselines
           /\ engine[r].at = "saving" =>
                /\ engine[r].left \in 0..MaxFound /\ engine[r].found \in 0..MaxFound
                /\ engine[r].score \in Points
           /\ engine[r].at = "scoring" =>
                /\ engine[r].found \in 0..MaxFound /\ engine[r].score \in Points
                /\ engine[r].row \in Risk
           /\ engine[r].at = "rebuild" => engine[r].normal \in SUBSET Normal
           /\ engine[r].at = "replace" =>
                engine[r].normal \in SUBSET Normal /\ engine[r].row \in BOOLEAN
<1>1. engine[r] \in Run
  BY DEF UebaTypeOK
<1>2. QED
  BY <1>1, SMT DEF Run, Resting

LEMMA RunsOn ==
    ASSUME UebaTypeOK, NEW r \in Engines, NEW q \in Run, Runs(r, q)
    PROVE  /\ engine' \in [Engines -> Run] /\ engine'[r] = q
           /\ \A z \in Engines \ {r} : engine'[z] = engine[z]
BY DEF UebaTypeOK, Runs

LEMMA RestingShape == Resting \in Run /\ Resting.at = "resting"
BY DEF Resting, Run

LEMMA TrendIsOne == ASSUME NEW x, NEW y PROVE Trend(x, y) \in Trends
BY DEF Trend, Trends

LEMMA TotalIsPoints ==
    ASSUME UebaTypeOK, NEW base
    PROVE  /\ Total(base) \in Points
           /\ Cardinality(events \cap ByItself) + Cardinality(Strange(base)) \in 0..MaxFound
<1> DEFINE g == events \cap Grave
           w == events \cap ByItself
           z == Strange(base)
           h == Halved(base)
           N(S) == Cardinality(S)
<1>1. \A S \in {g, w, z, h} : S \subseteq Behaviours
  BY DEF UebaTypeOK, Strange, Halved
<1>2. \A S \in {g, w, z, h} : N(S) \in Nat /\ N(S) <= N(Behaviours)
  BY <1>1, UebaAssumption, FS_Subset, FS_CardinalityType
<1>3. N(Behaviours) \in Nat
  BY UebaAssumption, FS_CardinalityType
<1>4. N(w) + N(z) \in 0..MaxFound
  <2>1. N(w) \in Nat /\ N(z) \in Nat /\ N(w) <= N(Behaviours) /\ N(z) <= N(Behaviours)
    BY <1>2
  <2> HIDE DEF w, z
  <2> QED BY <1>3, <2>1 DEF MaxFound
<1>5. N(g) \in Nat /\ N(h) \in Nat
  BY <1>2
<1> HIDE DEF g, h
<1>6. GraveScore * N(g) \in Nat /\ NewScore * N(h) \in Nat
  BY <1>5, UebaAssumption
<1>7. GraveScore * N(g) + NewScore * N(h) \in Nat
  BY <1>6
<1>8. Lesser(Cap, GraveScore * N(g) + NewScore * N(h)) \in Points
  BY <1>7, UebaAssumption DEF Lesser, Points
<1>9. QED
  BY <1>4, <1>8 DEF Total, g, h

LEMMA TrendInit == UebaInit => TrendInv
<1>1. SUFFICES ASSUME UebaInit PROVE TrendInv
  OBVIOUS
<1>2. /\ events = {} /\ baseline = NoBaseline /\ risk = NoRow /\ first = FALSE /\ crossed = FALSE
      /\ anomalies = [open |-> 0, closed |-> 0]
  BY <1>1 DEF UebaInit
<1>3. engine \in [Engines -> Run] /\ \A r \in Engines : engine[r] = Resting
  BY <1>1, RestingShape DEF UebaInit
<1>4. UebaTypeOK /\ AnomaliesFit
  <2>1. baseline \in Baselines /\ risk \in Risk /\ events \subseteq Behaviours
    BY <1>2, ScoredShape DEF Baselines
  <2>2. 0 \in 0..MaxAnomalies /\ 0 + 0 <= MaxAnomalies
    BY UebaAssumption
  <2>3. /\ anomalies \in [open : 0..MaxAnomalies, closed : 0..MaxAnomalies]
        /\ anomalies.open + anomalies.closed <= MaxAnomalies
    BY <1>2, <2>2
  <2>4. first \in BOOLEAN /\ crossed \in BOOLEAN
    BY <1>2
  <2> QED BY <1>3, <2>1, <2>3, <2>4 DEF UebaTypeOK, AnomaliesFit
<1>5. ScorersAgree /\ TrendAgrees
  BY <1>2, <1>3, RestingShape DEF ScorersAgree, TrendAgrees
<1>6. QED
  BY <1>4, <1>5 DEF TrendInv

\* A run that leaves the score alone goes on.
LEMMA ScoreStays ==
    ASSUME TrendInv, NEW r \in Engines, NEW q \in Run, Runs(r, q),
           UNCHANGED <<risk, first, crossed>>, events' \subseteq Behaviours,
           baseline' \in Baselines,
           anomalies' \in [open : 0..MaxAnomalies, closed : 0..MaxAnomalies], AnomaliesFit',
           q.at = "scoring" => q.row = risk
    PROVE  TrendInv'
<1>1. UebaTypeOK
  BY DEF TrendInv
<1>2. /\ engine' \in [Engines -> Run] /\ engine'[r] = q
      /\ \A z \in Engines \ {r} : engine'[z] = engine[z]
  BY <1>1, RunsOn
<1>3. UebaTypeOK'
  BY <1>1, <1>2 DEF UebaTypeOK
<1>4. ScorersAgree'
  BY <1>2 DEF TrendInv, ScorersAgree
<1>5. TrendAgrees'
  BY DEF TrendInv, TrendAgrees
<1>6. QED
  BY <1>3, <1>4, <1>5 DEF TrendInv

\* What is written where the row is what it was read as.
LEMMA ChangedShape ==
    ASSUME TrendInv, NEW r \in Engines, engine[r].at = "scoring", engine[r].row # NoRow
    PROVE  /\ Changed(engine[r]) \in Scored
           /\ crossed \/ Changed(engine[r]) = Moved(engine[r])
<1> DEFINE q == engine[r]
           c == Changed(q)
           m == Moved(q)
<1>1. UebaTypeOK /\ risk # NoRow /\ (crossed \/ q.row = risk)
  BY DEF TrendInv, ScorersAgree
<1>2. risk \in Scored /\ q.row \in Scored
  BY <1>1, RunShape, ScoredShape DEF UebaTypeOK
<1>3. q.score \in Points /\ q.found \in 0..MaxFound /\ q.row.current \in Points
  BY <1>1, <1>2, RunShape, ScoredShape
<1>4. m \in Scored
  BY <1>3, TrendIsOne, ScoredShape DEF Moved
<1>5. c = [f \in {"current", "previous", "trend", "open"} |->
             IF m[f] = q.row[f] THEN risk[f] ELSE m[f]]
  BY <1>2, ScoredShape DEF Changed
<1> HIDE DEF c, q
<1>6. c \in Scored
  <2> DEFINE x == IF m.current = q.row.current THEN risk.current ELSE m.current
             y == IF m.previous = q.row.previous THEN risk.previous ELSE m.previous
             d == IF m.trend = q.row.trend THEN risk.trend ELSE m.trend
             n == IF m.open = q.row.open THEN risk.open ELSE m.open
  <2>1. x \in Points /\ y \in Points /\ d \in Trends /\ n \in 0..MaxFound
    BY <1>2, <1>4, ScoredShape
  <2>2. c = [current |-> x, previous |-> y, trend |-> d, open |-> n]
    BY <1>5
  <2> QED BY <2>1, <2>2, ScoredShape
<1>7. q.row = risk => c = m
  <2> SUFFICES ASSUME q.row = risk PROVE c = m
    OBVIOUS
  <2>1. \A f \in {"current", "previous", "trend", "open"} : c[f] = m[f]
    BY <1>5
  <2>2. /\ c = [f \in {"current", "previous", "trend", "open"} |-> c[f]]
        /\ m = [f \in {"current", "previous", "trend", "open"} |-> m[f]]
    BY <1>4, <1>5 DEF Scored, Moved
  <2> QED BY <2>1, <2>2
<1>8. QED
  BY <1>1, <1>6, <1>7 DEF c, q

LEMMA WriteScoreKeeps ==
    ASSUME TrendInv, NEW r \in Engines, WriteScore(r)
    PROVE  TrendInv'
<1> DEFINE q == engine[r]
<1>1. /\ q.at = "scoring" /\ q.row # NoRow /\ risk' = Changed(q) /\ first' = FALSE
      /\ crossed' = (crossed \/ \E z \in Engines \ {r} : engine[z].at = "scoring")
      /\ Runs(r, Resting) /\ UNCHANGED <<events, baseline, anomalies>>
  BY DEF WriteScore
<1>2. UebaTypeOK
  BY DEF TrendInv
<1>3. /\ engine' \in [Engines -> Run] /\ engine'[r] = Resting
      /\ \A z \in Engines \ {r} : engine'[z] = engine[z]
  BY <1>1, <1>2, RestingShape, RunsOn
<1>4. /\ Changed(q) \in Scored
      /\ crossed \/ Changed(q) = Moved(q)
  BY <1>1, ChangedShape
<1>5. risk' \in Risk /\ risk' # NoRow
  BY <1>1, <1>4, ScoredShape
<1>6. crossed' \in BOOLEAN
  BY <1>1, <1>2 DEF UebaTypeOK
<1>7. UebaTypeOK' /\ AnomaliesFit'
  BY <1>1, <1>2, <1>3, <1>5, <1>6 DEF UebaTypeOK, TrendInv, AnomaliesFit
<1>8. ScorersAgree'
  <2>1. SUFFICES ASSUME NEW z \in Engines, engine'[z].at = "scoring"
                 PROVE  crossed'
    BY <1>5 DEF ScorersAgree
  <2>2. z # r /\ engine'[z] = engine[z]
    BY <1>3, <2>1, RestingShape
  <2> QED BY <1>1, <2>1, <2>2
<1>9. TrendAgrees'
  <2>1. CASE crossed
    BY <1>1, <2>1 DEF TrendAgrees
  <2>2. CASE Changed(q) = Moved(q)
    <3>1. Moved(q).trend = Trend(Moved(q).current, Moved(q).previous)
      BY DEF Moved
    <3> QED BY <1>1, <2>2, <3>1 DEF TrendAgrees, Trend
  <2> QED BY <1>4, <2>1, <2>2
<1>10. QED
  BY <1>7, <1>8, <1>9 DEF TrendInv

LEMMA InsertScoreKeeps ==
    ASSUME TrendInv, NEW r \in Engines, InsertScore(r)
    PROVE  TrendInv'
<1> DEFINE q == engine[r]
<1>1. /\ q.at = "scoring" /\ q.row = NoRow /\ risk = NoRow
      /\ risk' = [current |-> q.score, previous |-> 0, trend |-> "stable", open |-> q.found]
      /\ first' = TRUE /\ Runs(r, Resting) /\ UNCHANGED <<events, baseline, anomalies, crossed>>
  BY DEF InsertScore
<1>2. UebaTypeOK
  BY DEF TrendInv
<1>3. /\ engine' \in [Engines -> Run] /\ engine'[r] = Resting
      /\ \A z \in Engines \ {r} : engine'[z] = engine[z]
  BY <1>1, <1>2, RestingShape, RunsOn
<1>4. risk' \in Scored
  <2>1. q.score \in Points /\ q.found \in 0..MaxFound /\ "stable" \in Trends
    BY <1>1, <1>2, RunShape DEF Trends
  <2> HIDE DEF q
  <2> QED BY <1>1, <2>1, PointsAreNat, ScoredShape
<1>5. UebaTypeOK' /\ AnomaliesFit'
  BY <1>1, <1>2, <1>3, <1>4, ScoredShape DEF UebaTypeOK, TrendInv, AnomaliesFit
<1>6. ScorersAgree'
  BY <1>1, <1>3, RestingShape DEF TrendInv, ScorersAgree
<1>7. QED
  BY <1>1, <1>5, <1>6 DEF TrendInv, TrendAgrees

LEMMA RunsKeepTrend ==
    ASSUME TrendInv, NEW r \in Engines,
           \/ ReadBaseline(r) \/ ReadEvents(r) \/ SaveAnomaly(r) \/ ReadScore(r)
           \/ ReadHistory(r) \/ ReadOldBaseline(r) \/ ReplaceBaseline(r) \/ RunFails(r)
    PROVE  TrendInv'
<1> DEFINE q == engine[r]
           AnomalyRows == [open : 0..MaxAnomalies, closed : 0..MaxAnomalies]
<1>1. UebaTypeOK /\ AnomaliesFit
  BY DEF TrendInv
<1>2. /\ UNCHANGED <<risk, first, crossed>> /\ events' \subseteq Behaviours
  BY <1>1 DEF ReadBaseline, ReadEvents, SaveAnomaly, ReadScore, ReadHistory, ReadOldBaseline,
     ReplaceBaseline, RunFails, UebaTypeOK
<1>3. ASSUME UNCHANGED anomalies PROVE anomalies' \in AnomalyRows /\ AnomaliesFit'
  BY <1>1, <1>3 DEF UebaTypeOK, AnomaliesFit
<1>4. ASSUME UNCHANGED baseline PROVE baseline' \in Baselines
  BY <1>1, <1>4 DEF UebaTypeOK
<1>5. ASSUME NEW c \in Run, Runs(r, c), UNCHANGED <<baseline, anomalies>>,
             c.at = "scoring" => c.row = risk
      PROVE  TrendInv'
  BY <1>2, <1>3, <1>4, <1>5, ScoreStays
<1>6. CASE ReadBaseline(r)
  <2> DEFINE c == [at |-> "events", base |-> baseline]
  <2>1. Runs(r, c) /\ UNCHANGED <<baseline, anomalies>>
    BY <1>6 DEF ReadBaseline
  <2>2. c \in Run /\ c.at # "scoring"
    BY <1>1 DEF Run, UebaTypeOK
  <2> HIDE DEF c
  <2> QED BY <1>5, <2>1, <2>2
<1>7. CASE ReadEvents(r)
  <2> DEFINE n == Cardinality(events \cap ByItself) + Cardinality(Strange(q.base))
             x == Total(q.base)
             c == [at |-> "saving", left |-> n, found |-> n, score |-> x]
  <2>1. Runs(r, c) /\ UNCHANGED <<baseline, anomalies>>
    BY <1>7 DEF ReadEvents
  <2>2. n \in 0..MaxFound /\ x \in Points
    BY <1>1, TotalIsPoints
  <2> HIDE DEF n, x
  <2>3. c \in Run /\ c.at # "scoring"
    BY <2>2 DEF Run
  <2> HIDE DEF c
  <2> QED BY <1>5, <2>1, <2>3
<1>8. CASE SaveAnomaly(r)
  <2> DEFINE c == [q EXCEPT !.left = @ - 1]
  <2>1. /\ q.at = "saving" /\ q.left > 0 /\ Runs(r, c) /\ UNCHANGED baseline
        /\ anomalies.open + anomalies.closed < MaxAnomalies
        /\ anomalies' = [anomalies EXCEPT !.open = @ + 1]
    BY <1>8 DEF SaveAnomaly
  <2>2. q \in Run /\ q.left \in 0..MaxFound
    BY <1>1, <2>1, RunShape
  <2>3. q.left - 1 \in 0..MaxFound
    BY <2>1, <2>2, PointsAreNat
  <2> HIDE DEF q
  <2>4. q \in [at : {"saving"}, left : 0..MaxFound, found : 0..MaxFound, score : Points]
    BY <2>1, <2>2 DEF Run, Resting
  <2>5. c \in [at : {"saving"}, left : 0..MaxFound, found : 0..MaxFound, score : Points]
    BY <2>3, <2>4
  <2>6. c \in Run /\ c.at # "scoring"
    BY <2>5 DEF Run
  <2> HIDE DEF c
  <2>7. anomalies' \in AnomalyRows /\ AnomaliesFit'
    <3> DEFINE m == anomalies.open
               n == anomalies.closed
    <3>1. m \in 0..MaxAnomalies /\ n \in 0..MaxAnomalies /\ m + n < MaxAnomalies
      BY <1>1, <2>1 DEF UebaTypeOK
    <3>2. m + 1 \in 0..MaxAnomalies /\ (m + 1) + n <= MaxAnomalies
      BY <3>1, UebaAssumption
    <3>3. anomalies \in AnomalyRows
      BY <1>1 DEF UebaTypeOK
    <3>4. /\ anomalies' \in AnomalyRows
          /\ anomalies'.open = m + 1 /\ anomalies'.closed = n
      BY <2>1, <3>2, <3>3
    <3> QED BY <3>2, <3>4 DEF AnomaliesFit
  <2> QED BY <1>2, <1>4, <2>1, <2>6, <2>7, ScoreStays
<1>9. CASE ReadScore(r)
  <2> DEFINE f == q.found
             x == q.score
             c == [at |-> "scoring", found |-> f, score |-> x, row |-> risk]
  <2>1. q.at = "saving" /\ Runs(r, c) /\ UNCHANGED <<baseline, anomalies>>
    BY <1>9 DEF ReadScore
  <2>2. f \in 0..MaxFound /\ x \in Points /\ risk \in Risk
    BY <1>1, <2>1, RunShape DEF UebaTypeOK
  <2> HIDE DEF f, x
  <2>3. c \in Run /\ c.row = risk
    BY <2>2 DEF Run
  <2> HIDE DEF c
  <2> QED BY <1>5, <2>1, <2>3
<1>10. CASE ReadHistory(r)
  <2>1. PICK normal \in SUBSET Normal : Runs(r, [at |-> "rebuild", normal |-> normal])
    BY <1>10 DEF ReadHistory
  <2> DEFINE c == [at |-> "rebuild", normal |-> normal]
  <2>2. c \in Run /\ c.at # "scoring" /\ Runs(r, c)
    BY <2>1 DEF Run
  <2>3. UNCHANGED <<baseline, anomalies>>
    BY <1>10 DEF ReadHistory
  <2> HIDE DEF c
  <2> QED BY <1>5, <2>2, <2>3
<1>11. CASE ReadOldBaseline(r)
  <2> DEFINE n == q.normal
             b == baseline # NoBaseline
             c == [at |-> "replace", normal |-> n, row |-> b]
  <2>1. q.at = "rebuild" /\ Runs(r, c) /\ UNCHANGED <<baseline, anomalies>>
    BY <1>11 DEF ReadOldBaseline
  <2>2. n \in SUBSET Normal /\ b \in BOOLEAN
    BY <1>1, <2>1, RunShape
  <2> HIDE DEF n, b
  <2>3. c \in Run /\ c.at # "scoring"
    BY <2>2 DEF Run
  <2> HIDE DEF c
  <2> QED BY <1>5, <2>1, <2>3
<1>12. CASE ReplaceBaseline(r)
  <2>1. q.at = "replace" /\ baseline' = q.normal /\ Runs(r, Resting) /\ UNCHANGED anomalies
    BY <1>12 DEF ReplaceBaseline
  <2>2. baseline' \in Baselines
    BY <1>1, <2>1, RunShape DEF Baselines
  <2> QED BY <1>2, <1>3, <2>1, <2>2, RestingShape, ScoreStays
<1>13. CASE RunFails(r)
  BY <1>5, <1>13, RestingShape DEF RunFails
<1>14. QED
  BY <1>6, <1>7, <1>8, <1>9, <1>10, <1>11, <1>12, <1>13

LEMMA TrendNext == TrendInv /\ [UebaNext]_uebaVars => TrendInv'
<1>1. SUFFICES ASSUME TrendInv, [UebaNext]_uebaVars PROVE TrendInv'
  OBVIOUS
<1>2. ASSUME UNCHANGED <<risk, engine, first, crossed>>, UebaTypeOK', AnomaliesFit'
      PROVE  TrendInv'
  BY <1>1, <1>2 DEF TrendInv, ScorersAgree, TrendAgrees
<1>3. CASE UNCHANGED uebaVars
  <2>1. UebaTypeOK' /\ AnomaliesFit'
    BY <1>1, <1>3 DEF uebaVars, TrendInv, UebaTypeOK, AnomaliesFit
  <2> QED BY <1>2, <1>3, <2>1 DEF uebaVars
<1>4. CASE EventsChange
  <2>1. events' \subseteq Behaviours /\ UNCHANGED <<baseline, anomalies, risk, engine, first, crossed>>
    BY <1>1, <1>4 DEF EventsChange, TrendInv, UebaTypeOK
  <2>2. UebaTypeOK' /\ AnomaliesFit'
    BY <1>1, <2>1 DEF TrendInv, UebaTypeOK, AnomaliesFit
  <2> QED BY <1>2, <2>1, <2>2
<1>5. CASE SetAnomalyStatus
  <2> DEFINE m == anomalies.open
             n == anomalies.closed
  <2>1. UNCHANGED <<events, baseline, risk, engine, first, crossed>>
    BY <1>5 DEF SetAnomalyStatus
  <2>2. m \in 0..MaxAnomalies /\ n \in 0..MaxAnomalies /\ m + n <= MaxAnomalies
    BY <1>1 DEF TrendInv, UebaTypeOK, AnomaliesFit
  <2>3. PICK x, y : /\ anomalies' = [open |-> x, closed |-> y]
                    /\ x \in 0..MaxAnomalies /\ y \in 0..MaxAnomalies /\ x + y <= MaxAnomalies
    <3>1. CASE m > 0 /\ anomalies' = [open |-> m - 1, closed |-> n + 1]
      <4>1. /\ m - 1 \in 0..MaxAnomalies /\ n + 1 \in 0..MaxAnomalies
            /\ (m - 1) + (n + 1) <= MaxAnomalies
        BY <2>2, <3>1, UebaAssumption
      <4> QED BY <3>1, <4>1
    <3>2. CASE n > 0 /\ anomalies' = [open |-> m + 1, closed |-> n - 1]
      <4>1. /\ m + 1 \in 0..MaxAnomalies /\ n - 1 \in 0..MaxAnomalies
            /\ (m + 1) + (n - 1) <= MaxAnomalies
        BY <2>2, <3>2, UebaAssumption
      <4> QED BY <3>2, <4>1
    <3> QED BY <1>5, <3>1, <3>2 DEF SetAnomalyStatus
  <2>4. UebaTypeOK' /\ AnomaliesFit'
    BY <1>1, <2>1, <2>3 DEF TrendInv, UebaTypeOK, AnomaliesFit
  <2> QED BY <1>2, <2>1, <2>4
<1>6. QED
  BY <1>1, <1>3, <1>4, <1>5, RunsKeepTrend, WriteScoreKeeps, InsertScoreKeeps DEF UebaNext

\* Every row and every run stays of its kind.
THEOREM UebaTypeCorrect == UebaSpec => []UebaTypeOK
<1>1. TrendInv => UebaTypeOK
  BY DEF TrendInv
<1>2. QED
  BY <1>1, TrendInit, TrendNext, PTL DEF UebaSpec

\* The trend of the row is that of its two scores, unless it is an owner's
\* first, or two analyses moved the score across each other.
THEOREM TrendAgreesThm == UebaSpec => []TrendAgrees
<1>1. TrendInv => TrendAgrees
  BY DEF TrendInv
<1>2. QED
  BY <1>1, TrendInit, TrendNext, PTL DEF UebaSpec

(****************************** alerts ***************************************)
AlertRow == [status : AlertStatus, count : Nat]
BatchFields == {"at", "knows", "old", "fired", "added", "flushed", "held", "hits", "own"}
\* What a batch counts: its hits, and the counts its session holds.
IsBatch(b) ==
    /\ DOMAIN b = BatchFields /\ b.at = "batch"
    /\ b.held \in [AlertIds -> Nat] /\ b.hits \in [AlertIds -> Nat] /\ b.own \in Nat
IsTriage(q) == q.at = "triage" /\ q.alert \in DOMAIN alerts /\ q.to \in AlertStatus

AlertRowsOK ==
    /\ alerts \in Seq(AlertRow) /\ Len(alerts) <= MaxAlerts
    /\ due \in [AlertIds -> Nat] /\ stale \subseteq DOMAIN alerts
    /\ DOMAIN req = Requests
    /\ \A r \in Requests : req[r].at = "idle" \/ IsBatch(req[r]) \/ IsTriage(req[r])
\* A batch counts on rows that are there, and holds what each will say.
HeldIsAhead ==
    \A r \in Requests : IsBatch(req[r]) => \A a \in AlertIds : req[r].hits[a] > 0 =>
      /\ a \in DOMAIN alerts
      /\ a \in stale \/ req[r].held[a] = alerts[a].count + req[r].hits[a]
OneOpen == again \/ \A a, b \in OpenExisting : a = b
\* A batch that made an alert found none open, and none was opened since.
MakersFoundNone ==
    again \/ \A r \in Requests : IsBatch(req[r]) /\ req[r].own > 0 => OpenExisting = {}

CountsAreDue == \A a \in DOMAIN alerts : a \in stale \/ alerts[a].count = due[a]

AlertInv == AlertRowsOK /\ HeldIsAhead /\ CountsAreDue /\ OneOpen /\ MakersFoundNone

LEMMA AlertShape ==
    ASSUME AlertRowsOK
    PROVE  /\ Len(alerts) \in Nat /\ DOMAIN alerts = 1..Len(alerts)
           /\ DOMAIN alerts \subseteq AlertIds
           /\ \A a \in DOMAIN alerts : /\ alerts[a] \in AlertRow
                                       /\ alerts[a].status \in AlertStatus
                                       /\ alerts[a].count \in Nat
<1> DEFINE R == AlertRow
<1>1. alerts \in Seq(R) /\ Len(alerts) <= MaxAlerts
  BY DEF AlertRowsOK
<1> HIDE DEF R
<1>2. /\ Len(alerts) \in Nat /\ DOMAIN alerts = 1..Len(alerts)
      /\ \A a \in DOMAIN alerts : alerts[a] \in R
  BY <1>1
<1>3. DOMAIN alerts \subseteq AlertIds
  BY <1>1, <1>2, AlertsAssumption DEF AlertIds
<1>4. QED
  BY <1>2, <1>3 DEF R, AlertRow

LEMMA MovesOn ==
    ASSUME DOMAIN req = Requests, NEW r \in Requests, NEW q, Moves(r, q)
    PROVE  /\ DOMAIN req' = Requests /\ req'[r] = q
           /\ \A z \in Requests \ {r} : req'[z] = req[z]
BY DEF Moves

LEMMA WaitingShape == Waiting.at = "idle" /\ \A q : q.at = "idle" => ~IsBatch(q) /\ ~IsTriage(q)
BY DEF Waiting, IsBatch, IsTriage

LEMMA AlertInit == AlertsInit => AlertInv
<1>1. SUFFICES ASSUME AlertsInit PROVE AlertInv
  OBVIOUS
<1>2. /\ alerts = <<>> /\ stale = {} /\ due = [a \in AlertIds |-> 0]
      /\ req = [r \in Requests |-> Waiting]
  BY <1>1 DEF AlertsInit
<1>3. alerts \in Seq(AlertRow) /\ Len(alerts) = 0 /\ DOMAIN alerts = {}
  BY <1>2
<1>4. DOMAIN req = Requests /\ \A r \in Requests : req[r] = Waiting
  BY <1>2
<1>5. AlertRowsOK
  BY <1>2, <1>3, <1>4, WaitingShape, AlertsAssumption DEF AlertRowsOK
<1>6. HeldIsAhead /\ MakersFoundNone
  BY <1>4, WaitingShape DEF HeldIsAhead, MakersFoundNone
<1>7. OneOpen /\ CountsAreDue
  BY <1>3 DEF OneOpen, OpenExisting, CountsAreDue
<1>8. QED
  BY <1>5, <1>6, <1>7 DEF AlertInv

\* A request that writes nothing goes on.
LEMMA AlertsUntouched ==
    ASSUME AlertInv, NEW r \in Requests, NEW q, Moves(r, q),
           UNCHANGED <<alerts, due, stale, again>>,
           q.at = "idle" \/ IsBatch(q) \/ IsTriage(q),
           IsBatch(q) => \A a \in AlertIds : q.hits[a] > 0 =>
             /\ a \in DOMAIN alerts
             /\ a \in stale \/ q.held[a] = alerts[a].count + q.hits[a],
           again \/ (IsBatch(q) /\ q.own > 0 => OpenExisting = {})
    PROVE  AlertInv'
<1>1. /\ DOMAIN req' = Requests /\ req'[r] = q
      /\ \A z \in Requests \ {r} : req'[z] = req[z]
  BY MovesOn DEF AlertInv, AlertRowsOK
<1>2. \A x : IsBatch(x)' <=> IsBatch(x)
  BY DEF IsBatch
<1>3. \A x : IsTriage(x)' <=> IsTriage(x)
  BY DEF IsTriage
<1>4. OpenExisting' = OpenExisting
  BY DEF OpenExisting
<1>5. AlertRowsOK'
  <2>1. \A z \in Requests : req'[z].at = "idle" \/ IsBatch(req'[z]) \/ IsTriage(req'[z])
    BY <1>1 DEF AlertInv, AlertRowsOK
  <2>2. \A z \in Requests : req'[z].at = "idle" \/ IsBatch(req[z])' \/ IsTriage(req[z])'
    BY <2>1 DEF IsBatch, IsTriage
  <2> QED BY <1>1, <2>2 DEF AlertInv, AlertRowsOK
<1>6. HeldIsAhead'
  <2>1. SUFFICES ASSUME NEW z \in Requests, IsBatch(req'[z]), NEW a \in AlertIds,
                        req'[z].hits[a] > 0
                 PROVE  /\ a \in DOMAIN alerts
                        /\ a \in stale \/ req'[z].held[a] = alerts[a].count + req'[z].hits[a]
    BY DEF HeldIsAhead, IsBatch
  <2>2. CASE z = r
    BY <1>1, <2>1, <2>2
  <2>3. CASE z # r
    BY <1>1, <2>1, <2>3 DEF AlertInv, HeldIsAhead
  <2> QED BY <2>2, <2>3
<1>7. CountsAreDue' /\ OneOpen'
  BY <1>4 DEF AlertInv, CountsAreDue, OneOpen
<1>8. MakersFoundNone'
  <2>1. SUFFICES ASSUME ~again, NEW z \in Requests, IsBatch(req'[z]), req'[z].own > 0
                 PROVE  OpenExisting = {}
    BY <1>4 DEF MakersFoundNone, IsBatch
  <2>2. CASE z = r
    BY <1>1, <2>1, <2>2
  <2>3. CASE z # r
    BY <1>1, <2>1, <2>3 DEF AlertInv, MakersFoundNone
  <2> QED BY <2>2, <2>3
<1>9. QED
  BY <1>5, <1>6, <1>7, <1>8 DEF AlertInv

LEMMA IngestKeeps ==
    ASSUME AlertInv, NEW r \in Requests, IngestEvent(r)
    PROVE  AlertInv'
<1> DEFINE q == req[r]
<1>1. /\ q.at = "batch" /\ UNCHANGED <<alerts, due, stale, again>>
  BY DEF IngestEvent
<1>2. AlertRowsOK /\ IsBatch(q)
  BY <1>1 DEF AlertInv, AlertRowsOK, IsTriage
<1>3. PICK b \in Flushes(q) :
        \/ Moves(r, Hold(b))
        \/ \E a \in OpenExisting : Moves(r, Hold(CountOn(Fired(b), a)))
        \/ b.own > 0 /\ Moves(r, Hold(CountOnOwn(Fired(b))))
        \/ b.own = 0 /\ OpenExisting = {} /\ Moves(r, Hold(MakeAlert(Fired(b))))
  BY DEF IngestEvent
<1>4. IsBatch(b) /\ b.hits = q.hits /\ b.held = q.held /\ b.own = q.own
  BY <1>2 DEF Flushes, IsBatch, BatchFields
<1>5. /\ \A a \in AlertIds : b.hits[a] > 0 =>
           /\ a \in DOMAIN alerts
           /\ a \in stale \/ b.held[a] = alerts[a].count + b.hits[a]
      /\ again \/ (b.own > 0 => OpenExisting = {})
  <2>1. /\ \A a \in AlertIds : q.hits[a] > 0 =>
           /\ a \in DOMAIN alerts
           /\ a \in stale \/ q.held[a] = alerts[a].count + q.hits[a]
        /\ again \/ (q.own > 0 => OpenExisting = {})
    BY <1>2 DEF AlertInv, HeldIsAhead, MakersFoundNone
  <2> QED BY <1>4, <2>1
<1> HIDE DEF q
<1>6. ASSUME NEW c, IsBatch(c), Moves(r, Hold(c)),
             \A a \in AlertIds : c.hits[a] > 0 =>
               /\ a \in DOMAIN alerts
               /\ a \in stale \/ c.held[a] = alerts[a].count + c.hits[a],
             again \/ (c.own > 0 => OpenExisting = {})
      PROVE  AlertInv'
  <2> DEFINE d == Hold(c)
  <2>1. IsBatch(d) /\ d.hits = c.hits /\ d.held = c.held /\ d.own = c.own
    BY <1>6 DEF Hold, IsBatch, BatchFields
  <2>2. Moves(r, d)
    BY <1>6
  <2> HIDE DEF d
  <2>3. /\ \A a \in AlertIds : d.hits[a] > 0 =>
             /\ a \in DOMAIN alerts
             /\ a \in stale \/ d.held[a] = alerts[a].count + d.hits[a]
        /\ again \/ (d.own > 0 => OpenExisting = {})
    BY <1>6, <2>1
  <2> QED BY <1>1, <2>1, <2>2, <2>3, AlertsUntouched
<1>7. CASE Moves(r, Hold(b))
  BY <1>4, <1>5, <1>6, <1>7
<1> DEFINE f == Fired(b)
<1>12. /\ IsBatch(f) /\ f.hits = b.hits /\ f.held = b.held /\ f.own = b.own
       /\ \A a \in AlertIds : f.hits[a] > 0 =>
            /\ a \in DOMAIN alerts
            /\ a \in stale \/ f.held[a] = alerts[a].count + f.hits[a]
       /\ again \/ (f.own > 0 => OpenExisting = {})
  <2>1. IsBatch(f) /\ f.hits = b.hits /\ f.held = b.held /\ f.own = b.own
    BY <1>4 DEF Fired, IsBatch, BatchFields
  <2> HIDE DEF f
  <2> QED BY <1>5, <2>1
<1>8. ASSUME NEW a \in OpenExisting, Moves(r, Hold(CountOn(f, a))) PROVE AlertInv'
  <2> DEFINE c == CountOn(f, a)
             n == (IF f.hits[a] = 0 THEN alerts[a].count ELSE f.held[a]) + 1
  <2>1. a \in DOMAIN alerts /\ a \in AlertIds /\ alerts[a].count \in Nat
    BY <1>2, AlertShape DEF OpenExisting
  <2>2. f.hits[a] \in Nat /\ f.held[a] \in Nat /\ n \in Nat
    BY <1>12, <2>1 DEF IsBatch
  <2>3. /\ DOMAIN c = DOMAIN f /\ c.at = f.at /\ c.own = f.own
        /\ c.hits = [f.hits EXCEPT ![a] = f.hits[a] + 1]
        /\ c.held = [f.held EXCEPT ![a] = n]
    BY <1>12 DEF CountOn, IsBatch, BatchFields
  <2> HIDE DEF c, n
  <2>4. /\ c.hits \in [AlertIds -> Nat] /\ c.held \in [AlertIds -> Nat]
        /\ c.hits[a] = f.hits[a] + 1 /\ c.held[a] = n
        /\ \A w \in AlertIds \ {a} : c.hits[w] = f.hits[w] /\ c.held[w] = f.held[w]
    BY <1>12, <2>1, <2>2, <2>3 DEF IsBatch
  <2>5. IsBatch(c)
    BY <1>12, <2>3, <2>4 DEF IsBatch
  <2>6. a \in stale \/ n = alerts[a].count + c.hits[a]
    <3>1. CASE f.hits[a] = 0
      BY <2>1, <2>2, <2>4, <3>1 DEF n
    <3>2. CASE f.hits[a] # 0
      <4>1. f.hits[a] > 0
        BY <2>2, <3>2
      <4>2. a \in stale \/ f.held[a] = alerts[a].count + f.hits[a]
        BY <1>12, <2>1, <4>1
      <4>3. n = f.held[a] + 1
        BY <3>2 DEF n
      <4> QED BY <2>1, <2>2, <2>4, <4>2, <4>3
    <3> QED BY <3>1, <3>2
  <2>7. \A w \in AlertIds : c.hits[w] > 0 =>
          /\ w \in DOMAIN alerts
          /\ w \in stale \/ c.held[w] = alerts[w].count + c.hits[w]
    BY <1>12, <2>1, <2>4, <2>6
  <2>8. Moves(r, Hold(c)) /\ (again \/ (c.own > 0 => OpenExisting = {}))
    BY <1>12, <1>8, <2>3 DEF c
  <2> QED BY <1>6, <2>5, <2>7, <2>8
<1>9. CASE f.own > 0 /\ Moves(r, Hold(CountOnOwn(f)))
  <2> DEFINE c == CountOnOwn(f)
  <2>1. IsBatch(c) /\ c.hits = f.hits /\ c.held = f.held
    BY <1>12 DEF IsBatch, BatchFields, CountOnOwn
  <2>2. Moves(r, Hold(c))
    BY <1>9
  <2> HIDE DEF c
  <2> QED BY <1>12, <1>6, <1>9, <2>1, <2>2
<1>10. CASE f.own = 0 /\ OpenExisting = {} /\ Moves(r, Hold(MakeAlert(f)))
  <2> DEFINE c == MakeAlert(f)
  <2>1. IsBatch(c) /\ c.hits = f.hits /\ c.held = f.held
    BY <1>12 DEF IsBatch, BatchFields, MakeAlert
  <2>2. Moves(r, Hold(c))
    BY <1>10
  <2> HIDE DEF c
  <2> QED BY <1>12, <1>6, <1>10, <2>1, <2>2
<1>11. QED
  BY <1>3, <1>7, <1>8, <1>9, <1>10, <1>12

LEMMA CommitBatchKeeps ==
    ASSUME AlertInv, NEW r \in Requests, CommitBatch(r)
    PROVE  AlertInv'
<1> DEFINE b == req[r]
           n == Len(alerts) + 1
           row(a) == IF a \in Counts(b) THEN [alerts[a] EXCEPT !.count = b.held[a]]
                     ELSE alerts[a]
           rows == [a \in DOMAIN alerts |-> row(a)]
           new == [status |-> "new", count |-> b.own]
           others == \E z \in Requests \ {r} : IsBatch(req[z])
<1>1. /\ b.at = "batch" /\ Moves(r, Waiting)
      /\ b.own > 0 => Len(alerts) < MaxAlerts
      /\ alerts' = IF b.own > 0 THEN Append(rows, new) ELSE rows
      /\ stale' = stale \cup {a \in Counts(b) : \E z \in Batches(r) : req[z].hits[a] > 0}
      /\ due' = [a \in AlertIds |->
             IF a \in stale' THEN 0
             ELSE IF b.own > 0 /\ a = Len(alerts) + 1 THEN b.own
             ELSE due[a] + b.hits[a]]
      /\ again' = (again \/ (b.own > 0 /\ Batches(r) # {}))
  BY DEF CommitBatch
<1>2. AlertRowsOK /\ IsBatch(b)
  BY <1>1 DEF AlertInv, AlertRowsOK, IsTriage
<1>3. /\ DOMAIN req' = Requests /\ req'[r] = Waiting
      /\ \A z \in Requests \ {r} : req'[z] = req[z]
  BY <1>1, <1>2, MovesOn DEF AlertRowsOK
<1>4. /\ Len(alerts) \in Nat /\ DOMAIN alerts = 1..Len(alerts) /\ DOMAIN alerts \subseteq AlertIds
      /\ \A a \in DOMAIN alerts : /\ alerts[a] \in AlertRow /\ alerts[a].status \in AlertStatus
                                  /\ alerts[a].count \in Nat
  BY <1>2, AlertShape
<1>5. \A z \in Requests \ {r} : IsBatch(req[z]) => z \in Batches(r)
  BY DEF Batches, IsBatch
<1>6. Counts(b) \subseteq DOMAIN alerts
  BY DEF Counts
<1>7. b.held \in [AlertIds -> Nat] /\ b.hits \in [AlertIds -> Nat] /\ b.own \in Nat
  BY <1>2 DEF IsBatch
<1> HIDE DEF b
<1>8. ASSUME NEW a \in DOMAIN alerts
      PROVE  /\ row(a) \in AlertRow /\ row(a).status = alerts[a].status
             /\ a \in Counts(b) => row(a).count = b.held[a]
             /\ a \notin Counts(b) => row(a) = alerts[a]
  <2>1. CASE a \in Counts(b)
    <3> DEFINE x == alerts[a]
               h == b.held[a]
               y == [x EXCEPT !.count = h]
    <3>1. x \in AlertRow /\ h \in Nat
      BY <1>4, <1>7
    <3>2. row(a) = y
      BY <2>1
    <3> HIDE DEF x, h
    <3>3. y \in AlertRow /\ y.status = x.status /\ y.count = h
      BY <3>1 DEF AlertRow
    <3> HIDE DEF y, row
    <3> QED BY <2>1, <3>2, <3>3 DEF x, h
  <2>2. CASE a \notin Counts(b)
    BY <1>4, <2>2
  <2> QED BY <2>1, <2>2
<1> HIDE DEF row
<1>9. new \in AlertRow /\ new.status = "new" /\ new.count = b.own
  <2>1. "new" \in AlertStatus
    BY DEF AlertStatus, OpenStatus
  <2> DEFINE k == b.own
  <2>2. k \in Nat
    BY <1>7
  <2> HIDE DEF k
  <2>3. [status |-> "new", count |-> k] \in AlertRow
    BY <2>1, <2>2 DEF AlertRow
  <2> QED BY <2>3 DEF k
<1> HIDE DEF new
<1>10. /\ alerts' \in Seq(AlertRow) /\ Len(alerts') <= MaxAlerts
       /\ DOMAIN alerts' = DOMAIN alerts \cup {a \in {n} : b.own > 0}
       /\ n \notin DOMAIN alerts
       /\ \A a \in DOMAIN alerts : alerts'[a] = row(a)
       /\ b.own > 0 => alerts'[n] = new
  <2> DEFINE R == AlertRow
  <2>0. new \in R /\ \A a \in 1..Len(alerts) : row(a) \in R
    BY <1>4, <1>8, <1>9
  <2>1. rows = [a \in 1..Len(alerts) |-> row(a)]
    BY <1>4
  <2> HIDE DEF rows, R
  <2>2. rows \in Seq(R) /\ Len(rows) = Len(alerts) /\ \A a \in 1..Len(alerts) : rows[a] = row(a)
    BY <1>4, <2>0, <2>1
  <2>3. Len(alerts) <= MaxAlerts
    BY <1>2 DEF AlertRowsOK
  <2>4. CASE b.own > 0
    <3>1. alerts' = Append(rows, new) /\ Len(alerts) < MaxAlerts
      BY <1>1, <2>4 DEF b, rows, row, new
    <3>2. /\ alerts' \in Seq(R) /\ Len(alerts') = Len(alerts) + 1
          /\ \A a \in 1..Len(alerts) : alerts'[a] = row(a)
          /\ alerts'[Len(alerts) + 1] = new
          /\ DOMAIN alerts' = 1..(Len(alerts) + 1)
      BY <1>4, <2>0, <2>2, <3>1
    <3>3. Len(alerts') <= MaxAlerts /\ 1..(Len(alerts) + 1) = 1..Len(alerts) \cup {n}
      BY <1>4, <3>1, <3>2, AlertsAssumption
    <3>4. n \notin 1..Len(alerts) /\ {a \in {n} : b.own > 0} = {n}
      BY <1>4, <2>4
    <3> QED BY <1>4, <3>2, <3>3, <3>4 DEF R
  <2>5. CASE ~(b.own > 0)
    <3>1. alerts' = rows
      BY <1>1, <2>5 DEF b, rows, row, new
    <3>2. DOMAIN alerts' = 1..Len(alerts)
      BY <2>2, <3>1, <1>4
    <3>3. n \notin 1..Len(alerts) /\ {a \in {n} : b.own > 0} = {}
      BY <1>4, <2>5
    <3> QED BY <1>4, <2>2, <2>3, <2>5, <3>1, <3>2, <3>3 DEF R
  <2> QED BY <2>4, <2>5
<1>11. /\ due' \in [AlertIds -> Nat]
       /\ \A a \in DOMAIN alerts : a \notin stale' => due'[a] = due[a] + b.hits[a]
       /\ (n \in AlertIds /\ n \notin stale' /\ b.own > 0) => due'[n] = b.own
  <2>1. due' = [a \in AlertIds |->
             IF a \in stale' THEN 0 ELSE IF b.own > 0 /\ a = n THEN b.own ELSE due[a] + b.hits[a]]
    BY <1>1 DEF b
  <2>2. due \in [AlertIds -> Nat]
    BY <1>2 DEF AlertRowsOK
  <2>3. \A a \in AlertIds : due[a] + b.hits[a] \in Nat
    BY <1>7, <2>2
  <2>4. due' \in [AlertIds -> Nat]
    BY <1>7, <2>1, <2>3
  <2>5. \A a \in DOMAIN alerts : a \in AlertIds /\ a # n
    BY <1>4, <1>10
  <2> HIDE DEF n
  <2>6. ASSUME NEW a \in DOMAIN alerts, a \notin stale' PROVE due'[a] = due[a] + b.hits[a]
    BY <2>1, <2>5, <2>6
  <2>7. ASSUME n \in AlertIds, n \notin stale', b.own > 0 PROVE due'[n] = b.own
    BY <2>1, <2>7
  <2> QED BY <2>4, <2>6, <2>7
<1>12. /\ stale \subseteq stale' /\ stale' \subseteq DOMAIN alerts
       /\ \A a \in Counts(b), z \in Requests \ {r} :
            IsBatch(req[z]) /\ req[z].hits[a] > 0 => a \in stale'
  <2>1. stale' = stale \cup {a \in Counts(b) : \E z \in Batches(r) : req[z].hits[a] > 0}
    BY <1>1 DEF b
  <2>2. stale \subseteq DOMAIN alerts
    BY <1>2 DEF AlertRowsOK
  <2> QED BY <1>5, <1>6, <2>1, <2>2
<1>13. AlertRowsOK'
  <2>1. DOMAIN alerts \subseteq DOMAIN alerts' /\ stale' \subseteq DOMAIN alerts'
    BY <1>10, <1>12
  <2>2. ASSUME NEW z \in Requests
        PROVE  req'[z].at = "idle" \/ IsBatch(req[z])' \/ IsTriage(req[z])'
    <3>1. CASE z = r
      BY <1>3, <3>1, WaitingShape
    <3>2. CASE z # r
      <4>1. req'[z] = req[z]
        BY <1>3, <3>2
      <4> QED BY <1>2, <2>1, <4>1 DEF AlertRowsOK, IsBatch, IsTriage
    <3> QED BY <3>1, <3>2
  <2> QED BY <1>3, <1>10, <1>11, <2>1, <2>2 DEF AlertRowsOK
<1>14. HeldIsAhead'
  <2>1. SUFFICES ASSUME NEW z \in Requests, IsBatch(req'[z]), NEW a \in AlertIds,
                        req'[z].hits[a] > 0
                 PROVE  /\ a \in DOMAIN alerts'
                        /\ a \in stale' \/ req'[z].held[a] = alerts'[a].count + req'[z].hits[a]
    BY DEF HeldIsAhead, IsBatch
  <2>2. z # r /\ req'[z] = req[z]
    BY <1>3, <2>1, WaitingShape
  <2>3. /\ a \in DOMAIN alerts
        /\ a \in stale \/ req[z].held[a] = alerts[a].count + req[z].hits[a]
    BY <2>1, <2>2 DEF AlertInv, HeldIsAhead
  <2>4. CASE a \in Counts(b)
    BY <1>10, <1>12, <2>1, <2>2, <2>3, <2>4
  <2>5. CASE a \notin Counts(b)
    <3>1. alerts'[a] = alerts[a]
      BY <1>8, <1>10, <2>3, <2>5
    <3> QED BY <1>10, <1>12, <2>2, <2>3, <3>1
  <2> QED BY <2>4, <2>5
<1>15. CountsAreDue'
  <2>1. SUFFICES ASSUME NEW a \in DOMAIN alerts', a \notin stale'
                 PROVE  alerts'[a].count = due'[a]
    BY DEF CountsAreDue
  <2>2. CASE a \notin DOMAIN alerts
    <3>1. a = n /\ b.own > 0 /\ alerts'[n] = new
      BY <1>10, <2>1, <2>2
    <3>2. n \in AlertIds
      BY <1>13, <2>1, <3>1, <1>4, <1>1, AlertsAssumption DEF AlertIds, b
    <3> HIDE DEF n
    <3>3. due'[n] = b.own
      BY <1>11, <2>1, <3>1, <3>2
    <3> QED BY <1>9, <3>1, <3>3
  <2>3. CASE a \in DOMAIN alerts
    <3>1. due'[a] = due[a] + b.hits[a] /\ a \notin stale /\ alerts'[a] = row(a)
      BY <1>10, <1>11, <1>12, <2>1, <2>3
    <3>2. alerts[a].count = due[a] /\ alerts[a].count \in Nat /\ a \in AlertIds
      BY <1>4, <2>3, <3>1 DEF AlertInv, CountsAreDue
    <3>3. b.hits[a] \in Nat
      BY <1>7, <3>2
    <3>4. CASE a \in Counts(b)
      <4>1. b.hits[a] > 0
        BY <3>4 DEF Counts
      <4>2. b.held[a] = alerts[a].count + b.hits[a]
        BY <1>2, <3>1, <3>2, <4>1 DEF AlertInv, HeldIsAhead, b
      <4>3. row(a).count = b.held[a]
        BY <1>8, <2>3, <3>4
      <4> QED BY <3>1, <3>2, <4>2, <4>3
    <3>5. CASE a \notin Counts(b)
      <4>1. b.hits[a] = 0
        BY <2>3, <3>3, <3>5 DEF Counts
      <4>2. row(a) = alerts[a]
        BY <1>8, <2>3, <3>5
      <4> QED BY <3>1, <3>2, <4>1, <4>2
    <3> QED BY <3>4, <3>5
  <2> QED BY <2>2, <2>3
<1>16. OpenExisting' = OpenExisting \cup {a \in {n} : b.own > 0}
  <2>1. \A a \in DOMAIN alerts : alerts'[a].status = alerts[a].status
    BY <1>8, <1>10
  <2>2. b.own > 0 => alerts'[n].status \in OpenStatus
    BY <1>9, <1>10 DEF OpenStatus
  <2> HIDE DEF n
  <2>3. ASSUME NEW a PROVE a \in OpenExisting' <=> a \in OpenExisting \cup {x \in {n} : b.own > 0}
    BY <1>10, <2>1, <2>2 DEF OpenExisting
  <2> QED BY <2>3
<1>17. /\ again => again'
       /\ b.own > 0 /\ others => again'
  BY <1>1, <1>5 DEF b
<1>18. OneOpen'
  <2>1. CASE b.own > 0 /\ ~again
    <3>1. OpenExisting = {}
      BY <1>2, <2>1 DEF AlertInv, MakersFoundNone, b
    <3> QED BY <1>16, <3>1 DEF OneOpen
  <2>2. CASE ~(b.own > 0) /\ ~again
    <3>1. OpenExisting' = OpenExisting
      BY <1>16, <2>2
    <3> QED BY <2>2, <3>1 DEF AlertInv, OneOpen
  <2>3. CASE again
    BY <1>17, <2>3 DEF OneOpen
  <2> QED BY <2>1, <2>2, <2>3
<1>19. MakersFoundNone'
  <2>1. SUFFICES ASSUME ~again', NEW z \in Requests, IsBatch(req'[z]), req'[z].own > 0
                 PROVE  OpenExisting' = {}
    BY DEF MakersFoundNone, IsBatch
  <2>2. z # r /\ req'[z] = req[z] /\ others /\ ~again
    BY <1>3, <1>17, <2>1, WaitingShape
  <2>3. OpenExisting = {}
    BY <2>1, <2>2 DEF AlertInv, MakersFoundNone
  <2>4. ~(b.own > 0)
    BY <1>17, <2>1, <2>2
  <2> QED BY <1>16, <2>3, <2>4
<1>20. QED
  BY <1>13, <1>14, <1>15, <1>18, <1>19 DEF AlertInv

LEMMA SetStatusKeeps ==
    ASSUME AlertInv, NEW r \in Requests, SetAlertStatus(r)
    PROVE  AlertInv'
<1> DEFINE q == req[r]
<1>1. AlertRowsOK /\ q.at = "triage" /\ IsTriage(q)
  BY DEF AlertInv, AlertRowsOK, SetAlertStatus, IsBatch
<1>2. PICK t \in DOMAIN alerts : t = q.alert
  BY <1>1 DEF IsTriage
<1> DEFINE to == IF q.to = q.from THEN alerts[t].status ELSE q.to
           x == alerts[t]
           row == [x EXCEPT !.status = to]
<1>3. /\ alerts' = [alerts EXCEPT ![t] = row] /\ again' = (again \/ Reopens(t, to))
      /\ Moves(r, Waiting) /\ UNCHANGED <<due, stale>>
  BY <1>2 DEF SetAlertStatus
<1>4. /\ Len(alerts) \in Nat /\ DOMAIN alerts = 1..Len(alerts) /\ DOMAIN alerts \subseteq AlertIds
      /\ \A a \in DOMAIN alerts : /\ alerts[a] \in AlertRow /\ alerts[a].status \in AlertStatus
                                  /\ alerts[a].count \in Nat
  BY <1>1, AlertShape
<1>5. to \in AlertStatus /\ x \in AlertRow
  BY <1>1, <1>4 DEF IsTriage
<1> HIDE DEF x, to
<1>6. row \in AlertRow /\ row.status = to /\ row.count = x.count
  BY <1>5 DEF AlertRow
<1> HIDE DEF row
<1>7. /\ alerts' \in Seq(AlertRow) /\ Len(alerts') = Len(alerts)
      /\ DOMAIN alerts' = DOMAIN alerts /\ alerts'[t] = row
      /\ \A a \in DOMAIN alerts \ {t} : alerts'[a] = alerts[a]
  <2> DEFINE R == AlertRow
  <2>1. alerts \in Seq(R) /\ row \in R
    BY <1>1, <1>6 DEF AlertRowsOK
  <2> HIDE DEF R
  <2>2. alerts' \in Seq(R) /\ Len(alerts') = Len(alerts) /\ DOMAIN alerts' = DOMAIN alerts
    BY <1>3, <2>1
  <2>3. alerts'[t] = row /\ \A a \in DOMAIN alerts \ {t} : alerts'[a] = alerts[a]
    BY <1>3, <2>1
  <2> QED BY <2>2, <2>3 DEF R
<1>8. /\ DOMAIN req' = Requests /\ req'[r] = Waiting
      /\ \A z \in Requests \ {r} : req'[z] = req[z]
  BY <1>1, <1>3, MovesOn DEF AlertRowsOK
<1>9. \A a \in DOMAIN alerts : alerts'[a].count = alerts[a].count
  BY <1>6, <1>7 DEF x
<1>10. AlertRowsOK'
  <2>1. ASSUME NEW z \in Requests
        PROVE  req'[z].at = "idle" \/ IsBatch(req[z])' \/ IsTriage(req[z])'
    <3>1. CASE z = r
      BY <1>8, <3>1, WaitingShape
    <3>2. CASE z # r
      <4>1. req'[z] = req[z]
        BY <1>8, <3>2
      <4> QED BY <1>1, <1>7, <4>1 DEF AlertRowsOK, IsBatch, IsTriage
    <3> QED BY <3>1, <3>2
  <2> QED BY <1>1, <1>3, <1>7, <1>8, <2>1 DEF AlertRowsOK
<1>11. HeldIsAhead'
  <2>1. SUFFICES ASSUME NEW z \in Requests, IsBatch(req'[z]), NEW a \in AlertIds,
                        req'[z].hits[a] > 0
                 PROVE  /\ a \in DOMAIN alerts'
                        /\ a \in stale' \/ req'[z].held[a] = alerts'[a].count + req'[z].hits[a]
    BY DEF HeldIsAhead, IsBatch
  <2>2. req'[z] = req[z]
    BY <1>8, <2>1, WaitingShape
  <2>3. /\ a \in DOMAIN alerts
        /\ a \in stale \/ req[z].held[a] = alerts[a].count + req[z].hits[a]
    BY <2>1, <2>2 DEF AlertInv, HeldIsAhead
  <2> QED BY <1>3, <1>7, <1>9, <2>2, <2>3
<1>12. CountsAreDue'
  BY <1>3, <1>7, <1>9 DEF AlertInv, CountsAreDue
<1>13. again => again'
  BY <1>3
<1>14. ~again' => OpenExisting' \subseteq OpenExisting
  <2>1. SUFFICES ASSUME ~again', NEW a \in DOMAIN alerts, alerts'[a].status \in OpenStatus
                 PROVE  alerts[a].status \in OpenStatus
    BY <1>7 DEF OpenExisting
  <2>2. CASE a = t
    <3>1. to \in OpenStatus /\ ~Reopens(t, to)
      BY <1>3, <1>6, <1>7, <2>1, <2>2
    <3>2. alerts[t].status # "resolved"
      BY <3>1 DEF Reopens
    <3> QED BY <1>4, <2>2, <3>2 DEF AlertStatus
  <2>3. CASE a # t
    BY <1>7, <2>1, <2>3
  <2> QED BY <2>2, <2>3
<1>15. OneOpen'
  BY <1>13, <1>14 DEF AlertInv, OneOpen
<1>16. MakersFoundNone'
  <2>1. SUFFICES ASSUME ~again', NEW z \in Requests, IsBatch(req'[z]), req'[z].own > 0
                 PROVE  OpenExisting' = {}
    BY DEF MakersFoundNone, IsBatch
  <2>2. req'[z] = req[z]
    BY <1>8, <2>1, WaitingShape
  <2>3. OpenExisting = {}
    BY <1>13, <2>1, <2>2 DEF AlertInv, MakersFoundNone
  <2> QED BY <1>14, <2>1, <2>3
<1>17. QED
  BY <1>10, <1>11, <1>12, <1>15, <1>16 DEF AlertInv

LEMMA AlertNext == AlertInv /\ [AlertsNext]_alertsVars => AlertInv'
<1>1. SUFFICES ASSUME AlertInv, [AlertsNext]_alertsVars PROVE AlertInv'
  OBVIOUS
<1>2. AlertRowsOK
  BY <1>1 DEF AlertInv
<1>3. ASSUME UNCHANGED <<alerts, due, stale, again, req>> PROVE AlertInv'
  BY <1>1, <1>3 DEF AlertInv, AlertRowsOK, HeldIsAhead, CountsAreDue, OneOpen, OpenExisting,
     MakersFoundNone, IsBatch, IsTriage
<1>4. ASSUME NEW r \in Requests, BeginBatch(r) PROVE AlertInv'
  <2> DEFINE q == [at |-> "batch", knows |-> rule.exists, old |-> rule.hits, fired |-> 0,
                   added |-> 0, flushed |-> 0, held |-> NoHits, hits |-> NoHits, own |-> 0]
  <2>1. Moves(r, q) /\ UNCHANGED <<alerts, due, stale, again>>
    BY <1>4 DEF BeginBatch
  <2>2. NoHits \in [AlertIds -> Nat] /\ \A a \in AlertIds : NoHits[a] = 0
    BY DEF NoHits
  <2>3. /\ DOMAIN q = BatchFields /\ q.at = "batch" /\ q.held = NoHits /\ q.hits = NoHits
        /\ q.own = 0
    BY DEF BatchFields
  <2> HIDE DEF q
  <2>4. IsBatch(q) /\ \A a \in AlertIds : ~(q.hits[a] > 0)
    BY <2>2, <2>3 DEF IsBatch
  <2>5. ~(q.own > 0)
    BY <2>3
  <2> QED BY <1>1, <2>1, <2>4, <2>5, AlertsUntouched
<1>5. ASSUME NEW r \in Requests, ReadAlert(r) PROVE AlertInv'
  <2>1. PICK a \in DOMAIN alerts, to \in Settable :
          Moves(r, [at |-> "triage", alert |-> a, from |-> alerts[a].status, to |-> to])
    BY <1>5 DEF ReadAlert
  <2> DEFINE f == alerts[a].status
             q == [at |-> "triage", alert |-> a, from |-> f, to |-> to]
  <2>2. UNCHANGED <<alerts, due, stale, again>> /\ Moves(r, q)
    BY <1>5, <2>1 DEF ReadAlert
  <2>3. q.at = "triage" /\ q.alert = a /\ q.to = to
    OBVIOUS
  <2> HIDE DEF q
  <2>4. IsTriage(q) /\ ~IsBatch(q)
    BY <2>3, AlertsAssumption DEF IsTriage, IsBatch
  <2> QED BY <1>1, <2>2, <2>4, AlertsUntouched
<1>6. ASSUME NEW r \in Requests, AlertRequestFails(r) PROVE AlertInv'
  <2>1. Moves(r, Waiting) /\ UNCHANGED <<alerts, due, stale, again>>
    BY <1>6 DEF AlertRequestFails
  <2> QED BY <1>1, <2>1, WaitingShape, AlertsUntouched
<1>7. CASE Ages \/ DeleteRule
  BY <1>3, <1>7 DEF Ages, DeleteRule
<1>8. CASE UNCHANGED alertsVars
  BY <1>3, <1>8 DEF alertsVars
<1>9. QED
  BY <1>1, <1>4, <1>5, <1>6, <1>7, <1>8, IngestKeeps, CommitBatchKeeps, SetStatusKeeps
     DEF AlertsNext

\* What a batch holds comes from what it read and the events it has: no tally is
\* more than these, and the rule's is the one it read unless another hit it since.
BatchFits(b) ==
    /\ b \in Batch /\ BatchSize(b) <= MaxBatch /\ b.old <= seen
    /\ b.fired <= BatchSize(b) /\ b.own <= BatchSize(b)
    /\ \A a \in AlertIds : /\ b.hits[a] <= BatchSize(b) /\ b.held[a] <= seen + b.hits[a]
                           /\ b.hits[a] > 0 => b.held[a] > 0
    /\ blurred \/ ~rule.exists \/ b.old = rule.hits
RuleIsGathered == blurred \/ ~rule.exists \/ rule.hits = gathered
TalliesFit ==
    /\ AlertsTypeOK /\ RuleIsGathered /\ DOMAIN req = Requests
    /\ rule.hits <= seen /\ gathered <= seen
    /\ \A a \in DOMAIN alerts : alerts[a].count <= seen
    /\ \A a \in AlertIds : due[a] <= seen
    /\ \A r \in Requests : req[r].at = "batch" => BatchFits(req[r])

\* The next event of a batch is counted, and not yet among those it has.
CountsNext(c) ==
    /\ c \in Batch /\ BatchSize(c) < MaxBatch /\ c.old <= seen
    /\ c.fired <= BatchSize(c) + 1 /\ c.own <= BatchSize(c) + 1
    /\ \A a \in AlertIds : /\ c.hits[a] <= BatchSize(c) + 1 /\ c.held[a] <= seen + c.hits[a]
                           /\ c.hits[a] > 0 => c.held[a] > 0
    /\ blurred \/ ~rule.exists \/ c.old = rule.hits

LEMMA BatchFieldsAre ==
    ASSUME NEW b \in Batch
    PROVE  /\ b.at = "batch" /\ b.old \in Nat /\ b.fired \in Nat
           /\ b.added \in Nat /\ b.flushed \in Nat /\ b.own \in Nat /\ BatchSize(b) \in Nat
           /\ b.held \in [AlertIds -> 0..MaxEvents + MaxBatch]
           /\ b.hits \in [AlertIds -> 0..MaxBatch]
           /\ \A a \in AlertIds : b.held[a] \in Nat /\ b.hits[a] \in Nat
<1>1. /\ b.at = "batch" /\ b.old \in 0..MaxEvents /\ b.fired \in 0..MaxBatch
      /\ b.added \in 0..MaxBatch /\ b.flushed \in 0..MaxBatch /\ b.own \in 0..MaxBatch
      /\ b.held \in [AlertIds -> 0..MaxEvents + MaxBatch]
      /\ b.hits \in [AlertIds -> 0..MaxBatch]
  BY DEF Batch
<1> QED BY <1>1, AlertsAssumption DEF BatchSize

LEMMA HoldFits == ASSUME TalliesFit, NEW c, CountsNext(c) PROVE BatchFits(Hold(c))
<1> DEFINE d == Hold(c)
<1>1. c \in Batch /\ BatchSize(c) < MaxBatch
  BY DEF CountsNext
<1>2. /\ c.added \in Nat /\ c.flushed \in Nat /\ BatchSize(c) = c.added + c.flushed
      /\ c.added + 1 \in 0..MaxBatch
  BY <1>1, BatchFieldsAre, AlertsAssumption DEF BatchSize
<1>3. /\ d \in Batch /\ d.added = c.added + 1 /\ d.flushed = c.flushed /\ d.old = c.old
      /\ d.fired = c.fired /\ d.own = c.own /\ d.hits = c.hits /\ d.held = c.held
  BY <1>1, <1>2 DEF Hold, Batch
<1>4. BatchSize(d) = BatchSize(c) + 1
  BY <1>2, <1>3 DEF BatchSize
<1> HIDE DEF d
<1>5. BatchFits(d)
  <2>1. BatchSize(d) <= MaxBatch /\ d.old <= seen
    BY <1>1, <1>2, <1>3, <1>4, AlertsAssumption DEF CountsNext
  <2>2. d.fired <= BatchSize(d) /\ d.own <= BatchSize(d)
    BY <1>3, <1>4 DEF CountsNext
  <2>3. \A a \in AlertIds : /\ d.hits[a] <= BatchSize(d) /\ d.held[a] <= seen + d.hits[a]
                            /\ d.hits[a] > 0 => d.held[a] > 0
    BY <1>3, <1>4 DEF CountsNext
  <2>4. blurred \/ ~rule.exists \/ d.old = rule.hits
    BY <1>3 DEF CountsNext
  <2> QED BY <1>3, <2>1, <2>2, <2>3, <2>4 DEF BatchFits
<1> QED BY <1>5 DEF d

LEMMA FiredFits ==
    ASSUME TalliesFit, NEW b, CountsNext(b), b.fired <= BatchSize(b)
    PROVE  CountsNext(Fired(b))
<1> DEFINE f == Fired(b)
<1>1. b \in Batch /\ BatchSize(b) < MaxBatch
  BY DEF CountsNext
<1>2. b.fired \in Nat /\ BatchSize(b) \in Nat /\ b.fired + 1 \in 0..MaxBatch
  BY <1>1, BatchFieldsAre, AlertsAssumption
<1>3. /\ f \in Batch /\ f.added = b.added /\ f.flushed = b.flushed /\ f.old = b.old
      /\ f.fired = b.fired + 1 /\ f.own = b.own /\ f.hits = b.hits /\ f.held = b.held
  BY <1>1, <1>2 DEF Fired, Batch
<1>4. BatchSize(f) = BatchSize(b)
  BY <1>3 DEF BatchSize
<1>5. f.fired <= BatchSize(f) + 1
  BY <1>2, <1>3, <1>4
<1> HIDE DEF f
<1>6. CountsNext(f)
  BY <1>3, <1>4, <1>5 DEF CountsNext
<1> QED BY <1>6 DEF f

LEMMA IngestFits ==
    ASSUME TalliesFit, NEW r \in Requests, IngestEvent(r)
    PROVE  \E d : Moves(r, d) /\ BatchFits(d)
<1> DEFINE q == req[r]
<1>1. q.at = "batch" /\ BatchSize(q) < MaxBatch /\ BatchFits(q)
  BY DEF IngestEvent, TalliesFit
<1>2. PICK b \in Flushes(q) :
        \/ Moves(r, Hold(b))
        \/ \E a \in OpenExisting : Moves(r, Hold(CountOn(Fired(b), a)))
        \/ b.own > 0 /\ Moves(r, Hold(CountOnOwn(Fired(b))))
        \/ b.own = 0 /\ OpenExisting = {} /\ Moves(r, Hold(MakeAlert(Fired(b))))
  BY DEF IngestEvent
<1> HIDE DEF q
<1>3. q \in Batch /\ q.added \in Nat /\ q.flushed \in Nat /\ BatchSize(q) = q.added + q.flushed
  BY <1>1, BatchFieldsAre DEF BatchFits, BatchSize
<1>4. q.flushed + q.added \in 0..MaxBatch /\ 0 \in 0..MaxBatch
  BY <1>1, <1>3, AlertsAssumption
<1>5. /\ b \in Batch /\ b.old = q.old /\ b.fired = q.fired /\ b.own = q.own
      /\ b.hits = q.hits /\ b.held = q.held /\ BatchSize(b) = BatchSize(q)
  <2> DEFINE p == [q EXCEPT !.flushed = q.flushed + q.added, !.added = 0]
  <2>1. b = q \/ b = p
    BY <1>2 DEF Flushes
  <2>2. /\ p \in Batch /\ p.old = q.old /\ p.fired = q.fired /\ p.own = q.own
        /\ p.hits = q.hits /\ p.held = q.held /\ p.added = 0 /\ p.flushed = q.flushed + q.added
    BY <1>3, <1>4 DEF Batch
  <2>3. BatchSize(p) = BatchSize(q)
    BY <1>3, <2>2 DEF BatchSize
  <2> QED BY <1>3, <2>1, <2>2, <2>3
<1>6. /\ b.fired \in Nat /\ b.own \in Nat /\ BatchSize(b) \in Nat
      /\ \A a \in AlertIds : b.held[a] \in Nat /\ b.hits[a] \in Nat
  BY <1>5, BatchFieldsAre
<1>7. CountsNext(b) /\ b.fired <= BatchSize(b) /\ b.own <= BatchSize(b)
      /\ \A a \in AlertIds : b.hits[a] <= BatchSize(b)
  <2>1. \A a \in AlertIds : b.hits[a] <= BatchSize(b)
    BY <1>1, <1>5 DEF BatchFits
  <2>2. b.fired <= BatchSize(b) /\ b.own <= BatchSize(b)
    BY <1>1, <1>5 DEF BatchFits
  <2>3. \A m, n \in Nat : m <= n => m <= n + 1
    OBVIOUS
  <2>4. \A a \in AlertIds : b.hits[a] <= BatchSize(b) + 1
    BY <1>6, <2>1, <2>3
  <2> QED BY <1>1, <1>5, <1>6, <2>1, <2>2, <2>3, <2>4 DEF BatchFits, CountsNext
<1> DEFINE f == Fired(b)
<1>8. /\ CountsNext(f) /\ f \in Batch /\ f.own = b.own /\ f.hits = b.hits /\ f.held = b.held
      /\ f.added = b.added /\ f.flushed = b.flushed /\ f.old = b.old /\ BatchSize(f) = BatchSize(b)
      /\ f.fired = b.fired + 1
  <2>1. CountsNext(f)
    BY <1>7, FiredFits
  <2>2. f.own = b.own /\ f.hits = b.hits /\ f.held = b.held /\ f.added = b.added
        /\ f.flushed = b.flushed /\ f.old = b.old /\ f.fired = b.fired + 1
    BY <1>5 DEF Fired, Batch
  <2>3. BatchSize(f) = BatchSize(b)
    BY <2>2 DEF BatchSize
  <2> QED BY <2>1, <2>2, <2>3 DEF CountsNext
<1> HIDE DEF f
<1>9. CASE Moves(r, Hold(b))
  BY <1>7, <1>9, HoldFits
<1>10. ASSUME NEW a \in OpenExisting, Moves(r, Hold(CountOn(f, a)))
       PROVE  \E d : Moves(r, d) /\ BatchFits(d)
  <2> DEFINE c == CountOn(f, a)
             n == (IF f.hits[a] = 0 THEN alerts[a].count ELSE f.held[a]) + 1
  <2>1. a \in AlertIds /\ alerts[a].count \in Nat /\ alerts[a].count <= seen /\ seen \in Nat
    <3>1. a \in DOMAIN alerts /\ Len(alerts) <= MaxAlerts /\ seen \in 0..MaxEvents
      BY DEF OpenExisting, TalliesFit, AlertsTypeOK
    <3> DEFINE R == Alert
    <3>2. alerts \in Seq(R)
      BY DEF TalliesFit, AlertsTypeOK
    <3> HIDE DEF R
    <3>3. a \in 1..Len(alerts) /\ Len(alerts) \in Nat /\ alerts[a] \in R
      BY <3>1, <3>2
    <3>4. alerts[a].count \in 1..MaxEvents
      BY <3>3 DEF R, Alert
    <3> QED BY <3>1, <3>3, <3>4, AlertsAssumption DEF AlertIds, TalliesFit
  <2>2. /\ f.hits \in [AlertIds -> 0..MaxBatch] /\ f.held \in [AlertIds -> 0..MaxEvents + MaxBatch]
        /\ f.hits[a] \in Nat /\ f.held[a] \in Nat /\ BatchSize(f) \in Nat
        /\ \A w \in AlertIds : f.hits[w] \in Nat /\ f.held[w] \in Nat
    BY <1>8, <2>1, BatchFieldsAre
  <2>3. n <= seen + (f.hits[a] + 1) /\ n \in Nat /\ n > 0
    <3>1. f.held[a] <= seen + f.hits[a]
      BY <1>8, <2>1 DEF CountsNext
    <3> QED BY <2>1, <2>2, <3>1
  <2>4. f.hits[a] + 1 <= BatchSize(f) + 1 /\ BatchSize(f) < MaxBatch /\ seen <= MaxEvents
    BY <1>6, <1>7, <1>8, <2>1 DEF CountsNext, TalliesFit, AlertsTypeOK
  <2>5. f.hits[a] + 1 \in 0..MaxBatch /\ n \in 0..MaxEvents + MaxBatch
    BY <2>1, <2>2, <2>3, <2>4, AlertsAssumption
  <2>6. /\ c \in Batch /\ c.own = f.own /\ c.fired = f.fired /\ c.old = f.old
        /\ c.added = f.added /\ c.flushed = f.flushed
        /\ c.hits = [f.hits EXCEPT ![a] = f.hits[a] + 1]
        /\ c.held = [f.held EXCEPT ![a] = n]
    <3> DEFINE hs == [f.hits EXCEPT ![a] = f.hits[a] + 1]
               hd == [f.held EXCEPT ![a] = n]
    <3>1. hs \in [AlertIds -> 0..MaxBatch] /\ hd \in [AlertIds -> 0..MaxEvents + MaxBatch]
      BY <2>2, <2>5
    <3>2. c = [f EXCEPT !.hits = hs, !.held = hd]
      BY <1>8 DEF CountOn, Batch
    <3> HIDE DEF hs, hd, c, n
    <3>3. /\ c \in Batch /\ c.own = f.own /\ c.fired = f.fired /\ c.old = f.old
          /\ c.added = f.added /\ c.flushed = f.flushed /\ c.hits = hs /\ c.held = hd
      BY <1>8, <3>1, <3>2 DEF Batch
    <3> QED BY <3>3 DEF hs, hd
  <2> HIDE DEF c, n
  <2>7. /\ c.hits[a] = f.hits[a] + 1 /\ c.held[a] = n
        /\ \A w \in AlertIds \ {a} : c.hits[w] = f.hits[w] /\ c.held[w] = f.held[w]
    BY <2>1, <2>2, <2>6
  <2>8. BatchSize(c) = BatchSize(f)
    BY <2>6 DEF BatchSize
  <2>9. ASSUME NEW w \in AlertIds
        PROVE  /\ c.hits[w] <= BatchSize(c) + 1 /\ c.held[w] <= seen + c.hits[w]
               /\ c.hits[w] > 0 => c.held[w] > 0
    <3>1. CASE w = a
      BY <2>3, <2>4, <2>7, <2>8, <3>1
    <3>2. CASE w # a
      BY <1>8, <2>7, <2>8, <3>2 DEF CountsNext
    <3> QED BY <3>1, <3>2
  <2>10. CountsNext(c)
    BY <1>8, <2>6, <2>8, <2>9 DEF CountsNext
  <2> QED BY <1>10, <2>10, HoldFits DEF c
<1>11. CASE Moves(r, Hold(CountOnOwn(f)))
  <2> DEFINE c == CountOnOwn(f)
  <2>1. f.own + 1 <= BatchSize(f) + 1 /\ f.own + 1 \in 0..MaxBatch
    BY <1>6, <1>7, <1>8, AlertsAssumption DEF CountsNext
  <2>2. /\ c \in Batch /\ c.own = f.own + 1 /\ c.fired = f.fired /\ c.old = f.old
        /\ c.added = f.added /\ c.flushed = f.flushed /\ c.hits = f.hits /\ c.held = f.held
    BY <1>8, <2>1 DEF CountOnOwn, Batch
  <2>3. BatchSize(c) = BatchSize(f)
    BY <2>2 DEF BatchSize
  <2> HIDE DEF c
  <2>4. CountsNext(c)
    BY <1>8, <2>1, <2>2, <2>3 DEF CountsNext
  <2> QED BY <1>11, <2>4, HoldFits DEF c
<1>12. CASE Moves(r, Hold(MakeAlert(f)))
  <2> DEFINE c == MakeAlert(f)
  <2>1. /\ 1 \in 0..MaxBatch /\ 1 <= BatchSize(f) + 1
        /\ f.added \in Nat /\ f.flushed \in Nat /\ BatchSize(f) = f.added + f.flushed
        /\ f.flushed + f.added \in 0..MaxBatch /\ 0 \in 0..MaxBatch
    <3>1. f.added \in Nat /\ f.flushed \in Nat /\ BatchSize(f) = f.added + f.flushed
      BY <1>8, BatchFieldsAre DEF BatchSize
    <3> QED BY <1>8, <3>1, AlertsAssumption DEF CountsNext
  <2>2. /\ c \in Batch /\ c.own = 1 /\ c.fired = f.fired /\ c.old = f.old
        /\ c.added = 0 /\ c.flushed = f.flushed + f.added /\ c.hits = f.hits /\ c.held = f.held
    BY <1>8, <2>1 DEF MakeAlert, Batch
  <2>3. BatchSize(c) = BatchSize(f)
    BY <2>1, <2>2 DEF BatchSize
  <2> HIDE DEF c
  <2>4. CountsNext(c)
    BY <1>8, <2>1, <2>2, <2>3 DEF CountsNext
  <2> QED BY <1>12, <2>4, HoldFits DEF c
<1> QED BY <1>2, <1>9, <1>10, <1>11, <1>12 DEF f

LEMMA FitShape ==
    ASSUME TalliesFit
    PROVE  /\ seen \in Nat /\ seen <= MaxEvents /\ Len(alerts) \in Nat /\ Len(alerts) <= MaxAlerts
           /\ DOMAIN alerts = 1..Len(alerts) /\ DOMAIN alerts \subseteq AlertIds
           /\ \A a \in DOMAIN alerts : /\ alerts[a] \in Alert /\ alerts[a].status \in AlertStatus
                                       /\ alerts[a].count \in Nat /\ alerts[a].count > 0
           /\ rule.exists \in BOOLEAN /\ rule.hits \in Nat /\ gathered \in Nat
           /\ due \in [AlertIds -> 0..MaxEvents] /\ DOMAIN req = Requests
<1> DEFINE R == Alert
<1>1. alerts \in Seq(R) /\ Len(alerts) <= MaxAlerts /\ seen \in 0..MaxEvents
  BY DEF TalliesFit, AlertsTypeOK
<1> HIDE DEF R
<1>2. /\ Len(alerts) \in Nat /\ DOMAIN alerts = 1..Len(alerts)
      /\ \A a \in DOMAIN alerts : alerts[a] \in R
  BY <1>1
<1>3. \A a \in DOMAIN alerts : alerts[a].count \in 1..MaxEvents /\ alerts[a].status \in AlertStatus
  BY <1>2 DEF R, Alert
<1>4. rule.exists \in BOOLEAN /\ rule.hits \in 0..MaxEvents
  BY DEF TalliesFit, AlertsTypeOK, DetectionRule
<1>5. DOMAIN alerts \subseteq AlertIds
  BY <1>1, <1>2, AlertsAssumption DEF AlertIds
<1>6. gathered \in 0..MaxEvents /\ due \in [AlertIds -> 0..MaxEvents] /\ DOMAIN req = Requests
  BY DEF TalliesFit, AlertsTypeOK
<1> QED BY <1>1, <1>2, <1>3, <1>4, <1>5, <1>6, AlertsAssumption DEF R

\* A request that writes nothing keeps the tallies if its own are in order.
LEMMA RequestFits ==
    ASSUME TalliesFit, NEW r \in Requests, NEW q, Moves(r, q),
           UNCHANGED <<stored, alerts, rule, seen, due, gathered, stale, blurred, again>>,
           q \in {Waiting} \cup Batch \cup Triage, q.at = "batch" => BatchFits(q)
    PROVE  TalliesFit'
<1>1. /\ DOMAIN req' = Requests /\ req'[r] = q
      /\ \A z \in Requests \ {r} : req'[z] = req[z]
  BY FitShape, MovesOn
<1>2. \A z \in Requests : req'[z] \in {Waiting} \cup Batch \cup Triage
  BY <1>1 DEF TalliesFit, AlertsTypeOK
<1>3. \A z \in Requests : req'[z].at = "batch" => BatchFits(req'[z])
  BY <1>1 DEF TalliesFit
<1>4. AlertsTypeOK'
  BY <1>1, <1>2 DEF TalliesFit, AlertsTypeOK
<1>5. \A z \in Requests : req'[z].at = "batch" => BatchFits(req[z])'
  BY <1>3 DEF BatchFits
<1> QED BY <1>1, <1>4, <1>5 DEF TalliesFit, RuleIsGathered

LEMMA CommitFits ==
    ASSUME TalliesFit, NEW r \in Requests, CommitBatch(r)
    PROVE  TalliesFit'
<1> DEFINE b == req[r]
           n == Len(alerts) + 1
           size == BatchSize(b)
           row(a) == IF a \in Counts(b) THEN [alerts[a] EXCEPT !.count = b.held[a]]
                     ELSE alerts[a]
           rows == [a \in DOMAIN alerts |-> row(a)]
           new == [status |-> "new", count |-> b.own]
<1>1. /\ b.at = "batch" /\ Moves(r, Waiting) /\ size > 0
      /\ b.own > 0 => Len(alerts) < MaxAlerts
      /\ b.fired > 0 => rule.exists
      /\ seen + size <= MaxEvents
      /\ alerts' = IF b.own > 0 THEN Append(rows, new) ELSE rows
      /\ rule' = IF b.fired > 0 THEN [rule EXCEPT !.hits = b.old + b.fired] ELSE rule
      /\ stored' = stored + size /\ seen' = seen + size
      /\ stale' = stale \cup {a \in Counts(b) : \E z \in Batches(r) : req[z].hits[a] > 0}
      /\ due' = [a \in AlertIds |->
             IF a \in stale' THEN 0
             ELSE IF b.own > 0 /\ a = n THEN b.own
             ELSE due[a] + b.hits[a]]
      /\ blurred' = (blurred \/ (b.fired > 0 /\ Batches(r) # {}))
      /\ gathered' = IF blurred' THEN 0 ELSE gathered + b.fired
      /\ again' = (again \/ (b.own > 0 /\ Batches(r) # {}))
  BY DEF CommitBatch
<1>2. BatchFits(b) /\ b \in Batch
  BY <1>1 DEF TalliesFit, BatchFits
<1>3. /\ b.old \in Nat /\ b.fired \in Nat /\ b.own \in Nat /\ size \in Nat
      /\ \A a \in AlertIds : b.held[a] \in Nat /\ b.hits[a] \in Nat
  BY <1>2, BatchFieldsAre
<1>4. /\ size <= MaxBatch /\ b.old <= seen /\ b.fired <= size /\ b.own <= size
      /\ \A a \in AlertIds : /\ b.hits[a] <= size /\ b.held[a] <= seen + b.hits[a]
                             /\ b.hits[a] > 0 => b.held[a] > 0
      /\ blurred \/ ~rule.exists \/ b.old = rule.hits
  BY <1>2 DEF BatchFits
<1>5. /\ DOMAIN req' = Requests /\ req'[r] = Waiting
      /\ \A z \in Requests \ {r} : req'[z] = req[z]
  BY <1>1, FitShape, MovesOn
<1>6. Counts(b) \subseteq DOMAIN alerts /\ \A a \in Counts(b) : b.hits[a] > 0
  BY DEF Counts
<1> HIDE DEF b, size
<1>7. /\ seen' \in 0..MaxEvents /\ seen' \in Nat /\ seen < seen' /\ seen' = seen + size
      /\ stored' \in 0..seen'
  <2>1. seen \in Nat /\ stored \in 0..seen
    BY FitShape DEF TalliesFit, AlertsTypeOK
  <2> QED BY <1>1, <1>3, <2>1, AlertsAssumption DEF b, size
<1>8. ASSUME NEW a \in DOMAIN alerts
      PROVE  row(a) \in Alert /\ row(a).count <= seen'
  <2>1. a \in AlertIds /\ alerts[a] \in Alert /\ alerts[a].count \in Nat /\ seen \in Nat
    BY FitShape
  <2>2. alerts[a].count <= seen
    BY DEF TalliesFit
  <2>3. CASE a \in Counts(b)
    <3> DEFINE x == alerts[a]
               h == b.held[a]
               y == [x EXCEPT !.count = h]
    <3>1. h \in Nat /\ h > 0 /\ h <= seen'
      BY <1>3, <1>4, <1>6, <1>7, <2>1, <2>3
    <3>2. h \in 1..MaxEvents /\ x \in Alert
      BY <1>7, <2>1, <3>1, AlertsAssumption
    <3>3. row(a) = y
      BY <2>3
    <3> HIDE DEF x, h
    <3>4. y \in Alert /\ y.count = h
      BY <3>2 DEF Alert
    <3> HIDE DEF y, row
    <3> QED BY <3>1, <3>3, <3>4
  <2>4. CASE a \notin Counts(b)
    BY <1>7, <2>1, <2>2, <2>4
  <2> QED BY <2>3, <2>4
<1> HIDE DEF row
<1>9. ASSUME b.own > 0 PROVE new \in Alert /\ new.count <= seen'
  <2>1. b.own \in 1..MaxEvents /\ b.own <= seen'
    BY <1>3, <1>4, <1>7, <1>9, FitShape, AlertsAssumption
  <2>2. "new" \in AlertStatus
    BY DEF AlertStatus, OpenStatus
  <2> DEFINE k == b.own
  <2> HIDE DEF k
  <2>3. [status |-> "new", count |-> k] \in Alert /\ [status |-> "new", count |-> k].count = k
    BY <2>1, <2>2 DEF Alert, k
  <2> QED BY <2>1, <2>3 DEF k
<1> HIDE DEF new
<1>10. /\ alerts' \in Seq(Alert) /\ Len(alerts') <= MaxAlerts
       /\ DOMAIN alerts \subseteq DOMAIN alerts'
       /\ \A a \in DOMAIN alerts' : alerts'[a].count <= seen'
  <2> DEFINE R == Alert
  <2>0. \A a \in 1..Len(alerts) : row(a) \in R /\ row(a).count <= seen'
    BY <1>8, FitShape
  <2>1. rows = [a \in 1..Len(alerts) |-> row(a)]
    BY FitShape
  <2> HIDE DEF rows, R
  <2>2. rows \in Seq(R) /\ Len(rows) = Len(alerts) /\ \A a \in 1..Len(alerts) : rows[a] = row(a)
    BY <2>0, <2>1, FitShape
  <2>3. Len(alerts) \in Nat /\ Len(alerts) <= MaxAlerts /\ DOMAIN alerts = 1..Len(alerts)
    BY FitShape
  <2>4. CASE b.own > 0
    <3>1. alerts' = Append(rows, new) /\ Len(alerts) < MaxAlerts
      BY <1>1, <2>4 DEF b, rows, row, new
    <3>2. /\ alerts' \in Seq(R) /\ Len(alerts') = Len(alerts) + 1
          /\ \A a \in 1..Len(alerts) : alerts'[a] = row(a)
          /\ alerts'[Len(alerts) + 1] = new
          /\ DOMAIN alerts' = 1..(Len(alerts) + 1)
      BY <1>9, <2>2, <2>3, <2>4, <3>1 DEF R
    <3>3. Len(alerts') <= MaxAlerts /\ DOMAIN alerts \subseteq DOMAIN alerts'
      BY <2>3, <3>1, <3>2, AlertsAssumption
    <3>4. ASSUME NEW a \in DOMAIN alerts' PROVE alerts'[a].count <= seen'
      <4>1. a \in 1..Len(alerts) \/ a = Len(alerts) + 1
        BY <2>3, <3>2
      <4> QED BY <1>9, <2>0, <2>4, <3>2, <4>1
    <3> QED BY <3>2, <3>3, <3>4 DEF R
  <2>5. CASE ~(b.own > 0)
    <3>1. alerts' = rows
      BY <1>1, <2>5 DEF b, rows, row, new
    <3>2. DOMAIN alerts' = 1..Len(alerts)
      BY <2>2, <2>3, <3>1
    <3> QED BY <2>0, <2>2, <2>3, <3>1, <3>2 DEF R
  <2> QED BY <2>4, <2>5
<1>11. due' \in [AlertIds -> 0..MaxEvents] /\ \A a \in AlertIds : due'[a] <= seen'
  <2>1. due' = [a \in AlertIds |->
             IF a \in stale' THEN 0 ELSE IF b.own > 0 /\ a = n THEN b.own ELSE due[a] + b.hits[a]]
    BY <1>1 DEF b
  <2>2. \A a \in AlertIds : due[a] \in Nat /\ due[a] <= seen
    BY FitShape, AlertsAssumption DEF TalliesFit
  <2>3. \A a \in AlertIds : /\ due[a] + b.hits[a] \in Nat /\ due[a] + b.hits[a] <= seen'
                            /\ b.own <= seen'
    <3>1. seen \in Nat
      BY FitShape
    <3>2. b.own <= seen'
      BY <1>3, <1>4, <1>7, <3>1
    <3>3. ASSUME NEW a \in AlertIds
          PROVE  due[a] + b.hits[a] \in Nat /\ due[a] + b.hits[a] <= seen'
      <4>1. /\ due[a] \in Nat /\ due[a] <= seen
            /\ b.hits[a] \in Nat /\ b.hits[a] <= size
        BY <1>3, <1>4, <2>2
      <4> QED BY <1>3, <1>7, <3>1, <4>1
    <3> QED BY <3>2, <3>3
  <2>4. seen' <= MaxEvents
    BY <1>7, AlertsAssumption
  <2> HIDE DEF n
  <2>5. \A a \in AlertIds : due'[a] \in Nat /\ due'[a] <= seen'
    BY <1>3, <1>7, <2>1, <2>3
  <2>6. \A a \in AlertIds : due'[a] \in 0..MaxEvents
    BY <1>7, <2>4, <2>5, AlertsAssumption
  <2> QED BY <2>1, <2>5, <2>6
<1>12. /\ rule' \in DetectionRule /\ rule'.hits <= seen' /\ rule'.exists = rule.exists
       /\ b.fired > 0 => rule.exists /\ rule'.hits = b.old + b.fired
       /\ ~(b.fired > 0) => rule' = rule
  <2> DEFINE h == b.old + b.fired
  <2>1. h \in Nat /\ h <= seen' /\ h \in 0..MaxEvents
    <3>1. seen \in Nat
      BY FitShape
    <3>2. h \in Nat /\ h <= seen'
      BY <1>3, <1>4, <1>7, <3>1
    <3> QED BY <1>7, <3>2, AlertsAssumption
  <2>2. rule \in DetectionRule /\ rule.hits <= seen' /\ rule.hits \in Nat
    <3>1. rule \in DetectionRule /\ rule.hits <= seen
      BY DEF TalliesFit, AlertsTypeOK
    <3> QED BY <1>7, <3>1, FitShape
  <2>3. rule' = IF b.fired > 0 THEN [rule EXCEPT !.hits = h] ELSE rule
    BY <1>1 DEF b
  <2>5. b.fired > 0 => rule.exists
    BY <1>1 DEF b
  <2> HIDE DEF h
  <2>4. /\ [rule EXCEPT !.hits = h] \in DetectionRule /\ [rule EXCEPT !.hits = h].hits = h
        /\ [rule EXCEPT !.hits = h].exists = rule.exists
    BY <2>1, <2>2 DEF DetectionRule
  <2> QED BY <2>1, <2>2, <2>3, <2>4, <2>5 DEF h
<1>13. /\ blurred' \in BOOLEAN /\ again' \in BOOLEAN /\ gathered' \in 0..MaxEvents /\ gathered' <= seen'
       /\ blurred' \/ ~rule'.exists \/ rule'.hits = gathered'
  <2>1. blurred' \in BOOLEAN /\ again' \in BOOLEAN
    BY <1>1 DEF TalliesFit, AlertsTypeOK
  <2>2. gathered' = IF blurred' THEN 0 ELSE gathered + b.fired
    BY <1>1 DEF b
  <2>3. gathered + b.fired \in Nat /\ gathered + b.fired <= seen'
    BY <1>3, <1>4, <1>7, FitShape DEF TalliesFit
  <2>4. gathered' \in Nat /\ gathered' <= seen'
    BY <1>7, <2>2, <2>3
  <2>5. gathered' \in 0..MaxEvents
    BY <1>7, <2>4, AlertsAssumption
  <2>6. ASSUME ~blurred', rule'.exists PROVE rule'.hits = gathered'
    <3>1. ~blurred /\ rule.exists
      BY <1>1, <1>12, <2>6
    <3>2. rule.hits = gathered
      BY <3>1 DEF TalliesFit, RuleIsGathered
    <3>3. CASE b.fired > 0
      BY <1>4, <1>12, <2>2, <2>6, <3>1, <3>2, <3>3
    <3>4. CASE ~(b.fired > 0)
      <4>1. b.fired = 0
        BY <1>3, <3>4
      <4> QED BY <1>12, <2>2, <2>6, <3>2, <3>4, <4>1, FitShape
    <3> QED BY <3>3, <3>4
  <2> QED BY <2>1, <2>4, <2>5, <2>6
<1>14. ASSUME NEW z \in Requests, req'[z].at = "batch" PROVE BatchFits(req[z])'
  <2> DEFINE q == req[z]
  <2>1. z # r /\ req'[z] = q /\ q.at = "batch"
    BY <1>5, <1>14, WaitingShape DEF Waiting
  <2>2. BatchFits(q) /\ q \in Batch
    BY <2>1 DEF TalliesFit, BatchFits
  <2>3. Batches(r) # {}
    BY <2>1 DEF Batches
  <2>4. blurred' \/ ~rule'.exists \/ q.old = rule'.hits
    <3>1. SUFFICES ASSUME ~blurred', rule'.exists PROVE q.old = rule'.hits
      OBVIOUS
    <3>2. ~blurred /\ rule.exists /\ ~(b.fired > 0)
      BY <1>1, <1>12, <2>3, <3>1 DEF b
    <3> QED BY <1>12, <2>2, <3>2 DEF BatchFits
  <2>5. \A a \in AlertIds : q.hits[a] \in Nat /\ q.held[a] \in Nat
    BY <2>2, BatchFieldsAre
  <2>6. q.old \in Nat
    BY <2>2, BatchFieldsAre
  <2> HIDE DEF q
  <2>7. q.old <= seen'
    BY <1>7, <2>2, <2>6, FitShape DEF BatchFits
  <2>8. \A a \in AlertIds : q.held[a] <= seen' + q.hits[a]
    BY <1>7, <2>2, <2>5, FitShape DEF BatchFits
  <2>9. BatchFits(q)'
    <3>1. q' = q
      BY <2>1 DEF q
    <3>2. /\ q \in Batch /\ BatchSize(q) <= MaxBatch /\ q.old <= seen'
          /\ q.fired <= BatchSize(q) /\ q.own <= BatchSize(q)
          /\ \A a \in AlertIds : /\ q.hits[a] <= BatchSize(q) /\ q.held[a] <= seen' + q.hits[a]
                                 /\ q.hits[a] > 0 => q.held[a] > 0
      BY <2>2, <2>7, <2>8 DEF BatchFits
    <3> QED BY <2>4, <3>1, <3>2 DEF BatchFits, BatchSize
  <2> QED BY <2>9 DEF q
<1>15. AlertsTypeOK'
  <2>1. stale' \subseteq DOMAIN alerts'
    BY <1>1, <1>6, <1>10 DEF TalliesFit, AlertsTypeOK
  <2>2. \A z \in Requests : req'[z] \in {Waiting} \cup Batch \cup Triage
    BY <1>5 DEF TalliesFit, AlertsTypeOK
  <2> QED BY <1>7, <1>10, <1>11, <1>12, <1>13, <2>1, <2>2 DEF AlertsTypeOK
<1> QED BY <1>5, <1>10, <1>11, <1>12, <1>13, <1>14, <1>15 DEF TalliesFit, RuleIsGathered

LEMMA SetStatusFits ==
    ASSUME AlertInv, TalliesFit, NEW r \in Requests, SetAlertStatus(r)
    PROVE  TalliesFit'
<1> DEFINE q == req[r]
<1>1. AlertRowsOK /\ q.at = "triage" /\ IsTriage(q)
  BY DEF AlertInv, AlertRowsOK, SetAlertStatus, IsBatch
<1>2. PICK t \in DOMAIN alerts : t = q.alert
  BY <1>1 DEF IsTriage
<1> DEFINE to == IF q.to = q.from THEN alerts[t].status ELSE q.to
           x == alerts[t]
           row == [x EXCEPT !.status = to]
<1>3. /\ alerts' = [alerts EXCEPT ![t] = row] /\ again' = (again \/ Reopens(t, to))
      /\ Moves(r, Waiting) /\ UNCHANGED <<stored, rule, seen, due, gathered, stale, blurred>>
  BY <1>2 DEF SetAlertStatus
<1>4. to \in AlertStatus /\ x \in Alert
  BY <1>1, FitShape DEF IsTriage
<1> HIDE DEF x, to
<1>5. row \in Alert /\ row.count = x.count
  BY <1>4 DEF Alert
<1> HIDE DEF row
<1>6. /\ alerts' \in Seq(Alert) /\ Len(alerts') = Len(alerts)
      /\ DOMAIN alerts' = DOMAIN alerts
      /\ \A a \in DOMAIN alerts : alerts'[a].count = alerts[a].count
  <2> DEFINE R == Alert
  <2>1. alerts \in Seq(R) /\ row \in R
    BY <1>5 DEF TalliesFit, AlertsTypeOK
  <2> HIDE DEF R
  <2>2. alerts' \in Seq(R) /\ Len(alerts') = Len(alerts) /\ DOMAIN alerts' = DOMAIN alerts
    BY <1>3, <2>1
  <2>3. alerts'[t] = row /\ \A a \in DOMAIN alerts \ {t} : alerts'[a] = alerts[a]
    BY <1>3, <2>1
  <2> QED BY <1>5, <2>2, <2>3 DEF R, x
<1>7. /\ DOMAIN req' = Requests /\ req'[r] = Waiting
      /\ \A z \in Requests \ {r} : req'[z] = req[z]
  BY <1>3, FitShape, MovesOn
<1>8. \A z \in Requests : req'[z].at = "batch" => BatchFits(req[z])'
  BY <1>3, <1>7, WaitingShape DEF TalliesFit, BatchFits, Waiting
<1>9. again' \in BOOLEAN
  BY <1>3 DEF TalliesFit, AlertsTypeOK
<1>10. \A z \in Requests : req'[z] \in {Waiting} \cup Batch \cup Triage
  BY <1>7 DEF TalliesFit, AlertsTypeOK
<1>11. AlertsTypeOK'
  BY <1>3, <1>6, <1>9, <1>10 DEF TalliesFit, AlertsTypeOK
<1> QED BY <1>3, <1>6, <1>7, <1>8, <1>11 DEF TalliesFit, RuleIsGathered

LEMMA FitInit == AlertsInit => TalliesFit
<1>1. SUFFICES ASSUME AlertsInit PROVE TalliesFit
  OBVIOUS
<1>2. /\ stored = 0 /\ alerts = <<>> /\ seen = 0 /\ due = [a \in AlertIds |-> 0] /\ gathered = 0
      /\ rule = [exists |-> TRUE, hits |-> 0]
      /\ stale = {} /\ blurred = FALSE /\ again = FALSE
      /\ req = [r \in Requests |-> Waiting]
  BY <1>1 DEF AlertsInit
<1>3. alerts \in Seq(Alert) /\ Len(alerts) = 0 /\ DOMAIN alerts = {}
  BY <1>2
<1>4. rule \in DetectionRule /\ rule.hits = 0
  BY <1>2, AlertsAssumption DEF DetectionRule
<1>5. \A r \in Requests : req[r] = Waiting /\ req[r].at # "batch"
  BY <1>2 DEF Waiting
<1>6. AlertsTypeOK
  <2>1. 0 \in 0..MaxEvents /\ 0 \in 0..0 /\ 0 <= MaxAlerts
    BY AlertsAssumption
  <2>2. /\ seen \in 0..MaxEvents /\ stored \in 0..seen /\ gathered \in 0..MaxEvents
        /\ due \in [AlertIds -> 0..MaxEvents]
    BY <1>2, <2>1
  <2>3. Len(alerts) <= MaxAlerts
    BY <1>3, <2>1
  <2> QED BY <1>2, <1>3, <1>4, <1>5, <2>2, <2>3 DEF AlertsTypeOK
<1> QED BY <1>2, <1>3, <1>4, <1>5, <1>6, AlertsAssumption DEF TalliesFit, RuleIsGathered

LEMMA FitNext == AlertInv /\ TalliesFit /\ [AlertsNext]_alertsVars => TalliesFit'
<1>1. SUFFICES ASSUME AlertInv, TalliesFit, [AlertsNext]_alertsVars PROVE TalliesFit'
  OBVIOUS
<1>2. ASSUME NEW r \in Requests, BeginBatch(r) PROVE TalliesFit'
  <2> DEFINE q == [at |-> "batch", knows |-> rule.exists, old |-> rule.hits, fired |-> 0,
                   added |-> 0, flushed |-> 0, held |-> NoHits, hits |-> NoHits, own |-> 0]
  <2>1. Moves(r, q) /\ UNCHANGED <<stored, alerts, rule, seen, due, gathered, stale, blurred, again>>
    BY <1>2 DEF BeginBatch
  <2>2. /\ NoHits \in [AlertIds -> 0..MaxBatch] /\ NoHits \in [AlertIds -> 0..MaxEvents + MaxBatch]
        /\ \A a \in AlertIds : NoHits[a] = 0
    BY AlertsAssumption DEF NoHits
  <2>3. rule.exists \in BOOLEAN /\ rule.hits \in 0..MaxEvents /\ rule.hits <= seen /\ seen \in Nat
    BY <1>1, FitShape DEF TalliesFit, AlertsTypeOK, DetectionRule
  <2>4. /\ q \in Batch /\ q.old = rule.hits /\ q.fired = 0 /\ q.added = 0 /\ q.flushed = 0
        /\ q.held = NoHits /\ q.hits = NoHits /\ q.own = 0
    BY <2>2, <2>3, AlertsAssumption DEF Batch
  <2> HIDE DEF q
  <2>5. BatchFits(q)
    BY <2>2, <2>3, <2>4, AlertsAssumption DEF BatchFits, BatchSize
  <2> QED BY <1>1, <2>1, <2>4, <2>5, RequestFits
<1>3. ASSUME NEW r \in Requests, IngestEvent(r) PROVE TalliesFit'
  <2>1. PICK d : Moves(r, d) /\ BatchFits(d)
    BY <1>1, <1>3, IngestFits
  <2> QED BY <1>1, <1>3, <2>1, RequestFits DEF IngestEvent, BatchFits
<1>4. ASSUME NEW r \in Requests, ReadAlert(r) PROVE TalliesFit'
  <2>1. PICK a \in DOMAIN alerts, to \in Settable :
          Moves(r, [at |-> "triage", alert |-> a, from |-> alerts[a].status, to |-> to])
    BY <1>4 DEF ReadAlert
  <2> DEFINE f == alerts[a].status
             q == [at |-> "triage", alert |-> a, from |-> f, to |-> to]
  <2>2. /\ UNCHANGED <<stored, alerts, rule, seen, due, gathered, stale, blurred, again>>
        /\ Moves(r, q)
    BY <1>4, <2>1 DEF ReadAlert
  <2>3. a \in AlertIds /\ f \in AlertStatus /\ to \in AlertStatus
    BY <1>1, FitShape, AlertsAssumption
  <2> HIDE DEF f
  <2>4. q \in Triage /\ q.at # "batch"
    BY <2>3 DEF Triage
  <2> HIDE DEF q
  <2> QED BY <1>1, <2>2, <2>4, RequestFits
<1>5. ASSUME NEW r \in Requests, AlertRequestFails(r) PROVE TalliesFit'
  <2>1. /\ Moves(r, Waiting)
        /\ UNCHANGED <<stored, alerts, rule, seen, due, gathered, stale, blurred, again>>
    BY <1>5 DEF AlertRequestFails
  <2>2. Waiting.at # "batch"
    BY DEF Waiting
  <2> QED BY <1>1, <2>1, <2>2, RequestFits
<1>6. CASE Ages
  <2>1. /\ stored > 0 /\ stored' = stored - 1
        /\ UNCHANGED <<alerts, rule, req, seen, due, gathered, stale, blurred, again>>
    BY <1>6 DEF Ages
  <2>2. stored' \in 0..seen
    BY <1>1, <2>1, FitShape DEF TalliesFit, AlertsTypeOK
  <2>3. AlertsTypeOK'
    BY <1>1, <2>1, <2>2 DEF TalliesFit, AlertsTypeOK
  <2>4. \A r \in Requests : req[r].at = "batch" => BatchFits(req[r])'
    BY <1>1, <2>1 DEF TalliesFit, BatchFits
  <2> QED BY <1>1, <2>1, <2>3, <2>4 DEF TalliesFit, RuleIsGathered
<1>7. CASE DeleteRule
  <2>1. /\ rule' = [exists |-> FALSE, hits |-> 0] /\ gathered' = 0
        /\ UNCHANGED <<stored, alerts, req, seen, due, stale, blurred, again>>
    BY <1>7 DEF DeleteRule
  <2>2. rule' \in DetectionRule /\ rule'.hits = 0 /\ ~rule'.exists /\ gathered' \in 0..MaxEvents
    BY <2>1, AlertsAssumption DEF DetectionRule
  <2>3. AlertsTypeOK'
    BY <1>1, <2>1, <2>2 DEF TalliesFit, AlertsTypeOK
  <2>4. \A r \in Requests : req[r].at = "batch" => BatchFits(req[r])'
    BY <1>1, <2>1, <2>2 DEF TalliesFit, BatchFits
  <2>5. rule'.hits <= seen' /\ gathered' <= seen'
    BY <1>1, <2>1, <2>2, FitShape
  <2> QED BY <1>1, <2>1, <2>2, <2>3, <2>4, <2>5 DEF TalliesFit, RuleIsGathered
<1>8. CASE UNCHANGED alertsVars
  BY <1>1, <1>8 DEF alertsVars, TalliesFit, RuleIsGathered, AlertsTypeOK, BatchFits
<1> QED
  BY <1>1, <1>2, <1>3, <1>4, <1>5, <1>6, <1>7, <1>8, CommitFits, SetStatusFits DEF AlertsNext

\* Every row and every request is of its kind: the counts of alerts, of the rule
\* and of what batches hold are bounded by the events there were.
THEOREM AlertsTypeCorrect == AlertsSpec => []AlertsTypeOK
<1>1. TalliesFit => AlertsTypeOK
  BY DEF TalliesFit
<1> QED BY <1>1, AlertInit, AlertNext, FitInit, FitNext, PTL DEF AlertsSpec

\* The count of an alert is the number of stored events that hit it, and that of
\* the rule of those that hit any, unless two batches counted on the row across
\* each other.
THEOREM EveryHitCountedThm == AlertsSpec => []EveryHitCounted
<1>1. AlertInv /\ TalliesFit => EveryHitCounted
  BY DEF AlertInv, CountsAreDue, TalliesFit, RuleIsGathered, EveryHitCounted
<1>2. QED
  BY <1>1, AlertInit, AlertNext, FitInit, FitNext, PTL DEF AlertsSpec

\* One alert of the fingerprint is open at a time, unless two batches made one
\* each, or a resolved one was opened again beside it.
THEOREM OneOpenAlertThm == AlertsSpec => []OneOpenAlert
<1>1. AlertInv => OneOpenAlert
  <2>1. SUFFICES ASSUME AlertInv, ~again PROVE Cardinality(OpenExisting) <= 1
    BY DEF OneOpenAlert, OpenExisting
  <2>2. CASE OpenExisting = {}
    BY <2>2, FS_EmptySet
  <2>3. CASE OpenExisting # {}
    <3>1. PICK a \in OpenExisting : OpenExisting = {a}
      BY <2>1, <2>3 DEF AlertInv, OneOpen
    <3>2. Cardinality({a}) = 1
      BY FS_Singleton
    <3> QED BY <3>1, <3>2
  <2> QED BY <2>2, <2>3
<1>2. QED
  BY <1>1, AlertInit, AlertNext, PTL DEF AlertsSpec

(****************************** the registry *********************************)
\* A request knows rows that are there, and, unless another committed meanwhile,
\* nothing changed of what it looked up; of a MAC it makes a device for there is
\* no other.
RequestOK(q) ==
    /\ q \in Feed
    /\ q.dev > 0 => q.dev \in DOMAIN devices /\ (q.over \/ ~devices[q.dev].gone)
    /\ q.at = "insert" /\ q.mac # None /\ ~q.over => ByMac(q.mac) = {}
    /\ q.make /\ q.mac # None => ByMac(q.mac) = {}
    /\ q.at = "commit" /\ NewSource(q) /\ ~q.over => Named(q.name) = {}
    /\ q.at = "lost" => \/ q.over
                        \/ q.ip # None /\ Cardinality(held[q.ip]) > 1
                        \/ q.name \in shared
RequestsOK == \A r \in Feeders : feed[r] = Still \/ RequestOK(feed[r])
\* The insert of a MAC waits for another of it.
Makes(q) == q # Still /\ q.make /\ q.mac # None
OneMaker ==
    \A r, z \in Feeders :
      Makes(feed[r]) /\ Makes(feed[z]) /\ feed[r].mac = feed[z].mac => r = z
MacsOnce ==
    \A d, e \in Alive : devices[d].mac = devices[e].mac /\ devices[d].mac # None => d = e
HeldByIp ==
    \A d \in DOMAIN devices : devices[d].ip # None => d \in held[devices[d].ip]
SourcesOnce ==
    \A s, t \in DOMAIN sources : sources[s] = sources[t] /\ s # t => sources[s] \in shared
TablesOK ==
    /\ devices \in Seq(Device) /\ Len(devices) <= MaxDevices
    /\ sources \in Seq(Names) /\ Len(sources) <= MaxSources
    /\ held \in [Ips -> SUBSET DeviceIds] /\ shared \subseteq Names
    /\ MacsOnce /\ HeldByIp /\ SourcesOnce

RegistryInv == TablesOK /\ feed = [r \in Feeders |-> feed[r]] /\ RequestsOK /\ OneMaker

LEMMA TwoOfMany ==
    ASSUME NEW S, Cardinality(S) > 1
    PROVE  \E x, y \in S : x # y
<1>1. SUFFICES ASSUME \A x, y \in S : x = y PROVE FALSE
  OBVIOUS
<1>2. CASE S = {}
  BY <1>2, FS_EmptySet
<1>3. CASE S # {}
  <2>1. PICK x \in S : S = {x}
    BY <1>1, <1>3
  <2>2. Cardinality({x}) = 1
    BY FS_Singleton
  <2> QED BY <2>1, <2>2
<1> QED BY <1>2, <1>3

\* Who has held an address is known for good: there are never fewer of them.
LEMMA HeldGrow ==
    ASSUME NEW S \in SUBSET DeviceIds, NEW T \in SUBSET S, Cardinality(T) > 1
    PROVE  Cardinality(S) > 1
<1>1. IsFiniteSet(DeviceIds)
  BY RegistryAssumption, FS_Interval DEF DeviceIds
<1>2. IsFiniteSet(S)
  BY <1>1, FS_Subset
<1>3. Cardinality(T) <= Cardinality(S)
  BY <1>2, FS_Subset
<1>4. Cardinality(T) \in Nat /\ Cardinality(S) \in Nat
  BY <1>2, FS_Subset, FS_CardinalityType
<1> QED BY <1>3, <1>4

LEMMA StillShape == Still \notin Feed /\ Still.at = "idle" /\ \A q \in Feed : q.at # "idle"
BY DEF Still, Feed

LEMMA FeedShape ==
    ASSUME NEW q \in Feed
    PROVE  /\ q.mac \in Macs \cup {None} /\ q.ip \in Ips \cup {None}
           /\ q.name \in Names \cup {None} /\ q.dev \in 0..MaxDevices
           /\ q.src \in 0..MaxSources /\ q.make \in BOOLEAN /\ q.over \in BOOLEAN
           /\ q.read \in Ips \cup {None}
BY DEF Feed

LEMMA DeviceShape ==
    ASSUME devices \in Seq(Device), NEW d \in DOMAIN devices
    PROVE  /\ devices[d] \in Device
           /\ devices[d].mac \in Macs \cup {None} /\ devices[d].ip \in Ips \cup {None}
           /\ devices[d].gone \in BOOLEAN
<1>1. devices[d] \in Device
  OBVIOUS
<1> QED BY <1>1 DEF Device

LEMMA RegistryInit0 == RegistryInit => RegistryInv
<1> SUFFICES ASSUME RegistryInit PROVE RegistryInv
  OBVIOUS
<1>1. devices = <<>> /\ sources = <<>> /\ DOMAIN devices = {} /\ DOMAIN sources = {}
  BY DEF RegistryInit
<1>2. /\ devices \in Seq(Device) /\ Len(devices) <= MaxDevices
      /\ sources \in Seq(Names) /\ Len(sources) <= MaxSources
  BY <1>1, RegistryAssumption
<1>3. held \in [Ips -> SUBSET DeviceIds] /\ shared \subseteq Names
  BY DEF RegistryInit
<1>4. \A r \in Feeders : feed[r] = Still
  BY DEF RegistryInit
<1>5. MacsOnce /\ HeldByIp /\ SourcesOnce
  BY <1>1 DEF MacsOnce, HeldByIp, SourcesOnce, Alive
<1> QED BY <1>2, <1>3, <1>4, <1>5
        DEF RegistryInv, TablesOK, RequestsOK, OneMaker, Makes, RegistryInit

\* A request that reads, waits, fails or ends changes itself only.
LEMMA OwnStep ==
    ASSUME RegistryInv, NEW r \in Feeders, NEW q, Feeds(r, q),
           UNCHANGED <<devices, sources, held, shared>>,
           q = Still \/ RequestOK(q),
           Makes(q) => \A z \in Feeders \ {r} : Makes(feed[z]) => feed[z].mac # q.mac
    PROVE  RegistryInv'
<1>1. feed' = [z \in Feeders |-> IF z = r THEN q ELSE feed[z]]
  BY DEF Feeds, RegistryInv
<1>2. feed' = [z \in Feeders |-> feed'[z]]
  BY <1>1
<1>3. TablesOK'
  BY DEF RegistryInv, TablesOK, MacsOnce, HeldByIp, SourcesOnce, Alive
<1>4. ASSUME NEW x, RequestOK(x) PROVE RequestOK(x)'
  BY <1>4 DEF RequestOK, ByMac, Alive, Named
<1>5. RequestsOK'
  BY <1>1, <1>4 DEF RegistryInv, RequestsOK
<1>6. OneMaker'
  BY <1>1 DEF RegistryInv, OneMaker, Makes
<1> QED BY <1>2, <1>3, <1>5, <1>6 DEF RegistryInv

\* An error keeps what the request came with, if something explains it.
LEMMA RaisesKeeps ==
    ASSUME RegistryInv, NEW r \in Feeders, NEW q, RequestOK(q), Raises(r, q),
           UNCHANGED <<devices, sources, held, shared>>,
           \/ q.over
           \/ q.ip # None /\ Cardinality(held[q.ip]) > 1
           \/ q.name \in shared
    PROVE  RegistryInv'
<1> DEFINE x == [q EXCEPT !.at = "lost", !.mac = None, !.dev = 0, !.src = 0,
                          !.read = None, !.make = FALSE]
<1>1. q \in Feed
  BY DEF RequestOK
<1>0. 0 \in 0..MaxDevices /\ 0 \in 0..MaxSources
  BY RegistryAssumption
<1>2. x \in Feed
  BY <1>0, <1>1 DEF Feed
<1>3. /\ x.at = "lost" /\ x.dev = 0 /\ ~x.make /\ x.mac = None
      /\ x.over = q.over /\ x.ip = q.ip /\ x.name = q.name
  BY <1>1 DEF Feed
<1>4. Feeds(r, x)
  BY DEF Raises
<1> HIDE DEF x
<1>5. RequestOK(x)
  BY <1>2, <1>3 DEF RequestOK
<1>6. ~Makes(x)
  BY <1>3 DEF Makes
<1> QED BY <1>4, <1>5, <1>6, OwnStep

\* The steps that look something up.
LEMMA LookupKeeps ==
    ASSUME RegistryInv, NEW r \in Feeders,
           BeginFeed(r) \/ FindDevice(r) \/ InsertDevice(r) \/ FindSource(r)
             \/ CommitStale(r) \/ FeedEnds(r)
    PROVE  RegistryInv'
<1> DEFINE q == feed[r]
<1>0. feed[r].at # "idle" => RequestOK(feed[r]) /\ feed[r] \in Feed
  BY StillShape DEF RegistryInv, RequestsOK, RequestOK
<1>1. ASSUME FeedEnds(r) PROVE RegistryInv'
  <2>1. ~Makes(Still)
    BY DEF Makes
  <2> QED BY <1>1, <2>1, OwnStep DEF FeedEnds
<1>2. ASSUME BeginFeed(r) PROVE RegistryInv'
  <2>1. PICK begins \in {"match", "enrol", "source"}, m \in Macs \cup {None},
             i \in Ips \cup {None}, n \in Sent \cup {None} :
          Feeds(r, [at |-> begins, mac |-> m, ip |-> i, name |-> n, dev |-> 0,
                    src |-> 0, read |-> None, make |-> FALSE, over |-> FALSE])
    BY <1>2 DEF BeginFeed
  <2> DEFINE x == [at |-> begins, mac |-> m, ip |-> i, name |-> n, dev |-> 0,
                   src |-> 0, read |-> None, make |-> FALSE, over |-> FALSE]
  <2>2. 0 \in 0..MaxDevices /\ 0 \in 0..MaxSources /\ n \in Names \cup {None}
    BY RegistryAssumption
  <2>3. x \in Feed
    BY <2>2 DEF Feed
  <2>4. x.at \in {"match", "enrol", "source"} /\ x.dev = 0 /\ ~x.make
    OBVIOUS
  <2>5. Feeds(r, x)
    BY <2>1
  <2> HIDE DEF x
  <2>6. RequestOK(x) /\ ~Makes(x)
    BY <2>3, <2>4 DEF RequestOK, Makes
  <2>7. UNCHANGED <<devices, sources, held, shared>>
    BY <1>2 DEF BeginFeed
  <2> QED BY <2>5, <2>6, <2>7, OwnStep
<1>3. ASSUME FindDevice(r) PROVE RegistryInv'
  <2>1. RequestOK(q) /\ q \in Feed /\ q.at \in {"match", "enrol"}
    BY <1>0, <1>3 DEF FindDevice
  <2>2. UNCHANGED <<devices, sources, held, shared>>
    BY <1>3 DEF FindDevice
  <2>3. /\ q.mac \in Macs \cup {None} /\ q.ip \in Ips \cup {None}
        /\ q.name \in Names \cup {None} /\ q.make \in BOOLEAN
    BY <2>1, FeedShape
  <2>4. Matches(q) \subseteq Alive /\ Matches(q) \subseteq DOMAIN devices
    BY DEF Matches, ByMac, ByIp, Alive
  <2>5. CASE Cardinality(Matches(q)) > 1 /\ Raises(r, q)
    <3>1. PICK d, e \in Matches(q) : d # e
      BY <2>5, TwoOfMany
    <3>2. q.mac = None
      <4>1. SUFFICES ASSUME q.mac # None PROVE FALSE
        OBVIOUS
      <4>2. d \in ByMac(q.mac) /\ e \in ByMac(q.mac)
        BY <3>1, <4>1 DEF Matches
      <4> QED BY <3>1, <4>1, <4>2 DEF ByMac, RegistryInv, TablesOK, MacsOnce
    <3>3. q.ip # None /\ Matches(q) = ByIp(q.ip)
      BY <3>1, <3>2 DEF Matches
    <3>4. q.ip \in Ips /\ held[q.ip] \in SUBSET DeviceIds
      BY <2>3, <3>3 DEF RegistryInv, TablesOK
    <3>5. ByIp(q.ip) \subseteq held[q.ip]
      BY <3>3 DEF ByIp, Alive, RegistryInv, TablesOK, HeldByIp
    <3>6. Cardinality(held[q.ip]) > 1
      BY <2>5, <3>3, <3>4, <3>5, HeldGrow
    <3> HIDE DEF q
    <3> QED BY <2>1, <2>2, <2>5, <3>3, <3>6, RaisesKeeps
  <2>6. CASE Cardinality(Matches(q)) = 1 /\
             \E d \in Matches(q) :
               Feeds(r, [q EXCEPT !.at = Onward(q), !.dev = d, !.read = devices[d].ip])
    <3>1. PICK d \in Matches(q) :
            Feeds(r, [q EXCEPT !.at = Onward(q), !.dev = d, !.read = devices[d].ip])
      BY <2>6
    <3>2. d \in Alive /\ d \in DOMAIN devices /\ ~devices[d].gone
      BY <2>4 DEF Alive
    <3>3. devices[d].ip \in Ips \cup {None} /\ d \in 0..MaxDevices
      <4>1. devices \in Seq(Device) /\ Len(devices) <= MaxDevices
        BY DEF RegistryInv, TablesOK
      <4>2. devices[d].ip \in Ips \cup {None}
        BY <3>2, <4>1, DeviceShape
      <4>3. d \in 1..Len(devices) /\ Len(devices) \in Nat
        BY <3>2, <4>1
      <4>4. d \in 0..MaxDevices
        BY <4>1, <4>3, RegistryAssumption
      <4> QED BY <4>2, <4>4
    <3>4. PICK at \in {"source", "commit"} :
            at = Onward(q) /\ (at = "commit" <=> q.name = None)
      BY DEF Onward
    <3>5. PICK i \in Ips \cup {None} : i = devices[d].ip
      BY <3>3
    <3> DEFINE x == [q EXCEPT !.at = at, !.dev = d, !.read = i]
    <3>6. x \in Feed
      BY <2>1, <3>3 DEF Feed
    <3>7. /\ x.at = at /\ x.dev = d /\ x.mac = q.mac /\ x.make = q.make /\ x.name = q.name
          /\ x.over = q.over
      BY <2>1 DEF Feed
    <3>8. Feeds(r, x)
      BY <3>1, <3>4, <3>5
    <3> HIDE DEF x
    <3>9. RequestOK(x)
      BY <2>1, <3>2, <3>4, <3>6, <3>7 DEF RequestOK, NewSource
    <3>10. Makes(x) => \A z \in Feeders \ {r} : Makes(feed[z]) => feed[z].mac # x.mac
      BY <2>1, <3>7, StillShape DEF RegistryInv, OneMaker, Makes
    <3> QED BY <2>2, <3>8, <3>9, <3>10, OwnStep
  <2>7. CASE Matches(q) = {} /\
             Feeds(r, [q EXCEPT !.at = IF Creates(q) THEN "insert" ELSE Onward(q)])
    <3>1. PICK at \in {"source", "commit", "insert"} :
            /\ at = IF Creates(q) THEN "insert" ELSE Onward(q)
            /\ at = "commit" => q.name = None
      BY DEF Onward
    <3> DEFINE x == [q EXCEPT !.at = at]
    <3>2. x \in Feed
      BY <2>1 DEF Feed
    <3>3. /\ x.at = at /\ x.dev = q.dev /\ x.mac = q.mac /\ x.make = q.make /\ x.name = q.name
          /\ x.over = q.over
      BY <2>1 DEF Feed
    <3>4. Feeds(r, x)
      BY <2>7, <3>1
    <3>5. q.mac # None => ByMac(q.mac) = {}
      BY <2>7 DEF Matches
    <3> HIDE DEF x
    <3>6. RequestOK(x)
      BY <2>1, <3>1, <3>2, <3>3, <3>5 DEF RequestOK, NewSource
    <3>7. Makes(x) => \A z \in Feeders \ {r} : Makes(feed[z]) => feed[z].mac # x.mac
      BY <2>1, <3>3, StillShape DEF RegistryInv, OneMaker, Makes
    <3> QED BY <2>2, <3>4, <3>6, <3>7, OwnStep
  <2> QED BY <1>3, <2>5, <2>6, <2>7 DEF FindDevice
<1>4. ASSUME InsertDevice(r) PROVE RegistryInv'
  <2>1. RequestOK(q) /\ q \in Feed /\ q.at = "insert"
    BY <1>0, <1>4 DEF InsertDevice
  <2>2. UNCHANGED <<devices, sources, held, shared>>
    BY <1>4 DEF InsertDevice
  <2>3. CASE q.mac # None /\ ByMac(q.mac) # {} /\ Raises(r, q)
    <3>1. q.over
      BY <2>1, <2>3, FeedShape DEF RequestOK
    <3> HIDE DEF q
    <3> QED BY <2>1, <2>2, <2>3, <3>1, RaisesKeeps
  <2>4. CASE (q.mac = None \/ ByMac(q.mac) = {}) /\ Feeds(r, [q EXCEPT !.at = Onward(q), !.make = TRUE])
    <3>1. PICK at \in {"source", "commit"} :
            at = Onward(q) /\ (at = "commit" <=> q.name = None)
      BY DEF Onward
    <3> DEFINE x == [q EXCEPT !.at = at, !.make = TRUE]
    <3>2. x \in Feed
      BY <2>1 DEF Feed
    <3>3. /\ x.at = at /\ x.dev = q.dev /\ x.mac = q.mac /\ x.make /\ x.name = q.name
          /\ x.over = q.over
      BY <2>1 DEF Feed
    <3>4. Feeds(r, x)
      BY <2>4, <3>1
    <3> HIDE DEF x
    <3>5. RequestOK(x)
      BY <2>1, <2>4, <3>1, <3>2, <3>3 DEF RequestOK, NewSource
    <3>6. q.mac # None => Inserting(q.mac) = {}
      BY <1>4 DEF InsertDevice
    <3>7. \A z \in Feeders : Makes(feed[z]) => feed[z].at # "idle"
      BY StillShape DEF Makes, RegistryInv, RequestsOK, RequestOK
    <3>8. Makes(x) => \A z \in Feeders \ {r} : Makes(feed[z]) => feed[z].mac # x.mac
      BY <3>3, <3>6, <3>7 DEF Inserting, Makes
    <3> QED BY <2>2, <3>4, <3>5, <3>8, OwnStep
  <2> QED BY <1>4, <2>3, <2>4 DEF InsertDevice
<1>5. ASSUME FindSource(r) PROVE RegistryInv'
  <2>1. RequestOK(q) /\ q \in Feed /\ q.at = "source"
    BY <1>0, <1>5 DEF FindSource
  <2>2. UNCHANGED <<devices, sources, held, shared>>
    BY <1>5 DEF FindSource
  <2>3. CASE Cardinality(Named(q.name)) > 1 /\ Raises(r, q)
    <3>1. PICK s, t \in Named(q.name) : s # t
      BY <2>3, TwoOfMany
    <3>2. q.name \in shared
      BY <3>1 DEF Named, RegistryInv, TablesOK, SourcesOnce
    <3> HIDE DEF q
    <3> QED BY <2>1, <2>2, <2>3, <3>2, RaisesKeeps
  <2>4. ASSUME NEW s \in 0..MaxSources, s = 0 => Named(q.name) = {},
               Feeds(r, [q EXCEPT !.at = "commit", !.src = s])
        PROVE  RegistryInv'
    <3> DEFINE x == [q EXCEPT !.at = "commit", !.src = s]
    <3>1. x \in Feed
      BY <2>1 DEF Feed
    <3>2. /\ x.at = "commit" /\ x.dev = q.dev /\ x.mac = q.mac /\ x.make = q.make
          /\ x.name = q.name /\ x.over = q.over /\ x.src = s
      BY <2>1 DEF Feed
    <3>3. Feeds(r, x)
      BY <2>4
    <3> HIDE DEF x
    <3>4. RequestOK(x)
      BY <2>1, <2>4, <3>1, <3>2 DEF RequestOK, NewSource
    <3>5. Makes(x) => \A z \in Feeders \ {r} : Makes(feed[z]) => feed[z].mac # x.mac
      BY <2>1, <3>2, StillShape DEF RegistryInv, OneMaker, Makes
    <3> QED BY <2>2, <3>3, <3>4, <3>5, OwnStep
  <2>5. CASE Named(q.name) = {} /\ Feeds(r, [q EXCEPT !.at = "commit"])
    <3>1. PICK s \in 0..MaxSources : s = q.src
      BY <2>1, FeedShape
    <3>2. [q EXCEPT !.at = "commit"] = [q EXCEPT !.at = "commit", !.src = s]
      BY <2>1, <3>1 DEF Feed
    <3> HIDE DEF q
    <3> QED BY <2>4, <2>5, <3>2
  <2>6. CASE \E s \in Named(q.name) : Feeds(r, [q EXCEPT !.at = "commit", !.src = s])
    <3>1. PICK s \in Named(q.name) : Feeds(r, [q EXCEPT !.at = "commit", !.src = s])
      BY <2>6
    <3>2. s \in 1..Len(sources) /\ Len(sources) \in Nat /\ Len(sources) <= MaxSources
      BY DEF Named, RegistryInv, TablesOK
    <3>3. s \in 0..MaxSources /\ s # 0
      BY <3>2, RegistryAssumption
    <3> HIDE DEF q
    <3> QED BY <2>4, <3>1, <3>3
  <2> QED BY <1>5, <2>3, <2>5, <2>6 DEF FindSource
<1>6. ASSUME CommitStale(r) PROVE RegistryInv'
  <2>1. RequestOK(q) /\ q.dev > 0 /\ devices[q.dev].gone /\ Raises(r, q)
    BY <1>0, <1>6 DEF CommitStale
  <2>2. UNCHANGED <<devices, sources, held, shared>>
    BY <1>6 DEF CommitStale
  <2>3. q.over
    BY <2>1 DEF RequestOK
  <2> HIDE DEF q
  <2> QED BY <2>1, <2>2, <2>3, RaisesKeeps
<1> QED BY <1>1, <1>2, <1>3, <1>4, <1>5, <1>6

\* A request that commits, and an analyst, mark all others.
LEMMA MarksKeep ==
    ASSUME RegistryInv, NEW r, feed' = Marks(r, Still), TablesOK',
           DOMAIN devices \subseteq DOMAIN devices',
           \A m \in Macs : m # None /\ ByMac(m) = {} /\ ByMac(m)' # {} =>
               r \in Feeders /\ Makes(feed[r]) /\ feed[r].mac = m
    PROVE  RegistryInv'
<1>1. feed' = [z \in Feeders |-> feed'[z]]
  BY DEF Marks
<1>2. ASSUME NEW z \in Feeders, feed'[z] # Still
      PROVE  /\ z # r /\ feed[z] # Still /\ feed[z] \in Feed /\ RequestOK(feed[z])
             /\ feed'[z] = [feed[z] EXCEPT !.over = TRUE]
  BY <1>2 DEF Marks, RegistryInv, RequestsOK, RequestOK
<1>3. ASSUME NEW z \in Feeders, feed'[z] # Still
      PROVE  /\ feed'[z] \in Feed /\ feed'[z].over
             /\ feed'[z].dev = feed[z].dev /\ feed'[z].mac = feed[z].mac
             /\ feed'[z].make = feed[z].make
  <2>1. PICK q \in Feed : q = feed[z]
    BY <1>2, <1>3
  <2>2. [q EXCEPT !.over = TRUE] \in Feed /\ [q EXCEPT !.over = TRUE].over
    BY DEF Feed
  <2>3. /\ [q EXCEPT !.over = TRUE].dev = q.dev /\ [q EXCEPT !.over = TRUE].mac = q.mac
        /\ [q EXCEPT !.over = TRUE].make = q.make
    BY DEF Feed
  <2> QED BY <1>2, <1>3, <2>1, <2>2, <2>3
<1>4. ASSUME NEW z \in Feeders, feed'[z] # Still, NEW y, y = feed'[z] PROVE RequestOK(y)'
  <2>1. y \in Feed /\ y.over /\ y.dev = feed[z].dev /\ y.mac = feed[z].mac /\ y.make = feed[z].make
    BY <1>3, <1>4
  <2>2. y.dev > 0 => y.dev \in DOMAIN devices'
    BY <1>2, <1>4, <2>1 DEF RequestOK
  <2>3. ASSUME y.make, y.mac # None PROVE ByMac(y.mac)' = {}
    <3>1. Makes(feed[z]) /\ ByMac(y.mac) = {} /\ z # r
      BY <1>2, <1>4, <2>1, <2>3 DEF RequestOK, Makes
    <3>2. y.mac \in Macs
      BY <2>1, <2>3, FeedShape
    <3>3. SUFFICES ASSUME r \in Feeders, Makes(feed[r]), feed[r].mac = y.mac PROVE FALSE
      BY <2>3, <3>1, <3>2
    <3> QED BY <2>1, <3>1, <3>3 DEF RegistryInv, OneMaker
  <2> QED BY <2>1, <2>2, <2>3 DEF RequestOK
<1>5. RequestsOK'
  BY <1>4 DEF RequestsOK
<1>6. OneMaker'
  <2> SUFFICES ASSUME NEW y \in Feeders, NEW z \in Feeders, Makes(feed[y])', Makes(feed[z])',
                      feed'[y].mac = feed'[z].mac
               PROVE  y = z
    BY DEF OneMaker
  <2>1. feed'[y] # Still /\ feed'[z] # Still
    BY DEF Makes
  <2>2. Makes(feed[y]) /\ Makes(feed[z]) /\ feed[y].mac = feed[z].mac
    BY <1>2, <1>3, <2>1 DEF Makes
  <2> QED BY <2>2 DEF RegistryInv, OneMaker
<1> QED BY <1>1, <1>5, <1>6 DEF RegistryInv

LEMMA RowsOfTables ==
    ASSUME TablesOK
    PROVE  /\ DOMAIN devices = 1..Len(devices) /\ Len(devices) \in Nat
           /\ DOMAIN sources = 1..Len(sources) /\ Len(sources) \in Nat
           /\ \A d \in DOMAIN devices : d \in DeviceIds
<1>1. /\ devices \in Seq(Device) /\ Len(devices) <= MaxDevices
      /\ sources \in Seq(Names)
  BY DEF TablesOK
<1>2. /\ DOMAIN devices = 1..Len(devices) /\ Len(devices) \in Nat
      /\ DOMAIN sources = 1..Len(sources) /\ Len(sources) \in Nat
  BY <1>1
<1> QED BY <1>1, <1>2, RegistryAssumption DEF DeviceIds

\* A source that is registered: of its name it is the only one, or the name was
\* made across another request.
LEMMA SourcesAfter ==
    ASSUME TablesOK, NEW q, RequestOK(q), q.at = "commit",
           NewSource(q) => Len(sources) < MaxSources,
           sources' = IF NewSource(q) THEN Append(sources, q.name) ELSE sources,
           shared' = shared \cup {n \in {q.name} : NewSource(q) /\ q.over}
    PROVE  /\ sources' \in Seq(Names) /\ Len(sources') <= MaxSources
           /\ shared' \subseteq Names /\ SourcesOnce'
<1>1. q.name \in Names \cup {None} /\ q.over \in BOOLEAN
  BY FeedShape DEF RequestOK
<1>2. sources \in Seq(Names) /\ Len(sources) <= MaxSources /\ shared \subseteq Names /\ SourcesOnce
  BY DEF TablesOK
<1>3. CASE ~NewSource(q)
  BY <1>2, <1>3 DEF SourcesOnce
<1>4. CASE NewSource(q)
  <2>1. q.name \in Names /\ sources' = Append(sources, q.name)
    BY <1>1, <1>4 DEF NewSource
  <2>2. /\ sources' \in Seq(Names) /\ Len(sources') = Len(sources) + 1
        /\ Len(sources') <= MaxSources
    BY <1>2, <1>4, <2>1, RegistryAssumption
  <2>3. /\ DOMAIN sources' = 1..Len(sources) + 1 /\ DOMAIN sources = 1..Len(sources)
        /\ sources'[Len(sources) + 1] = q.name
        /\ \A s \in DOMAIN sources : sources'[s] = sources[s]
    BY <1>2, <2>1
  <2>4. Named(q.name) # {} => q.name \in shared'
    BY <1>4 DEF RequestOK
  <2>5. SourcesOnce'
    <3> SUFFICES ASSUME NEW s \in DOMAIN sources', NEW t \in DOMAIN sources',
                        sources'[s] = sources'[t], s # t
                 PROVE  sources'[s] \in shared'
      BY DEF SourcesOnce
    <3>1. CASE s \in DOMAIN sources /\ t \in DOMAIN sources
      BY <1>2, <2>3, <3>1 DEF SourcesOnce
    <3>2. CASE s = Len(sources) + 1 /\ t \in DOMAIN sources
      BY <2>3, <2>4, <3>2 DEF Named
    <3>3. CASE t = Len(sources) + 1 /\ s \in DOMAIN sources
      BY <2>3, <2>4, <3>3 DEF Named
    <3>4. Len(sources) \in Nat
      BY <1>2
    <3>5. \A x \in DOMAIN sources' : x = Len(sources) + 1 \/ x \in DOMAIN sources
      BY <2>3, <3>4
    <3> QED BY <3>1, <3>2, <3>3, <3>5
  <2> QED BY <1>1, <1>2, <2>1, <2>2, <2>5
<1> QED BY <1>3, <1>4

\* The devices after a commit: a new one has a MAC nobody has; the address of a
\* known one is written with it.
LEMMA DevicesAfter ==
    ASSUME TablesOK, NEW q, RequestOK(q), NEW d,
           d = IF q.make THEN Len(devices) + 1 ELSE q.dev, d <= MaxDevices,
           q.dev > 0 => ~devices[q.dev].gone,
           devices' = IF q.make THEN Append(devices, [mac |-> q.mac, ip |-> q.ip, gone |-> FALSE])
                      ELSE IF q.dev > 0 THEN [devices EXCEPT ![q.dev].ip = LastIp(q)]
                      ELSE devices,
           held' = [i \in Ips |-> IF i = q.ip /\ d > 0 THEN held[i] \cup {d} ELSE held[i]]
    PROVE  /\ devices' \in Seq(Device) /\ Len(devices') <= MaxDevices
           /\ held' \in [Ips -> SUBSET DeviceIds] /\ MacsOnce' /\ HeldByIp'
           /\ DOMAIN devices \subseteq DOMAIN devices'
           /\ \A m \in Macs : m # None /\ ByMac(m) = {} /\ ByMac(m)' # {} => Makes(q) /\ q.mac = m
<1>0. /\ q \in Feed /\ q.mac \in Macs \cup {None} /\ q.ip \in Ips \cup {None} /\ q.dev \in 0..MaxDevices
      /\ q.make \in BOOLEAN
  BY FeedShape DEF RequestOK
<1>1. /\ devices \in Seq(Device) /\ Len(devices) <= MaxDevices
      /\ held \in [Ips -> SUBSET DeviceIds] /\ MacsOnce /\ HeldByIp
  BY DEF TablesOK
<1>2. DOMAIN devices = 1..Len(devices) /\ Len(devices) \in Nat
  BY RowsOfTables
<1>3. d \in 0..MaxDevices
  BY <1>0, <1>2, RegistryAssumption
<1>4. held' \in [Ips -> SUBSET DeviceIds]
  <2>1. d > 0 => d \in DeviceIds
    BY <1>3, RegistryAssumption DEF DeviceIds
  <2> QED BY <1>1, <2>1
<1>5. \A i \in Ips : held[i] \subseteq held'[i]
  OBVIOUS
<1>6. q.ip # None /\ d > 0 => q.ip \in Ips /\ d \in held'[q.ip]
  BY <1>0
<1>7. CASE q.make
  <2> DEFINE new == [mac |-> q.mac, ip |-> q.ip, gone |-> FALSE]
  <2>1. new \in Device /\ new.mac = q.mac /\ new.ip = q.ip /\ ~new.gone
    BY <1>0 DEF Device
  <2>2. devices' = Append(devices, new) /\ d = Len(devices) + 1 /\ d > 0
    BY <1>2, <1>7
  <2> HIDE DEF new
  <2>3. devices' \in Seq(Device) /\ Len(devices') = d
    BY <1>1, <2>1, <2>2
  <2>9. DOMAIN devices' = 1..d /\ devices'[d] = new
    BY <1>1, <2>1, <2>2
  <2>10. \A e \in 1..Len(devices) : devices'[e] = devices[e]
    BY <1>1, <2>1, <2>2
  <2>4. /\ DOMAIN devices' = 1..d /\ devices'[d] = new
        /\ \A e \in DOMAIN devices : e \in DOMAIN devices' /\ devices'[e] = devices[e]
        /\ \A e \in DOMAIN devices' : e = d \/ e \in DOMAIN devices
    <3>1. PICK n \in Nat : n = Len(devices)
      BY <1>2
    <3>2. 1..n \subseteq 1..n + 1 /\ \A e \in 1..n + 1 : e = n + 1 \/ e \in 1..n
      OBVIOUS
    <3>3. DOMAIN devices = 1..n /\ DOMAIN devices' = 1..n + 1 /\ d = n + 1
      BY <1>2, <2>2, <2>9, <3>1
    <3> QED BY <2>9, <2>10, <3>1, <3>2, <3>3, Zenon
  <2>5. q.mac # None => ByMac(q.mac) = {}
    BY <1>7 DEF RequestOK
  <2>6. MacsOnce'
    <3> SUFFICES ASSUME NEW x \in Alive', NEW y \in Alive', devices'[x].mac = devices'[y].mac,
                        devices'[x].mac # None
                 PROVE  x = y
      BY DEF MacsOnce
    <3>1. x \in DOMAIN devices' /\ y \in DOMAIN devices' /\ ~devices'[x].gone /\ ~devices'[y].gone
      BY DEF Alive
    <3>2. CASE x = d /\ y \in DOMAIN devices
      BY <2>1, <2>4, <2>5, <3>1, <3>2 DEF ByMac, Alive
    <3>3. CASE y = d /\ x \in DOMAIN devices
      BY <2>1, <2>4, <2>5, <3>1, <3>3 DEF ByMac, Alive
    <3>4. CASE x \in DOMAIN devices /\ y \in DOMAIN devices
      BY <1>1, <2>4, <3>1, <3>4 DEF MacsOnce, Alive
    <3> QED BY <2>4, <3>1, <3>2, <3>3, <3>4
  <2>7. HeldByIp'
    <3> SUFFICES ASSUME NEW x \in DOMAIN devices', devices'[x].ip # None
                 PROVE  x \in held'[devices'[x].ip]
      BY DEF HeldByIp
    <3>1. CASE x = d
      BY <1>6, <2>1, <2>2, <2>4, <3>1
    <3>2. CASE x \in DOMAIN devices
      <4>1. devices[x].ip \in Ips /\ x \in held[devices[x].ip]
        BY <1>1, <2>4, <3>2, DeviceShape DEF HeldByIp
      <4> QED BY <1>5, <2>4, <3>2, <4>1
    <3> QED BY <2>4, <3>1, <3>2
  <2>8. \A m \in Macs : m # None /\ ByMac(m) = {} /\ ByMac(m)' # {} => Makes(q) /\ q.mac = m
    <3> SUFFICES ASSUME NEW m \in Macs, m # None, ByMac(m) = {}, ByMac(m)' # {}
                 PROVE  Makes(q) /\ q.mac = m
      OBVIOUS
    <3>1. PICK x : x \in ByMac(m)'
      OBVIOUS
    <3>2. x \in DOMAIN devices' /\ ~devices'[x].gone /\ devices'[x].mac = m
      BY <3>1 DEF ByMac, Alive
    <3>3. x = d
      BY <2>4, <3>2 DEF ByMac, Alive
    <3>4. q # Still
      BY <1>0, StillShape
    <3> QED BY <1>7, <2>1, <2>4, <3>2, <3>3, <3>4 DEF Makes
  <2> QED BY <1>4, <2>3, <2>4, <2>6, <2>7, <2>8
<1>8. CASE ~q.make
  <2>1. d = q.dev
    BY <1>8
  <2>2. /\ devices' \in Seq(Device) /\ DOMAIN devices' = DOMAIN devices /\ Len(devices') = Len(devices)
        /\ \A e \in DOMAIN devices : /\ devices'[e].mac = devices[e].mac
                                     /\ devices'[e].gone = devices[e].gone
                                     /\ devices'[e].ip = devices[e].ip
                                        \/ (e = d /\ d > 0 /\ devices'[e].ip = q.ip /\ q.ip # None)
    <3>1. CASE q.dev > 0
      <4>1. q.dev \in DOMAIN devices
        BY <3>1 DEF RequestOK
      <4>2. devices' = [devices EXCEPT ![q.dev].ip = LastIp(q)]
        BY <1>8, <3>1
      <4>3. devices[q.dev] \in Device /\ devices[q.dev].ip \in Ips \cup {None}
        BY <1>1, <4>1, DeviceShape
      <4>4. \/ LastIp(q) = devices[q.dev].ip
            \/ LastIp(q) = q.ip /\ q.ip # None
        BY DEF LastIp
      <4>5. PICK ip \in Ips \cup {None} : ip = LastIp(q)
        BY <1>0, <4>3, <4>4
      <4>6. PICK row \in Device : row = [devices[q.dev] EXCEPT !.ip = ip]
        BY <4>3, <4>5 DEF Device
      <4>7. /\ row.mac = devices[q.dev].mac /\ row.gone = devices[q.dev].gone /\ row.ip = ip
        BY <4>3, <4>6 DEF Device
      <4>8. devices' = [devices EXCEPT ![q.dev] = row]
        BY <4>2, <4>5, <4>6
      <4>9. devices' \in Seq(Device) /\ DOMAIN devices' = DOMAIN devices /\ Len(devices') = Len(devices)
        BY <1>1, <4>1, <4>8
      <4> QED BY <2>1, <3>1, <4>1, <4>4, <4>5, <4>7, <4>8, <4>9
    <3>2. CASE ~(q.dev > 0)
      BY <1>1, <1>8, <3>2
    <3> QED BY <3>1, <3>2
  <2>3. Alive' = Alive /\ \A m \in Macs : ByMac(m)' = ByMac(m)
    BY <2>2 DEF Alive, ByMac
  <2>4. MacsOnce'
    BY <1>1, <2>2, <2>3 DEF MacsOnce, Alive
  <2>5. HeldByIp'
    <3> SUFFICES ASSUME NEW x \in DOMAIN devices, devices'[x].ip # None
                 PROVE  x \in held'[devices'[x].ip]
      BY <2>2 DEF HeldByIp
    <3>1. CASE devices'[x].ip = devices[x].ip
      <4>1. devices[x].ip \in Ips /\ x \in held[devices[x].ip]
        BY <1>1, <3>1, DeviceShape DEF HeldByIp
      <4> QED BY <1>5, <3>1, <4>1
    <3>2. CASE x = d /\ d > 0 /\ devices'[x].ip = q.ip /\ q.ip # None
      BY <1>6, <3>2
    <3> QED BY <2>2, <3>1, <3>2
  <2> QED BY <1>1, <1>4, <2>2, <2>3, <2>4, <2>5
<1> QED BY <1>0, <1>7, <1>8

LEMMA CommitFeedKeeps ==
    ASSUME RegistryInv, NEW r \in Feeders, CommitFeed(r) PROVE RegistryInv'
<1>1. PICK q : q = feed[r]
  OBVIOUS
<1>2. PICK d : d = IF q.make THEN Len(devices) + 1 ELSE q.dev
  OBVIOUS
<1>3. /\ q.at = "commit" /\ d <= MaxDevices
      /\ q.dev > 0 => ~devices[q.dev].gone
      /\ NewSource(q) => Len(sources) < MaxSources
      /\ devices' = IF q.make THEN Append(devices, [mac |-> q.mac, ip |-> q.ip, gone |-> FALSE])
                    ELSE IF q.dev > 0 THEN [devices EXCEPT ![q.dev].ip = LastIp(q)]
                    ELSE devices
      /\ sources' = IF NewSource(q) THEN Append(sources, q.name) ELSE sources
      /\ held' = [i \in Ips |-> IF i = q.ip /\ d > 0 THEN held[i] \cup {d} ELSE held[i]]
      /\ shared' = shared \cup {n \in {q.name} : NewSource(q) /\ q.over}
      /\ feed' = Marks(r, Still)
  BY <1>1, <1>2 DEF CommitFeed
<1>4. RequestOK(q)
  BY <1>1, <1>3, StillShape DEF RegistryInv, RequestsOK
<1>5. TablesOK
  BY DEF RegistryInv
<1>6. /\ sources' \in Seq(Names) /\ Len(sources') <= MaxSources
      /\ shared' \subseteq Names /\ SourcesOnce'
  BY <1>3, <1>4, <1>5, SourcesAfter
<1>7. /\ devices' \in Seq(Device) /\ Len(devices') <= MaxDevices
      /\ held' \in [Ips -> SUBSET DeviceIds] /\ MacsOnce' /\ HeldByIp'
      /\ DOMAIN devices \subseteq DOMAIN devices'
      /\ \A m \in Macs : m # None /\ ByMac(m) = {} /\ ByMac(m)' # {} => Makes(q) /\ q.mac = m
  BY <1>2, <1>3, <1>4, <1>5, DevicesAfter
<1>8. TablesOK'
  BY <1>6, <1>7 DEF TablesOK
<1> QED BY <1>1, <1>3, <1>7, <1>8, MarksKeep

\* An analyst deletes a device, or renames a source.
LEMMA AnalystKeeps == ASSUME RegistryInv, RemoveDevice \/ RenameSource PROVE RegistryInv'
<1>0. TablesOK /\ devices \in Seq(Device) /\ sources \in Seq(Names)
  BY DEF RegistryInv, TablesOK
<1>1. CASE RemoveDevice
  <2>1. PICK d \in Alive : devices' = [devices EXCEPT ![d] = Deleted]
    BY <1>1 DEF RemoveDevice
  <2>2. d \in DOMAIN devices /\ Deleted \in Device /\ Deleted.ip = None /\ Deleted.gone
    BY DEF Alive, Deleted, Device
  <2>3. devices' \in Seq(Device) /\ DOMAIN devices' = DOMAIN devices /\ Len(devices') = Len(devices)
    BY <1>0, <2>1, <2>2
  <2>4. \A e \in DOMAIN devices : devices'[e] = IF e = d THEN Deleted ELSE devices[e]
    BY <1>0, <2>1, <2>2
  <2>5. feed' = Marks(None, Still) /\ UNCHANGED <<sources, held, shared>>
    BY <1>1 DEF RemoveDevice
  <2>6. Alive' \subseteq Alive /\ \A e \in Alive' : devices'[e] = devices[e]
    BY <2>2, <2>3, <2>4 DEF Alive
  <2>7. MacsOnce'
    BY <1>0, <2>6 DEF TablesOK, MacsOnce
  <2>8. HeldByIp'
    BY <1>0, <2>2, <2>3, <2>4, <2>5 DEF TablesOK, HeldByIp
  <2>9. SourcesOnce' /\ TablesOK'
    BY <1>0, <2>3, <2>5, <2>7, <2>8 DEF TablesOK, SourcesOnce
  <2>10. \A m \in Macs : ByMac(m)' \subseteq ByMac(m)
    BY <2>6 DEF ByMac
  <2>11. DOMAIN devices \subseteq DOMAIN devices'
    BY <2>3
  <2> QED BY <2>5, <2>9, <2>10, <2>11, MarksKeep
<1>2. CASE RenameSource
  <2>1. PICK s \in DOMAIN sources, n \in Names :
          sources' = [sources EXCEPT ![s] = n] /\ shared' = shared \cup {n}
    BY <1>2 DEF RenameSource
  <2>2. sources' \in Seq(Names) /\ DOMAIN sources' = DOMAIN sources /\ Len(sources') = Len(sources)
    BY <1>0, <2>1
  <2>3. \A t \in DOMAIN sources : sources'[t] = IF t = s THEN n ELSE sources[t]
    BY <1>0, <2>1
  <2>4. feed' = Marks(None, Still) /\ UNCHANGED <<devices, held>>
    BY <1>2 DEF RenameSource
  <2>5. SourcesOnce'
    BY <1>0, <2>1, <2>2, <2>3 DEF TablesOK, SourcesOnce
  <2>6. MacsOnce' /\ HeldByIp'
    BY <1>0, <2>4 DEF TablesOK, MacsOnce, HeldByIp, Alive
  <2>7. TablesOK'
    BY <1>0, <2>1, <2>2, <2>4, <2>5, <2>6 DEF TablesOK
  <2>8. \A m \in Macs : ByMac(m)' = ByMac(m)
    BY <2>4 DEF ByMac, Alive
  <2> QED BY <2>4, <2>7, <2>8, MarksKeep
<1> QED BY <1>1, <1>2

LEMMA RegistryNextInv == RegistryInv /\ [RegistryNext]_registryVars => RegistryInv'
<1> SUFFICES ASSUME RegistryInv, [RegistryNext]_registryVars PROVE RegistryInv'
  OBVIOUS
<1>1. CASE UNCHANGED registryVars
  <2>1. UNCHANGED <<devices, sources, feed, held, shared>>
    BY <1>1 DEF registryVars
  <2>2. TablesOK'
    BY <2>1 DEF RegistryInv, TablesOK, MacsOnce, HeldByIp, SourcesOnce, Alive
  <2>3. ASSUME NEW q, RequestOK(q) PROVE RequestOK(q)'
    BY <2>1, <2>3 DEF RequestOK, ByMac, Alive, Named
  <2>4. RequestsOK'
    BY <2>1, <2>3 DEF RegistryInv, RequestsOK
  <2>5. OneMaker'
    BY <2>1 DEF RegistryInv, OneMaker
  <2> QED BY <2>1, <2>2, <2>4, <2>5 DEF RegistryInv
<1>2. ASSUME NEW r \in Feeders,
             BeginFeed(r) \/ FindDevice(r) \/ InsertDevice(r) \/ FindSource(r)
               \/ CommitFeed(r) \/ CommitStale(r) \/ FeedEnds(r)
      PROVE  RegistryInv'
  BY <1>2, LookupKeeps, CommitFeedKeeps
<1> QED BY <1>1, <1>2, AnalystKeeps DEF RegistryNext

THEOREM RegistryTypeCorrect == RegistrySpec => []RegistryTypeOK
<1>1. RegistryInv => RegistryTypeOK
  BY DEF RegistryInv, RegistryTypeOK, TablesOK, RequestsOK, RequestOK
<1> QED BY <1>1, RegistryInit0, RegistryNextInv, PTL DEF RegistrySpec

\* Whatever requests register as they go, one that runs alone is stored, unless
\* its address was that of two devices or its source's name is on two rows.
THEOREM LoneBatchesStoredThm == RegistrySpec => []LoneBatchesStored
<1>1. RegistryInv => LoneBatchesStored
  BY StillShape DEF RegistryInv, LoneBatchesStored, RequestsOK, RequestOK
<1> QED BY <1>1, RegistryInit0, RegistryNextInv, PTL DEF RegistrySpec
\* R says of any two of S which comes before the other.
Orders(R, S) ==
    /\ \A i \in S : <<i, i>> \notin R
    /\ \A i, j \in S : i = j \/ <<i, j>> \in R \/ <<j, i>> \in R
    /\ \A i, j, k \in S : <<i, j>> \in R /\ <<j, k>> \in R => <<i, k>> \in R
\* How many of S come before i.
Ahead(S, R, i) == Cardinality({j \in S : <<j, i>> \in R})

\* The earlier of two has fewer before it.
LEMMA AheadGrows ==
    ASSUME NEW S, NEW R, IsFiniteSet(S), Orders(R, S), NEW i \in S
    PROVE  /\ Ahead(S, R, i) \in Nat /\ Ahead(S, R, i) < Cardinality(S)
           /\ \A j \in S : <<j, i>> \in R <=> Ahead(S, R, j) < Ahead(S, R, i)
<1>1. ASSUME NEW a \in S
      PROVE  /\ IsFiniteSet({x \in S : <<x, a>> \in R}) /\ Ahead(S, R, a) \in Nat
             /\ Ahead(S, R, a) < Cardinality(S)
  <2> DEFINE before == {x \in S : <<x, a>> \in R}
  <2>1. before \in SUBSET S /\ a \notin before
    BY DEF Orders
  <2> HIDE DEF before
  <2>2. /\ IsFiniteSet(before) /\ Cardinality(before) <= Cardinality(S)
        /\ Cardinality(before) # Cardinality(S)
    BY <2>1, FS_Subset
  <2>3. Cardinality(before) \in Nat /\ Cardinality(S) \in Nat
    BY <2>2, FS_CardinalityType
  <2> QED BY <2>2, <2>3 DEF before, Ahead
<1>2. ASSUME NEW a \in S, NEW b \in S, <<a, b>> \in R PROVE Ahead(S, R, a) < Ahead(S, R, b)
  <2> DEFINE more == {x \in S : <<x, b>> \in R}
             less == {x \in S : <<x, a>> \in R}
  <2>1. less \in SUBSET more /\ a \in more /\ a \notin less
    BY <1>2 DEF Orders
  <2>2. IsFiniteSet(more) /\ Cardinality(more) \in Nat /\ Cardinality(less) \in Nat
    BY <1>1, FS_CardinalityType DEF Ahead
  <2> HIDE DEF more, less
  <2>3. Cardinality(less) <= Cardinality(more) /\ Cardinality(less) # Cardinality(more)
    BY <2>1, <2>2, FS_Subset
  <2> QED BY <2>2, <2>3 DEF more, less, Ahead
<1>3. Ahead(S, R, i) \in Nat /\ Ahead(S, R, i) < Cardinality(S)
  BY <1>1
<1>4. ASSUME NEW j \in S PROVE <<j, i>> \in R <=> Ahead(S, R, j) < Ahead(S, R, i)
  <2>1. Ahead(S, R, i) \in Nat /\ Ahead(S, R, j) \in Nat
    BY <1>1
  <2>2. <<i, j>> \in R \/ <<j, i>> \in R \/ i = j
    BY DEF Orders
  <2>3. i = j => <<j, i>> \notin R
    BY DEF Orders
  <2> QED BY <1>2, <2>1, <2>2, <2>3
<1> QED BY <1>3, <1>4

\* There is one for each number of earlier ones.
LEMMA PlaceExists ==
    ASSUME NEW S, NEW R, IsFiniteSet(S), Orders(R, S), NEW k \in 0..(Cardinality(S) - 1)
    PROVE  \E i \in S : Ahead(S, R, i) = k
<1> DEFINE n == Cardinality(S)
           T == 0..(n - 1)
           place == [i \in S |-> Ahead(S, R, i)]
<1>1. n \in Nat
  BY FS_CardinalityType
<1>2. IsFiniteSet(T) /\ Cardinality(T) = n
  <2>1. 0 \in Int /\ n - 1 \in Int
    BY <1>1
  <2>2. IsFiniteSet(T) /\ Cardinality(T) = IF 0 > n - 1 THEN 0 ELSE n - 1 - 0 + 1
    BY <2>1, FS_Interval
  <2> HIDE DEF T
  <2> QED BY <1>1, <2>2
<1>3. place \in Injection(S, T)
  <2>1. place \in [S -> T]
    <3>1. ASSUME NEW a \in S PROVE Ahead(S, R, a) \in T
      <4>1. Ahead(S, R, a) \in Nat /\ Ahead(S, R, a) < Cardinality(S)
        BY AheadGrows
      <4> QED BY <1>1, <4>1
    <3> QED BY <3>1
  <2>2. ASSUME NEW a \in S, NEW b \in S, place[a] = place[b] PROVE a = b
    <3>1. Ahead(S, R, a) = Ahead(S, R, b) /\ Ahead(S, R, a) \in Nat
      BY <2>2, AheadGrows
    <3>2. (<<a, b>> \in R <=> Ahead(S, R, a) < Ahead(S, R, b))
          /\ (<<b, a>> \in R <=> Ahead(S, R, b) < Ahead(S, R, a))
      BY AheadGrows
    <3>3. a = b \/ <<a, b>> \in R \/ <<b, a>> \in R
      BY DEF Orders
    <3> QED BY <3>1, <3>2, <3>3
  <2> HIDE DEF T
  <2> QED BY <2>1, <2>2 DEF Injection, IsInjective
<1> HIDE DEF T, n
<1>4. place \in Surjection(S, T)
  <2>1. Cardinality(S) = Cardinality(T)
    BY <1>2 DEF n
  <2> QED BY ONLY <1>2, <1>3, <2>1, FS_Injection
<1> HIDE DEF place
<1>5. PICK i \in S : place[i] = k
  BY <1>4 DEF Surjection, T, n
<1> QED BY <1>5 DEF place

(********************************* search *********************************)
\* How many of a set of numbers are greater.
Newer(S, i) == Cardinality({j \in S : j > i})
Later(S) == {x \in S \X S : x[1] > x[2]}

LEMMA NewerIsAhead ==
    ASSUME NEW S, S \subseteq Nat
    PROVE  /\ Orders(Later(S), S)
           /\ \A i \in S : Ahead(S, Later(S), i) = Newer(S, i)
<1>1. \A i, j \in S : i \in Nat /\ (<<i, j>> \in Later(S) <=> i > j)
  BY DEF Later
<1>2. Orders(Later(S), S)
  BY <1>1 DEF Orders
<1>3. ASSUME NEW i \in S PROVE Ahead(S, Later(S), i) = Newer(S, i)
  <2>1. {j \in S : <<j, i>> \in Later(S)} = {j \in S : j > i}
    BY <1>1
  <2> QED BY <2>1 DEF Ahead, Newer
<1> QED BY <1>2, <1>3

\* The greater of two has fewer above it.
LEMMA NewerFalls ==
    ASSUME NEW S, S \subseteq Nat, IsFiniteSet(S), NEW i \in S
    PROVE  /\ Newer(S, i) \in Nat /\ Newer(S, i) < Cardinality(S)
           /\ \A j \in S : i < j <=> Newer(S, j) < Newer(S, i)
<1>1. /\ Newer(S, i) \in Nat /\ Newer(S, i) < Cardinality(S)
      /\ \A j \in S : <<j, i>> \in Later(S) <=> Newer(S, j) < Newer(S, i)
  BY NewerIsAhead, AheadGrows
<1>2. \A j \in S : <<j, i>> \in Later(S) <=> i < j
  BY DEF Later
<1> QED BY <1>1, <1>2

\* There is one for each number of greater ones.
LEMMA RankExists ==
    ASSUME NEW S, S \subseteq Nat, IsFiniteSet(S), NEW k \in 0..(Cardinality(S) - 1)
    PROVE  \E i \in S : Newer(S, i) = k
<1>1. PICK i \in S : Ahead(S, Later(S), i) = k
  BY NewerIsAhead, PlaceExists
<1> QED BY <1>1, NewerIsAhead

\* The newest of the events that match, up to the limit, and no other.
LEMMA ListedAre ==
    ASSUME NEW q, rowsStored \in Seq(Row)
    PROVE  /\ IsFiniteSet(Matching(q)) /\ Matching(q) \subseteq 1..Len(rowsStored)
           /\ Listed(q) \in Seq(Matching(q)) /\ Len(Listed(q)) <= PageSize
           /\ \A k, l \in DOMAIN Listed(q) : k < l => Listed(q)[k] > Listed(q)[l]
           /\ \A n \in Matching(q) \ {Listed(q)[k] : k \in DOMAIN Listed(q)} :
                Len(Listed(q)) = PageSize /\ \A k \in DOMAIN Listed(q) : n < Listed(q)[k]
<1> DEFINE S == Matching(q)
           size == IF Cardinality(S) < PageSize THEN Cardinality(S) ELSE PageSize
           at(k) == CHOOSE i \in S : Newer(S, i) = k - 1
<1>1. Listed(q) = [k \in 1..size |-> at(k)]
  BY DEF Listed, Newer
<1>2. S \subseteq 1..Len(rowsStored) /\ S \subseteq Nat /\ IsFiniteSet(S) /\ PageSize \in Nat
  <2> DEFINE R == Row
  <2>1. rowsStored \in Seq(R)
    OBVIOUS
  <2> HIDE DEF R
  <2>2. Len(rowsStored) \in Nat /\ DOMAIN rowsStored = 1..Len(rowsStored)
    BY <2>1
  <2>3. S \subseteq 1..Len(rowsStored)
    BY <2>2 DEF Matching
  <2>4. IsFiniteSet(1..Len(rowsStored))
    BY <2>2, FS_Interval
  <2> HIDE DEF S
  <2>5. IsFiniteSet(S)
    BY <2>3, <2>4, FS_Subset
  <2>6. S \subseteq Nat
    BY <2>2, <2>3
  <2> QED BY <2>3, <2>5, <2>6, SearchAssumption
<1> HIDE DEF S
<1>3. Cardinality(S) \in Nat
  BY <1>2, FS_CardinalityType
<1>4. size \in Nat /\ size <= PageSize /\ size <= Cardinality(S)
      /\ (size < PageSize => size = Cardinality(S))
  BY <1>2, <1>3
<1> HIDE DEF size
<1>5. ASSUME NEW k \in 1..size PROVE at(k) \in S /\ Newer(S, at(k)) = k - 1
  <2>1. k - 1 \in 0..(Cardinality(S) - 1)
    BY <1>3, <1>4
  <2>2. \E i \in S : Newer(S, i) = k - 1
    BY <1>2, <2>1, RankExists
  <2> QED BY <2>2
<1> HIDE DEF at
<1>6. Listed(q) \in Seq(S) /\ Len(Listed(q)) = size /\ DOMAIN Listed(q) = 1..size
      /\ \A k \in 1..size : Listed(q)[k] = at(k)
  BY <1>1, <1>4, <1>5
<1>7. ASSUME NEW k \in 1..size, NEW l \in 1..size, k < l PROVE at(k) > at(l)
  <2>1. at(l) < at(k) <=> Newer(S, at(k)) < Newer(S, at(l))
    BY <1>2, <1>5, NewerFalls
  <2>2. at(k) \in Nat /\ at(l) \in Nat
    BY <1>2, <1>5
  <2> QED BY <1>5, <1>7, <2>1, <2>2
<1>8. ASSUME NEW n \in S, \A k \in 1..size : n # at(k)
      PROVE  size = PageSize /\ \A k \in 1..size : n < at(k)
  <2>1. Newer(S, n) \in Nat /\ Newer(S, n) < Cardinality(S)
    BY <1>2, <1>8, NewerFalls
  <2>2. ~(Newer(S, n) < size)
    <3>1. SUFFICES ASSUME Newer(S, n) < size PROVE FALSE
      OBVIOUS
    <3>2. PICK k \in 1..size : k = Newer(S, n) + 1
      BY <1>4, <2>1, <3>1
    <3>3. Newer(S, at(k)) = Newer(S, n) /\ at(k) \in S
      BY <1>5, <2>1, <3>2
    <3>4. at(k) \in Nat /\ n \in Nat /\ Newer(S, n) \in Nat
      BY <1>2, <2>1, <3>3
    <3>5. (n < at(k) <=> Newer(S, at(k)) < Newer(S, n)) /\ (at(k) < n <=> Newer(S, n) < Newer(S, at(k)))
      BY <1>2, <3>3, NewerFalls
    <3> QED BY <1>8, <3>3, <3>4, <3>5
  <2>3. size = PageSize
    BY <1>2, <1>3, <1>4, <2>1, <2>2
  <2>4. ASSUME NEW k \in 1..size PROVE n < at(k)
    <3>1. Newer(S, at(k)) < Newer(S, n)
      BY <1>4, <1>5, <2>1, <2>2
    <3> QED BY <1>2, <1>5, <3>1, NewerFalls
  <2> QED BY <2>3, <2>4
<1>9. \A n \in S \ {Listed(q)[k] : k \in DOMAIN Listed(q)} :
        Len(Listed(q)) = PageSize /\ \A k \in DOMAIN Listed(q) : n < Listed(q)[k]
  BY <1>6, <1>8
<1>10. \A k, l \in DOMAIN Listed(q) : k < l => Listed(q)[k] > Listed(q)[l]
  BY <1>6, <1>7
<1> QED BY <1>2, <1>4, <1>6, <1>9, <1>10 DEF S

TextTerm(t) ==
    /\ t.is \in {"word", "field", "has", "after", "before"} /\ t.neg \in BOOLEAN
    /\ t.value # Null

LEMMA TextIs ==
    ASSUME NEW text \in Texts
    PROVE  /\ \E n \in Nat : DOMAIN text = 1..n
           /\ \A i \in DOMAIN text : TextTerm(text[i])
<1>1. PICK n \in 0..MaxTerms : text \in [1..n -> Terms]
  BY DEF Texts
<1>2. \A t \in Terms : TextTerm(t)
  BY SearchAssumption DEF TextTerm
<1>3. n \in Nat
  BY <1>1, SearchAssumption
<1> QED BY <1>1, <1>2, <1>3

\* The times of a text that say anything, and the last of them.
Given(text, key) == {i \in DOMAIN text : text[i].is = key /\ text[i].value \in DOMAIN Moment}

LEMMA LastTimeIs ==
    ASSUME NEW text \in Texts, NEW key
    PROVE  \/ Given(text, key) = {} /\ LastTime(text, key) = {}
           \/ \E i \in Given(text, key) :
                /\ \A j \in Given(text, key) : j <= i
                /\ LastTime(text, key) = {Moment[text[i].value]}
<1> DEFINE S == Given(text, key)
           latest == CHOOSE i \in S : \A j \in S : j <= i
<1>1. LastTime(text, key) = IF S = {} THEN {} ELSE {Moment[text[latest].value]}
  BY DEF LastTime, Given
<1>2. PICK n \in Nat : DOMAIN text = 1..n
  BY TextIs
<1>3. S \subseteq 1..n
  BY <1>2 DEF Given
<1> HIDE DEF S
<1>4. S \subseteq Nat /\ IsFiniteSet(S)
  <2>1. IsFiniteSet(1..n)
    BY FS_Interval
  <2>2. IsFiniteSet(S)
    BY <1>3, <2>1, FS_Subset
  <2> QED BY <1>3, <2>2
<1>5. CASE S = {}
  BY <1>1, <1>5 DEF S
<1>6. CASE S # {}
  <2>1. Cardinality(S) \in Nat /\ Cardinality(S) # 0
    BY <1>4, <1>6, FS_CardinalityType, FS_EmptySet
  <2>2. 0 \in 0..(Cardinality(S) - 1)
    BY <2>1
  <2>3. PICK i \in S : Newer(S, i) = 0
    BY <1>4, <2>2, RankExists
  <2>4. ASSUME NEW j \in S PROVE j <= i
    <3>1. i < j <=> Newer(S, j) < Newer(S, i)
      BY <1>4, NewerFalls
    <3>2. Newer(S, j) \in Nat
      BY <1>4, NewerFalls
    <3> QED BY <1>4, <2>3, <3>1, <3>2
  <2>5. latest \in S /\ \A j \in S : j <= latest
    BY <2>4
  <2> HIDE DEF latest
  <2> QED BY <1>1, <1>6, <2>5 DEF S
<1> QED BY <1>5, <1>6

LEMMA TimesAreMet ==
    ASSUME NEW text \in Texts, NEW e, NegatedSpecial(text) = {}
    PROVE  /\ (\A t \in LastTime(text, "after") : t <= e.at)
                <=> \A i \in DOMAIN text : text[i].is = "after" => Meets(e, text, i)
           /\ (\A t \in LastTime(text, "before") : e.at <= t)
                <=> \A i \in DOMAIN text : text[i].is = "before" => Meets(e, text, i)
<1> DEFINE overruled(i) == \E j \in DOMAIN text : /\ j > i /\ text[j].is = text[i].is
                                                  /\ text[j].value \in DOMAIN Moment
<1>1. \A i \in DOMAIN text : i \in Nat
  BY TextIs
<1>2. /\ \A i \in DOMAIN text : text[i].is = "after" =>
            (Meets(e, text, i) <=>
              (text[i].value \in DOMAIN Moment /\ ~overruled(i) => Moment[text[i].value] <= e.at))
      /\ \A i \in DOMAIN text : text[i].is = "before" =>
            (Meets(e, text, i) <=>
              (text[i].value \in DOMAIN Moment /\ ~overruled(i) => e.at <= Moment[text[i].value]))
  <2>1. \A i \in DOMAIN text : text[i].is \in {"after", "before"} => ~text[i].neg
    BY DEF NegatedSpecial
  <2>2. \A i \in DOMAIN text : text[i].neg \in BOOLEAN
    BY TextIs DEF TextTerm
  <2>3. \A i \in DOMAIN text : text[i].is = "after" =>
          (Meets(e, text, i) <=>
            (text[i].value \in DOMAIN Moment /\ ~overruled(i)
              => (Moment[text[i].value] <= e.at) # text[i].neg))
    BY DEF Meets
  <2>4. \A i \in DOMAIN text : text[i].is = "before" =>
          (Meets(e, text, i) <=>
            (text[i].value \in DOMAIN Moment /\ ~overruled(i)
              => (e.at <= Moment[text[i].value]) # text[i].neg))
    BY DEF Meets
  <2> HIDE DEF overruled
  <2> QED BY <2>1, <2>2, <2>3, <2>4
<1>3. ASSUME NEW key, NEW i \in DOMAIN text, text[i].is = key
      PROVE  (text[i].value \in DOMAIN Moment /\ ~overruled(i)) <=>
               i \in Given(text, key) /\ \A j \in Given(text, key) : j <= i
  <2>1. \A j \in DOMAIN text : j > i <=> ~(j <= i)
    BY <1>1
  <2> QED BY <1>3, <2>1 DEF Given
<1>4. ASSUME NEW key, NEW i \in Given(text, key), NEW k \in Given(text, key),
             \A j \in Given(text, key) : j <= i, \A j \in Given(text, key) : j <= k
      PROVE  i = k
  BY <1>1, <1>4 DEF Given
<1>5. \A key : \A i \in Given(text, key) : i \in DOMAIN text /\ text[i].is = key
  BY DEF Given
<1> HIDE DEF overruled
<1>6. (\A t \in LastTime(text, "after") : t <= e.at)
        <=> \A i \in DOMAIN text : text[i].is = "after" => Meets(e, text, i)
  <2>1. CASE Given(text, "after") = {} /\ LastTime(text, "after") = {}
    BY <1>2, <1>3, <2>1
  <2>2. CASE \E i \in Given(text, "after") : /\ \A j \in Given(text, "after") : j <= i
                                             /\ LastTime(text, "after") = {Moment[text[i].value]}
    <3>1. PICK i \in Given(text, "after") : /\ \A j \in Given(text, "after") : j <= i
                                            /\ LastTime(text, "after") = {Moment[text[i].value]}
      BY <2>2
    <3>2. \A k \in DOMAIN text : text[k].is = "after" =>
            (text[k].value \in DOMAIN Moment /\ ~overruled(k) <=> k = i)
      BY <1>3, <1>4, <3>1
    <3> QED BY <1>2, <1>5, <3>1, <3>2
  <2> QED BY <2>1, <2>2, LastTimeIs
<1>7. (\A t \in LastTime(text, "before") : e.at <= t)
        <=> \A i \in DOMAIN text : text[i].is = "before" => Meets(e, text, i)
  <2>1. CASE Given(text, "before") = {} /\ LastTime(text, "before") = {}
    BY <1>2, <1>3, <2>1
  <2>2. CASE \E i \in Given(text, "before") : /\ \A j \in Given(text, "before") : j <= i
                                              /\ LastTime(text, "before") = {Moment[text[i].value]}
    <3>1. PICK i \in Given(text, "before") : /\ \A j \in Given(text, "before") : j <= i
                                             /\ LastTime(text, "before") = {Moment[text[i].value]}
      BY <2>2
    <3>2. \A k \in DOMAIN text : text[k].is = "before" =>
            (text[k].value \in DOMAIN Moment /\ ~overruled(k) <=> k = i)
      BY <1>3, <1>4, <3>1
    <3> QED BY <1>2, <1>5, <3>1, <3>2
  <2> QED BY <2>1, <2>2, LastTimeIs
<1> QED BY <1>6, <1>7

\* A row, and the name of its device, if it has one.
RowIs(e) ==
    e.host = {} \/ \E h \in Hosts : e.host = {h} /\ h.name # Null

LEMMA RowShape ==
    ASSUME NEW e \in Row PROVE RowIs(e)
<1>1. PICK a \in Arriving : \E d \in SUBSET a.host : e = [a EXCEPT !.host = d]
  BY DEF Row
<1>2. PICK d \in SUBSET a.host : e = [a EXCEPT !.host = d]
  BY <1>1
<1>3. /\ a.host \subseteq Hosts /\ \A g, h \in a.host : g = h
      /\ \A h \in Hosts : h.name # Null
      /\ e.host = d
  BY <1>2, SearchAssumption
<1>4. d = {} \/ \E h \in d : d = {h}
  BY <1>3
<1> QED BY <1>3, <1>4 DEF RowIs

\* What an event says of its device is the name the query sees.
LEMMA HostIsSaid ==
    ASSUME NEW e, RowIs(e)
    PROVE  {v \in {h.name : h \in e.host} : v # Null} = {v \in {NameOfHost(e.host)} : v # Null}
<1>1. CASE e.host = {}
  BY <1>1 DEF NameOfHost
<1>2. CASE \E h \in Hosts : e.host = {h} /\ h.name # Null
  <2>1. PICK h \in Hosts : e.host = {h} /\ h.name # Null
    BY <1>2
  <2>2. (CHOOSE d \in {h} : TRUE) = h
    OBVIOUS
  <2> QED BY <2>1, <2>2 DEF NameOfHost
<1> QED BY <1>1, <1>2 DEF RowIs

\* What a term on a field asks of the columns.
LEMMA FieldIsMet ==
    ASSUME NEW text \in Texts, NEW i \in DOMAIN text, text[i].is = "field", NEW e, RowIs(e),
           text[i].key \in DOMAIN Alias
    PROVE  Meets(e, text, i) <=>
             FieldHolds([column |-> Alias[text[i].key], neg |-> text[i].neg,
                         value |-> text[i].value],
                        Column(e, e.host, Alias[text[i].key]))
<1> DEFINE t == text[i]
           c == Alias[t.key]
           v == Column(e, e.host, c)
           said == Says(e, t.key)
<1>1. t.neg \in BOOLEAN /\ t.value # Null
  BY TextIs DEF TextTerm
<1>2. /\ t.key \in {"domain", "country", "port", "dst_port", "device", "host"}
      /\ t.key = "domain" => c = "domain"
      /\ t.key = "country" => c = "country"
      /\ t.key \in {"port", "dst_port"} => c = "port"
      /\ t.key \in {"device", "host"} => c = "device"
  BY DEF Alias
<1> HIDE DEF t
<1>3. said = {x \in {v} : x # Null}
  <2>1. CASE t.key = "domain"
    BY <1>2, <2>1 DEF Says, Column
  <2>2. CASE t.key = "country"
    BY <1>2, <2>2 DEF Says, Column
  <2>3. CASE t.key \in {"port", "dst_port"}
    BY <1>2, <2>3 DEF Says, Column
  <2>4. CASE t.key \in {"device", "host"}
    <3>1. v = NameOfHost(e.host)
      BY <1>2, <2>4 DEF Column
    <3>2. said = {x \in {h.name : h \in e.host} : x # Null}
      BY <1>2, <2>4 DEF Says
    <3> QED BY <3>1, <3>2, HostIsSaid
  <2> QED BY <1>2, <2>1, <2>2, <2>3, <2>4
<1>4. Meets(e, text, i) <=>
         \/ c = "port" /\ t.value \notin Numbers
         \/ t.value = "*" /\ (said = {}) = t.neg
         \/ t.value # "*" /\ \E x \in said : (x = t.value) # t.neg
  BY DEF Meets, t
<1>5. FieldHolds([column |-> c, neg |-> t.neg, value |-> t.value], v) <=>
         IF c = "port" THEN t.value \in Numbers => v # Null /\ (v = t.value) # t.neg
         ELSE IF t.value = "*" THEN (v # Null) # t.neg
         ELSE v # Null /\ (v = t.value) # t.neg
  BY DEF FieldHolds
<1> HIDE DEF v, c, said
<1>6. /\ (said = {}) <=> (v = Null)
      /\ (\E x \in said : (x = t.value) # t.neg) <=> v # Null /\ (v = t.value) # t.neg
  BY <1>3
<1>7. Meets(e, text, i) <=>
         FieldHolds([column |-> c, neg |-> t.neg, value |-> t.value], v)
  <2>1. t.value \in Numbers => t.value # "*"
    BY DEF Numbers
  <2>2. (v = Null) = t.neg <=> (v # Null) # t.neg
    BY <1>1
  <2>3. ((said = {}) = t.neg) <=> ((v = Null) = t.neg)
    BY <1>6
  <2> QED BY <1>4, <1>5, <1>6, <2>1, <2>2, <2>3
<1> QED BY <1>7 DEF v, c, t

\* What the text says, term by term, is what the query asks for.
LEMMA ParseIsMeant ==
    ASSUME NEW text \in Texts, NEW e \in Row,
           Unlisted(text) = {}, NegatedSpecial(text) = {}
    PROVE  Where(Parse(text), e, e.host) <=>
             e.org = Own /\ \A i \in DOMAIN text : Meets(e, text, i)
<1> DEFINE q == Parse(text)
           All(is) == \A i \in DOMAIN text : text[i].is = is => Meets(e, text, i)
<1>1. RowIs(e)
  BY RowShape
<1>2. (\A f \in q.fields : FieldHolds(f, Column(e, e.host, f.column))) <=> All("field")
  <2> DEFINE field(i) == [column |-> Alias[text[i].key], neg |-> text[i].neg,
                          value |-> text[i].value]
             Known == {k \in DOMAIN text : text[k].is = "field" /\ text[k].key \in DOMAIN Alias}
  <2>1. q.fields = {field(i) : i \in Known}
    BY DEF Parse
  <2>2. \A i \in Known : Meets(e, text, i) <=>
                           FieldHolds(field(i), Column(e, e.host, field(i).column))
    BY <1>1, FieldIsMet
  <2>3. \A i \in DOMAIN text \ Known : text[i].is # "field"
    BY DEF Unlisted
  <2>4. (\A f \in q.fields : FieldHolds(f, Column(e, e.host, f.column))) <=>
          \A i \in Known : FieldHolds(field(i), Column(e, e.host, field(i).column))
    BY <2>1
  <2>5. \A i \in Known : i \in DOMAIN text /\ text[i].is = "field"
    OBVIOUS
  <2> HIDE DEF Known, field, q
  <2> QED BY <2>2, <2>3, <2>4, <2>5
<1>3. q.has \subseteq e.keys <=> All("has")
  <2>1. q.has = {text[i].value : i \in {k \in DOMAIN text : text[k].is = "has"}}
    BY DEF Parse
  <2>2. \A i \in DOMAIN text : text[i].is = "has" =>
          (Meets(e, text, i) <=>
             IF text[i].neg THEN text[i].value \notin e.keys ELSE text[i].value \in e.keys)
    BY DEF Meets
  <2>3. \A i \in DOMAIN text : text[i].is = "has" => text[i].neg = FALSE
    BY TextIs DEF NegatedSpecial, TextTerm
  <2>4. ASSUME NEW i \in DOMAIN text, text[i].is = "has"
        PROVE  Meets(e, text, i) <=> text[i].value \in e.keys
    BY <2>2, <2>3, <2>4
  <2> QED BY <2>1, <2>4
<1>4. (\A w \in q.free : w \in {e.domain, NameOfHost(e.host)}) <=> All("word")
  <2>1. q.free = {text[i].value : i \in {k \in DOMAIN text : text[k].is = "word"}}
    BY DEF Parse
  <2>2. \A i \in DOMAIN text : text[i].is = "word" =>
          (Meets(e, text, i) <=> text[i].value \in Says(e, "domain") \cup Says(e, "host"))
    BY DEF Meets
  <2>3. /\ Says(e, "domain") = {v \in {e.domain} : v # Null}
        /\ Says(e, "host") = {v \in {NameOfHost(e.host)} : v # Null}
    BY <1>1, HostIsSaid DEF Says
  <2>4. \A i \in DOMAIN text : text[i].value # Null
    BY TextIs DEF TextTerm
  <2>5. \A i \in DOMAIN text : text[i].is = "word" =>
          (Meets(e, text, i) <=> text[i].value \in {e.domain, NameOfHost(e.host)})
    BY <2>2, <2>3, <2>4
  <2> QED BY <2>1, <2>5
<1>5. /\ (\A t \in q.after : t <= e.at) <=> All("after")
      /\ (\A t \in q.before : e.at <= t) <=> All("before")
  BY TimesAreMet DEF Parse
<1>6. (\A i \in DOMAIN text : Meets(e, text, i)) <=>
         All("field") /\ All("has") /\ All("word") /\ All("after") /\ All("before")
  <2>1. \A i \in DOMAIN text : text[i].is \in {"word", "field", "has", "after", "before"}
    BY TextIs DEF TextTerm
  <2> QED BY <2>1
<1> HIDE DEF q, All
<1>7. Where(q, e, e.host) <=> e.org = Own /\ \A i \in DOMAIN text : Meets(e, text, i)
  BY <1>2, <1>3, <1>4, <1>5, <1>6 DEF Where
<1> QED BY <1>7 DEF q

\* What the queries have found so far is what the tables hold, unless these changed.
SearchInv ==
    /\ SearchTypeOK
    /\ search.at # "none" => search.text \in Texts
    /\ search.at # "none" /\ ~unsettled => search.count = Breakdown(Parse(search.text))
    /\ search.at \in {"listed", "answered"} /\ ~unsettled =>
         search.found = Listed(Parse(search.text))

LEMMA SearchInvInit == SearchInit => SearchInv
<1>1. SUFFICES ASSUME SearchInit PROVE SearchInv
  OBVIOUS
<1>2. rowsStored \in Seq(Row) /\ Len(rowsStored) = 0 /\ DOMAIN rowsStored = {}
  BY <1>1 DEF SearchInit
<1>3. Len(rowsStored) <= MaxStored
  BY <1>2, SearchAssumption
<1> QED BY <1>1, <1>2, <1>3 DEF SearchInit, SearchInv, SearchTypeOK

\* A row that arrives is one; so is a row that has lost its device.
LEMMA RowsStayRows ==
    /\ Arriving \subseteq Row
    /\ \A e \in Row : \A h : [e EXCEPT !.host = @ \ {h}] \in Row
<1> DEFINE D == {"org", "domain", "country", "port", "at", "keys", "host"}
<1>1. \A a \in Arriving : a = [x \in D |-> a[x]]
  BY SearchAssumption
<1>2. ASSUME NEW a \in Arriving PROVE a \in Row
  <2>1. a = [a EXCEPT !.host = a.host]
    BY <1>1, <1>2
  <2> QED BY <2>1 DEF Row
<1>3. ASSUME NEW e \in Row, NEW h PROVE [e EXCEPT !.host = @ \ {h}] \in Row
  <2>1. PICK a \in Arriving : \E d \in SUBSET a.host : e = [a EXCEPT !.host = d]
    BY DEF Row
  <2>2. PICK d \in SUBSET a.host : e = [a EXCEPT !.host = d]
    BY <2>1
  <2>3. a = [x \in D |-> a[x]]
    BY <1>1
  <2>4. [e EXCEPT !.host = @ \ {h}] = [a EXCEPT !.host = d \ {h}]
    BY <2>2, <2>3
  <2> DEFINE bare == [e EXCEPT !.host = @ \ {h}]
             Of(x) == {[x EXCEPT !.host = b] : b \in SUBSET x.host}
  <2>5. \E b \in SUBSET a.host : bare = [a EXCEPT !.host = b]
    BY <2>4
  <2> HIDE DEF bare
  <2>6. bare \in Of(a) /\ Row = UNION {Of(x) : x \in Arriving}
    BY <2>5 DEF Row
  <2> HIDE DEF Of
  <2>7. bare \in Row
    BY <2>6
  <2> QED BY <2>7 DEF bare
<1> QED BY <1>2, <1>3

LEMMA SearchInvNext == SearchInv /\ [SearchNext]_searchVars => SearchInv'
<1>1. SUFFICES ASSUME SearchInv, [SearchNext]_searchVars PROVE SearchInv'
  OBVIOUS
<1> DEFINE R == Row
<1>2. /\ rowsStored \in Seq(R) /\ Len(rowsStored) <= MaxStored
      /\ hosts \subseteq Hosts /\ unsettled \in BOOLEAN
      /\ \A i \in DOMAIN rowsStored : rowsStored[i].host \subseteq hosts
      /\ search.at \in {"none", "counted", "listed", "answered"}
      /\ search.at \in {"listed", "answered"} => search.found \in Seq(1..MaxStored)
  BY <1>1 DEF SearchInv, SearchTypeOK
<1> HIDE DEF R
<1>3. Len(rowsStored) \in Nat /\ DOMAIN rowsStored = 1..Len(rowsStored)
      /\ \A i \in 1..Len(rowsStored) : rowsStored[i] \in R
  BY <1>2
<1>4. CASE BeginSearch
  <2>1. PICK text \in Texts :
          search' = [at |-> "counted", text |-> text, count |-> Breakdown(Parse(text))]
    BY <1>4 DEF BeginSearch
  <2>2. unsettled' = FALSE /\ UNCHANGED <<rowsStored, hosts>>
    BY <1>4 DEF BeginSearch
  <2>3. \A q : Breakdown(q)' = Breakdown(q)
    BY <2>2 DEF Breakdown
  <2>4. search'.at = "counted" /\ search'.text = text /\ search'.count = Breakdown(Parse(text))
    BY <2>1
  <2>5. SearchTypeOK'
    BY <1>1, <2>2, <2>4 DEF SearchInv, SearchTypeOK
  <2> QED BY <2>3, <2>4, <2>5 DEF SearchInv
<1>5. CASE ListEvents
  <2> DEFINE q == Parse(search.text)
  <2>1. /\ Matching(q) \subseteq 1..Len(rowsStored) /\ Listed(q) \in Seq(Matching(q))
    BY <1>2, ListedAre DEF R
  <2>2. Matching(q) \subseteq 1..MaxStored
    BY <1>2, <1>3, <2>1, SearchAssumption
  <2> DEFINE M == Matching(q)
             s == Listed(q)
  <2> HIDE DEF q, M, s
  <2>3. s \in Seq(1..MaxStored)
    <3>1. s \in Seq(M) /\ M \subseteq 1..MaxStored
      BY <2>1, <2>2 DEF M, s
    <3> DEFINE B == 1..MaxStored
    <3> HIDE DEF B
    <3>2. Len(s) \in Nat /\ s \in [1..Len(s) -> M]
      BY <3>1
    <3>3. s \in [1..Len(s) -> B]
      BY <3>1, <3>2 DEF B
    <3>4. s \in Seq(B)
      BY <3>2, <3>3
    <3> QED BY <3>4 DEF B
  <2> QED BY <1>1, <1>5, <2>3 DEF q, s, ListEvents, SearchInv, SearchTypeOK, Breakdown, Listed, Matching
<1>6. CASE ListDevices
  BY <1>1, <1>6 DEF ListDevices, SearchInv, SearchTypeOK, Breakdown, Listed, Matching
<1>7. CASE AnswerSearch
  BY <1>1, <1>7 DEF AnswerSearch, SearchInv, SearchTypeOK
<1>8. ASSUME UNCHANGED search, Unsettles, SearchTypeOK' PROVE SearchInv'
  BY <1>1, <1>8 DEF SearchInv, Unsettles
<1>9. CASE StoreEvent
  <2>1. PICK e \in Arriving : e.host \subseteq hosts /\ rowsStored' = Append(rowsStored, e)
    BY <1>9 DEF StoreEvent
  <2>2. e \in R /\ Len(rowsStored) < MaxStored /\ Unsettles /\ UNCHANGED <<hosts, search>>
    BY <1>9, RowsStayRows DEF StoreEvent, R
  <2>3. /\ rowsStored' \in Seq(R) /\ Len(rowsStored') = Len(rowsStored) + 1
        /\ DOMAIN rowsStored' = 1..(Len(rowsStored) + 1)
        /\ rowsStored'[Len(rowsStored) + 1] = e
        /\ \A i \in 1..Len(rowsStored) : rowsStored'[i] = rowsStored[i]
    BY <1>2, <2>1, <2>2
  <2>4. Len(rowsStored') <= MaxStored
    BY <1>3, <2>2, <2>3, SearchAssumption
  <2>5. ASSUME NEW i \in DOMAIN rowsStored' PROVE rowsStored'[i].host \subseteq hosts
    <3>1. i \in 1..Len(rowsStored) \/ i = Len(rowsStored) + 1
      BY <1>3, <2>3
    <3> QED BY <1>2, <1>3, <2>1, <2>3, <3>1
  <2>6. unsettled' \in BOOLEAN
    BY <2>2 DEF Unsettles
  <2>7. SearchTypeOK'
    BY <1>2, <2>2, <2>3, <2>4, <2>5, <2>6 DEF SearchTypeOK, R
  <2> QED BY <1>8, <2>2, <2>7
<1>10. CASE AddHost
  <2>1. PICK h \in Hosts \ hosts : hosts' = hosts \cup {h}
    BY <1>10 DEF AddHost
  <2>2. Unsettles /\ UNCHANGED <<rowsStored, search>> /\ unsettled' \in BOOLEAN
    BY <1>10 DEF AddHost, Unsettles
  <2>3. SearchTypeOK'
    BY <1>2, <2>1, <2>2 DEF SearchTypeOK, R
  <2> QED BY <1>8, <2>2, <2>3
<1>11. CASE DeleteHost
  <2>1. PICK h \in hosts : /\ hosts' = hosts \ {h}
                           /\ rowsStored' = [i \in DOMAIN rowsStored |->
                                [rowsStored[i] EXCEPT !.host = @ \ {h}]]
    BY <1>11 DEF DeleteHost
  <2>2. Unsettles /\ UNCHANGED search /\ unsettled' \in BOOLEAN
    BY <1>11 DEF DeleteHost, Unsettles
  <2> DEFINE bare(i) == [rowsStored[i] EXCEPT !.host = @ \ {h}]
  <2>3. ASSUME NEW i \in 1..Len(rowsStored)
        PROVE  bare(i) \in R /\ bare(i).host \subseteq hosts'
    <3>1. rowsStored[i] \in Row /\ rowsStored[i].host \subseteq hosts
      BY <1>2, <1>3 DEF R
    <3>2. "host" \in DOMAIN rowsStored[i]
      <4>1. PICK a \in Arriving : \E d \in SUBSET a.host : rowsStored[i] = [a EXCEPT !.host = d]
        BY <3>1 DEF Row
      <4>2. DOMAIN rowsStored[i] = DOMAIN a
        BY <4>1
      <4>3. "host" \in DOMAIN a
        BY SearchAssumption
      <4> QED BY <4>2, <4>3
    <3>3. bare(i).host = rowsStored[i].host \ {h}
      BY <3>2
    <3> QED BY <2>1, <3>1, <3>3, RowsStayRows DEF R
  <2>4. rowsStored' = [i \in 1..Len(rowsStored) |-> bare(i)]
    BY <1>3, <2>1
  <2> HIDE DEF bare
  <2>5. /\ rowsStored' \in Seq(R) /\ Len(rowsStored') = Len(rowsStored)
        /\ DOMAIN rowsStored' = 1..Len(rowsStored)
        /\ \A i \in 1..Len(rowsStored) : rowsStored'[i] = bare(i)
    BY <1>3, <2>3, <2>4
  <2>6. hosts' \subseteq Hosts
    BY <1>2, <2>1
  <2>7. SearchTypeOK'
    BY <1>2, <2>2, <2>3, <2>5, <2>6 DEF SearchTypeOK, R
  <2> QED BY <1>8, <2>2, <2>7
<1>12. CASE UNCHANGED searchVars
  BY <1>1, <1>12 DEF searchVars, SearchInv, SearchTypeOK, Breakdown, Listed, Matching
<1> QED BY <1>1, <1>4, <1>5, <1>6, <1>7, <1>9, <1>10, <1>11, <1>12 DEF SearchNext

\* Every row, and the search, are of their kinds (crud/monitoring.py).
THEOREM SearchTypeCorrect == SearchSpec => []SearchTypeOK
<1>1. SearchInv => SearchTypeOK
  BY DEF SearchInv
<1> QED BY <1>1, SearchInvInit, SearchInvNext, PTL DEF SearchSpec

\* crud/monitoring.py, core/querylang.py: a search in tables that do not change finds
\* the newest of the events that meet every term of its text, and only these; and it
\* counts them all, if no term needs the name of a device.
THEOREM SearchFindsThm == SearchSpec => []SearchFinds
<1>1. ASSUME SearchInv PROVE SearchFinds
  <2>1. SUFFICES ASSUME search.at = "answered", ~unsettled,
                        Unlisted(search.text) = {}, NegatedSpecial(search.text) = {}
                 PROVE  SearchFinds
    BY DEF SearchFinds
  <2> DEFINE text == search.text
             q == Parse(text)
             met == {n \in DOMAIN rowsStored :
                       /\ rowsStored[n].org = Own
                       /\ \A i \in DOMAIN text : Meets(rowsStored[n], text, i)}
  <2>2. /\ text \in Texts /\ search.count = Breakdown(q) /\ search.found = Listed(q)
        /\ rowsStored \in Seq(Row)
    BY <1>1, <2>1 DEF SearchInv, SearchTypeOK
  <2>3. \A n \in DOMAIN rowsStored : rowsStored[n] \in Row
    <3> DEFINE R == Row
    <3>1. rowsStored \in Seq(R)
      BY <2>2
    <3> HIDE DEF R
    <3>2. \A n \in DOMAIN rowsStored : rowsStored[n] \in R
      BY <3>1
    <3> QED BY <3>2 DEF R
  <2>4. met = Matching(q)
    BY <2>1, <2>2, <2>3, ParseIsMeant DEF Matching
  <2>5. ASSUME ~NeedsDevice(q) PROVE search.count = Cardinality(met)
    <3>1. ASSUME NEW n \in DOMAIN rowsStored
          PROVE  Where(q, rowsStored[n], {}) <=> Where(q, rowsStored[n], rowsStored[n].host)
      <4>1. q.free = {} /\ \A f \in q.fields : f.column # "device"
        BY <2>5 DEF NeedsDevice
      <4>2. \A f \in q.fields : Column(rowsStored[n], {}, f.column)
                                  = Column(rowsStored[n], rowsStored[n].host, f.column)
        <5>1. \A f \in q.fields : f.column \in {"domain", "country", "port", "device"}
          BY DEF Parse, Alias
        <5> HIDE DEF q
        <5> QED BY <4>1, <5>1 DEF Column
      <4> HIDE DEF q
      <4> QED BY <4>1, <4>2 DEF Where
    <3>2. {i \in DOMAIN rowsStored : Where(q, rowsStored[i], {})} = Matching(q)
      BY <3>1 DEF Matching
    <3> HIDE DEF q
    <3> QED BY <2>2, <2>4, <2>5, <3>2 DEF Breakdown
  <2> HIDE DEF q, met
  <2>6. /\ search.found \in Seq(met)
        /\ \A k, l \in DOMAIN search.found : k < l => search.found[k] > search.found[l]
        /\ \A n \in met \ {search.found[k] : k \in DOMAIN search.found} :
             /\ Len(search.found) = PageSize
             /\ \A k \in DOMAIN search.found : n < search.found[k]
    BY <2>2, <2>4, ListedAre
  <2>7. {search.found[k] : k \in DOMAIN search.found} \subseteq met
    BY <2>6
  <2> QED BY <2>5, <2>6, <2>7 DEF SearchFinds, Shown, met, q
<1> QED BY <1>1, SearchInvInit, SearchInvNext, PTL DEF SearchSpec
=============================================================================
