----------------------------- MODULE RateLimit ------------------------------
(* core/ratelimit.py: SlidingWindowLimiter.  A hit drops what has left its     *)
(* own key's window, is refused at the limit, is recorded otherwise, and now   *)
(* and then forgets the keys whose hits are all old.  Every hit runs without   *)
(* interruption on the event loop; time passes between them.                   *)
EXTENDS Integers, Sequences, FiniteSets

CONSTANTS Keys,       \* the clients
          Limit, Window,
          PruneOver,  \* how many keys are kept before the old ones are forgotten
          MaxNow      \* bound of the model

ASSUME LimiterAssumption == Limit \in Nat /\ Window \in Nat /\ MaxNow \in Nat

VARIABLES now,
          hits,     \* _hits: the recorded hits of each key it knows
          granted   \* every hit that was let through (not in the code)

limiterVars == <<now, hits, granted>>

LimiterInit == now = 0 /\ hits = [k \in {} |-> <<>>] /\ granted = [k \in Keys |-> <<>>]

Cutoff == now - Window
\* Hits are dropped from the left, up to the first that is inside the window.
Dropped(bucket) ==
    CHOOSE n \in 0..Len(bucket) : /\ \A i \in 1..n : bucket[i] <= Cutoff
                                  /\ n < Len(bucket) => bucket[n + 1] > Cutoff
Recent(bucket) == SubSeq(bucket, Dropped(bucket) + 1, Len(bucket))
Bucket(k) == IF k \in DOMAIN hits THEN Recent(hits[k]) ELSE <<>>

\* The keys whose last hit is outside the window.
\* Mutant: a key is judged by its oldest hit.
StaleHead(table) == {k \in DOMAIN table : table[k] = <<>> \/ table[k][1] <= Cutoff}
Stale(table) == {k \in DOMAIN table : table[k] = <<>> \/ table[k][Len(table[k])] <= Cutoff}
Prune(table) == [k \in DOMAIN table \ Stale(table) |-> table[k]]
With(k, bucket) ==
    [j \in DOMAIN hits \cup {k} |-> IF j = k THEN bucket ELSE hits[j]]

Hit(k) ==
    /\ \/ /\ Len(Bucket(k)) >= Limit
          /\ hits' = With(k, Bucket(k)) /\ UNCHANGED granted
       \/ /\ Len(Bucket(k)) < Limit
          /\ LET table == With(k, Append(Bucket(k), now))
             IN  hits' = IF Cardinality(DOMAIN table) > PruneOver THEN Prune(table) ELSE table
          /\ granted' = [granted EXCEPT ![k] = Append(@, now)]
    /\ UNCHANGED now

Tick == now < MaxNow /\ now' = now + 1 /\ UNCHANGED <<hits, granted>>

LimiterNext == Tick \/ \E k \in Keys : Hit(k)
LimiterSpec == LimiterInit /\ [][LimiterNext]_limiterVars

\* The buckets hold hits in the order they came.
LimiterTypeOK ==
    /\ now \in 0..MaxNow
    /\ DOMAIN hits \subseteq Keys /\ \A k \in DOMAIN hits : hits[k] \in Seq(0..now)
    /\ granted \in [Keys -> Seq(0..now)]

\* core/ratelimit.py: in no window of its length, wherever it lies, does a key
\* get through more often than the limit, whatever the other keys do and
\* however often old keys are forgotten.
WindowHeld ==
    \A k \in Keys, t \in 0..now :
      Cardinality({i \in DOMAIN granted[k] :
                     t - Window < granted[k][i] /\ granted[k][i] <= t}) <= Limit
=============================================================================
