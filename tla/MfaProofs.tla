----------------------------- MODULE MfaProofs ------------------------------
(* Proofs about Codes and about SignIn, for any number of requests, accounts,  *)
(* attempts, codes, keys, challenges and tries.                                *)
EXTENDS Codes, SignIn, FiniteSetTheorems, WellFoundedInduction, TLAPS

(****************************** the mailed codes *****************************)
\* The request d has read the code it is about to write.
Holding(d) == ask[d].at \in {"closing", "consuming", "answering"}

\* What a request holds is in the table.
HeldAreCodes ==
    \A d \in Callers :
      /\ Holding(d) => ask[d].code \in DOMAIN codes
      /\ ask[d].at = "creating" => ask[d].old \subseteq DOMAIN codes
\* A code that nobody crossed is as the request that holds it has read it: not
\* used up, and with one attempt less than will be written.
HeldAreFresh ==
    \A d \in Callers : Holding(d) /\ ask[d].code \notin crossed =>
      /\ ~codes[ask[d].code].consumed
      /\ ask[d].at = "answering" => ask[d].attempts = codes[ask[d].code].attempts + 1
\* A code that has opened its door is used up.
UsedAreConsumed ==
    \A k \in DOMAIN codes \ crossed : uses[k] > 0 => codes[k].consumed

CodesInv ==
    CodesTypeOK /\ HeldAreCodes /\ HeldAreFresh /\ UsedAreConsumed /\ CodeBudget

(****************************** lemmas ***************************************)
\* The newest of some codes is one of them.
LEMMA NewestIsOne ==
    ASSUME NEW n \in Nat, NEW S \in SUBSET (1..n), S # {}
    PROVE  Newest(S) \in S
<1> DEFINE T == {n - k : k \in S}
<1>1. T \subseteq Nat /\ T # {}
  <2>1. \A k \in 1..n : n - k \in Nat
    OBVIOUS
  <2>2. T \subseteq Nat
    BY <2>1
  <2>3. PICK k \in S : TRUE
    OBVIOUS
  <2>4. n - k \in T
    BY <2>3
  <2> QED BY <2>2, <2>4
<1>2. PICK x \in T : \A y \in T : ~(<<y, x>> \in OpToRel(<, Nat))
  <2> HIDE DEF T
  <2> QED BY <1>1, NatLessThanWellFounded, WFMin
<1>3. \A y \in T : ~(y < x)
  BY <1>1, <1>2 DEF OpToRel
<1>4. PICK k \in S : x = n - k
  OBVIOUS
<1>5. \A j \in S : j <= k
  <2>1. SUFFICES ASSUME NEW j \in S PROVE j <= k
    OBVIOUS
  <2>2. ~(n - j < n - k)
    BY <1>3, <1>4
  <2>3. j \in Int /\ k \in Int
    OBVIOUS
  <2> QED BY <2>2, <2>3
<1>6. QED
  BY <1>5 DEF Newest

\* The shapes of a request.
LEMMA AskShape ==
    ASSUME CodesTypeOK, NEW d \in Callers
    PROVE  /\ ask[d] \in Ask
           /\ ask[d].at \in {"quiet", "setting", "creating", "closing", "consuming", "answering"}
           /\ ask[d].at = "creating" => ask[d].old \in SUBSET (1..MaxCodes)
           /\ Holding(d) => ask[d].code \in 1..MaxCodes
           /\ ask[d].at = "answering" =>
                ask[d].attempts \in 1..MaxAttempts /\ ask[d].right \in BOOLEAN
<1>1. ask[d] \in Ask
  BY DEF CodesTypeOK
<1>2. QED
  BY <1>1, SMT DEF Ask, Holding

LEMMA CodeShape ==
    ASSUME CodesTypeOK, NEW k \in DOMAIN codes
    PROVE  /\ codes[k] \in Code /\ guesses[k] \in Nat /\ uses[k] \in Nat
           /\ codes[k].attempts \in 0..MaxAttempts /\ codes[k].consumed \in BOOLEAN
           /\ codes[k].expired \in BOOLEAN /\ codes[k].verified \in BOOLEAN
           /\ k \in 1..MaxCodes
           /\ DOMAIN codes = 1..Len(codes) /\ DOMAIN guesses = DOMAIN codes
           /\ DOMAIN uses = DOMAIN codes /\ Len(codes) \in Nat
<1> DEFINE R == Code
<1>0. codes \in Seq(R) /\ guesses \in Seq(Nat) /\ uses \in Seq(Nat)
  BY DEF CodesTypeOK
<1>1. codes[k] \in R
  <2> HIDE DEF R
  <2> QED BY <1>0
<1>2. guesses[k] \in Nat /\ uses[k] \in Nat /\ DOMAIN codes = 1..Len(codes)
      /\ DOMAIN guesses = DOMAIN codes /\ DOMAIN uses = DOMAIN codes /\ Len(codes) \in Nat
  <2> HIDE DEF R
  <2> QED BY <1>0 DEF CodesTypeOK
<1>3. k \in 1..MaxCodes
  BY <1>2, CodesAssumption DEF CodesTypeOK
<1>4. QED
  BY <1>1, <1>2, <1>3, SMT DEF Code

LEMMA TallyIsSeq ==
    ASSUME NEW n \in Nat, NEW f \in [1..n -> Nat]
    PROVE  f \in Seq(Nat) /\ Len(f) = n
OBVIOUS

\* A request that reads: it takes up what the newest code says, and nothing is
\* written.
LEMMA ReadingKeeps ==
    ASSUME CodesInv, NEW c \in Callers, NEW a \in Ask, Turns(c, a),
           UNCHANGED <<kind, codes, guesses, uses, crossed>>,
           a.at \in {"closing", "consuming", "answering"} =>
             /\ a.code \in Active
             /\ a.at = "answering" => a.attempts = codes[a.code].attempts + 1,
           a.at = "creating" => a.old \subseteq DOMAIN codes
    PROVE  CodesInv'
<1> USE DEF CodesInv
<1>1. ask \in [Callers -> Ask] /\ ask' = [ask EXCEPT ![c] = a]
  BY DEF CodesTypeOK, Turns
<1>2. ask'[c] = a /\ \A d \in Callers \ {c} : ask'[d] = ask[d]
  BY <1>1
<1>3. CodesTypeOK'
  BY <1>1 DEF CodesTypeOK
<1>4. HeldAreCodes'
  BY <1>2 DEF HeldAreCodes, Holding, Active
<1>5. HeldAreFresh'
  BY <1>2 DEF HeldAreFresh, Holding, Active
<1>6. UsedAreConsumed' /\ CodeBudget'
  BY DEF UsedAreConsumed, CodeBudget
<1>7. QED
  BY <1>3, <1>4, <1>5, <1>6

\* A request that writes rows: every row it touches that another request holds
\* is crossed, so that what is left to show is about the rows it writes.
LEMMA WritingKeeps ==
    ASSUME CodesInv, NEW c \in Callers, NEW a \in Ask, Turns(c, a),
           a.at \in {"quiet", "setting"},
           NEW rows, NEW touched, NEW answered, NEW used,
           Write(c, rows, touched, answered, used),
           rows \in Seq(Code), answered \in Seq(Nat), used \in Seq(Nat),
           Len(rows) <= MaxCodes, Len(codes) <= Len(rows),
           Len(answered) = Len(rows), Len(used) = Len(rows),
           touched \subseteq DOMAIN codes,
           \A k \in DOMAIN codes \ touched :
             rows[k].attempts = codes[k].attempts /\ rows[k].consumed = codes[k].consumed,
           \A k \in DOMAIN rows \ crossed :
             /\ used[k] <= 1 /\ rows[k].attempts = answered[k] /\ answered[k] <= MaxAttempts
             /\ used[k] > 0 => rows[k].consumed
    PROVE  CodesInv'
<1> USE DEF CodesInv
<1>1. ask \in [Callers -> Ask] /\ ask' = [ask EXCEPT ![c] = a]
  BY DEF CodesTypeOK, Turns
<1>2. ask'[c] = a /\ \A d \in Callers \ {c} : ask'[d] = ask[d]
  BY <1>1
<1>3. /\ codes' = rows /\ kind' = kind
      /\ crossed' = crossed \cup (touched \cap HeldElsewhere(c))
      /\ guesses' = Settled(answered) /\ uses' = Settled(used)
  BY DEF Write
<1> DEFINE R == Code
<1>4. /\ DOMAIN codes = 1..Len(codes) /\ DOMAIN rows = 1..Len(rows)
      /\ DOMAIN answered = 1..Len(rows) /\ DOMAIN used = 1..Len(rows)
      /\ Len(codes) \in Nat /\ Len(rows) \in Nat
  <2>1. codes \in Seq(R) /\ rows \in Seq(R)
    BY DEF CodesTypeOK
  <2> HIDE DEF R
  <2> QED BY <2>1
<1>5. DOMAIN codes \subseteq DOMAIN rows
  BY <1>4
<1>6. crossed \subseteq crossed' /\ crossed' \subseteq DOMAIN rows
  BY <1>3, <1>5 DEF CodesTypeOK
<1>7. \A k \in DOMAIN rows : answered[k] \in Nat /\ used[k] \in Nat
  BY <1>4
<1>8. /\ guesses' \in [1..Len(rows) -> Nat] /\ uses' \in [1..Len(rows) -> Nat]
      /\ \A k \in DOMAIN rows \ crossed' :
           guesses'[k] = answered[k] /\ uses'[k] = used[k]
  BY <1>3, <1>4, <1>7 DEF Settled
<1>9. guesses' \in Seq(Nat) /\ uses' \in Seq(Nat) /\ Len(guesses') = Len(rows)
      /\ Len(uses') = Len(rows)
  BY <1>4, <1>8, TallyIsSeq
<1>10. CodesTypeOK'
  BY <1>1, <1>3, <1>6, <1>9 DEF CodesTypeOK
<1>11. HeldAreCodes'
  BY <1>2, <1>3, <1>5 DEF HeldAreCodes, Holding
<1>12. HeldAreFresh'
  <2>1. SUFFICES ASSUME NEW d \in Callers, Holding(d)', ask'[d].code \notin crossed'
                 PROVE  /\ ~codes'[ask'[d].code].consumed
                        /\ ask'[d].at = "answering" =>
                             ask'[d].attempts = codes'[ask'[d].code].attempts + 1
    BY DEF HeldAreFresh
  <2>2. d # c /\ ask'[d] = ask[d] /\ Holding(d)
    BY <1>2, <2>1 DEF Holding
  <2>3. ask[d].code \in DOMAIN codes
    BY <2>2 DEF HeldAreCodes
  <2>4. ask[d].code \notin touched
    BY <1>3, <2>1, <2>2, <2>3 DEF HeldElsewhere, Holding
  <2>5. ask[d].code \notin crossed
    BY <1>6, <2>1, <2>2
  <2>6. /\ ~codes[ask[d].code].consumed
        /\ ask[d].at = "answering" => ask[d].attempts = codes[ask[d].code].attempts + 1
    BY <2>2, <2>5 DEF HeldAreFresh
  <2>7. /\ codes'[ask[d].code].consumed = codes[ask[d].code].consumed
        /\ codes'[ask[d].code].attempts = codes[ask[d].code].attempts
    BY <1>3, <2>3, <2>4
  <2> QED BY <2>2, <2>6, <2>7, Zenon
<1>13. UsedAreConsumed' /\ CodeBudget'
  BY <1>3, <1>6, <1>8 DEF UsedAreConsumed, CodeBudget
<1>14. QED
  BY <1>10, <1>11, <1>12, <1>13

\* Using up some codes changes nothing else of the table.
LEMMA UsedUpRows ==
    ASSUME CodesTypeOK, NEW S
    PROVE  /\ UsedUp(S) \in Seq(Code) /\ Len(UsedUp(S)) = Len(codes)
           /\ DOMAIN UsedUp(S) = DOMAIN codes
           /\ \A k \in DOMAIN codes :
                /\ UsedUp(S)[k].attempts = codes[k].attempts
                /\ k \in S => UsedUp(S)[k].consumed
                /\ k \notin S => UsedUp(S)[k].consumed = codes[k].consumed
                /\ codes[k].consumed => UsedUp(S)[k].consumed
<1> DEFINE row(k) == [codes[k] EXCEPT !.consumed = @ \/ k \in S]
<1>1. \A k \in DOMAIN codes :
        /\ row(k) \in Code /\ row(k).attempts = codes[k].attempts
        /\ row(k).consumed = (codes[k].consumed \/ k \in S)
  <2>1. SUFFICES ASSUME NEW k \in DOMAIN codes
                 PROVE /\ row(k) \in Code /\ row(k).attempts = codes[k].attempts
                       /\ row(k).consumed = (codes[k].consumed \/ k \in S)
    OBVIOUS
  <2>2. codes[k] \in Code /\ codes[k].consumed \in BOOLEAN
    BY CodeShape
  <2>3. ASSUME NEW r \in Code, NEW b \in BOOLEAN
        PROVE  /\ [r EXCEPT !.consumed = b] \in Code
               /\ [r EXCEPT !.consumed = b].attempts = r.attempts
               /\ [r EXCEPT !.consumed = b].consumed = b
    BY SMT DEF Code
  <2>4. (codes[k].consumed \/ k \in S) \in BOOLEAN
    OBVIOUS
  <2> QED BY <2>2, <2>3, <2>4, Zenon
<1>2. UsedUp(S) = [k \in DOMAIN codes |-> row(k)]
  BY DEF UsedUp
<1> HIDE DEF row
<1> DEFINE R == Code
<1>3. codes \in Seq(R)
  BY DEF CodesTypeOK
<1>4. \A k \in DOMAIN codes : row(k) \in R
  BY <1>1
<1>5. UsedUp(S) \in Seq(R) /\ Len(UsedUp(S)) = Len(codes) /\ DOMAIN UsedUp(S) = DOMAIN codes
  <2> HIDE DEF R
  <2>1. DOMAIN codes = 1..Len(codes) /\ Len(codes) \in Nat
    BY <1>3
  <2>2. UsedUp(S) \in [1..Len(codes) -> R]
    BY <1>2, <1>4, <2>1
  <2>3. UsedUp(S) \in Seq(R) /\ Len(UsedUp(S)) = Len(codes)
    BY <2>1, <2>2
  <2> QED BY <1>2, <2>3
<1>6. \A k \in DOMAIN codes : UsedUp(S)[k] = row(k)
  BY <1>2
<1>7. \A k \in DOMAIN codes :
                /\ UsedUp(S)[k].attempts = codes[k].attempts
                /\ k \in S => UsedUp(S)[k].consumed
                /\ k \notin S => UsedUp(S)[k].consumed = codes[k].consumed
                /\ codes[k].consumed => UsedUp(S)[k].consumed
  <2>1. SUFFICES ASSUME NEW k \in DOMAIN codes
                 PROVE  /\ UsedUp(S)[k].attempts = codes[k].attempts
                        /\ k \in S => UsedUp(S)[k].consumed
                        /\ k \notin S => UsedUp(S)[k].consumed = codes[k].consumed
                        /\ codes[k].consumed => UsedUp(S)[k].consumed
    OBVIOUS
  <2>2. UsedUp(S)[k].attempts = codes[k].attempts
    BY <1>1, <1>6
  <2>3. UsedUp(S)[k].consumed = (codes[k].consumed \/ k \in S)
    BY <1>1, <1>6
  <2>4. codes[k].consumed \in BOOLEAN
    BY CodeShape
  <2> QED BY <2>2, <2>3, <2>4, Zenon
<1>8. QED
  BY <1>5, <1>7

(****************************** the actions **********************************)
LEMMA QuietShape == Quiet \in Ask /\ Quiet.at = "quiet" /\ [at |-> "setting"] \in Ask
BY DEF Quiet, Ask

\* The newest code is a live one.
LEMMA NewestIsLive ==
    ASSUME CodesTypeOK, Active # {}
    PROVE  Newest(Active) \in Active /\ Newest(Active) \in DOMAIN codes
<1>1. DOMAIN codes = 1..Len(codes) /\ Len(codes) \in Nat
  <2> DEFINE R == Code
  <2>1. codes \in Seq(R)
    BY DEF CodesTypeOK
  <2> HIDE DEF R
  <2> QED BY <2>1
<1>2. Active \in SUBSET (1..Len(codes))
  BY <1>1 DEF Active
<1>3. QED
  BY <1>1, <1>2, NewestIsOne DEF Active

LEMMA InvalidateKeeps ==
    ASSUME CodesInv, NEW c \in Callers, Invalidate(c),
           UNCHANGED <<kind, codes, guesses, uses, crossed>>
    PROVE  CodesInv'
<1> DEFINE a == [at |-> "creating", old |-> Active]
<1>1. Active \subseteq DOMAIN codes /\ Active \subseteq 1..MaxCodes
  BY CodeShape DEF Active, CodesInv
<1>2. a \in Ask /\ a.at = "creating" /\ a.old = Active
  BY <1>1 DEF Ask
<1>3. Turns(c, a)
  BY DEF Invalidate
<1> HIDE DEF a
<1>4. QED
  BY <1>1, <1>2, <1>3, ReadingKeeps

LEMMA JudgeKeeps ==
    ASSUME CodesInv, NEW c \in Callers, NEW k \in Active, Judge(c, k),
           UNCHANGED <<kind, codes, guesses, uses, crossed>>
    PROVE  CodesInv'
<1>1. /\ k \in DOMAIN codes /\ k \in 1..MaxCodes /\ codes[k].attempts \in 0..MaxAttempts
  BY CodeShape DEF Active, CodesInv
<1>2. ASSUME Turns(c, [at |-> "closing", code |-> k])
      PROVE  CodesInv'
  <2> DEFINE a == [at |-> "closing", code |-> k]
  <2>1. a \in Ask /\ a.at = "closing" /\ a.code = k
    BY <1>1 DEF Ask
  <2>2. Turns(c, a)
    BY <1>2
  <2> HIDE DEF a
  <2> QED BY <2>1, <2>2, ReadingKeeps
<1>3. ASSUME NEW right \in BOOLEAN, codes[k].attempts < MaxAttempts,
             Turns(c, [at |-> "answering", code |-> k,
                       attempts |-> codes[k].attempts + 1, right |-> right])
      PROVE  CodesInv'
  <2> DEFINE a == [at |-> "answering", code |-> k,
                   attempts |-> codes[k].attempts + 1, right |-> right]
  <2>1. codes[k].attempts + 1 \in 1..MaxAttempts
    BY <1>1, <1>3, CodesAssumption
  <2>2. /\ a \in Ask /\ a.at = "answering" /\ a.code = k
        /\ a.attempts = codes[k].attempts + 1
    BY <1>1, <2>1 DEF Ask
  <2>3. Turns(c, a)
    BY <1>3
  <2> HIDE DEF a
  <2> QED BY <2>2, <2>3, ReadingKeeps
<1>4. QED
  BY <1>2, <1>3 DEF Judge

LEMMA ConfirmResetKeeps ==
    ASSUME CodesInv, NEW c \in Callers, ConfirmReset(c)
    PROVE  CodesInv'
<1> DEFINE k == Newest(Active)
<1>1. k \in Active /\ k \in 1..MaxCodes
  BY NewestIsLive, CodeShape DEF ConfirmReset, CodesInv
<1> HIDE DEF k
<1> DEFINE w == IF codes[k].expired THEN "closing" ELSE "consuming"
<1> DEFINE a == [at |-> w, code |-> k]
<1>2. Turns(c, a) /\ UNCHANGED <<kind, codes, guesses, uses, crossed>>
  BY DEF ConfirmReset, k
<1>3. w \in {"closing", "consuming"}
  OBVIOUS
<1> HIDE DEF w
<1>4. a \in Ask /\ a.at \in {"closing", "consuming"} /\ a.code = k
  BY <1>1, <1>3 DEF Ask
<1> HIDE DEF a
<1>5. QED
  BY <1>1, <1>2, <1>4, ReadingKeeps

LEMMA BackToQuietKeeps ==
    ASSUME CodesInv, NEW c \in Callers, Turns(c, Quiet),
           UNCHANGED <<kind, codes, guesses, uses, crossed>>
    PROVE  CodesInv'
BY ReadingKeeps, QuietShape

LEMMA CreateCodeKeeps ==
    ASSUME CodesInv, NEW c \in Callers, CreateCode(c)
    PROVE  CodesInv'
<1> DEFINE old == ask[c].old
           n == Len(codes)
           rows == Append(UsedUp(old), NewCode)
<1> USE DEF CodesInv
<1>1. /\ Write(c, rows, old, Append(guesses, 0), Append(uses, 0)) /\ Turns(c, Quiet)
      /\ n < MaxCodes /\ ask[c].at = "creating"
  BY DEF CreateCode
<1>2. old \subseteq DOMAIN codes
  BY <1>1 DEF HeldAreCodes
<1> DEFINE R == Code
<1>3. NewCode \in R /\ NewCode.attempts = 0 /\ ~NewCode.consumed
  BY CodesAssumption DEF NewCode, Code
<1>4. UsedUp(old) \in Seq(R) /\ Len(UsedUp(old)) = n
  BY UsedUpRows
<1>5. /\ n \in Nat /\ DOMAIN codes = 1..n /\ Len(guesses) = n /\ Len(uses) = n
      /\ guesses \in Seq(Nat) /\ uses \in Seq(Nat)
  <2>1. codes \in Seq(R)
    BY DEF CodesTypeOK
  <2> HIDE DEF R
  <2> QED BY <2>1 DEF CodesTypeOK
<1>6. /\ rows \in Seq(R) /\ Len(rows) = n + 1 /\ DOMAIN rows = 1..(n + 1)
      /\ rows[n + 1] = NewCode
      /\ \A k \in 1..n : rows[k] = UsedUp(old)[k]
  <2> HIDE DEF R, n
  <2> QED BY <1>3, <1>4, <1>5
<1>7. ASSUME NEW tally \in Seq(Nat), Len(tally) = n
      PROVE  /\ Append(tally, 0) \in Seq(Nat) /\ Len(Append(tally, 0)) = n + 1
             /\ Append(tally, 0)[n + 1] = 0
             /\ \A k \in 1..n : Append(tally, 0)[k] = tally[k]
  <2> HIDE DEF n
  <2> QED BY <1>5, <1>7
<1>8. \A k \in DOMAIN codes \ old :
        rows[k].attempts = codes[k].attempts /\ rows[k].consumed = codes[k].consumed
  BY <1>5, <1>6, UsedUpRows
<1>9. \A k \in DOMAIN rows \ crossed :
        /\ Append(uses, 0)[k] <= 1 /\ rows[k].attempts = Append(guesses, 0)[k]
        /\ Append(guesses, 0)[k] <= MaxAttempts
        /\ Append(uses, 0)[k] > 0 => rows[k].consumed
  <2>1. SUFFICES ASSUME NEW k \in DOMAIN rows \ crossed
                 PROVE  /\ Append(uses, 0)[k] <= 1 /\ rows[k].attempts = Append(guesses, 0)[k]
                        /\ Append(guesses, 0)[k] <= MaxAttempts
                        /\ Append(uses, 0)[k] > 0 => rows[k].consumed
    OBVIOUS
  <2>2. CASE k = n + 1
    BY <1>3, <1>5, <1>6, <1>7, <2>2, CodesAssumption
  <2>3. CASE k \in 1..n
    <3>1. /\ Append(uses, 0)[k] = uses[k] /\ Append(guesses, 0)[k] = guesses[k]
          /\ rows[k] = UsedUp(old)[k]
      BY <1>5, <1>6, <1>7, <2>3
    <3>2. k \in DOMAIN codes \ crossed
      BY <1>5, <2>3
    <3>3. UsedUp(old)[k].attempts = codes[k].attempts
          /\ (codes[k].consumed => UsedUp(old)[k].consumed)
      BY <3>2, UsedUpRows
    <3>4. /\ uses[k] <= 1 /\ codes[k].attempts = guesses[k] /\ guesses[k] <= MaxAttempts
          /\ uses[k] > 0 => codes[k].consumed
      BY <3>2 DEF CodeBudget, UsedAreConsumed
    <3> QED BY <3>1, <3>3, <3>4
  <2> QED BY <1>5, <1>6, <2>2, <2>3
<1>10. /\ Len(rows) <= MaxCodes /\ n <= Len(rows)
       /\ Len(Append(guesses, 0)) = Len(rows) /\ Len(Append(uses, 0)) = Len(rows)
       /\ Append(guesses, 0) \in Seq(Nat) /\ Append(uses, 0) \in Seq(Nat)
  BY <1>1, <1>5, <1>6, <1>7, CodesAssumption
<1> HIDE DEF rows, old
<1>11. QED
  BY <1>1, <1>2, <1>6, <1>8, <1>9, <1>10, QuietShape, WritingKeeps

\* One more of a tally.
LEMMA CountTally ==
    ASSUME NEW tally \in Seq(Nat), NEW m \in DOMAIN tally
    PROVE  /\ Count(tally, m) \in Seq(Nat) /\ Len(Count(tally, m)) = Len(tally)
           /\ Count(tally, m)[m] = tally[m] + 1
           /\ \A k \in DOMAIN tally \ {m} : Count(tally, m)[k] = tally[k]
BY DEF Count

LEMMA CloseCodeKeeps ==
    ASSUME CodesInv, NEW c \in Callers, CloseCode(c)
    PROVE  CodesInv'
<1> DEFINE j == ask[c].code
           rows == UsedUp({j})
<1> USE DEF CodesInv
<1>1. Write(c, rows, {j}, guesses, uses) /\ Turns(c, Quiet) /\ j \in DOMAIN codes
  BY DEF CloseCode, HeldAreCodes, Holding
<1>2. /\ rows \in Seq(Code) /\ Len(rows) = Len(codes) /\ DOMAIN rows = DOMAIN codes
      /\ \A k \in DOMAIN codes : /\ rows[k].attempts = codes[k].attempts
                                 /\ codes[k].consumed => rows[k].consumed
                                 /\ k # j => rows[k].consumed = codes[k].consumed
  <2> HIDE DEF j
  <2> QED BY UsedUpRows
<1>3. /\ guesses \in Seq(Nat) /\ uses \in Seq(Nat) /\ Len(codes) <= MaxCodes
      /\ Len(guesses) = Len(codes) /\ Len(uses) = Len(codes) /\ Len(codes) \in Nat
  <2>1. Len(codes) \in Nat
    BY <1>1, CodeShape
  <2> QED BY <2>1 DEF CodesTypeOK
<1> HIDE DEF rows, j
<1>4. \A k \in DOMAIN rows \ crossed :
        /\ uses[k] <= 1 /\ rows[k].attempts = guesses[k] /\ guesses[k] <= MaxAttempts
        /\ uses[k] > 0 => rows[k].consumed
  BY <1>2 DEF CodeBudget, UsedAreConsumed
<1>5. \A k \in DOMAIN codes \ {j} :
        rows[k].attempts = codes[k].attempts /\ rows[k].consumed = codes[k].consumed
  BY <1>2
<1>6. /\ {j} \subseteq DOMAIN codes /\ Len(rows) <= MaxCodes /\ Len(codes) <= Len(rows)
      /\ Len(guesses) = Len(rows) /\ Len(uses) = Len(rows)
  BY <1>1, <1>2, <1>3
<1> DEFINE touched == {j}
<1>7. /\ Write(c, rows, touched, guesses, uses) /\ touched \subseteq DOMAIN codes
      /\ \A k \in DOMAIN codes \ touched :
           rows[k].attempts = codes[k].attempts /\ rows[k].consumed = codes[k].consumed
  BY <1>1, <1>5
<1> HIDE DEF touched
<1>8. QED
  BY <1>1, <1>2, <1>3, <1>4, <1>6, <1>7, QuietShape, WritingKeeps

LEMMA ConsumeKeeps ==
    ASSUME CodesInv, NEW c \in Callers, Consume(c)
    PROVE  CodesInv'
<1> DEFINE j == ask[c].code
           rows == UsedUp({j})
           used == Count(uses, j)
<1> USE DEF CodesInv
<1>1. /\ Write(c, rows, {j}, guesses, used) /\ Turns(c, [at |-> "setting"])
      /\ j \in DOMAIN codes /\ (j \notin crossed => ~codes[j].consumed)
  BY DEF Consume, HeldAreCodes, HeldAreFresh, Holding
<1>2. /\ rows \in Seq(Code) /\ Len(rows) = Len(codes) /\ DOMAIN rows = DOMAIN codes
      /\ rows[j].consumed
      /\ \A k \in DOMAIN codes : /\ rows[k].attempts = codes[k].attempts
                                 /\ codes[k].consumed => rows[k].consumed
                                 /\ k # j => rows[k].consumed = codes[k].consumed
  <2> HIDE DEF j
  <2> QED BY <1>1, UsedUpRows
<1>3. /\ guesses \in Seq(Nat) /\ uses \in Seq(Nat) /\ Len(codes) <= MaxCodes
      /\ Len(guesses) = Len(codes) /\ Len(uses) = Len(codes) /\ Len(codes) \in Nat
      /\ DOMAIN uses = DOMAIN codes
  <2>1. Len(codes) \in Nat /\ DOMAIN uses = DOMAIN codes
    BY <1>1, CodeShape
  <2> QED BY <2>1 DEF CodesTypeOK
<1> HIDE DEF rows, j
<1>4. /\ used \in Seq(Nat) /\ Len(used) = Len(codes) /\ used[j] = uses[j] + 1
      /\ \A k \in DOMAIN codes \ {j} : used[k] = uses[k]
  <2>1. j \in DOMAIN uses /\ uses \in Seq(Nat)
    BY <1>1, <1>3
  <2>2. /\ used \in Seq(Nat) /\ Len(used) = Len(uses) /\ used[j] = uses[j] + 1
        /\ \A k \in DOMAIN uses \ {j} : used[k] = uses[k]
    BY <2>1, CountTally
  <2> QED BY <1>3, <2>2
<1>5. j \notin crossed => uses[j] = 0
  BY <1>1, CodeShape DEF UsedAreConsumed
<1> HIDE DEF used
<1>6. \A k \in DOMAIN rows \ crossed :
        /\ used[k] <= 1 /\ rows[k].attempts = guesses[k] /\ guesses[k] <= MaxAttempts
        /\ used[k] > 0 => rows[k].consumed
  BY <1>2, <1>4, <1>5 DEF CodeBudget, UsedAreConsumed
<1>7. \A k \in DOMAIN codes \ {j} :
        rows[k].attempts = codes[k].attempts /\ rows[k].consumed = codes[k].consumed
  BY <1>2
<1>8. /\ {j} \subseteq DOMAIN codes /\ Len(rows) <= MaxCodes /\ Len(codes) <= Len(rows)
      /\ Len(guesses) = Len(rows) /\ Len(used) = Len(rows)
      /\ [at |-> "setting"].at = "setting"
  BY <1>1, <1>2, <1>3, <1>4
<1> DEFINE touched == {j}
<1>9. /\ Write(c, rows, touched, guesses, used) /\ touched \subseteq DOMAIN codes
      /\ \A k \in DOMAIN codes \ touched :
           rows[k].attempts = codes[k].attempts /\ rows[k].consumed = codes[k].consumed
  BY <1>1, <1>7
<1> HIDE DEF touched
<1>10. QED
  BY <1>1, <1>2, <1>3, <1>4, <1>6, <1>8, <1>9, QuietShape, WritingKeeps

\* An answer is counted in the row and in the tally alike.
LEMMA AnswerKeeps ==
    ASSUME CodesInv, NEW c \in Callers, ask[c].at = "answering", Turns(c, Quiet),
           NEW row, NEW used, row \in Code, row.attempts = ask[c].attempts,
           codes[ask[c].code].consumed => row.consumed,
           Write(c, [codes EXCEPT ![ask[c].code] = row], {ask[c].code},
                 Count(guesses, ask[c].code), used),
           \/ used = uses
           \/ (used = Count(uses, ask[c].code) /\ row.consumed)
    PROVE  CodesInv'
<1> DEFINE j == ask[c].code
           rows == [codes EXCEPT ![j] = row]
           answered == Count(guesses, j)
<1> USE DEF CodesInv
<1>1. /\ j \in DOMAIN codes
      /\ j \notin crossed => ~codes[j].consumed /\ row.attempts = codes[j].attempts + 1
      /\ row.attempts <= MaxAttempts
  <2>1. Holding(c) /\ j \in DOMAIN codes
    BY DEF HeldAreCodes, Holding
  <2>2. ask[c].attempts <= MaxAttempts
    BY AskShape, CodesAssumption
  <2> QED BY <2>1, <2>2 DEF HeldAreFresh
<1>2. /\ guesses \in Seq(Nat) /\ uses \in Seq(Nat) /\ Len(codes) <= MaxCodes
      /\ Len(guesses) = Len(codes) /\ Len(uses) = Len(codes) /\ Len(codes) \in Nat
      /\ DOMAIN uses = DOMAIN codes /\ DOMAIN guesses = DOMAIN codes
  <2>1. Len(codes) \in Nat /\ DOMAIN uses = DOMAIN codes /\ DOMAIN guesses = DOMAIN codes
    BY <1>1, CodeShape
  <2> QED BY <2>1 DEF CodesTypeOK
<1> HIDE DEF j
<1>3. /\ rows \in Seq(Code) /\ Len(rows) = Len(codes) /\ DOMAIN rows = DOMAIN codes
      /\ rows[j] = row /\ \A k \in DOMAIN codes \ {j} : rows[k] = codes[k]
  <2> DEFINE R == Code
  <2>1. codes \in Seq(R) /\ row \in R
    BY DEF CodesTypeOK
  <2> HIDE DEF R
  <2>2. rows \in Seq(R) /\ Len(rows) = Len(codes) /\ DOMAIN rows = DOMAIN codes
    BY <1>1, <2>1
  <2> QED BY <1>1, <2>2 DEF R
<1>4. /\ answered \in Seq(Nat) /\ Len(answered) = Len(codes) /\ answered[j] = guesses[j] + 1
      /\ \A k \in DOMAIN codes \ {j} : answered[k] = guesses[k]
  <2>1. j \in DOMAIN guesses /\ guesses \in Seq(Nat)
    BY <1>1, <1>2
  <2>2. /\ answered \in Seq(Nat) /\ Len(answered) = Len(guesses)
        /\ answered[j] = guesses[j] + 1
        /\ \A k \in DOMAIN guesses \ {j} : answered[k] = guesses[k]
    BY <2>1, CountTally
  <2> QED BY <1>2, <2>2
<1>5. /\ used \in Seq(Nat) /\ Len(used) = Len(codes)
      /\ \A k \in DOMAIN codes \ {j} : used[k] = uses[k]
      /\ used[j] = uses[j] \/ (used[j] = uses[j] + 1 /\ row.consumed)
  <2>1. CASE used = uses
    BY <1>2, <2>1
  <2>2. CASE used = Count(uses, j) /\ row.consumed
    <3>1. j \in DOMAIN uses /\ uses \in Seq(Nat)
      BY <1>1, <1>2
    <3>2. /\ Count(uses, j) \in Seq(Nat) /\ Len(Count(uses, j)) = Len(uses)
          /\ Count(uses, j)[j] = uses[j] + 1
          /\ \A k \in DOMAIN uses \ {j} : Count(uses, j)[k] = uses[k]
      BY <3>1, CountTally
    <3> QED BY <1>2, <2>2, <3>2
  <2> QED BY <2>1, <2>2 DEF j
<1>6. j \notin crossed => uses[j] = 0 /\ row.attempts = guesses[j] + 1
  BY <1>1, CodeShape DEF UsedAreConsumed, CodeBudget
<1>7. Write(c, rows, {j}, answered, used)
  BY DEF j
<1> HIDE DEF rows, answered
<1>8. \A k \in DOMAIN rows \ crossed :
        /\ used[k] <= 1 /\ rows[k].attempts = answered[k] /\ answered[k] <= MaxAttempts
        /\ used[k] > 0 => rows[k].consumed
  <2>1. SUFFICES ASSUME NEW k \in DOMAIN rows \ crossed
                 PROVE  /\ used[k] <= 1 /\ rows[k].attempts = answered[k]
                        /\ answered[k] <= MaxAttempts
                        /\ used[k] > 0 => rows[k].consumed
    OBVIOUS
  <2>2. CASE k = j
    BY <1>1, <1>3, <1>4, <1>5, <1>6, <2>1, <2>2
  <2>3. CASE k # j
    BY <1>3, <1>4, <1>5, <2>1, <2>3 DEF CodeBudget, UsedAreConsumed
  <2> QED BY <2>2, <2>3
<1>9. \A k \in DOMAIN codes \ {j} :
        rows[k].attempts = codes[k].attempts /\ rows[k].consumed = codes[k].consumed
  BY <1>3
<1>10. /\ {j} \subseteq DOMAIN codes /\ Len(rows) <= MaxCodes /\ Len(codes) <= Len(rows)
       /\ Len(answered) = Len(rows) /\ Len(used) = Len(rows)
  BY <1>1, <1>2, <1>3, <1>4, <1>5
<1> DEFINE touched == {j}
<1>11. /\ Write(c, rows, touched, answered, used) /\ touched \subseteq DOMAIN codes
       /\ \A k \in DOMAIN codes \ touched :
            rows[k].attempts = codes[k].attempts /\ rows[k].consumed = codes[k].consumed
  BY <1>1, <1>7, <1>9
<1> HIDE DEF touched
<1>12. QED
  BY <1>3, <1>4, <1>5, <1>8, <1>10, <1>11, QuietShape, WritingKeeps

LEMMA VerifyResetKeeps ==
    ASSUME CodesInv, NEW c \in Callers, VerifyReset(c)
    PROVE  CodesInv'
<1> DEFINE j == ask[c].code
           b == codes[j].verified \/ ask[c].right
           row == [codes[j] EXCEPT !.attempts = ask[c].attempts, !.verified = b]
<1>1. /\ Write(c, [codes EXCEPT ![j] = row], {j}, Count(guesses, j), uses)
      /\ Turns(c, Quiet) /\ ask[c].at = "answering"
  BY DEF VerifyReset
<1>2. j \in DOMAIN codes
  BY <1>1 DEF CodesInv, HeldAreCodes, Holding
<1>3. /\ codes[j] \in Code /\ codes[j].verified \in BOOLEAN
      /\ ask[c].attempts \in 0..MaxAttempts /\ ask[c].right \in BOOLEAN
  BY <1>1, <1>2, CodeShape, AskShape, CodesAssumption DEF CodesInv
<1>4. b \in BOOLEAN
  OBVIOUS
<1>5. row \in Code /\ row.attempts = ask[c].attempts /\ row.consumed = codes[j].consumed
  <2> DEFINE r == codes[j]
             n == ask[c].attempts
  <2>1. r \in Code /\ n \in 0..MaxAttempts
    BY <1>3
  <2> HIDE DEF b, r, n
  <2>2. row = [r EXCEPT !.attempts = n, !.verified = b]
    BY DEF r, n
  <2> HIDE DEF row
  <2>3. row \in Code
    BY <1>4, <2>1, <2>2 DEF Code
  <2>4. row.attempts = n /\ row.consumed = r.consumed
    BY <1>4, <2>1, <2>2 DEF Code
  <2> QED BY <2>3, <2>4 DEF r, n
<1> HIDE DEF row
<1>6. QED
  BY <1>1, <1>5, AnswerKeeps

LEMMA VerifyAndIssueKeeps ==
    ASSUME CodesInv, NEW c \in Callers, VerifyAndIssue(c)
    PROVE  CodesInv'
<1> DEFINE j == ask[c].code
           b == codes[j].consumed \/ ask[c].right
           row == [codes[j] EXCEPT !.attempts = ask[c].attempts, !.consumed = b]
           used == IF ask[c].right THEN Count(uses, j) ELSE uses
<1>1. /\ Write(c, [codes EXCEPT ![j] = row], {j}, Count(guesses, j), used)
      /\ Turns(c, Quiet) /\ ask[c].at = "answering"
  BY DEF VerifyAndIssue
<1>2. j \in DOMAIN codes
  BY <1>1 DEF CodesInv, HeldAreCodes, Holding
<1>3. /\ codes[j] \in Code /\ codes[j].consumed \in BOOLEAN
      /\ ask[c].attempts \in 0..MaxAttempts /\ ask[c].right \in BOOLEAN
  BY <1>1, <1>2, CodeShape, AskShape, CodesAssumption DEF CodesInv
<1>4. b \in BOOLEAN
  OBVIOUS
<1>5. /\ row \in Code /\ row.attempts = ask[c].attempts
      /\ row.consumed = b
  <2> DEFINE r == codes[j]
             n == ask[c].attempts
  <2>1. r \in Code /\ n \in 0..MaxAttempts
    BY <1>3
  <2> HIDE DEF b, r, n
  <2>2. row = [r EXCEPT !.attempts = n, !.consumed = b]
    BY DEF r, n
  <2> HIDE DEF row
  <2>3. row \in Code
    BY <1>4, <2>1, <2>2 DEF Code
  <2>4. row.attempts = n /\ row.consumed = b
    BY <1>4, <2>1, <2>2 DEF Code
  <2> QED BY <2>3, <2>4 DEF r, n
<1>6. used = uses \/ (used = Count(uses, j) /\ row.consumed)
  BY <1>5
<1> HIDE DEF row, used
<1>7. QED
  BY <1>1, <1>5, <1>6, AnswerKeeps

LEMMA LapseKeeps ==
    ASSUME CodesInv, NEW k \in DOMAIN codes, Lapse(k)
    PROVE  CodesInv'
<1> USE DEF CodesInv
<1>1. codes' = [codes EXCEPT ![k].expired = TRUE]
      /\ UNCHANGED <<kind, ask, guesses, uses, crossed>>
  BY DEF Lapse
<1> DEFINE row == [codes[k] EXCEPT !.expired = TRUE]
           R == Code
<1>2. codes' = [codes EXCEPT ![k] = row] /\ codes \in Seq(R)
  BY <1>1 DEF CodesTypeOK
<1>3. row \in R /\ row.attempts = codes[k].attempts /\ row.consumed = codes[k].consumed
  <2>1. codes[k] \in Code
    BY CodeShape
  <2>2. ASSUME NEW r \in Code
        PROVE  /\ [r EXCEPT !.expired = TRUE] \in Code
               /\ [r EXCEPT !.expired = TRUE].attempts = r.attempts
               /\ [r EXCEPT !.expired = TRUE].consumed = r.consumed
    BY DEF Code
  <2> QED BY <2>1, <2>2, Zenon
<1> HIDE DEF row
<1>4. codes' \in Seq(R) /\ Len(codes') = Len(codes) /\ DOMAIN codes' = DOMAIN codes
  <2> HIDE DEF R
  <2> QED BY <1>2, <1>3
<1>5. \A j \in DOMAIN codes :
        codes'[j].attempts = codes[j].attempts /\ codes'[j].consumed = codes[j].consumed
  <2>1. SUFFICES ASSUME NEW j \in DOMAIN codes
                 PROVE  /\ codes'[j].attempts = codes[j].attempts
                        /\ codes'[j].consumed = codes[j].consumed
    OBVIOUS
  <2>2. CASE j = k
    <3>1. codes'[j] = row
      BY <1>2, <2>2, Zenon
    <3> QED BY <1>3, <2>2, <3>1
  <2>3. CASE j # k
    <3>1. codes'[j] = codes[j]
      BY <1>2, <2>3, Zenon
    <3> QED BY <3>1
  <2> QED BY <2>2, <2>3
<1>6. CodesTypeOK'
  BY <1>1, <1>4 DEF CodesTypeOK
<1>7. HeldAreCodes'
  BY <1>1, <1>4 DEF HeldAreCodes, Holding
<1>8. HeldAreFresh'
  <2>1. SUFFICES ASSUME NEW d \in Callers, Holding(d), ask[d].code \notin crossed
                 PROVE  /\ ~codes'[ask[d].code].consumed
                        /\ ask[d].at = "answering" =>
                             ask[d].attempts = codes'[ask[d].code].attempts + 1
    BY <1>1 DEF HeldAreFresh, Holding
  <2>2. ask[d].code \in DOMAIN codes
    BY <2>1 DEF HeldAreCodes
  <2>3. /\ ~codes[ask[d].code].consumed
        /\ ask[d].at = "answering" => ask[d].attempts = codes[ask[d].code].attempts + 1
    BY <2>1 DEF HeldAreFresh
  <2> QED BY <1>5, <2>2, <2>3, Zenon
<1>9. UsedAreConsumed' /\ CodeBudget'
  <2>1. SUFFICES ASSUME NEW j \in DOMAIN codes \ crossed
                 PROVE  /\ uses[j] > 0 => codes'[j].consumed
                        /\ uses[j] <= 1 /\ codes'[j].attempts = guesses[j]
                        /\ guesses[j] <= MaxAttempts
    BY <1>1, <1>4 DEF UsedAreConsumed, CodeBudget
  <2>2. /\ uses[j] > 0 => codes[j].consumed
        /\ uses[j] <= 1 /\ codes[j].attempts = guesses[j] /\ guesses[j] <= MaxAttempts
    BY <2>1 DEF UsedAreConsumed, CodeBudget
  <2> QED BY <1>5, <2>1, <2>2, Zenon
<1>10. QED
  BY <1>6, <1>7, <1>8, <1>9

(****************************** the theorems *********************************)
LEMMA CodesInitInv == CodesInit => CodesInv
<1>1. SUFFICES ASSUME CodesInit PROVE CodesInv
  OBVIOUS
<1>2. /\ codes = <<>> /\ guesses = <<>> /\ uses = <<>> /\ crossed = {}
      /\ \A d \in Callers : ask[d] = Quiet
  BY <1>1 DEF CodesInit
<1>3. DOMAIN codes = {} /\ Len(codes) = 0 /\ Len(guesses) = 0 /\ Len(uses) = 0
  BY <1>2
<1>4. CodesTypeOK
  <2>1. ask \in [Callers -> Ask]
    BY <1>1, QuietShape DEF CodesInit
  <2> QED BY <1>1, <1>2, <1>3, <2>1, CodesAssumption DEF CodesInit, CodesTypeOK
<1>5. HeldAreCodes /\ HeldAreFresh
  BY <1>2, QuietShape DEF HeldAreCodes, HeldAreFresh, Holding
<1>6. UsedAreConsumed /\ CodeBudget
  BY <1>3 DEF UsedAreConsumed, CodeBudget
<1>7. QED
  BY <1>4, <1>5, <1>6 DEF CodesInv

LEMMA CodesNextInv == CodesInv /\ [CodesNext]_codesVars => CodesInv'
<1>1. SUFFICES ASSUME CodesInv, [CodesNext]_codesVars PROVE CodesInv'
  OBVIOUS
<1>2. CASE UNCHANGED codesVars
  BY <1>1, <1>2 DEF codesVars, CodesInv, CodesTypeOK, HeldAreCodes, HeldAreFresh,
     UsedAreConsumed, CodeBudget, Holding
<1>3. ASSUME NEW c \in Callers, RequestReset(c) \/ RequestAgentCode(c) PROVE CodesInv'
  BY <1>1, <1>3, InvalidateKeeps DEF RequestReset, RequestAgentCode
<1>4. ASSUME NEW c \in Callers, CreateCode(c) PROVE CodesInv'
  BY <1>1, <1>4, CreateCodeKeeps
<1>5. ASSUME NEW c \in Callers, AnswerReset(c) \/ AnswerAgentCode(c) PROVE CodesInv'
  BY <1>1, <1>5, JudgeKeeps, NewestIsLive DEF AnswerReset, AnswerAgentCode, CodesInv
<1>6. ASSUME NEW c \in Callers, CloseCode(c) PROVE CodesInv'
  BY <1>1, <1>6, CloseCodeKeeps
<1>7. ASSUME NEW c \in Callers, VerifyReset(c) PROVE CodesInv'
  BY <1>1, <1>7, VerifyResetKeeps
<1>8. ASSUME NEW c \in Callers, VerifyAndIssue(c) PROVE CodesInv'
  BY <1>1, <1>8, VerifyAndIssueKeeps
<1>9. ASSUME NEW c \in Callers, ConfirmReset(c) PROVE CodesInv'
  BY <1>1, <1>9, ConfirmResetKeeps
<1>10. ASSUME NEW c \in Callers, Consume(c) PROVE CodesInv'
  BY <1>1, <1>10, ConsumeKeeps
<1>11. ASSUME NEW c \in Callers, SetPassword(c) \/ CodeRequestFails(c) PROVE CodesInv'
  BY <1>1, <1>11, BackToQuietKeeps DEF SetPassword, CodeRequestFails
<1>12. ASSUME NEW k \in DOMAIN codes, Lapse(k) PROVE CodesInv'
  BY <1>1, <1>12, LapseKeeps
<1>13. QED
  BY <1>1, <1>2, <1>3, <1>4, <1>5, <1>6, <1>7, <1>8, <1>9, <1>10, <1>11, <1>12 DEF CodesNext

\* Every row, tally and request stays of its kind.
THEOREM CodesTypeCorrect == CodesSpec => []CodesTypeOK
<1>1. CodesInv => CodesTypeOK
  BY DEF CodesInv
<1>2. QED
  BY <1>1, CodesInitInv, CodesNextInv, PTL DEF CodesSpec

\* A code that no two requests wrote across each other opens its door at most
\* once, counts every answer, and takes no more than otp_max_attempts of them.
THEOREM CodeBudgetThm == CodesSpec => []CodeBudget
<1>1. CodesInv => CodeBudget
  BY DEF CodesInv
<1>2. QED
  BY <1>1, CodesInitInv, CodesNextInv, PTL DEF CodesSpec

(****************************** signing in ***********************************)
Challenge == [who : People, expires : Nat, tries : Nat]
\* The challenges account p could still answer.
Live(p) == {t \in DOMAIN store : store[t].who = p /\ ~Lapsed(t)}

StoreOK ==
    /\ clock \in 0..MaxClock /\ made \in 0..MaxMade
    /\ DOMAIN store \subseteq 1..made /\ \A t \in DOMAIN store : store[t] \in Challenge
    /\ tries \in [Challenges -> Nat] /\ wins \in [Challenges -> Nat]
\* The store counts the answers, and what it holds has opened nothing.
StoreCounts == \A t \in DOMAIN store : store[t].tries = tries[t] /\ wins[t] = 0
UnmadeUnused == \A t \in Challenges : t > made => tries[t] = 0 /\ wins[t] = 0
Bounded == \A t \in Challenges : tries[t] <= MaxTries /\ wins[t] <= 1
LiveShare == \A p \in People : Cardinality(Live(p)) <= MaxLive

StoreInv == StoreOK /\ StoreCounts /\ UnmadeUnused /\ Bounded /\ LiveShare

VisitsOK ==
    /\ signing \in 1..LastKey /\ certs \subseteq 1..LastKey /\ fresh \in BOOLEAN
    /\ mfa \subseteq People /\ visit \in [Clients -> Visit]

(****************************** the store ************************************)
LEMMA StoreShape ==
    ASSUME StoreOK, NEW t \in DOMAIN store
    PROVE  /\ store[t] \in Challenge /\ store[t].who \in People
           /\ store[t].expires \in Nat /\ store[t].tries \in Nat
           /\ t \in Nat /\ t <= made /\ t \in Challenges
           /\ tries[t] \in Nat /\ wins[t] \in Nat /\ made \in Nat /\ clock \in Nat
<1>1. store[t] \in Challenge /\ made \in 0..MaxMade /\ t \in 1..made
  BY DEF StoreOK
<1>2. t \in Challenges /\ t \in Nat /\ t <= made /\ made \in Nat /\ clock \in Nat
  BY <1>1, SignInAssumption DEF Challenges, StoreOK
<1>3. store[t].who \in People /\ store[t].expires \in Nat /\ store[t].tries \in Nat
  BY <1>1 DEF Challenge
<1>4. QED
  BY <1>1, <1>2, <1>3 DEF StoreOK

LEMMA LiveIsFinite ==
    ASSUME StoreOK, NEW p
    PROVE  IsFiniteSet(Live(p)) /\ Cardinality(Live(p)) \in Nat
<1>1. made \in Nat
  BY SignInAssumption DEF StoreOK
<1>2. IsFiniteSet(1..made)
  BY <1>1, FS_Interval
<1>3. Live(p) \subseteq 1..made
  BY DEF Live, StoreOK
<1>4. QED
  BY <1>2, <1>3, FS_Subset, FS_CardinalityType

\* Challenges that are dropped, answered or lapse leave nobody more of them.
LEMMA ShareKept ==
    ASSUME StoreOK, LiveShare, clock' \in Nat, clock <= clock',
           DOMAIN store' \subseteq DOMAIN store,
           \A t \in DOMAIN store' : /\ store'[t].who = store[t].who
                                    /\ store'[t].expires = store[t].expires
    PROVE  LiveShare'
<1>1. SUFFICES ASSUME NEW p \in People PROVE Cardinality(Live(p))' <= MaxLive
  BY DEF LiveShare
<1>2. ASSUME NEW t \in Live(p)' PROVE t \in Live(p)
  <2>1. t \in DOMAIN store' /\ t \in DOMAIN store /\ store'[t].who = p /\ ~Lapsed(t)'
    BY <1>2 DEF Live
  <2>2. /\ store[t].expires \in Nat /\ clock \in Nat /\ store'[t].expires = store[t].expires
        /\ store[t].who = p
    BY <2>1, StoreShape
  <2>3. ~Lapsed(t)
    BY <2>1, <2>2 DEF Lapsed
  <2> QED BY <2>1, <2>2, <2>3 DEF Live
<1>3. Live(p)' \subseteq Live(p)
  BY <1>2
<1>4. IsFiniteSet(Live(p)) /\ Cardinality(Live(p)) \in Nat /\ Cardinality(Live(p)) <= MaxLive
  BY LiveIsFinite DEF LiveShare
<1>5. /\ IsFiniteSet(Live(p)') /\ Cardinality(Live(p)') <= Cardinality(Live(p))
  BY <1>3, <1>4, FS_Subset
<1>6. Cardinality(Live(p)') \in Nat
  BY <1>5, FS_CardinalityType
<1>7. QED
  BY <1>4, <1>5, <1>6, SignInAssumption

\* Dropping challenges, for whatever reason.
LEMMA DroppingKeeps ==
    ASSUME StoreInv, NEW S \in SUBSET (DOMAIN store), store' = Kept(S),
           UNCHANGED <<clock, made>>, tries' \in [Challenges -> Nat],
           wins' \in [Challenges -> Nat], Bounded',
           \A t \in Challenges : t > made => tries'[t] = tries[t] /\ wins'[t] = wins[t],
           \A t \in S : tries'[t] = tries[t] /\ wins'[t] = wins[t]
    PROVE  StoreInv'
<1>1. DOMAIN store' = S /\ \A t \in S : store'[t] = store[t]
  BY DEF Kept
<1>2. StoreOK /\ clock \in Nat /\ S \subseteq DOMAIN store
  BY SignInAssumption DEF StoreInv, StoreOK
<1>3. StoreOK'
  BY <1>1, <1>2 DEF StoreOK
<1>4. StoreCounts'
  BY <1>1, <1>2 DEF StoreInv, StoreCounts
<1>5. UnmadeUnused'
  BY DEF StoreInv, UnmadeUnused
<1>6. LiveShare'
  BY <1>1, <1>2, ShareKept DEF StoreInv
<1>7. QED
  BY <1>3, <1>4, <1>5, <1>6 DEF StoreInv

LEMMA CreatingKeeps ==
    ASSUME StoreInv, NEW who \in People, CreateChallenge(who), UNCHANGED <<clock, tries, wins>>
    PROVE  StoreInv'
<1> DEFINE live == {t \in DOMAIN store : ~Lapsed(t)}
           mine == {t \in live : store[t].who = who}
<1>0. StoreOK /\ mine = Live(who) /\ clock \in Nat /\ made \in Nat
  BY SignInAssumption DEF StoreInv, StoreOK, Live
<1>1. CASE store' = Kept(live) /\ UNCHANGED made
  <2>1. live \in SUBSET (DOMAIN store)
    OBVIOUS
  <2>2. /\ tries' \in [Challenges -> Nat] /\ wins' \in [Challenges -> Nat] /\ Bounded'
        /\ \A t \in Challenges : t > made => tries'[t] = tries[t] /\ wins'[t] = wins[t]
        /\ \A t \in live : tries'[t] = tries[t] /\ wins'[t] = wins[t]
    BY DEF StoreInv, StoreOK, Bounded
  <2> HIDE DEF live
  <2> QED BY <1>1, <2>1, <2>2, DroppingKeeps
<1>2. ASSUME Cardinality(mine) < MaxLive, made < MaxMade, made' = made + 1,
             store' = [t \in live \cup {made + 1} |->
                IF t \in live THEN store[t]
                ELSE [who |-> who, expires |-> clock + Lifetime, tries |-> 0]]
      PROVE  StoreInv'
  <2> DEFINE new == [who |-> who, expires |-> clock + Lifetime, tries |-> 0]
  <2>1. PICK n \in Nat : n = made + 1
    BY <1>0
  <2>2. /\ n \notin live /\ n \in Challenges /\ live \subseteq DOMAIN store /\ n > made
    BY <1>0, <1>2, <2>1, SignInAssumption DEF StoreOK, Challenges
  <2>3. /\ new \in Challenge /\ new.who = who /\ new.tries = 0
    BY <1>0, SignInAssumption DEF Challenge
  <2>4. /\ DOMAIN store' = live \cup {n} /\ store'[n] = new
        /\ \A t \in live : store'[t] = store[t]
    BY <1>2, <2>1, <2>2
  <2> HIDE DEF new
  <2>5. StoreOK'
    <3>1. made' \in 0..MaxMade /\ 1..made \subseteq 1..made' /\ n \in 1..made'
      BY <1>0, <1>2, <2>1, SignInAssumption DEF StoreOK
    <3>2. DOMAIN store' \subseteq 1..made'
      BY <1>0, <2>2, <2>4, <3>1 DEF StoreOK
    <3>3. \A t \in DOMAIN store' : store'[t] \in Challenge
      BY <1>0, <2>2, <2>3, <2>4 DEF StoreOK
    <3> QED BY <1>0, <3>1, <3>2, <3>3 DEF StoreOK
  <2>6. StoreCounts'
    <3>1. tries[n] = 0 /\ wins[n] = 0
      BY <2>2 DEF StoreInv, UnmadeUnused
    <3> QED BY <2>2, <2>3, <2>4, <3>1 DEF StoreInv, StoreCounts
  <2>7. UnmadeUnused' /\ Bounded'
    <3>1. \A t \in Challenges : t \in Nat
      BY SignInAssumption DEF Challenges
    <3>2. UnmadeUnused'
      BY <1>0, <1>2, <3>1 DEF StoreInv, UnmadeUnused
    <3> QED BY <3>2 DEF StoreInv, Bounded
  <2>8. LiveShare'
    <3>1. SUFFICES ASSUME NEW p \in People PROVE Cardinality(Live(p))' <= MaxLive
      BY DEF LiveShare
    <3>2. /\ IsFiniteSet(Live(p)) /\ Cardinality(Live(p)) \in Nat
          /\ Cardinality(Live(p)) <= MaxLive
      BY <1>0, LiveIsFinite DEF StoreInv, LiveShare
    <3>3. \A t \in live : Lapsed(t)' = Lapsed(t)
      BY <2>4 DEF Lapsed
    <3>4. Live(p)' \subseteq Live(p) \cup {n}
      BY <2>2, <2>4, <3>3 DEF Live
    <3>5. CASE p = who
      <4>1. n \notin Live(p) /\ Cardinality(Live(p)) < MaxLive
        BY <1>0, <1>2, <2>2, <3>5 DEF Live
      <4>2. /\ IsFiniteSet(Live(p) \cup {n})
            /\ Cardinality(Live(p) \cup {n}) = Cardinality(Live(p)) + 1
        BY <3>2, <4>1, FS_AddElement
      <4>3. IsFiniteSet(Live(p)') /\ Cardinality(Live(p)') <= Cardinality(Live(p) \cup {n})
        BY <3>4, <4>2, FS_Subset
      <4>4. Cardinality(Live(p)') \in Nat
        BY <4>3, FS_CardinalityType
      <4> QED BY <3>2, <4>1, <4>2, <4>3, <4>4, SignInAssumption
    <3>6. CASE p # who
      <4>1. n \notin Live(p)'
        BY <2>3, <2>4, <3>6 DEF Live
      <4>2. Live(p)' \subseteq Live(p)
        BY <3>4, <4>1
      <4>3. IsFiniteSet(Live(p)') /\ Cardinality(Live(p)') <= Cardinality(Live(p))
        BY <3>2, <4>2, FS_Subset
      <4>4. Cardinality(Live(p)') \in Nat
        BY <4>3, FS_CardinalityType
      <4> QED BY <3>2, <4>3, <4>4, SignInAssumption
    <3> QED BY <3>5, <3>6
  <2> QED BY <2>5, <2>6, <2>7, <2>8 DEF StoreInv
<1>3. QED
  BY <1>1, <1>2 DEF CreateChallenge

LEMMA AnsweringKeeps ==
    ASSUME StoreInv, NEW t \in DOMAIN store, NEW right \in BOOLEAN, Answer(t, right),
           UNCHANGED <<clock, made>>
    PROVE  StoreInv'
<1>0. StoreOK
  BY DEF StoreInv
<1> DEFINE S == DOMAIN store \ {t}
           r == store[t]
<1>1. /\ r \in Challenge /\ r.tries \in Nat /\ r.expires \in Nat /\ r.tries = tries[t]
      /\ wins[t] = 0 /\ t \in Challenges /\ t <= made /\ t \in Nat /\ made \in Nat
  BY <1>0, StoreShape DEF StoreInv, StoreCounts
<1>2. CASE Spent(t) /\ Drop(t) /\ UNCHANGED <<tries, wins>>
  <2>1. S \in SUBSET (DOMAIN store) /\ store' = Kept(S)
    BY <1>2 DEF Drop
  <2>2. /\ tries' \in [Challenges -> Nat] /\ wins' \in [Challenges -> Nat] /\ Bounded'
        /\ \A w \in Challenges : w > made => tries'[w] = tries[w] /\ wins'[w] = wins[w]
        /\ \A w \in S : tries'[w] = tries[w] /\ wins'[w] = wins[w]
    BY <1>2 DEF StoreInv, StoreOK, Bounded
  <2> HIDE DEF S
  <2> QED BY <1>2, <2>1, <2>2, DroppingKeeps
<1>3. CASE /\ ~Spent(t) /\ tries' = [tries EXCEPT ![t] = @ + 1]
           /\ wins' = [wins EXCEPT ![t] = IF right THEN @ + 1 ELSE @]
           /\ \/ Drop(t)
              \/ ~right /\ store' = [store EXCEPT ![t].tries = store[t].tries + 1]
  <2>1. /\ tries' \in [Challenges -> Nat] /\ wins' \in [Challenges -> Nat]
        /\ tries'[t] = tries[t] + 1 /\ wins'[t] \in {0, 1} /\ (~right => wins'[t] = 0)
        /\ \A w \in Challenges \ {t} : tries'[w] = tries[w] /\ wins'[w] = wins[w]
    BY <1>0, <1>1, <1>3 DEF StoreOK
  <2>2. Bounded'
    <3>1. tries[t] < MaxTries
      BY <1>1, <1>3, SignInAssumption DEF Spent
    <3>2. tries'[t] <= MaxTries /\ wins'[t] <= 1
      BY <1>1, <2>1, <3>1, SignInAssumption
    <3> QED BY <2>1, <3>2 DEF StoreInv, Bounded
  <2>3. \A w \in Challenges : w > made => tries'[w] = tries[w] /\ wins'[w] = wins[w]
    BY <1>1, <2>1
  <2>4. CASE Drop(t)
    <3>1. S \in SUBSET (DOMAIN store) /\ store' = Kept(S)
      BY <2>4 DEF Drop
    <3>2. \A w \in S : tries'[w] = tries[w] /\ wins'[w] = wins[w]
      BY <1>0, <2>1, StoreShape
    <3> HIDE DEF S
    <3> QED BY <2>1, <2>2, <2>3, <3>1, <3>2, DroppingKeeps
  <2>5. CASE ~right /\ store' = [store EXCEPT ![t].tries = store[t].tries + 1]
    <3> DEFINE row == [r EXCEPT !.tries = r.tries + 1]
    <3>1. /\ DOMAIN store' = DOMAIN store /\ store'[t] = row
          /\ \A w \in S : store'[w] = store[w]
      BY <2>5
    <3> HIDE DEF r
    <3>2. row \in Challenge
      BY <1>1 DEF Challenge
    <3>3. row.who = r.who /\ row.expires = r.expires /\ row.tries = r.tries + 1
      BY <1>1 DEF Challenge
    <3> HIDE DEF row
    <3>4. StoreOK'
      BY <1>0, <2>1, <3>1, <3>2 DEF StoreOK
    <3>5. StoreCounts'
      <4>1. SUFFICES ASSUME NEW w \in DOMAIN store
                     PROVE  store'[w].tries = tries'[w] /\ wins'[w] = 0
        BY <3>1 DEF StoreCounts
      <4>2. CASE w = t
        BY <1>1, <2>1, <2>5, <3>1, <3>3, <4>2
      <4>3. CASE w # t
        <5>1. w \in Challenges /\ store[w].tries = tries[w] /\ wins[w] = 0
          BY <1>0, StoreShape DEF StoreInv, StoreCounts
        <5> QED BY <2>1, <3>1, <4>3, <5>1
      <4> QED BY <4>2, <4>3
    <3>6. UnmadeUnused'
      BY <2>3 DEF StoreInv, UnmadeUnused
    <3>7. \A w \in DOMAIN store' : /\ store'[w].who = store[w].who
                                   /\ store'[w].expires = store[w].expires
      BY <3>1, <3>3 DEF r
    <3>8. clock' \in Nat /\ clock <= clock'
      BY SignInAssumption DEF StoreInv, StoreOK
    <3>9. LiveShare'
      BY <1>0, <3>1, <3>7, <3>8, ShareKept DEF StoreInv
    <3> QED BY <2>2, <3>4, <3>5, <3>6, <3>9 DEF StoreInv
  <2> QED BY <1>3, <2>4, <2>5
<1>4. QED
  BY <1>2, <1>3 DEF Answer

(****************************** the steps ************************************)
SignInInv == StoreInv /\ VisitsOK

LEMMA AwayShape == Away \in Visit /\ Away.at = "away"
BY DEF Away, Visit

LEMMA VisitShape ==
    ASSUME VisitsOK, NEW c \in Clients
    PROVE  /\ Waits(c) => /\ visit[c].key \in 1..LastKey /\ visit[c].since \in 1..LastKey
                          /\ visit[c].who \in People
           /\ visit[c].at \in {"verified", "toggling"} => visit[c].who \in People
           /\ visit[c].at \in {"away", "fetching", "refetching", "verified", "toggling"}
<1>1. visit[c] \in Visit
  BY DEF VisitsOK
<1>2. QED
  BY <1>1, SMT DEF Visit, Waits

LEMMA GoesNow ==
    ASSUME VisitsOK, NEW c \in Clients, NEW v, Now(c, v)
    PROVE  /\ v \in Visit => visit' \in [Clients -> Visit]
           /\ visit'[c] = v /\ \A d \in Clients \ {c} : visit'[d] = visit[d]
BY DEF VisitsOK, Now

LEMMA GoesVerified ==
    ASSUME NEW p \in People
    PROVE  [at |-> "verified", who |-> p] \in Visit
BY DEF Visit

LEMMA GoesDownloading ==
    ASSUME VisitsOK, NEW at \in {"fetching", "refetching"}, NEW key \in 1..LastKey,
           NEW p \in People
    PROVE  [at |-> at, key |-> key, since |-> signing, who |-> p] \in Visit
<1>1. signing \in 1..LastKey
  BY DEF VisitsOK
<1>2. QED
  BY <1>1 DEF Visit

LEMMA SignInInvInit == SignInInit => SignInInv
<1>1. SUFFICES ASSUME SignInInit PROVE SignInInv
  OBVIOUS
<1>2. /\ clock = 0 /\ made = 0 /\ DOMAIN store = {}
      /\ \A t \in Challenges : tries[t] = 0 /\ wins[t] = 0
  BY <1>1 DEF SignInInit
<1>3. StoreOK
  BY <1>1, <1>2, SignInAssumption DEF SignInInit, StoreOK
<1>4. \A p : Live(p) = {}
  BY <1>2 DEF Live
<1>5. LiveShare
  BY <1>4, FS_EmptySet, SignInAssumption DEF LiveShare
<1>6. StoreCounts /\ UnmadeUnused
  BY <1>2 DEF StoreCounts, UnmadeUnused
<1>7. Bounded
  BY <1>2, SignInAssumption DEF Bounded
<1>8. VisitsOK
  <2>1. signing = 1 /\ certs = {} /\ fresh = FALSE /\ mfa \subseteq People
    BY <1>1 DEF SignInInit
  <2>2. 1 \in 1..LastKey
    BY SignInAssumption
  <2>3. visit \in [Clients -> Visit]
    BY <1>1, AwayShape DEF SignInInit
  <2> QED BY <2>1, <2>2, <2>3 DEF VisitsOK
<1>9. QED
  BY <1>3, <1>5, <1>6, <1>7, <1>8 DEF SignInInv, StoreInv

LEMMA StoreStays == StoreInv /\ UNCHANGED storeVars => StoreInv'
BY DEF storeVars, StoreInv, StoreOK, StoreCounts, UnmadeUnused, Bounded, LiveShare, Live, Lapsed

LEMMA SignInInvNext == SignInInv /\ [SignInNext]_signInVars => SignInInv'
<1>1. SUFFICES ASSUME StoreInv, VisitsOK, [SignInNext]_signInVars PROVE StoreInv' /\ VisitsOK'
  BY DEF SignInInv
<1>2. CASE UNCHANGED signInVars
  BY <1>1, <1>2, StoreStays DEF signInVars, storeVars, VisitsOK
<1>3. ASSUME NEW c \in Clients, Present(c) PROVE StoreInv' /\ VisitsOK'
  <2>1. UNCHANGED mfa /\ UNCHANGED googleVars /\ UNCHANGED storeVars
    BY <1>3 DEF Present
  <2>2. signing \in 1..LastKey /\ LastKey \in Nat
    BY <1>1, SignInAssumption DEF VisitsOK
  <2>3. \A key \in 1..signing : key \in 1..LastKey
    BY <2>2
  <2>4. PICK key \in 1..LastKey, who \in People :
          \/ Verified(c, who) \/ Now(c, Away) \/ Download(c, "fetching", key, who)
    BY <1>3, <2>3 DEF Present
  <2>5. PICK v \in Visit : Now(c, v)
    BY <1>1, <2>4, AwayShape, GoesVerified, GoesDownloading DEF Verified, Download
  <2>6. VisitsOK'
    BY <1>1, <2>1, <2>5, GoesNow DEF VisitsOK, googleVars
  <2> QED BY <1>1, <2>1, <2>6, StoreStays
<1>4. ASSUME NEW c \in Clients, FetchCerts(c) PROVE StoreInv' /\ VisitsOK'
  <2>1. PICK g \in visit[c].since..signing :
          /\ certs' = Served(g) /\ fresh' = TRUE
          /\ Verified(c, visit[c].who) \/ Now(c, Away)
    BY <1>4 DEF FetchCerts
  <2>2. Waits(c) /\ UNCHANGED <<signing, mfa>> /\ UNCHANGED storeVars
    BY <1>4 DEF FetchCerts
  <2>3. /\ visit[c].since \in 1..LastKey /\ signing \in 1..LastKey /\ LastKey \in Nat
        /\ visit[c].who \in People
    BY <1>1, <2>2, VisitShape, SignInAssumption DEF VisitsOK
  <2>4. Served(g) \subseteq 1..LastKey
    BY <2>3 DEF Served
  <2>5. PICK v \in Visit : Now(c, v)
    BY <2>1, <2>3, AwayShape, GoesVerified DEF Verified
  <2>6. VisitsOK'
    BY <1>1, <2>1, <2>2, <2>4, <2>5, GoesNow DEF VisitsOK
  <2> QED BY <1>1, <2>2, <2>6, StoreStays
<1>5. ASSUME NEW c \in Clients, FetchFails(c) PROVE StoreInv' /\ VisitsOK'
  <2>1. Waits(c) /\ UNCHANGED mfa /\ UNCHANGED googleVars /\ UNCHANGED storeVars
    BY <1>5 DEF FetchFails
  <2>2. visit[c].key \in 1..LastKey /\ visit[c].who \in People
    BY <1>1, <2>1, VisitShape
  <2>3. \/ Verified(c, visit[c].who) \/ Now(c, Away)
        \/ Download(c, "refetching", visit[c].key, visit[c].who)
    BY <1>5 DEF FetchFails
  <2>4. PICK v \in Visit : Now(c, v)
    BY <1>1, <2>2, <2>3, AwayShape, GoesVerified, GoesDownloading DEF Verified, Download
  <2>5. VisitsOK'
    BY <1>1, <2>1, <2>4, GoesNow DEF VisitsOK, googleVars
  <2> QED BY <1>1, <2>1, <2>5, StoreStays
<1>6. ASSUME NEW c \in Clients, CreateSession(c) \/ RequestToggle(c) PROVE StoreInv' /\ VisitsOK'
  <2>1. /\ visit[c].at = "verified" /\ Now(c, Away)
        /\ UNCHANGED <<clock, mfa, tries, wins>> /\ UNCHANGED googleVars
        /\ UNCHANGED <<made, store>> \/ CreateChallenge(visit[c].who)
    BY <1>6 DEF CreateSession, RequestToggle
  <2>2. visit[c].who \in People
    BY <1>1, <2>1, VisitShape
  <2>3. StoreInv'
    BY <1>1, <2>1, <2>2, StoreStays, CreatingKeeps DEF storeVars
  <2> QED BY <1>1, <2>1, <2>3, AwayShape, GoesNow DEF VisitsOK, googleVars
<1>7. ASSUME VerifyMfa PROVE StoreInv' /\ VisitsOK'
  <2>1. PICK t \in DOMAIN store, right \in BOOLEAN : Answer(t, right)
    BY <1>7 DEF VerifyMfa
  <2>2. UNCHANGED <<clock, made, mfa, visit>> /\ UNCHANGED googleVars
    BY <1>7 DEF VerifyMfa
  <2>3. StoreInv'
    BY <1>1, <2>1, <2>2, AnsweringKeeps
  <2> QED BY <1>1, <2>2, <2>3 DEF VisitsOK, googleVars
<1>8. ASSUME NEW c \in Clients, VerifyToggle(c) PROVE StoreInv' /\ VisitsOK'
  <2>1. visit[c].at = "verified" /\ UNCHANGED <<clock, made, mfa>> /\ UNCHANGED googleVars
    BY <1>8 DEF VerifyToggle
  <2>2. PICK t \in DOMAIN store, right \in BOOLEAN, on \in BOOLEAN :
          /\ Answer(t, right)
          /\ Now(c, [at |-> "toggling", who |-> visit[c].who, on |-> on]) \/ Now(c, Away)
    BY <1>8 DEF VerifyToggle
  <2>3. visit[c].who \in People
    BY <1>1, <2>1, VisitShape
  <2> DEFINE w == visit[c].who
             v == [at |-> "toggling", who |-> w, on |-> on]
  <2>4. v \in Visit
    <3> HIDE DEF w
    <3> QED BY <2>3 DEF Visit, w
  <2>5. visit' \in [Clients -> Visit]
    BY <1>1, <2>2, <2>4, AwayShape, GoesNow
  <2>6. StoreInv'
    BY <1>1, <2>1, <2>2, AnsweringKeeps
  <2> QED BY <1>1, <2>1, <2>5, <2>6 DEF VisitsOK, googleVars
<1>9. ASSUME NEW c \in Clients, Toggle(c) \/ Leave(c) PROVE StoreInv' /\ VisitsOK'
  <2>1. /\ visit[c].at \in {"verified", "toggling"} /\ Now(c, Away)
        /\ UNCHANGED googleVars /\ UNCHANGED storeVars
        /\ mfa' \in {mfa, mfa \cup {visit[c].who}, mfa \ {visit[c].who}}
    BY <1>9 DEF Toggle, Leave
  <2>2. visit[c].who \in People
    BY <1>1, <2>1, VisitShape
  <2>3. mfa' \subseteq People
    BY <1>1, <2>1, <2>2 DEF VisitsOK
  <2> QED BY <1>1, <2>1, <2>3, AwayShape, GoesNow, StoreStays DEF VisitsOK, googleVars
<1>10. ASSUME Rotate PROVE StoreInv' /\ VisitsOK'
  <2>1. signing' \in 1..LastKey
    BY <1>1, <1>10, SignInAssumption DEF Rotate, VisitsOK
  <2> QED BY <1>1, <1>10, <2>1, StoreStays DEF Rotate, VisitsOK
<1>11. ASSUME MaxAgePasses PROVE StoreInv' /\ VisitsOK'
  BY <1>1, <1>11, StoreStays DEF MaxAgePasses, VisitsOK
<1>12. ASSUME Restart PROVE StoreInv' /\ VisitsOK'
  <2>1. /\ store' = Kept({}) /\ UNCHANGED <<signing, clock, made, mfa, tries, wins>>
        /\ certs' = {} /\ fresh' = FALSE /\ visit' = [c \in Clients |-> Away]
    BY <1>12 DEF Restart
  <2> DEFINE S == {t \in DOMAIN store : FALSE}
  <2>2. S \in SUBSET (DOMAIN store) /\ S = {} /\ store' = Kept(S)
    BY <2>1
  <2>3. /\ tries' \in [Challenges -> Nat] /\ wins' \in [Challenges -> Nat] /\ Bounded'
        /\ \A t \in Challenges : t > made => tries'[t] = tries[t] /\ wins'[t] = wins[t]
        /\ \A t \in S : tries'[t] = tries[t] /\ wins'[t] = wins[t]
    BY <1>1, <2>1 DEF StoreInv, StoreOK, Bounded
  <2> HIDE DEF S
  <2>4. StoreInv'
    BY <1>1, <2>1, <2>2, <2>3, DroppingKeeps
  <2> QED BY <1>1, <2>1, <2>4, AwayShape DEF VisitsOK
<1>13. ASSUME Passes PROVE StoreInv' /\ VisitsOK'
  <2>1. /\ clock < MaxClock /\ clock' = clock + 1
        /\ UNCHANGED <<made, store, mfa, visit, tries, wins>> /\ UNCHANGED googleVars
    BY <1>13 DEF Passes
  <2>2. clock \in Nat /\ clock' \in 0..MaxClock /\ clock' \in Nat /\ clock <= clock'
    BY <1>1, <2>1, SignInAssumption DEF StoreInv, StoreOK
  <2>3. LiveShare'
    BY <1>1, <2>1, <2>2, ShareKept DEF StoreInv
  <2>4. StoreOK' /\ StoreCounts' /\ UnmadeUnused' /\ Bounded'
    BY <1>1, <2>1, <2>2 DEF StoreInv, StoreOK, StoreCounts, UnmadeUnused, Bounded
  <2> QED BY <1>1, <2>1, <2>3, <2>4 DEF StoreInv, VisitsOK, googleVars
<1>14. QED
  BY <1>1, <1>2, <1>3, <1>4, <1>5, <1>6, <1>7, <1>8, <1>9, <1>10, <1>11, <1>12, <1>13
     DEF SignInNext

\* Every challenge, certificate and request stays of its kind.
THEOREM SignInTypeCorrect == SignInSpec => []SignInTypeOK
<1>1. SignInInv => SignInTypeOK
  BY DEF SignInInv, StoreInv, StoreOK, VisitsOK, SignInTypeOK, Challenge
<1>2. QED
  BY <1>1, SignInInvInit, SignInInvNext, PTL DEF SignInSpec

\* A challenge is answered at most otp_max_attempts times and opens one door,
\* and an account never has more than its share of challenges.
THEOREM ChallengeBudgetThm == SignInSpec => []ChallengeBudget
<1>1. SignInInv => ChallengeBudget
  BY DEF SignInInv, StoreInv, Bounded, LiveShare, Live, ChallengeBudget
<1>2. QED
  BY <1>1, SignInInvInit, SignInInvNext, PTL DEF SignInSpec

LEMMA OutageStep ==
    ASSUME SignInInv, [SignInNext]_signInVars, NEW c \in Clients, Waits(c),
           visit[c].key \in certs, visit'[c] = Away
    PROVE  certs' # certs
<1>1. VisitsOK /\ SignInNext /\ visit[c] # Away
  BY AwayShape DEF SignInInv, Waits, signInVars
<1>2. ASSUME NEW d \in Clients, NEW v, Now(d, v) PROVE d = c /\ v = Away
  BY <1>1, <1>2, GoesNow
<1>3. ASSUME NEW d \in Clients,
             \/ Present(d) \/ CreateSession(d) \/ RequestToggle(d) \/ VerifyToggle(d)
             \/ Toggle(d) \/ Leave(d)
      PROVE  FALSE
  <2>1. d = c
    BY <1>2, <1>3 DEF Present, Verified, Download, CreateSession, RequestToggle, VerifyToggle,
                      Toggle, Leave
  <2> QED BY <1>1, <1>3, <2>1 DEF Present, CreateSession, RequestToggle, VerifyToggle, Toggle,
                                  Leave, Waits
<1>4. ASSUME NEW d \in Clients, FetchCerts(d) PROVE certs' # certs
  <2>1. d = c
    BY <1>2, <1>4 DEF FetchCerts, Verified
  <2>2. PICK g \in visit[c].since..signing :
          /\ certs' = Served(g)
          /\ Verified(c, visit[c].who) \/ visit[c].key \notin Served(g)
    BY <1>4, <2>1 DEF FetchCerts
  <2>3. ~Verified(c, visit[c].who)
    BY <1>2, AwayShape DEF Verified
  <2> QED BY <2>2, <2>3
<1>5. ASSUME NEW d \in Clients, FetchFails(d) PROVE FALSE
  <2>1. d = c
    BY <1>2, <1>5 DEF FetchFails, Verified, Download
  <2>2. Verified(c, visit[c].who)
    BY <1>5, <2>1 DEF FetchFails, Fallback
  <2> QED BY <1>2, <2>2, AwayShape DEF Verified
<1>6. ASSUME VerifyMfa \/ Rotate \/ MaxAgePasses \/ Passes PROVE FALSE
  BY <1>1, <1>6 DEF VerifyMfa, Rotate, MaxAgePasses, Passes
<1>7. ASSUME Restart PROVE certs' # certs
  BY <1>7 DEF Restart
<1>8. QED
  BY <1>1, <1>3, <1>4, <1>5, <1>6, <1>7 DEF SignInNext

\* While Google cannot be reached, nobody is turned away whose key was in the
\* last download of the process.
THEOREM OutageSparesThm == SignInSpec => OutageSpares
<1>1. SignInInv /\ [SignInNext]_signInVars =>
        [\A c \in Clients :
           Waits(c) /\ visit[c].key \in certs /\ visit'[c] = Away => certs' # certs]_signInVars
  BY OutageStep
<1>2. QED
  BY <1>1, SignInInvInit, SignInInvNext, PTL DEF SignInSpec, OutageSpares
=============================================================================
