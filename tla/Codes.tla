------------------------------- MODULE Codes --------------------------------
(* The six-digit codes sent by mail: the one that lets an account set a new    *)
(* password (crud/password_reset.py) and the one that links a desktop agent    *)
(* to an account (crud/agent_otp.py).  The two tables work alike until a code  *)
(* is right: a reset code then yields a token that is used up before the       *)
(* password is set, and an agent code is used up as the sensor token is made.  *)
(*                                                                            *)
(* The model follows the codes of one address, of one kind.  A request reads   *)
(* the newest code that is not used up, and commits what it decided after      *)
(* other requests may have committed theirs: the count of attempts is written  *)
(* as a number, not incremented in the database.                               *)
EXTENDS Naturals, Sequences, FiniteSets

CONSTANTS Callers,      \* the requests in flight
          MaxAttempts,  \* settings.otp_max_attempts
          MaxCodes      \* bound of the model

ASSUME CodesAssumption == MaxAttempts \in Nat /\ MaxCodes \in Nat

VARIABLES kind,     \* "reset" or "agent"
          codes,    \* the table, in the order of creation
          ask,      \* what each request has read and is about to write
          guesses,  \* how many answers each code was given (not in the code)
          uses,     \* how often each code opened its door (not in the code)
          crossed   \* codes written by one request while another was about to
                    \* write them (not in the code)

codesVars == <<kind, codes, ask, guesses, uses, crossed>>

Code == [attempts : 0..MaxAttempts, consumed : BOOLEAN, expired : BOOLEAN,
         verified : BOOLEAN]
NewCode == [attempts |-> 0, consumed |-> FALSE, expired |-> FALSE, verified |-> FALSE]

Quiet == [at |-> "quiet"]
Ask == [at : {"quiet", "setting"}]
  \cup [at : {"creating"}, old : SUBSET (1..MaxCodes)]
  \cup [at : {"closing", "consuming"}, code : 1..MaxCodes]
  \cup [at : {"answering"}, code : 1..MaxCodes, attempts : 1..MaxAttempts, right : BOOLEAN]

CodesInit ==
    /\ kind \in {"reset", "agent"}
    /\ codes = <<>> /\ guesses = <<>> /\ uses = <<>> /\ crossed = {}
    /\ ask = [c \in Callers |-> Quiet]

Active == {k \in DOMAIN codes : ~codes[k].consumed}
Newest(S) == CHOOSE k \in S : \A j \in S : j <= k

Turns(c, a) == ask' = [ask EXCEPT ![c] = a]
\* The codes another request has read and will write.
HeldElsewhere(c) == {k \in DOMAIN codes : \E d \in Callers \ {c} :
                       ask[d].at \in {"closing", "consuming", "answering"} /\ ask[d].code = k}
\* What is counted of a code is forgotten once it is crossed.
Settled(tally) == [k \in DOMAIN tally |-> IF k \in crossed' THEN 0 ELSE tally[k]]
Write(c, rows, touched, answered, used) ==
    /\ codes' = rows
    /\ crossed' = crossed \cup (touched \cap HeldElsewhere(c))
    /\ guesses' = Settled(answered) /\ uses' = Settled(used)
    /\ UNCHANGED kind
Count(tally, k) == [tally EXCEPT ![k] = @ + 1]

(******************************** a new code ********************************)
\* The update uses up the codes its statement sees; the new one is committed
\* with it.
Invalidate(c) == Turns(c, [at |-> "creating", old |-> Active])

RequestReset(c) ==
    /\ kind = "reset" /\ ask[c].at = "quiet" /\ Invalidate(c)
    /\ UNCHANGED <<kind, codes, guesses, uses, crossed>>
RequestAgentCode(c) ==
    /\ kind = "agent" /\ ask[c].at = "quiet" /\ Invalidate(c)
    /\ UNCHANGED <<kind, codes, guesses, uses, crossed>>

UsedUp(S) == [k \in DOMAIN codes |-> [codes[k] EXCEPT !.consumed = @ \/ k \in S]]
CreateCode(c) ==
    /\ ask[c].at = "creating" /\ Len(codes) < MaxCodes
    /\ Write(c, Append(UsedUp(ask[c].old), NewCode), ask[c].old,
             Append(guesses, 0), Append(uses, 0))
    /\ Turns(c, Quiet)

\* All codes live equally long: the oldest lapses first.
Lapse(k) ==
    /\ ~codes[k].expired /\ ~codes[k].consumed
    /\ \A j \in DOMAIN codes : j < k => codes[j].expired \/ codes[j].consumed
    /\ codes' = [codes EXCEPT ![k].expired = TRUE]
    /\ UNCHANGED <<kind, ask, guesses, uses, crossed>>

(********************************* an answer ********************************)
\* A code that has expired or been answered too often is used up; otherwise the
\* answer counts, right or not.
\* Mutant: one answer more than otp_max_attempts.
JudgeLate(c, k) ==
    \/ /\ codes[k].expired \/ codes[k].attempts > MaxAttempts
       /\ Turns(c, [at |-> "closing", code |-> k])
    \/ /\ ~codes[k].expired /\ codes[k].attempts <= MaxAttempts
       /\ \E right \in BOOLEAN :
            Turns(c, [at |-> "answering", code |-> k,
                      attempts |-> codes[k].attempts + 1, right |-> right])
Judge(c, k) ==
    \/ /\ codes[k].expired \/ codes[k].attempts >= MaxAttempts
       /\ Turns(c, [at |-> "closing", code |-> k])
    \/ /\ ~codes[k].expired /\ codes[k].attempts < MaxAttempts
       /\ \E right \in BOOLEAN :
            Turns(c, [at |-> "answering", code |-> k,
                      attempts |-> codes[k].attempts + 1, right |-> right])

AnswerReset(c) ==
    /\ kind = "reset" /\ ask[c].at = "quiet" /\ Active # {}
    /\ Judge(c, Newest(Active))
    /\ UNCHANGED <<kind, codes, guesses, uses, crossed>>
AnswerAgentCode(c) ==
    /\ kind = "agent" /\ ask[c].at = "quiet" /\ Active # {}
    /\ Judge(c, Newest(Active))
    /\ UNCHANGED <<kind, codes, guesses, uses, crossed>>

CloseCode(c) ==
    /\ ask[c].at = "closing"
    /\ Write(c, UsedUp({ask[c].code}), {ask[c].code}, guesses, uses)
    /\ Turns(c, Quiet)

\* The right answer to a reset code makes a new reset token, which replaces an
\* earlier one.
VerifyReset(c) ==
    LET a == ask[c]
        row == [codes[a.code] EXCEPT !.attempts = a.attempts,
                                     !.verified = @ \/ a.right]
    IN  /\ kind = "reset" /\ a.at = "answering"
        /\ Write(c, [codes EXCEPT ![a.code] = row], {a.code}, Count(guesses, a.code), uses)
        /\ Turns(c, Quiet)

\* The right answer to an agent code uses it up and makes a sensor token, in
\* one transaction.
\* Mutant: the right answer leaves the code open.
VerifyAndIssueOpen(c) ==
    LET a == ask[c]
        row == [codes[a.code] EXCEPT !.attempts = a.attempts]
    IN  /\ kind = "agent" /\ a.at = "answering"
        /\ Write(c, [codes EXCEPT ![a.code] = row], {a.code}, Count(guesses, a.code),
                 IF a.right THEN Count(uses, a.code) ELSE uses)
        /\ Turns(c, Quiet)
VerifyAndIssue(c) ==
    LET a == ask[c]
        row == [codes[a.code] EXCEPT !.attempts = a.attempts,
                                     !.consumed = @ \/ a.right]
    IN  /\ kind = "agent" /\ a.at = "answering"
        /\ Write(c, [codes EXCEPT ![a.code] = row], {a.code}, Count(guesses, a.code),
                 IF a.right THEN Count(uses, a.code) ELSE uses)
        /\ Turns(c, Quiet)

(***************************** a new password *******************************)
\* The token belongs to the newest live code, or the request is refused.
ConfirmReset(c) ==
    /\ kind = "reset" /\ ask[c].at = "quiet" /\ Active # {}
    /\ LET k == Newest(Active)
       IN  /\ codes[k].verified
           /\ Turns(c, [at |-> IF codes[k].expired THEN "closing" ELSE "consuming",
                        code |-> k])
    /\ UNCHANGED <<kind, codes, guesses, uses, crossed>>

Consume(c) ==
    /\ ask[c].at = "consuming"
    /\ Write(c, UsedUp({ask[c].code}), {ask[c].code}, guesses, Count(uses, ask[c].code))
    /\ Turns(c, [at |-> "setting"])

\* Firebase sets the password, or refuses it, or is not configured: the code is
\* used up either way.
SetPassword(c) ==
    /\ ask[c].at = "setting" /\ Turns(c, Quiet)
    /\ UNCHANGED <<kind, codes, guesses, uses, crossed>>

\* The database or the connection fails before the commit: nothing is written.
CodeRequestFails(c) ==
    /\ ask[c].at \in {"creating", "closing", "consuming", "answering"} /\ Turns(c, Quiet)
    /\ UNCHANGED <<kind, codes, guesses, uses, crossed>>

CodesNext ==
    \/ \E c \in Callers :
         \/ RequestReset(c) \/ RequestAgentCode(c) \/ CreateCode(c)
         \/ AnswerReset(c) \/ AnswerAgentCode(c) \/ CloseCode(c)
         \/ VerifyReset(c) \/ VerifyAndIssue(c)
         \/ ConfirmReset(c) \/ Consume(c) \/ SetPassword(c)
         \/ CodeRequestFails(c)
    \/ \E k \in DOMAIN codes : Lapse(k)

CodesSpec == CodesInit /\ [][CodesNext]_codesVars

(******************************** properties ********************************)
\* Every row and every request is of its kind.
CodesTypeOK ==
    /\ kind \in {"reset", "agent"}
    /\ codes \in Seq(Code) /\ Len(codes) <= MaxCodes
    /\ guesses \in Seq(Nat) /\ uses \in Seq(Nat)
    /\ Len(guesses) = Len(codes) /\ Len(uses) = Len(codes)
    /\ crossed \subseteq DOMAIN codes
    /\ ask \in [Callers -> Ask]

\* models/security.py, crud/password_reset.py: a code opens its door once
\* ("marudio moja tu"), every answer to it counts, and it takes no more than
\* otp_max_attempts of them, unless another request wrote it between the reading
\* and the writing.
CodeBudget ==
    \A k \in DOMAIN codes \ crossed :
      uses[k] <= 1 /\ codes[k].attempts = guesses[k] /\ guesses[k] <= MaxAttempts
=============================================================================
