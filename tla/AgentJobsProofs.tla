-------------------------- MODULE AgentJobsProofs --------------------------
(***************************************************************************)
(* What holds of AgentJobs for any number of overlapping requests, jobs,    *)
(* kinds and streams, and for every combination of faults.                  *)
(***************************************************************************)
EXTENDS AgentJobs, FiniteSetTheorems, TLAPS

USE RequestAssumption, BoundAssumption

LEMMA JobsAreNat == Jobs \subseteq Nat \ {0} /\ NoJob \notin Jobs
BY DEF Jobs, NoJob

LEMMA IdleType == Idle \in Request
BY DEF Idle, Request, Ended, JobStatus, NoJob

LEMMA NewAgentType == NewAgent \in AgentState
BY DEF NewAgent, AgentState, Ended, NoJob, NoReq

\* The agent after an answer is in one of its states.
LEMMA ReceiveType ==
    ASSUME agent \in AgentState, NEW jobs \in SUBSET Jobs, Receive(jobs)
    PROVE  agent' \in AgentState
BY DEF Receive, AgentState, NoReq

\* A request that is over leaves requests and agent well typed.
LEMMA AnswerType ==
    ASSUME TypeOK, NEW r \in Requests, NEW jobs \in SUBSET Jobs, Answer(r, jobs)
    PROVE  req' \in [Requests -> Request] /\ agent' \in AgentState
<1>1. req' \in [Requests -> Request]
  BY IdleType DEF Answer, TypeOK
<1>2. agent' \in AgentState
  BY ReceiveType DEF Answer, TypeOK
<1> QED BY <1>1, <1>2

\* A request that goes on to its next position keeps its type.
LEMMA GotoType ==
    ASSUME TypeOK, NEW r \in Requests, Goto(r, "streams") \/ Goto(r, "check") \/ Goto(r, "respond")
    PROVE  req' \in [Requests -> Request]
BY DEF Goto, TypeOK, Request

\* The next row of agent_jobs has its type.
LEMMA NewJobType ==
    ASSUME TypeOK, lastJob < MaxJobs, NEW k \in Kinds, NewJob(k)
    PROVE  /\ lastJob' \in 0 .. MaxJobs /\ lastJob' \in Jobs
           /\ status' \in [Jobs -> JobStatus]
           /\ kind' \in [Jobs -> Kinds \cup {"none"}]
<1>1. lastJob + 1 \in Jobs /\ lastJob' = lastJob + 1
  BY DEF TypeOK, Jobs, NewJob
<1>2. "pending" \in JobStatus
  BY DEF JobStatus, Active
<1> QED BY <1>1, <1>2 DEF TypeOK, NewJob, Jobs

\* The agent's own steps keep the types.
LEMMA AgentType == TypeOK /\ Agent => TypeOK'
<1> SUFFICES ASSUME TypeOK, Agent PROVE TypeOK'
  OBVIOUS
<1>1. ASSUME NEW r \in Requests, AgentPoll(r) PROVE TypeOK'
  <2>1. [Idle EXCEPT !.op = "poll", !.pc = "get"] \in Request
    BY IdleType DEF Request
  <2> QED BY <1>1, <2>1 DEF AgentPoll, Send, TypeOK, db, AgentState
<1>2. ASSUME NEW r \in Requests, AgentPost(r) PROVE TypeOK'
  <2>1. [Idle EXCEPT !.op = "post", !.pc = "job", !.job = agent.job, !.outcome = agent.outcome]
           \in Request
    BY IdleType DEF Request, TypeOK, AgentState
  <2> QED BY <1>2, <2>1 DEF AgentPost, Send, TypeOK, db, AgentState
<1>3. ASSUME NEW j \in Jobs, RunJob(j) PROVE TypeOK'
  <2>1. PICK outcome \in Ended :
           agent' = [agent EXCEPT !.pc = "post", !.job = j, !.todo = agent.todo \ {j},
                                  !.outcome = outcome]
    BY <1>3 DEF RunJob
  <2>2. agent.todo \ {j} \in SUBSET Jobs
    BY DEF TypeOK, AgentState
  <2>3. agent' \in AgentState
    BY <2>1, <2>2 DEF TypeOK, AgentState
  <2>4. ran' \in [Jobs -> Nat]
    BY <1>3 DEF RunJob, TypeOK
  <2> QED BY <1>3, <2>3, <2>4 DEF RunJob, TypeOK, db
<1> QED BY <1>1, <1>2, <1>3 DEF Agent

LEMMA ServeType == ASSUME TypeOK, RequestShape, NEW r \in Requests, Serve(r) PROVE TypeOK'
<1> USE DEF db
<1>0. {} \in SUBSET Jobs /\ req[r] \in Request
  BY DEF TypeOK
<1>1. ASSUME PollGet(r) PROVE TypeOK'
  BY <1>0, <1>1, AnswerType, GotoType DEF PollGet, TypeOK
<1>2. ASSUME PollStreams(r) PROVE TypeOK'
  <2>0. streams \in SUBSET StreamKinds
    BY DEF TypeOK
  <2>1. [req[r] EXCEPT !.pc = "check", !.want = streams] \in Request
    BY <1>0, <2>0 DEF Request
  <2> QED BY <1>2, <2>1 DEF PollStreams, TypeOK
<1>3. ASSUME PollCheck(r) PROVE TypeOK'
  <2>1. PICK k \in req[r].want :
           req' = [req EXCEPT ![r] =
                     [@ EXCEPT !.want = req[r].want \ {k},
                               !.pc = IF HasActive(k) THEN "check" ELSE "create",
                               !.renew = IF HasActive(k) THEN {} ELSE {k}]]
    BY <1>3 DEF PollCheck
  <2> DEFINE pc == IF HasActive(k) THEN "check" ELSE "create"
             renew == IF HasActive(k) THEN {} ELSE {k}
             want == req[r].want \ {k}
  <2>2. want \in SUBSET StreamKinds /\ renew \in SUBSET StreamKinds /\ pc \in {"check", "create"}
    BY <1>0 DEF Request
  <2> HIDE DEF pc, renew, want
  <2>3. [req[r] EXCEPT !.want = want, !.pc = pc, !.renew = renew] \in Request
    BY <1>0, <2>2 DEF Request
  <2> QED BY <1>3, <2>1, <2>3 DEF PollCheck, TypeOK, pc, renew, want
<1>4. ASSUME PollCreate(r) PROVE TypeOK'
  <2>1. CASE ~enrolled
    BY <1>0, <1>4, <2>1, AnswerType DEF PollCreate, TypeOK
  <2>2. CASE enrolled /\ lastJob = MaxJobs
    BY <1>4, <2>2, GotoType DEF PollCreate, TypeOK
  <2>3. CASE enrolled /\ lastJob # MaxJobs
    <3>1. PICK k \in req[r].renew : NewJob(k)
      BY <1>4, <2>3 DEF PollCreate
    <3>2. k \in Kinds /\ lastJob < MaxJobs
      BY <1>0, <2>3 DEF Request, Kinds, TypeOK
    <3> QED BY <1>4, <2>3, <3>1, <3>2, NewJobType, GotoType DEF PollCreate, TypeOK
  <2> QED BY <2>1, <2>2, <2>3 DEF TypeOK
<1>5. ASSUME PollSelect(r) PROVE TypeOK'
  <2>1. PendingJobs \in SUBSET Jobs
    BY DEF PendingJobs
  <2>2. [req[r] EXCEPT !.batch = PendingJobs,
                       !.pc = IF PendingJobs = {} THEN "respond" ELSE "commit"] \in Request
    BY <1>0, <2>1 DEF Request
  <2> QED BY <1>5, <2>2 DEF PollSelect, TypeOK
<1>6. ASSUME PollCommit(r) PROVE TypeOK'
  <2>1. MarkRunning(req[r].batch) \in [Jobs -> JobStatus]
    BY DEF MarkRunning, TypeOK, JobStatus, Active
  <2> QED BY <1>0, <1>6, <2>1, AnswerType, GotoType DEF PollCommit, TypeOK
<1>7. ASSUME PostJob(r) PROVE TypeOK'
  <2>1. req[r].job \in Jobs
    BY <1>7 DEF PostJob, RequestShape
  <2>2. status[req[r].job] \in JobStatus
    BY <2>1 DEF TypeOK
  <2>3. /\ [req[r] EXCEPT !.loaded = status[req[r].job], !.pc = "delete"] \in Request
        /\ [req[r] EXCEPT !.loaded = status[req[r].job], !.pc = "finish"] \in Request
    BY <1>0, <2>2 DEF Request
  <2>4. req' \in [Requests -> Request] /\ agent' \in AgentState
    BY <1>0, <1>7, <2>3, AnswerType DEF PostJob, TypeOK
  <2> QED BY <1>7, <2>4 DEF PostJob, TypeOK
<1>8. ASSUME PostDelete(r) PROVE TypeOK'
  <2>0. findings \in SUBSET Jobs
    BY DEF TypeOK
  <2>1. [req[r] EXCEPT !.pc = "finish", !.victims = findings] \in Request
    BY <1>0, <2>0 DEF Request
  <2> QED BY <1>8, <2>1 DEF PostDelete, TypeOK, OldFindings
<1>9. ASSUME PostFinish(r) PROVE TypeOK'
  <2>1. FinalStatus(req[r]) \in JobStatus
    BY <1>0 DEF FinalStatus, Request, JobStatus
  <2>2. req[r].job \in Jobs
    BY <1>9 DEF PostFinish, RequestShape
  <2> QED BY <1>0, <1>9, <2>1, <2>2, AnswerType, GotoType DEF PostFinish, TypeOK
<1>10. ASSUME Respond(r) PROVE TypeOK'
  <2>1. req[r].batch \in SUBSET Jobs
    BY <1>0 DEF Request
  <2> QED BY <1>10, <2>1, AnswerType DEF Respond, TypeOK
<1> QED BY <1>1, <1>2, <1>3, <1>4, <1>5, <1>6, <1>7, <1>8, <1>9, <1>10 DEF Serve, Poll, Post

-----------------------------------------------------------------------------
(* The inductive invariant, without the types.                              *)

HandInv == Numbered /\ AgentShape /\ RequestShape /\ NotRunYet /\ RunsOnce /\ EndedWereRun

\* An answer hands over nothing, or what the request has marked as running.
LEMMA AnswerHands ==
    ASSUME TypeOK, HandInv, TypeOK', NEW r \in Requests, NEW jobs \in SUBSET Jobs,
           jobs = {} \/ (req[r].pc = "respond" /\ jobs = req[r].batch),
           Answer(r, jobs), UNCHANGED <<status, lastJob, ran>>
    PROVE  HandInv'
<1>1. /\ req' = [req EXCEPT ![r] = Idle] /\ req'[r] = Idle
      /\ \A t \in Requests \ {r} : req'[t] = req[t]
  BY DEF Answer, TypeOK
<1>2. /\ Idle.batch = {} /\ Idle.pc = "idle" /\ Idle.op = "none"
  BY DEF Idle
<1>3. CASE agent.conn = r
  <2>1. /\ agent'.conn = NoReq /\ agent'.todo = agent.todo \cup jobs
        /\ agent'.job = agent.job /\ agent'.pc \in {"poll", "work"}
    BY ZenonT(90), <1>3 DEF Answer, Receive, TypeOK, AgentState
  <2>2. AgentShape'
    BY <1>3, <2>1 DEF AgentShape, HandInv, NotRunYet, RequestShape, Known
  <2>3. RequestShape' /\ NotRunYet'
    BY <1>1, <1>2, <2>1 DEF RequestShape, NotRunYet, HandInv, Known
  <2> QED BY <2>2, <2>3 DEF HandInv, Numbered, Known, RunsOnce, EndedWereRun
<1>4. CASE agent.conn # r
  <2>1. agent' = agent
    BY <1>4 DEF Answer
  <2>2. AgentShape'
    BY <2>1 DEF AgentShape, HandInv, Known
  <2>3. RequestShape' /\ NotRunYet'
    BY <1>1, <1>2, <1>4, <2>1 DEF RequestShape, NotRunYet, HandInv, Known
  <2> QED BY <2>2, <2>3 DEF HandInv, Numbered, Known, RunsOnce, EndedWereRun
<1> QED BY <1>3, <1>4

\* A handler that only moves on within its request hands over nothing new.
LEMMA MoveHands ==
    ASSUME TypeOK, HandInv, NEW r \in Requests, NEW new,
           req' = [req EXCEPT ![r] = new], UNCHANGED <<agent, ran, status, lastJob>>,
           new.op = req[r].op, new.job = req[r].job,
           \A j \in new.batch : (Known(j) /\ ran[j] = 0) \/ j \in req[r].batch,
           agent.conn = r /\ new.pc = "respond" =>
               \A j \in new.batch : status[j] # "pending",
           new.pc \in {"job", "delete", "finish"} =>
               req[r].pc \in {"job", "delete"} /\ new.batch = req[r].batch
    PROVE  HandInv'
<1>1. req'[r] = new /\ \A t \in Requests \ {r} : req'[t] = req[t]
  BY DEF TypeOK
<1>2. RequestShape'
  BY <1>1 DEF RequestShape, HandInv, Known
<1>3. NotRunYet'
  BY <1>1 DEF NotRunYet, HandInv, Known
<1> QED BY <1>2, <1>3 DEF HandInv, Numbered, Known, AgentShape, RunsOnce, EndedWereRun

\* A new row comes after the others, and is in nobody's hands.
LEMMA NewJobHands ==
    ASSUME TypeOK, HandInv, lastJob < MaxJobs, NEW k, NewJob(k), UNCHANGED <<agent, ran>>,
           NEW pos \in [Requests -> {"same", "check"}],
           \A r \in Requests :
               req'[r] = IF pos[r] = "same" THEN req[r] ELSE [req[r] EXCEPT !.pc = "check"]
    PROVE  HandInv'
<1>1. lastJob + 1 \in Jobs /\ ~Known(lastJob + 1)
  BY DEF HandInv, Numbered, TypeOK, Jobs
<1>2. /\ status'[lastJob + 1] = "pending" /\ lastJob' = lastJob + 1
      /\ \A j \in Jobs \ {lastJob + 1} : status'[j] = status[j]
  BY <1>1 DEF NewJob, TypeOK
<1>3. \A r \in Requests : req[r].batch \subseteq Jobs /\ lastJob + 1 \notin req[r].batch
  BY <1>1 DEF HandInv, RequestShape, TypeOK, Request
<1>4. \A r \in Requests :
        /\ req'[r].batch = req[r].batch /\ req'[r].job = req[r].job /\ req'[r].op = req[r].op
        /\ req'[r].pc \in {req[r].pc, "check"}
  <2> SUFFICES ASSUME NEW r \in Requests
               PROVE  /\ req'[r].batch = req[r].batch /\ req'[r].job = req[r].job
                      /\ req'[r].op = req[r].op /\ req'[r].pc \in {req[r].pc, "check"}
    OBVIOUS
  <2>1. req[r] \in Request
    BY DEF TypeOK
  <2> QED BY <2>1 DEF Request
<1>5. Numbered'
  BY <1>1, <1>2 DEF HandInv, Numbered, Known, TypeOK, Jobs
<1>6. AgentShape'
  BY <1>1, <1>2 DEF HandInv, AgentShape, Known, TypeOK, AgentState
<1>7. RequestShape'
  BY <1>2, <1>3, <1>4 DEF HandInv, RequestShape, Known
<1>8. NotRunYet'
  BY <1>1, <1>2, <1>3, <1>4 DEF HandInv, NotRunYet, Known
<1>9. RunsOnce' /\ EndedWereRun'
  BY <1>1, <1>2 DEF HandInv, RunsOnce, EndedWereRun, Ended, NewJob
<1> QED BY <1>5, <1>6, <1>7, <1>8, <1>9 DEF HandInv

LEMMA AgentHands == ASSUME TypeOK, HandInv, Agent PROVE HandInv'
<1> USE DEF db
<1>1. ASSUME NEW r \in Requests, AgentPoll(r) PROVE HandInv'
  <2>1. /\ req'[r].batch = {} /\ req'[r].pc = "get" /\ req'[r].op = "poll"
        /\ \A t \in Requests \ {r} : req'[t] = req[t]
    BY <1>1 DEF AgentPoll, Send, TypeOK, Idle
  <2>2. /\ agent'.conn = r /\ agent'.pc = "waiting" /\ agent'.todo = agent.todo
        /\ agent'.job = agent.job /\ r # NoReq
    BY <1>1 DEF AgentPoll, TypeOK, AgentState
  <2> QED BY <1>1, <2>1, <2>2 DEF AgentPoll, HandInv, Numbered, Known, AgentShape, RequestShape,
                                  NotRunYet, RunsOnce, EndedWereRun
<1>2. ASSUME NEW r \in Requests, AgentPost(r) PROVE HandInv'
  <2>1. /\ req'[r].batch = {} /\ req'[r].pc = "job" /\ req'[r].op = "post"
        /\ req'[r].job = agent.job
        /\ \A t \in Requests \ {r} : req'[t] = req[t]
    BY <1>2 DEF AgentPost, Send, TypeOK, Idle
  <2>2. /\ agent'.conn = r /\ agent'.pc = "waiting" /\ agent'.todo = agent.todo
        /\ agent'.job = agent.job /\ agent.job \in Jobs /\ ran[agent.job] > 0
    BY <1>2 DEF AgentPost, TypeOK, AgentState, HandInv, AgentShape
  <2> QED BY <1>2, <2>1, <2>2 DEF AgentPost, HandInv, Numbered, Known, AgentShape, RequestShape,
                                  NotRunYet, RunsOnce, EndedWereRun
<1>3. ASSUME NEW j \in Jobs, RunJob(j) PROVE HandInv'
  <2>1. /\ agent.pc = "work" /\ agent.conn = NoReq /\ ran[j] = 0
        /\ Known(j) /\ status[j] # "pending"
    BY <1>3 DEF RunJob, HandInv, AgentShape
  <2>2. /\ ran'[j] = 1 /\ \A i \in Jobs \ {j} : ran'[i] = ran[i]
        /\ agent'.pc = "post" /\ agent'.job = j /\ agent'.todo = agent.todo \ {j}
        /\ agent'.conn = NoReq /\ agent'.todo \subseteq Jobs
    BY <1>3, <2>1 DEF RunJob, TypeOK, AgentState
  <2>3. AgentShape'
    BY <1>3, <2>2 DEF RunJob, HandInv, AgentShape, Known
  <2>4. RequestShape'
    BY <1>3, <2>2, RequestAssumption DEF RunJob, HandInv, RequestShape, Known, TypeOK
  <2>5. NotRunYet'
    BY <1>3, <2>1, <2>2, RequestAssumption DEF RunJob, HandInv, NotRunYet, Known
  <2>6. Numbered' /\ RunsOnce' /\ EndedWereRun'
    BY <1>3, <2>1, <2>2 DEF RunJob, HandInv, Numbered, Known, RunsOnce, EndedWereRun
  <2> QED BY <2>3, <2>4, <2>5, <2>6 DEF HandInv
<1> QED BY <1>1, <1>2, <1>3 DEF Agent

LEMMA PollHands ==
    ASSUME TypeOK, TypeOK', HandInv, NEW r \in Requests, Poll(r)
    PROVE  HandInv'
<1> USE DEF db
<1>0. {} \in SUBSET Jobs /\ req[r] \in Request /\ req[r].batch \subseteq Jobs
  BY DEF TypeOK, Request
<1>1. ASSUME PollGet(r) PROVE HandInv'
  <2>1. CASE enrolled
    BY <1>0, <1>1, <2>1, MoveHands DEF PollGet, Goto, Request
  <2>2. CASE ~enrolled
    BY <1>0, <1>1, <2>2, AnswerHands DEF PollGet
  <2> QED BY <2>1, <2>2
<1>2. ASSUME PollStreams(r) PROVE HandInv'
  <2> DEFINE new == [req[r] EXCEPT !.pc = "check", !.want = streams]
  <2>a. new.op = req[r].op /\ new.job = req[r].job /\ new.batch = req[r].batch /\ new.pc = "check"
    BY <1>0 DEF Request
  <2>b. req' = [req EXCEPT ![r] = new] /\ UNCHANGED <<agent, ran, status, lastJob>>
    BY <1>2 DEF PollStreams
  <2> HIDE DEF new
  <2> QED BY <2>a, <2>b, <1>0, MoveHands
<1>3. ASSUME PollCheck(r) PROVE HandInv'
  <2>1. PICK k \in req[r].want :
           req' = [req EXCEPT ![r] =
                     [@ EXCEPT !.want = req[r].want \ {k},
                               !.pc = IF HasActive(k) THEN "check" ELSE "create",
                               !.renew = IF HasActive(k) THEN {} ELSE {k}]]
    BY <1>3 DEF PollCheck
  <2> DEFINE new == [req[r] EXCEPT
                    !.want = req[r].want \ {k},
                    !.pc = IF HasActive(k) THEN "check" ELSE "create",
                    !.renew = IF HasActive(k) THEN {} ELSE {k}]
  <2>a. new.op = req[r].op /\ new.job = req[r].job /\ new.batch = req[r].batch /\ new.pc \in {"check", "create"}
    BY <1>0 DEF Request
  <2>b. req' = [req EXCEPT ![r] = new] /\ UNCHANGED <<agent, ran, status, lastJob>>
    BY <1>3, <2>1 DEF PollCheck
  <2> HIDE DEF new
  <2> QED BY <2>a, <2>b, <1>0, MoveHands
<1>4. ASSUME PollCreate(r) PROVE HandInv'
  <2>1. CASE ~enrolled
    BY <1>0, <1>4, <2>1, AnswerHands DEF PollCreate
  <2>2. CASE enrolled /\ lastJob = MaxJobs
    BY <1>0, <1>4, <2>2, MoveHands DEF PollCreate, Goto, Request
  <2>3. CASE enrolled /\ lastJob # MaxJobs
    <3>1. PICK k \in req[r].renew : NewJob(k)
      BY <1>4, <2>3 DEF PollCreate
    <3>2. lastJob < MaxJobs
      BY <2>3 DEF TypeOK
    <3> DEFINE pos == [t \in Requests |-> IF t = r THEN "check" ELSE "same"]
    <3>3. \A t \in Requests :
            req'[t] = IF pos[t] = "same" THEN req[t] ELSE [req[t] EXCEPT !.pc = "check"]
      BY <1>4, <2>3 DEF PollCreate, Goto, TypeOK
    <3>4. pos \in [Requests -> {"same", "check"}] /\ UNCHANGED <<agent, ran>>
      BY <1>4, <2>3 DEF PollCreate
    <3> HIDE DEF pos
    <3> QED BY <3>1, <3>2, <3>3, <3>4, NewJobHands
  <2> QED BY <2>1, <2>2, <2>3
<1>5. ASSUME PollSelect(r) PROVE HandInv'
  <2>1. \A j \in PendingJobs : Known(j) /\ ran[j] = 0
    BY DEF PendingJobs, HandInv, NotRunYet, Known
  <2> DEFINE new == [req[r] EXCEPT !.batch = PendingJobs,
                                 !.pc = IF PendingJobs = {} THEN "respond" ELSE "commit"]
  <2>a. new.op = req[r].op /\ new.job = req[r].job /\ new.batch = PendingJobs
       /\ new.pc \in {"respond", "commit"} /\ (new.pc = "respond" => PendingJobs = {})
    BY <1>0 DEF Request
  <2>b. req' = [req EXCEPT ![r] = new] /\ UNCHANGED <<agent, ran, status, lastJob>>
    BY <1>5 DEF PollSelect
  <2> HIDE DEF new
  <2> QED BY <2>a, <2>b, <1>0, MoveHands, <2>1
<1>6. ASSUME PollCommit(r) PROVE HandInv'
  <2>1. CASE \E j \in req[r].batch : status[j] = "gone"
    BY <1>0, <1>6, <2>1, AnswerHands DEF PollCommit
  <2>2. CASE ~\E j \in req[r].batch : status[j] = "gone"
    <3>1. \A j \in Jobs : status'[j] = IF j \in req[r].batch THEN "running" ELSE status[j]
      BY <1>6, <2>2 DEF PollCommit, MarkRunning
    <3>2. /\ req'[r] = [req[r] EXCEPT !.pc = "respond"]
          /\ \A t \in Requests \ {r} : req'[t] = req[t]
      BY <1>6, <2>2 DEF PollCommit, Goto, TypeOK
    <3>3. /\ req'[r].batch = req[r].batch /\ req'[r].pc = "respond"
          /\ req'[r].op = req[r].op /\ req'[r].job = req[r].job
      BY <1>0, <3>2 DEF Request
    <3>4. UNCHANGED <<agent, ran, lastJob>> /\ \A j \in Jobs : Known(j)' <=> Known(j)
      BY <1>6, <2>2, <3>1 DEF PollCommit, HandInv, RequestShape, Known
    <3>5. Numbered' /\ RunsOnce' /\ EndedWereRun'
      BY <3>1, <3>4 DEF HandInv, Numbered, RunsOnce, EndedWereRun, Ended
    <3>6. AgentShape'
      BY <3>1, <3>4 DEF HandInv, AgentShape, TypeOK, AgentState
    <3>7. RequestShape'
      <4>1. \A t \in Requests : req[t].batch \subseteq Jobs
        BY DEF TypeOK, Request
      <4> QED BY ZenonT(90), <3>2, <3>3, <3>4, <4>1 DEF HandInv, RequestShape
    <3>8. NotRunYet'
      <4>1. \A t \in Requests : req[t].batch \subseteq Jobs
        BY DEF TypeOK, Request
      <4> QED BY ZenonT(90), <3>1, <3>2, <3>3, <3>4, <4>1 DEF HandInv, NotRunYet
    <3> QED BY <3>5, <3>6, <3>7, <3>8 DEF HandInv
  <2> QED BY <2>1, <2>2
<1> QED BY <1>1, <1>2, <1>3, <1>4, <1>5, <1>6 DEF Poll

LEMMA PostHands ==
    ASSUME TypeOK, TypeOK', HandInv, NEW r \in Requests, Post(r)
    PROVE  HandInv'
<1> USE DEF db
<1>0. {} \in SUBSET Jobs /\ req[r] \in Request /\ req[r].batch \subseteq Jobs
  BY DEF TypeOK, Request
<1>1. ASSUME PostJob(r) PROVE HandInv'
  <2>1. CASE status[req[r].job] = "gone"
    BY <1>0, <1>1, <2>1, AnswerHands DEF PostJob
  <2>2. CASE status[req[r].job] # "gone"
    <3> DEFINE new == [req[r] EXCEPT
                    !.loaded = status[req[r].job],
                    !.pc = IF kind[req[r].job] = "scan" /\ req[r].outcome = "done"
                           THEN "delete" ELSE "finish"]
    <3>a. new.op = req[r].op /\ new.job = req[r].job /\ new.batch = req[r].batch /\ new.pc \in {"delete", "finish"}
      BY <1>0 DEF Request
    <3>b. req' = [req EXCEPT ![r] = new] /\ UNCHANGED <<agent, ran, status, lastJob>>
      BY <1>1, <2>2 DEF PostJob
    <3> HIDE DEF new
    <3> QED BY <3>a, <3>b, <1>0, MoveHands, <1>1 DEF PostJob
  <2> QED BY <2>1, <2>2
<1>2. ASSUME PostDelete(r) PROVE HandInv'
  <2> DEFINE new == [req[r] EXCEPT !.pc = "finish", !.victims = OldFindings]
  <2>a. new.op = req[r].op /\ new.job = req[r].job /\ new.batch = req[r].batch /\ new.pc = "finish"
    BY <1>0 DEF Request
  <2>b. req' = [req EXCEPT ![r] = new] /\ UNCHANGED <<agent, ran, status, lastJob>>
    BY <1>2 DEF PostDelete
  <2> HIDE DEF new
  <2> QED BY <2>a, <2>b, <1>0, MoveHands, <1>2 DEF PostDelete
<1>3. ASSUME PostFinish(r) PROVE HandInv'
  <2>1. CASE status[req[r].job] = "gone"
    BY <1>0, <1>3, <2>1, AnswerHands DEF PostFinish
  <2>2. CASE status[req[r].job] # "gone"
    <3> DEFINE job == req[r].job
    <3>1. job \in Jobs /\ ran[job] > 0 /\ req[r].pc = "finish"
      BY <1>3 DEF PostFinish, HandInv, RequestShape
    <3>2. Known(job)
      BY <3>1 DEF HandInv, NotRunYet, Known, TypeOK
    <3>3. /\ status'[job] \in {status[job]} \cup Ended
          /\ \A j \in Jobs \ {job} : status'[j] = status[j]
      BY <1>0, <1>3, <2>2, <3>1 DEF PostFinish, FinalStatus, TypeOK, Request
    <3>4. /\ req'[r] = [req[r] EXCEPT !.pc = "respond"]
          /\ \A t \in Requests \ {r} : req'[t] = req[t]
      BY <1>3, <2>2 DEF PostFinish, Goto, TypeOK
    <3>5. /\ req'[r].batch = req[r].batch /\ req'[r].pc = "respond"
          /\ req'[r].op = req[r].op /\ req'[r].job = req[r].job
      BY <1>0, <3>4 DEF Request
    <3>6. /\ UNCHANGED <<agent, ran, lastJob>>
          /\ \A j \in Jobs : (Known(j)' <=> Known(j)) /\ (status'[j] = "pending" => status[j] = "pending")
      BY <1>3, <2>2, <3>2, <3>3 DEF PostFinish, Known, Ended
    <3> HIDE DEF job
    <3>7. Numbered' /\ RunsOnce' /\ EndedWereRun'
      BY <3>1, <3>3, <3>6 DEF HandInv, Numbered, RunsOnce, EndedWereRun
    <3>8. AgentShape'
      BY <3>6 DEF HandInv, AgentShape, TypeOK, AgentState
    <3>9. \A t \in Requests : req[t].batch \subseteq Jobs
      BY DEF TypeOK, Request
    <3>12. req[r].batch = {}
      BY <3>1 DEF HandInv, RequestShape
    <3>10. RequestShape'
      <4>1. \A t \in Requests \ {r} :
              /\ \A j \in req'[t].batch : Known(j)'
              /\ req'[t].pc \in {"job", "delete", "finish"} =>
                    req'[t].job \in Jobs /\ ran'[req'[t].job] > 0 /\ req'[t].batch = {}
              /\ agent'.conn = t /\ req'[t].op = "post" =>
                    agent'.job \in Jobs /\ ran'[agent'.job] > 0
        BY <3>4, <3>6, <3>9 DEF HandInv, RequestShape
      <4>2. agent.conn = r /\ req[r].op = "post" => agent.job \in Jobs /\ ran[agent.job] > 0
        BY DEF HandInv, RequestShape
      <4> QED BY <3>5, <3>6, <3>12, <4>1, <4>2 DEF RequestShape
    <3>11. NotRunYet'
      <4>1. \A j \in Jobs : status'[j] \in {"none", "pending"} => ran'[j] = 0
        BY <3>6 DEF HandInv, NotRunYet, Known
      <4>2. \A t \in Requests : agent'.conn = t => \A j \in req'[t].batch : ran'[j] = 0
        <5>1. \A t \in Requests \ {r} : agent'.conn = t => \A j \in req'[t].batch : ran'[j] = 0
          BY <3>4, <3>6 DEF HandInv, NotRunYet
        <5> QED BY <3>5, <3>12, <5>1
      <4>3. \A t \in Requests : agent'.conn = t /\ req'[t].pc = "respond" =>
              \A j \in req'[t].batch : status'[j] # "pending"
        <5>1. \A t \in Requests \ {r} : agent'.conn = t /\ req'[t].pc = "respond" =>
                \A j \in req'[t].batch : status'[j] # "pending"
          BY <3>4, <3>6, <3>9 DEF HandInv, NotRunYet
        <5> QED BY <3>5, <3>12, <5>1
      <4> QED BY <4>1, <4>2, <4>3 DEF NotRunYet
    <3> QED BY <3>7, <3>8, <3>10, <3>11 DEF HandInv
  <2> QED BY <2>1, <2>2
<1> QED BY <1>1, <1>2, <1>3 DEF Post

LEMMA ServeHands ==
    ASSUME TypeOK, TypeOK', HandInv, NEW r \in Requests, Serve(r)
    PROVE  HandInv'
<1>1. ASSUME Respond(r) PROVE HandInv'
  <2>1. req[r].batch \in SUBSET Jobs
    BY DEF TypeOK, Request
  <2> QED BY <1>1, <2>1, AnswerHands DEF Respond, db
<1> QED BY <1>1, PollHands, PostHands DEF Serve

LEMMA DashboardHands ==
    ASSUME TypeOK, HandInv, Dashboard
    PROVE  TypeOK' /\ HandInv'
<1>1. ASSUME CreateJob PROVE TypeOK' /\ HandInv'
  <2>1. PICK k \in DashKinds : NewJob(k)
    BY <1>1 DEF CreateJob
  <2>2. k \in Kinds /\ lastJob < MaxJobs
    BY <1>1 DEF CreateJob, Kinds
  <2>3. TypeOK'
    BY <1>1, <2>1, <2>2, NewJobType DEF CreateJob, TypeOK
  <2> DEFINE pos == [r \in Requests |-> "same"]
  <2>4. pos \in [Requests -> {"same", "check"}]
    OBVIOUS
  <2>5. \A r \in Requests :
          req'[r] = IF pos[r] = "same" THEN req[r] ELSE [req[r] EXCEPT !.pc = "check"]
    BY <1>1 DEF CreateJob
  <2> HIDE DEF pos
  <2> QED BY <1>1, <2>1, <2>2, <2>3, <2>4, <2>5, NewJobHands DEF CreateJob
<1>2. ASSUME StartStream \/ StopStream PROVE TypeOK' /\ HandInv'
  BY <1>2 DEF StartStream, StopStream, TypeOK, HandInv, Numbered, Known, AgentShape, RequestShape,
              NotRunYet, RunsOnce, EndedWereRun
<1>3. ASSUME DeleteAgent PROVE TypeOK' /\ HandInv'
  <2>1. \A j \in Jobs : status'[j] = IF status[j] = "none" THEN "none" ELSE "gone"
    BY <1>3 DEF DeleteAgent
  <2>2. TypeOK'
    BY <1>3 DEF DeleteAgent, TypeOK, JobStatus
  <2>3. \A r \in Requests : req[r].batch \subseteq Jobs
    BY DEF TypeOK, Request
  <2>4. Numbered' /\ RunsOnce' /\ EndedWereRun'
    BY <1>3, <2>1 DEF DeleteAgent, HandInv, Numbered, Known, RunsOnce, EndedWereRun, Ended
  <2>5. AgentShape'
    BY <1>3, <2>1 DEF DeleteAgent, HandInv, AgentShape, Known, TypeOK, AgentState
  <2>6. RequestShape' /\ NotRunYet'
    BY <1>3, <2>1, <2>3 DEF DeleteAgent, HandInv, RequestShape, NotRunYet, Known
  <2> QED BY <2>2, <2>4, <2>5, <2>6 DEF HandInv
<1> QED BY <1>1, <1>2, <1>3 DEF Dashboard

LEMMA FaultHands ==
    ASSUME TypeOK, HandInv, Fault
    PROVE  TypeOK' /\ HandInv'
<1> USE DEF db
<1>0. {} \in SUBSET Jobs
  OBVIOUS
<1>1. ASSUME GiveUp PROVE TypeOK' /\ HandInv'
  <2>1. agent' \in AgentState
    BY <1>0, <1>1, ReceiveType DEF GiveUp, TypeOK
  <2>2. /\ agent'.conn = NoReq /\ agent'.todo = agent.todo
        /\ agent'.job = agent.job /\ agent'.pc \in {"poll", "work"}
    BY <1>1 DEF GiveUp, Receive, TypeOK, AgentState
  <2> QED BY <1>1, <2>1, <2>2 DEF GiveUp, TypeOK, HandInv, Numbered, Known, AgentShape,
                                  RequestShape, NotRunYet, RunsOnce, EndedWereRun
<1>2. ASSUME Restart PROVE TypeOK' /\ HandInv'
  BY <1>2, NewAgentType DEF Restart, NewAgent, TypeOK, HandInv, Numbered, Known, AgentShape,
                            RequestShape, NotRunYet, RunsOnce, EndedWereRun
<1>3. ASSUME NEW r \in Requests, Lose(r) \/ Fail(r) PROVE TypeOK' /\ HandInv'
  <2>1. Answer(r, {}) /\ UNCHANGED <<db, ran>>
    BY <1>3 DEF Lose, Fail
  <2>2. TypeOK'
    BY <1>0, <2>1, AnswerType DEF TypeOK
  <2> QED BY <1>0, <2>1, <2>2, AnswerHands
<1>4. ASSUME NEW r \in Requests, Garble(r) PROVE TypeOK' /\ HandInv'
  <2>1. /\ req' = [req EXCEPT ![r] = Idle] /\ req'[r] = Idle
        /\ \A t \in Requests \ {r} : req'[t] = req[t]
    BY <1>4 DEF Garble, TypeOK
  <2>2. /\ agent'.conn = NoReq /\ agent'.todo = agent.todo
        /\ agent'.job = agent.job /\ agent'.pc = "post" /\ agent' \in AgentState
    BY <1>4 DEF Garble, TypeOK, AgentState, Ended
  <2>3. agent.job \in Jobs /\ ran[agent.job] > 0
    BY <1>4 DEF Garble, HandInv, RequestShape
  <2>4. TypeOK'
    BY <1>4, <2>1, <2>2, IdleType DEF Garble, TypeOK
  <2>5. Idle.batch = {} /\ Idle.pc = "idle" /\ Idle.op = "none"
    BY DEF Idle
  <2>6. Numbered' /\ RunsOnce' /\ EndedWereRun' /\ AgentShape'
    BY <1>4, <2>2, <2>3 DEF Garble, HandInv, Numbered, Known, AgentShape, RunsOnce, EndedWereRun
  <2>7. RequestShape' /\ NotRunYet'
    BY <1>4, <2>1, <2>2, <2>5, RequestAssumption DEF Garble, HandInv, Known, RequestShape, NotRunYet
  <2> QED BY <2>4, <2>6, <2>7 DEF HandInv
<1> QED BY <1>1, <1>2, <1>3, <1>4 DEF Fault

\* The invariant holds at first, and every step keeps it.
LEMMA QueueInit == Init => QueueInv
<1> SUFFICES ASSUME Init PROVE QueueInv
  OBVIOUS
<1>1. TypeOK
  BY IdleType, NewAgentType DEF Init, TypeOK, JobStatus, NewAgent
<1>2. \A r \in Requests : req[r].batch = {} /\ req[r].pc = "idle" /\ req[r].op = "none"
  BY DEF Init, Idle
<1>3. /\ agent.conn = NoReq /\ agent.pc = "poll" /\ agent.todo = {}
  BY DEF Init, NewAgent
<1>4. Numbered /\ RunsOnce /\ EndedWereRun
  BY JobsAreNat DEF Init, Numbered, Known, RunsOnce, EndedWereRun, Ended, Jobs
<1>5. AgentShape /\ RequestShape /\ NotRunYet
  BY <1>2, <1>3 DEF AgentShape, RequestShape, NotRunYet, Init
<1> QED BY <1>1, <1>4, <1>5 DEF QueueInv

LEMMA QueueStep == QueueInv /\ [Next]_vars => QueueInv'
<1> SUFFICES ASSUME QueueInv, [Next]_vars PROVE QueueInv'
  OBVIOUS
<1>0. TypeOK /\ HandInv
  BY DEF QueueInv, HandInv
<1>1. CASE Agent
  BY <1>0, <1>1, AgentType, AgentHands DEF QueueInv, HandInv
<1>2. CASE \E r \in Requests : Serve(r)
  <2>1. PICK r \in Requests : Serve(r)
    BY <1>2
  <2>2. TypeOK'
    BY <1>0, <2>1, ServeType DEF HandInv
  <2> QED BY <1>0, <2>1, <2>2, ServeHands DEF QueueInv, HandInv
<1>3. CASE Dashboard
  BY <1>0, <1>3, DashboardHands DEF QueueInv, HandInv
<1>4. CASE Fault
  BY <1>0, <1>4, FaultHands DEF QueueInv, HandInv
<1>5. CASE UNCHANGED vars
  BY <1>5 DEF vars, QueueInv, TypeOK, HandInv, Numbered, Known, AgentShape, RequestShape, NotRunYet,
              RunsOnce, EndedWereRun
<1> QED BY <1>1, <1>2, <1>3, <1>4, <1>5 DEF Next

\* The queue's invariant: who holds which job, and what was run.
THEOREM QueueInvariant == Spec => []QueueInv
BY QueueInit, QueueStep, PTL DEF Spec

\* Every variable keeps its type.
THEOREM JobsTypeCorrect == Spec => []TypeOK
BY QueueInvariant, PTL DEF QueueInv

\* A job is run at most once, with any number of requests, jobs and faults:
\* pending_jobs_for_agent has it 'running' before the answer, and the agent
\* acts on the one answer it waits for.
THEOREM JobsRunOnce == Spec => []RunsOnce
BY QueueInvariant, PTL DEF QueueInv

\* A job with a result was run: no result is stored of a job withdrawn.
THEOREM ResultsAreOfRuns == Spec => []EndedWereRun
BY QueueInvariant, PTL DEF QueueInv

-----------------------------------------------------------------------------
(* The refinement of WorkQueue.                                             *)

\* Jobs leave the queue, and none comes into it, or comes to be.
Withdraws ==
    /\ ran' = ran
    /\ \A j \in Jobs : /\ status'[j] = "none" <=> status[j] = "none"
                       /\ status'[j] = "pending" => status[j] = "pending"

\* One row comes to be.
Inserts ==
    /\ ran' = ran
    /\ \E i \in Jobs : /\ status[i] = "none" /\ status'[i] = "pending"
                       /\ \A j \in Jobs \ {i} : status'[j] = status[j]

\* One job is run that had left the queue.
Runs ==
    /\ status' = status
    /\ \E i \in Jobs : /\ ran[i] = 0 /\ ran'[i] = 1 /\ status[i] \notin {"none", "pending"}
                       /\ \A j \in Jobs \ {i} : ran'[j] = ran[j]

LEMMA NewJobInserts ==
    ASSUME QueueInv, lastJob < MaxJobs, NEW k, NewJob(k), ran' = ran
    PROVE  Inserts
<1>1. lastJob + 1 \in Jobs /\ status[lastJob + 1] = "none"
  BY DEF QueueInv, Numbered, Known, TypeOK, Jobs
<1>2. /\ status'[lastJob + 1] = "pending"
      /\ \A j \in Jobs \ {lastJob + 1} : status'[j] = status[j]
  BY <1>1 DEF NewJob, QueueInv, TypeOK
<1> QED BY <1>1, <1>2 DEF Inserts

\* What a step of Next does to the places of the jobs.
LEMMA StepPlaces == QueueInv /\ [Next]_vars => Withdraws \/ Inserts \/ Runs
<1> SUFFICES ASSUME QueueInv, [Next]_vars PROVE Withdraws \/ Inserts \/ Runs
  OBVIOUS
<1> USE DEF db
<1>0. ASSUME status' = status, ran' = ran PROVE Withdraws
  BY <1>0 DEF Withdraws
<1>1. CASE Agent
  <2>1. ASSUME NEW r \in Requests, AgentPoll(r) \/ AgentPost(r) PROVE Withdraws
    BY <1>0, <2>1 DEF AgentPoll, AgentPost
  <2>2. ASSUME NEW j \in Jobs, RunJob(j) PROVE Runs
    <3>1. ran[j] = 0 /\ status[j] \notin {"none", "pending"}
      BY <2>2 DEF RunJob, QueueInv, AgentShape, Known
    <3>2. ran'[j] = 1 /\ \A i \in Jobs \ {j} : ran'[i] = ran[i]
      BY <2>2, <3>1 DEF RunJob, QueueInv, TypeOK
    <3> QED BY <2>2, <3>1, <3>2 DEF RunJob, Runs
  <2> QED BY <1>1, <2>1, <2>2 DEF Agent
<1>2. ASSUME NEW r \in Requests, Serve(r) PROVE Withdraws \/ Inserts
  <2>1. ASSUME PollGet(r) \/ PollStreams(r) \/ PollCheck(r) \/ PollSelect(r) \/ PostJob(r)
               \/ PostDelete(r) \/ Respond(r)
        PROVE  Withdraws
    BY <1>0, <2>1 DEF PollGet, PollStreams, PollCheck, PollSelect, PostJob, PostDelete, Respond
  <2>2. ASSUME PollCreate(r) PROVE Withdraws \/ Inserts
    <3>1. CASE ~enrolled \/ lastJob = MaxJobs
      BY <1>0, <2>2, <3>1 DEF PollCreate
    <3>2. CASE enrolled /\ lastJob # MaxJobs
      <4>1. lastJob < MaxJobs
        BY <3>2 DEF QueueInv, TypeOK
      <4> QED BY <2>2, <3>2, <4>1, NewJobInserts DEF PollCreate
    <3> QED BY <3>1, <3>2
  <2>3. ASSUME PollCommit(r) PROVE Withdraws
    <3>1. \A j \in req[r].batch : status[j] # "none"
      BY DEF QueueInv, RequestShape, Known
    <3>2. status' = status \/ \A j \in Jobs : status'[j] = IF j \in req[r].batch THEN "running" ELSE status[j]
      BY <2>3 DEF PollCommit, MarkRunning
    <3> QED BY <2>3, <3>1, <3>2 DEF PollCommit, Withdraws
  <2>4. ASSUME PostFinish(r) PROVE Withdraws
    <3>1. req[r].job \in Jobs /\ ran[req[r].job] > 0
      BY <2>4 DEF PostFinish, QueueInv, RequestShape
    <3>2. status[req[r].job] \notin {"none", "pending"}
      BY <3>1 DEF QueueInv, NotRunYet
    <3>3. req[r].outcome \in Ended
      BY DEF QueueInv, TypeOK, Request
    <3>4. \/ status' = status
          \/ /\ status'[req[r].job] \in {status[req[r].job]} \cup Ended
             /\ \A j \in Jobs \ {req[r].job} : status'[j] = status[j]
      BY <2>4, <3>1, <3>3 DEF PostFinish, FinalStatus, QueueInv, TypeOK
    <3> QED BY <2>4, <3>2, <3>4 DEF PostFinish, Withdraws, Ended
  <2> QED BY <1>2, <2>1, <2>2, <2>3, <2>4 DEF Serve, Poll, Post
<1>3. CASE Dashboard
  <2>1. ASSUME CreateJob PROVE Inserts
    BY <2>1, NewJobInserts DEF CreateJob
  <2>2. ASSUME StartStream \/ StopStream PROVE Withdraws
    BY <1>0, <2>2 DEF StartStream, StopStream
  <2>3. ASSUME DeleteAgent PROVE Withdraws
    BY <2>3 DEF DeleteAgent, Withdraws
  <2> QED BY <1>3, <2>1, <2>2, <2>3 DEF Dashboard
<1>4. CASE Fault
  BY <1>0, <1>4 DEF Fault, GiveUp, Restart, Lose, Garble, Fail
<1>5. CASE UNCHANGED vars
  BY <1>0, <1>5 DEF vars
<1> QED BY <1>1, <1>2, <1>3, <1>4, <1>5 DEF Next

\* Each of the three is a step of WorkQueue, or none.
LEMMA PlaceSteps ==
    ASSUME TypeOK, TypeOK', Withdraws \/ Inserts \/ Runs
    PROVE  [Queue!Next]_([j \in Jobs |-> Place(j)])
<1> DEFINE place == [j \in Jobs |-> Place(j)]
<1>0. /\ \A j \in Jobs : ran[j] \in Nat /\ ran'[j] \in Nat
      /\ place' = [j \in Jobs |-> Place(j)']
  BY DEF TypeOK
<1>1. ASSUME Withdraws PROVE Queue!Next
  <2> DEFINE taken == {j \in Jobs : Place(j) = "queued" /\ Place(j)' # "queued"}
  <2>1. \A j \in Jobs : Place(j)' = IF j \in taken THEN "taken" ELSE Place(j)
    BY <1>0, <1>1 DEF Withdraws, Place
  <2>2. taken \in SUBSET Jobs /\ \A j \in taken : place[j] = "queued"
    OBVIOUS
  <2>3. Queue!Take(taken)
    BY <1>0, <2>1, <2>2 DEF Queue!Take
  <2> QED BY <2>2, <2>3 DEF Queue!Next
<1>2. ASSUME Inserts PROVE Queue!Next \/ place' = place
  <2>1. PICK i \in Jobs : /\ status[i] = "none" /\ status'[i] = "pending"
                          /\ \A j \in Jobs \ {i} : status'[j] = status[j]
    BY <1>2 DEF Inserts
  <2>2. ran' = ran /\ \A j \in Jobs \ {i} : Place(j)' = Place(j)
    BY <1>2, <2>1 DEF Inserts, Place
  <2>3. CASE ran[i] = 0
    <3>1. Place(i) = "absent" /\ Place(i)' = "queued"
      BY <2>1, <2>2, <2>3 DEF Place
    <3>2. Queue!Enqueue(i)
      BY <1>0, <2>2, <3>1 DEF Queue!Enqueue
    <3> QED BY <3>2 DEF Queue!Next
  <2>4. CASE ran[i] # 0
    <3>1. Place(i)' = Place(i)
      BY <1>0, <2>2, <2>4 DEF Place
    <3> QED BY <1>0, <2>2, <3>1
  <2> QED BY <2>3, <2>4
<1>3. ASSUME Runs PROVE Queue!Next
  <2>1. PICK i \in Jobs : /\ ran[i] = 0 /\ ran'[i] = 1 /\ status[i] \notin {"none", "pending"}
                          /\ \A j \in Jobs \ {i} : ran'[j] = ran[j]
    BY <1>3 DEF Runs
  <2>2. /\ Place(i) = "taken" /\ Place(i)' = "run"
        /\ \A j \in Jobs \ {i} : Place(j)' = Place(j)
    BY <1>3, <2>1 DEF Runs, Place
  <2>3. Queue!Run(i)
    BY <1>0, <2>2 DEF Queue!Run
  <2> QED BY <2>3 DEF Queue!Next
<1> QED BY <1>1, <1>2, <1>3

\* The queue implements WorkQueue: no job is run before it was taken from the
\* queue, none is run twice, and none comes back to the queue.
THEOREM JobsImplementWorkQueue == Spec => ImplementsWorkQueue
<1>1. Init => Queue!Init
  BY DEF Init, Queue!Init, Place
<1>2. QueueInv /\ QueueInv' /\ [Next]_vars => [Queue!Next]_([j \in Jobs |-> Place(j)])
  BY StepPlaces, PlaceSteps DEF QueueInv
<1> QED BY <1>1, <1>2, QueueInvariant, PTL DEF Spec, ImplementsWorkQueue, Queue!Spec
-----------------------------------------------------------------------------
(* Results that overlap.                                                    *)

\* The findings can be given to requests, each to one of its own, so that a
\* result that is about to replace the findings it saw replaces its own as well.
Assigned(f) ==
    /\ f \in [findings -> Requests]
    /\ \A x, y \in findings : f[x] = f[y] => x = y
    /\ \A r \in Requests : Storing(r) =>
          \A x \in findings : f[x] = r => x \in req[r].victims
StoredInv == \E f \in [findings -> Requests] : Assigned(f)

LEMMA StoredInit == Init => StoredInv
<1> SUFFICES ASSUME Init PROVE StoredInv
  OBVIOUS
<1> DEFINE f == [x \in findings |-> CHOOSE r \in Requests : TRUE]
<1>1. findings = {} /\ \A r \in Requests : ~Storing(r)
  BY DEF Init, Storing, Idle
<1>2. f \in [findings -> Requests] /\ Assigned(f)
  BY <1>1 DEF Assigned
<1> QED BY <1>2 DEF StoredInv

\* While no other result comes to its end, the findings stay where they are.
LEMMA StoredStays ==
    ASSUME StoredInv, findings' = findings,
           \A t \in Requests : Storing(t)' => Storing(t) /\ req'[t].victims = req[t].victims
    PROVE  StoredInv'
<1>1. PICK f \in [findings -> Requests] : Assigned(f)
  BY DEF StoredInv
<1>2. Assigned(f)'
  BY <1>1 DEF Assigned
<1> QED BY <1>2 DEF StoredInv, Assigned

\* So do they when a request goes on to a position at which it stores nothing.
LEMMA StoredElsewhere ==
    ASSUME QueueInv, StoredInv, NEW r \in Requests, findings' = findings, kind' = kind,
           \A t \in Requests \ {r} : req'[t] = req[t],
           Storing(r)' => Storing(r) /\ req'[r].victims = req[r].victims
    PROVE  StoredInv'
BY StoredStays DEF Storing

\* The kind of a job whose result is being stored does not change.
LEMMA NewJobStored ==
    ASSUME QueueInv, StoredInv, lastJob < MaxJobs, NEW k, NewJob(k), findings' = findings,
           \A t \in Requests : req'[t].pc = "finish" => req'[t] = req[t]
    PROVE  StoredInv'
<1>1. lastJob + 1 \in Jobs /\ ran[lastJob + 1] = 0
  BY DEF QueueInv, Numbered, Known, NotRunYet, TypeOK, Jobs
<1>2. \A t \in Requests : req[t].pc = "finish" =>
         req[t].job \in Jobs /\ ran[req[t].job] > 0
  BY DEF QueueInv, RequestShape
<1>3. \A j \in Jobs : ran[j] > 0 => kind'[j] = kind[j]
  BY <1>1 DEF NewJob, QueueInv, TypeOK
<1>4. \A t \in Requests : Storing(t)' => Storing(t) /\ req'[t].victims = req[t].victims
  BY <1>2, <1>3 DEF Storing
<1> QED BY <1>4, StoredStays

\* A result takes the place of every finding that was given to its request.
LEMMA FinishStored ==
    ASSUME QueueInv, StoredInv, NEW r \in Requests, PostFinish(r)
    PROVE  StoredInv'
<1>0. req \in [Requests -> Request]
  BY DEF QueueInv, TypeOK
<1>1. kind' = kind
  BY DEF PostFinish
<1>2. CASE status[req[r].job] = "gone"
  <2>1. req' = [req EXCEPT ![r] = Idle] /\ findings' = findings
    BY <1>2 DEF PostFinish, Answer
  <2>2. ~Storing(r)' /\ \A t \in Requests \ {r} : req'[t] = req[t]
    BY <1>0, <2>1 DEF Storing, Idle
  <2> QED BY <1>1, <2>1, <2>2, StoredElsewhere
<1>3. CASE status[req[r].job] # "gone"
  <2>1. Goto(r, "respond")
    BY <1>3 DEF PostFinish
  <2>2. ~Storing(r)' /\ \A t \in Requests \ {r} : req'[t] = req[t]
    BY <1>0, <2>1 DEF Goto, Storing, Request
  <2>3. CASE ~Storing(r)
    <3>1. findings' = findings
      BY <1>3, <2>3 DEF PostFinish, Storing
    <3> QED BY <1>1, <2>2, <3>1, StoredElsewhere
  <2>4. CASE Storing(r)
    <3> DEFINE job == req[r].job
               left == (findings \ req[r].victims) \cup {job}
    <3>1. findings' = left
      BY <1>3, <2>4 DEF PostFinish, Storing
    <3>2. PICK f \in [findings -> Requests] : Assigned(f)
      BY DEF StoredInv
    <3>3. \A x \in findings \ req[r].victims : f[x] # r
      BY <2>4, <3>2 DEF Assigned
    <3> DEFINE g == [x \in left |-> IF x = job THEN r ELSE f[x]]
    <3>4. g \in [findings' -> Requests]
      BY <3>1, <3>2
    <3>5. \A x \in findings' \ {job} : x \in findings /\ g[x] = f[x] /\ g[x] # r
      BY <3>1, <3>3
    <3>6. job \in findings' /\ g[job] = r
      BY <3>1
    <3> HIDE DEF g, job, left
    <3>7. \A x, y \in findings' : g[x] = g[y] => x = y
      BY <3>2, <3>5, <3>6 DEF Assigned
    <3>8. \A t \in Requests : Storing(t)' => \A x \in findings' : g[x] = t => x \in req'[t].victims
      <4> SUFFICES ASSUME NEW t \in Requests, Storing(t)', NEW x \in findings', g[x] = t
                   PROVE  x \in req'[t].victims
        OBVIOUS
      <4>1. t # r /\ req'[t] = req[t]
        BY <2>2
      <4>2. Storing(t)
        BY <1>1, <4>1 DEF Storing
      <4>3. x # job
        BY <3>6, <4>1
      <4> QED BY <3>2, <3>5, <4>1, <4>2, <4>3 DEF Assigned
    <3>9. PICK h : h = g
      OBVIOUS
    <3>10. Assigned(h)'
      BY <3>4, <3>7, <3>8, <3>9 DEF Assigned
    <3> QED BY <3>4, <3>9, <3>10 DEF StoredInv
  <2> QED BY <2>3, <2>4
<1> QED BY <1>2, <1>3

\* Every step of a request keeps the findings within the requests.
LEMMA ServeStored ==
    ASSUME QueueInv, StoredInv, NEW r \in Requests, Serve(r)
    PROVE  StoredInv'
<1> USE DEF db
<1>0. req \in [Requests -> Request] /\ req[r] \in Request
  BY DEF QueueInv, TypeOK
<1>1. ASSUME NEW jobs, Answer(r, jobs), findings' = findings, kind' = kind
      PROVE  StoredInv'
  <2>1. ~Storing(r)' /\ \A t \in Requests \ {r} : req'[t] = req[t]
    BY <1>0, <1>1 DEF Answer, Storing, Idle
  <2> QED BY <1>1, <2>1, StoredElsewhere
<1>2. ASSUME NEW new, req' = [req EXCEPT ![r] = new], findings' = findings, kind' = kind,
             new.pc # "finish"
      PROVE  StoredInv'
  <2>1. ~Storing(r)' /\ \A t \in Requests \ {r} : req'[t] = req[t]
    BY <1>0, <1>2 DEF Storing
  <2> QED BY <1>2, <2>1, StoredElsewhere
<1>3. \A pc \in {"streams", "check", "respond"} : [req[r] EXCEPT !.pc = pc].pc = pc
  BY <1>0 DEF Request
<1>4. CASE PollGet(r) \/ PollStreams(r)
  <2>1. [req[r] EXCEPT !.pc = "check", !.want = streams].pc = "check"
    BY <1>0 DEF Request
  <2> QED BY <1>1, <1>2, <1>3, <1>4, <2>1 DEF PollGet, PollStreams, Goto
<1>5. CASE PollCheck(r)
  <2>1. req'[r].pc \in {"check", "create"} /\ \A t \in Requests \ {r} : req'[t] = req[t]
    BY <1>0, <1>5 DEF PollCheck, Request
  <2>2. ~Storing(r)' /\ findings' = findings /\ kind' = kind
    BY <1>5, <2>1 DEF PollCheck, Storing
  <2> QED BY <2>1, <2>2, StoredElsewhere
<1>6. CASE PollCreate(r)
  <2>1. CASE ~enrolled
    BY <1>1, <1>6, <2>1 DEF PollCreate
  <2>2. CASE enrolled /\ lastJob = MaxJobs
    BY <1>2, <1>3, <1>6, <2>2 DEF PollCreate, Goto
  <2>3. CASE enrolled /\ lastJob # MaxJobs
    <3>1. PICK k \in req[r].renew : NewJob(k)
      BY <1>6, <2>3 DEF PollCreate
    <3>2. Goto(r, "check") /\ findings' = findings
      BY <1>6, <2>3 DEF PollCreate
    <3>3. \A t \in Requests : req'[t].pc = "finish" => req'[t] = req[t]
      BY <1>0, <1>3, <3>2 DEF Goto
    <3>4. lastJob < MaxJobs
      BY <2>3 DEF QueueInv, TypeOK
    <3> QED BY <3>1, <3>2, <3>3, <3>4, NewJobStored
  <2> QED BY <2>1, <2>2, <2>3
<1>7. CASE PollSelect(r)
  <2>1. req'[r].pc \in {"respond", "commit"} /\ \A t \in Requests \ {r} : req'[t] = req[t]
    BY <1>0, <1>7 DEF PollSelect, Request
  <2>2. ~Storing(r)' /\ findings' = findings /\ kind' = kind
    BY <1>7, <2>1 DEF PollSelect, Storing
  <2> QED BY <2>1, <2>2, StoredElsewhere
<1>8. CASE PollCommit(r)
  BY <1>1, <1>2, <1>3, <1>8 DEF PollCommit, Goto
<1>9. CASE PostJob(r)
  <2>1. CASE status[req[r].job] = "gone"
    BY <1>1, <1>9, <2>1 DEF PostJob
  <2>2. CASE status[req[r].job] # "gone"
    <3> DEFINE scan == kind[req[r].job] = "scan" /\ req[r].outcome = "done"
               new == [req[r] EXCEPT !.loaded = status[req[r].job],
                                     !.pc = IF scan THEN "delete" ELSE "finish"]
    <3>1. req' = [req EXCEPT ![r] = new] /\ findings' = findings /\ kind' = kind
      BY <1>9, <2>2 DEF PostJob
    <3>2. /\ new.job = req[r].job /\ new.outcome = req[r].outcome
          /\ new.pc = "finish" => ~scan
      BY <1>0 DEF Request
    <3> HIDE DEF new
    <3>3. ~Storing(r)' /\ \A t \in Requests \ {r} : req'[t] = req[t]
      BY <1>0, <3>1, <3>2 DEF Storing
    <3> QED BY <3>1, <3>3, StoredElsewhere
  <2> QED BY <2>1, <2>2
<1>10. CASE PostDelete(r)
  <2>1. /\ req'[r].victims = findings /\ findings' = findings /\ kind' = kind
        /\ \A t \in Requests \ {r} : req'[t] = req[t]
    BY <1>0, <1>10 DEF PostDelete, OldFindings, Request
  <2>2. PICK f \in [findings -> Requests] : Assigned(f)
    BY DEF StoredInv
  <2>3. Assigned(f)'
    BY <2>1, <2>2 DEF Assigned, Storing
  <2> QED BY <2>1, <2>3 DEF StoredInv, Assigned
<1>11. CASE PostFinish(r)
  BY <1>11, FinishStored
<1>12. CASE Respond(r)
  BY <1>1, <1>12 DEF Respond
<1> QED BY <1>4, <1>5, <1>6, <1>7, <1>8, <1>9, <1>10, <1>11, <1>12 DEF Serve, Poll, Post

LEMMA StoredStep == ASSUME QueueInv, StoredInv, [Next]_vars PROVE StoredInv'
<1> USE DEF db
<1>0. req \in [Requests -> Request]
  BY DEF QueueInv, TypeOK
<1>1. CASE Agent
  <2>1. ASSUME NEW r \in Requests, AgentPoll(r) \/ AgentPost(r) PROVE StoredInv'
    <3>1. req'[r].pc \in {"get", "job"} /\ \A t \in Requests \ {r} : req'[t] = req[t]
      BY <1>0, <2>1 DEF AgentPoll, AgentPost, Send, Idle
    <3>2. ~Storing(r)' /\ findings' = findings /\ kind' = kind
      BY <2>1, <3>1 DEF AgentPoll, AgentPost, Storing
    <3> QED BY <3>1, <3>2, StoredElsewhere
  <2>2. ASSUME NEW j \in Jobs, RunJob(j) PROVE StoredInv'
    BY <2>2, StoredStays DEF RunJob, Storing
  <2> QED BY <1>1, <2>1, <2>2 DEF Agent
<1>2. CASE \E r \in Requests : Serve(r)
  BY <1>2, ServeStored
<1>3. CASE CreateJob
  <2>1. PICK k \in DashKinds : NewJob(k)
    BY <1>3 DEF CreateJob
  <2> QED BY <1>3, <2>1, NewJobStored DEF CreateJob
<1>4. CASE StartStream \/ StopStream \/ DeleteAgent \/ GiveUp \/ Restart \/ UNCHANGED vars
  <2>1. findings' = findings /\ kind' = kind /\ req' = req
    BY <1>4 DEF StartStream, StopStream, DeleteAgent, GiveUp, Restart, vars
  <2> QED BY <2>1, StoredStays DEF Storing
<1>5. ASSUME NEW r \in Requests, Lose(r) \/ Garble(r) \/ Fail(r) PROVE StoredInv'
  <2>1. req' = [req EXCEPT ![r] = Idle] /\ findings' = findings /\ kind' = kind
    BY <1>5 DEF Lose, Garble, Fail, Answer
  <2>2. ~Storing(r)' /\ \A t \in Requests \ {r} : req'[t] = req[t]
    BY <1>0, <2>1 DEF Storing, Idle
  <2> QED BY <2>1, <2>2, StoredElsewhere
<1> QED BY <1>1, <1>2, <1>3, <1>4, <1>5 DEF Next, Dashboard, Fault

\* However results overlap, and whatever is lost, given up or fails between
\* their two statements, the findings of a target are of no more scans than
\* there are requests at the same time: of one, when results do not overlap.
THEOREM ScansWithinRequestsThm ==
    ASSUME IsFiniteSet(Requests) PROVE Spec => []ScansWithinRequests
<1>1. StoredInv => ScansWithinRequests
  <2> SUFFICES ASSUME StoredInv PROVE ScansWithinRequests
    OBVIOUS
  <2>1. PICK f \in [findings -> Requests] : Assigned(f)
    BY DEF StoredInv
  <2>2. f \in Injection(findings, Requests)
    BY <2>1 DEF Assigned, Injection, IsInjective
  <2> QED BY <2>2, FS_Injection DEF ScansWithinRequests
<1>2. QueueInv /\ StoredInv /\ [Next]_vars => StoredInv'
  BY StoredStep
<1> QED BY <1>1, <1>2, StoredInit, QueueInvariant, PTL DEF Spec
-----------------------------------------------------------------------------
(* A result is reported once.                                               *)

\* An outcome nobody reports again: an error may be what came of a success
\* whose answer was cut short.
Sole(outcome) == outcome = "done" \/ "garbled" \notin Faults

\* A request that has a result to store; the job it is about.
Reporting(r) == req[r].pc \in {"job", "delete", "finish"}
Carries(r, j) == req[r].op = "post" /\ req[r].job = j

\* What is posted was run; the agent that waits for the answer to a result has
\* its job in hand; a sole outcome that is not stored yet is that of a job
\* without a result, of which nobody else has one.
CarriesRun ==
    \A r \in Requests :
        /\ Reporting(r) => req[r].op = "post"
        /\ req[r].op = "post" => req[r].job \in Jobs /\ ran[req[r].job] > 0
WaitsForOwn == \A r \in Requests :
    agent.conn = r /\ req[r].op = "post" => agent.job = req[r].job
AgentIsFirst ==
    agent.pc = "post" /\ Sole(agent.outcome) =>
        /\ status[agent.job] \notin Ended
        /\ \A r \in Requests : ~Carries(r, agent.job)
RequestIsOnly ==
    \A r \in Requests : Reporting(r) /\ Sole(req[r].outcome) =>
        /\ status[req[r].job] \notin Ended
        /\ ~(agent.pc = "post" /\ agent.job = req[r].job)
        /\ \A t \in Requests \ {r} : ~Carries(t, req[r].job)
PostedInv == CarriesRun /\ WaitsForOwn /\ AgentIsFirst /\ RequestIsOnly

LEMMA PostedInit == Init => PostedInv
BY DEF Init, PostedInv, CarriesRun, WaitsForOwn, AgentIsFirst, RequestIsOnly, NewAgent, Idle,
       Reporting, Carries

\* A request carries what it carried before, or nothing, and reports no more.
Fades(t) ==
    /\ req'[t].op = "post" =>
          req[t].op = "post" /\ req'[t].job = req[t].job /\ req'[t].outcome = req[t].outcome
    /\ Reporting(t)' => Reporting(t) /\ req'[t].op = "post"

\* While no result is stored and nothing new is posted, the invariant stays.
LEMMA NothingPosted ==
    ASSUME QueueInv, PostedInv, ran' = ran,
           \A j \in Jobs : status'[j] \in Ended => status[j] \in Ended,
           agent'.pc = "post" =>
               agent.pc = "post" /\ agent'.job = agent.job /\ agent'.outcome = agent.outcome,
           agent'.conn \in Requests => agent'.conn = agent.conn /\ agent'.job = agent.job,
           \A t \in Requests : Fades(t)
    PROVE  PostedInv'
<1>0. \A t \in Requests :
        /\ req'[t].op = "post" =>
              req[t].op = "post" /\ req'[t].job = req[t].job /\ req'[t].outcome = req[t].outcome
        /\ Reporting(t)' => Reporting(t) /\ req'[t].op = "post"
  BY DEF Fades
<1>1. CarriesRun'
  BY <1>0 DEF PostedInv, CarriesRun
<1>2. WaitsForOwn'
  BY <1>0 DEF PostedInv, WaitsForOwn
<1>3. \A t \in Requests, j \in Jobs : Carries(t, j)' => Carries(t, j)
  BY <1>0 DEF Carries
<1>4. agent.pc = "post" => agent.job \in Jobs
  BY DEF QueueInv, AgentShape
<1>5. AgentIsFirst'
  <2> SUFFICES ASSUME agent'.pc = "post", Sole(agent'.outcome)
               PROVE  /\ status'[agent'.job] \notin Ended
                      /\ \A r \in Requests : ~(req'[r].op = "post" /\ req'[r].job = agent'.job)
    BY DEF AgentIsFirst, Sole, Carries
  <2>1. agent.pc = "post" /\ agent'.job = agent.job /\ Sole(agent.outcome) /\ agent.job \in Jobs
    BY <1>4
  <2>2. status[agent.job] \notin Ended /\ \A r \in Requests : ~Carries(r, agent.job)
    BY <2>1 DEF PostedInv, AgentIsFirst
  <2> QED BY <1>3, <2>1, <2>2 DEF Carries
<1>6. RequestIsOnly'
  <2> SUFFICES ASSUME NEW r \in Requests, Reporting(r)', Sole(req'[r].outcome)
               PROVE  /\ status'[req'[r].job] \notin Ended
                      /\ ~(agent'.pc = "post" /\ agent'.job = req'[r].job)
                      /\ \A t \in Requests \ {r} : ~(req'[t].op = "post" /\ req'[t].job = req'[r].job)
    BY DEF RequestIsOnly, Sole, Carries
  <2>1. Reporting(r) /\ Sole(req[r].outcome) /\ req'[r].job = req[r].job /\ req[r].job \in Jobs
    BY <1>0 DEF PostedInv, CarriesRun
  <2>2. /\ status[req[r].job] \notin Ended
        /\ ~(agent.pc = "post" /\ agent.job = req[r].job)
        /\ \A t \in Requests \ {r} : ~Carries(t, req[r].job)
    BY <2>1 DEF PostedInv, RequestIsOnly
  <2> QED BY <1>3, <2>1, <2>2 DEF Carries
<1> QED BY <1>1, <1>2, <1>5, <1>6 DEF PostedInv

\* An answer carries nothing, and leaves nobody with something new to post.
LEMMA AnswerPosted ==
    ASSUME QueueInv, PostedInv, NEW r \in Requests, NEW jobs, Answer(r, jobs),
           ran' = ran, status' = status
    PROVE  PostedInv'
<1>1. \/ agent' = agent
      \/ agent'.pc \in {"poll", "work"} /\ agent'.conn = NoReq
  BY DEF Answer, Receive, QueueInv, TypeOK, AgentState
<1>2. \A t \in Requests : Fades(t)
  <2>1. ~Reporting(r)' /\ req'[r].op # "post" /\ \A t \in Requests \ {r} : req'[t] = req[t]
    BY DEF Answer, QueueInv, TypeOK, Idle, Reporting
  <2> QED BY <2>1 DEF Fades, Reporting, PostedInv, CarriesRun
<1> QED BY <1>1, <1>2, NothingPosted, RequestAssumption

\* A request that only moves on carries what it carried.
LEMMA MovePosted ==
    ASSUME QueueInv, PostedInv, NEW r \in Requests, NEW new, req' = [req EXCEPT ![r] = new],
           new.op = req[r].op, new.job = req[r].job, new.outcome = req[r].outcome,
           new.pc \in {"job", "delete", "finish"} => Reporting(r),
           ran' = ran, agent' = agent,
           \A j \in Jobs : status'[j] \in Ended => status[j] \in Ended
    PROVE  PostedInv'
<1>1. req'[r] = new /\ \A t \in Requests \ {r} : req'[t] = req[t]
  BY DEF QueueInv, TypeOK
<1>2. \A t \in Requests : Fades(t)
  BY <1>1 DEF Fades, Reporting, PostedInv, CarriesRun
<1> QED BY <1>2, NothingPosted

\* The agent runs a job nobody has a result of, and posts what came of it.
LEMMA AgentPosted == ASSUME QueueInv, PostedInv, Agent PROVE PostedInv'
<1> USE DEF db
<1>0. /\ req \in [Requests -> Request] /\ agent \in AgentState /\ ran \in [Jobs -> Nat]
      /\ agent.conn # NoReq => agent.pc = "waiting"
  BY DEF QueueInv, TypeOK, AgentShape
<1>1. ASSUME NEW r \in Requests, AgentPoll(r) PROVE PostedInv'
  <2>1. /\ req'[r].op = "poll" /\ req'[r].pc = "get" /\ \A t \in Requests \ {r} : req'[t] = req[t]
    BY <1>0, <1>1 DEF AgentPoll, Send, Idle
  <2>2. agent'.pc = "waiting" /\ agent'.conn = r /\ ran' = ran /\ status' = status
    BY <1>0, <1>1 DEF AgentPoll, AgentState
  <2>3. CarriesRun' /\ WaitsForOwn' /\ AgentIsFirst'
    BY <2>1, <2>2 DEF PostedInv, CarriesRun, WaitsForOwn, AgentIsFirst, Reporting
  <2>4. RequestIsOnly'
    BY <2>1, <2>2 DEF PostedInv, RequestIsOnly, Reporting, Carries, Sole
  <2> QED BY <2>3, <2>4 DEF PostedInv
<1>2. ASSUME NEW r \in Requests, AgentPost(r) PROVE PostedInv'
  <2>1. /\ req'[r].op = "post" /\ req'[r].pc = "job" /\ req'[r].job = agent.job
        /\ req'[r].outcome = agent.outcome /\ \A t \in Requests \ {r} : req'[t] = req[t]
    BY <1>0, <1>2 DEF AgentPost, Send, Idle
  <2>2. /\ agent.pc = "post" /\ agent'.pc = "waiting" /\ agent'.conn = r
        /\ agent'.job = agent.job /\ ran' = ran /\ status' = status
    BY <1>0, <1>2 DEF AgentPost, AgentState
  <2>3. agent.job \in Jobs /\ ran[agent.job] > 0
    BY <2>2 DEF QueueInv, AgentShape
  <2>4. CarriesRun' /\ WaitsForOwn' /\ AgentIsFirst'
    BY <2>1, <2>2, <2>3 DEF PostedInv, CarriesRun, WaitsForOwn, AgentIsFirst, Reporting
  <2>5. RequestIsOnly'
    <3>1. Sole(agent.outcome) =>
             status[agent.job] \notin Ended /\ \A t \in Requests : ~Carries(t, agent.job)
      BY <2>2 DEF PostedInv, AgentIsFirst
    <3>2. ASSUME NEW t \in Requests \ {r}, Reporting(t), Sole(req[t].outcome)
          PROVE  /\ status[req[t].job] \notin Ended /\ req[t].job # agent.job
                 /\ \A u \in Requests \ {t} : ~Carries(u, req[t].job)
      BY <2>2, <3>2 DEF PostedInv, RequestIsOnly
    <3> QED BY <2>1, <2>2, <3>1, <3>2 DEF RequestIsOnly, Reporting, Carries, Sole
  <2> QED BY <2>4, <2>5 DEF PostedInv
<1>3. ASSUME NEW i \in Jobs, RunJob(i) PROVE PostedInv'
  <2>1. /\ agent'.job = i /\ agent'.conn = agent.conn /\ agent.pc = "work"
        /\ req' = req /\ status' = status /\ ran' = [ran EXCEPT ![i] = @ + 1]
    BY <1>0, <1>3 DEF RunJob, AgentState
  <2>2. ran[i] = 0 /\ status[i] \notin Ended
    <3>1. ran[i] = 0
      BY <1>3 DEF RunJob, QueueInv, AgentShape
    <3> QED BY <3>1 DEF QueueInv, EndedWereRun
  <2>3. \A t \in Requests : ~Carries(t, i)
    BY <2>2 DEF PostedInv, CarriesRun, Carries
  <2>4. CarriesRun' /\ WaitsForOwn'
    BY <1>0, <2>1, RequestAssumption DEF PostedInv, CarriesRun, WaitsForOwn, Reporting
  <2>5. AgentIsFirst'
    BY <2>1, <2>2, <2>3 DEF AgentIsFirst, Carries
  <2>6. RequestIsOnly'
    BY <2>1, <2>3 DEF PostedInv, CarriesRun, RequestIsOnly, Reporting, Carries
  <2> QED BY <2>4, <2>5, <2>6 DEF PostedInv
<1> QED BY <1>1, <1>2, <1>3 DEF Agent

\* No poll stores a result.
LEMMA PollPosted ==
    ASSUME QueueInv, PostedInv, NEW r \in Requests, Poll(r)
    PROVE  PostedInv'
<1> USE DEF db
<1>0. req[r] \in Request
  BY DEF QueueInv, TypeOK
<1>1. ASSUME NEW pc \in {"streams", "check", "respond"}, Goto(r, pc), ran' = ran, agent' = agent,
             \A j \in Jobs : status'[j] \in Ended => status[j] \in Ended
      PROVE  PostedInv'
  <2> DEFINE new == [req[r] EXCEPT !.pc = pc]
  <2>1. /\ req' = [req EXCEPT ![r] = new] /\ new.op = req[r].op /\ new.job = req[r].job
        /\ new.outcome = req[r].outcome /\ new.pc \notin {"job", "delete", "finish"}
    BY <1>0, <1>1 DEF Goto, Request
  <2> HIDE DEF new
  <2> QED BY <1>1, <2>1, MovePosted
<1>2. CASE PollGet(r)
  <2>1. CASE enrolled
    BY <1>1, <1>2, <2>1 DEF PollGet
  <2>2. CASE ~enrolled
    BY <1>2, <2>2, AnswerPosted DEF PollGet
  <2> QED BY <2>1, <2>2
<1>3. CASE PollStreams(r)
  <2> DEFINE new == [req[r] EXCEPT !.pc = "check", !.want = streams]
  <2>1. /\ new.op = req[r].op /\ new.job = req[r].job /\ new.outcome = req[r].outcome
        /\ new.pc \notin {"job", "delete", "finish"}
    BY <1>0 DEF Request
  <2>2. req' = [req EXCEPT ![r] = new] /\ UNCHANGED <<ran, agent, status>>
    BY <1>3 DEF PollStreams
  <2> HIDE DEF new
  <2> QED BY <2>1, <2>2, MovePosted
<1>4. CASE PollCheck(r)
  <2>1. PICK k \in req[r].want :
           req' = [req EXCEPT ![r] =
                     [@ EXCEPT !.want = req[r].want \ {k},
                               !.pc = IF HasActive(k) THEN "check" ELSE "create",
                               !.renew = IF HasActive(k) THEN {} ELSE {k}]]
    BY <1>4 DEF PollCheck
  <2> DEFINE new == [req[r] EXCEPT
                    !.want = req[r].want \ {k},
                    !.pc = IF HasActive(k) THEN "check" ELSE "create",
                    !.renew = IF HasActive(k) THEN {} ELSE {k}]
  <2>2. /\ new.op = req[r].op /\ new.job = req[r].job /\ new.outcome = req[r].outcome
        /\ new.pc \notin {"job", "delete", "finish"}
    BY <1>0 DEF Request
  <2>3. req' = [req EXCEPT ![r] = new] /\ UNCHANGED <<ran, agent, status>>
    BY <1>4, <2>1 DEF PollCheck
  <2> HIDE DEF new
  <2> QED BY <2>2, <2>3, MovePosted
<1>5. CASE PollCreate(r)
  <2>1. CASE ~enrolled
    BY <1>5, <2>1, AnswerPosted DEF PollCreate
  <2>2. CASE enrolled /\ lastJob = MaxJobs
    BY <1>1, <1>5, <2>2 DEF PollCreate
  <2>3. CASE enrolled /\ lastJob # MaxJobs
    <3>1. PICK k \in req[r].renew : NewJob(k)
      BY <1>5, <2>3 DEF PollCreate
    <3>2. \A j \in Jobs : status'[j] \in Ended => status[j] \in Ended
      BY <3>1 DEF NewJob, Ended, QueueInv, TypeOK
    <3> QED BY <1>1, <1>5, <2>3, <3>2 DEF PollCreate
  <2> QED BY <2>1, <2>2, <2>3
<1>6. CASE PollSelect(r)
  <2> DEFINE new == [req[r] EXCEPT !.batch = PendingJobs,
                                 !.pc = IF PendingJobs = {} THEN "respond" ELSE "commit"]
  <2>1. /\ new.op = req[r].op /\ new.job = req[r].job /\ new.outcome = req[r].outcome
        /\ new.pc \notin {"job", "delete", "finish"}
    BY <1>0 DEF Request
  <2>2. req' = [req EXCEPT ![r] = new] /\ UNCHANGED <<ran, agent, status>>
    BY <1>6 DEF PollSelect
  <2> HIDE DEF new
  <2> QED BY <2>1, <2>2, MovePosted
<1>7. CASE PollCommit(r)
  <2>1. CASE \E j \in req[r].batch : status[j] = "gone"
    BY <1>7, <2>1, AnswerPosted DEF PollCommit
  <2>2. CASE ~\E j \in req[r].batch : status[j] = "gone"
    <3>1. \A j \in Jobs : status'[j] \in Ended => status[j] \in Ended
      BY <1>7, <2>2 DEF PollCommit, MarkRunning, Ended
    <3> QED BY <1>1, <1>7, <2>2, <3>1 DEF PollCommit
  <2> QED BY <2>1, <2>2
<1> QED BY <1>2, <1>3, <1>4, <1>5, <1>6, <1>7 DEF Poll

\* A result that is stored is the only one of its job.
LEMMA PostPosted ==
    ASSUME QueueInv, PostedInv, NEW r \in Requests, Post(r)
    PROVE  PostedInv'
<1> USE DEF db
<1>0. req \in [Requests -> Request] /\ req[r] \in Request /\ status \in [Jobs -> JobStatus]
  BY DEF QueueInv, TypeOK
<1>1. CASE PostJob(r)
  <2>1. CASE status[req[r].job] = "gone"
    BY <1>1, <2>1, AnswerPosted DEF PostJob
  <2>2. CASE status[req[r].job] # "gone"
    <3> DEFINE new == [req[r] EXCEPT
                    !.loaded = status[req[r].job],
                    !.pc = IF kind[req[r].job] = "scan" /\ req[r].outcome = "done"
                           THEN "delete" ELSE "finish"]
    <3>1. new.op = req[r].op /\ new.job = req[r].job /\ new.outcome = req[r].outcome
      BY <1>0 DEF Request
    <3>2. req' = [req EXCEPT ![r] = new] /\ UNCHANGED <<ran, agent, status>> /\ Reporting(r)
      BY <1>1, <2>2 DEF PostJob, Reporting
    <3> HIDE DEF new
    <3> QED BY <3>1, <3>2, MovePosted
  <2> QED BY <2>1, <2>2
<1>2. CASE PostDelete(r)
  <2> DEFINE new == [req[r] EXCEPT !.pc = "finish", !.victims = OldFindings]
  <2>1. new.op = req[r].op /\ new.job = req[r].job /\ new.outcome = req[r].outcome
    BY <1>0 DEF Request
  <2>2. req' = [req EXCEPT ![r] = new] /\ UNCHANGED <<ran, agent, status>> /\ Reporting(r)
    BY <1>2 DEF PostDelete, Reporting
  <2> HIDE DEF new
  <2> QED BY <2>1, <2>2, MovePosted
<1>3. CASE PostFinish(r)
  <2>1. CASE status[req[r].job] = "gone"
    BY <1>3, <2>1, AnswerPosted DEF PostFinish
  <2>2. CASE status[req[r].job] # "gone"
    <3>1. Reporting(r) /\ Carries(r, req[r].job) /\ req[r].job \in Jobs
      BY <1>3 DEF PostFinish, Reporting, Carries, PostedInv, CarriesRun
    <3>2. /\ \A j \in Jobs \ {req[r].job} : status'[j] = status[j]
          /\ agent' = agent /\ ran' = ran
      BY <1>0, <1>3, <2>2, <3>1 DEF PostFinish
    <3>3. req' = [req EXCEPT ![r] = [req[r] EXCEPT !.pc = "respond"]]
      BY <1>3, <2>2 DEF PostFinish, Goto
    <3>4. /\ req'[r].op = req[r].op /\ req'[r].job = req[r].job /\ req'[r].pc = "respond"
          /\ \A t \in Requests \ {r} : req'[t] = req[t]
      BY <1>0, <3>3 DEF Request
    <3>5. \A t \in Requests : req'[t].op = req[t].op /\ req'[t].job = req[t].job
      BY <3>4
    <3>6. ~Reporting(r)'
      BY <3>4 DEF Reporting
    <3>7. CarriesRun'
      BY <3>2, <3>4, <3>5 DEF PostedInv, CarriesRun, Reporting
    <3>8. WaitsForOwn'
      BY <3>2, <3>5 DEF PostedInv, WaitsForOwn
    <3>9. AgentIsFirst'
      <4>1. agent.pc = "post" => agent.job \in Jobs
        BY DEF QueueInv, AgentShape
      <4>2. agent.pc = "post" /\ Sole(agent.outcome) =>
              /\ agent.job # req[r].job /\ status[agent.job] \notin Ended
              /\ \A t \in Requests : ~Carries(t, agent.job)
        BY <3>1 DEF PostedInv, AgentIsFirst
      <4> QED BY <3>2, <3>5, <4>1, <4>2 DEF AgentIsFirst, Carries, Sole
    <3>10. RequestIsOnly'
      <4> SUFFICES ASSUME NEW t \in Requests, Reporting(t)', Sole(req'[t].outcome)
                   PROVE  /\ status'[req'[t].job] \notin Ended
                          /\ ~(agent'.pc = "post" /\ agent'.job = req'[t].job)
                          /\ \A u \in Requests \ {t} : ~(req'[u].op = "post" /\ req'[u].job = req'[t].job)
        BY DEF RequestIsOnly, Sole, Carries
      <4>1. t # r /\ req'[t] = req[t] /\ Reporting(t) /\ Sole(req[t].outcome)
        BY <3>4, <3>6 DEF Reporting
      <4>2. /\ status[req[t].job] \notin Ended
            /\ ~(agent.pc = "post" /\ agent.job = req[t].job)
            /\ \A u \in Requests \ {t} : ~Carries(u, req[t].job)
        BY <4>1 DEF PostedInv, RequestIsOnly
      <4>3. req[t].job # req[r].job /\ req[t].job \in Jobs
        BY <3>1, <4>1, <4>2 DEF PostedInv, CarriesRun, Carries
      <4> QED BY <3>2, <3>5, <4>1, <4>2, <4>3 DEF Carries
    <3> QED BY <3>7, <3>8, <3>9, <3>10 DEF PostedInv
  <2> QED BY <2>1, <2>2
<1> QED BY <1>1, <1>2, <1>3 DEF Post

\* The dashboard stores no result, and neither does what goes wrong; an agent
\* that reports a success again reports an error, which is no sole outcome.
LEMMA OthersPosted ==
    ASSUME QueueInv, PostedInv, Dashboard \/ Fault
    PROVE  PostedInv'
<1> USE DEF db
<1>0. req \in [Requests -> Request] /\ status \in [Jobs -> JobStatus] /\ agent \in AgentState
  BY DEF QueueInv, TypeOK
<1>1. ASSUME req' = req, ran' = ran,
             \A j \in Jobs : status'[j] \in Ended => status[j] \in Ended,
             \/ agent' = agent
             \/ agent'.pc \in {"poll", "work"} /\ agent'.conn = NoReq
      PROVE  PostedInv'
  <2>1. \A t \in Requests : Fades(t)
    BY <1>1 DEF Fades, Reporting, PostedInv, CarriesRun
  <2> QED BY <1>1, <2>1, NothingPosted, RequestAssumption
<1>2. CASE Dashboard
  <2>1. ASSUME CreateJob PROVE \A j \in Jobs : status'[j] \in Ended => status[j] \in Ended
    BY <1>0, <2>1 DEF CreateJob, NewJob, Ended
  <2>2. ASSUME DeleteAgent PROVE \A j \in Jobs : status'[j] \in Ended => status[j] \in Ended
    BY <2>2 DEF DeleteAgent, Ended
  <2>3. ASSUME StartStream \/ StopStream PROVE status' = status
    BY <2>3 DEF StartStream, StopStream
  <2>4. \A j \in Jobs : status'[j] \in Ended => status[j] \in Ended
    BY <1>2, <2>1, <2>2, <2>3 DEF Dashboard
  <2>5. UNCHANGED <<req, agent, ran>>
    BY <1>2 DEF Dashboard, CreateJob, StartStream, StopStream, DeleteAgent
  <2> QED BY <1>1, <2>4, <2>5
<1>3. CASE GiveUp \/ Restart
  <2>1. agent'.pc \in {"poll", "work"} /\ agent'.conn = NoReq
    <3>1. CASE GiveUp
      BY <1>0, <3>1 DEF GiveUp, Receive, AgentState
    <3>2. CASE Restart
      BY <3>2 DEF Restart, NewAgent
    <3> QED BY <1>3, <3>1, <3>2
  <2> QED BY <1>1, <1>3, <2>1 DEF GiveUp, Restart
<1>4. ASSUME NEW r \in Requests, Lose(r) \/ Fail(r) PROVE PostedInv'
  BY <1>4, AnswerPosted DEF Lose, Fail
<1>5. ASSUME NEW r \in Requests, Garble(r) PROVE PostedInv'
  <2>1. /\ ran' = ran /\ status' = status /\ "garbled" \in Faults
        /\ agent'.pc = "post" /\ agent'.job = agent.job /\ agent'.outcome = "error"
        /\ agent'.conn = NoReq
    BY <1>0, <1>5 DEF Garble, AgentState
  <2>2. /\ req'[r].op # "post" /\ ~Reporting(r)' /\ \A t \in Requests \ {r} : req'[t] = req[t]
    BY <1>0, <1>5 DEF Garble, Idle, Reporting
  <2>3. Carries(r, agent.job) /\ ~Reporting(r)
    BY <1>5 DEF Garble, PostedInv, WaitsForOwn, Carries, Reporting
  <2>4. CarriesRun' /\ WaitsForOwn' /\ AgentIsFirst'
    BY <2>1, <2>2, RequestAssumption
    DEF PostedInv, CarriesRun, WaitsForOwn, AgentIsFirst, Reporting, Sole
  <2>5. RequestIsOnly'
    <3> SUFFICES ASSUME NEW t \in Requests, Reporting(t)', Sole(req'[t].outcome)
                 PROVE  /\ status'[req'[t].job] \notin Ended
                        /\ ~(agent'.pc = "post" /\ agent'.job = req'[t].job)
                        /\ \A u \in Requests \ {t} : ~(req'[u].op = "post" /\ req'[u].job = req'[t].job)
      BY DEF RequestIsOnly, Sole, Carries
    <3>1. t # r /\ req'[t] = req[t] /\ Reporting(t) /\ Sole(req[t].outcome)
      BY <2>2 DEF Reporting
    <3>2. /\ status[req[t].job] \notin Ended
          /\ \A u \in Requests \ {t} : ~Carries(u, req[t].job)
      BY <3>1 DEF PostedInv, RequestIsOnly
    <3>3. agent.job # req[t].job
      BY <2>3, <3>1, <3>2
    <3> QED BY <2>1, <2>2, <3>1, <3>2, <3>3 DEF Carries
  <2> QED BY <2>4, <2>5 DEF PostedInv
<1> QED BY <1>2, <1>3, <1>4, <1>5 DEF Fault

THEOREM PostedInvariant == Spec => []PostedInv
<1>1. QueueInv /\ PostedInv /\ [Next]_vars => PostedInv'
  <2> SUFFICES ASSUME QueueInv, PostedInv, [Next]_vars PROVE PostedInv'
    OBVIOUS
  <2>1. CASE UNCHANGED vars
    BY <2>1 DEF vars, PostedInv, CarriesRun, WaitsForOwn, AgentIsFirst, RequestIsOnly, Reporting,
                Carries, Sole
  <2>2. ASSUME NEW r \in Requests, Respond(r) PROVE PostedInv'
    BY <2>2, AnswerPosted DEF Respond, db
  <2> QED BY <2>1, <2>2, AgentPosted, PollPosted, PostPosted, OthersPosted DEF Next, Serve
<1> QED BY <1>1, PostedInit, QueueInvariant, PTL DEF Spec

\* What a step may do to a result.
ResultStays(j) ==
    status[j] \in Ended /\ status'[j] \notin {status[j], "gone"} =>
        \/ status'[j] = "running" /\ LateMark(j)
        \/ status[j] = "done" /\ status'[j] = "error" /\ "garbled" \in Faults

LEMMA ResultsStep ==
    ASSUME QueueInv, PostedInv, Next, NEW j \in Jobs
    PROVE  ResultStays(j)
<1> USE DEF db
<1>0. status \in [Jobs -> JobStatus] /\ req \in [Requests -> Request]
  BY DEF QueueInv, TypeOK
<1>1. ASSUME status' = status PROVE ResultStays(j)
  BY <1>1 DEF ResultStays
<1>2. ASSUME NEW k, NewJob(k), lastJob < MaxJobs PROVE ResultStays(j)
  <2>1. lastJob + 1 \in Jobs /\ ~Known(lastJob + 1)
    BY <1>2 DEF Jobs, QueueInv, TypeOK, Numbered
  <2>2. status'[j] = status[j] \/ status[j] = "none"
    BY <1>0, <1>2, <2>1 DEF NewJob, Known
  <2> QED BY <2>2 DEF ResultStays, Ended
<1>3. CASE Agent \/ Fault
  BY <1>1, <1>3 DEF Agent, Fault, AgentPoll, AgentPost, RunJob, GiveUp, Restart, Lose, Garble, Fail
<1>4. CASE Dashboard
  <2>1. CASE CreateJob
    BY <1>2, <2>1 DEF CreateJob
  <2>2. CASE DeleteAgent
    BY <2>2 DEF DeleteAgent, ResultStays, Ended
  <2>3. CASE StartStream \/ StopStream
    BY <1>1, <2>3 DEF StartStream, StopStream
  <2> QED BY <1>4, <2>1, <2>2, <2>3 DEF Dashboard
<1>5. ASSUME NEW r \in Requests, PollCreate(r) PROVE ResultStays(j)
  <2>1. CASE enrolled /\ lastJob # MaxJobs
    BY <1>2, <1>5, <2>1 DEF PollCreate, QueueInv, TypeOK
  <2>2. CASE ~(enrolled /\ lastJob # MaxJobs)
    BY <1>1, <1>5, <2>2 DEF PollCreate
  <2> QED BY <2>1, <2>2
<1>6. ASSUME NEW r \in Requests, PollCommit(r) PROVE ResultStays(j)
  <2>1. CASE status' = status
    BY <1>1, <2>1
  <2>2. CASE status' = MarkRunning(req[r].batch)
    <3>1. j \notin req[r].batch => status'[j] = status[j]
      BY <2>2 DEF MarkRunning
    <3>2. CASE j \in req[r].batch /\ status[j] \in Ended
      <4>1. status'[j] = "running"
        BY <2>2, <3>2 DEF MarkRunning
      <4>2. ran[j] > 0
        BY <3>2 DEF QueueInv, EndedWereRun
      <4>3. agent.conn # r
        BY <3>2, <4>2 DEF QueueInv, NotRunYet
      <4>4. LateMark(j)
        BY <1>6, <3>2, <4>3 DEF LateMark, PollCommit
      <4> QED BY <4>1, <4>4 DEF ResultStays
    <3> QED BY <3>1, <3>2 DEF ResultStays
  <2> QED BY <1>6, <2>1, <2>2 DEF PollCommit
<1>7. ASSUME NEW r \in Requests, PostFinish(r) PROVE ResultStays(j)
  <2>1. Reporting(r) /\ req[r].outcome \in Ended /\ req[r].job \in Jobs
    BY <1>0, <1>7 DEF PostFinish, Reporting, Request, PostedInv, CarriesRun
  <2>2. \/ status'[j] = status[j]
        \/ j = req[r].job /\ status'[j] = req[r].outcome
    BY <1>0, <1>7, <2>1 DEF PostFinish, FinalStatus
  <2>3. CASE j = req[r].job /\ status'[j] = req[r].outcome /\ status[j] \in Ended
    <3>1. ~Sole(req[r].outcome)
      BY <2>1, <2>3 DEF PostedInv, RequestIsOnly
    <3> QED BY <2>1, <2>3, <3>1 DEF Sole, Ended, ResultStays
  <2> QED BY <2>2, <2>3 DEF ResultStays
<1>8. ASSUME NEW r \in Requests, Serve(r) PROVE ResultStays(j)
  <2>1. CASE PollGet(r) \/ PollStreams(r) \/ PollCheck(r) \/ PollSelect(r)
    BY <1>1, <2>1 DEF PollGet, PollStreams, PollCheck, PollSelect
  <2>2. CASE PostJob(r) \/ PostDelete(r) \/ Respond(r)
    BY <1>1, <2>2 DEF PostJob, PostDelete, Respond
  <2> QED BY <1>5, <1>6, <1>7, <1>8, <2>1, <2>2 DEF Serve, Poll, Post
<1> QED BY <1>3, <1>4, <1>8 DEF Next

\* With any number of requests that overlap and every combination of faults, a
\* result changes only by a poll that nobody waits for any more, or by the
\* agent's own second report of a success.
THEOREM ResultsStayThm == Spec => ResultsStay
<1>1. QueueInv /\ PostedInv /\ [Next]_vars => [\A j \in Jobs : ResultStays(j)]_vars
  BY ResultsStep
<1> QED BY <1>1, PostedInvariant, QueueInvariant, PTL
    DEF ResultsStay, ResultStays, Spec
-----------------------------------------------------------------------------
(* Polls that renew a stream together.                                      *)

\* The queued jobs of a stream can be given to requests, each to one of its
\* own, none of which is about to add another.
Given(k, f) ==
    /\ f \in [Queued(k) -> Requests \ Renewing(k)]
    /\ \A i, j \in Queued(k) : f[i] = f[j] => i = j
GivenInv(k) == \E f \in [Queued(k) -> Requests \ Renewing(k)] : Given(k, f)
RenewInv == \A k \in StreamKinds \ DashKinds : GivenInv(k)

\* A stream with an empty queue keeps the bound, whoever is about to renew it.
LEMMA NoneGiven == ASSUME NEW k, Queued(k)' = {} PROVE GivenInv(k)'
<1>1. PICK g : g = [j \in Queued(k)' |-> CHOOSE r \in Requests : TRUE]
  OBVIOUS
<1>2. Given(k, g)'
  BY <1>1 DEF Given
<1> QED BY <1>2 DEF GivenInv, Given

LEMMA RenewInit == Init => RenewInv
<1> SUFFICES ASSUME Init, NEW k PROVE GivenInv(k)
  BY DEF RenewInv
<1>1. Queued(k) = {}
  BY DEF Init, Queued
<1>2. PICK g : g = [j \in Queued(k) |-> CHOOSE r \in Requests : TRUE]
  OBVIOUS
<1>3. Given(k, g)
  BY <1>1, <1>2 DEF Given
<1> QED BY <1>3 DEF GivenInv, Given

\* While the queue of a stream loses jobs and no poll is about to renew it, the
\* bound stays.
LEMMA GivenStays ==
    ASSUME NEW k, GivenInv(k), Queued(k)' \subseteq Queued(k), Renewing(k)' \subseteq Renewing(k)
    PROVE  GivenInv(k)'
<1>1. PICK f : Given(k, f)
  BY DEF GivenInv
<1>2. PICK g : g = [j \in Queued(k)' |-> f[j]]
  OBVIOUS
<1>3. Given(k, g)'
  BY <1>1, <1>2 DEF Given, Renewing
<1> QED BY <1>3 DEF GivenInv, Given

\* What does not add to the jobs and sends no poll to renew.
LEMMA RenewStays ==
    ASSUME RenewInv,
           \A j \in Jobs : status'[j] = "pending" => status[j] = "pending" /\ kind'[j] = kind[j],
           \A r \in Requests : req'[r].pc = "create" =>
               req[r].pc = "create" /\ req'[r].renew = req[r].renew
    PROVE  RenewInv'
<1>1. \A k : Queued(k)' \subseteq Queued(k) /\ Renewing(k)' \subseteq Renewing(k)
  BY DEF Queued, Renewing
<1> QED BY <1>1, GivenStays DEF RenewInv

\* A new job takes the place of the poll that was about to add it.
LEMMA NewJobGiven ==
    ASSUME QueueInv, RenewInv, NEW r \in Requests, PollCreate(r), enrolled, lastJob # MaxJobs
    PROVE  RenewInv'
<1>0. /\ req \in [Requests -> Request] /\ req[r] \in Request
      /\ status \in [Jobs -> JobStatus] /\ kind \in [Jobs -> Kinds \cup {"none"}]
  BY DEF QueueInv, TypeOK
<1>1. PICK l \in req[r].renew : NewJob(l)
  BY DEF PollCreate
<1> DEFINE new == lastJob + 1
<1>2. new \in Jobs /\ status[new] = "none"
  BY DEF QueueInv, TypeOK, Numbered, Known, Jobs
<1>3. /\ status' = [status EXCEPT ![new] = "pending"] /\ kind' = [kind EXCEPT ![new] = l]
      /\ req' = [req EXCEPT ![r] = [req[r] EXCEPT !.pc = "check"]] /\ req[r].pc = "create"
  BY <1>1 DEF NewJob, PollCreate, Goto
<1> HIDE DEF new
<1>4. req'[r].pc = "check" /\ \A t \in Requests \ {r} : req'[t] = req[t]
  BY <1>0, <1>3 DEF Request
<1>5. \A k : Renewing(k)' = Renewing(k) \ {r}
  BY <1>4 DEF Renewing
<1>6. \A k : k # l => Queued(k)' = Queued(k)
  BY <1>0, <1>2, <1>3 DEF Queued
<1>7. Queued(l)' = Queued(l) \cup {new} /\ new \notin Queued(l)
  BY <1>0, <1>2, <1>3 DEF Queued
<1>8. ASSUME NEW k \in StreamKinds \ DashKinds, k # l PROVE GivenInv(k)'
  BY <1>5, <1>6, <1>8, GivenStays DEF RenewInv
<1>9. ASSUME GivenInv(l) PROVE GivenInv(l)'
  <2>1. PICK f : Given(l, f)
    BY <1>9 DEF GivenInv
  <2>2. r \in Renewing(l)
    BY <1>1, <1>3 DEF Renewing
  <2>3. PICK g : g = [j \in Queued(l)' |-> IF j = new THEN r ELSE f[j]]
    OBVIOUS
  <2>4. \A j \in Queued(l)' \ {new} :
          j \in Queued(l) /\ g[j] = f[j] /\ g[j] \in Requests \ Renewing(l) /\ g[j] # r
    BY <1>7, <2>1, <2>2, <2>3 DEF Given
  <2>5. new \in Queued(l)' /\ g[new] = r
    BY <1>7, <2>3
  <2>6. \A j \in Queued(l)' : g[j] \in Requests \ Renewing(l)'
    BY <1>5, <2>4, <2>5
  <2>7. \A i, j \in Queued(l)' : g[i] = g[j] => i = j
    BY <2>1, <2>4, <2>5 DEF Given
  <2>8. Given(l, g)'
    BY <2>3, <2>6, <2>7 DEF Given
  <2> QED BY <2>8 DEF GivenInv, Given
<1> QED BY <1>8, <1>9 DEF RenewInv

\* A poll goes on to renew a stream only if none of its jobs waits.
LEMMA CheckGiven ==
    ASSUME QueueInv, RenewInv, NEW r \in Requests, PollCheck(r)
    PROVE  RenewInv'
<1>0. req \in [Requests -> Request] /\ req[r] \in Request
  BY DEF QueueInv, TypeOK
<1>1. PICK l \in req[r].want :
         req' = [req EXCEPT ![r] =
                   [@ EXCEPT !.want = req[r].want \ {l},
                             !.pc = IF HasActive(l) THEN "check" ELSE "create",
                             !.renew = IF HasActive(l) THEN {} ELSE {l}]]
  BY DEF PollCheck
<1>2. /\ req'[r].pc = IF HasActive(l) THEN "check" ELSE "create"
      /\ req'[r].renew = IF HasActive(l) THEN {} ELSE {l}
      /\ \A t \in Requests \ {r} : req'[t] = req[t]
  BY <1>0, <1>1 DEF Request
<1>3. \A k : Queued(k)' = Queued(k)
  BY DEF PollCheck, Queued, db
<1>4. ASSUME NEW k \in StreamKinds \ DashKinds, k # l \/ HasActive(l) PROVE GivenInv(k)'
  <2>1. Renewing(k)' \subseteq Renewing(k)
    BY <1>2, <1>4 DEF Renewing
  <2> QED BY <1>3, <2>1, GivenStays DEF RenewInv
<1>5. ASSUME ~HasActive(l) PROVE GivenInv(l)'
  <2>1. Queued(l) = {}
    BY <1>5 DEF HasActive, Active, Queued
  <2> QED BY <1>3, <2>1, NoneGiven
<1> QED BY <1>4, <1>5 DEF RenewInv

LEMMA RenewStep == ASSUME QueueInv, RenewInv, [Next]_vars PROVE RenewInv'
<1> USE DEF db
<1>0. /\ req \in [Requests -> Request] /\ status \in [Jobs -> JobStatus]
      /\ kind \in [Jobs -> Kinds \cup {"none"}]
  BY DEF QueueInv, TypeOK
<1>1. ASSUME NEW r \in Requests, req'[r].pc # "create",
             \A t \in Requests \ {r} : req'[t] = req[t],
             \A j \in Jobs : status'[j] = "pending" => status[j] = "pending" /\ kind'[j] = kind[j]
      PROVE  RenewInv'
  BY <1>1, RenewStays
<1>2. ASSUME req' = req,
             \A j \in Jobs : status'[j] = "pending" => status[j] = "pending" /\ kind'[j] = kind[j]
      PROVE  RenewInv'
  BY <1>2, RenewStays
<1>3. ASSUME NEW r \in Requests, NEW jobs, Answer(r, jobs), UNCHANGED <<status, kind>>
      PROVE  RenewInv'
  <2>1. req'[r].pc # "create" /\ \A t \in Requests \ {r} : req'[t] = req[t]
    BY <1>0, <1>3 DEF Answer, Idle
  <2> QED BY <1>1, <1>3, <2>1
<1>4. ASSUME NEW r \in Requests, NEW pc \in {"streams", "check", "respond"}, Goto(r, pc),
             \A j \in Jobs : status'[j] = "pending" => status[j] = "pending" /\ kind'[j] = kind[j]
      PROVE  RenewInv'
  <2>1. req'[r].pc # "create" /\ \A t \in Requests \ {r} : req'[t] = req[t]
    BY <1>0, <1>4 DEF Goto, Request
  <2> QED BY <1>1, <1>4, <2>1
<1>5. CASE Agent
  <2>1. ASSUME NEW r \in Requests, AgentPoll(r) \/ AgentPost(r) PROVE RenewInv'
    <3>1. CASE AgentPoll(r)
      <4>1. req'[r].pc = "get" /\ \A t \in Requests \ {r} : req'[t] = req[t]
        BY <1>0, <3>1 DEF AgentPoll, Send, Idle
      <4> QED BY <1>1, <3>1, <4>1 DEF AgentPoll
    <3>2. CASE AgentPost(r)
      <4>1. req'[r].pc = "job" /\ \A t \in Requests \ {r} : req'[t] = req[t]
        BY <1>0, <3>2 DEF AgentPost, Send, Idle
      <4> QED BY <1>1, <3>2, <4>1 DEF AgentPost
    <3> QED BY <2>1, <3>1, <3>2
  <2>2. ASSUME NEW j \in Jobs, RunJob(j) PROVE RenewInv'
    BY <1>2, <2>2 DEF RunJob
  <2> QED BY <1>5, <2>1, <2>2 DEF Agent
<1>6. ASSUME NEW r \in Requests, Poll(r) PROVE RenewInv'
  <2>1. CASE PollGet(r)
    BY <1>3, <1>4, <2>1 DEF PollGet
  <2>2. CASE PollStreams(r) \/ PollSelect(r)
    <3>1. req'[r].pc # "create" /\ \A t \in Requests \ {r} : req'[t] = req[t]
      BY <1>0, <2>2 DEF PollStreams, PollSelect, Request
    <3> QED BY <1>1, <2>2, <3>1 DEF PollStreams, PollSelect
  <2>3. CASE PollCreate(r)
    <3>1. CASE ~enrolled
      BY <1>3, <2>3, <3>1 DEF PollCreate
    <3>2. CASE enrolled /\ lastJob = MaxJobs
      BY <1>4, <2>3, <3>2 DEF PollCreate
    <3> QED BY <2>3, <3>1, <3>2, NewJobGiven DEF QueueInv, TypeOK
  <2>4. CASE PollCommit(r)
    <3>1. CASE \E j \in req[r].batch : status[j] = "gone"
      BY <1>3, <2>4, <3>1 DEF PollCommit
    <3>2. CASE ~\E j \in req[r].batch : status[j] = "gone"
      <4>1. \A j \in Jobs : status'[j] = "pending" => status[j] = "pending" /\ kind'[j] = kind[j]
        BY <2>4, <3>2 DEF PollCommit, MarkRunning
      <4> QED BY <1>4, <2>4, <3>2, <4>1 DEF PollCommit
    <3> QED BY <3>1, <3>2
  <2> QED BY <1>6, <2>1, <2>2, <2>3, <2>4, CheckGiven DEF Poll
<1>7. ASSUME NEW r \in Requests, Post(r) PROVE RenewInv'
  <2>1. CASE PostJob(r)
    <3>1. CASE status[req[r].job] = "gone"
      BY <1>3, <2>1, <3>1 DEF PostJob
    <3>2. CASE status[req[r].job] # "gone"
      <4>1. req'[r].pc # "create" /\ \A t \in Requests \ {r} : req'[t] = req[t]
        BY <1>0, <2>1, <3>2 DEF PostJob, Request
      <4> QED BY <1>1, <2>1, <4>1 DEF PostJob
    <3> QED BY <3>1, <3>2
  <2>2. CASE PostDelete(r)
    <3>1. req'[r].pc # "create" /\ \A t \in Requests \ {r} : req'[t] = req[t]
      BY <1>0, <2>2 DEF PostDelete, Request
    <3> QED BY <1>1, <2>2, <3>1 DEF PostDelete
  <2>3. CASE PostFinish(r)
    <3>1. CASE status[req[r].job] = "gone"
      BY <1>3, <2>3, <3>1 DEF PostFinish
    <3>2. CASE status[req[r].job] # "gone"
      <4>1. req[r].job \in Jobs /\ req[r].outcome \in Ended
        BY <1>0, <2>3 DEF PostFinish, QueueInv, RequestShape, Request
      <4>2. \A j \in Jobs : status'[j] = "pending" => status[j] = "pending" /\ kind'[j] = kind[j]
        BY <1>0, <2>3, <3>2, <4>1 DEF PostFinish, FinalStatus, Ended
      <4> QED BY <1>4, <2>3, <3>2, <4>2 DEF PostFinish
    <3> QED BY <3>1, <3>2
  <2> QED BY <1>7, <2>1, <2>2, <2>3 DEF Post
<1>8. ASSUME NEW r \in Requests, Respond(r) \/ Lose(r) \/ Fail(r) PROVE RenewInv'
  BY <1>3, <1>8 DEF Respond, Lose, Fail
<1>9. ASSUME NEW r \in Requests, Garble(r) PROVE RenewInv'
  <2>1. req'[r].pc # "create" /\ \A t \in Requests \ {r} : req'[t] = req[t]
    BY <1>0, <1>9 DEF Garble, Idle
  <2> QED BY <1>1, <1>9, <2>1 DEF Garble
<1>10. CASE CreateJob
  <2>1. PICK l \in DashKinds : NewJob(l)
    BY <1>10 DEF CreateJob
  <2>2. lastJob + 1 \in Jobs /\ status[lastJob + 1] = "none" /\ req' = req
    BY <1>10 DEF CreateJob, QueueInv, TypeOK, Numbered, Known, Jobs
  <2>3. \A k \in StreamKinds \ DashKinds : Queued(k)' = Queued(k) /\ Renewing(k)' = Renewing(k)
    BY <1>0, <2>1, <2>2 DEF NewJob, Queued, Renewing
  <2> QED BY <2>3, GivenStays DEF RenewInv
<1>11. CASE StartStream \/ StopStream \/ DeleteAgent \/ GiveUp \/ Restart \/ UNCHANGED vars
  <2>1. req' = req
    BY <1>11 DEF StartStream, StopStream, DeleteAgent, GiveUp, Restart, vars
  <2>2. \A j \in Jobs : status'[j] = "pending" => status[j] = "pending" /\ kind'[j] = kind[j]
    BY <1>11 DEF StartStream, StopStream, DeleteAgent, GiveUp, Restart, vars
  <2> QED BY <1>2, <2>1, <2>2
<1> QED BY <1>5, <1>6, <1>7, <1>8, <1>9, <1>10, <1>11 DEF Next, Serve, Dashboard, Fault

\* However polls overlap, and whichever of them fail or are given up, a stream
\* has no more jobs in the queue than there are requests at the same time.
THEOREM RenewalsWithinRequestsThm ==
    ASSUME IsFiniteSet(Requests) PROVE Spec => []RenewalsWithinRequests
<1>1. RenewInv => RenewalsWithinRequests
  <2> SUFFICES ASSUME RenewInv, NEW k \in StreamKinds \ DashKinds
               PROVE  Cardinality(Queued(k)) + Cardinality(Renewing(k)) <= Cardinality(Requests)
    BY DEF RenewalsWithinRequests
  <2>1. PICK f : Given(k, f)
    BY DEF RenewInv, GivenInv
  <2> DEFINE others == Requests \ Renewing(k)
  <2>2. f \in Injection(Queued(k), others)
    BY <2>1 DEF Given, Injection, IsInjective
  <2>3. /\ IsFiniteSet(others) /\ Renewing(k) \subseteq Requests
        /\ Cardinality(others) = Cardinality(Requests) - Cardinality(Requests \cap Renewing(k))
    BY FS_Difference DEF Renewing
  <2>4. Requests \cap Renewing(k) = Renewing(k) /\ IsFiniteSet(Renewing(k))
    BY <2>3, FS_Subset
  <2>5. Cardinality(Queued(k)) <= Cardinality(others) /\ IsFiniteSet(Queued(k))
    BY <2>2, <2>3, FS_Injection
  <2>6. /\ Cardinality(Queued(k)) \in Nat /\ Cardinality(Renewing(k)) \in Nat
        /\ Cardinality(Requests) \in Nat
    BY <2>4, <2>5, FS_CardinalityType
  <2>7. Cardinality(others) = Cardinality(Requests) - Cardinality(Renewing(k))
    BY <2>3, <2>4
  <2> HIDE DEF others
  <2> QED BY <2>5, <2>6, <2>7
<1>2. QueueInv /\ RenewInv /\ [Next]_vars => RenewInv'
  BY RenewStep
<1> QED BY <1>1, <1>2, RenewInit, QueueInvariant, PTL DEF Spec
=============================================================================
