----------------------------- MODULE AgentJobs -----------------------------
(***************************************************************************)
(* Jobs for one enrolled agent: the dashboard queues them, streams of       *)
(* continuous collection renew them, the agent polls for them over HTTP,    *)
(* runs them one by one and posts each result once (agent.py,               *)
(* app/api/v1/endpoints/agent.py, app/crud/agent.py, app/crud/collection.py)*)
(*                                                                          *)
(* The agent waits for one answer at a time.  It gives up after 30 seconds, *)
(* while the server goes on with the request: that is how two requests of   *)
(* one agent overlap.  Each has its own session, READ COMMITTED; one step   *)
(* of a request is the code between two awaits that matter.                 *)
(***************************************************************************)
EXTENDS Naturals, FiniteSets

CONSTANTS
    Requests,     \* HTTP requests the server works on at the same time
    MaxJobs,      \* bound on the rows agent_jobs may get
    DashKinds,    \* the kinds of job the dashboard queues
    StreamKinds,  \* the kinds of stream: capture, logs
    Faults        \* what may go wrong in this instance

AllFaults == {"giveup", "lost", "garbled", "restart", "fails"}
Jobs == 1 .. MaxJobs
Kinds == DashKinds \cup StreamKinds
Ended == {"done", "error"}
Active == {"pending", "running"}
NoReq == "noreq"
NoJob == 0

ASSUME RequestAssumption == NoReq \notin Requests
ASSUME BoundAssumption == MaxJobs \in Nat
ASSUME FaultAssumption == Faults \subseteq AllFaults

VARIABLES
    enrolled,  \* the agent's row is there
    streams,   \* kinds with a row in collection_streams
    status,    \* agent_jobs.status; "none" not inserted, "gone" deleted
    kind,      \* agent_jobs.kind, "none" before
    lastJob,   \* rows inserted so far; a job's number is its rank
    findings,  \* vulnerabilities of the scanned target, by the job that found them
    req,       \* the requests the server works on
    agent,     \* the agent process
    ran        \* history: how many times each job was run

vars == <<enrolled, streams, status, kind, lastJob, findings, req, agent, ran>>

Idle == [op |-> "none", pc |-> "idle", want |-> {}, renew |-> {}, batch |-> {},
         job |-> NoJob, outcome |-> "done", loaded |-> "none", victims |-> {}]
NewAgent == [pc |-> "poll", conn |-> NoReq, todo |-> {}, job |-> NoJob,
             outcome |-> "done"]

JobStatus == {"none", "gone"} \cup Active \cup Ended
Request ==
    [op : {"none", "poll", "post"},
     pc : {"idle", "get", "streams", "check", "create", "commit", "job", "delete",
           "finish", "respond"},
     want : SUBSET StreamKinds, renew : SUBSET StreamKinds, batch : SUBSET Jobs,
     job : Jobs \cup {NoJob}, outcome : Ended, loaded : JobStatus,
     victims : SUBSET Jobs]
AgentState ==
    [pc : {"poll", "work", "post", "waiting"}, conn : Requests \cup {NoReq},
     todo : SUBSET Jobs, job : Jobs \cup {NoJob}, outcome : Ended]

Init ==
    /\ enrolled = TRUE
    /\ streams = {}
    /\ status = [j \in Jobs |-> "none"]
    /\ kind = [j \in Jobs |-> "none"]
    /\ lastJob = 0
    /\ findings = {}
    /\ req = [r \in Requests |-> Idle]
    /\ agent = NewAgent
    /\ ran = [j \in Jobs |-> 0]

db == <<enrolled, streams, status, kind, lastJob, findings>>

-----------------------------------------------------------------------------
(* The agent process.                                                       *)

Send(r, request) ==
    /\ req[r].pc = "idle"
    /\ req' = [req EXCEPT ![r] = request]

AgentPoll(r) ==
    /\ agent.pc = "poll"
    /\ Send(r, [Idle EXCEPT !.op = "poll", !.pc = "get"])
    /\ agent' = [agent EXCEPT !.pc = "waiting", !.conn = r]
    /\ UNCHANGED <<db, ran>>

\* Mutant: a handler that raises leaves the job without a result.
RunJobOrDrop(j) ==
    /\ agent.pc = "work" /\ j \in agent.todo
    /\ \E outcome \in Ended :
          agent' = [agent EXCEPT
                      !.pc = IF outcome = "done" THEN "post"
                             ELSE IF agent.todo = {j} THEN "poll" ELSE "work",
                      !.job = j, !.todo = agent.todo \ {j}, !.outcome = outcome]
    /\ ran' = [ran EXCEPT ![j] = @ + 1]
    /\ UNCHANGED <<db, req>>

\* The handler's exceptions become the outcome "error".
RunJob(j) ==
    /\ agent.pc = "work" /\ j \in agent.todo
    /\ \E outcome \in Ended :
          agent' = [agent EXCEPT !.pc = "post", !.job = j, !.todo = agent.todo \ {j},
                                 !.outcome = outcome]
    /\ ran' = [ran EXCEPT ![j] = @ + 1]
    /\ UNCHANGED <<db, req>>

AgentPost(r) ==
    /\ agent.pc = "post"
    /\ Send(r, [Idle EXCEPT !.op = "post", !.pc = "job", !.job = agent.job,
                            !.outcome = agent.outcome])
    /\ agent' = [agent EXCEPT !.pc = "waiting", !.conn = r]
    /\ UNCHANGED <<db, ran>>

\* What the agent does with an answer: an error is an answer without jobs, and
\* the answer to a result has none.
Receive(jobs) ==
    agent' = [agent EXCEPT !.pc = IF agent.todo \cup jobs = {} THEN "poll" ELSE "work",
                           !.conn = NoReq, !.todo = agent.todo \cup jobs]

\* The request is over; whoever still waits for it gets `jobs`.
Answer(r, jobs) ==
    /\ req' = [req EXCEPT ![r] = Idle]
    /\ IF agent.conn = r THEN Receive(jobs) ELSE UNCHANGED agent

-----------------------------------------------------------------------------
(* GET /agent/{id}/jobs                                                     *)

Goto(r, pc) == req' = [req EXCEPT ![r] = [@ EXCEPT !.pc = pc]]

PollGet(r) ==
    /\ req[r].pc = "get"
    /\ IF enrolled THEN Goto(r, "streams") /\ UNCHANGED agent ELSE Answer(r, {})
    /\ UNCHANGED <<db, ran>>

PollStreams(r) ==
    /\ req[r].pc = "streams"
    /\ req' = [req EXCEPT ![r] = [@ EXCEPT !.pc = "check", !.want = streams]]
    /\ UNCHANGED <<db, agent, ran>>

\* Mutants of HasActive: jobs in the queue do not count; ended ones count too.
HasRunning(k) == \E j \in Jobs : kind[j] = k /\ status[j] = "running"
HasAny(k) == \E j \in Jobs : kind[j] = k /\ status[j] # "none"

HasActive(k) == \E j \in Jobs : kind[j] = k /\ status[j] \in Active

PollCheck(r) ==
    /\ req[r].pc = "check"
    /\ \E k \in req[r].want :
          req' = [req EXCEPT ![r] =
                    [@ EXCEPT !.want = req[r].want \ {k},
                              !.pc = IF HasActive(k) THEN "check" ELSE "create",
                              !.renew = IF HasActive(k) THEN {} ELSE {k}]]
    /\ UNCHANGED <<db, agent, ran>>

NewJob(k) ==
    /\ lastJob' = lastJob + 1
    /\ status' = [status EXCEPT ![lastJob + 1] = "pending"]
    /\ kind' = [kind EXCEPT ![lastJob + 1] = k]

\* The row's foreign key fails when the agent has been deleted.  At the bound
\* MaxJobs the stream is passed over.
PollCreate(r) ==
    /\ req[r].pc = "create"
    /\ CASE ~enrolled -> Answer(r, {}) /\ UNCHANGED <<status, kind, lastJob>>
         [] enrolled /\ lastJob = MaxJobs ->
              Goto(r, "check") /\ UNCHANGED <<agent, status, kind, lastJob>>
         [] OTHER ->
              /\ \E k \in req[r].renew : NewJob(k)
              /\ Goto(r, "check") /\ UNCHANGED agent
    /\ UNCHANGED <<enrolled, streams, findings, ran>>

PendingJobs == {j \in Jobs : status[j] = "pending"}

PollSelect(r) ==
    /\ req[r].pc = "check" /\ req[r].want = {}
    /\ req' = [req EXCEPT ![r] =
                 [@ EXCEPT !.batch = PendingJobs,
                           !.pc = IF PendingJobs = {} THEN "respond" ELSE "commit"]]
    /\ UNCHANGED <<db, agent, ran>>

\* Mutants of MarkRunning: nothing is marked; every job of the agent is; a
\* status of its own.
MarkNothing(jobs) == status
MarkAll(jobs) == [j \in Jobs |-> IF status[j] \in {"none", "gone"} THEN status[j] ELSE "running"]
MarkSent(jobs) == [j \in Jobs |-> IF j \in jobs THEN "sent" ELSE status[j]]

MarkRunning(jobs) == [j \in Jobs |-> IF j \in jobs THEN "running" ELSE status[j]]

\* The session writes what it assigned, whatever the rows say by now; rows
\* that have gone fail it (StaleDataError).
PollCommit(r) ==
    /\ req[r].pc = "commit"
    /\ IF \E j \in req[r].batch : status[j] = "gone"
       THEN Answer(r, {}) /\ UNCHANGED status
       ELSE /\ status' = MarkRunning(req[r].batch)
            /\ Goto(r, "respond") /\ UNCHANGED agent
    /\ UNCHANGED <<enrolled, streams, kind, lastJob, findings, ran>>

-----------------------------------------------------------------------------
(* POST /agent/jobs/{id}/result                                             *)

PostJob(r) ==
    /\ req[r].pc = "job"
    /\ LET j == req[r].job
           scan == kind[j] = "scan" /\ req[r].outcome = "done"
       IN  IF status[j] = "gone" THEN Answer(r, {})
           ELSE /\ req' = [req EXCEPT ![r] =
                             [@ EXCEPT !.loaded = status[j],
                                       !.pc = IF scan THEN "delete" ELSE "finish"]]
                /\ UNCHANGED agent
    /\ UNCHANGED <<db, ran>>

\* Mutant: the findings of the scans before are kept.
KeepOld == {}

\* DELETE removes the rows committed by now; the new ones come at the commit.
OldFindings == findings

PostDelete(r) ==
    /\ req[r].pc = "delete"
    /\ req' = [req EXCEPT ![r] = [@ EXCEPT !.pc = "finish", !.victims = OldFindings]]
    /\ UNCHANGED <<db, agent, ran>>

\* Mutant: a job that failed goes back to the queue.
RetryFailed(sn) == IF sn.outcome = "error" THEN "pending" ELSE "done"

FinalStatus(sn) == sn.outcome

PostFinish(r) ==
    LET sn == req[r]
        scan == kind[sn.job] = "scan" /\ sn.outcome = "done"
    IN  /\ sn.pc = "finish"
        /\ IF status[sn.job] = "gone"
           THEN Answer(r, {}) /\ UNCHANGED <<status, findings>>
           ELSE /\ status' = [status EXCEPT ![sn.job] =
                                IF sn.loaded = sn.outcome THEN @ ELSE FinalStatus(sn)]
                /\ findings' = IF scan THEN (findings \ sn.victims) \cup {sn.job}
                               ELSE findings
                /\ Goto(r, "respond") /\ UNCHANGED agent
        /\ UNCHANGED <<enrolled, streams, kind, lastJob, ran>>

Respond(r) ==
    /\ req[r].pc = "respond"
    /\ Answer(r, req[r].batch)
    /\ UNCHANGED <<db, ran>>

-----------------------------------------------------------------------------
(* The dashboard.                                                           *)

CreateJob ==
    /\ enrolled /\ lastJob < MaxJobs
    /\ \E k \in DashKinds : NewJob(k)
    /\ UNCHANGED <<enrolled, streams, findings, req, agent, ran>>

StartStream ==
    /\ enrolled
    /\ \E k \in StreamKinds \ streams : streams' = streams \cup {k}
    /\ UNCHANGED <<enrolled, status, kind, lastJob, findings, req, agent, ran>>

StopStream ==
    /\ \E k \in streams : streams' = streams \ {k}
    /\ UNCHANGED <<enrolled, status, kind, lastJob, findings, req, agent, ran>>

\* Mutant: the jobs stay behind, marked as failed.
DeleteAgentOnly ==
    /\ enrolled
    /\ enrolled' = FALSE
    /\ streams' = {}
    /\ status' = [j \in Jobs |-> IF status[j] = "none" THEN "none" ELSE "error"]
    /\ UNCHANGED <<kind, lastJob, findings, req, agent, ran>>

\* Jobs and streams go with the agent (ON DELETE CASCADE).
DeleteAgent ==
    /\ enrolled
    /\ enrolled' = FALSE
    /\ streams' = {}
    /\ status' = [j \in Jobs |-> IF status[j] = "none" THEN "none" ELSE "gone"]
    /\ UNCHANGED <<kind, lastJob, findings, req, agent, ran>>

-----------------------------------------------------------------------------
(* What goes wrong.                                                         *)

\* _urlopen times out; the server does not know.
GiveUp ==
    /\ "giveup" \in Faults
    /\ agent.pc = "waiting"
    /\ Receive({})
    /\ UNCHANGED <<db, req, ran>>

\* The work is done and the answer does not arrive.
Lose(r) ==
    /\ "lost" \in Faults
    /\ req[r].pc = "respond"
    /\ Answer(r, {})
    /\ UNCHANGED <<db, ran>>

\* The answer to a result is cut short: HTTPException is no OSError, _post
\* lets it out, and main() posts the job once more, as an error.
Garble(r) ==
    /\ "garbled" \in Faults
    /\ req[r].pc = "respond" /\ req[r].op = "post" /\ req[r].outcome = "done"
    /\ agent.conn = r
    /\ req' = [req EXCEPT ![r] = Idle]
    /\ agent' = [agent EXCEPT !.pc = "post", !.conn = NoReq, !.outcome = "error"]
    /\ UNCHANGED <<db, ran>>

\* The process stops and is started again; it keeps its id, and nothing else.
Restart ==
    /\ "restart" \in Faults
    /\ agent # NewAgent
    /\ agent' = NewAgent
    /\ UNCHANGED <<db, req, ran>>

\* An exception in the handler, or the server stopping.
Fail(r) ==
    /\ "fails" \in Faults
    /\ req[r].pc # "idle"
    /\ Answer(r, {})
    /\ UNCHANGED <<db, ran>>

-----------------------------------------------------------------------------
Poll(r) ==
    PollGet(r) \/ PollStreams(r) \/ PollCheck(r) \/ PollCreate(r) \/ PollSelect(r) \/ PollCommit(r)
Post(r) == PostJob(r) \/ PostDelete(r) \/ PostFinish(r)
Serve(r) == Poll(r) \/ Post(r) \/ Respond(r)

Agent == (\E r \in Requests : AgentPoll(r) \/ AgentPost(r)) \/ (\E j \in Jobs : RunJob(j))
Dashboard == CreateJob \/ StartStream \/ StopStream \/ DeleteAgent
Fault == GiveUp \/ Restart \/ (\E r \in Requests : Lose(r) \/ Garble(r) \/ Fail(r))

Next == Agent \/ (\E r \in Requests : Serve(r)) \/ Dashboard \/ Fault

Spec == Init /\ [][Next]_vars

\* The agent's loop and the server's event loop go on; what the dashboard does
\* and what goes wrong is nobody's duty.
FairSpec ==
    /\ Spec
    /\ WF_vars(Agent)
    /\ \A r \in Requests : WF_vars(Serve(r))

-----------------------------------------------------------------------------
(* Properties                                                               *)

\* Every variable has its type.
TypeOK ==
    /\ enrolled \in BOOLEAN
    /\ streams \subseteq StreamKinds
    /\ status \in [Jobs -> JobStatus]
    /\ kind \in [Jobs -> Kinds \cup {"none"}]
    /\ lastJob \in 0 .. MaxJobs
    /\ findings \subseteq Jobs
    /\ req \in [Requests -> Request]
    /\ agent \in AgentState
    /\ ran \in [Jobs -> Nat]

\* Rows are numbered in the order of their insertion; what a request or the
\* agent knows of is a row, present or deleted.
Known(j) == status[j] # "none"
Numbered == \A j \in Jobs : Known(j) <=> j <= lastJob

\* The agent waits while it has a connection; what it posts it has run, and
\* what it has in hand it has not, although it was taken from the queue.
AgentShape ==
    /\ agent.conn # NoReq => agent.pc = "waiting"
    /\ agent.pc = "post" => agent.job \in Jobs /\ ran[agent.job] > 0
    /\ \A j \in agent.todo : ran[j] = 0 /\ Known(j) /\ status[j] # "pending"

\* A request hands out rows; a result is of a job that was run.
RequestShape ==
    \A r \in Requests :
        /\ \A j \in req[r].batch : Known(j)
        /\ req[r].pc \in {"job", "delete", "finish"} =>
              req[r].job \in Jobs /\ ran[req[r].job] > 0 /\ req[r].batch = {}
        /\ agent.conn = r /\ req[r].op = "post" => agent.job \in Jobs /\ ran[agent.job] > 0

\* Nobody has run what is in the queue, nor what the agent is about to be
\* handed; the latter has left the queue before it is sent.
NotRunYet ==
    /\ \A j \in Jobs : status[j] \in {"none", "pending"} => ran[j] = 0
    /\ \A r \in Requests :
          /\ agent.conn = r => \A j \in req[r].batch : ran[j] = 0
          /\ agent.conn = r /\ req[r].pc = "respond" =>
                \A j \in req[r].batch : status[j] # "pending"

\* A job is run at most once, whatever is lost, given up, restarted or
\* overlaps: it is handed to the agent in one answer only, and is 'running' by
\* then (agent.py:442-458, crud/agent.py:128-133).
RunsOnce == \A j \in Jobs : ran[j] <= 1

\* Whatever has a result was run by the agent (endpoints/agent.py:144-199).
EndedWereRun == \A j \in Jobs : status[j] \in Ended => ran[j] > 0

QueueInv ==
    TypeOK /\ Numbered /\ AgentShape /\ RequestShape /\ NotRunYet /\ RunsOnce /\ EndedWereRun

\* The queue implements WorkQueue: jobs are run after being taken, once.  No
\* job of WorkQueue is ever at "again".
Place(j) == CASE ran[j] = 1 -> "run"
              [] ran[j] > 1 -> "again"
              [] ran[j] = 0 /\ status[j] = "none" -> "absent"
              [] ran[j] = 0 /\ status[j] = "pending" -> "queued"
              [] OTHER -> "taken"
Queue == INSTANCE WorkQueue WITH place <- [j \in Jobs |-> Place(j)]
ImplementsWorkQueue == Queue!Spec

\* A stream has at most one job that has not ended (endpoints/agent.py:135-139),
\* unless the dashboard queues jobs of its kind as well, for which nobody checks.
\* Two polls that overlap can break it.
OneActivePerStream ==
    \A k \in StreamKinds \ DashKinds :
        Cardinality({j \in Jobs : kind[j] = k /\ status[j] \in Active}) <= 1

\* The jobs of a stream in the queue; the polls that are about to add one.
Queued(k) == {j \in Jobs : kind[j] = k /\ status[j] = "pending"}
Renewing(k) == {r \in Requests : req[r].pc = "create" /\ k \in req[r].renew}

\* A poll renews a stream only if it saw none of its jobs waiting
\* (endpoints/agent.py:138): with overlapping polls, that fail or are given up,
\* the queue gets no more of them than there are requests at the same time.
RenewalsWithinRequests ==
    \A k \in StreamKinds \ DashKinds :
        Cardinality(Queued(k)) + Cardinality(Renewing(k)) <= Cardinality(Requests)

\* A poll nobody waits for any more is about to mark the job as running.
LateMark(j) ==
    \E r \in Requests : req[r].pc = "commit" /\ j \in req[r].batch /\ agent.conn # r

\* A result stays what it is (models/monitoring.py:75), whatever is lost, given
\* up, restarted or overlaps, but for two cases: a poll the agent has given up
\* writes 'running' over it (crud/agent.py:128-130), and an agent that could not
\* read the answer to a success reports the same job as an error (agent.py:452-459).
ResultsStay ==
    [][\A j \in Jobs :
         status[j] \in Ended /\ status'[j] \notin {status[j], "gone"} =>
            \/ status'[j] = "running" /\ LateMark(j)
            \/ status[j] = "done" /\ status'[j] = "error" /\ "garbled" \in Faults]_vars

\* A result that is being stored and replaces the findings of its target.
Storing(r) ==
    req[r].pc = "finish" /\ kind[req[r].job] = "scan" /\ req[r].outcome = "done"

\* Every result deletes the findings it sees and adds its own
\* (endpoints/agent.py:153-172): results that overlap leave those of several
\* scans, and never of more than there are requests at the same time.
ScansWithinRequests == Cardinality(findings) <= Cardinality(Requests)

\* A job that is queued gets a result, unless the agent is deleted.
JobsEnd == \A j \in Jobs : status[j] = "pending" ~> status[j] \in Ended \cup {"gone"}

\* A stream that is on gets another job, until it is stopped
\* (endpoints/agent.py:272: "keeps running until stopped").
StreamGoesOn ==
    \A k \in StreamKinds, n \in Jobs :
        k \in streams /\ lastJob = n - 1 ~> k \notin streams \/ lastJob >= n

\* A job is handed out in one answer (crud/agent.py:118: "ili zisirudiwe").
HandedOnce ==
    \A r, t \in Requests :
        r # t /\ req[r].pc = "respond" /\ req[t].pc = "respond" =>
            req[r].batch \cap req[t].batch = {}
=============================================================================
