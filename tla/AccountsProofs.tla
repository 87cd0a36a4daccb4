--------------------------- MODULE AccountsProofs ---------------------------
(* Proofs about Enrolment, for any number of machines, tokens, requests and     *)
(* agents; about RateLimit, for any number of keys, any limit and any window;   *)
(* and of the five parts of MCAccounts together.                               *)
EXTENDS MCAccounts, IdentityProofs, MfaProofs, SequenceTheorems, TLAPS

\* Agent a is in the table under this organization and host.
IsAgent(a, o, h) == a \in DOMAIN agents /\ agents[a].org = o /\ agents[a].host = h

\* Whoever holds an id holds that of its own host, in the organization of its
\* token: a request, the process, and the file.
IdsAreOwn ==
    /\ \A r \in Enrolments :
         request[r].at = "update" => IsAgent(request[r].id, request[r].org, request[r].host)
    /\ \A m \in Machines :
         /\ proc[m].at \in {"writing", "polling"} =>
              IsAgent(proc[m].id, Org(proc[m].token), Host(m))
         /\ config[m].is = "saved" => IsAgent(config[m].id, Org(config[m].token), Host(m))
\* A machine that waits, waits for its own request.
WaitsForItsOwn ==
    \A m \in Machines : proc[m].at = "waiting" =>
      LET q == request[proc[m].req]
      IN  q.at # "free" /\ q.org = Org(proc[m].token) /\ q.host = Host(m)
\* An agent that is not deleted is the only one of its name, or two requests
\* inserted it across each other.
NamesAreOnce ==
    \A a, b \in DOMAIN agents :
      /\ agents[a].org = agents[b].org /\ agents[a].host = agents[b].host
      /\ ~agents[a].gone /\ ~agents[b].gone
      => a = b \/ <<agents[a].org, agents[a].host>> \in twice

EnrolledInv == EnrolmentTypeOK /\ IdsAreOwn /\ WaitsForItsOwn /\ NamesAreOnce

LEMMA ConfigShape ==
    ASSUME EnrolmentTypeOK, NEW m \in Machines
    PROVE  /\ config[m] \in Config
           /\ config[m].is \in {"missing", "torn", "saved"}
           /\ config[m].is = "saved" =>
                config[m] \in [is : {"saved"}, token : Tokens, id : 1..MaxAgents]
           /\ config[m].is = "missing" => config[m] = NoFile
           /\ config[m].is = "torn" => config[m] = Torn
           /\ NoFile.is = "missing" /\ Torn.is = "torn"
<1>1. config[m] \in Config
  BY DEF EnrolmentTypeOK
<1>2. QED
  BY <1>1, SMT DEF Config, NoFile, Torn

LEMMA ProcShape ==
    ASSUME EnrolmentTypeOK, NEW m \in Machines
    PROVE  /\ proc[m] \in Proc
           /\ proc[m].at \in {"off", "waiting", "writing", "polling"}
           /\ proc[m].at = "off" => proc[m] = Off
           /\ proc[m].at = "waiting" =>
                proc[m] \in [at : {"waiting"}, token : Tokens, req : Enrolments]
           /\ proc[m].at \in {"writing", "polling"} =>
                proc[m] \in [at : {"writing", "polling"}, token : Tokens, id : 1..MaxAgents]
           /\ Off.at = "off" /\ Off \in Proc
<1>1. proc[m] \in Proc
  BY DEF EnrolmentTypeOK
<1>2. QED
  BY <1>1, SMT DEF Proc, Off

LEMMA RequestShape ==
    ASSUME EnrolmentTypeOK, NEW r \in Enrolments
    PROVE  /\ request[r] \in Request
           /\ request[r].at \in {"free", "look", "insert", "update"}
           /\ request[r].at = "free" => request[r] = Open
           /\ request[r].at \in {"look", "insert"} =>
                request[r] \in [at : {"look", "insert"}, org : Orgs, host : Hosts]
           /\ request[r].at = "update" =>
                request[r] \in [at : {"update"}, org : Orgs, host : Hosts, id : 1..MaxAgents]
           /\ Open.at = "free" /\ Open \in Request
<1>1. request[r] \in Request
  BY DEF EnrolmentTypeOK
<1>2. QED
  BY <1>1, SMT DEF Request, Open

LEMMA RowShape ==
    ASSUME EnrolmentTypeOK, NEW a \in DOMAIN agents
    PROVE  agents[a] \in [org : Orgs, host : Hosts, gone : BOOLEAN]
<1> DEFINE R == [org : Orgs, host : Hosts, gone : BOOLEAN]
<1>1. agents \in Seq(R)
  BY DEF EnrolmentTypeOK
<1> HIDE DEF R
<1>2. agents[a] \in R
  BY <1>1
<1>3. QED
  BY <1>2 DEF R

LEMMA EnrolledInvInit == EnrolmentInit => EnrolledInv
<1> SUFFICES ASSUME EnrolmentInit PROVE EnrolledInv
  OBVIOUS
<1> USE EnrolmentAssumption DEF EnrolmentInit
<1>1. EnrolmentTypeOK
  BY DEF EnrolmentTypeOK, Config, Proc, Request
<1>2. QED
  BY <1>1 DEF EnrolledInv, IdsAreOwn, WaitsForItsOwn, NamesAreOnce, NoFile, Off, Open

\* One process changes, and nothing else but what it may have written to its file.
LEMMA MachineKeepsEnrolled ==
    ASSUME EnrolledInv, NEW m \in Machines, NEW p \in Proc, Runs(m, p),
           UNCHANGED <<agents, request, twice>>,
           tokens' \in [Tokens -> {"none", "live", "gone"}],
           NEW c \in Config, config' = [config EXCEPT ![m] = c],
           p.at # "waiting",
           p.at \in {"writing", "polling"} => IsAgent(p.id, Org(p.token), Host(m)),
           c.is = "saved" => IsAgent(c.id, Org(c.token), Host(m))
    PROVE  EnrolledInv'
<1>1. /\ proc' \in [Machines -> Proc] /\ config' \in [Machines -> Config]
      /\ \A n \in Machines : /\ proc'[n] = IF n = m THEN p ELSE proc[n]
                             /\ config'[n] = IF n = m THEN c ELSE config[n]
  BY DEF EnrolledInv, EnrolmentTypeOK, Runs
<1>2. EnrolmentTypeOK'
  BY <1>1 DEF EnrolledInv, EnrolmentTypeOK
<1>3. IdsAreOwn'
  BY <1>1 DEF EnrolledInv, IdsAreOwn, IsAgent
<1>4. WaitsForItsOwn'
  BY <1>1 DEF EnrolledInv, WaitsForItsOwn
<1>5. NamesAreOnce'
  BY DEF EnrolledInv, NamesAreOnce
<1>6. QED
  BY <1>2, <1>3, <1>4, <1>5 DEF EnrolledInv

LEMMA LaunchKeepsEnrolled ==
    ASSUME EnrolledInv, NEW m \in Machines, Launch(m)
    PROVE  EnrolledInv'
<1> USE DEF EnrolledInv
<1>1. PICK env \in {t \in Tokens : tokens[t] # "none"} \cup {Unset} :
        /\ env = Unset => config[m] # NoFile
        /\ \/ /\ \E a \in KnownId(m, env) :
                   Runs(m, [at |-> "polling", token |-> TokenFor(m, env), id |-> a])
              /\ UNCHANGED request
           \/ /\ KnownId(m, env) = {} /\ tokens[env] = "live"
              /\ \E r \in Enrolments :
                   /\ request[r] = Open
                   /\ request' = [request EXCEPT ![r] =
                        [at |-> "look", org |-> Org(env), host |-> Host(m)]]
                   /\ Runs(m, [at |-> "waiting", token |-> env, req |-> r])
  BY DEF Launch
<1>2. proc[m] = Off /\ config[m] # Torn /\ UNCHANGED <<tokens, agents, config, twice>>
  BY DEF Launch
<1>3. ASSUME NEW a \in KnownId(m, env), UNCHANGED request,
             Runs(m, [at |-> "polling", token |-> TokenFor(m, env), id |-> a])
      PROVE  EnrolledInv'
  <2> DEFINE p == [at |-> "polling", token |-> TokenFor(m, env), id |-> a]
  <2>1. /\ config[m] \in [is : {"saved"}, token : Tokens, id : 1..MaxAgents]
        /\ config[m].is = "saved" /\ a = config[m].id
    BY <1>2, <1>3, ConfigShape DEF KnownId
  <2>2. TokenFor(m, env) = config[m].token
    BY <1>3, <2>1 DEF TokenFor, KnownId
  <2>3. p \in Proc /\ p.at = "polling" /\ IsAgent(p.id, Org(p.token), Host(m))
    BY <2>1, <2>2 DEF Proc, IdsAreOwn
  <2>4. Runs(m, p) /\ config' = [config EXCEPT ![m] = config[m]]
    BY <1>2, <1>3 DEF EnrolmentTypeOK
  <2>5. /\ config[m] \in Config /\ tokens' \in [Tokens -> {"none", "live", "gone"}]
        /\ config[m].is = "saved" => IsAgent(config[m].id, Org(config[m].token), Host(m))
    BY <1>2 DEF EnrolmentTypeOK, IdsAreOwn
  <2> HIDE DEF p, EnrolledInv
  <2>6. QED
    BY <1>2, <1>3, <2>3, <2>4, <2>5, MachineKeepsEnrolled
<1>4. ASSUME KnownId(m, env) = {}, NEW r \in Enrolments, request[r] = Open,
             request' = [request EXCEPT ![r] =
                [at |-> "look", org |-> Org(env), host |-> Host(m)]],
             Runs(m, [at |-> "waiting", token |-> env, req |-> r])
      PROVE  EnrolledInv'
  <2> DEFINE p == [at |-> "waiting", token |-> env, req |-> r]
             q == [at |-> "look", org |-> Org(env), host |-> Host(m)]
  <2>1. env \in Tokens
    BY <1>1, <1>2, <1>4, ConfigShape DEF KnownId
  <2>2. p \in Proc /\ p.at = "waiting" /\ p.req = r /\ p.token = env
    BY <2>1 DEF Proc
  <2>3. q \in Request /\ q.at = "look" /\ q.org = Org(env) /\ q.host = Host(m)
    BY <2>1 DEF Request, Orgs, Hosts
  <2> HIDE DEF p, q
  <2>4. /\ proc' \in [Machines -> Proc] /\ request' \in [Enrolments -> Request]
        /\ \A n \in Machines : proc'[n] = IF n = m THEN p ELSE proc[n]
        /\ \A z \in Enrolments : request'[z] = IF z = r THEN q ELSE request[z]
    BY <1>4, <2>2, <2>3 DEF EnrolmentTypeOK, Runs, p, q
  <2>5. EnrolmentTypeOK'
    BY <1>2, <2>4 DEF EnrolmentTypeOK
  <2>6. IdsAreOwn' /\ NamesAreOnce'
    BY <1>2, <2>2, <2>3, <2>4 DEF IdsAreOwn, NamesAreOnce, IsAgent
  <2>7. WaitsForItsOwn'
    <3> SUFFICES ASSUME NEW n \in Machines, proc'[n].at = "waiting"
                 PROVE  /\ request'[proc'[n].req].at # "free"
                        /\ request'[proc'[n].req].org = Org(proc'[n].token)
                        /\ request'[proc'[n].req].host = Host(n)
      BY DEF WaitsForItsOwn
    <3>1. CASE n = m
      BY <2>2, <2>3, <2>4, <3>1
    <3>2. CASE n # m
      BY <1>4, <2>4, <3>2, ProcShape, RequestShape DEF WaitsForItsOwn
    <3>3. QED
      BY <3>1, <3>2
  <2>8. QED
    BY <2>5, <2>6, <2>7
<1>5. QED
  BY <1>1, <1>3, <1>4

LEMMA FileKeepsEnrolled ==
    ASSUME EnrolledInv, NEW m \in Machines, WriteConfig(m) \/ Quit(m) \/ Forget(m)
    PROVE  EnrolledInv'
<1>1. /\ config[m] \in Config /\ proc[m] \in Proc /\ config \in [Machines -> Config]
      /\ proc \in [Machines -> Proc] /\ tokens \in [Tokens -> {"none", "live", "gone"}]
      /\ config[m].is = "saved" => IsAgent(config[m].id, Org(config[m].token), Host(m))
      /\ Off \in Proc /\ Off.at = "off"
  BY ProcShape DEF EnrolledInv, EnrolmentTypeOK, IdsAreOwn
<1>2. CASE WriteConfig(m)
  <2> DEFINE p == [proc[m] EXCEPT !.at = "polling"]
             c == Saved(proc[m].token, proc[m].id)
  <2>1. /\ proc[m] \in [at : {"writing", "polling"}, token : Tokens, id : 1..MaxAgents]
        /\ IsAgent(proc[m].id, Org(proc[m].token), Host(m))
    BY <1>2, ProcShape DEF WriteConfig, EnrolledInv, IdsAreOwn
  <2>2. p \in Proc /\ p.at = "polling" /\ p.id = proc[m].id /\ p.token = proc[m].token
    BY <2>1 DEF Proc
  <2>3. c \in Config /\ c.is = "saved" /\ c.id = proc[m].id /\ c.token = proc[m].token
    BY <2>1 DEF Config, Saved
  <2>4. /\ Runs(m, p) /\ config' = [config EXCEPT ![m] = c]
        /\ UNCHANGED <<tokens, agents, request, twice>>
    BY <1>2 DEF WriteConfig
  <2> HIDE DEF p, c
  <2>5. QED
    BY <1>1, <2>1, <2>2, <2>3, <2>4, MachineKeepsEnrolled
<1>3. CASE Quit(m)
  <2>1. /\ Runs(m, Off) /\ config' = [config EXCEPT ![m] = config[m]]
        /\ UNCHANGED <<tokens, agents, request, twice>>
    BY <1>1, <1>3 DEF Quit
  <2>2. QED
    BY <1>1, <2>1, MachineKeepsEnrolled
<1>4. CASE Forget(m)
  <2>1. /\ NoFile \in Config /\ NoFile.is = "missing"
        /\ config' = [config EXCEPT ![m] = NoFile] /\ proc[m] = Off
        /\ UNCHANGED <<tokens, agents, request, twice>>
    BY <1>4 DEF Forget, Config, NoFile
  <2>2. Runs(m, Off)
    BY <1>1, <1>4 DEF Forget, Runs
  <2>3. QED
    BY <1>1, <2>1, <2>2, MachineKeepsEnrolled
<1>5. QED
  BY <1>2, <1>3, <1>4

\* The server ends a request with an agent of the name it asked for.
LEMMA AnswerKeepsEnrolled ==
    ASSUME EnrolledInv, NEW r \in Enrolments, request[r].at \in {"insert", "update"},
           NEW o, o = request[r].org, NEW h, h = request[r].host,
           NEW a \in 1..MaxAgents, IsAgent(a, o, h)',
           Answers(r, a),
           \A b, x, y : IsAgent(b, x, y) => IsAgent(b, x, y)',
           tokens' = tokens, NamesAreOnce',
           agents' \in Seq([org : Orgs, host : Hosts, gone : BOOLEAN]),
           Len(agents') <= MaxAgents, twice' \subseteq Orgs \X Hosts
    PROVE  EnrolledInv'
<1> USE DEF EnrolledInv
<1>1. /\ request' \in [Enrolments -> Request] /\ Open.at = "free"
      /\ \A z \in Enrolments : request'[z] = IF z = r THEN Open ELSE request[z]
  BY RequestShape DEF Answers, EnrolmentTypeOK
<1>2. \A m \in Waiters(r) :
        /\ [at |-> "writing", token |-> proc[m].token, id |-> a] \in Proc
        /\ Org(proc[m].token) = o /\ Host(m) = h
        /\ m \in Machines
  BY ProcShape, SMTT(30) DEF Waiters, WaitsForItsOwn, Proc
<1>3. /\ proc' \in [Machines -> Proc] /\ config' \in [Machines -> Config]
      /\ \A m \in Machines :
           /\ proc'[m] = IF m \in Waiters(r)
                         THEN [at |-> "writing", token |-> proc[m].token, id |-> a] ELSE proc[m]
           /\ config'[m] = IF m \in Waiters(r) THEN Torn ELSE config[m]
  BY <1>2 DEF Answers, EnrolmentTypeOK, Config
<1>4. EnrolmentTypeOK'
  BY <1>1, <1>3 DEF EnrolmentTypeOK
<1>5. IdsAreOwn'
  <2>1. ASSUME NEW z \in Enrolments, request'[z].at = "update"
        PROVE  IsAgent(request[z].id, request[z].org, request[z].host)'
    BY <1>1, <2>1 DEF IdsAreOwn, IsAgent
  <2>2. ASSUME NEW m \in Machines, proc'[m].at \in {"writing", "polling"}
        PROVE  IsAgent(proc[m].id, Org(proc[m].token), Host(m))'
    <3>1. CASE m \in Waiters(r)
      BY <1>2, <1>3, <3>1, <1>1 DEF IsAgent, Answers
    <3>2. CASE m \notin Waiters(r)
      BY <1>3, <2>2, <3>2 DEF IdsAreOwn, IsAgent
    <3>3. QED
      BY <3>1, <3>2
  <2>3. ASSUME NEW m \in Machines, config'[m].is = "saved"
        PROVE  IsAgent(config[m].id, Org(config[m].token), Host(m))'
    BY <1>3, <2>3 DEF IdsAreOwn, IsAgent, Torn
  <2>4. QED
    BY <2>1, <2>2, <2>3 DEF IdsAreOwn
<1>6. WaitsForItsOwn'
  BY <1>1, <1>3, ProcShape DEF WaitsForItsOwn, Waiters
<1>7. QED
  BY <1>4, <1>5, <1>6

LEMMA UpdateKeepsEnrolled ==
    ASSUME EnrolledInv, NEW r \in Enrolments, UpdateAgent(r)
    PROVE  EnrolledInv'
<1> DEFINE q == request[r]
<1>1. /\ q \in [at : {"update"}, org : Orgs, host : Hosts, id : 1..MaxAgents]
      /\ q.at = "update" /\ IsAgent(q.id, q.org, q.host)
      /\ Answers(r, q.id) /\ UNCHANGED <<tokens, agents, twice>>
  BY RequestShape DEF EnrolledInv, UpdateAgent, IdsAreOwn
<1>2. /\ NamesAreOnce' /\ agents' \in Seq([org : Orgs, host : Hosts, gone : BOOLEAN])
      /\ Len(agents') <= MaxAgents /\ twice' \subseteq Orgs \X Hosts
      /\ \A b, x, y : IsAgent(b, x, y) => IsAgent(b, x, y)'
  BY <1>1 DEF EnrolledInv, NamesAreOnce, EnrolmentTypeOK, IsAgent
<1>3. PICK o, h : o = q.org /\ h = q.host
  OBVIOUS
<1>4. IsAgent(q.id, o, h)
  BY <1>1, <1>3
<1>5. PICK a : a = q.id
  OBVIOUS
<1>6. IsAgent(a, o, h)' /\ Answers(r, a) /\ a \in 1..MaxAgents
  BY <1>1, <1>2, <1>4, <1>5
<1>7. QED
  BY <1>1, <1>2, <1>3, <1>6, AnswerKeepsEnrolled

LEMMA InsertKeepsEnrolled ==
    ASSUME EnrolledInv, NEW r \in Enrolments, InsertAgent(r)
    PROVE  EnrolledInv'
<1> DEFINE q == request[r]
           n == Len(agents) + 1
           row == [org |-> q.org, host |-> q.host, gone |-> FALSE]
<1>1. /\ q \in [at : {"look", "insert"}, org : Orgs, host : Hosts] /\ q.at = "insert"
      /\ agents \in Seq([org : Orgs, host : Hosts, gone : BOOLEAN])
      /\ Len(agents) < MaxAgents /\ twice \subseteq Orgs \X Hosts
  BY RequestShape DEF EnrolledInv, InsertAgent, EnrolmentTypeOK
<1>2. /\ agents' = Append(agents, row) /\ Answers(r, n) /\ tokens' = tokens
      /\ twice' = twice \cup {p \in {<<q.org, q.host>>} : Existing(q) # {}}
  BY DEF InsertAgent
<1>3. /\ row \in [org : Orgs, host : Hosts, gone : BOOLEAN]
      /\ row.org = q.org /\ row.host = q.host /\ n \in 1..MaxAgents
  BY <1>1, EnrolmentAssumption
<1> HIDE DEF row
<1>4. /\ agents' \in Seq([org : Orgs, host : Hosts, gone : BOOLEAN])
      /\ Len(agents') = n /\ Len(agents') <= MaxAgents
      /\ DOMAIN agents = 1..Len(agents) /\ DOMAIN agents' = 1..n
      /\ \A b \in DOMAIN agents : agents'[b] = agents[b]
      /\ agents'[n] = row
  BY <1>1, <1>2, <1>3
<1>5. twice' \subseteq Orgs \X Hosts /\ twice \subseteq twice'
  BY <1>1, <1>2
<1>6. \A b, x, y : IsAgent(b, x, y) => IsAgent(b, x, y)'
  BY <1>1, <1>4 DEF IsAgent
<1>7. NamesAreOnce'
  <2> SUFFICES ASSUME NEW a \in 1..n, NEW b \in 1..n, a # b,
                      agents'[a].org = agents'[b].org, agents'[a].host = agents'[b].host,
                      ~agents'[a].gone, ~agents'[b].gone
               PROVE  <<agents'[a].org, agents'[a].host>> \in twice'
    BY <1>4 DEF NamesAreOnce
  <2>1. CASE a \in DOMAIN agents /\ b \in DOMAIN agents
    BY <1>4, <1>5, <2>1 DEF EnrolledInv, NamesAreOnce
  <2>2. ASSUME NEW c \in DOMAIN agents, agents'[c].org = q.org, agents'[c].host = q.host,
               ~agents'[c].gone
        PROVE  <<q.org, q.host>> \in twice'
    <3>1. c \in Existing(q)
      BY <1>4, <2>2 DEF Existing
    <3>2. QED
      BY <1>2, <3>1
  <2>3. CASE a = n
    <3>1. /\ b \in DOMAIN agents /\ agents'[b].org = q.org /\ agents'[b].host = q.host
          /\ agents'[a].org = q.org /\ agents'[a].host = q.host
      BY <1>1, <1>3, <1>4, <2>3
    <3>2. QED
      BY <2>2, <3>1
  <2>4. CASE b = n
    <3>1. /\ a \in DOMAIN agents /\ agents'[a].org = q.org /\ agents'[a].host = q.host
          /\ agents'[a].org = q.org /\ agents'[a].host = q.host
      BY <1>1, <1>3, <1>4, <2>4
    <3>2. QED
      BY <2>2, <3>1
  <2>5. QED
    BY <1>1, <1>4, <2>1, <2>3, <2>4
<1>8. PICK o, h, a : o = q.org /\ h = q.host /\ a = n
  OBVIOUS
<1>9. IsAgent(a, o, h)' /\ Answers(r, a) /\ a \in 1..MaxAgents
  BY <1>1, <1>2, <1>3, <1>4, <1>8 DEF IsAgent
<1> HIDE DEF n
<1>10. QED
  BY <1>1, <1>2, <1>4, <1>5, <1>6, <1>7, <1>8, <1>9, AnswerKeepsEnrolled

\* A request that is refused, or goes on.
LEMMA RequestKeepsEnrolled ==
    ASSUME EnrolledInv, NEW r \in Enrolments, LookUp(r) \/ EnrolmentFails(r)
    PROVE  EnrolledInv'
<1> USE DEF EnrolledInv
<1>1. UNCHANGED <<tokens, agents, config, twice>> /\ NamesAreOnce'
  BY DEF LookUp, EnrolmentFails, NamesAreOnce
<1>2. CASE Refuses(r)
  <2>1. /\ request' \in [Enrolments -> Request] /\ Open.at = "free"
        /\ \A z \in Enrolments : request'[z] = IF z = r THEN Open ELSE request[z]
    BY <1>2, RequestShape DEF Refuses, EnrolmentTypeOK
  <2>2. /\ proc' \in [Machines -> Proc] /\ Off.at = "off"
        /\ \A m \in Machines : proc'[m] = IF m \in Waiters(r) THEN Off ELSE proc[m]
    <3>1. Off.at = "off" /\ Off \in Proc /\ proc \in [Machines -> Proc]
      BY DEF Off, Proc, EnrolmentTypeOK
    <3>2. proc' = [m \in Machines |-> IF m \in Waiters(r) THEN Off ELSE proc[m]]
      BY <1>2 DEF Refuses
    <3>3. QED
      BY <3>1, <3>2
  <2>3. EnrolmentTypeOK'
    BY <1>1, <2>1, <2>2 DEF EnrolmentTypeOK
  <2>4. IdsAreOwn'
    BY <1>1, <2>1, <2>2 DEF IdsAreOwn, IsAgent
  <2>5. WaitsForItsOwn'
    BY <2>1, <2>2, ProcShape DEF WaitsForItsOwn, Waiters
  <2>6. QED
    BY <1>1, <2>3, <2>4, <2>5
<1>3. CASE /\ UNCHANGED proc /\ request[r].at = "look"
           /\ \/ request' = [request EXCEPT ![r].at = "insert"]
              \/ \E a \in Existing(request[r]) : request' = [request EXCEPT ![r] =
                   [at |-> "update", org |-> request[r].org, host |-> request[r].host, id |-> a]]
  <2>1. request[r] \in [at : {"look", "insert"}, org : Orgs, host : Hosts]
    BY <1>3, RequestShape
  <2>2. PICK q \in Request :
          /\ request' = [request EXCEPT ![r] = q]
          /\ q.at # "free" /\ q.org = request[r].org /\ q.host = request[r].host
          /\ q.at = "update" => IsAgent(q.id, q.org, q.host)
    <3>1. CASE request' = [request EXCEPT ![r].at = "insert"]
      <4>1. /\ [request[r] EXCEPT !.at = "insert"] \in Request
            /\ [request[r] EXCEPT !.at = "insert"].at = "insert"
            /\ [request[r] EXCEPT !.at = "insert"].org = request[r].org
            /\ [request[r] EXCEPT !.at = "insert"].host = request[r].host
        BY <2>1 DEF Request
      <4>2. request' = [request EXCEPT ![r] = [request[r] EXCEPT !.at = "insert"]]
        BY <3>1
      <4>3. QED
        BY <4>1, <4>2
    <3>2. ASSUME NEW a \in Existing(request[r]), request' = [request EXCEPT ![r] =
                   [at |-> "update", org |-> request[r].org, host |-> request[r].host, id |-> a]]
          PROVE  \E q \in Request :
                   /\ request' = [request EXCEPT ![r] = q]
                   /\ q.at # "free" /\ q.org = request[r].org /\ q.host = request[r].host
                   /\ q.at = "update" => IsAgent(q.id, q.org, q.host)
      <4> DEFINE q == [at |-> "update", org |-> request[r].org, host |-> request[r].host, id |-> a]
      <4>1. IsAgent(a, request[r].org, request[r].host) /\ a \in 1..MaxAgents
        BY EnrolmentAssumption DEF Existing, IsAgent, EnrolmentTypeOK
      <4>2. /\ q \in Request /\ q.at = "update" /\ q.org = request[r].org
            /\ q.host = request[r].host /\ q.id = a
        BY <2>1, <4>1 DEF Request
      <4>3. request' = [request EXCEPT ![r] = q]
        BY <3>2
      <4> HIDE DEF q
      <4>4. QED
        BY <4>1, <4>2, <4>3
    <3>3. QED
      BY <1>3, <3>1, <3>2
  <2>3. /\ request' \in [Enrolments -> Request]
        /\ \A z \in Enrolments : request'[z] = IF z = r THEN q ELSE request[z]
    BY <2>2 DEF EnrolmentTypeOK
  <2>4. EnrolmentTypeOK'
    BY <1>1, <1>3, <2>3 DEF EnrolmentTypeOK
  <2>5. IdsAreOwn'
    BY <1>1, <1>3, <2>2, <2>3 DEF IdsAreOwn, IsAgent
  <2>6. WaitsForItsOwn'
    BY <1>3, <2>2, <2>3, ProcShape DEF WaitsForItsOwn
  <2>7. QED
    BY <1>1, <2>4, <2>5, <2>6
<1>4. QED
  BY <1>2, <1>3 DEF LookUp, EnrolmentFails

\* Rows are marked as deleted, and tokens are made and wiped.
LEMMA TablesKeepEnrolled ==
    ASSUME EnrolledInv, RemoveAgent \/ CreateToken \/ WipeEnrolments
    PROVE  EnrolledInv'
<1> USE DEF EnrolledInv
<1>1. UNCHANGED <<config, proc, request, twice>>
  BY DEF RemoveAgent, CreateToken, WipeEnrolments
<1>2. tokens' \in [Tokens -> {"none", "live", "gone"}]
  BY DEF RemoveAgent, CreateToken, WipeEnrolments, EnrolmentTypeOK
<1>3. /\ agents' \in Seq([org : Orgs, host : Hosts, gone : BOOLEAN])
      /\ Len(agents') = Len(agents) /\ DOMAIN agents' = DOMAIN agents
      /\ \A a \in DOMAIN agents : /\ agents'[a].org = agents[a].org
                                  /\ agents'[a].host = agents[a].host
                                  /\ agents[a].gone => agents'[a].gone
  <2>1. agents \in Seq([org : Orgs, host : Hosts, gone : BOOLEAN])
    BY DEF EnrolmentTypeOK
  <2>2. CASE RemoveAgent
    <3>1. PICK a \in DOMAIN agents : agents' = [agents EXCEPT ![a].gone = TRUE]
      BY <2>2 DEF RemoveAgent
    <3>2. \A b \in DOMAIN agents : agents[b] \in [org : Orgs, host : Hosts, gone : BOOLEAN]
      BY RowShape
    <3>3. [agents[a] EXCEPT !.gone = TRUE] \in [org : Orgs, host : Hosts, gone : BOOLEAN]
      BY <3>2
    <3>4. agents' \in Seq([org : Orgs, host : Hosts, gone : BOOLEAN]) /\ Len(agents') = Len(agents)
      BY <2>1, <3>1, <3>3
    <3>5. \A b \in DOMAIN agents :
            agents'[b] = IF b = a THEN [agents[b] EXCEPT !.gone = TRUE] ELSE agents[b]
      BY <2>1, <3>1
    <3>6. QED
      BY <3>1, <3>2, <3>4, <3>5
  <2>3. CASE CreateToken
    BY <2>1, <2>3 DEF CreateToken
  <2>4. CASE WipeEnrolments
    <3>1. PICK o \in Orgs : agents' = [a \in DOMAIN agents |->
                        [agents[a] EXCEPT !.gone = @ \/ agents[a].org = o]]
      BY <2>4 DEF WipeEnrolments
    <3> DEFINE row(a) == [agents[a] EXCEPT !.gone = @ \/ agents[a].org = o]
    <3>2. ASSUME NEW a \in DOMAIN agents
          PROVE  /\ row(a) \in [org : Orgs, host : Hosts, gone : BOOLEAN]
                 /\ row(a).org = agents[a].org /\ row(a).host = agents[a].host
                 /\ agents[a].gone => row(a).gone
      <4>1. agents[a] \in [org : Orgs, host : Hosts, gone : BOOLEAN]
        BY RowShape
      <4>2. PICK g \in BOOLEAN : g = (agents[a].gone \/ agents[a].org = o)
        OBVIOUS
      <4>3. row(a) = [agents[a] EXCEPT !.gone = g]
        BY <4>2
      <4> HIDE DEF row
      <4>4. QED
        BY <4>1, <4>2, <4>3
    <3>3. DOMAIN agents' = DOMAIN agents /\ \A a \in DOMAIN agents : agents'[a] = row(a)
      BY <3>1
    <3> HIDE DEF row
    <3>4. \A a \in DOMAIN agents :
            /\ agents'[a] \in [org : Orgs, host : Hosts, gone : BOOLEAN]
            /\ agents'[a].org = agents[a].org /\ agents'[a].host = agents[a].host
            /\ agents[a].gone => agents'[a].gone
      BY <3>2, <3>3
    <3>5. DOMAIN agents' = 1..Len(agents) /\ agents' \in Seq([org : Orgs, host : Hosts, gone : BOOLEAN])
      <4>1. Len(agents) \in Nat /\ DOMAIN agents = 1..Len(agents)
        BY <2>1
      <4>2. agents' = [a \in 1..Len(agents) |-> row(a)]
        BY <3>1, <4>1 DEF row
      <4>3. QED
        BY <3>2, <4>1, <4>2
    <3>6. QED
      BY <2>1, <3>4, <3>5
  <2>5. QED
    BY <2>2, <2>3, <2>4
<1>4. EnrolmentTypeOK'
  BY <1>1, <1>2, <1>3 DEF EnrolmentTypeOK
<1>5. IdsAreOwn' /\ WaitsForItsOwn'
  BY <1>1, <1>3 DEF IdsAreOwn, WaitsForItsOwn, IsAgent
<1>6. NamesAreOnce'
  BY <1>1, <1>3 DEF NamesAreOnce
<1>7. QED
  BY <1>4, <1>5, <1>6

LEMMA EnrolledInvNext == EnrolledInv /\ [EnrolmentNext]_enrolmentVars => EnrolledInv'
<1>1. ASSUME EnrolledInv, UNCHANGED enrolmentVars PROVE EnrolledInv'
  BY <1>1 DEF enrolmentVars, EnrolledInv, EnrolmentTypeOK, IdsAreOwn, WaitsForItsOwn,
              NamesAreOnce, IsAgent
<1>2. QED
  BY <1>1, LaunchKeepsEnrolled, FileKeepsEnrolled, RequestKeepsEnrolled, InsertKeepsEnrolled,
     UpdateKeepsEnrolled, TablesKeepEnrolled DEF EnrolmentNext

LEMMA EnrolledInvSuffices == EnrolledInv => Enrolled
<1> SUFFICES ASSUME EnrolledInv, NEW m \in Machines, proc[m].at = "polling"
             PROVE  LET row == agents[proc[m].id]
                    IN  /\ row.org = Org(proc[m].token) /\ row.host = Host(m)
                        /\ row.gone \/ <<row.org, row.host>> \in twice
                           \/ Existing([org |-> row.org, host |-> row.host]) = {proc[m].id}
  BY DEF Enrolled
<1>1. IsAgent(proc[m].id, Org(proc[m].token), Host(m))
  BY DEF EnrolledInv, IdsAreOwn
<1>2. QED
  BY <1>1 DEF EnrolledInv, NamesAreOnce, IsAgent, Existing

\* Every row, file, process and request is of its kind (agent.py, crud/agent.py).
THEOREM EnrolmentTypeCorrect == EnrolmentSpec => []EnrolmentTypeOK
<1>1. EnrolledInv => EnrolmentTypeOK
  BY DEF EnrolledInv
<1>2. QED
  BY <1>1, EnrolledInvInit, EnrolledInvNext, PTL DEF EnrolmentSpec

\* agent.py, crud/agent.py: however machines, requests, wipes and deletions cross,
\* a machine polls as the agent of its own name, in the organization of its
\* token, and as the only one, unless two requests inserted it together.
THEOREM EnrolledThm == EnrolmentSpec => []Enrolled
BY EnrolledInvInit, EnrolledInvNext, EnrolledInvSuffices, PTL DEF EnrolmentSpec
-----------------------------------------------------------------------------
(******************************* the rate limiter ****************************)
(* RateLimit, for any number of keys, any limit and any window.              *)

\* What is remembered of a key, a key that was forgotten included.
Known(k) == IF k \in DOMAIN hits THEN hits[k] ELSE <<>>
InOrder(g) == \A i, j \in DOMAIN g : i <= j => g[i] <= g[j]
\* Of the hits g, m are the last, and all before them have left the window.
Remembers(m, g) ==
    /\ Len(m) <= Len(g)
    /\ \A i \in 1..Len(m) : m[i] = g[Len(g) - Len(m) + i]
    /\ \A i \in 1..Len(g) - Len(m) : g[i] <= Cutoff
\* Of a hit and the one that comes the limit's number of hits after it, the
\* second finds the first outside its window.
Spaced(g) == \A i \in 1..Len(g) : i + Limit <= Len(g) => g[i] + Window <= g[i + Limit]

LimiterInv ==
    /\ LimiterTypeOK
    /\ \A k \in Keys : /\ InOrder(granted[k]) /\ Spaced(granted[k])
                       /\ Remembers(Known(k), granted[k])

\* What is dropped from the left is old, and nothing else changes.
LEMMA RecentIs ==
    ASSUME now \in Nat, NEW S, NEW bucket \in Seq(S), S \subseteq Nat
    PROVE  /\ Recent(bucket) \in Seq(S)
           /\ \E d \in 0..Len(bucket) :
                /\ \A i \in 1..d : bucket[i] <= Cutoff
                /\ Len(Recent(bucket)) = Len(bucket) - d
                /\ \A i \in 1..Len(bucket) - d : Recent(bucket)[i] = bucket[d + i]
<1> DEFINE stops(n) == n < Len(bucket) => bucket[n + 1] > Cutoff
           T == {n \in 0..Len(bucket) : stops(n)}
           drops(n) == /\ \A i \in 1..n : bucket[i] <= Cutoff
                       /\ n < Len(bucket) => bucket[n + 1] > Cutoff
<1>1. Len(bucket) \in Nat /\ \A i \in 1..Len(bucket) : bucket[i] \in Nat /\ bucket[i] \in S
  BY LenProperties
<1>2. Cutoff \in Int
  BY LimiterAssumption DEF Cutoff
<1>3. T \subseteq Nat /\ Len(bucket) \in T
  BY <1>1
<1>4. PICK n \in T : \A m \in T : ~(<<m, n>> \in OpToRel(<, Nat))
  <2> HIDE DEF T
  <2> QED BY <1>3, NatLessThanWellFounded, WFMin
<1>5. \A m \in T : ~(m < n)
  <2> HIDE DEF T
  <2> QED BY <1>3, <1>4 DEF OpToRel
<1>6. \A i \in 1..n : bucket[i] <= Cutoff
  <2> SUFFICES ASSUME NEW i \in 1..n PROVE bucket[i] <= Cutoff
    OBVIOUS
  <2>1. i - 1 \in 0..Len(bucket) /\ i - 1 < n /\ n \in 0..Len(bucket)
    BY <1>1
  <2>2. ~stops(i - 1)
    BY <1>5, <2>1
  <2>3. bucket[(i - 1) + 1] <= Cutoff
    BY <1>1, <1>2, <2>1, <2>2
  <2> QED BY <2>3
<1>7. n \in 0..Len(bucket) /\ drops(n)
  BY <1>6
<1>8. Dropped(bucket) = CHOOSE m \in 0..Len(bucket) : drops(m)
  BY DEF Dropped
<1>9. Dropped(bucket) \in 0..Len(bucket) /\ drops(Dropped(bucket))
  <2> HIDE DEF drops
  <2> QED BY <1>7, <1>8
<1>10. PICK d \in 0..Len(bucket) : d = Dropped(bucket)
  BY <1>9
<1>11. Recent(bucket) = SubSeq(bucket, d + 1, Len(bucket))
  BY <1>10 DEF Recent
<1>12. d + 1 \in Int /\ Len(bucket) \in Int /\ \A i \in (d + 1)..Len(bucket) : bucket[i] \in S
  BY <1>1
<1>13. /\ Recent(bucket) \in Seq(S)
       /\ Len(Recent(bucket)) = (IF d + 1 <= Len(bucket) THEN Len(bucket) - (d + 1) + 1 ELSE 0)
       /\ \A i \in 1..Len(bucket) - (d + 1) + 1 : Recent(bucket)[i] = bucket[(d + 1) + i - 1]
  BY <1>11, <1>12, SubSeqProperties
<1>14. Len(Recent(bucket)) = Len(bucket) - d
  BY <1>1, <1>13
<1>15. \A i \in 1..Len(bucket) - d : Recent(bucket)[i] = bucket[d + i]
  <2> SUFFICES ASSUME NEW i \in 1..Len(bucket) - d PROVE Recent(bucket)[i] = bucket[d + i]
    OBVIOUS
  <2>1. i \in 1..Len(bucket) - (d + 1) + 1 /\ (d + 1) + i - 1 = d + i
    BY <1>1
  <2> QED BY <1>13, <2>1
<1> QED BY <1>9, <1>10, <1>13, <1>14, <1>15

\* Dropping old hits, and recording one more, is remembering still.
LEMMA RemembersLess ==
    ASSUME now \in Nat, NEW g \in Seq(Nat), NEW m \in Seq(Nat), NEW b \in Seq(Nat), Remembers(m, g),
           NEW d \in 0..Len(m), \A i \in 1..d : m[i] <= Cutoff,
           Len(b) = Len(m) - d, \A i \in 1..Len(m) - d : b[i] = m[d + i]
    PROVE  Remembers(b, g)
<1>1. Len(g) \in Nat /\ Len(m) \in Nat /\ Len(m) <= Len(g)
  BY DEF Remembers
<1>2. Len(b) <= Len(g) /\ Len(g) - Len(b) = Len(g) - Len(m) + d
  BY <1>1
<1>3. ASSUME NEW i \in 1..Len(b) PROVE b[i] = g[Len(g) - Len(b) + i]
  <2>1. d + i \in 1..Len(m) /\ i \in 1..Len(m) - d
    BY <1>1
  <2>2. m[d + i] = g[Len(g) - Len(m) + (d + i)]
    BY <2>1 DEF Remembers
  <2>3. Len(g) - Len(m) + (d + i) = Len(g) - Len(b) + i
    BY <1>1, <1>2
  <2> QED BY <2>1, <2>2, <2>3
<1>4. ASSUME NEW i \in 1..Len(g) - Len(b) PROVE g[i] <= Cutoff
  <2>1. CASE i <= Len(g) - Len(m)
    BY <1>1, <1>2, <2>1 DEF Remembers
  <2>2. CASE ~(i <= Len(g) - Len(m))
    <3>1. i - (Len(g) - Len(m)) \in 1..d
      BY <1>1, <1>2, <2>2
    <3>2. PICK j \in 1..d : j = i - (Len(g) - Len(m))
      BY <3>1
    <3>3. j \in 1..Len(m) /\ Len(g) - Len(m) + j = i
      BY <1>1, <3>2
    <3>4. m[j] = g[Len(g) - Len(m) + j]
      BY <3>3 DEF Remembers
    <3> QED BY <3>2, <3>3, <3>4
  <2> QED BY <2>1, <2>2
<1> QED BY <1>2, <1>3, <1>4 DEF Remembers

LEMMA RemembersMore ==
    ASSUME now \in Nat, NEW g \in Seq(Nat), NEW b \in Seq(Nat), Remembers(b, g)
    PROVE  Remembers(Append(b, now), Append(g, now))
<1>1. Len(g) \in Nat /\ Len(b) \in Nat /\ Len(b) <= Len(g)
  BY DEF Remembers
<1>2. PICK h \in Seq(Nat), c \in Seq(Nat) : h = Append(g, now) /\ c = Append(b, now)
  BY AppendProperties
<1>3. /\ Len(h) = Len(g) + 1 /\ h[Len(g) + 1] = now /\ \A i \in 1..Len(g) : h[i] = g[i]
      /\ Len(c) = Len(b) + 1 /\ c[Len(b) + 1] = now /\ \A i \in 1..Len(b) : c[i] = b[i]
  BY <1>2, AppendProperties
<1>4. Len(h) - Len(c) = Len(g) - Len(b)
  BY <1>1, <1>3
<1>5. ASSUME NEW i \in 1..Len(c) PROVE c[i] = h[Len(h) - Len(c) + i]
  <2>1. CASE i = Len(b) + 1
    BY <1>1, <1>3, <1>4, <2>1
  <2>2. CASE i # Len(b) + 1
    <3>0. i \in 1..Len(b) + 1 /\ Len(b) \in Nat /\ Len(g) \in Nat /\ Len(b) <= Len(g)
      BY <1>1, <1>3
    <3>1. i \in 1..Len(b) /\ Len(g) - Len(b) + i \in 1..Len(g)
      BY <2>2, <3>0
    <3>2. b[i] = g[Len(g) - Len(b) + i]
      BY <3>1 DEF Remembers
    <3> QED BY <1>3, <1>4, <3>1, <3>2
  <2> QED BY <2>1, <2>2
<1>6. ASSUME NEW i \in 1..Len(h) - Len(c) PROVE h[i] <= Cutoff
  <2>1. i \in 1..Len(g) - Len(b) /\ i \in 1..Len(g)
    BY <1>1, <1>4
  <2>2. g[i] <= Cutoff /\ h[i] = g[i]
    BY <1>3, <2>1 DEF Remembers
  <2> QED BY <2>2
<1>7. Remembers(c, h)
  BY <1>1, <1>3, <1>5, <1>6 DEF Remembers
<1> QED BY <1>2, <1>7

\* A key whose last hit is old may be forgotten.
LEMMA RemembersNothing ==
    ASSUME now \in Nat, NEW g \in Seq(Nat), NEW m \in Seq(Nat), Remembers(m, g), InOrder(g),
           m = <<>> \/ m[Len(m)] <= Cutoff
    PROVE  Remembers(<<>>, g)
<1>1. Len(g) \in Nat /\ Len(m) \in Nat /\ Len(m) <= Len(g) /\ DOMAIN g = 1..Len(g)
      /\ \A i \in 1..Len(g) : g[i] \in Nat
  BY LenProperties DEF Remembers
<1>2. Cutoff \in Int
  BY LimiterAssumption DEF Cutoff
<1>3. Len(<<>>) = 0
  OBVIOUS
<1>4. \A i \in 1..Len(g) : g[i] <= Cutoff
  <2>1. CASE m = <<>>
    BY <1>1, <1>3, <2>1 DEF Remembers
  <2>2. CASE m # <<>>
    <3>1. Len(m) \in 1..Len(m) /\ m[Len(m)] <= Cutoff
      BY <1>1, <2>2, EmptySeq
    <3>2. m[Len(m)] = g[Len(g) - Len(m) + Len(m)]
      BY <3>1 DEF Remembers
    <3>3. Len(g) - Len(m) + Len(m) = Len(g) /\ Len(g) \in 1..Len(g)
      BY <1>1, <3>1
    <3>4. g[Len(g)] <= Cutoff
      BY <3>1, <3>2, <3>3
    <3>5. ASSUME NEW i \in 1..Len(g) PROVE g[i] <= Cutoff
      <4>1. g[i] <= g[Len(g)] /\ g[i] \in Nat /\ g[Len(g)] \in Nat
        BY <1>1, <3>3 DEF InOrder
      <4> QED BY <1>2, <3>4, <4>1
    <3> QED BY <3>5
  <2> QED BY <2>1, <2>2
<1> QED BY <1>1, <1>3, <1>4 DEF Remembers

\* One more hit comes last, and at the limit's distance after an old one.
LEMMA OneMoreHit ==
    ASSUME now \in Nat, NEW g \in Seq(0..now), NEW b \in Seq(Nat), Remembers(b, g),
           Len(b) < Limit, InOrder(g), Spaced(g)
    PROVE  InOrder(Append(g, now)) /\ Spaced(Append(g, now))
<1>1. Len(g) \in Nat /\ Len(b) \in Nat /\ Len(b) <= Len(g) /\ DOMAIN g = 1..Len(g)
      /\ \A i \in 1..Len(g) : g[i] \in 0..now
  BY LenProperties DEF Remembers
<1>2. PICK h \in Seq(0..now) : h = Append(g, now)
  <2>1. now \in 0..now
    OBVIOUS
  <2> QED BY <2>1, AppendProperties
<1>3. /\ Len(h) = Len(g) + 1 /\ h[Len(g) + 1] = now /\ \A i \in 1..Len(g) : h[i] = g[i]
      /\ DOMAIN h = 1..Len(g) + 1
  BY <1>2, AppendProperties, LenProperties
<1>4. ASSUME NEW i \in DOMAIN h, NEW j \in DOMAIN h, i <= j PROVE h[i] <= h[j]
  <2>1. CASE j = Len(g) + 1
    <3>1. h[i] \in 0..now
      BY <1>1, <1>3
    <3> QED BY <1>3, <2>1, <3>1
  <2>2. CASE j # Len(g) + 1
    <3>1. i \in 1..Len(g) /\ j \in 1..Len(g)
      BY <1>1, <1>3, <1>4, <2>2
    <3> QED BY <1>1, <1>3, <1>4, <3>1 DEF InOrder
  <2> QED BY <2>1, <2>2
<1>5. ASSUME NEW i \in 1..Len(h), i + Limit <= Len(h) PROVE h[i] + Window <= h[i + Limit]
  <2> USE LimiterAssumption
  <2>1. CASE i + Limit = Len(g) + 1
    <3>1. i \in 1..Len(g) - Len(b) /\ i \in 1..Len(g)
      BY <1>1, <1>3, <1>5, <2>1
    <3>2. g[i] <= now - Window /\ g[i] \in Nat
      BY <1>1, <3>1 DEF Remembers, Cutoff
    <3>3. h[i] = g[i] /\ h[i + Limit] = now
      BY <1>3, <2>1, <3>1
    <3> QED BY <3>2, <3>3
  <2>2. CASE i + Limit # Len(g) + 1
    <3>0. i \in 1..Len(g) + 1 /\ i + Limit <= Len(g) + 1 /\ Len(g) \in Nat
      BY <1>1, <1>3, <1>5
    <3>a. PICK n \in Nat, l \in Nat : n = Len(g) /\ l = Limit
      BY <3>0
    <3>b. i \in Nat /\ 1 <= i /\ i <= n + 1 /\ i + l <= n + 1 /\ i + l # n + 1
      BY <2>2, <3>0, <3>a
    <3>c. i \in 1..n /\ i + l \in 1..n
      BY <3>b
    <3>1. i \in 1..Len(g) /\ i + Limit \in 1..Len(g)
      BY <3>a, <3>c
    <3> QED BY <1>1, <1>3, <3>1 DEF Spaced
  <2> QED BY <2>1, <2>2
<1> QED BY <1>2, <1>4, <1>5 DEF InOrder, Spaced

LEMMA LimiterInvInit == LimiterInit => LimiterInv
<1> SUFFICES ASSUME LimiterInit PROVE LimiterInv
  OBVIOUS
<1>1. DOMAIN hits = {} /\ now = 0 /\ \A k \in Keys : granted[k] = <<>>
  BY DEF LimiterInit
<1>2. LimiterTypeOK
  BY <1>1, LimiterAssumption DEF LimiterTypeOK, LimiterInit
<1>3. \A k \in Keys : Known(k) = <<>>
  BY <1>1 DEF Known
<1>4. InOrder(<<>>) /\ Spaced(<<>>) /\ Remembers(<<>>, <<>>)
  BY DEF InOrder, Spaced, Remembers
<1> QED BY <1>1, <1>2, <1>3, <1>4 DEF LimiterInv

\* A wider range of numbers takes every sequence of a narrower one.
LEMMA SeqWidens ==
    ASSUME NEW S, NEW T, S \subseteq T, NEW s \in Seq(S) PROVE s \in Seq(T)
BY LenProperties

LEMMA LimiterInvNext == LimiterInv /\ [LimiterNext]_limiterVars => LimiterInv'
<1> SUFFICES ASSUME LimiterInv, [LimiterNext]_limiterVars PROVE LimiterInv'
  OBVIOUS
<1> USE LimiterAssumption
<1>a. /\ now \in Nat /\ now \in 0..MaxNow /\ 0..now \subseteq Nat
      /\ DOMAIN hits \subseteq Keys /\ \A k \in DOMAIN hits : hits[k] \in Seq(0..now)
      /\ granted \in [Keys -> Seq(0..now)]
  BY DEF LimiterInv, LimiterTypeOK
<1>b. \A k \in Keys : Known(k) \in Seq(0..now) /\ Known(k) \in Seq(Nat) /\ granted[k] \in Seq(Nat)
  <2>1. \A k \in Keys : Known(k) \in Seq(0..now)
    BY <1>a, EmptySeq DEF Known
  <2> QED BY <1>a, <2>1, SeqWidens
<1>0. CASE UNCHANGED limiterVars
  BY <1>0 DEF LimiterInv, LimiterTypeOK, InOrder, Spaced, Remembers, Known, Cutoff, limiterVars
<1>1. CASE Tick
  <2>1. /\ now' = now + 1 /\ hits' = hits /\ granted' = granted /\ now' \in 0..MaxNow
        /\ 0..now \subseteq 0..now'
    BY <1>1, <1>a DEF Tick
  <2>2. LimiterTypeOK'
    BY <1>a, <2>1, SeqWidens DEF LimiterTypeOK
  <2>3. ASSUME NEW k \in Keys PROVE Remembers(Known(k), granted[k])'
    <3>1. PICK m, g : m = Known(k) /\ g = granted[k]
      OBVIOUS
    <3>2. Known(k)' = m /\ granted'[k] = g
      BY <2>1, <3>1 DEF Known
    <3>3. Remembers(m, g) /\ \A i \in 1..Len(g) - Len(m) : g[i] \in Nat
      BY <1>b, <3>1, LenProperties DEF LimiterInv
    <3>4. Remembers(m, g)'
      BY <1>a, <2>1, <3>3 DEF Remembers, Cutoff
    <3> QED BY <3>2, <3>4 DEF Remembers
  <2> QED BY <2>1, <2>2, <2>3 DEF LimiterInv, InOrder, Spaced
<1>2. ASSUME NEW k \in Keys, Hit(k) PROVE LimiterInv'
  <2>1. now' = now
    BY <1>2 DEF Hit
  <2>2. PICK b \in Seq(0..now) : b = Bucket(k) /\ Remembers(b, granted[k])
    <3>1. CASE k \in DOMAIN hits
      <4>1. Bucket(k) = Recent(hits[k]) /\ Known(k) = hits[k]
        BY <3>1 DEF Bucket, Known
      <4>2. /\ Recent(hits[k]) \in Seq(0..now)
            /\ \E d \in 0..Len(hits[k]) :
                 /\ \A i \in 1..d : hits[k][i] <= Cutoff
                 /\ Len(Recent(hits[k])) = Len(hits[k]) - d
                 /\ \A i \in 1..Len(hits[k]) - d : Recent(hits[k])[i] = hits[k][d + i]
        BY <1>a, <3>1, RecentIs
      <4>3. Recent(hits[k]) \in Seq(Nat)
        BY <1>a, <4>2, SeqWidens
      <4>4. Remembers(Recent(hits[k]), granted[k])
        BY <1>a, <1>b, <4>1, <4>2, <4>3, RemembersLess DEF LimiterInv
      <4> QED BY <4>1, <4>2, <4>4
    <3>2. CASE k \notin DOMAIN hits
      BY <3>2, EmptySeq DEF Bucket, Known, LimiterInv
    <3> QED BY <3>1, <3>2
  <2>3. b \in Seq(Nat)
    BY <1>a, <2>2, SeqWidens
  <2>4. ASSUME NEW j \in Keys, j # k, Known(j)' = Known(j) \/ Known(j)' = <<>>,
               Known(j)' # Known(j) => Known(j) = <<>> \/ Known(j)[Len(Known(j))] <= Cutoff
        PROVE  Remembers(Known(j)', granted[j])
    <3>1. Remembers(Known(j), granted[j]) /\ InOrder(granted[j])
      BY DEF LimiterInv
    <3>2. CASE Known(j)' = Known(j)
      BY <3>1, <3>2
    <3>3. CASE Known(j)' # Known(j)
      BY <1>a, <1>b, <2>4, <3>1, <3>3, RemembersNothing
    <3> QED BY <3>2, <3>3
  \* What is remembered of each key after the hit, from what its table says.
  <2>5. ASSUME NEW m, NEW g, m \in Seq(0..now), g \in Seq(0..now),
               InOrder(g), Spaced(g), Remembers(m, g),
               hits' = With(k, m) \/ hits' = Prune(With(k, m)),
               granted' = [granted EXCEPT ![k] = g]
        PROVE  LimiterInv'
    <3>1. /\ DOMAIN With(k, m) = DOMAIN hits \cup {k} /\ With(k, m)[k] = m
          /\ \A j \in DOMAIN hits \ {k} : With(k, m)[j] = hits[j]
      BY DEF With
    <3>2. \A j \in DOMAIN With(k, m) : With(k, m)[j] \in Seq(0..now)
      BY <1>a, <2>5, <3>1
    <3>3. /\ DOMAIN hits' \subseteq Keys
          /\ \A j \in DOMAIN hits' : hits'[j] = With(k, m)[j] /\ j \in DOMAIN With(k, m)
          /\ \A j \in DOMAIN With(k, m) \ DOMAIN hits' :
               With(k, m)[j] = <<>> \/ With(k, m)[j][Len(With(k, m)[j])] <= Cutoff
      <4>1. CASE hits' = With(k, m)
        BY <1>a, <3>1, <4>1
      <4>2. CASE hits' = Prune(With(k, m))
        BY <1>a, <3>1, <4>2 DEF Prune, Stale
      <4> QED BY <2>5, <4>1, <4>2
    <3>4. LimiterTypeOK'
      <4>1. granted' \in [Keys -> Seq(0..now)]
        BY <1>a, <2>5
      <4> QED BY <1>a, <2>1, <3>2, <3>3, <4>1 DEF LimiterTypeOK
    <3>5. ASSUME NEW j \in Keys
          PROVE  /\ InOrder(granted'[j]) /\ Spaced(granted'[j])
                 /\ Remembers(Known(j)', granted'[j])
      <4>1. CASE j = k
        <5>1. granted'[j] = g
          BY <1>a, <2>5, <4>1
        <5>2. m \in Seq(Nat) /\ g \in Seq(Nat)
          BY <1>a, <2>5, SeqWidens
        <5>3. CASE k \in DOMAIN hits'
          BY <2>5, <3>1, <3>3, <4>1, <5>1, <5>3 DEF Known
        <5>4. CASE k \notin DOMAIN hits'
          <6>1. m = <<>> \/ m[Len(m)] <= Cutoff
            BY <3>1, <3>3, <5>4
          <6>2. Remembers(<<>>, g)
            BY <1>a, <2>5, <5>2, <6>1, RemembersNothing
          <6>3. Known(j)' = <<>>
            BY <4>1, <5>4 DEF Known
          <6> QED BY <2>5, <5>1, <6>2, <6>3
        <5> QED BY <5>3, <5>4
      <4>2. CASE j # k
        <5>1. granted'[j] = granted[j]
          BY <1>a, <2>5, <4>2
        <5>2. CASE j \in DOMAIN hits
          <6>1. Known(j) = hits[j] /\ With(k, m)[j] = hits[j] /\ j \in DOMAIN With(k, m)
            BY <3>1, <4>2, <5>2 DEF Known
          <6>2. CASE j \in DOMAIN hits'
            <7>1. Known(j)' = Known(j)
              BY <3>3, <6>1, <6>2 DEF Known
            <7> QED BY <2>4, <4>2, <5>1, <7>1 DEF LimiterInv
          <6>3. CASE j \notin DOMAIN hits'
            <7>1. Known(j)' = <<>>
              BY <6>3 DEF Known
            <7>2. Known(j) = <<>> \/ Known(j)[Len(Known(j))] <= Cutoff
              BY <3>3, <6>1, <6>3
            <7> QED BY <2>4, <4>2, <5>1, <7>1, <7>2 DEF LimiterInv
          <6> QED BY <6>2, <6>3
        <5>3. CASE j \notin DOMAIN hits
          <6>1. j \notin DOMAIN hits'
            BY <3>1, <3>3, <4>2, <5>3
          <6>2. Known(j)' = Known(j)
            BY <5>3, <6>1 DEF Known
          <6> QED BY <2>4, <4>2, <5>1, <6>2 DEF LimiterInv
        <5> QED BY <5>2, <5>3
      <4> QED BY <4>1, <4>2
    <3>6. \A j \in Keys : Remembers(Known(j), granted[j])'
      BY <2>1, <3>5 DEF Remembers, Cutoff
    <3> QED BY <3>4, <3>5, <3>6 DEF LimiterInv, InOrder, Spaced
  <2>6. CASE hits' = With(k, b) /\ UNCHANGED granted
    <3>1. granted' = [granted EXCEPT ![k] = granted[k]] /\ granted[k] \in Seq(0..now)
          /\ InOrder(granted[k]) /\ Spaced(granted[k])
      BY <1>a, <2>6 DEF LimiterInv
    <3> QED BY <2>2, <2>5, <2>6, <3>1
  <2>7. CASE /\ Len(b) < Limit /\ granted' = [granted EXCEPT ![k] = Append(granted[k], now)]
             /\ hits' = With(k, Append(b, now)) \/ hits' = Prune(With(k, Append(b, now)))
    <3>1. Append(b, now) \in Seq(0..now) /\ Append(granted[k], now) \in Seq(0..now)
      BY <1>a, <2>2, AppendProperties
    <3>2. InOrder(Append(granted[k], now)) /\ Spaced(Append(granted[k], now))
      BY <1>a, <2>2, <2>3, <2>7, OneMoreHit DEF LimiterInv
    <3>3. Remembers(Append(b, now), Append(granted[k], now))
      BY <1>a, <1>b, <2>2, <2>3, RemembersMore
    <3> QED BY <2>5, <2>7, <3>1, <3>2, <3>3
  <2> QED BY <1>2, <2>2, <2>6, <2>7 DEF Hit
<1> QED BY <1>0, <1>1, <1>2 DEF LimiterNext

\* Hits in order and spaced leave no window with more of them than the limit.
LEMMA SpacedIsHeld == LimiterInv => WindowHeld
<1> SUFFICES ASSUME LimiterInv, NEW k \in Keys, NEW t \in 0..now
             PROVE  Cardinality({i \in DOMAIN granted[k] :
                       t - Window < granted[k][i] /\ granted[k][i] <= t}) <= Limit
  BY DEF WindowHeld
<1> USE LimiterAssumption
<1> DEFINE g == granted[k]
           S == {i \in DOMAIN g : t - Window < g[i] /\ g[i] <= t}
<1>1. now \in Nat /\ Len(g) \in Nat /\ DOMAIN g = 1..Len(g) /\ \A i \in 1..Len(g) : g[i] \in 0..now
  <2>1. g \in Seq(0..now) /\ now \in Nat
    BY DEF LimiterInv, LimiterTypeOK
  <2> QED BY <2>1, LenProperties
<1>2. InOrder(g) /\ Spaced(g)
  BY DEF LimiterInv
<1> HIDE DEF g
<1>3. CASE S = {}
  BY <1>3, FS_EmptySet DEF g
<1>4. CASE S # {}
  <2>1. S \subseteq Nat
    BY <1>1
  <2>2. PICK m \in S : \A i \in S : ~(<<i, m>> \in OpToRel(<, Nat))
    <3> HIDE DEF S
    <3> QED BY <1>4, <2>1, NatLessThanWellFounded, WFMin
  <2>3. \A i \in S : i \in Nat /\ m \in Nat /\ m <= i
    <3> HIDE DEF S
    <3>1. \A i \in S : i \in Nat /\ m \in Nat
      BY <2>1
    <3>2. \A i \in S : ~(i < m)
      BY <2>2, <3>1 DEF OpToRel
    <3> QED BY <3>1, <3>2
  <2>4. ASSUME NEW i \in S PROVE i \in m..m + Limit - 1
    <3>1. m \in 1..Len(g) /\ i \in 1..Len(g) /\ g[m] > t - Window /\ g[i] <= t /\ m <= i
      BY <1>1, <2>3
    <3>2. CASE m + Limit <= i
      <4>1. m + Limit \in 1..Len(g)
        BY <1>1, <3>1, <3>2
      <4>2. g[m] + Window <= g[m + Limit]
        BY <1>1, <1>2, <3>1, <4>1 DEF Spaced
      <4>3. g[m + Limit] <= g[i]
        BY <1>1, <1>2, <3>1, <3>2, <4>1 DEF InOrder
      <4>4. g[m] \in Nat /\ g[m + Limit] \in Nat /\ g[i] \in Nat
        BY <1>1, <3>1, <4>1
      <4> QED BY <3>1, <4>2, <4>3, <4>4
    <3>3. CASE ~(m + Limit <= i)
      BY <1>1, <3>1, <3>3
    <3> QED BY <3>2, <3>3
  <2>5. S \subseteq m..m + Limit - 1
    BY <2>4
  <2>6. IsFiniteSet(m..m + Limit - 1) /\ Cardinality(m..m + Limit - 1) <= Limit
    <3>1. m \in Int /\ m + Limit - 1 \in Int
      BY <2>1
    <3>2. /\ IsFiniteSet(m..m + Limit - 1)
          /\ Cardinality(m..m + Limit - 1)
               = IF m > m + Limit - 1 THEN 0 ELSE (m + Limit - 1) - m + 1
      BY <3>1, FS_Interval
    <3> QED BY <3>1, <3>2
  <2>7. Cardinality(S) <= Cardinality(m..m + Limit - 1) /\ IsFiniteSet(S)
    <3> HIDE DEF S
    <3> QED BY <2>5, <2>6, FS_Subset
  <2>8. Cardinality(S) \in Nat /\ Cardinality(m..m + Limit - 1) \in Nat
    <3> HIDE DEF S
    <3> QED BY <2>6, <2>7, FS_CardinalityType
  <2>9. Cardinality(S) <= Limit
    <3> HIDE DEF S
    <3> QED BY <2>6, <2>7, <2>8
  <2> QED BY <2>9 DEF g
<1> QED BY <1>3, <1>4

\* Every bucket holds hits of the past, of keys that exist (core/ratelimit.py).
THEOREM LimiterTypeCorrect == LimiterSpec => []LimiterTypeOK
<1>1. LimiterInv => LimiterTypeOK
  BY DEF LimiterInv
<1> QED BY <1>1, LimiterInvInit, LimiterInvNext, PTL DEF LimiterSpec

\* core/ratelimit.py: in no window of its length, wherever it lies, does a key
\* get through more often than the limit, however often old keys are forgotten.
THEOREM WindowHeldThm == LimiterSpec => []WindowHeld
BY LimiterInvInit, LimiterInvNext, SpacedIsHeld, PTL DEF LimiterSpec
-----------------------------------------------------------------------------
(*************************** an account's five parts *************************)
\* Each part moves as on its own, or stands still while another one moves.
LEMMA PartsAreAsAlone ==
    Spec => IdentitySpec /\ CodesSpec /\ SignInSpec /\ LimiterSpec /\ EnrolmentSpec
<1>1. Init => IdentityInit /\ CodesInit /\ SignInInit /\ LimiterInit /\ EnrolmentInit
  BY DEF Init
<1>2. [Next]_vars => [IdentityNext]_identityVars
  BY DEF Next, vars
<1>3. [Next]_vars => [CodesNext]_codesVars
  BY DEF Next, vars
<1>4. [Next]_vars => [SignInNext]_signInVars
  BY DEF Next, vars
<1>5. [Next]_vars => [LimiterNext]_limiterVars
  BY DEF Next, vars
<1>6. [Next]_vars => [EnrolmentNext]_enrolmentVars
  BY DEF Next, vars
<1> QED
  BY <1>1, <1>2, <1>3, <1>4, <1>5, <1>6, PTL
  DEF Spec, IdentitySpec, CodesSpec, SignInSpec, LimiterSpec, EnrolmentSpec

\* Every row, request, challenge, bucket and file is of its kind, whichever part
\* of the program moves (crud/user.py, auth_otp.py, mfa.py, ratelimit.py, agent.py).
THEOREM AccountsTypeCorrect == Spec => []AccountsTypeOK
<1>1. IdentityTypeOK /\ CodesTypeOK /\ SignInTypeOK /\ LimiterTypeOK /\ EnrolmentTypeOK
        => AccountsTypeOK
  BY DEF AccountsTypeOK
<1> QED
  BY <1>1, PartsAreAsAlone, IdentityTypeCorrect, CodesTypeCorrect, SignInTypeCorrect,
     LimiterTypeCorrect, EnrolmentTypeCorrect, PTL

\* What is proved of the parts holds of the program they make up.
THEOREM AccountsAreSafe ==
    Spec => /\ [](Governed /\ SeatsHeld /\ CodeBudget /\ ChallengeBudget /\ WindowHeld /\ Enrolled)
            /\ OutageSpares
            /\ OneAddress => []InviteAdmitsOne /\ RacersAreServed
BY PartsAreAsAlone, GovernedThm, SeatsHeldThm, CodeBudgetThm, ChallengeBudgetThm, WindowHeldThm,
   EnrolledThm, OutageSparesThm, InviteAdmitsOneThm, RacersAreServedThm, PTL
=============================================================================
