------------------------------ MODULE Enrolment ------------------------------
(* How a machine becomes an agent (agent.py, crud/agent.py): the program reads  *)
(* its configuration and the environment, enrols itself with a sensor token    *)
(* when it has no id or the token is another one, writes the configuration, and *)
(* polls with what it got.  What it then polls for is in AgentJobs.             *)
(*                                                                            *)
(* The server looks an agent up by organization and host name, and inserts it  *)
(* if there is none; no index keeps two requests from doing so.  A request     *)
(* goes on when the machine that made it has given up.                         *)
EXTENDS Naturals, Sequences, FiniteSets

CONSTANTS Enrolments,  \* requests the server works on
          Machines,    \* <<host name, number>>: names need not differ
          Tokens,      \* <<organization, number>>
          MaxAgents    \* bound of the model

Unset == <<>>  \* no token in the environment
ASSUME EnrolmentAssumption == MaxAgents \in Nat /\ Unset \notin Tokens

VARIABLES tokens,   \* the sensor tokens: not made yet, in the table, or wiped
          agents,   \* the table, in the order of creation
          config,   \* agent_config.json of each machine
          proc,     \* what agent.py is doing on each machine
          request,  \* what the server has read for each request
          twice     \* organizations and hosts inserted by two requests across
                    \* each other (not in the code)

enrolmentVars == <<tokens, agents, config, proc, request, twice>>

Host(m) == m[1]
Org(t) == t[1]
Hosts == {Host(m) : m \in Machines}
Orgs == {Org(t) : t \in Tokens}

NoFile == [is |-> "missing"]
Torn == [is |-> "torn"]
Saved(t, a) == [is |-> "saved", token |-> t, id |-> a]
Config == {NoFile, Torn} \cup [is : {"saved"}, token : Tokens, id : 1..MaxAgents]
Off == [at |-> "off"]
Proc == {Off} \cup [at : {"waiting"}, token : Tokens, req : Enrolments]
   \cup [at : {"writing", "polling"}, token : Tokens, id : 1..MaxAgents]
Open == [at |-> "free"]
Request == {Open} \cup [at : {"look", "insert"}, org : Orgs, host : Hosts]
   \cup [at : {"update"}, org : Orgs, host : Hosts, id : 1..MaxAgents]

EnrolmentInit ==
    /\ tokens = [t \in Tokens |-> "none"] /\ agents = <<>> /\ twice = {}
    /\ config = [m \in Machines |-> NoFile]
    /\ proc = [m \in Machines |-> Off]
    /\ request = [r \in Enrolments |-> Open]

(********************************* agent.py *********************************)
\* HOMESIEM_SENSOR_TOKEN if it is set, or what the configuration says.
TokenFor(m, env) == IF env # Unset THEN env ELSE config[m].token

\* The id of the configuration, unless the environment has another token.
\* Mutant: whatever the environment says.
KnownIdAlways(m, env) == IF config[m] = NoFile THEN {} ELSE {config[m].id}
KnownId(m, env) ==
    IF config[m] = NoFile \/ env \notin {Unset, config[m].token} THEN {} ELSE {config[m].id}

Runs(m, p) == proc' = [proc EXCEPT ![m] = p]

\* Without a token, with one that was wiped, or with a file that is not JSON, the
\* program ends at once.
Launch(m) ==
    /\ proc[m] = Off /\ config[m] # Torn
    /\ \E env \in {t \in Tokens : tokens[t] # "none"} \cup {Unset} :
         /\ env = Unset => config[m] # NoFile
         /\ \/ /\ \E a \in KnownId(m, env) :
                    Runs(m, [at |-> "polling", token |-> TokenFor(m, env), id |-> a])
               /\ UNCHANGED request
            \/ /\ KnownId(m, env) = {} /\ tokens[env] = "live"
               /\ \E r \in Enrolments :
                    /\ request[r] = Open
                    /\ request' = [request EXCEPT ![r] =
                         [at |-> "look", org |-> Org(env), host |-> Host(m)]]
                    /\ Runs(m, [at |-> "waiting", token |-> env, req |-> r])
    /\ UNCHANGED <<tokens, agents, config, twice>>

\* open() empties the file, and json.dump fills it.
WriteConfig(m) ==
    /\ proc[m].at = "writing"
    /\ config' = [config EXCEPT ![m] = Saved(proc[m].token, proc[m].id)]
    /\ Runs(m, [proc[m] EXCEPT !.at = "polling"])
    /\ UNCHANGED <<tokens, agents, request, twice>>

\* A time-out ends the program, and so does its user.
Quit(m) ==
    /\ proc[m] # Off /\ Runs(m, Off)
    /\ UNCHANGED <<tokens, agents, config, request, twice>>

\* The user throws the file away.
Forget(m) ==
    /\ proc[m] = Off /\ config[m] # NoFile
    /\ config' = [config EXCEPT ![m] = NoFile]
    /\ UNCHANGED <<tokens, agents, proc, request, twice>>

(********************************* the server *******************************)
Waiters(r) == {m \in Machines : proc[m].at = "waiting" /\ proc[m].req = r}
\* The machine that waits for this request, if it still does, has its answer.
Answers(r, a) ==
    /\ proc' = [m \in Machines |->
         IF m \in Waiters(r) THEN [at |-> "writing", token |-> proc[m].token, id |-> a]
         ELSE proc[m]]
    /\ config' = [m \in Machines |-> IF m \in Waiters(r) THEN Torn ELSE config[m]]
    /\ request' = [request EXCEPT ![r] = Open]
Refuses(r) ==
    /\ proc' = [m \in Machines |-> IF m \in Waiters(r) THEN Off ELSE proc[m]]
    /\ request' = [request EXCEPT ![r] = Open]

Existing(q) == {a \in DOMAIN agents :
                  agents[a].org = q.org /\ agents[a].host = q.host /\ ~agents[a].gone}

\* scalar_one_or_none raises if there are two.
LookUp(r) ==
    LET q == request[r]
    IN  /\ q.at = "look"
        /\ \/ /\ Cardinality(Existing(q)) > 1 /\ Refuses(r)
           \/ /\ Existing(q) = {}
              /\ request' = [request EXCEPT ![r].at = "insert"] /\ UNCHANGED proc
           \/ /\ Cardinality(Existing(q)) = 1
              /\ \E a \in Existing(q) : request' = [request EXCEPT ![r] =
                   [at |-> "update", org |-> q.org, host |-> q.host, id |-> a]]
              /\ UNCHANGED proc
        /\ UNCHANGED <<tokens, agents, config, twice>>

InsertAgent(r) ==
    LET q == request[r]
    IN  /\ q.at = "insert" /\ Len(agents) < MaxAgents
        /\ agents' = Append(agents, [org |-> q.org, host |-> q.host, gone |-> FALSE])
        /\ twice' = twice \cup {p \in {<<q.org, q.host>>} : Existing(q) # {}}
        /\ Answers(r, Len(agents) + 1) /\ UNCHANGED tokens

UpdateAgent(r) ==
    LET q == request[r]
    IN  /\ q.at = "update" /\ ~agents[q.id].gone /\ Answers(r, q.id)
        /\ UNCHANGED <<tokens, agents, twice>>

\* The row was deleted since, the device of its address is one of two, or the
\* database fails.
EnrolmentFails(r) ==
    /\ request[r] # Open /\ Refuses(r) /\ UNCHANGED <<tokens, agents, config, twice>>

RemoveAgent ==
    /\ \E a \in DOMAIN agents :
         ~agents[a].gone /\ agents' = [agents EXCEPT ![a].gone = TRUE]
    /\ UNCHANGED <<tokens, config, proc, request, twice>>

\* An owner makes a token, and sees it once.
CreateToken ==
    /\ \E t \in Tokens : tokens[t] = "none" /\ tokens' = [tokens EXCEPT ![t] = "live"]
    /\ UNCHANGED <<agents, config, proc, request, twice>>

\* Deletes the tokens and the agents of an organization.
WipeEnrolments ==
    /\ \E o \in Orgs :
         /\ agents' = [a \in DOMAIN agents |->
                        [agents[a] EXCEPT !.gone = @ \/ agents[a].org = o]]
         /\ tokens' = [t \in Tokens |->
                        IF Org(t) = o /\ tokens[t] = "live" THEN "gone" ELSE tokens[t]]
    /\ UNCHANGED <<config, proc, request, twice>>

EnrolmentNext ==
    \/ \E m \in Machines : Launch(m) \/ WriteConfig(m) \/ Quit(m) \/ Forget(m)
    \/ \E r \in Enrolments : LookUp(r) \/ InsertAgent(r) \/ UpdateAgent(r) \/ EnrolmentFails(r)
    \/ RemoveAgent \/ CreateToken \/ WipeEnrolments

EnrolmentSpec == EnrolmentInit /\ [][EnrolmentNext]_enrolmentVars

(******************************** properties ********************************)
\* Every row, file, process and request is of its kind.
EnrolmentTypeOK ==
    /\ tokens \in [Tokens -> {"none", "live", "gone"}]
    /\ agents \in Seq([org : Orgs, host : Hosts, gone : BOOLEAN]) /\ Len(agents) <= MaxAgents
    /\ config \in [Machines -> Config] /\ proc \in [Machines -> Proc]
    /\ request \in [Enrolments -> Request] /\ twice \subseteq Orgs \X Hosts

\* agent.py, crud/agent.py: a machine polls as the agent of its own host name in
\* the organization of the token it uses, through other tokens, restarts,
\* answers lost and files thrown away; and until that agent is deleted it is
\* the only one of its name, unless two requests enrolled it across each other.
Enrolled ==
    \A m \in Machines : proc[m].at = "polling" =>
      LET row == agents[proc[m].id]
      IN  /\ row.org = Org(proc[m].token) /\ row.host = Host(m)
          /\ row.gone \/ <<row.org, row.host>> \in twice
             \/ Existing([org |-> row.org, host |-> row.host]) = {proc[m].id}

\* agent.py: "the configuration is saved, just run it": what a machine that is
\* off has on its disk, it can start from.  The code does not keep it: the file
\* is emptied before it is written.
StartsAgain == \A m \in Machines : proc[m] = Off => config[m] # Torn
=============================================================================
