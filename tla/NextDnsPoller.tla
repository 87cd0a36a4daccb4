--------------------------- MODULE NextDnsPoller ---------------------------
(***************************************************************************)
(* The NextDNS poller (app/core/nextdns_poller.py, app/crud/nextdns.py)     *)
(* against the handlers that provision, disconnect and wipe a workspace     *)
(* (app/api/v1/endpoints/nextdns.py, org.py) and against NextDNS itself.    *)
(*                                                                          *)
(* A tick loads the configurations, and for each fetches a page of its      *)
(* profile's log, stores the new entries in one transaction and moves the   *)
(* cursor in another.  After an exception the session is rolled back, which *)
(* expires every object it holds; the next attribute read off one raises    *)
(* outside a greenlet, in the loop's own handler too, so the tick ends.     *)
(***************************************************************************)
EXTENDS Naturals, Sequences, FiniteSets

CONSTANTS
    Orgs,        \* organizations
    Broken,      \* those whose events cannot be stored (ingest raises)
    Requests,    \* handlers in progress at the same time
    Ops,         \* the operations on a configuration in this instance
    Faults,      \* what may go wrong
    Limit,       \* _LOG_LIMIT * _MAX_PAGES
    Second,      \* clock ticks in a second, to which "from" is cut
    Backlog,     \* "-24h" in ticks
    PerSecond,   \* bound on the queries of an organization in one second
    MaxNow,      \* bound on the clock
    MaxLog,      \* bound on the entries of a profile
    MaxRemovals  \* bound on the times a configuration is removed

AllOps == {"provision", "delete", "wipe"}
AllFaults == {"refused", "fails"}

ASSUME OrgAssumption == Broken \subseteq Orgs /\ "noorg" \notin Orgs
ASSUME InstanceAssumption == Ops \subseteq AllOps /\ Faults \subseteq AllFaults
ASSUME SizeAssumption ==
    /\ Limit \in Nat \ {0} /\ Second \in Nat \ {0} /\ PerSecond \in Nat
    /\ Backlog \in Nat /\ MaxNow \in Nat /\ MaxLog \in Nat /\ MaxRemovals \in Nat

VARIABLES
    now,       \* the clock; timestamps start at 1
    prof,      \* NextDNS: the profile of each organization, with its log
    row,       \* nextdns_configs, by organization
    last,      \* identifiers handed out, removals begun, by organization
    poll,      \* the poller
    req        \* the requests

vars == <<now, prof, row, last, poll, req>>

Never == 0    \* last_event_at is NULL
NoId == 0
NoOrg == "noorg"

(* A log entry, with the number of its copies in security_events (2 is      *)
(* "more than one").  `start` is history: where the row's first sync began. *)
Entry == [ts : Nat, named : BOOLEAN, copies : 0..2]
Profile == [id : Nat, log : Seq(Entry)]
Row == [id : Nat, profile : Nat, cursor : Nat, start : Nat]
Config == [org : Orgs \cup {NoOrg}, id : Nat, profile : Nat, cursor : Nat]
Poller == [pc : {"sleep", "next", "fetch", "ingest", "mark"}, todo : SUBSET Config,
           cfg : Config, from : Nat, events : SUBSET Nat, newest : Nat]
Request == [pc : {"idle", "create", "upsert", "commit", "remote"},
            op : AllOps \cup {"none"}, org : Orgs \cup {NoOrg}, id : Nat, profile : Nat]

NoProfile == [id |-> NoId, log |-> <<>>]
NoRow == [id |-> NoId, profile |-> NoId, cursor |-> Never, start |-> 0]
NoConfig == [org |-> NoOrg, id |-> NoId, profile |-> NoId, cursor |-> Never]
Asleep == [pc |-> "sleep", todo |-> {}, cfg |-> NoConfig, from |-> 0,
           events |-> {}, newest |-> Never]
Idle == [pc |-> "idle", op |-> "none", org |-> NoOrg, id |-> NoId, profile |-> NoId]

\* Every organization has been provisioned.
Init ==
    /\ now = 1
    /\ prof = [o \in Orgs |-> [id |-> 1, log |-> <<>>]]
    /\ row = [o \in Orgs |-> [id |-> 1, profile |-> 1, cursor |-> Never, start |-> 0]]
    /\ last = [o \in Orgs |-> [row |-> 1, prof |-> 1, removed |-> 0]]
    /\ poll = Asleep
    /\ req = [r \in Requests |-> Idle]

-----------------------------------------------------------------------------
(* NextDNS                                                                  *)

\* A device asks for a name; an entry without one is skipped by the poller.
\* Entries get the time of the query, and several may get the same.
LogQuery(o) ==
    /\ prof[o] # NoProfile /\ Len(prof[o].log) < MaxLog
    /\ Cardinality({i \in DOMAIN prof[o].log :
                       prof[o].log[i].ts \div Second = now \div Second}) < PerSecond
    /\ \E named \in BOOLEAN :
          prof' = [prof EXCEPT ![o].log =
                     Append(@, [ts |-> now, named |-> named, copies |-> 0])]
    /\ UNCHANGED <<now, row, last, poll, req>>

Tick ==
    /\ now < MaxNow
    /\ now' = now + 1
    /\ UNCHANGED <<prof, row, last, poll, req>>

-----------------------------------------------------------------------------
(* The poller                                                               *)

Configs ==
    {[org |-> o, id |-> row[o].id, profile |-> row[o].profile, cursor |-> row[o].cursor] :
        o \in {q \in Orgs : row[q] # NoRow}}

\* all_enabled, in no particular order.  Nothing ever disables a row, and a
\* row without a profile is never written.
StartTick ==
    /\ poll.pc = "sleep" /\ Configs # {}
    /\ poll' = [Asleep EXCEPT !.pc = "next", !.todo = Configs]
    /\ UNCHANGED <<now, prof, row, last, req>>

\* The next configuration of the loop.
Pick ==
    /\ poll.pc = "next"
    /\ \E c \in poll.todo : poll' = [poll EXCEPT !.pc = "fetch", !.cfg = c]
    /\ UNCHANGED <<now, prof, row, last, req>>

\* Mutants: a whole second before the cursor; always 24 hours ago.
FromSecondBefore(cursor) == IF cursor # Never THEN cursor - Second ELSE 0
FromBacklog(cursor) == IF now > Backlog THEN now - Backlog ELSE 0

\* The parameter "from": the cursor cut to its second, or 24 hours ago.
From(cursor) ==
    IF cursor # Never THEN cursor - (cursor % Second)
    ELSE IF now > Backlog THEN now - Backlog ELSE 0

\* The first Limit entries from `from` on; the log is in order of time.
Page(log, from) ==
    LET InRange == {i \in DOMAIN log : log[i].ts >= from}
    IN  {i \in InRange : ~(i > Limit /\ i - Limit \in InRange)}

Newest(log, page) ==
    IF page = {} THEN Never
    ELSE CHOOSE t \in {log[i].ts : i \in page} : \A i \in page : log[i].ts <= t

\* Mutant: an entry as old as the cursor counts as new.
NewIncluding(log, page, cursor) == {i \in page : log[i].ts >= cursor /\ log[i].named}

New(log, page, cursor) == {i \in page : log[i].ts > cursor /\ log[i].named}

\* Mutant: the cursor is the time of the sync.
FetchNow(o) ==
    LET c == poll.cfg
        log == prof[o].log
        page == Page(log, From(c.cursor))
        events == New(log, page, c.cursor)
    IN  /\ poll.pc = "fetch" /\ c.org = o
        /\ c.profile = prof[o].id
        /\ poll' = [poll EXCEPT !.pc = IF events = {} THEN "mark" ELSE "ingest",
                                !.from = From(c.cursor), !.events = events,
                                !.newest = now]
        /\ UNCHANGED <<now, prof, row, last, req>>

Fetch(o) ==
    LET c == poll.cfg
        log == prof[o].log
        page == Page(log, From(c.cursor))
        events == New(log, page, c.cursor)
    IN  /\ poll.pc = "fetch" /\ c.org = o
        /\ c.profile = prof[o].id
        /\ poll' = [poll EXCEPT !.pc = IF events = {} THEN "mark" ELSE "ingest",
                                !.from = From(c.cursor), !.events = events,
                                !.newest = Newest(log, page)]
        /\ UNCHANGED <<now, prof, row, last, req>>

\* 429, an error, or no such profile: what was fetched is thrown away and
\* only the status is written.
FetchRefused ==
    /\ poll.pc = "fetch"
    /\ "refused" \in Faults \/ poll.cfg.profile # prof[poll.cfg.org].id
    /\ poll' = [poll EXCEPT !.pc = "mark"]
    /\ UNCHANGED <<now, prof, row, last, req>>

\* ingest_security_events, to its commit.
Stored(entry) == [entry EXCEPT !.copies = IF @ = 0 THEN 1 ELSE 2]

Ingest ==
    LET c == poll.cfg
    IN  /\ poll.pc = "ingest" /\ c.org \notin Broken
        /\ prof' = IF c.profile # prof[c.org].id THEN prof
                   ELSE [prof EXCEPT ![c.org].log =
                           [i \in DOMAIN @ |-> IF i \in poll.events THEN Stored(@[i]) ELSE @[i]]]
        /\ poll' = [poll EXCEPT !.pc = "mark"]
        /\ UNCHANGED <<now, row, last, req>>

\* Before the commit: match_or_create_device raises for two devices that had
\* the same address, now and then or, in a Broken organization, each time.
IngestRaises ==
    /\ poll.pc = "ingest"
    /\ poll.cfg.org \in Broken \/ "fails" \in Faults
    /\ poll' = Asleep
    /\ UNCHANGED <<now, prof, row, last, req>>

Synced(r) ==
    [r EXCEPT !.cursor = IF poll.newest # Never THEN poll.newest ELSE @,
              !.start = IF poll.cfg.cursor = Never /\ poll.newest # Never THEN poll.from ELSE @]

\* mark_synced; the row the poller holds may have gone (StaleDataError).
Mark ==
    LET c == poll.cfg
        rest == poll.todo \ {c}
        there == row[c.org].id = c.id
    IN  /\ poll.pc = "mark"
        /\ row' = IF there THEN [row EXCEPT ![c.org] = Synced(@)] ELSE row
        /\ poll' = IF there /\ rest # {}
                   THEN [Asleep EXCEPT !.pc = "next", !.todo = rest]
                   ELSE Asleep
        /\ UNCHANGED <<now, prof, last, req>>

\* An exception, after the events' commit too (sending an alert), or a restart.
PollFails ==
    /\ "fails" \in Faults /\ poll.pc # "sleep"
    /\ poll' = Asleep
    /\ UNCHANGED <<now, prof, row, last, req>>

-----------------------------------------------------------------------------
(* provision_profile                                                        *)

ProvisionBegin(r, o) ==
    /\ req[r] = Idle /\ "provision" \in Ops
    /\ row[o] = NoRow
    /\ req' = [req EXCEPT ![r] = [Idle EXCEPT !.pc = "create", !.op = "provision", !.org = o]]
    /\ UNCHANGED <<now, prof, row, last, poll>>

\* NextDNS makes a profile, or has one of that name, which is found and used.
\* Making one takes time: its log begins after what was logged before.
ProvisionCreate(r) ==
    LET o == req[r].org
    IN  /\ req[r].pc = "create"
        /\ IF prof[o] = NoProfile
           THEN /\ now < MaxNow /\ now' = now + 1
                /\ prof' = [prof EXCEPT ![o] = [NoProfile EXCEPT !.id = last[o].prof + 1]]
                /\ last' = [last EXCEPT ![o].prof = @ + 1]
           ELSE UNCHANGED <<now, prof, last>>
        /\ req' = [req EXCEPT ![r] = [@ EXCEPT !.pc = "upsert", !.profile = prof'[o].id]]
        /\ UNCHANGED <<row, poll>>

\* A row that is there, made by another request since, keeps its cursor.
Upserted(o, profile) ==
    IF row[o] = NoRow
    THEN [NoRow EXCEPT !.id = last[o].row + 1, !.profile = profile]
    ELSE [row[o] EXCEPT !.profile = profile]

Upsert(r) ==
    LET o == req[r].org
    IN  /\ req[r].pc = "upsert"
        /\ row' = [row EXCEPT ![o] = Upserted(o, req[r].profile)]
        /\ last' = [last EXCEPT ![o].row = IF row[o] = NoRow THEN @ + 1 ELSE @]
        /\ req' = [req EXCEPT ![r] = Idle]
        /\ UNCHANGED <<now, prof, poll>>

-----------------------------------------------------------------------------
(* delete_config and wipe_org_data                                          *)

RemoveBegin(r, o) ==
    \E op \in Ops \ {"provision"} :
        /\ req[r] = Idle
        /\ row[o] # NoRow /\ last[o].removed < MaxRemovals
        /\ last' = [last EXCEPT ![o].removed = @ + 1]
        /\ req' = [req EXCEPT ![r] =
                     [pc |-> "commit", op |-> op, org |-> o,
                      id |-> row[o].id, profile |-> row[o].profile]]
        /\ UNCHANGED <<now, prof, row, poll>>

\* A DELETE by key removes the row that was read, a wipe whatever is there,
\* the events with it.
RemoveCommit(r) ==
    LET o == req[r].org
        wiped == [i \in DOMAIN prof[o].log |-> [prof[o].log[i] EXCEPT !.copies = 0]]
    IN  /\ req[r].pc = "commit"
        /\ row' = [row EXCEPT ![o] =
                     IF req[r].op = "wipe" \/ @.id = req[r].id THEN NoRow ELSE @]
        /\ prof' = IF req[r].op = "wipe" THEN [prof EXCEPT ![o].log = wiped] ELSE prof
        /\ req' = [req EXCEPT ![r] = [@ EXCEPT !.pc = "remote"]]
        /\ UNCHANGED <<now, last, poll>>

\* delete_profile, best effort.
RemoveRemote(r) ==
    LET o == req[r].org
    IN  /\ req[r].pc = "remote"
        /\ \/ prof' = [prof EXCEPT ![o] = IF @.id = req[r].profile THEN NoProfile ELSE @]
           \/ "refused" \in Faults /\ UNCHANGED prof
        /\ req' = [req EXCEPT ![r] = Idle]
        /\ UNCHANGED <<now, row, last, poll>>

RequestFails(r) ==
    /\ "fails" \in Faults /\ req[r] # Idle
    /\ req' = [req EXCEPT ![r] = Idle]
    /\ UNCHANGED <<now, prof, row, last, poll>>

-----------------------------------------------------------------------------
Poll ==
    \/ StartTick \/ Pick \/ (\E o \in Orgs : Fetch(o)) \/ FetchRefused
    \/ Ingest \/ IngestRaises \/ Mark

Provision(r) == (\E o \in Orgs : ProvisionBegin(r, o)) \/ ProvisionCreate(r) \/ Upsert(r)

Remove(r) == (\E o \in Orgs : RemoveBegin(r, o)) \/ RemoveCommit(r) \/ RemoveRemote(r)

Next ==
    \/ Tick \/ (\E o \in Orgs : LogQuery(o))
    \/ Poll \/ PollFails
    \/ \E r \in Requests : Provision(r) \/ Remove(r) \/ RequestFails(r)

Spec == Init /\ [][Next]_vars

\* The poller ticks for ever, and NextDNS does not refuse for ever.
FairSpec ==
    /\ Spec
    /\ WF_vars(Poll)
    /\ \A o \in Orgs : SF_vars(Fetch(o))

-----------------------------------------------------------------------------
(* Properties                                                               *)

\* Every variable has its type.
TypeOK ==
    /\ now \in Nat
    /\ prof \in [Orgs -> Profile]
    /\ row \in [Orgs -> Row]
    /\ last \in [Orgs -> [row : Nat, prof : Nat, removed : Nat]]
    /\ poll \in Poller
    /\ req \in [Requests -> Request]

\* The log the row's cursor is about.
Following(o) == row[o] # NoRow /\ row[o].profile = prof[o].id
Log(o) == prof[o].log
IsFirstOfItsTime(o, i) == \A j \in DOMAIN Log(o) : j < i => Log(o)[j].ts # Log(o)[i].ts

\* What the cursor has passed is stored: an entry can be lost only to another
\* of the same millisecond that was logged before it (nextdns_poller.py:135,
\* "dt <= last").  Neither a page that is cut, a refusal after some pages, a
\* failure between the two commits nor a configuration that is replaced
\* during the sync makes the cursor pass an entry that was not stored.
PassedIsStored ==
    \A o \in Orgs : Following(o) =>
        \A i \in DOMAIN Log(o) :
            /\ Log(o)[i].named /\ IsFirstOfItsTime(o, i)
            /\ row[o].start <= Log(o)[i].ts /\ Log(o)[i].ts <= row[o].cursor
            => Log(o)[i].copies > 0

\* The pages do not hold the second of the cursor.
Crowded(o) ==
    Cardinality({i \in DOMAIN Log(o) :
                   Log(o)[i].ts \div Second = row[o].cursor \div Second}) > Limit

\* The poller is about to mark a row by the log of a profile that was replaced
\* under it; a log with more entries in a second than the pages hold may have
\* given it a time before the cursor.
Outlived(o) ==
    PerSecond > Limit /\ poll.pc = "mark" /\ poll.cfg.org = o /\ poll.cfg.profile # prof[o].id

\* What the cursor of a row has passed is never stored again, although each
\* fetch starts at the full second before the cursor, and the cursor of a row
\* never goes back: only entries above it are repeated, after a failure.  It does
\* go back if the pages cannot hold its second, in this log or in the one that
\* was fetched: the first fetch of a row may have begun in the middle of it.
PassedIsFinal ==
    [][\A o \in Orgs : Following(o) /\ row'[o].id = row[o].id /\ ~Crowded(o) =>
          /\ row'[o].cursor >= row[o].cursor \/ Outlived(o)
          /\ prof'[o].id = prof[o].id =>
                \A i \in DOMAIN Log(o) : Log(o)[i].ts <= row[o].cursor =>
                    prof'[o].log[i].copies <= Log(o)[i].copies]_vars

\* A configuration's profile exists, when no request is in progress: otherwise
\* provisioning answers "configured" and every sync gets a 404.
ConfiguredExists ==
    (\A r \in Requests : req[r] = Idle) =>
        \A o \in Orgs : row[o] # NoRow => Following(o)

\* "Every period it goes round ALL the organizations" (nextdns_poller.py:3):
\* each entry of an organization whose events can be stored is stored.
AllAreServed ==
    \A o \in Orgs \ Broken, i \in 1..MaxLog :
        (i \in DOMAIN Log(o) /\ Log(o)[i].named /\ IsFirstOfItsTime(o, i))
            ~> (i \in DOMAIN Log(o) => Log(o)[i].copies > 0 \/ row[o] = NoRow)
=============================================================================
